----------------------------- MODULE MCTaskService -----------------------------
(***************************************************************************)
(* What a task has around its adapter: the limiter it waits in, and the    *)
(* two looks at its workspace.  They share nothing; a behaviour is one of  *)
(* the limiter or one of two walks over a small directory.                 *)
(***************************************************************************)
EXTENDS MCKeyedLimiter, WorkspaceEvidence

MCAbove == [place \in Places |-> CASE place = "src/a" -> "src" [] place = "dist/b" -> "dist"
                                   [] OTHER -> Root]

FileOf(content) == [kind |-> "file", hash |-> content]
Workspace(more) ==
  more @@ [place \in Places \cup {Root} |->
             CASE place \in {Root, "src", "dist"} -> Directory
               [] OTHER -> FileOf(CHOOSE content \in Contents : TRUE)]

(* A workspace with everything in it, one with a link, and none.            *)
MCWorkspaces ==
  {Workspace(<<>>),
   Workspace("readme" :> [kind |-> "link", hash |-> CHOOSE content \in Contents : TRUE]),
   [place \in Places \cup {Root} |-> Nothing]}

ASSUME MCWorkspacesAreTrees == MCWorkspaces \subseteq Trees

NoWalk == [style |-> "none", stage |-> "none"]

MCInit ==
  \/ Init /\ walk = NoWalk /\ there = <<>> /\ truth = <<>>
  \/ Init /\ EvidenceInit(MCWorkspaces)

EvidenceFinished == Compared /\ UNCHANGED evidenceVars

MCNext ==
  \/ walk.style = "none" /\ Next /\ UNCHANGED evidenceVars
  \/ walk.style # "none" /\ (EvidenceNext \/ EvidenceFinished) /\ UNCHANGED vars

MCSpec ==
  /\ MCInit /\ [][MCNext]_<<vars, evidenceVars>>
  /\ \A j \in Jobs : WF_vars(Microtask(j)) /\ WF_vars(Settle(j))
=============================================================================
