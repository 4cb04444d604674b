----------------------------- MODULE OwnedTarget -----------------------------
(***************************************************************************)
(* What the Job helper promises the process that started it, without       *)
(* threads, gate, lifecycle machine or kernel calls: a process tree is     *)
(* created held, may run, is announced, and ends; one verdict is reported  *)
(* about it; and an owner that leaves takes the tree with it.              *)
(***************************************************************************)

VARIABLES
  tree,     \* the target's process tree
  ran,      \* the target executed at least one instruction
  ready,    \* READY has been reported
  verdict,  \* the terminal frame reported
  owner,    \* the helper
  kill      \* the tree is condemned

vars == <<tree, ran, ready, verdict, owner, kill>>

TypeOK ==
  /\ tree \in {"absent", "held", "alive", "empty"}
  /\ ran \in BOOLEAN /\ ready \in BOOLEAN /\ kill \in BOOLEAN
  /\ verdict \in {"none", "exit", "error"}
  /\ owner \in {"present", "gone"}

Init == /\ tree = "absent" /\ ran = FALSE /\ ready = FALSE
        /\ verdict = "none" /\ owner = "present" /\ kill = FALSE

OwnerActs == owner = "present"

Create ==
  /\ OwnerActs /\ verdict = "none" /\ ~kill
  /\ tree = "absent" /\ tree' = "held"
  /\ UNCHANGED <<ran, ready, verdict, owner, kill>>

Run ==
  /\ OwnerActs /\ verdict = "none" /\ ~kill
  /\ tree = "held" /\ tree' = "alive" /\ ran' = TRUE
  /\ UNCHANGED <<ready, verdict, owner, kill>>

(* A short-lived target may be gone before it is announced. *)
Announce ==
  /\ OwnerActs /\ verdict = "none"
  /\ ran /\ ~ready /\ ready' = TRUE
  /\ UNCHANGED <<tree, ran, verdict, owner, kill>>

Condemn ==
  /\ OwnerActs /\ kill' = TRUE
  /\ UNCHANGED <<tree, ran, ready, verdict, owner>>

(* A running tree may end by itself; a held one only when it is killed. *)
TreeEnds ==
  /\ tree = "alive" \/ (tree = "held" /\ kill)
  /\ tree' = "empty"
  /\ UNCHANGED <<ran, ready, verdict, owner, kill>>

KillTakesEffect == kill /\ TreeEnds

ReportExit ==
  /\ OwnerActs /\ verdict = "none" /\ ready /\ tree = "empty"
  /\ verdict' = "exit"
  /\ UNCHANGED <<tree, ran, ready, owner, kill>>

ReportError ==
  /\ OwnerActs /\ verdict = "none" /\ (ran => ready)
  /\ verdict' = "error"
  /\ UNCHANGED <<tree, ran, ready, owner, kill>>

(* Leaving, in good order or by force, condemns whatever is left. *)
Leave ==
  /\ OwnerActs /\ owner' = "gone"
  /\ kill' \in {kill, TRUE} /\ (tree \in {"held", "alive"} => kill')
  /\ UNCHANGED <<tree, ran, ready, verdict>>

(* The owner's last act may be the one that condemns the tree. *)
Next == \/ Create \/ Run \/ Announce \/ Condemn \/ TreeEnds
        \/ ReportExit \/ ReportError \/ Leave

Spec == Init /\ [][Next]_vars
FairSpec == Spec /\ WF_vars(KillTakesEffect)
=============================================================================
