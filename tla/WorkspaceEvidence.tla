--------------------------- MODULE WorkspaceEvidence ---------------------------
(***************************************************************************)
(* Two walks over a directory and their comparison: around the run of an   *)
(* adapter (src/evidence/workspace.ts) and around an installation of the   *)
(* plugin (src/plugin/state-snapshot.ts).  A walk lists a directory once   *)
(* and then goes to what it has listed, one entry after the other, while   *)
(* others may write, replace and remove; so does the work in between.      *)
(*                                                                         *)
(* A link leads to a file outside.  A directory is listed in one step,     *)
(* which is so up to 32 entries, and its entries come in any order.  What  *)
(* git says of the workspace goes into the packet of a review and into no  *)
(* comparison, and is left out.                                            *)
(***************************************************************************)
EXTENDS Naturals, Sequences

CONSTANTS
  Root, Places,  \* the directory, and what may be in it
  Above,         \* the directory a place is in
  Ignored,       \* the places named .git, node_modules or dist
  Contents, Far, \* what a file or a link holds, and the file outside
  MaxEdits       \* how often the others and the work act

ASSUME EvidenceAssumption ==
  /\ Root \notin Places /\ Above \in [Places -> Places \cup {Root}]
  /\ \A some \in SUBSET Places : some # {} => \E place \in some : Above[place] \notin some
  /\ Ignored \subseteq Places /\ Far \notin Contents /\ MaxEdits \in Nat

VARIABLES
  there,   \* what is at every place
  walk,    \* the two walks
  truth    \* for the properties: what was there first, what has changed, what changed under a walk

evidenceVars == <<there, walk, truth>>

Nothing == [kind |-> "none", hash |-> Far]
Directory == [kind |-> "dir", hash |-> Far]
Entries == {Nothing, Directory} \cup [kind : {"file", "link"}, hash : Contents]

(* What a file system may hold: what is anywhere is in a directory.         *)
Trees ==
  {tree \in [Places \cup {Root} -> Entries] :
     /\ tree[Root] \in {Nothing, Directory}
     /\ \A place \in Places : tree[place] # Nothing => tree[Above[place]] = Directory}

NoEntry == [place |-> Root, kind |-> "none"]
NoFiles == [place \in Places |-> Nothing]
Walking == walk.stage \in {"before", "after"}

-----------------------------------------------------------------------------
(* The directories that are open, each with the entries still to come; of a *)
(* snapshot also the entry whose metadata has been read.                    *)
Listing(place) ==
  {[place |-> p, kind |-> there[p].kind] :
     p \in {q \in Places : Above[q] = place /\ there[q] # Nothing}}

Rest(todo, entry) == <<Head(todo) \ {entry}>> \o Tail(todo)
Left(todo) ==   \* the directories that are read to the end are left
  LET full == {i \in DOMAIN todo : todo[i] # {}} IN
  IF full = {} THEN <<>>
  ELSE SubSeq(todo, CHOOSE i \in full : \A j \in full : i <= j, Len(todo))

(* A walk that has nothing left is over.                                    *)
Walked(todo, files) ==
  walk' = IF Left(todo) # <<>>
          THEN [walk EXCEPT !.todo = Left(todo), !.at = NoEntry, !.files = files]
          ELSE IF walk.stage = "before"
          THEN [walk EXCEPT !.stage = "work", !.todo = <<>>, !.at = NoEntry,
                            !.before = files, !.files = NoFiles]
          ELSE [walk EXCEPT !.stage = "done", !.todo = <<>>, !.at = NoEntry, !.files = files]

Fails == walk' = [walk EXCEPT !.stage = "failed"]
Record(todo, place, entry) == Walked(todo, [walk.files EXCEPT ![place] = entry])

Starts(style) == /\ Walking /\ ~walk.open /\ walk.style = style /\ UNCHANGED <<there, truth>>
FromRoot == walk' = [walk EXCEPT !.open = TRUE, !.todo = <<{[place |-> Root, kind |-> "dir"]}>>]

StartCapture == Starts("capture") /\ IF there[Root] = Nothing THEN Fails ELSE FromRoot

(* There may be nothing to take a snapshot of.                              *)
StartSnapshot ==
  Starts("snapshot") /\ IF there[Root] = Nothing THEN Walked(<<>>, NoFiles) ELSE FromRoot

(* What an entry is, the capture takes from the listing; the snapshot looks *)
(* at it when its turn comes, and refuses what is no file or directory.     *)
Stat ==
  /\ Walking /\ walk.open /\ walk.style = "snapshot" /\ walk.at = NoEntry
  /\ \E entry \in Head(walk.todo) :
       LET kind == there[entry.place].kind IN
       IF kind \in {"file", "dir"}
       THEN walk' = [walk EXCEPT !.todo = Rest(@, entry),
                                 !.at = [place |-> entry.place, kind |-> kind]]
       ELSE Fails
  /\ UNCHANGED <<there, truth>>

ReadFile(todo, place) ==
  CASE there[place].kind = "file" -> Record(todo, place, there[place])
    [] there[place].kind = "link" -> Record(todo, place, [kind |-> "file", hash |-> Far])
    [] OTHER -> Fails

ReadDirectory(todo, place) ==
  IF there[place].kind = "dir" THEN Walked(<<Listing(place)>> \o todo, walk.files) ELSE Fails

CollectEntry ==
  /\ Walking /\ walk.open /\ walk.style = "capture"
  /\ \E entry \in Head(walk.todo) :
       LET todo == Rest(walk.todo, entry)
           place == entry.place IN
       CASE entry.kind = "dir" /\ place \in Ignored -> Walked(todo, walk.files)
         [] entry.kind = "dir" /\ place \notin Ignored -> ReadDirectory(todo, place)
         [] entry.kind = "link" ->
              IF there[place].kind = "link" THEN Record(todo, place, there[place]) ELSE Fails
         [] OTHER -> ReadFile(todo, place)
  /\ UNCHANGED <<there, truth>>

VisitEntry ==
  /\ Walking /\ walk.at # NoEntry
  /\ IF walk.at.kind = "dir" THEN ReadDirectory(walk.todo, walk.at.place)
     ELSE ReadFile(walk.todo, walk.at.place)
  /\ UNCHANGED <<there, truth>>

(* The adapter has returned, its process is gone.                           *)
WorkEnds ==
  /\ walk.stage = "work"
  /\ walk' = [walk EXCEPT !.stage = "after", !.open = FALSE]
  /\ UNCHANGED <<there, truth>>

-----------------------------------------------------------------------------
Present(files) == {place \in Places : files[place] # Nothing}

Compare(before, after, differing) ==
  LET both == Present(before) \cap Present(after) IN
  [created |-> Present(after) \ Present(before),
   modified |-> both \cap differing,
   deleted |-> Present(before) \ Present(after)]

Rehashed(before, after) == {place \in Places : before[place].hash # after[place].hash}

\* Mutant: a file that has become a link of the same content has not changed.
CompareHashes(before, after) == Compare(before, after, Rehashed(before, after))

CompareWorkspace(before, after) ==
  Compare(before, after, Rehashed(before, after) \cup
                         {place \in Places : before[place].kind # after[place].kind})

(* A snapshot has only files, and a hash stands for a size.                 *)
DiffSnapshots(before, after) == Compare(before, after, Rehashed(before, after))

FilesChanged ==
  LET diff == IF walk.style = "capture" THEN CompareWorkspace(walk.before, walk.files)
              ELSE DiffSnapshots(walk.before, walk.files)
  IN diff.created \cup diff.modified \cup diff.deleted

-----------------------------------------------------------------------------
Chain[place \in Places \cup {Root}] ==
  IF place = Root THEN {} ELSE {Above[place]} \cup Chain[Above[place]]

(* Anybody, also the work: a place gets something else, and what was below  *)
(* it is gone.                                                              *)
Edit(place) ==
  /\ walk.stage \in {"work", "after"} \/ (walk.stage = "before" /\ walk.open)
  /\ truth.edits < MaxEdits
  /\ place # Root => there[Above[place]] = Directory
  /\ \E entry \in IF place = Root THEN {Nothing, Directory} ELSE Entries :
       /\ entry # there[place]
       /\ there' = [p \in Places \cup {Root} |->
                      IF p = place THEN entry ELSE IF place \in Chain[p] THEN Nothing ELSE there[p]]
  /\ LET changed == {p \in Places \cup {Root} : there'[p] # there[p]} IN
     truth' = [truth EXCEPT !.edits = @ + 1, !.ever = @ \cup changed,
                            !.moved = IF Walking /\ walk.open THEN @ \cup changed ELSE @]
  /\ UNCHANGED walk

EvidenceInit(beginnings) ==
  /\ there \in beginnings
  /\ \E style \in {"capture", "snapshot"} :
       walk = [style |-> style, stage |-> "before", open |-> FALSE, todo |-> <<>>, at |-> NoEntry,
               before |-> NoFiles, files |-> NoFiles]
  /\ truth = [first |-> there, ever |-> {}, moved |-> {}, edits |-> 0]

EvidenceNext ==
  \/ StartCapture \/ StartSnapshot \/ Stat \/ CollectEntry \/ VisitEntry \/ WorkEnds
  \/ \E place \in Places \cup {Root} : Edit(place)

EvidenceSpec == EvidenceInit(Trees) /\ [][EvidenceNext]_evidenceVars

Compared == walk.stage \in {"done", "failed"}

-----------------------------------------------------------------------------
(* What a walk is after: the files, of the capture also the links, that are *)
(* in no ignored directory.                                                 *)
Evidence(entry) ==
  IF entry.kind = "file" \/ (entry.kind = "link" /\ walk.style = "capture") THEN entry ELSE Nothing
Watched == {place \in Places : walk.style = "capture" => Chain[place] \cap Ignored = {}}

(* A task of review that leaves a trace is found out, and only such: what   *)
(* the comparison names has changed, and what has changed between the walks *)
(* is named, though others write while they go on; only a place that        *)
(* changed under a walk may be missed.  And a walk fails only because of    *)
(* such a change, of a directory that is not there, or, as a snapshot, of   *)
(* what is no file.                                                         *)
ChangesAreReported ==
  /\ walk.stage = "done" =>
       /\ FilesChanged \subseteq truth.ever
       /\ \A place \in Watched \ truth.moved :
            place \in FilesChanged <=> Evidence(truth.first[place]) # Evidence(there[place])
  /\ walk.stage = "failed" /\ truth.moved = {} =>
       IF walk.style = "capture" THEN there[Root] = Nothing
       ELSE \E place \in Places : there[place].kind = "link"
=============================================================================
