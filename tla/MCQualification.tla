-------------------------- MODULE MCQualification --------------------------
(* Two batches, two recoveries and a schedule of two cases; beside them one *)
(* program that reads a candidate and its evidence while others write; the  *)
(* times and hashes of a host receipt; and the release that rests on all    *)
(* that.  A behaviour is of one of the four.                                *)
EXTENDS Qualification, FrozenCandidate, ReleaseValidation, TLC

MCArtifacts == <<"pi", "helper">>
(* What is made of the candidate after its first change.                    *)
MCRecorded ==
  { [AsItIs EXCEPT !.of["helper"] = <<1>>], [AsItIs EXCEPT !.head = 1],
    [head |-> 1, of |-> [AsItIs.of EXCEPT !["package-lock"] = <<1, 1>>]] }

(* What a file that is written anew contains; it may grow afterwards.       *)
MCNewContents == {<<0>>, <<1>>}

Symmetry ==
  Permutations(Batches) \cup Permutations(Recoveries) \cup Permutations(Authorizations)

(* What goes wrong outside the code goes wrong once: a recovery that takes  *)
(* a live owner for dead is followed with one batch and one recovery.       *)
OneMisfortune == misread => ~raced /\ \E b \in Batches : batches[b].pc = "idle"

NobodyReads ==
  /\ disk = <<>> /\ path = <<>> /\ tree = <<>> /\ writes = 0 /\ held = {} /\ since = Nothing
  /\ undone = FALSE
  /\ reader = [verdict |-> "none"]

SomebodyReads == reader.verdict # "none"
ReaderEnded == ~Underway /\ UNCHANGED candidateVars

MCOldNames == {<<1, 2, 3>>, <<1, 1, 3>>}
MCNewNames == {<<4, 5, 6>>, <<4, 2, 6>>}

MCContents ==
  [inputs |-> 0..1, helper |-> 0..1, index |-> 0..2, plugin |-> 0..1, sources |-> 0..1]
MCFingerprints == [index \in 0..2 |-> index \div 2]

NobodyObserves == machine = [Unobserved EXCEPT !.stage = "unused"]
SomebodyObserves == machine.stage # "unused"
ReceiptEnded == machine.stage \in {"completed", "failed"} /\ UNCHANGED machine

NobodyReleases ==
  /\ checkout = Missing /\ head = 0 /\ commits = <<>> /\ sessions = {}
  /\ tags = [v \in Versions |-> Missing] /\ registry = [v \in Versions |-> Missing]
  /\ maySkip = FALSE /\ edits = 0
SomebodyReleases == head # 0
Released == registry["stable"] # Missing /\ UNCHANGED releaseVars

MCInit ==
  \/ Init /\ NobodyReads /\ NobodyObserves /\ NobodyReleases
  \/ Init /\ CandidateInit /\ NobodyObserves /\ NobodyReleases
  \/ Init /\ NobodyReads /\ ReceiptInit /\ NobodyReleases
  \/ Init /\ NobodyReads /\ NobodyObserves /\ ReleaseInit

MCNext ==
  \/ /\ ~SomebodyReads /\ ~SomebodyObserves /\ ~SomebodyReleases
     /\ Next /\ UNCHANGED <<candidateVars, machine, releaseVars>>
  \/ /\ SomebodyReads /\ (CandidateNext \/ ReaderEnded)
     /\ UNCHANGED <<vars, machine, releaseVars>>
  \/ /\ SomebodyObserves /\ (ReceiptNext \/ ReceiptEnded)
     /\ UNCHANGED <<vars, candidateVars, releaseVars>>
  \/ /\ SomebodyReleases /\ (ReleaseNext \/ Released)
     /\ UNCHANGED <<vars, candidateVars, machine>>

MCSpec == MCInit /\ [][MCNext]_<<vars, candidateVars, machine, releaseVars>>
=============================================================================
