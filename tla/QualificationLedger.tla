------------------------- MODULE QualificationLedger -------------------------
(***************************************************************************)
(* The directory of one qualification batch and what                       *)
(* src/qualification/manifest.ts reads out of it: the checkpoints, the     *)
(* evidence files of the cases and the terminal manifest.  A file is never *)
(* rewritten (publishImmutableJson links it into place), so a reference by *)
(* path and hash is the file itself.                                       *)
(*                                                                         *)
(* A ledger is a value here; Qualification says who writes it and when.    *)
(***************************************************************************)
EXTENDS Naturals, Sequences, FiniteSets

CONSTANTS
  Cases,           \* length of the schedule, ACTIVE_QUALIFICATION_CASES
  Authorizations,  \* the hashes of the authorization references
  None             \* null: no file, no manifest, no authorization

ASSUME ScheduleAssumption == Cases \in Nat \ {0}
ASSUME NoneAssumption == None \notin Authorizations

Ordinals == 1 .. Cases

(* schedule.slice(k): the cases after the first k.                          *)
Slice(k) == {i \in Ordinals : i > k}

(* An evidence file: the case it is of, what it claims, and whether the     *)
(* claims hold together (validateEvidenceForIdentity).                      *)
File == [ordinal : Ordinals, passed : BOOLEAN, sound : BOOLEAN]

Kinds == {"batch_started", "case_running", "case_completed"}

Checkpoint ==
  [kind : Kinds, ordinal : Ordinals \cup {0}, passed : BOOLEAN,
   evidence : File \cup {None}, auth : Authorizations \cup {None}]

Started(auth) ==
  [kind |-> "batch_started", ordinal |-> 0, passed |-> FALSE, evidence |-> None, auth |-> auth]
RunningCase(i) ==
  [kind |-> "case_running", ordinal |-> i, passed |-> FALSE, evidence |-> None, auth |-> None]
CompletedCase(f, passed) ==
  [kind |-> "case_completed", ordinal |-> f.ordinal, passed |-> passed, evidence |-> f, auth |-> None]

(* What a manifest says of an evidence file no checkpoint refers to.        *)
Uncommitted == [file : File, valid : BOOLEAN]

Manifest ==
  [status : {"passed", "blocked", "interrupted"},
   stopReason : {"case_failed", "infrastructure_failure", "process_interrupted", None},
   notRun : SUBSET Ordinals, checkpoints : Seq(Checkpoint),
   uncommitted : Uncommitted \cup {None}, auth : Authorizations, promotionEligible : BOOLEAN]

(* null is no manifest.                                                     *)
ASSUME NullAssumption == None \notin Manifest

Ledger ==
  [opened : BOOLEAN, checkpoints : Seq(Checkpoint), files : SUBSET File,
   manifest : Manifest \cup {None}]

NoLedger == [opened |-> FALSE, checkpoints |-> <<>>, files |-> {}, manifest |-> None]

-----------------------------------------------------------------------------
(* loadLedgerState: after batch_started, a running checkpoint and its       *)
(* completion alternate, in the order of the schedule, and nothing follows  *)
(* a case that failed.  A completion repeats what its evidence says.        *)
Faithful(l, c) ==
  c.evidence \in l.files /\ c.evidence.sound /\ c.evidence.passed = c.passed /\ c.evidence.ordinal = c.ordinal

Loads(l) ==
  LET cs == l.checkpoints IN
  \A k \in 1 .. Len(cs) :
    IF k = 1 THEN cs[k].kind = "batch_started"
    ELSE /\ cs[k].ordinal = k \div 2 /\ cs[k].ordinal <= Cases
         /\ IF k % 2 = 0
            THEN cs[k].kind = "case_running" /\ (k = 2 \/ cs[k - 1].passed)
            ELSE cs[k].kind = "case_completed" /\ Faithful(l, cs[k])

HasStarted(l) == l.checkpoints # <<>>
StartedAuth(l) == IF HasStarted(l) THEN l.checkpoints[1].auth ELSE None

Completed(l) == {k \in 1 .. Len(l.checkpoints) : l.checkpoints[k].kind = "case_completed"}
CompletedCount(l) == Cardinality(Completed(l))
AllPassed(l) == \A k \in Completed(l) : l.checkpoints[k].passed

(* The running case, 0 when there is none.                                  *)
Running(l) ==
  IF HasStarted(l) /\ l.checkpoints[Len(l.checkpoints)].kind = "case_running"
  THEN l.checkpoints[Len(l.checkpoints)].ordinal ELSE 0
IsRunning(l) == Running(l) # 0

-----------------------------------------------------------------------------
(* findUncommittedEvidence throws on a second file and on one that belongs  *)
(* to no running case; a file that does not validate is kept as invalid.    *)
Loose(l) == l.files \ {l.checkpoints[k].evidence : k \in Completed(l)}

(* Mutant: a file that does not validate is an error too.                   *)
AccountsForSound(l) ==
  Loose(l) = {} \/ (Cardinality(Loose(l)) = 1 /\ IsRunning(l) /\ \A f \in Loose(l) : f.sound)

AccountsFor(l) == Loose(l) = {} \/ (Cardinality(Loose(l)) = 1 /\ IsRunning(l))

UncommittedEvidence(l) ==
  IF Loose(l) = {} THEN None
  ELSE LET f == CHOOSE x \in Loose(l) : TRUE
       IN [file |-> f, valid |-> f.sound /\ f.ordinal = Running(l)]

-----------------------------------------------------------------------------
(* buildManifest.  An ending is what its caller asks for.                   *)
Endings ==
  {[status |-> "passed", stopReason |-> None],
   [status |-> "blocked", stopReason |-> "case_failed"],
   [status |-> "blocked", stopReason |-> "infrastructure_failure"],
   [status |-> "interrupted", stopReason |-> "process_interrupted"]}

Interrupted == [status |-> "interrupted", stopReason |-> "process_interrupted"]

Unfinished(e) == e.status = "interrupted" \/ e.stopReason = "infrastructure_failure"

NotRun(l, e) ==
  IF e.status = "passed" THEN {}
  ELSE Slice(CompletedCount(l) + (IF Unfinished(e) /\ IsRunning(l) THEN 1 ELSE 0))

Passes(l) ==
  CompletedCount(l) = Cases /\ AllPassed(l) /\ ~IsRunning(l) /\ Loose(l) = {}

LastFailed(l) ==
  Completed(l) # {} /\ ~l.checkpoints[CHOOSE k \in Completed(l) : \A j \in Completed(l) : j <= k].passed

CanEnd(l, e, notRun) ==
  /\ Loads(l) /\ AccountsFor(l)
  /\ notRun = NotRun(l, e)
  /\ IsRunning(l) => Unfinished(e)
  /\ e.status = "passed" => Passes(l)
  /\ e.stopReason = "case_failed" => LastFailed(l)

BuildManifest(l, e, auth, notRun) ==
  [status |-> e.status, stopReason |-> e.stopReason, notRun |-> notRun,
   checkpoints |-> l.checkpoints, uncommitted |-> UncommittedEvidence(l), auth |-> auth,
   promotionEligible |-> e.status = "passed"]

(* readAndValidateManifest rebuilds the manifest from the files it names.   *)
EndingOf(m) == [status |-> m.status, stopReason |-> m.stopReason]

ManifestValid(l) ==
  LET m == l.manifest IN
  /\ m # None
  /\ StartedAuth(l) \in {None, m.auth}
  /\ CanEnd(l, EndingOf(m), m.notRun)
  /\ m.uncommitted # None => Unfinished(EndingOf(m))
  /\ m = BuildManifest(l, EndingOf(m), m.auth, m.notRun)

(* inspectQualificationTerminal.                                            *)
Terminal(l) == IF l.manifest = None THEN "missing" ELSE IF ManifestValid(l) THEN "valid" ELSE "invalid"

(* terminalMatchesOwner.                                                    *)
TerminalMatches(l, auth) == Terminal(l) = "valid" /\ l.manifest.auth = auth

(* The authorization a batch has used up.                                   *)
RecordedAuth(l) == IF l.manifest # None THEN l.manifest.auth ELSE StartedAuth(l)

(* Mutant: an authorization counts as used from its first checkpoint on.   *)
UnusedByCheckpoint(l, auth) == l.opened => Loads(l) /\ StartedAuth(l) # auth

(* What assertAuthorizationReferenceUnused asks of every batch directory.   *)
Unused(l, auth) ==
  l.opened => /\ Loads(l)
              /\ l.manifest # None => ManifestValid(l)
              /\ RecordedAuth(l) \notin {None, auth}
=============================================================================
