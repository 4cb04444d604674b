---------------------------- MODULE Qualification ----------------------------
(***************************************************************************)
(* The gate qualification of src/qualification and                         *)
(* scripts/gate-requalification.ts: batches that take the lock of the      *)
(* repository, run the schedule and publish a ledger                       *)
(* (runQualificationBatch), and recoveries an operator starts for the      *)
(* owner of the lock (recoverQualificationLock).  Each is a process of its *)
(* own that may stop anywhere; what they share is the lock directory and   *)
(* the ledgers on disk.  A pc names the call about to be made; what the    *)
(* code awaits in one go without reading or writing anything shared in     *)
(* between is one action.                                                  *)
(***************************************************************************)
EXTENDS QualificationLedger

CONSTANTS
  Batches,          \* batch ids, each used by one process
  Recoveries,       \* processes started with --recover-interrupted
  MaxFaults,        \* bound on crashes and failing calls of the system
  StartTimesDrift   \* may a live process be reported with another start time?

ASSUME FaultAssumption == MaxFaults \in Nat /\ StartTimesDrift \in BOOLEAN
ASSUME BatchAssumption == None \notin Batches /\ None \notin {"failed", "passed", "blocked"}

VARIABLES
  lock,        \* the lock directory and the owner.json in it
  ledgers,     \* batch -> its directory under docs/smoke/evidence/batches
  batches,     \* batch -> the process that runs it
  recoveries,  \* recovery -> its process
  faults,      \* faults so far
  raced,       \* two recoveries have run at the same time
  misread      \* a recovery has taken a live owner for dead

vars == <<lock, ledgers, batches, recoveries, faults, raced, misread>>

Absent == [at |-> "absent", owner |-> None]
Bare == [at |-> "bare", owner |-> None]
Torn == [at |-> "torn", owner |-> None]     \* owner.json is not what a batch writes
Owned(b) == [at |-> "owned", owner |-> b]
Locks == {Absent, Bare, Torn} \cup {Owned(b) : b \in Batches}

Acquiring == {"write", "readback", "cleanup"}
Holding ==
  {"preflight", "claim", "open", "start", "case", "running", "linkRunning", "call", "verify",
   "completed", "linkCompleted", "final", "terminal", "draft", "linkTerminal", "confirm",
   "release", "rename"}

Batch ==
  [pc : {"idle", "ended", "crashed"} \cup Acquiring \cup Holding,
   auth : Authorizations \cup {None}, index : Ordinals, published : BOOLEAN,
   evidence : File \cup {None}, ending : Endings \cup {None}, notRun : SUBSET Ordinals,
   draft : Manifest \cup {None}, outcome : {"failed", "passed", "blocked", None}]

NewBatch ==
  [pc |-> "idle", auth |-> None, index |-> 1, published |-> FALSE, evidence |-> None,
   ending |-> None, notRun |-> {}, draft |-> None, outcome |-> None]

Recovery ==
  [pc : {"idle", "inspect", "recover", "link", "check", "unchanged", "rename"},
   target : Batches \cup {None}, draft : Manifest \cup {None}]

NoRecovery == [pc |-> "idle", target |-> None, draft |-> None]

Init ==
  /\ lock = Absent
  /\ ledgers = [b \in Batches |-> NoLedger]
  /\ batches = [b \in Batches |-> NewBatch]
  /\ recoveries = [r \in Recoveries |-> NoRecovery]
  /\ faults = 0 /\ raced = FALSE /\ misread = FALSE

-----------------------------------------------------------------------------
(* A call of the system returns, or fails, which the bound counts.          *)
Works == UNCHANGED faults
Fails == faults < MaxFaults /\ faults' = faults + 1

At(b, pc) == batches[b].pc = pc
Owns(b) == lock = Owned(b)

Step(b, pc) == batches' = [batches EXCEPT ![b].pc = pc]

(* The process ends and reports outcome.                                    *)
End(b, outcome) ==
  batches' = [batches EXCEPT ![b] = [NewBatch EXCEPT !.pc = "ended", !.auth = batches[b].auth,
                                                     !.outcome = outcome]]

(* A failure before batch_started releases the lock; after it, without a    *)
(* terminal manifest, the lock is left to a recovery.                       *)
FailToStart(b) == batches' = [batches EXCEPT ![b].pc = "release", ![b].outcome = "failed"]
Stop(b) == End(b, "failed")

(* The terminal manifest to be published, after the owner is asserted.      *)
Finish(b, ending, notRun) ==
  batches' = [batches EXCEPT ![b].pc = "terminal", ![b].ending = ending, ![b].notRun = notRun]

Infrastructure == [status |-> "blocked", stopReason |-> "infrastructure_failure"]
CaseFailed == [status |-> "blocked", stopReason |-> "case_failed"]
Passed == [status |-> "passed", stopReason |-> None]

PublishInfrastructureTerminal(b) ==
  Finish(b, Infrastructure,
         Slice(batches[b].index - 1 + (IF batches[b].published THEN 1 ELSE 0)))

Append1(b, c) == [ledgers EXCEPT ![b].checkpoints = Append(@, c)]

-----------------------------------------------------------------------------
(* acquireQualificationLock.                                                *)
Acquire(b, auth) ==
  /\ At(b, "idle")
  /\ \/ /\ lock = Absent /\ lock' = Bare /\ Works
        /\ batches' = [batches EXCEPT ![b].pc = "write", ![b].auth = auth]
     \/ /\ lock # Absent /\ Works
        /\ End(b, "failed") /\ UNCHANGED lock
  /\ UNCHANGED <<ledgers, recoveries, raced, misread>>

WriteOwner(b) ==
  /\ At(b, "write")
  /\ \/ lock = Bare /\ lock' = Owned(b) /\ Works /\ Step(b, "readback")
     \/ lock # Bare /\ Works /\ Step(b, "cleanup") /\ UNCHANGED lock
     \/ lock = Bare /\ lock' \in {Bare, Torn} /\ Fails /\ Step(b, "cleanup")
  /\ UNCHANGED <<ledgers, recoveries, raced, misread>>

ReadBack(b) ==
  /\ At(b, "readback")
  /\ \/ Owns(b) /\ Works /\ Step(b, "preflight")
     \/ (IF Owns(b) THEN Fails ELSE Works) /\ Step(b, "cleanup")
  /\ UNCHANGED <<lock, ledgers, recoveries, raced, misread>>

(* Whatever is not empty and not this batch's is left.                      *)
CleanUp(b) ==
  /\ At(b, "cleanup")
  /\ \/ lock' = (IF lock = Bare \/ Owns(b) THEN Absent ELSE lock) /\ Works
     \/ lock' \in {lock} \cup (IF Owns(b) THEN {Bare} ELSE {}) /\ Fails
  /\ End(b, "failed")
  /\ UNCHANGED <<ledgers, recoveries, raced, misread>>

(* runQualificationPreflight.  Its other stages look at the tree, the       *)
(* build, the tools and the credentials; any of them may fail.              *)
Preflight(b) ==
  /\ At(b, "preflight")
  /\ \/ Owns(b) /\ (\A c \in Batches : Unused(ledgers[c], batches[b].auth)) /\ Step(b, "claim")
     \/ FailToStart(b)
  /\ Works
  /\ UNCHANGED <<lock, ledgers, recoveries, raced, misread>>

(* The owner and the frozen candidate are asserted before the ledger is     *)
(* created.                                                                 *)
Claim(b) ==
  /\ At(b, "claim")
  /\ \/ Owns(b) /\ Step(b, "open")
     \/ FailToStart(b)
  /\ Works
  /\ UNCHANGED <<lock, ledgers, recoveries, raced, misread>>

(* publishBatchStarted, up to the directories it makes.                     *)
Open(b) ==
  /\ At(b, "open")
  /\ \/ /\ ledgers[b].manifest = None /\ ~HasStarted(ledgers[b]) /\ Works
        /\ ledgers' = [ledgers EXCEPT ![b].opened = TRUE] /\ Step(b, "start")
     \/ /\ IF ledgers[b].manifest = None THEN Fails ELSE Works
        /\ FailToStart(b) /\ UNCHANGED ledgers
  /\ UNCHANGED <<lock, recoveries, raced, misread>>

LinkStarted(b) ==
  /\ At(b, "start")
  /\ \/ ledgers' = Append1(b, Started(batches[b].auth)) /\ Works /\ Step(b, "case")
     \/ UNCHANGED ledgers /\ Fails /\ FailToStart(b)
  /\ UNCHANGED <<lock, recoveries, raced, misread>>

-----------------------------------------------------------------------------
(* assertBatchLockOwner, then assertFrozenCandidate: the tree may have      *)
(* changed under the batch at any time.                                     *)
AssertCandidate(b, pc, next) ==
  /\ At(b, pc)
  /\ \/ Owns(b) /\ Works /\ next
     \/ Owns(b) /\ Works /\ PublishInfrastructureTerminal(b)
     \/ (IF Owns(b) THEN Fails ELSE Works) /\ Stop(b)
  /\ UNCHANGED <<lock, ledgers, recoveries, raced, misread>>

CheckCase(b) == AssertCandidate(b, "case", Step(b, "running"))
CheckResult(b) == AssertCandidate(b, "verify", Step(b, "completed"))

(* publishCaseRunning: what it asks, and the link.                          *)
StartCase(b) ==
  /\ At(b, "running")
  /\ LET l == ledgers[b] IN
     IF /\ l.manifest = None /\ Loads(l) /\ HasStarted(l) /\ ~IsRunning(l) /\ AllPassed(l)
        /\ batches[b].index = CompletedCount(l) + 1
     THEN Step(b, "linkRunning") ELSE PublishInfrastructureTerminal(b)
  /\ Works
  /\ UNCHANGED <<lock, ledgers, recoveries, raced, misread>>

LinkRunning(b) ==
  /\ At(b, "linkRunning")
  /\ \/ /\ ledgers' = Append1(b, RunningCase(batches[b].index)) /\ Works
        /\ batches' = [batches EXCEPT ![b].pc = "call", ![b].published = TRUE]
     \/ UNCHANGED ledgers /\ Fails /\ PublishInfrastructureTerminal(b)
  /\ UNCHANGED <<lock, recoveries, raced, misread>>

(* runCase: the smoke run publishes its evidence, or not, and reports where *)
(* it is, or not.  Its exit code says what the evidence claims.             *)
RunCase(b) ==
  /\ At(b, "call")
  /\ \/ \E passed, sound \in BOOLEAN :
          LET f == [ordinal |-> batches[b].index, passed |-> passed, sound |-> sound] IN
          /\ ledgers' = [ledgers EXCEPT ![b].files = @ \cup {f}]
          /\ \/ batches' = [batches EXCEPT ![b].pc = "verify", ![b].evidence = f]
             \/ PublishInfrastructureTerminal(b)
     \/ UNCHANGED ledgers /\ PublishInfrastructureTerminal(b)
  /\ Works
  /\ UNCHANGED <<lock, recoveries, raced, misread>>

(* publishCaseCompleted.                                                    *)
CompleteCase(b) ==
  /\ At(b, "completed")
  /\ LET l == ledgers[b] IN
     IF /\ l.manifest = None /\ Loads(l) /\ Running(l) = batches[b].index
        /\ batches[b].evidence.sound
     THEN Step(b, "linkCompleted") ELSE PublishInfrastructureTerminal(b)
  /\ Works
  /\ UNCHANGED <<lock, ledgers, recoveries, raced, misread>>

LinkCompleted(b) ==
  LET i == batches[b].index
      f == batches[b].evidence
  IN
  /\ At(b, "linkCompleted")
  /\ \/ /\ ledgers' = Append1(b, CompletedCase(f, f.passed)) /\ Works
        /\ \/ ~f.passed /\ Finish(b, CaseFailed, Slice(i))
           \/ f.passed /\ i = Cases /\ batches' = [batches EXCEPT ![b].pc = "final", ![b].published = FALSE]
           \/ f.passed /\ i < Cases
              /\ batches' = [batches EXCEPT ![b] = [@ EXCEPT !.pc = "case", !.index = i + 1,
                                                             !.published = FALSE, !.evidence = None]]
     \/ UNCHANGED ledgers /\ Fails /\ PublishInfrastructureTerminal(b)
  /\ UNCHANGED <<lock, recoveries, raced, misread>>

-----------------------------------------------------------------------------
(* Every case has passed: the owner and the candidate once more.            *)
CheckBatch(b) ==
  /\ At(b, "final")
  /\ \/ Owns(b) /\ Works /\ \E e \in {Passed, Infrastructure} : Finish(b, e, {})
     \/ (IF Owns(b) THEN Fails ELSE Works) /\ Stop(b)
  /\ UNCHANGED <<lock, ledgers, recoveries, raced, misread>>

ClaimTerminal(b) ==
  /\ At(b, "terminal")
  /\ \/ Owns(b) /\ Works /\ Step(b, "draft")
     \/ (IF Owns(b) THEN Fails ELSE Works) /\ Stop(b)
  /\ UNCHANGED <<lock, ledgers, recoveries, raced, misread>>

(* publishTerminalManifest.  Nothing is tried again when it fails.          *)
DraftTerminal(b) ==
  /\ At(b, "draft")
  /\ LET l == ledgers[b]  w == batches[b] IN
     IF l.manifest = None /\ HasStarted(l) /\ CanEnd(l, w.ending, w.notRun)
     THEN batches' = [batches EXCEPT ![b].pc = "linkTerminal",
                        ![b].draft = BuildManifest(l, w.ending, StartedAuth(l), w.notRun)]
     ELSE Stop(b)
  /\ Works
  /\ UNCHANGED <<lock, ledgers, recoveries, raced, misread>>

LinkTerminal(b) ==
  /\ At(b, "linkTerminal")
  /\ \/ /\ ledgers[b].manifest = None /\ Works
        /\ ledgers' = [ledgers EXCEPT ![b].manifest = batches[b].draft] /\ Step(b, "confirm")
     \/ /\ IF ledgers[b].manifest = None THEN Fails ELSE Works
        /\ Stop(b) /\ UNCHANGED ledgers
  /\ UNCHANGED <<lock, recoveries, raced, misread>>

ConfirmTerminal(b) ==
  /\ At(b, "confirm")
  /\ \/ /\ Terminal(ledgers[b]) = "valid" /\ Works
        /\ batches' = [batches EXCEPT ![b].pc = "release", ![b].outcome = batches[b].draft.status]
     \/ (IF Terminal(ledgers[b]) = "valid" THEN Fails ELSE Works) /\ Stop(b)
  /\ UNCHANGED <<lock, ledgers, recoveries, raced, misread>>

(* releaseExactOwner: the owner is read twice, then the directory at the    *)
(* path, whichever it is by then, is renamed away.                          *)
Release(b) ==
  /\ At(b, "release")
  /\ \/ Owns(b) /\ Works /\ Step(b, "rename")
     \/ (IF Owns(b) THEN Fails ELSE Works) /\ End(b, "failed")
  /\ UNCHANGED <<lock, ledgers, recoveries, raced, misread>>

Rename(b) ==
  /\ At(b, "rename")
  /\ \/ lock # Absent /\ lock' = Absent /\ Works /\ End(b, batches[b].outcome)
     \/ (IF lock = Absent THEN Works ELSE Fails) /\ End(b, "failed") /\ UNCHANGED lock
  /\ UNCHANGED <<ledgers, recoveries, raced, misread>>

(* The process is killed; owner.json may have been created by then.         *)
Crash(b) ==
  /\ batches[b].pc \in Acquiring \cup Holding
  /\ Fails
  /\ batches' = [batches EXCEPT ![b] = [NewBatch EXCEPT !.pc = "crashed", !.auth = batches[b].auth]]
  /\ lock' \in {lock} \cup (IF At(b, "write") /\ lock = Bare THEN {Torn} ELSE {})
  /\ UNCHANGED <<ledgers, recoveries, raced, misread>>

-----------------------------------------------------------------------------
Target(r) == recoveries[r].target
RecoveryAt(r, pc) == recoveries[r].pc = pc
RecoveryStep(r, pc) == recoveries' = [recoveries EXCEPT ![r].pc = pc]
RecoveryEnds(r) == recoveries' = [recoveries EXCEPT ![r] = NoRecovery]

(* Mutant: a batch with a terminal manifest is taken to be over.            *)
DeadOrTerminal(b) == batches[b].pc \in {"ended", "crashed"} \/ ledgers[b].manifest # None

(* No process with the owner's id and start time.                           *)
Dead(b) == batches[b].pc \in {"ended", "crashed"}

(* recoverQualificationLock, up to the identity of the process.             *)
StartRecovery(r, b) ==
  /\ RecoveryAt(r, "idle")
  /\ Owns(b)
  /\ Dead(b) \/ StartTimesDrift
  /\ recoveries' = [recoveries EXCEPT ![r].pc = "inspect", ![r].target = b]
  /\ raced' = (raced \/ \E q \in Recoveries : recoveries[q].pc # "idle")
  /\ misread' = (misread \/ ~Dead(b))
  /\ UNCHANGED <<lock, ledgers, batches, faults>>

InspectTerminal(r) ==
  LET b == Target(r) IN
  /\ RecoveryAt(r, "inspect")
  /\ \/ TerminalMatches(ledgers[b], batches[b].auth) /\ RecoveryStep(r, "unchanged")
     \/ Terminal(ledgers[b]) = "missing" /\ RecoveryStep(r, "recover")
     \/ ~TerminalMatches(ledgers[b], batches[b].auth) /\ Terminal(ledgers[b]) # "missing" /\ RecoveryEnds(r)
  /\ UNCHANGED <<lock, ledgers, batches, faults, raced, misread>>

(* recoverInterruptedQualificationBatch.                                    *)
RecoverInterrupted(r) ==
  LET b == Target(r)  l == ledgers[b] IN
  /\ RecoveryAt(r, "recover")
  /\ IF l.manifest # None
     THEN /\ IF TerminalMatches(l, batches[b].auth) THEN RecoveryStep(r, "check") ELSE RecoveryEnds(r)
          /\ UNCHANGED ledgers
     ELSE IF StartedAuth(l) \in {None, batches[b].auth} /\ CanEnd(l, Interrupted, NotRun(l, Interrupted))
     THEN /\ recoveries' = [recoveries EXCEPT ![r].pc = "link",
               ![r].draft = BuildManifest(l, Interrupted, batches[b].auth, NotRun(l, Interrupted))]
          /\ ledgers' = [ledgers EXCEPT ![b].opened = TRUE]
     ELSE RecoveryEnds(r) /\ UNCHANGED ledgers
  /\ UNCHANGED <<lock, batches, faults, raced, misread>>

(* Mutant: published by a rename, which replaces what is there.             *)
RenameInterrupted(r) ==
  /\ RecoveryAt(r, "link")
  /\ ledgers' = [ledgers EXCEPT ![Target(r)].manifest = recoveries[r].draft]
  /\ recoveries' = [recoveries EXCEPT ![r].pc = "check", ![r].draft = None]
  /\ UNCHANGED <<lock, batches, faults, raced, misread>>

(* publishImmutableJson: the link fails when there is a manifest.           *)
LinkInterrupted(r) ==
  LET b == Target(r) IN
  /\ RecoveryAt(r, "link")
  /\ \/ /\ ledgers[b].manifest = None
        /\ ledgers' = [ledgers EXCEPT ![b].manifest = recoveries[r].draft]
        /\ recoveries' = [recoveries EXCEPT ![r].pc = "check", ![r].draft = None]
     \/ ledgers[b].manifest # None /\ RecoveryEnds(r) /\ UNCHANGED ledgers
  /\ UNCHANGED <<lock, batches, faults, raced, misread>>

CheckPublished(r) ==
  LET b == Target(r) IN
  /\ RecoveryAt(r, "check")
  /\ IF TerminalMatches(ledgers[b], batches[b].auth) THEN RecoveryStep(r, "unchanged") ELSE RecoveryEnds(r)
  /\ UNCHANGED <<lock, ledgers, batches, faults, raced, misread>>

(* The owner must be the one that was read first; then releaseExactOwner.   *)
OwnerUnchanged(r) ==
  /\ RecoveryAt(r, "unchanged")
  /\ IF Owns(Target(r)) THEN RecoveryStep(r, "rename") ELSE RecoveryEnds(r)
  /\ UNCHANGED <<lock, ledgers, batches, faults, raced, misread>>

ReleaseRecovered(r) ==
  /\ RecoveryAt(r, "rename")
  /\ lock' = Absent
  /\ RecoveryEnds(r)
  /\ UNCHANGED <<ledgers, batches, faults, raced, misread>>

(* The recovery fails or is killed anywhere.                                *)
GiveUp(r) ==
  /\ ~RecoveryAt(r, "idle")
  /\ RecoveryEnds(r)
  /\ UNCHANGED <<lock, ledgers, batches, faults, raced, misread>>

Finished ==
  /\ \A b \in Batches : Dead(b)
  /\ UNCHANGED vars

BatchStep(b) ==
  \/ \E auth \in Authorizations : Acquire(b, auth)
  \/ WriteOwner(b) \/ ReadBack(b) \/ CleanUp(b) \/ Preflight(b) \/ Claim(b) \/ Open(b) \/ LinkStarted(b)
  \/ CheckCase(b) \/ StartCase(b) \/ LinkRunning(b) \/ RunCase(b) \/ CheckResult(b)
  \/ CompleteCase(b) \/ LinkCompleted(b)
  \/ CheckBatch(b) \/ ClaimTerminal(b) \/ DraftTerminal(b) \/ LinkTerminal(b) \/ ConfirmTerminal(b)
  \/ Release(b) \/ Rename(b) \/ Crash(b)

RecoveryActs(r) ==
  \/ \E b \in Batches : StartRecovery(r, b)
  \/ InspectTerminal(r) \/ RecoverInterrupted(r) \/ LinkInterrupted(r) \/ CheckPublished(r)
  \/ OwnerUnchanged(r) \/ ReleaseRecovered(r) \/ GiveUp(r)

Next == (\E b \in Batches : BatchStep(b)) \/ (\E r \in Recoveries : RecoveryActs(r)) \/ Finished

Spec == Init /\ [][Next]_vars

-----------------------------------------------------------------------------
(* The lock, the ledgers and the processes only take these values.          *)
TypeOK ==
  /\ lock \in Locks
  /\ \A b \in Batches : batches[b] \in Batch
  /\ \A b \in Batches : /\ ledgers[b].opened \in BOOLEAN /\ ledgers[b].files \subseteq File
                        /\ ledgers[b].checkpoints \in Seq(Checkpoint)
                        /\ ledgers[b].manifest \in Manifest \cup {None}
  /\ \A r \in Recoveries : recoveries[r] \in Recovery
  /\ faults \in 0 .. MaxFaults /\ raced \in BOOLEAN /\ misread \in BOOLEAN

(* A batch that has the lock keeps it until it renames it away itself, and  *)
(* nobody else runs cases meanwhile: recoveries and failed attempts to take *)
(* the lock never free or replace the lock of a live batch.  The code needs *)
(* two things for this that it does not check: one recovery at a time, and  *)
(* a start time that reads the same every time.                             *)
HolderKeepsLock ==
  raced \/ misread \/
  \A b \in Batches : batches[b].pc \in Holding => lock = Owned(b)

(* What is on disk is true whatever crashed or was recovered: a terminal    *)
(* manifest agrees with the checkpoints and the evidence it names, and a    *)
(* batch that reports passed has left passed evidence of every case.        *)
PassedReport(b) ==
  /\ ledgers[b].manifest # None /\ ledgers[b].manifest.status = "passed"
  /\ \A i \in Ordinals : [ordinal |-> i, passed |-> TRUE, sound |-> TRUE] \in ledgers[b].files

LedgerHonest ==
  /\ \A b \in Batches : batches[b].outcome = "passed" => PassedReport(b)
  /\ misread \/ \A b \in Batches : ledgers[b].manifest # None => ManifestValid(ledgers[b])

(* An authorization lets one batch start, and none once any other batch has *)
(* recorded it, be it a batch that was recovered before its first           *)
(* checkpoint.                                                              *)
AuthorizationOnce ==
  [][\A b \in Batches :
       ~HasStarted(ledgers[b]) /\ HasStarted(ledgers'[b]) =>
         \/ raced \/ misread
         \/ \A c \in Batches \ {b} : RecordedAuth(ledgers[c]) # StartedAuth(ledgers'[b])]_vars

(* A lock whose owner is dead can be recovered, wherever the owner stopped  *)
(* and whatever evidence it left: either its terminal manifest matches the  *)
(* owner, or the ledger loads and an interrupted manifest can be built.     *)
Recoverable ==
  misread \/
  \A b \in Batches :
    Owns(b) /\ Dead(b) =>
      LET l == ledgers[b] IN
      \/ TerminalMatches(l, batches[b].auth)
      \/ /\ l.manifest = None /\ StartedAuth(l) \in {None, batches[b].auth}
         /\ CanEnd(l, Interrupted, NotRun(l, Interrupted))
=============================================================================
