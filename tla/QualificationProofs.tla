------------------------- MODULE QualificationProofs -------------------------
(***************************************************************************)
(* Theorems about the gate qualification, for every number of batches,     *)
(* recoveries, cases, authorizations and faults: the lock stays with its   *)
(* holder, an authorization is spent once, what is on disk is true, and    *)
(* what a crash leaves can be recovered.  From "What the programs ask" on  *)
(* they are about the programs that read the repository: what they read    *)
(* was there.                                                              *)
(***************************************************************************)
EXTENDS Qualification, FrozenCandidate, FiniteSetTheorems, SequenceTheorems, TLAPS

-----------------------------------------------------------------------------
(* What a ledger says *)

(* What a ledger that loads says of the checkpoint at k.                    *)
LEMMA LoadedCheckpoint ==
  ASSUME NEW l \in Ledger, Loads(l), NEW k \in 1 .. Len(l.checkpoints)
  PROVE  LET c == l.checkpoints[k] IN
         /\ c \in Checkpoint
         /\ k = 1 => c.kind = "batch_started"
         /\ k # 1 => c.ordinal = k \div 2 /\ c.ordinal <= Cases
         /\ k # 1 /\ k % 2 = 0 => c.kind = "case_running" /\ (k = 2 \/ l.checkpoints[k - 1].passed)
         /\ k # 1 /\ k % 2 # 0 => c.kind = "case_completed" /\ Faithful(l, c)
<1>1. l.checkpoints \in Seq(Checkpoint)
  BY DEF Ledger
<1>2. l.checkpoints[k] \in Checkpoint
  BY <1>1
<1> QED
  BY <1>2 DEF Loads

(* A completion is at an odd place past the first.                          *)
LEMMA CompletedPlace ==
  ASSUME NEW l \in Ledger, Loads(l), NEW k \in Completed(l)
  PROVE  /\ k \in Nat /\ k \div 2 \in Ordinals /\ k = 2 * (k \div 2) + 1
         /\ l.checkpoints[k].ordinal = k \div 2 /\ Faithful(l, l.checkpoints[k])
<1>1. k \in 1 .. Len(l.checkpoints) /\ l.checkpoints[k].kind = "case_completed"
  BY DEF Completed
<1>2. Len(l.checkpoints) \in Nat
  BY DEF Ledger
<1>3. k \in Nat /\ k >= 1
  BY <1>1, <1>2
<1>4. k # 1 /\ k % 2 # 0
  BY <1>1, LoadedCheckpoint
<1>5. k = 2 * (k \div 2) + 1 /\ k \div 2 \in Nat /\ k \div 2 >= 1
  BY <1>3, <1>4
<1>6. l.checkpoints[k].ordinal = k \div 2 /\ k \div 2 <= Cases /\ Faithful(l, l.checkpoints[k])
  BY <1>1, <1>4, LoadedCheckpoint
<1> QED
  BY <1>3, <1>5, <1>6, ScheduleAssumption DEF Ordinals

(* A ledger of which every case is completed and passed holds passed and    *)
(* sound evidence of every case.                                            *)
LEMMA PassedMeansEvidence ==
  ASSUME NEW l \in Ledger, Loads(l), Passes(l), NEW i \in Ordinals
  PROVE  [ordinal |-> i, passed |-> TRUE, sound |-> TRUE] \in l.files
<1> DEFINE place == [k \in Completed(l) |-> k \div 2]
<1>1. place \in Injection(Completed(l), Ordinals)
  <2>1. place \in [Completed(l) -> Ordinals]
    BY CompletedPlace
  <2>2. ASSUME NEW j \in Completed(l), NEW k \in Completed(l), place[j] = place[k]
        PROVE  j = k
    BY <2>2, CompletedPlace
  <2> HIDE DEF place
  <2> QED
    BY <2>1, <2>2 DEF Injection, IsInjective
<1>2. IsFiniteSet(Ordinals) /\ Cardinality(Ordinals) = Cases
  BY ScheduleAssumption, FS_Interval DEF Ordinals
<1>3. Cardinality(Completed(l)) = Cardinality(Ordinals)
  BY <1>2 DEF Passes, CompletedCount
<1>4. place \in Surjection(Completed(l), Ordinals)
  <2> HIDE DEF place
  <2> QED
    BY <1>1, <1>2, <1>3, FS_Injection
<1>5. PICK k \in Completed(l) : place[k] = i
  <2> HIDE DEF place
  <2> QED
    BY <1>4 DEF Surjection
<1> DEFINE c == l.checkpoints[k]
<1>6. c.ordinal = i /\ Faithful(l, c)
  BY <1>5, CompletedPlace
<1>7. c.passed
  BY DEF Passes, AllPassed
<1>8. c \in Checkpoint
  BY DEF Completed, Ledger
<1>9. c.evidence \in l.files /\ c.evidence.sound /\ c.evidence.passed = c.passed /\ c.evidence.ordinal = i
  BY <1>6 DEF Faithful
<1>10. c.evidence \in File
  BY <1>9 DEF Ledger
<1>11. c.evidence.sound = TRUE /\ c.evidence.passed = TRUE
  BY <1>7, <1>8, <1>9, <1>10 DEF File, Checkpoint
<1>12. c.evidence = [ordinal |-> i, passed |-> TRUE, sound |-> TRUE]
  BY <1>9, <1>10, <1>11 DEF File
<1> QED
  BY <1>9, <1>12

-----------------------------------------------------------------------------
(* What a write does to a ledger *)

(* What is read of a ledger is read from its checkpoints and its files: a   *)
(* directory that is made and a manifest that is linked change none of it.  *)
LEMMA ReadFromRecords ==
  ASSUME NEW l, NEW m, m.checkpoints = l.checkpoints, m.files = l.files
  PROVE  /\ Loads(m) = Loads(l) /\ Loose(m) = Loose(l) /\ AccountsFor(m) = AccountsFor(l)
         /\ HasStarted(m) = HasStarted(l) /\ StartedAuth(m) = StartedAuth(l)
         /\ IsRunning(m) = IsRunning(l) /\ Running(m) = Running(l)
         /\ \A e : NotRun(m, e) = NotRun(l, e)
         /\ \A e, n : CanEnd(m, e, n) = CanEnd(l, e, n)
         /\ \A e, a, n : BuildManifest(m, e, a, n) = BuildManifest(l, e, a, n)
<1>1. Completed(m) = Completed(l) /\ CompletedCount(m) = CompletedCount(l)
  BY DEF Completed, CompletedCount
<1>2. HasStarted(m) = HasStarted(l) /\ StartedAuth(m) = StartedAuth(l)
  BY DEF HasStarted, StartedAuth
<1>3. Running(m) = Running(l) /\ IsRunning(m) = IsRunning(l)
  BY <1>2 DEF Running, IsRunning
<1>4. Loose(m) = Loose(l)
  BY <1>1 DEF Loose
<1>5. AccountsFor(m) = AccountsFor(l)
  BY <1>3, <1>4 DEF AccountsFor
<1>6. Loads(m) = Loads(l)
  <2>1. \A c : Faithful(m, c) = Faithful(l, c)
    BY DEF Faithful
  <2> QED
    BY <2>1 DEF Loads
<1>7. \A e : NotRun(m, e) = NotRun(l, e)
  BY <1>1, <1>3 DEF NotRun
<1>8. AllPassed(m) = AllPassed(l) /\ LastFailed(m) = LastFailed(l) /\ Passes(m) = Passes(l)
  BY <1>1, <1>3, <1>4 DEF AllPassed, LastFailed, Passes
<1>9. \A e, n : CanEnd(m, e, n) = CanEnd(l, e, n)
  BY <1>3, <1>5, <1>6, <1>7, <1>8 DEF CanEnd
<1>10. UncommittedEvidence(m) = UncommittedEvidence(l)
  BY <1>3, <1>4 DEF UncommittedEvidence
<1>11. \A e, a, n : BuildManifest(m, e, a, n) = BuildManifest(l, e, a, n)
  BY <1>10 DEF BuildManifest
<1> QED
  BY <1>2, <1>3, <1>4, <1>5, <1>6, <1>7, <1>9, <1>11

(* The manifest that is built of a ledger is one.                           *)
LEMMA BuiltManifest ==
  ASSUME NEW l \in Ledger, NEW e \in Endings, NEW a \in Authorizations, NEW n \in SUBSET Ordinals
  PROVE  BuildManifest(l, e, a, n) \in Manifest
<1>1. UncommittedEvidence(l) \in Uncommitted \cup {None}
  <2>1. CASE Loose(l) = {}
    BY <2>1 DEF UncommittedEvidence
  <2>2. CASE Loose(l) # {}
    <3> DEFINE f == CHOOSE x \in Loose(l) : TRUE
    <3>1. f \in Loose(l)
      BY <2>2
    <3>2. f \in File
      BY <3>1 DEF Loose, Ledger
    <3>3. f.sound \in BOOLEAN
      BY <3>2 DEF File
    <3>4. (f.sound /\ f.ordinal = Running(l)) \in BOOLEAN
      BY <3>3
    <3>5. UncommittedEvidence(l) = [file |-> f, valid |-> f.sound /\ f.ordinal = Running(l)]
      BY <2>2 DEF UncommittedEvidence
    <3> HIDE DEF f
    <3> QED
      BY <3>2, <3>4, <3>5 DEF Uncommitted
  <2> QED
    BY <2>1, <2>2
<1>2. l.checkpoints \in Seq(Checkpoint)
  BY DEF Ledger
<1>3. /\ e.status \in {"passed", "blocked", "interrupted"}
      /\ e.stopReason \in {"case_failed", "infrastructure_failure", "process_interrupted", None}
  BY DEF Endings
<1>4. (e.status = "passed") \in BOOLEAN
  OBVIOUS
<1> QED
  BY <1>1, <1>2, <1>3, <1>4 DEF BuildManifest, Manifest

(* A manifest that was built while the ledger could end that way is valid   *)
(* once it is there.                                                        *)
LEMMA BuiltIsValid ==
  ASSUME NEW l \in Ledger, NEW e \in Endings, NEW a \in Authorizations, NEW n \in SUBSET Ordinals,
         CanEnd(l, e, n), StartedAuth(l) \in {None, a},
         NEW m \in Ledger, m.checkpoints = l.checkpoints, m.files = l.files,
         m.manifest = BuildManifest(l, e, a, n)
  PROVE  ManifestValid(m)
<1> DEFINE built == BuildManifest(l, e, a, n)
<1>1. built \in Manifest /\ built # None
  BY BuiltManifest, NullAssumption
<1>2. built.auth = a /\ built.notRun = n /\ built.uncommitted = UncommittedEvidence(l)
  BY DEF BuildManifest
<1>3. EndingOf(built) = e
  BY DEF BuildManifest, EndingOf, Endings
<1>4. StartedAuth(m) = StartedAuth(l) /\ CanEnd(m, e, n) /\ BuildManifest(m, e, a, n) = built
  BY ReadFromRecords
<1>5. built.uncommitted # None => Unfinished(e)
  <2> SUFFICES ASSUME UncommittedEvidence(l) # None PROVE Unfinished(e)
    BY <1>2
  <2>1. Loose(l) # {}
    BY DEF UncommittedEvidence
  <2>2. IsRunning(l)
    BY <2>1 DEF CanEnd, AccountsFor
  <2> QED
    BY <2>2 DEF CanEnd
<1> HIDE DEF built
<1>6. m.manifest = built
  BY DEF built
<1> QED
  BY <1>1, <1>2, <1>3, <1>4, <1>5, <1>6 DEF ManifestValid

(* A checkpoint is appended: the ledger still loads when the new one is in  *)
(* its place, and only a completion takes up evidence.                      *)
InPlace(l, c) ==
  LET k == Len(l.checkpoints) + 1 IN
  IF k = 1 THEN c.kind = "batch_started"
  ELSE /\ c.ordinal = k \div 2 /\ c.ordinal <= Cases
       /\ IF k % 2 = 0
          THEN c.kind = "case_running" /\ (k = 2 \/ l.checkpoints[k - 1].passed)
          ELSE c.kind = "case_completed" /\ Faithful(l, c)

WithCheckpoint(l, c) == [l EXCEPT !.checkpoints = Append(@, c)]

LEMMA Appended ==
  ASSUME NEW l \in Ledger, NEW c \in Checkpoint, NEW m, m = WithCheckpoint(l, c)
  PROVE  /\ m \in Ledger /\ m.files = l.files /\ m.manifest = l.manifest /\ m.opened = l.opened
         /\ Len(m.checkpoints) = Len(l.checkpoints) + 1
         /\ m.checkpoints[Len(m.checkpoints)] = c
         /\ \A k \in 1 .. Len(l.checkpoints) : m.checkpoints[k] = l.checkpoints[k]
         /\ HasStarted(m) /\ IsRunning(m) = (c.kind = "case_running" /\ c.ordinal # 0)
         /\ Loads(l) /\ InPlace(l, c) => Loads(m)
         /\ Loose(m) = IF c.kind = "case_completed" THEN Loose(l) \ {c.evidence} ELSE Loose(l)
<1>1. l.checkpoints \in Seq(Checkpoint)
  BY DEF Ledger
<1>2. m = [opened |-> l.opened, checkpoints |-> Append(l.checkpoints, c), files |-> l.files,
           manifest |-> l.manifest]
  BY DEF WithCheckpoint, Ledger
<1>3. m.checkpoints = Append(l.checkpoints, c) /\ m.files = l.files /\ m.manifest = l.manifest
      /\ m.opened = l.opened
  BY <1>2
<1>4. m.checkpoints \in Seq(Checkpoint)
  BY <1>1, <1>3
<1>5. m \in Ledger
  BY <1>2, <1>3, <1>4 DEF Ledger
<1> DEFINE n == Len(l.checkpoints)
<1>6. n \in Nat /\ Len(m.checkpoints) = n + 1 /\ m.checkpoints[n + 1] = c
      /\ \A k \in 1 .. n : m.checkpoints[k] = l.checkpoints[k]
  BY <1>1, <1>3
<1>7. HasStarted(m)
  BY <1>6 DEF HasStarted
<1>8. IsRunning(m) = (c.kind = "case_running" /\ c.ordinal # 0)
  BY <1>6, <1>7 DEF IsRunning, Running
<1>9. ASSUME Loads(l), InPlace(l, c) PROVE Loads(m)
  <2>1. \A x : Faithful(m, x) = Faithful(l, x)
    BY <1>3 DEF Faithful
  <2> DEFINE Placed(x, k) ==
        IF k = 1 THEN x.checkpoints[k].kind = "batch_started"
        ELSE /\ x.checkpoints[k].ordinal = k \div 2 /\ x.checkpoints[k].ordinal <= Cases
             /\ IF k % 2 = 0
                THEN x.checkpoints[k].kind = "case_running" /\ (k = 2 \/ x.checkpoints[k - 1].passed)
                ELSE x.checkpoints[k].kind = "case_completed" /\ Faithful(x, x.checkpoints[k])
  <2>2. ASSUME NEW k \in 1 .. n PROVE Placed(m, k)
    <3>1. Placed(l, k)
      BY <1>9 DEF Loads
    <3>2. k - 1 \in 1 .. n \/ k = 1
      BY <1>6
    <3>3. m.checkpoints[k] = l.checkpoints[k] /\ (k # 1 => m.checkpoints[k - 1] = l.checkpoints[k - 1])
      BY <1>6, <3>2
    <3> QED
      BY <2>1, <3>1, <3>3
  <2>3. Placed(m, n + 1)
    <3>1. n + 1 = 1 \/ (n \in 1 .. n /\ (n + 1) - 1 = n)
      BY <1>6
    <3>2. n + 1 # 1 => m.checkpoints[(n + 1) - 1] = l.checkpoints[(n + 1) - 1]
      BY <1>6, <3>1
    <3>3. m.checkpoints[n + 1] = c
      BY <1>6
    <3> QED
      BY <1>9, <2>1, <3>2, <3>3 DEF InPlace
  <2>4. ASSUME NEW k \in 1 .. Len(m.checkpoints) PROVE Placed(m, k)
    <3>1. k \in 1 .. n \/ k = n + 1
      BY <1>6
    <3> HIDE DEF Placed
    <3> QED
      BY <2>2, <2>3, <3>1
  <2> QED
    BY <2>4 DEF Loads
<1>10. Completed(m) = Completed(l) \cup (IF c.kind = "case_completed" THEN {n + 1} ELSE {})
  BY <1>6 DEF Completed
<1>11. Loose(m) = IF c.kind = "case_completed" THEN Loose(l) \ {c.evidence} ELSE Loose(l)
  <2>1. \A k \in Completed(l) : m.checkpoints[k].evidence = l.checkpoints[k].evidence
    BY <1>6 DEF Completed
  <2>2. {m.checkpoints[k].evidence : k \in Completed(m)} =
          {l.checkpoints[k].evidence : k \in Completed(l)}
            \cup (IF c.kind = "case_completed" THEN {c.evidence} ELSE {})
    <3>1. CASE c.kind = "case_completed"
      <4>1. Completed(m) = Completed(l) \cup {n + 1}
        BY <1>10, <3>1
      <4>2. m.checkpoints[n + 1].evidence = c.evidence
        BY <1>6
      <4>3. {m.checkpoints[k].evidence : k \in Completed(m)} =
              {m.checkpoints[k].evidence : k \in Completed(l)} \cup {m.checkpoints[n + 1].evidence}
        BY <4>1, Zenon
      <4>4. {m.checkpoints[k].evidence : k \in Completed(l)} = {l.checkpoints[k].evidence : k \in Completed(l)}
        BY <2>1
      <4> QED
        BY <3>1, <4>2, <4>3, <4>4
    <3>2. CASE c.kind # "case_completed"
      <4>1. Completed(m) = Completed(l)
        BY <1>10, <3>2
      <4> QED
        BY <2>1, <3>2, <4>1
    <3> QED
      BY <3>1, <3>2
  <2> QED
    BY <1>3, <2>2 DEF Loose
<1> QED
  BY <1>3, <1>5, <1>6, <1>7, <1>8, <1>9, <1>11

(* An evidence file appears.                                                *)
WithFile(l, f) == [l EXCEPT !.files = @ \cup {f}]

LEMMA FileAdded ==
  ASSUME NEW l \in Ledger, NEW f \in File, NEW m, m = WithFile(l, f)
  PROVE  /\ m \in Ledger /\ m.checkpoints = l.checkpoints /\ m.manifest = l.manifest
         /\ m.opened = l.opened /\ m.files = l.files \cup {f}
         /\ HasStarted(m) = HasStarted(l) /\ IsRunning(m) = IsRunning(l)
         /\ Loads(l) => Loads(m)
         /\ Loose(m) \subseteq Loose(l) \cup {f}
<1>1. m = [opened |-> l.opened, checkpoints |-> l.checkpoints, files |-> l.files \cup {f},
           manifest |-> l.manifest]
  BY DEF WithFile, Ledger
<1>2. m \in Ledger
  BY <1>1 DEF Ledger
<1>3. HasStarted(m) = HasStarted(l) /\ IsRunning(m) = IsRunning(l) /\ Completed(m) = Completed(l)
  BY <1>1 DEF HasStarted, IsRunning, Running, Completed
<1>4. m.checkpoints = l.checkpoints /\ \A x : Faithful(l, x) => Faithful(m, x)
  BY <1>1 DEF Faithful
<1>5. Loads(l) => Loads(m)
  BY <1>4 DEF Loads
<1>6. Loose(m) \subseteq Loose(l) \cup {f}
  BY <1>1, <1>3 DEF Loose
<1> QED
  BY <1>1, <1>2, <1>3, <1>5, <1>6

(* The directory is made, and a manifest is linked.                         *)
LEMMA MadeOrLinked ==
  ASSUME NEW l \in Ledger, NEW m,
         \/ m = [l EXCEPT !.opened = TRUE]
         \/ \E draft \in Manifest : m = [l EXCEPT !.manifest = draft]
  PROVE  /\ m \in Ledger /\ m.checkpoints = l.checkpoints /\ m.files = l.files
         /\ m = [l EXCEPT !.opened = TRUE] => m.opened /\ m.manifest = l.manifest
         /\ \A draft \in Manifest :
              m = [l EXCEPT !.manifest = draft] => m.opened = l.opened /\ m.manifest = draft
<1>1. ASSUME NEW made \in BOOLEAN, m = [l EXCEPT !.opened = made]
      PROVE  /\ m \in Ledger /\ m.checkpoints = l.checkpoints /\ m.files = l.files
             /\ m.opened = made /\ m.manifest = l.manifest
  BY <1>1 DEF Ledger
<1>2. ASSUME NEW draft \in Manifest, m = [l EXCEPT !.manifest = draft]
      PROVE  /\ m \in Ledger /\ m.checkpoints = l.checkpoints /\ m.files = l.files
             /\ m.opened = l.opened /\ m.manifest = draft
  BY <1>2 DEF Ledger
<1>3. TRUE \in BOOLEAN
  OBVIOUS
<1> QED
  BY <1>1, <1>2, <1>3

(* A ledger of which at most one file is left over accounts for it, when a  *)
(* case is running.                                                         *)
LEMMA OneFileLoose ==
  ASSUME NEW l, NEW f, Loose(l) \subseteq {f}, Loose(l) = {} \/ IsRunning(l)
  PROVE  AccountsFor(l)
<1>1. Loose(l) = {} \/ Loose(l) = {f}
  OBVIOUS
<1> QED
  BY <1>1, FS_Singleton DEF AccountsFor

-----------------------------------------------------------------------------
(* The inductive invariant *)

PreStart == {"idle"} \cup Acquiring \cup {"preflight", "claim", "open", "start"}
InCase == {"verify", "completed", "linkCompleted"}
CaseUnderway ==
  {"case", "running", "linkRunning", "call", "final", "terminal", "draft", "linkTerminal"} \cup InCase

PassedOnDisk(l) ==
  /\ l.manifest # None /\ l.manifest.status = "passed"
  /\ \A i \in Ordinals : [ordinal |-> i, passed |-> TRUE, sound |-> TRUE] \in l.files

(* A ledger is its batch's: opened by it or for it, started with its        *)
(* authorization, ended with its draft.                                     *)
Fits(l, p) ==
  /\ l \in Ledger /\ p \in Batch
  /\ p.pc = "idle" => p = NewBatch
  /\ p.pc \notin {"idle", "ended"} \/ l.opened => p.auth \in Authorizations
  /\ ~l.opened => l.checkpoints = <<>> /\ l.files = {} /\ l.manifest = None
  /\ HasStarted(l) => l.checkpoints[1] = Started(p.auth)
  /\ l.manifest # None => l.manifest.auth = p.auth
  /\ p.pc \in PreStart => ~HasStarted(l) /\ p.index = 1
  /\ p.pc = "start" => l.opened
  /\ p.pc \in CaseUnderway => HasStarted(l)
  /\ p.pc \in InCase => p.evidence \in l.files /\ p.evidence.ordinal = p.index
  /\ p.pc \in {"terminal", "draft", "linkTerminal"} => p.ending \in {Passed, CaseFailed, Infrastructure}
  /\ p.pc \in {"linkTerminal", "confirm"} =>
       p.draft \in Manifest /\ p.draft.auth = p.auth /\ p.draft.status \in {"passed", "blocked"}
  /\ p.pc = "confirm" => l.manifest = p.draft
  /\ p.outcome = "passed" => PassedOnDisk(l)

(* What the ledger of a batch nobody has taken for dead is, step by step.   *)
Phased(l, p) ==
  /\ Loads(l) /\ AccountsFor(l)
  /\ l.manifest # None => /\ ManifestValid(l)
                          /\ p.pc \in {"confirm", "release", "rename", "ended", "crashed"}
  /\ p.pc \in PreStart => l.files = {}
  /\ p.pc \in {"case", "running", "linkRunning"} =>
       /\ Len(l.checkpoints) = 2 * p.index - 1 /\ Loose(l) = {}
       /\ p.index > 1 => l.checkpoints[Len(l.checkpoints)].passed
  /\ p.pc = "call" => Len(l.checkpoints) = 2 * p.index /\ Loose(l) = {}
  /\ p.pc \in InCase => Len(l.checkpoints) = 2 * p.index /\ Loose(l) \subseteq {p.evidence}
  /\ p.pc = "linkCompleted" => p.evidence.sound
  /\ p.pc = "linkTerminal" => /\ p.draft = BuildManifest(l, p.ending, p.auth, p.notRun)
                              /\ CanEnd(l, p.ending, p.notRun)

(* What a recovery knows of its target.                                     *)
RecoveryFits(r) ==
  /\ recoveries[r] \in Recovery
  /\ recoveries[r].pc # "idle" => /\ Target(r) \in Batches
                                  /\ batches[Target(r)].auth \in Authorizations
  /\ recoveries[r].pc = "link" => /\ recoveries[r].draft \in Manifest
                                  /\ recoveries[r].draft.auth = batches[Target(r)].auth
                                  /\ ledgers[Target(r)].opened

RecoveryPhased(r) ==
  /\ recoveries[r].pc # "idle" => Dead(Target(r))
  /\ recoveries[r].pc = "link" =>
       LET l == ledgers[Target(r)]  auth == batches[Target(r)].auth IN
       /\ recoveries[r].draft = BuildManifest(l, Interrupted, auth, NotRun(l, Interrupted))
       /\ CanEnd(l, Interrupted, NotRun(l, Interrupted))
       /\ StartedAuth(l) \in {None, auth}

(* The lock is its holder's, or that of the dead batch being recovered.     *)
Exclusive ==
  /\ \A b \in Batches : batches[b].pc \in Holding => Owns(b)
  /\ \A r \in Recoveries : recoveries[r].pc # "idle" => Owns(Target(r))
  /\ \A r, q \in Recoveries : recoveries[r].pc # "idle" /\ recoveries[q].pc # "idle" => r = q

(* A batch that passed the preflight is the only one with its authorization. *)
Unspent ==
  \A b \in Batches : batches[b].pc \in {"claim", "open", "start"} =>
    \A c \in Batches \ {b} : RecordedAuth(ledgers[c]) # batches[b].auth

Typed ==
  /\ ledgers \in [Batches -> Ledger] /\ batches \in [Batches -> Batch]
  /\ recoveries \in [Recoveries -> Recovery]
  /\ lock \in Locks /\ faults \in 0 .. MaxFaults /\ raced \in BOOLEAN /\ misread \in BOOLEAN

QualificationInv ==
  /\ Typed
  /\ \A b \in Batches : Fits(ledgers[b], batches[b])
  /\ \A b \in Batches : Owns(b) => batches[b].auth \in Authorizations
  /\ \A r \in Recoveries : RecoveryFits(r)
  /\ ~misread => /\ \A b \in Batches : Phased(ledgers[b], batches[b])
                 /\ \A r \in Recoveries : RecoveryPhased(r)
  /\ ~misread /\ ~raced => Exclusive /\ Unspent

-----------------------------------------------------------------------------
(* What a step of a batch does to its ledger and its process *)

Kept(l, p, m, q) == Fits(m, q) /\ (Phased(l, p) => Phased(m, q))

(* The next call is one that asks no more of the ledger than the last.      *)
Advances(p, x) ==
  \/ p.pc = "write" /\ x \in {"readback", "cleanup"}
  \/ p.pc = "readback" /\ x \in {"preflight", "cleanup"}
  \/ p.pc = "preflight" /\ x = "claim"
  \/ p.pc = "claim" /\ x = "open"
  \/ p.pc = "case" /\ x = "running"
  \/ p.pc = "running" /\ x = "linkRunning"
  \/ p.pc = "verify" /\ x = "completed"
  \/ p.pc = "completed" /\ x = "linkCompleted" /\ p.evidence.sound
  \/ p.pc = "terminal" /\ x = "draft"
  \/ p.pc = "release" /\ x = "rename"

LEMMA AdvanceKeeps ==
  ASSUME NEW l, NEW p, Fits(l, p), NEW x, Advances(p, x), NEW q, q = [p EXCEPT !.pc = x]
  PROVE  Kept(l, p, l, q) /\ q.pc = x /\ q.auth = p.auth
<1>1. p \in Batch /\ l \in Ledger
  BY DEF Fits
<1>2. /\ q.pc = x /\ q.auth = p.auth /\ q.index = p.index /\ q.evidence = p.evidence
      /\ q.ending = p.ending /\ q.draft = p.draft /\ q.notRun = p.notRun /\ q.outcome = p.outcome
  BY <1>1 DEF Batch
<1>3. q \in Batch
  BY <1>1 DEF Advances, Batch, Acquiring, Holding
<1>4. Fits(l, q)
  BY <1>1, <1>2, <1>3 DEF Fits, Advances, PreStart, Acquiring, InCase, CaseUnderway
<1>5. Phased(l, p) => Phased(l, q)
  BY <1>2 DEF Phased, Advances, PreStart, Acquiring, InCase, CaseUnderway
<1> QED
  BY <1>2, <1>4, <1>5 DEF Kept

(* The process of p when it is over, when it failed to start, and when it   *)
(* is to publish its terminal manifest.                                     *)
Over(p, x, outcome) == [NewBatch EXCEPT !.pc = x, !.auth = p.auth, !.outcome = outcome]
Failed(p) == [p EXCEPT !.pc = "release", !.outcome = "failed"]
Finishing(p, e, n) == [p EXCEPT !.pc = "terminal", !.ending = e, !.notRun = n]

LEMMA ClearedBatch ==
  ASSUME NEW x \in {"idle", "ended", "crashed"}, NEW auth \in Authorizations \cup {None},
         NEW outcome \in {"failed", "passed", "blocked", None}
  PROVE  [pc |-> x, auth |-> auth, index |-> 1, published |-> FALSE, evidence |-> None,
          ending |-> None, notRun |-> {}, draft |-> None, outcome |-> outcome] \in Batch
  BY ScheduleAssumption DEF Batch, Ordinals

LEMMA EndKeeps ==
  ASSUME NEW l, NEW p, Fits(l, p), NEW outcome \in {"failed", "passed", "blocked", None},
         outcome = "passed" => PassedOnDisk(l), NEW x \in {"ended", "crashed"},
         x = "crashed" => p.pc # "idle" /\ p.pc # "ended",
         NEW q, q = Over(p, x, outcome)
  PROVE  Kept(l, p, l, q) /\ q.pc = x /\ q.auth = p.auth
<1>1. p \in Batch /\ l \in Ledger
  BY DEF Fits
<1>2. q = [pc |-> x, auth |-> p.auth, index |-> 1, published |-> FALSE, evidence |-> None,
           ending |-> None, notRun |-> {}, draft |-> None, outcome |-> outcome]
  BY DEF NewBatch, Over
<1>3. p.auth \in Authorizations \cup {None} /\ 1 \in Ordinals
  BY <1>1, ScheduleAssumption DEF Batch, Ordinals
<1>4. q \in Batch
  <2>1. x \in {"idle", "ended", "crashed"}
    OBVIOUS
  <2>2. [pc |-> x, auth |-> p.auth, index |-> 1, published |-> FALSE, evidence |-> None,
         ending |-> None, notRun |-> {}, draft |-> None, outcome |-> outcome] \in Batch
    BY <1>3, <2>1, ClearedBatch, Zenon
  <2> QED
    BY <1>2, <2>2, Zenon
<1>5. q.pc = x /\ q.auth = p.auth /\ q.outcome = outcome
  BY <1>2
<1>6. Fits(l, q)
  BY <1>1, <1>4, <1>5 DEF Fits, PreStart, Acquiring, InCase, CaseUnderway
<1>7. Phased(l, p) => Phased(l, q)
  BY <1>5 DEF Phased, PreStart, Acquiring, InCase
<1> QED
  BY <1>5, <1>6, <1>7 DEF Kept

LEMMA FailToStartKeeps ==
  ASSUME NEW l, NEW p, Fits(l, p), p.pc \in {"preflight", "claim", "open", "start"},
         NEW q, q = Failed(p)
  PROVE  Kept(l, p, l, q) /\ q.pc = "release" /\ q.auth = p.auth
<1>1. p \in Batch /\ l \in Ledger
  BY DEF Fits
<1>2. q.pc = "release" /\ q.auth = p.auth /\ q.outcome = "failed"
  BY <1>1 DEF Batch, Failed
<1>3. q \in Batch
  BY <1>1 DEF Failed, Batch, Acquiring, Holding
<1>4. Fits(l, q)
  BY <1>1, <1>2, <1>3 DEF Fits, PreStart, Acquiring, InCase, CaseUnderway
<1>5. Phased(l, p) => Phased(l, q)
  BY <1>2 DEF Phased, PreStart, Acquiring, InCase
<1> QED
  BY <1>2, <1>4, <1>5 DEF Kept

LEMMA FinishKeeps ==
  ASSUME NEW l, NEW p, Fits(l, p), p.pc \in CaseUnderway \ {"terminal", "draft", "linkTerminal"},
         NEW e \in {Passed, CaseFailed, Infrastructure}, NEW n \in SUBSET Ordinals,
         NEW q, q = Finishing(p, e, n)
  PROVE  Kept(l, p, l, q) /\ q.pc = "terminal" /\ q.auth = p.auth
<1>1. p \in Batch /\ l \in Ledger
  BY DEF Fits
<1>2. q.pc = "terminal" /\ q.auth = p.auth /\ q.ending = e /\ q.outcome = p.outcome
  BY <1>1 DEF Batch, Finishing
<1>3. e \in Endings
  BY DEF Passed, CaseFailed, Infrastructure, Endings
<1>4. q \in Batch
  BY <1>1, <1>3 DEF Finishing, Batch, Acquiring, Holding
<1>5. Fits(l, q)
  BY <1>1, <1>2, <1>4 DEF Fits, PreStart, Acquiring, InCase, CaseUnderway
<1>6. Phased(l, p) => Phased(l, q)
  BY <1>2 DEF Phased, PreStart, Acquiring, InCase, CaseUnderway
<1> QED
  BY <1>2, <1>5, <1>6 DEF Kept

(* A step of b puts m and q for its ledger and its process: they fit again; *)
(* only a holder writes, and only a process that owns the lock becomes one; *)
(* the lock is taken when it is free and freed by its owner; and no process *)
(* passes the preflight with an authorization that is recorded anywhere.    *)
LockMoves(b) ==
  \/ lock = Absent /\ lock' = Bare
  \/ lock = Bare /\ lock' = Owned(b) /\ At(b, "write")
  \/ lock = Bare /\ lock' \in {Torn, Absent}
  \/ Owns(b) /\ At(b, "cleanup") /\ lock' \in {Absent, Bare}
  \/ At(b, "rename") /\ lock' = Absent

Effect(b, m, q) ==
  LET l == ledgers[b]  p == batches[b] IN
  /\ batches' = [batches EXCEPT ![b] = q] /\ ledgers' = [ledgers EXCEPT ![b] = m]
  /\ UNCHANGED <<recoveries, raced, misread>>
  /\ faults' \in 0 .. MaxFaults
  /\ ~Dead(b)
  /\ Kept(l, p, m, q)
  /\ p.pc = "idle" \/ q.auth = p.auth
  /\ m # l => p.pc \in Holding
  /\ l.opened => m.opened
  /\ HasStarted(m) => HasStarted(l) \/ (p.pc = "start" /\ StartedAuth(m) = p.auth)
  /\ q.pc \in Holding => p.pc \in Holding \/ Owns(b)
  /\ q.pc \in {"claim", "open", "start"} =>
       /\ q.auth = p.auth
       /\ p.pc \in {"claim", "open"} \/ \A c \in Batches : Unused(ledgers[c], p.auth)
  /\ UNCHANGED lock \/ (LockMoves(b) /\ q.pc \notin Holding)

Moved(b) == \E m, q : Effect(b, m, q)

Ready(b) == b \in Batches /\ Typed /\ Fits(ledgers[b], batches[b])

(* The ledger is left alone.                                                *)
Quiet == UNCHANGED <<ledgers, recoveries, raced, misread>> /\ (Works \/ Fails)

LEMMA Faults == Typed /\ (Works \/ Fails) => faults' \in 0 .. MaxFaults
  BY FaultAssumption DEF Typed, Works, Fails

LEMMA QuietMoves ==
  ASSUME NEW b, Ready(b), Quiet, ~Dead(b), NEW q, batches' = [batches EXCEPT ![b] = q],
         Kept(ledgers[b], batches[b], ledgers[b], q), At(b, "idle") \/ q.auth = batches[b].auth,
         q.pc \in Holding => batches[b].pc \in Holding \/ Owns(b),
         q.pc \in {"claim", "open", "start"} =>
           /\ q.auth = batches[b].auth
           /\ batches[b].pc \in {"claim", "open"} \/ \A c \in Batches : Unused(ledgers[c], batches[b].auth),
         UNCHANGED lock \/ (LockMoves(b) /\ q.pc \notin Holding)
  PROVE  Moved(b)
<1>1. ledgers' = [ledgers EXCEPT ![b] = ledgers[b]]
  BY DEF Quiet, Ready, Typed
<1>2. faults' \in 0 .. MaxFaults
  BY Faults DEF Quiet, Ready
<1>3. Effect(b, ledgers[b], q)
  BY <1>1, <1>2 DEF Effect, Quiet, At
<1> QED
  BY <1>3 DEF Moved

LEMMA StepMoves ==
  ASSUME NEW b, Ready(b), Quiet, NEW x, Step(b, x), Advances(batches[b], x),
         x \in Holding => batches[b].pc \in Holding \/ Owns(b),
         x \in {"claim", "open", "start"} =>
           batches[b].pc \in {"claim", "open"} \/ \A c \in Batches : Unused(ledgers[c], batches[b].auth),
         UNCHANGED lock \/ (LockMoves(b) /\ x \notin Holding)
  PROVE  Moved(b)
<1> DEFINE q == [batches[b] EXCEPT !.pc = x]
<1>1. Kept(ledgers[b], batches[b], ledgers[b], q) /\ q.pc = x /\ q.auth = batches[b].auth
  BY AdvanceKeeps DEF Ready
<1>2. batches' = [batches EXCEPT ![b] = q]
  BY DEF Step
<1>3. ~Dead(b)
  BY DEF Advances, Dead
<1> HIDE DEF q
<1> QED
  BY <1>1, <1>2, <1>3, QuietMoves

LEMMA EndMoves ==
  ASSUME NEW b, Ready(b), Quiet, ~Dead(b), NEW outcome \in {"failed", "passed", "blocked", None},
         End(b, outcome), outcome = "passed" => PassedOnDisk(ledgers[b]),
         UNCHANGED lock \/ LockMoves(b)
  PROVE  Moved(b)
<1> DEFINE q == Over(batches[b], "ended", outcome)
<1>1. Kept(ledgers[b], batches[b], ledgers[b], q) /\ q.pc = "ended" /\ q.auth = batches[b].auth
  BY EndKeeps DEF Ready
<1>2. batches' = [batches EXCEPT ![b] = q]
  BY DEF End, Over
<1> HIDE DEF q
<1>3. q.pc \notin Holding /\ q.pc \notin {"claim", "open", "start"}
  BY <1>1 DEF Holding
<1> QED
  BY <1>1, <1>2, <1>3, QuietMoves

LEMMA StopMoves ==
  ASSUME NEW b, Ready(b), Quiet, ~Dead(b), Stop(b) \/ End(b, "failed"), UNCHANGED lock \/ LockMoves(b)
  PROVE  Moved(b)
  BY EndMoves DEF Stop

LEMMA FailToStartMoves ==
  ASSUME NEW b, Ready(b), Quiet, FailToStart(b), UNCHANGED lock,
         batches[b].pc \in {"preflight", "claim", "open", "start"}
  PROVE  Moved(b)
<1> DEFINE q == Failed(batches[b])
<1>1. Kept(ledgers[b], batches[b], ledgers[b], q) /\ q.pc = "release" /\ q.auth = batches[b].auth
  BY FailToStartKeeps DEF Ready
<1>2. batches' = [batches EXCEPT ![b] = q]
  BY DEF FailToStart, Failed
<1>3. ~Dead(b) /\ batches[b].pc \in Holding
  BY DEF Dead, Holding
<1> HIDE DEF q
<1> QED
  BY <1>1, <1>2, <1>3, QuietMoves

LEMMA FinishMoves ==
  ASSUME NEW b, Ready(b), Quiet, NEW e \in {Passed, CaseFailed, Infrastructure},
         NEW n \in SUBSET Ordinals, Finish(b, e, n), UNCHANGED lock,
         batches[b].pc \in CaseUnderway \ {"terminal", "draft", "linkTerminal"}
  PROVE  Moved(b)
<1> DEFINE q == Finishing(batches[b], e, n)
<1>1. Kept(ledgers[b], batches[b], ledgers[b], q) /\ q.pc = "terminal" /\ q.auth = batches[b].auth
  BY FinishKeeps DEF Ready
<1>2. batches' = [batches EXCEPT ![b] = q]
  BY DEF Finish, Finishing
<1>3. ~Dead(b) /\ batches[b].pc \in Holding
  BY DEF Dead, Holding, CaseUnderway, InCase
<1> HIDE DEF q
<1> QED
  BY <1>1, <1>2, <1>3, QuietMoves

LEMMA InfrastructureMoves ==
  ASSUME NEW b, Ready(b), Quiet, PublishInfrastructureTerminal(b), UNCHANGED lock,
         batches[b].pc \in CaseUnderway \ {"terminal", "draft", "linkTerminal"}
  PROVE  Moved(b)
<1>1. \A k : Slice(k) \in SUBSET Ordinals
  BY DEF Slice
<1> QED
  BY <1>1, FinishMoves DEF PublishInfrastructureTerminal

LEMMA AcquireMoves ==
  ASSUME NEW b, Ready(b), NEW auth \in Authorizations, Acquire(b, auth)
  PROVE  Moved(b)
<1> DEFINE l == ledgers[b]
           p == batches[b]
<1>1. Quiet /\ Fits(l, p) /\ p.pc = "idle" /\ ~Dead(b)
  BY DEF Acquire, Quiet, Ready, At, Dead
<1>2. CASE /\ lock = Absent /\ lock' = Bare
           /\ batches' = [batches EXCEPT ![b].pc = "write", ![b].auth = auth]
  <2> DEFINE q == [p EXCEPT !.pc = "write", !.auth = auth]
  <2>1. p \in Batch /\ l \in Ledger /\ p.auth = None /\ p.outcome = None
    BY <1>1 DEF Fits, NewBatch
  <2>2. q.pc = "write" /\ q.auth = auth /\ q.outcome = p.outcome /\ q.index = p.index
    BY <2>1 DEF Batch
  <2>3. q \in Batch
    BY <2>1 DEF Batch, Acquiring
  <2>4. batches' = [batches EXCEPT ![b] = q]
    BY <1>2
  <2> HIDE DEF q
  <2>5. ~l.opened
    BY <1>1, <2>1, NoneAssumption DEF Fits
  <2>6. Fits(l, q)
    BY <1>1, <2>1, <2>2, <2>3, <2>5 DEF Fits, HasStarted, PreStart, Acquiring, InCase, CaseUnderway
  <2>7. Phased(l, p) => Phased(l, q)
    BY <1>1, <2>2 DEF Phased, PreStart, Acquiring, InCase
  <2>8. q.pc \notin Holding /\ q.pc \notin {"claim", "open", "start"}
    BY <2>2 DEF Holding
  <2> QED
    BY <1>1, <1>2, <2>4, <2>6, <2>7, <2>8, QuietMoves DEF At, LockMoves, Kept
<1>3. CASE End(b, "failed") /\ UNCHANGED lock
  BY <1>1, <1>3, StopMoves
<1> QED
  BY <1>2, <1>3 DEF Acquire

LEMMA WriteOwnerMoves ==
  ASSUME NEW b, Ready(b), WriteOwner(b)
  PROVE  Moved(b)
<1>1. Quiet /\ batches[b].pc = "write" /\ At(b, "write")
  BY DEF WriteOwner, Quiet, At
<1>2. \A x \in {"readback", "cleanup"} :
        Advances(batches[b], x) /\ x \notin Holding /\ x \notin {"claim", "open", "start"}
  BY <1>1 DEF Advances, Holding
<1>3. UNCHANGED lock \/ LockMoves(b)
  BY <1>1 DEF WriteOwner, LockMoves
<1>4. \E x \in {"readback", "cleanup"} : Step(b, x)
  BY DEF WriteOwner
<1> QED
  BY <1>1, <1>2, <1>3, <1>4, StepMoves

LEMMA ReadBackMoves ==
  ASSUME NEW b, Ready(b), ReadBack(b)
  PROVE  Moved(b)
<1>1. Quiet /\ UNCHANGED lock /\ batches[b].pc = "readback"
  BY DEF ReadBack, Quiet, At
<1>2. CASE Owns(b) /\ Step(b, "preflight")
  <2>1. Advances(batches[b], "preflight") /\ "preflight" \notin {"claim", "open", "start"}
    BY <1>1 DEF Advances
  <2> QED
    BY <1>1, <1>2, <2>1, StepMoves
<1>3. CASE Step(b, "cleanup")
  <2>1. Advances(batches[b], "cleanup") /\ "cleanup" \notin Holding /\ "cleanup" \notin {"claim", "open", "start"}
    BY <1>1 DEF Advances, Holding
  <2> QED
    BY <1>1, <1>3, <2>1, StepMoves
<1> QED
  BY <1>2, <1>3 DEF ReadBack

LEMMA CleanUpMoves ==
  ASSUME NEW b, Ready(b), CleanUp(b)
  PROVE  Moved(b)
<1>1. Quiet /\ ~Dead(b) /\ End(b, "failed") /\ At(b, "cleanup")
  BY DEF CleanUp, Quiet, At, Dead
<1>2. UNCHANGED lock \/ LockMoves(b)
  BY <1>1 DEF CleanUp, LockMoves
<1> QED
  BY <1>1, <1>2, StopMoves

LEMMA PreflightMoves ==
  ASSUME NEW b, Ready(b), Preflight(b)
  PROVE  Moved(b)
<1>1. Quiet /\ UNCHANGED lock /\ batches[b].pc = "preflight"
  BY DEF Preflight, Quiet, At
<1>2. CASE (\A c \in Batches : Unused(ledgers[c], batches[b].auth)) /\ Step(b, "claim")
  <2>1. Advances(batches[b], "claim") /\ batches[b].pc \in Holding
    BY <1>1 DEF Advances, Holding
  <2> QED
    BY <1>1, <1>2, <2>1, StepMoves
<1>3. CASE FailToStart(b)
  BY <1>1, <1>3, FailToStartMoves
<1> QED
  BY <1>2, <1>3 DEF Preflight

LEMMA ClaimMoves ==
  ASSUME NEW b, Ready(b), Claim(b)
  PROVE  Moved(b)
<1>1. Quiet /\ UNCHANGED lock /\ batches[b].pc = "claim"
  BY DEF Claim, Quiet, At
<1>2. CASE Step(b, "open")
  <2>1. Advances(batches[b], "open") /\ batches[b].pc \in Holding
    BY <1>1 DEF Advances, Holding
  <2> QED
    BY <1>1, <1>2, <2>1, StepMoves
<1>3. CASE FailToStart(b)
  BY <1>1, <1>3, FailToStartMoves
<1> QED
  BY <1>2, <1>3 DEF Claim

(* The next call of a holder that is past its preflight.                    *)
LEMMA HolderMoves ==
  ASSUME NEW b, Ready(b), Quiet, UNCHANGED lock, NEW x, Step(b, x), Advances(batches[b], x),
         batches[b].pc \in CaseUnderway \cup {"release"}
  PROVE  Moved(b)
<1>1. batches[b].pc \in Holding
  BY DEF Holding, CaseUnderway, InCase
<1>2. x \notin {"claim", "open", "start"}
  BY DEF Advances, CaseUnderway, InCase
<1> QED
  BY <1>1, <1>2, StepMoves

LEMMA CheckMoves ==
  ASSUME NEW b, Ready(b), CheckCase(b) \/ CheckResult(b)
  PROVE  Moved(b)
<1>1. PICK x \in {"running", "completed"} :
        /\ Quiet /\ UNCHANGED lock /\ Advances(batches[b], x) /\ batches[b].pc \in {"case", "verify"}
        /\ Step(b, x) \/ PublishInfrastructureTerminal(b) \/ Stop(b)
  BY DEF CheckCase, CheckResult, AssertCandidate, Quiet, Advances, At
<1>2. ~Dead(b) /\ batches[b].pc \in CaseUnderway \ {"terminal", "draft", "linkTerminal"}
  BY <1>1 DEF Dead, CaseUnderway, InCase
<1>3. batches[b].pc \in CaseUnderway \cup {"release"}
  BY <1>2
<1> QED
  BY <1>1, <1>2, <1>3, HolderMoves, InfrastructureMoves, StopMoves

LEMMA StartCaseMoves ==
  ASSUME NEW b, Ready(b), StartCase(b)
  PROVE  Moved(b)
<1>1. /\ Quiet /\ UNCHANGED lock /\ batches[b].pc = "running"
      /\ Step(b, "linkRunning") \/ PublishInfrastructureTerminal(b)
  BY DEF StartCase, Quiet, At
<1>2. /\ Advances(batches[b], "linkRunning") /\ batches[b].pc \in CaseUnderway \cup {"release"}
      /\ batches[b].pc \in CaseUnderway \ {"terminal", "draft", "linkTerminal"}
  BY <1>1 DEF Advances, CaseUnderway
<1> QED
  BY <1>1, <1>2, HolderMoves, InfrastructureMoves

LEMMA CompleteCaseMoves ==
  ASSUME NEW b, Ready(b), CompleteCase(b)
  PROVE  Moved(b)
<1>1. /\ Quiet /\ UNCHANGED lock /\ batches[b].pc = "completed"
      /\ (Step(b, "linkCompleted") /\ batches[b].evidence.sound) \/ PublishInfrastructureTerminal(b)
  BY DEF CompleteCase, Quiet, At
<1>2. /\ batches[b].evidence.sound => Advances(batches[b], "linkCompleted")
      /\ batches[b].pc \in CaseUnderway \cup {"release"}
      /\ batches[b].pc \in CaseUnderway \ {"terminal", "draft", "linkTerminal"}
  BY <1>1 DEF Advances, CaseUnderway, InCase
<1> QED
  BY <1>1, <1>2, HolderMoves, InfrastructureMoves

LEMMA CheckBatchMoves ==
  ASSUME NEW b, Ready(b), CheckBatch(b)
  PROVE  Moved(b)
<1>1. /\ Quiet /\ UNCHANGED lock /\ batches[b].pc = "final"
      /\ (\E e \in {Passed, Infrastructure} : Finish(b, e, {})) \/ Stop(b)
  BY DEF CheckBatch, Quiet, At
<1>2. ~Dead(b) /\ batches[b].pc \in CaseUnderway \ {"terminal", "draft", "linkTerminal"}
  BY <1>1 DEF Dead, CaseUnderway
<1> QED
  BY <1>1, <1>2, FinishMoves, StopMoves

LEMMA ClaimTerminalMoves ==
  ASSUME NEW b, Ready(b), ClaimTerminal(b)
  PROVE  Moved(b)
<1>1. Quiet /\ UNCHANGED lock /\ batches[b].pc = "terminal" /\ (Step(b, "draft") \/ Stop(b))
  BY DEF ClaimTerminal, Quiet, At
<1>2. Advances(batches[b], "draft") /\ ~Dead(b) /\ batches[b].pc \in CaseUnderway \cup {"release"}
  BY <1>1 DEF Advances, Dead, CaseUnderway
<1> QED
  BY <1>1, <1>2, HolderMoves, StopMoves

LEMMA ReleaseMoves ==
  ASSUME NEW b, Ready(b), Release(b)
  PROVE  Moved(b)
<1>1. Quiet /\ UNCHANGED lock /\ batches[b].pc = "release" /\ (Step(b, "rename") \/ End(b, "failed"))
  BY DEF Release, Quiet, At
<1>2. Advances(batches[b], "rename") /\ ~Dead(b) /\ batches[b].pc \in CaseUnderway \cup {"release"}
  BY <1>1 DEF Advances, Dead
<1> QED
  BY <1>1, <1>2, HolderMoves, StopMoves

LEMMA RenameMoves ==
  ASSUME NEW b, Ready(b), Rename(b)
  PROVE  Moved(b)
<1>1. Quiet /\ At(b, "rename") /\ ~Dead(b)
  BY DEF Rename, Quiet, At, Dead
<1>2. CASE lock' = Absent /\ End(b, batches[b].outcome)
  <2>1. batches[b].outcome \in {"failed", "passed", "blocked", None}
        /\ (batches[b].outcome = "passed" => PassedOnDisk(ledgers[b]))
    BY DEF Ready, Fits, Batch
  <2> QED
    BY <1>1, <1>2, <2>1, EndMoves DEF LockMoves
<1>3. CASE End(b, "failed") /\ UNCHANGED lock
  BY <1>1, <1>3, StopMoves
<1> QED
  BY <1>2, <1>3 DEF Rename

LEMMA CrashMoves ==
  ASSUME NEW b, Ready(b), Crash(b)
  PROVE  Moved(b)
<1> DEFINE q == Over(batches[b], "crashed", None)
<1>1. Quiet /\ ~Dead(b) /\ batches[b].pc # "idle" /\ batches[b].pc # "ended"
  BY DEF Crash, Quiet, Dead, Acquiring, Holding
<1>2. Kept(ledgers[b], batches[b], ledgers[b], q) /\ q.pc = "crashed" /\ q.auth = batches[b].auth
  BY <1>1, EndKeeps, BatchAssumption DEF Ready
<1>3. batches' = [batches EXCEPT ![b] = q]
  <2> DEFINE cleared ==
        [pc |-> "crashed", auth |-> batches[b].auth, index |-> 1, published |-> FALSE,
         evidence |-> None, ending |-> None, notRun |-> {}, draft |-> None, outcome |-> None]
  <2>1. q = [NewBatch EXCEPT !.pc = "crashed", !.auth = batches[b].auth]
    <3>1. ASSUME NEW x, NEW auth, NEW r, r = [NewBatch EXCEPT !.pc = x, !.auth = auth]
          PROVE  r = [pc |-> x, auth |-> auth, index |-> 1, published |-> FALSE, evidence |-> None,
                      ending |-> None, notRun |-> {}, draft |-> None, outcome |-> None]
      BY <3>1 DEF NewBatch
    <3>2. ASSUME NEW x, NEW o, NEW r, r = Over(batches[b], x, o)
          PROVE  r = [pc |-> x, auth |-> batches[b].auth, index |-> 1, published |-> FALSE,
                      evidence |-> None, ending |-> None, notRun |-> {}, draft |-> None, outcome |-> o]
      BY <3>2 DEF NewBatch, Over
    <3>3. q = cleared
      BY <3>2
    <3>4. [NewBatch EXCEPT !.pc = "crashed", !.auth = batches[b].auth] = cleared
      BY <3>1
    <3> HIDE DEF cleared
    <3> QED
      BY <3>3, <3>4
  <2> HIDE DEF q
  <2> QED
    BY <2>1 DEF Crash
<1> HIDE DEF q
<1>4. q.pc \notin Holding /\ q.pc \notin {"claim", "open", "start"}
  BY <1>2 DEF Holding
<1>5. UNCHANGED lock \/ LockMoves(b)
  BY DEF Crash, LockMoves
<1> QED
  BY <1>1, <1>2, <1>3, <1>4, <1>5, QuietMoves

(* The manifest that is drafted is one, of the batch's authorization.       *)
LEMMA DraftTerminalMoves ==
  ASSUME NEW b, Ready(b), DraftTerminal(b)
  PROVE  Moved(b)
<1> DEFINE l == ledgers[b]
           p == batches[b]
           draft == BuildManifest(l, p.ending, StartedAuth(l), p.notRun)
           q == [p EXCEPT !.pc = "linkTerminal", !.draft = draft]
<1>1. Quiet /\ UNCHANGED lock /\ p.pc = "draft" /\ ~Dead(b) /\ Fits(l, p)
  BY DEF DraftTerminal, Quiet, At, Dead, Ready
<1>2. CASE HasStarted(l) /\ CanEnd(l, p.ending, p.notRun) /\ batches' = [batches EXCEPT ![b] = q]
  <2>1. l \in Ledger /\ p \in Batch /\ p.auth \in Authorizations
        /\ p.ending \in {Passed, CaseFailed, Infrastructure} /\ l.checkpoints[1] = Started(p.auth)
    BY <1>1, <1>2 DEF Fits
  <2>2. StartedAuth(l) = p.auth
    BY <1>2, <2>1 DEF StartedAuth, Started
  <2>3. p.ending \in Endings /\ p.ending.status \in {"passed", "blocked"} /\ p.notRun \in SUBSET Ordinals
    BY <2>1 DEF Passed, CaseFailed, Infrastructure, Endings, Batch
  <2>4. draft \in Manifest
    BY <2>1, <2>2, <2>3, BuiltManifest
  <2>5. draft.auth = p.auth /\ draft.status \in {"passed", "blocked"}
    BY <2>2, <2>3 DEF BuildManifest
  <2>6. draft = BuildManifest(l, p.ending, p.auth, p.notRun)
    BY <2>2
  <2> HIDE DEF draft
  <2>7. /\ q.pc = "linkTerminal" /\ q.auth = p.auth /\ q.ending = p.ending /\ q.notRun = p.notRun
        /\ q.draft = draft /\ q.outcome = p.outcome
    BY <2>1 DEF Batch
  <2>8. q \in Batch
    BY <2>1, <2>4 DEF Batch, Acquiring, Holding
  <2> HIDE DEF q
  <2>9. Fits(l, q)
    BY <1>1, <2>1, <2>4, <2>5, <2>7, <2>8 DEF Fits, PreStart, Acquiring, InCase, CaseUnderway
  <2>10. Phased(l, p) => Phased(l, q)
    BY <1>1, <1>2, <2>6, <2>7 DEF Phased, PreStart, Acquiring, InCase
  <2>11. p.pc \in Holding /\ q.pc \notin {"claim", "open", "start"}
    BY <1>1, <2>7 DEF Holding
  <2> QED
    BY <1>1, <1>2, <2>7, <2>9, <2>10, <2>11, QuietMoves DEF Kept
<1>3. CASE Stop(b)
  BY <1>1, <1>3, StopMoves
<1> QED
  <2> HIDE DEF q
  <2>1. q = [p EXCEPT !.pc = "linkTerminal", !.draft = BuildManifest(l, p.ending, StartedAuth(l), p.notRun)]
    BY DEF q
  <2>2. \/ HasStarted(l) /\ CanEnd(l, p.ending, p.notRun) /\ batches' = [batches EXCEPT ![b] = q]
        \/ Stop(b)
    BY <2>1 DEF DraftTerminal
  <2> QED
    BY <1>2, <1>3, <2>2

(* A terminal manifest that says passed is read back with passed evidence   *)
(* of every case.                                                           *)
LEMMA ValidPassed ==
  ASSUME NEW l \in Ledger, ManifestValid(l), l.manifest.status = "passed"
  PROVE  PassedOnDisk(l)
<1>1. Passes(l) /\ Loads(l) /\ l.manifest # None
  BY DEF ManifestValid, CanEnd, EndingOf
<1> QED
  BY <1>1, PassedMeansEvidence DEF PassedOnDisk

LEMMA ConfirmTerminalMoves ==
  ASSUME NEW b, Ready(b), ConfirmTerminal(b)
  PROVE  Moved(b)
<1> DEFINE l == ledgers[b]
           p == batches[b]
           q == [p EXCEPT !.pc = "release", !.outcome = p.draft.status]
<1>1. Quiet /\ UNCHANGED lock /\ p.pc = "confirm" /\ ~Dead(b) /\ Fits(l, p)
  BY DEF ConfirmTerminal, Quiet, At, Dead, Ready
<1>2. CASE Terminal(l) = "valid" /\ batches' = [batches EXCEPT ![b] = q]
  <2>1. l \in Ledger /\ p \in Batch /\ l.manifest = p.draft /\ p.draft.status \in {"passed", "blocked"}
    BY <1>1 DEF Fits
  <2>2. ManifestValid(l)
    BY <1>2 DEF Terminal
  <2>3. p.draft.status = "passed" => PassedOnDisk(l)
    BY <2>1, <2>2, ValidPassed
  <2>4. q.pc = "release" /\ q.auth = p.auth /\ q.outcome = p.draft.status
    BY <2>1 DEF Batch
  <2>5. q \in Batch
    BY <2>1 DEF Batch, Acquiring, Holding
  <2> HIDE DEF q
  <2>6. Fits(l, q)
    BY <1>1, <2>1, <2>3, <2>4, <2>5 DEF Fits, PreStart, Acquiring, InCase, CaseUnderway
  <2>7. Phased(l, p) => Phased(l, q)
    BY <2>4 DEF Phased, PreStart, Acquiring, InCase
  <2>8. p.pc \in Holding /\ q.pc \notin {"claim", "open", "start"}
    BY <1>1, <2>4 DEF Holding
  <2> QED
    BY <1>1, <1>2, <2>4, <2>6, <2>7, <2>8, QuietMoves DEF Kept
<1>3. CASE Stop(b)
  BY <1>1, <1>3, StopMoves
<1> QED
  BY <1>2, <1>3 DEF ConfirmTerminal

(* The steps of a holder that write the ledger.                             *)
LEMMA WriteMoves ==
  ASSUME NEW b, Ready(b), UNCHANGED <<lock, recoveries, raced, misread>>, Works \/ Fails,
         batches[b].pc \in Holding,
         NEW m, NEW q, batches' = [batches EXCEPT ![b] = q], ledgers' = [ledgers EXCEPT ![b] = m],
         Kept(ledgers[b], batches[b], m, q), q.auth = batches[b].auth,
         HasStarted(m) => \/ HasStarted(ledgers[b])
                          \/ batches[b].pc = "start" /\ StartedAuth(m) = batches[b].auth,
         q.pc \in {"claim", "open", "start"} => batches[b].pc \in {"claim", "open"},
         ledgers[b].opened => m.opened
  PROVE  Moved(b)
<1>1. ~Dead(b)
  BY DEF Holding, Dead
<1>2. faults' \in 0 .. MaxFaults
  BY Faults DEF Ready
<1>3. Effect(b, m, q)
  BY <1>1, <1>2 DEF Effect
<1> QED
  BY <1>3 DEF Moved

LEMMA OpenMoves ==
  ASSUME NEW b, Ready(b), Open(b)
  PROVE  Moved(b)
<1> DEFINE l == ledgers[b]
           p == batches[b]
           m == [l EXCEPT !.opened = TRUE]
           q == [p EXCEPT !.pc = "start"]
<1>1. /\ UNCHANGED <<lock, recoveries, raced, misread>> /\ (Works \/ Fails)
      /\ p.pc = "open" /\ Fits(l, p)
  BY DEF Open, At, Ready
<1>2. CASE ledgers' = [ledgers EXCEPT ![b].opened = TRUE] /\ Step(b, "start")
  <2>1. l \in Ledger /\ p \in Batch
    BY <1>1 DEF Fits
  <2>2. m = [l EXCEPT !.opened = TRUE]
    OBVIOUS
  <2>3. m \in Ledger
    BY <2>1, <2>2, MadeOrLinked
  <2>4. m.opened /\ m.checkpoints = l.checkpoints /\ m.files = l.files /\ m.manifest = l.manifest
    BY <2>1, <2>2, MadeOrLinked
  <2>5. q.pc = "start" /\ q.auth = p.auth /\ q.outcome = p.outcome /\ q.index = p.index
    BY <2>1 DEF Batch
  <2>6. q \in Batch
    BY <2>1 DEF Batch, Acquiring, Holding
  <2>7. batches' = [batches EXCEPT ![b] = q] /\ ledgers' = [ledgers EXCEPT ![b] = m]
    BY <1>2 DEF Step
  <2> HIDE DEF q, m
  <2>8. /\ Loads(m) = Loads(l) /\ Loose(m) = Loose(l) /\ AccountsFor(m) = AccountsFor(l)
        /\ HasStarted(m) = HasStarted(l)
    BY <2>4, ReadFromRecords
  <2>9. PassedOnDisk(l) => PassedOnDisk(m)
    BY <2>4 DEF PassedOnDisk
  <2>10. Fits(m, q)
    BY <1>1, <2>1, <2>3, <2>4, <2>5, <2>6, <2>8, <2>9 DEF Fits, PreStart, Acquiring, InCase, CaseUnderway
  <2>11. Phased(l, p) => Phased(m, q)
    BY <1>1, <2>4, <2>5, <2>8 DEF Phased, PreStart, Acquiring, InCase
  <2>12. p.pc \in Holding
    BY <1>1 DEF Holding
  <2> QED
    BY <1>1, <2>4, <2>5, <2>7, <2>8, <2>10, <2>11, <2>12, WriteMoves DEF Kept
<1>3. CASE FailToStart(b) /\ UNCHANGED ledgers
  BY <1>1, <1>3, FailToStartMoves DEF Quiet
<1> QED
  BY <1>2, <1>3 DEF Open

LEMMA LinkStartedMoves ==
  ASSUME NEW b, Ready(b), LinkStarted(b)
  PROVE  Moved(b)
<1> DEFINE l == ledgers[b]
           p == batches[b]
           c == Started(p.auth)
           m == WithCheckpoint(l, c)
           q == [p EXCEPT !.pc = "case"]
<1>1. /\ UNCHANGED <<lock, recoveries, raced, misread>> /\ (Works \/ Fails)
      /\ p.pc = "start" /\ Fits(l, p)
  BY DEF LinkStarted, At, Ready
<1>2. CASE ledgers' = Append1(b, Started(p.auth)) /\ Step(b, "case")
  <2>1. l \in Ledger /\ p \in Batch /\ l.opened /\ p.auth \in Authorizations /\ l.checkpoints = <<>>
    BY <1>1 DEF Fits, HasStarted, PreStart
  <2>2. c \in Checkpoint /\ c.kind = "batch_started" /\ c.auth = p.auth
    BY <2>1 DEF Started, Checkpoint, Kinds
  <2>3. batches' = [batches EXCEPT ![b] = q] /\ ledgers' = [ledgers EXCEPT ![b] = m]
    BY <1>2 DEF Step, Append1, WithCheckpoint
  <2>4. q.pc = "case" /\ q.auth = p.auth /\ q.outcome = p.outcome /\ q.index = p.index
    BY <2>1 DEF Batch
  <2>5. q \in Batch
    BY <2>1 DEF Batch, Acquiring, Holding
  <2> HIDE DEF c, q, m
  <2>6. /\ m \in Ledger /\ m.files = l.files /\ m.manifest = l.manifest /\ m.opened = l.opened
        /\ Len(m.checkpoints) = Len(l.checkpoints) + 1 /\ m.checkpoints[Len(m.checkpoints)] = c
        /\ HasStarted(m)
        /\ Loads(l) /\ InPlace(l, c) => Loads(m)
        /\ Loose(m) = Loose(l)
    <3>1. l \in Ledger /\ c \in Checkpoint /\ m = WithCheckpoint(l, c) /\ c.kind # "case_completed"
      BY <2>1, <2>2 DEF m
    <3> HIDE DEF l
    <3> QED
      BY <3>1, Appended
  <2>7. Len(l.checkpoints) = 0 /\ Len(m.checkpoints) = 1 /\ m.checkpoints[1] = c
    BY <2>1, <2>6
  <2>8. StartedAuth(m) = p.auth
    BY <2>2, <2>6, <2>7 DEF StartedAuth
  <2>9. PassedOnDisk(l) => PassedOnDisk(m)
    BY <2>6 DEF PassedOnDisk
  <2>10. Fits(m, q)
    <3>1. m.checkpoints[1] = Started(q.auth)
      BY <2>4, <2>7 DEF c
    <3> QED
      BY <1>1, <2>1, <2>4, <2>5, <2>6, <2>9, <3>1 DEF Fits, PreStart, Acquiring, InCase, CaseUnderway
  <2>11. ASSUME Phased(l, p) PROVE Phased(m, q)
    <3>1. p.index = 1
      BY <1>1 DEF Fits, PreStart
    <3>2. l.manifest = None /\ l.files = {} /\ Loads(l)
      BY <1>1, <2>11 DEF Phased, PreStart
    <3>3. Loose(m) = {}
      BY <2>6, <3>2 DEF Loose
    <3>4. AccountsFor(m)
      BY <3>3 DEF AccountsFor
    <3>5. Loads(m)
      BY <2>2, <2>6, <2>7, <3>2 DEF InPlace
    <3>6. Len(m.checkpoints) = 2 * q.index - 1 /\ ~(q.index > 1)
      BY <2>4, <2>7, <3>1
    <3> QED
      BY <2>4, <2>6, <3>2, <3>3, <3>4, <3>5, <3>6 DEF Phased, PreStart, Acquiring, InCase
  <2>12. p.pc \in Holding /\ q.pc \notin {"claim", "open", "start"}
    BY <1>1, <2>4 DEF Holding
  <2> QED
    BY <1>1, <2>1, <2>3, <2>4, <2>6, <2>8, <2>10, <2>11, <2>12, WriteMoves DEF Kept
<1>3. CASE FailToStart(b) /\ UNCHANGED ledgers
  BY <1>1, <1>3, FailToStartMoves DEF Quiet
<1> QED
  BY <1>2, <1>3 DEF LinkStarted

(* A ledger that ends with the running checkpoint of case i.                *)
LEMMA RunsTheCase ==
  ASSUME NEW l \in Ledger, Loads(l), NEW i \in Ordinals, Len(l.checkpoints) = 2 * i
  PROVE  IsRunning(l) /\ HasStarted(l)
<1>1. i \in Nat /\ i >= 1
  BY DEF Ordinals
<1>2. 2 * i \in 1 .. Len(l.checkpoints) /\ 2 * i # 1 /\ (2 * i) % 2 = 0 /\ (2 * i) \div 2 = i
  BY <1>1
<1>3. l.checkpoints[2 * i].kind = "case_running" /\ l.checkpoints[2 * i].ordinal = i
  BY <1>2, LoadedCheckpoint
<1>4. HasStarted(l)
  BY <1>1 DEF HasStarted
<1> QED
  BY <1>1, <1>3, <1>4 DEF IsRunning, Running

LEMMA StartedStays ==
  ASSUME NEW l, NEW p, Fits(l, p), HasStarted(l), NEW c \in Checkpoint, NEW m, m = WithCheckpoint(l, c)
  PROVE  m.checkpoints[1] = Started(p.auth)
<1>1. l \in Ledger /\ l.checkpoints[1] = Started(p.auth)
  BY DEF Fits
<1>2. \A k \in 1 .. Len(l.checkpoints) : m.checkpoints[k] = l.checkpoints[k]
  BY <1>1, Appended
<1>3. 1 \in 1 .. Len(l.checkpoints)
  BY <1>1 DEF HasStarted, Ledger
<1> QED
  BY <1>1, <1>2, <1>3

Calling(p) == [p EXCEPT !.pc = "call", !.published = TRUE]

LEMMA RunningKeeps ==
  ASSUME NEW l, NEW p, Fits(l, p), p.pc = "linkRunning",
         NEW m, m = WithCheckpoint(l, RunningCase(p.index)), NEW q, q = Calling(p)
  PROVE  Kept(l, p, m, q) /\ q.pc = "call" /\ q.auth = p.auth /\ m.opened
<1> DEFINE c == RunningCase(p.index)
           i == p.index
<1>1. l \in Ledger /\ p \in Batch /\ HasStarted(l) /\ i \in Ordinals /\ i \in Nat /\ i >= 1 /\ i <= Cases
      /\ l.opened
  BY ScheduleAssumption DEF Fits, CaseUnderway, Batch, Ordinals, HasStarted
<1>2. c \in Checkpoint /\ c.kind = "case_running" /\ c.ordinal = i
  BY <1>1 DEF RunningCase, Checkpoint, Kinds
<1>3. q.pc = "call" /\ q.auth = p.auth /\ q.outcome = p.outcome /\ q.index = i
  BY <1>1 DEF Calling, Batch
<1>4. q \in Batch
  BY <1>1 DEF Calling, Batch, Acquiring, Holding
<1>5. m = WithCheckpoint(l, c) /\ c.kind # "case_completed"
  BY <1>2
<1> HIDE DEF c
<1>6. /\ m \in Ledger /\ m.files = l.files /\ m.manifest = l.manifest /\ m.opened = l.opened
      /\ Len(m.checkpoints) = Len(l.checkpoints) + 1 /\ HasStarted(m)
      /\ Loads(l) /\ InPlace(l, c) => Loads(m)
      /\ Loose(m) = Loose(l)
  <2>1. l \in Ledger /\ c \in Checkpoint
    BY <1>1, <1>2
  <2> QED
    BY <1>5, <2>1, Appended
<1>7. m.checkpoints[1] = Started(p.auth)
  BY <1>1, <1>2, <1>5, StartedStays
<1>8. PassedOnDisk(l) => PassedOnDisk(m)
  BY <1>6 DEF PassedOnDisk
<1>9. Fits(m, q)
  BY <1>1, <1>3, <1>4, <1>6, <1>7, <1>8 DEF Fits, PreStart, Acquiring, InCase, CaseUnderway
<1>10. ASSUME Phased(l, p) PROVE Phased(m, q)
  <2>1. /\ Len(l.checkpoints) = 2 * i - 1 /\ Loose(l) = {} /\ Loads(l) /\ l.manifest = None
        /\ i > 1 => l.checkpoints[Len(l.checkpoints)].passed
    BY <1>10 DEF Phased
  <2>2. InPlace(l, c)
    <3> DEFINE k == Len(l.checkpoints) + 1
    <3> HIDE DEF i
    <3>0. k = 2 * i /\ k - 1 = Len(l.checkpoints)
      BY <1>1, <2>1
    <3> HIDE DEF k
    <3>1. k # 1 /\ k % 2 = 0 /\ k \div 2 = i
      BY <1>1, <3>0
    <3>2. k = 2 \/ l.checkpoints[k - 1].passed
      BY <1>1, <2>1, <3>0
    <3> USE DEF k
    <3> QED
      BY <1>1, <1>2, <3>1, <3>2 DEF InPlace
  <2>3. Loads(m) /\ Loose(m) = {} /\ AccountsFor(m) /\ Len(m.checkpoints) = 2 * i /\ m.manifest = None
    BY <1>1, <1>6, <2>1, <2>2 DEF AccountsFor
  <2> QED
    BY <1>3, <2>3 DEF Phased, PreStart, Acquiring, InCase
<1> QED
  BY <1>1, <1>3, <1>6, <1>9, <1>10 DEF Kept

LEMMA LinkRunningMoves ==
  ASSUME NEW b, Ready(b), LinkRunning(b)
  PROVE  Moved(b)
<1>1. /\ UNCHANGED <<lock, recoveries, raced, misread>> /\ (Works \/ Fails)
      /\ batches[b].pc = "linkRunning" /\ Fits(ledgers[b], batches[b])
  BY DEF LinkRunning, At, Ready
<1>2. batches[b].pc \in Holding /\ batches[b].pc \in CaseUnderway \ {"terminal", "draft", "linkTerminal"}
  BY <1>1 DEF Holding, CaseUnderway
<1>3. CASE /\ ledgers' = Append1(b, RunningCase(batches[b].index))
           /\ batches' = [batches EXCEPT ![b].pc = "call", ![b].published = TRUE]
  <2> DEFINE m == WithCheckpoint(ledgers[b], RunningCase(batches[b].index))
             q == Calling(batches[b])
  <2>1. batches' = [batches EXCEPT ![b] = q] /\ ledgers' = [ledgers EXCEPT ![b] = m]
    BY <1>3 DEF Append1, WithCheckpoint, Calling
  <2>2. Kept(ledgers[b], batches[b], m, q) /\ q.pc = "call" /\ q.auth = batches[b].auth /\ m.opened
    BY <1>1, RunningKeeps
  <2>3. HasStarted(ledgers[b])
    BY <1>1, <1>2 DEF Fits
  <2> HIDE DEF m, q
  <2> QED
    BY <1>1, <1>2, <2>1, <2>2, <2>3, WriteMoves
<1>4. CASE UNCHANGED ledgers /\ PublishInfrastructureTerminal(b)
  BY <1>1, <1>2, <1>4, InfrastructureMoves DEF Quiet
<1> QED
  BY <1>3, <1>4 DEF LinkRunning

Verifying(p, f) == [p EXCEPT !.pc = "verify", !.evidence = f]

(* The run of a case leaves one file at most, whatever is in it.            *)
LEMMA EvidenceKeeps ==
  ASSUME NEW l, NEW p, Fits(l, p), p.pc = "call", NEW f \in File, f.ordinal = p.index,
         NEW m, m = WithFile(l, f), NEW n \in SUBSET Ordinals,
         NEW q, q = Verifying(p, f) \/ q = Finishing(p, Infrastructure, n)
  PROVE  Kept(l, p, m, q) /\ q.pc \in {"verify", "terminal"} /\ q.auth = p.auth /\ m.opened
<1>1. /\ l \in Ledger /\ p \in Batch /\ HasStarted(l) /\ p.index \in Ordinals
      /\ l.opened
  BY DEF Fits, CaseUnderway, Batch, HasStarted
<1>2. /\ m \in Ledger /\ m.checkpoints = l.checkpoints /\ m.manifest = l.manifest
      /\ m.opened = l.opened /\ m.files = l.files \cup {f}
      /\ HasStarted(m) = HasStarted(l) /\ IsRunning(m) = IsRunning(l)
      /\ Loads(l) => Loads(m)
      /\ Loose(m) \subseteq Loose(l) \cup {f}
  <2>1. l \in Ledger /\ f \in File /\ m = WithFile(l, f)
    BY <1>1
  <2> QED
    BY ONLY <2>1, FileAdded
<1>3. PassedOnDisk(l) => PassedOnDisk(m)
  BY <1>2 DEF PassedOnDisk
<1>4. Phased(l, p) => /\ Loads(m) /\ AccountsFor(m) /\ Loose(m) \subseteq {f} /\ m.manifest = None
                      /\ Len(m.checkpoints) = 2 * p.index
  <2> SUFFICES ASSUME Phased(l, p)
               PROVE  /\ Loads(m) /\ AccountsFor(m) /\ Loose(m) \subseteq {f} /\ m.manifest = None
                      /\ Len(m.checkpoints) = 2 * p.index
    OBVIOUS
  <2>1. Loads(l) /\ Len(l.checkpoints) = 2 * p.index /\ Loose(l) = {} /\ l.manifest = None
    BY DEF Phased
  <2>2. IsRunning(m) /\ Loose(m) \subseteq {f}
    BY <1>1, <1>2, <2>1, RunsTheCase
  <2>3. AccountsFor(m)
    BY <2>2, OneFileLoose
  <2> QED
    BY <1>2, <2>1, <2>2, <2>3
<1>5. CASE q = Verifying(p, f)
  <2>1. q.pc = "verify" /\ q.auth = p.auth /\ q.outcome = p.outcome /\ q.index = p.index /\ q.evidence = f
    BY <1>1, <1>5 DEF Verifying, Batch
  <2>2. q \in Batch
    BY <1>1, <1>5 DEF Verifying, Batch, Acquiring, Holding
  <2>3. f \in m.files
    BY <1>2
  <2>4. Fits(m, q)
    BY <1>1, <1>2, <1>3, <2>1, <2>2, <2>3 DEF Fits, PreStart, Acquiring, InCase, CaseUnderway
  <2>5. Phased(l, p) => Phased(m, q)
    BY <1>4, <2>1 DEF Phased, PreStart, Acquiring, InCase
  <2> QED
    BY <1>1, <1>2, <2>1, <2>4, <2>5 DEF Kept
<1>6. CASE q = Finishing(p, Infrastructure, n)
  <2>1. q.pc = "terminal" /\ q.auth = p.auth /\ q.ending = Infrastructure /\ q.outcome = p.outcome
    BY <1>1, <1>6 DEF Finishing, Batch
  <2>2. Infrastructure \in Endings
    BY DEF Infrastructure, Endings
  <2>3. q \in Batch
    BY <1>1, <1>6, <2>2 DEF Finishing, Batch, Acquiring, Holding
  <2>4. Fits(m, q)
    BY <1>1, <1>2, <1>3, <2>1, <2>3 DEF Fits, PreStart, Acquiring, InCase, CaseUnderway
  <2>5. Phased(l, p) => Phased(m, q)
    BY <1>4, <2>1 DEF Phased, PreStart, Acquiring, InCase
  <2> QED
    BY <1>1, <1>2, <2>1, <2>4, <2>5 DEF Kept
<1> QED
  BY <1>5, <1>6

LEMMA RunCaseMoves ==
  ASSUME NEW b, Ready(b), RunCase(b)
  PROVE  Moved(b)
<1>1. /\ UNCHANGED <<lock, recoveries, raced, misread>> /\ (Works \/ Fails)
      /\ batches[b].pc = "call" /\ Fits(ledgers[b], batches[b])
  BY DEF RunCase, At, Ready
<1>2. batches[b].pc \in Holding /\ batches[b].pc \in CaseUnderway \ {"terminal", "draft", "linkTerminal"}
  BY <1>1 DEF Holding, CaseUnderway
<1>3. HasStarted(ledgers[b]) /\ batches[b].index \in Ordinals
  BY <1>1, <1>2 DEF Fits, Batch
<1>4. ASSUME NEW passed \in BOOLEAN, NEW sound \in BOOLEAN, NEW f,
             f = [ordinal |-> batches[b].index, passed |-> passed, sound |-> sound],
             ledgers' = [ledgers EXCEPT ![b].files = @ \cup {f}],
             \/ batches' = [batches EXCEPT ![b].pc = "verify", ![b].evidence = f]
             \/ PublishInfrastructureTerminal(b)
      PROVE  Moved(b)
  <2>1. f \in File /\ f.ordinal = batches[b].index
    BY <1>3, <1>4 DEF File
  <2> DEFINE m == WithFile(ledgers[b], f)
             n == Slice(batches[b].index - 1 + (IF batches[b].published THEN 1 ELSE 0))
  <2>2. ledgers' = [ledgers EXCEPT ![b] = m]
    BY <1>4 DEF WithFile
  <2>3. n \in SUBSET Ordinals
    BY DEF Slice
  <2>4. \/ batches' = [batches EXCEPT ![b] = Verifying(batches[b], f)]
        \/ batches' = [batches EXCEPT ![b] = Finishing(batches[b], Infrastructure, n)]
    <3>1. CASE batches' = [batches EXCEPT ![b].pc = "verify", ![b].evidence = f]
      BY <3>1 DEF Verifying
    <3>2. CASE PublishInfrastructureTerminal(b)
      BY <3>2 DEF Finishing, PublishInfrastructureTerminal, Finish
    <3> QED
      BY <1>4, <3>1, <3>2
  <2>5. PICK q : /\ batches' = [batches EXCEPT ![b] = q]
                 /\ q = Verifying(batches[b], f) \/ q = Finishing(batches[b], Infrastructure, n)
    <3> HIDE DEF n
    <3> QED
      BY <2>4
  <2>6. Kept(ledgers[b], batches[b], m, q) /\ q.pc \in {"verify", "terminal"} /\ q.auth = batches[b].auth
        /\ m.opened
    <3>1. m = WithFile(ledgers[b], f)
      OBVIOUS
    <3> HIDE DEF m, n
    <3>2. Fits(ledgers[b], batches[b]) /\ batches[b].pc = "call"
      BY <1>1
    <3>3. /\ Fits(ledgers[b], batches[b]) /\ batches[b].pc = "call"
          /\ f \in File /\ f.ordinal = batches[b].index
          /\ m = WithFile(ledgers[b], f) /\ n \in SUBSET Ordinals
          /\ q = Verifying(batches[b], f) \/ q = Finishing(batches[b], Infrastructure, n)
      BY <2>1, <2>3, <2>5, <3>1, <3>2
    <3> QED
      BY ONLY <3>3, EvidenceKeeps
  <2> HIDE DEF m
  <2> QED
    BY <1>1, <1>2, <1>3, <2>2, <2>5, <2>6, WriteMoves
<1>5. CASE UNCHANGED ledgers /\ PublishInfrastructureTerminal(b)
  BY <1>1, <1>2, <1>5, InfrastructureMoves DEF Quiet
<1> QED
  BY <1>4, <1>5 DEF RunCase

AllRun(p) == [p EXCEPT !.pc = "final", !.published = FALSE]
NextCase(p) ==
  [p EXCEPT !.pc = "case", !.index = p.index + 1, !.published = FALSE, !.evidence = None]

(* The completion takes up the evidence of the case it completes.           *)
LEMMA CompletedKeeps ==
  ASSUME NEW l, NEW p, Fits(l, p), p.pc = "linkCompleted",
         NEW m, m = WithCheckpoint(l, CompletedCase(p.evidence, p.evidence.passed)),
         NEW q, \/ q = Finishing(p, CaseFailed, Slice(p.index))
                \/ p.evidence.passed /\ p.index = Cases /\ q = AllRun(p)
                \/ p.evidence.passed /\ p.index < Cases /\ q = NextCase(p)
  PROVE  Kept(l, p, m, q) /\ q.pc \in {"terminal", "final", "case"} /\ q.auth = p.auth /\ m.opened
<1> DEFINE f == p.evidence
           c == CompletedCase(f, f.passed)
           i == p.index
<1>1. /\ l \in Ledger /\ p \in Batch /\ HasStarted(l) /\ l.opened
      /\ i \in Ordinals /\ i \in Nat /\ i >= 1 /\ i <= Cases
      /\ f \in l.files /\ f \in File /\ f.ordinal = i
  BY ScheduleAssumption DEF Fits, CaseUnderway, InCase, Batch, Ordinals, HasStarted, Ledger
<1>2. f.passed \in BOOLEAN
  BY <1>1 DEF File
<1>3. /\ c \in Checkpoint /\ c.kind = "case_completed" /\ c.ordinal = i /\ c.evidence = f
      /\ c.passed = f.passed
  BY <1>1, <1>2 DEF CompletedCase, Checkpoint, Kinds
<1>4. m = WithCheckpoint(l, c)
  OBVIOUS
<1> HIDE DEF c
<1>5. /\ m \in Ledger /\ m.files = l.files /\ m.manifest = l.manifest /\ m.opened = l.opened
      /\ Len(m.checkpoints) = Len(l.checkpoints) + 1 /\ HasStarted(m)
      /\ m.checkpoints[Len(m.checkpoints)] = c
      /\ Loads(l) /\ InPlace(l, c) => Loads(m)
      /\ Loose(m) = Loose(l) \ {f}
  <2>1. l \in Ledger /\ c \in Checkpoint /\ c.kind = "case_completed" /\ c.evidence = f
    BY <1>1, <1>3
  <2> HIDE DEF f
  <2> QED
    BY ONLY <1>4, <2>1, Appended
<1>6. m.checkpoints[1] = Started(p.auth)
  BY <1>1, <1>3, <1>4, StartedStays
<1>7. PassedOnDisk(l) => PassedOnDisk(m)
  BY <1>5 DEF PassedOnDisk
<1>8. ASSUME Phased(l, p)
      PROVE  /\ Loads(m) /\ Loose(m) = {} /\ AccountsFor(m) /\ m.manifest = None
             /\ Len(m.checkpoints) = 2 * i + 1
  <2>1. /\ Loads(l) /\ Len(l.checkpoints) = 2 * i /\ Loose(l) \subseteq {f} /\ f.sound
        /\ l.manifest = None
    BY <1>8 DEF Phased, InCase
  <2>2. InPlace(l, c)
    <3>1. Faithful(l, c)
      BY <1>1, <1>3, <2>1 DEF Faithful
    <3> DEFINE k == Len(l.checkpoints) + 1
    <3>2. k = 2 * i + 1
      BY <2>1
    <3> HIDE DEF k, i
    <3>3. k # 1 /\ k % 2 # 0 /\ k \div 2 = i
      BY <1>1, <3>2
    <3> USE DEF k
    <3> QED
      BY <1>1, <1>3, <3>1, <3>3 DEF InPlace
  <2>3. Loose(m) = {}
    BY <1>5, <2>1
  <2> QED
    BY <1>5, <2>1, <2>2, <2>3 DEF AccountsFor
<1>9. CASE q = Finishing(p, CaseFailed, Slice(p.index))
  <2>1. q.pc = "terminal" /\ q.auth = p.auth /\ q.ending = CaseFailed /\ q.outcome = p.outcome
    BY <1>1, <1>9 DEF Finishing, Batch
  <2>2. CaseFailed \in Endings /\ Slice(p.index) \in SUBSET Ordinals
    BY DEF CaseFailed, Endings, Slice
  <2>3. q \in Batch
    BY <1>1, <1>9, <2>2 DEF Finishing, Batch, Acquiring, Holding
  <2>4. Fits(m, q)
    BY <1>1, <1>5, <1>6, <1>7, <2>1, <2>3 DEF Fits, PreStart, Acquiring, InCase, CaseUnderway
  <2>5. Phased(l, p) => Phased(m, q)
    BY <1>8, <2>1 DEF Phased, PreStart, Acquiring, InCase
  <2> QED
    BY <1>1, <1>5, <2>1, <2>4, <2>5 DEF Kept
<1>10. CASE q = AllRun(p)
  <2>1. q.pc = "final" /\ q.auth = p.auth /\ q.outcome = p.outcome
    BY <1>1, <1>10 DEF AllRun, Batch
  <2>2. q \in Batch
    BY <1>1, <1>10 DEF AllRun, Batch, Acquiring, Holding
  <2>3. Fits(m, q)
    BY <1>1, <1>5, <1>6, <1>7, <2>1, <2>2 DEF Fits, PreStart, Acquiring, InCase, CaseUnderway
  <2>4. Phased(l, p) => Phased(m, q)
    BY <1>8, <2>1 DEF Phased, PreStart, Acquiring, InCase
  <2> QED
    BY <1>1, <1>5, <2>1, <2>3, <2>4 DEF Kept
<1>11. CASE p.evidence.passed /\ p.index < Cases /\ q = NextCase(p)
  <2>1. q.pc = "case" /\ q.auth = p.auth /\ q.outcome = p.outcome /\ q.index = i + 1
    BY <1>1, <1>11 DEF NextCase, Batch
  <2>2. i + 1 \in Ordinals
    BY <1>1, <1>11, ScheduleAssumption DEF Ordinals
  <2>3. q \in Batch
    BY <1>1, <1>11, <2>2 DEF NextCase, Batch, Acquiring, Holding
  <2>4. Fits(m, q)
    BY <1>1, <1>5, <1>6, <1>7, <2>1, <2>3 DEF Fits, PreStart, Acquiring, InCase, CaseUnderway
  <2>5. Phased(l, p) => Phased(m, q)
    <3> SUFFICES ASSUME Phased(l, p) PROVE Phased(m, q)
      OBVIOUS
    <3>1. c.passed
      BY <1>3, <1>11
    <3>2. m.checkpoints[Len(m.checkpoints)].passed
      BY <1>5, <3>1
    <3>3. Len(m.checkpoints) = 2 * q.index - 1
      BY <1>1, <1>8, <2>1
    <3> QED
      BY <1>8, <2>1, <3>2, <3>3 DEF Phased, PreStart, Acquiring, InCase
  <2> QED
    BY <1>1, <1>5, <2>1, <2>4, <2>5 DEF Kept
<1> QED
  BY <1>1, <1>5, <1>9, <1>10, <1>11

LEMMA LinkCompletedMoves ==
  ASSUME NEW b, Ready(b), LinkCompleted(b)
  PROVE  Moved(b)
<1> DEFINE f == batches[b].evidence
           i == batches[b].index
<1>1. /\ UNCHANGED <<lock, recoveries, raced, misread>> /\ (Works \/ Fails)
      /\ batches[b].pc = "linkCompleted" /\ Fits(ledgers[b], batches[b])
  BY DEF LinkCompleted, At, Ready
<1>2. batches[b].pc \in Holding /\ batches[b].pc \in CaseUnderway \ {"terminal", "draft", "linkTerminal"}
  BY <1>1 DEF Holding, CaseUnderway, InCase
<1>3. HasStarted(ledgers[b])
  BY <1>1, <1>2 DEF Fits
<1>4. CASE /\ ledgers' = Append1(b, CompletedCase(f, f.passed))
           /\ \/ ~f.passed /\ Finish(b, CaseFailed, Slice(i))
              \/ f.passed /\ i = Cases /\ batches' = [batches EXCEPT ![b].pc = "final", ![b].published = FALSE]
              \/ f.passed /\ i < Cases
                 /\ batches' = [batches EXCEPT ![b] = [@ EXCEPT !.pc = "case", !.index = i + 1,
                                                                !.published = FALSE, !.evidence = None]]
  <2> DEFINE m == WithCheckpoint(ledgers[b], CompletedCase(f, f.passed))
  <2>1. ledgers' = [ledgers EXCEPT ![b] = m]
    BY <1>4 DEF Append1, WithCheckpoint
  <2>2. PICK q : /\ batches' = [batches EXCEPT ![b] = q]
                 /\ \/ q = Finishing(batches[b], CaseFailed, Slice(i))
                    \/ f.passed /\ i = Cases /\ q = AllRun(batches[b])
                    \/ f.passed /\ i < Cases /\ q = NextCase(batches[b])
    <3>1. CASE Finish(b, CaseFailed, Slice(i))
      <4>1. batches' = [batches EXCEPT ![b] = Finishing(batches[b], CaseFailed, Slice(i))]
        BY <3>1 DEF Finish, Finishing
      <4> QED
        BY <4>1
    <3>2. CASE f.passed /\ i = Cases /\ batches' = [batches EXCEPT ![b].pc = "final", ![b].published = FALSE]
      <4>1. batches' = [batches EXCEPT ![b] = AllRun(batches[b])]
        BY <3>2 DEF AllRun
      <4> QED
        BY <3>2, <4>1
    <3>3. CASE f.passed /\ i < Cases
               /\ batches' = [batches EXCEPT ![b] = [@ EXCEPT !.pc = "case", !.index = i + 1,
                                                              !.published = FALSE, !.evidence = None]]
      <4>1. batches' = [batches EXCEPT ![b] = NextCase(batches[b])]
        BY <3>3 DEF NextCase
      <4> QED
        BY <3>3, <4>1
    <3> QED
      BY <1>4, <3>1, <3>2, <3>3
  <2>3. m = WithCheckpoint(ledgers[b], CompletedCase(batches[b].evidence, batches[b].evidence.passed))
    OBVIOUS
  <2>4. \/ q = Finishing(batches[b], CaseFailed, Slice(batches[b].index))
        \/ batches[b].evidence.passed /\ batches[b].index = Cases /\ q = AllRun(batches[b])
        \/ batches[b].evidence.passed /\ batches[b].index < Cases /\ q = NextCase(batches[b])
    BY <2>2
  <2> HIDE DEF m
  <2>5. Kept(ledgers[b], batches[b], m, q) /\ q.pc \in {"terminal", "final", "case"} /\ q.auth = batches[b].auth
        /\ m.opened
    BY ONLY <1>1, <2>3, <2>4, CompletedKeeps
  <2> QED
    BY <1>1, <1>2, <1>3, <2>1, <2>2, <2>5, WriteMoves
<1>5. CASE UNCHANGED ledgers /\ PublishInfrastructureTerminal(b)
  BY <1>1, <1>2, <1>5, InfrastructureMoves DEF Quiet
<1> QED
  BY <1>4, <1>5 DEF LinkCompleted

WithManifest(l, draft) == [l EXCEPT !.manifest = draft]

LEMMA LinkedManifest ==
  ASSUME NEW l \in Ledger, NEW draft \in Manifest, NEW m, m = WithManifest(l, draft)
  PROVE  /\ m \in Ledger /\ m.checkpoints = l.checkpoints /\ m.files = l.files
         /\ m.opened = l.opened /\ m.manifest = draft
  BY MadeOrLinked DEF WithManifest

(* The manifest of a ledger that has none is linked: it is the draft, which *)
(* says what the ledger says.                                               *)
LEMMA TerminalKeeps ==
  ASSUME NEW l, NEW p, Fits(l, p), p.pc = "linkTerminal", l.manifest = None,
         NEW m, m = WithManifest(l, p.draft), NEW q, q = [p EXCEPT !.pc = "confirm"]
  PROVE  Kept(l, p, m, q) /\ q.pc = "confirm" /\ q.auth = p.auth /\ HasStarted(l) /\ m.opened
<1>1. /\ l \in Ledger /\ p \in Batch /\ HasStarted(l) /\ l.opened /\ p.draft \in Manifest
      /\ p.auth \in Authorizations /\ p.ending \in {Passed, CaseFailed, Infrastructure}
      /\ l.checkpoints[1] = Started(p.auth) /\ p.draft.auth = p.auth
  BY DEF Fits, CaseUnderway, HasStarted
<1>2. /\ m \in Ledger /\ m.checkpoints = l.checkpoints /\ m.files = l.files
      /\ m.opened = l.opened /\ m.manifest = p.draft
  BY <1>1, MadeOrLinked DEF WithManifest
<1>3. q.pc = "confirm" /\ q.auth = p.auth /\ q.outcome = p.outcome /\ q.draft = p.draft
  BY <1>1 DEF Batch
<1>4. q \in Batch
  BY <1>1 DEF Batch, Acquiring, Holding
<1>5. Loads(m) = Loads(l) /\ AccountsFor(m) = AccountsFor(l) /\ HasStarted(m) = HasStarted(l)
  BY <1>2, ReadFromRecords
<1>6. p.outcome # "passed"
  BY DEF Fits, PassedOnDisk
<1>7. Fits(m, q)
  BY <1>1, <1>2, <1>3, <1>4, <1>5, <1>6 DEF Fits, PreStart, Acquiring, InCase, CaseUnderway
<1>8. ASSUME Phased(l, p) PROVE Phased(m, q)
  <2>1. /\ Loads(l) /\ AccountsFor(l) /\ CanEnd(l, p.ending, p.notRun)
        /\ p.draft = BuildManifest(l, p.ending, p.auth, p.notRun)
    BY <1>8 DEF Phased
  <2>2. p.ending \in Endings /\ p.notRun \in SUBSET Ordinals
    BY <1>1 DEF Passed, CaseFailed, Infrastructure, Endings, Batch
  <2>3. StartedAuth(l) = p.auth
    BY <1>1 DEF StartedAuth, Started
  <2>4. ManifestValid(m)
    BY <1>1, <1>2, <2>1, <2>2, <2>3, BuiltIsValid
  <2> QED
    BY <1>3, <1>5, <2>1, <2>4 DEF Phased, PreStart, Acquiring, InCase
<1> QED
  BY <1>1, <1>2, <1>3, <1>7, <1>8 DEF Kept

LEMMA LinkTerminalMoves ==
  ASSUME NEW b, Ready(b), LinkTerminal(b)
  PROVE  Moved(b)
<1>1. /\ UNCHANGED <<lock, recoveries, raced, misread>> /\ (Works \/ Fails)
      /\ batches[b].pc = "linkTerminal" /\ Fits(ledgers[b], batches[b])
  BY DEF LinkTerminal, At, Ready
<1>2. batches[b].pc \in Holding /\ ~Dead(b)
  BY <1>1 DEF Holding, Dead
<1>3. CASE /\ ledgers[b].manifest = None
           /\ ledgers' = [ledgers EXCEPT ![b].manifest = batches[b].draft] /\ Step(b, "confirm")
  <2> DEFINE m == WithManifest(ledgers[b], batches[b].draft)
             q == [batches[b] EXCEPT !.pc = "confirm"]
  <2>1. batches' = [batches EXCEPT ![b] = q] /\ ledgers' = [ledgers EXCEPT ![b] = m]
    BY <1>3 DEF Step, WithManifest
  <2>2. Kept(ledgers[b], batches[b], m, q) /\ q.pc = "confirm" /\ q.auth = batches[b].auth
        /\ HasStarted(ledgers[b]) /\ m.opened
    BY <1>1, <1>3, TerminalKeeps
  <2> HIDE DEF m, q
  <2> QED
    BY <1>1, <1>2, <2>1, <2>2, WriteMoves
<1>4. CASE UNCHANGED ledgers /\ Stop(b)
  BY <1>1, <1>2, <1>4, StopMoves DEF Quiet
<1> QED
  BY <1>3, <1>4 DEF LinkTerminal

(* Every step of a batch, then.                                             *)
LEMMA BatchMoves ==
  ASSUME NEW b, Ready(b), BatchStep(b)
  PROVE  Moved(b)
  BY AcquireMoves, WriteOwnerMoves, ReadBackMoves, CleanUpMoves, PreflightMoves, ClaimMoves, OpenMoves,
     LinkStartedMoves, CheckMoves, StartCaseMoves, LinkRunningMoves, RunCaseMoves, CompleteCaseMoves,
     LinkCompletedMoves, CheckBatchMoves, ClaimTerminalMoves, DraftTerminalMoves, LinkTerminalMoves,
     ConfirmTerminalMoves, ReleaseMoves, RenameMoves, CrashMoves DEF BatchStep

-----------------------------------------------------------------------------
(* The invariant is inductive *)

LEMMA BatchPreserves ==
  ASSUME QualificationInv, NEW b \in Batches, BatchStep(b)
  PROVE  QualificationInv'
<1> DEFINE l == ledgers[b]
           p == batches[b]
<1>0. /\ Typed /\ \A c \in Batches : Fits(ledgers[c], batches[c])
      /\ \A c \in Batches : Owns(c) => batches[c].auth \in Authorizations
      /\ \A r \in Recoveries : RecoveryFits(r)
      /\ ~misread => /\ \A c \in Batches : Phased(ledgers[c], batches[c])
                     /\ \A r \in Recoveries : RecoveryPhased(r)
      /\ ~misread /\ ~raced => Exclusive /\ Unspent
  BY DEF QualificationInv
<1>1. PICK m, q : Effect(b, m, q)
  BY <1>0, BatchMoves DEF Ready, Moved
<1>2. /\ batches' = [batches EXCEPT ![b] = q] /\ ledgers' = [ledgers EXCEPT ![b] = m]
      /\ UNCHANGED <<recoveries, raced, misread>> /\ faults' \in 0 .. MaxFaults
      /\ ~Dead(b) /\ Fits(m, q) /\ (Phased(l, p) => Phased(m, q))
      /\ p.pc = "idle" \/ q.auth = p.auth
      /\ m # l => p.pc \in Holding
      /\ l.opened => m.opened
      /\ q.pc \in Holding => p.pc \in Holding \/ Owns(b)
      /\ q.pc \in {"claim", "open", "start"} =>
           /\ q.auth = p.auth
           /\ p.pc \in {"claim", "open"} \/ \A c \in Batches : Unused(ledgers[c], p.auth)
      /\ UNCHANGED lock \/ (LockMoves(b) /\ q.pc \notin Holding)
  BY <1>1 DEF Effect, Kept
<1>3. /\ batches'[b] = q /\ ledgers'[b] = m
      /\ \A c \in Batches \ {b} : batches'[c] = batches[c] /\ ledgers'[c] = ledgers[c]
  BY <1>0, <1>2 DEF Typed
<1>4. p.pc = "idle" => p.auth \notin Authorizations
  BY <1>0, NoneAssumption DEF Fits, NewBatch
<1>5. Typed'
  <2>1. q \in Batch /\ m \in Ledger
    BY <1>2 DEF Fits
  <2>2. lock' \in Locks
    BY <1>0, <1>2 DEF Typed, Locks, LockMoves
  <2> QED
    BY <1>0, <1>2, <2>1, <2>2 DEF Typed
<1>6. ASSUME NEW c \in Batches PROVE Fits(ledgers[c], batches[c])'
  BY <1>0, <1>2, <1>3
<1>7. ASSUME NEW c \in Batches, Owns(c)' PROVE batches'[c].auth \in Authorizations
  <2>1. CASE UNCHANGED lock
    <3>1. Owns(c)
      BY <1>7, <2>1 DEF Owns
    <3>2. batches[c].auth \in Authorizations
      BY <1>0, <3>1
    <3>3. CASE c = b
      BY <1>2, <1>3, <1>4, <3>2, <3>3
    <3>4. CASE c # b
      BY <1>3, <3>2, <3>4
    <3> QED
      BY <3>3, <3>4
  <2>2. CASE LockMoves(b)
    <3>1. c = b /\ p.pc = "write"
      BY <1>7, <2>2 DEF LockMoves, Owns, Owned, Bare, Torn, Absent, At
    <3>2. p.auth \in Authorizations
      BY <1>0, <3>1 DEF Fits
    <3> QED
      BY <1>2, <1>3, <3>1, <3>2
  <2> QED
    BY <1>2, <2>1, <2>2
<1>8. ASSUME NEW r \in Recoveries PROVE RecoveryFits(r)'
  <2>1. RecoveryFits(r)
    BY <1>0
  <2>2. recoveries[r].pc # "idle" => /\ batches'[Target(r)].auth = batches[Target(r)].auth
                                     /\ ledgers[Target(r)].opened => ledgers'[Target(r)].opened
    BY <1>2, <1>3, <1>4, <2>1 DEF RecoveryFits
  <2>3. recoveries'[r] = recoveries[r] /\ Target(r)' = Target(r)
    BY <1>2 DEF Target
  <2> QED
    BY <2>1, <2>2, <2>3 DEF RecoveryFits
<1>9. ASSUME ~misread, NEW c \in Batches PROVE Phased(ledgers[c], batches[c])'
  BY <1>0, <1>2, <1>3, <1>9
<1>10. ASSUME ~misread, NEW r \in Recoveries PROVE RecoveryPhased(r)'
  <2>1. RecoveryFits(r) /\ RecoveryPhased(r)
    BY <1>0, <1>10
  <2>2. recoveries'[r] = recoveries[r] /\ Target(r)' = Target(r)
    BY <1>2 DEF Target
  <2>3. recoveries[r].pc # "idle" => /\ ledgers'[Target(r)] = ledgers[Target(r)]
                                     /\ batches'[Target(r)] = batches[Target(r)]
    BY <1>2, <1>3, <2>1 DEF RecoveryFits, RecoveryPhased
  <2> QED
    BY <2>1, <2>2, <2>3 DEF RecoveryPhased, Dead
<1>11. ASSUME ~misread, ~raced PROVE Exclusive'
  <2>1. Exclusive /\ \A r \in Recoveries : RecoveryFits(r) /\ RecoveryPhased(r)
    BY <1>0, <1>11
  <2>2. ASSUME NEW c \in Batches, batches'[c].pc \in Holding PROVE lock' = Owned(c)
    <3>1. CASE c = b
      BY <1>2, <1>3, <2>1, <2>2, <3>1 DEF Exclusive, Owns
    <3>2. CASE c # b
      <4>1. lock = Owned(c) /\ c # b
        BY <1>3, <2>1, <2>2, <3>2 DEF Exclusive, Owns
      <4>2. ~Owns(b) /\ p.pc \notin Holding
        BY <2>1, <4>1 DEF Exclusive, Owns, Owned
      <4>3. ~LockMoves(b)
        BY <4>1, <4>2 DEF LockMoves, At, Holding, Owned, Bare, Torn, Absent
      <4> QED
        BY <1>2, <4>1, <4>3
    <3> QED
      BY <3>1, <3>2
  <2>3. ASSUME NEW r \in Recoveries, recoveries'[r].pc # "idle" PROVE lock' = Owned(Target(r))
    <3>1. lock = Owned(Target(r)) /\ Target(r) # b /\ Target(r) \in Batches
      BY <1>2, <2>1, <2>3 DEF Exclusive, Owns, RecoveryPhased, RecoveryFits
    <3>2. ~Owns(b) /\ p.pc \notin Holding
      BY <2>1, <3>1 DEF Exclusive, Owns, Owned
    <3>3. ~LockMoves(b)
      BY <3>1, <3>2 DEF LockMoves, At, Holding, Owned, Bare, Torn, Absent
    <3> QED
      BY <1>2, <3>1, <3>3
  <2> QED
    BY <1>2, <2>1, <2>2, <2>3 DEF Exclusive, Owns, Target
<1>12. ASSUME ~misread, ~raced PROVE Unspent'
  <2>1. Exclusive /\ Unspent
    BY <1>0, <1>12
  <2>2. ASSUME NEW c \in Batches, batches'[c].pc \in {"claim", "open", "start"}, NEW d \in Batches \ {c}
        PROVE  RecordedAuth(ledgers'[d]) # batches'[c].auth
    <3>1. CASE c = b
      <4>1. ledgers'[d] = ledgers[d] /\ batches'[c].auth = p.auth
        BY <1>2, <1>3, <2>2, <3>1
      <4>2. CASE p.pc \in {"claim", "open"}
        BY <2>1, <2>2, <3>1, <4>1, <4>2 DEF Unspent
      <4>3. CASE \A e \in Batches : Unused(ledgers[e], p.auth)
        <5>1. p.auth \in Authorizations
          BY <1>2, <1>3, <2>2, <3>1 DEF Fits
        <5>2. Fits(ledgers[d], batches[d]) /\ Unused(ledgers[d], p.auth)
          BY <1>0, <4>3
        <5>3. CASE ledgers[d].opened
          BY <4>1, <5>2, <5>3 DEF Unused
        <5>4. CASE ~ledgers[d].opened
          BY <4>1, <5>1, <5>2, <5>4, NoneAssumption DEF Fits, RecordedAuth, StartedAuth, HasStarted
        <5> QED
          BY <5>3, <5>4
      <4> QED
        BY <1>2, <1>3, <2>2, <3>1, <4>2, <4>3
    <3>2. CASE c # b
      <4>1. batches'[c] = batches[c] /\ batches[c].pc \in {"claim", "open", "start"}
        BY <1>3, <2>2, <3>2
      <4>2. lock = Owned(c)
        BY <2>1, <4>1 DEF Exclusive, Owns, Holding
      <4>3. p.pc \notin Holding
        BY <2>1, <3>2, <4>2 DEF Exclusive, Owns, Owned
      <4>4. ledgers'[d] = ledgers[d]
        BY <1>2, <1>3, <4>3
      <4> QED
        BY <2>1, <2>2, <4>1, <4>4 DEF Unspent
    <3> QED
      BY <3>1, <3>2
  <2> QED
    BY <2>2 DEF Unspent
<1> QED
  BY <1>2, <1>5, <1>6, <1>7, <1>8, <1>9, <1>10, <1>11, <1>12 DEF QualificationInv

(* A step of a recovery that leaves the lock, the processes and the records *)
(* of its target alone.                                                     *)
LEMMA RecoveryKeeps ==
  ASSUME QualificationInv, NEW r \in Recoveries, recoveries[r].pc # "idle",
         NEW s \in Recovery, NEW m \in Ledger,
         recoveries' = [recoveries EXCEPT ![r] = s], ledgers' = [ledgers EXCEPT ![Target(r)] = m],
         UNCHANGED <<lock, batches, faults, raced, misread>>,
         m.checkpoints = ledgers[Target(r)].checkpoints, m.files = ledgers[Target(r)].files,
         ledgers[Target(r)].opened => m.opened,
         Fits(m, batches[Target(r)]),
         ~misread => Phased(m, batches[Target(r)]),
         s.pc # "idle" => s.target = Target(r),
         s.pc = "link" => /\ s.draft \in Manifest /\ s.draft.auth = batches[Target(r)].auth /\ m.opened
                          /\ ~misread =>
                               LET auth == batches[Target(r)].auth IN
                               /\ s.draft = BuildManifest(m, Interrupted, auth, NotRun(m, Interrupted))
                               /\ CanEnd(m, Interrupted, NotRun(m, Interrupted))
                               /\ StartedAuth(m) \in {None, auth}
  PROVE  QualificationInv'
<1> DEFINE t == Target(r)
<1>0. /\ Typed /\ \A c \in Batches : Fits(ledgers[c], batches[c])
      /\ \A c \in Batches : Owns(c) => batches[c].auth \in Authorizations
      /\ \A q \in Recoveries : RecoveryFits(q)
      /\ ~misread => /\ \A c \in Batches : Phased(ledgers[c], batches[c])
                     /\ \A q \in Recoveries : RecoveryPhased(q)
      /\ ~misread /\ ~raced => Exclusive /\ Unspent
  BY DEF QualificationInv
<1>1. t \in Batches /\ batches[t].auth \in Authorizations
  BY <1>0 DEF RecoveryFits
<1>2. /\ recoveries'[r] = s /\ ledgers'[t] = m
      /\ \A q \in Recoveries \ {r} : recoveries'[q] = recoveries[q] /\ Target(q)' = Target(q)
      /\ \A c \in Batches \ {t} : ledgers'[c] = ledgers[c]
      /\ s.pc # "idle" => Target(r)' = t
  BY <1>0, <1>1 DEF Typed, Target
<1>3. Typed'
  BY <1>0, <1>1 DEF Typed
<1>4. ASSUME NEW c \in Batches PROVE Fits(ledgers[c], batches[c])'
  BY <1>0, <1>2
<1>5. ASSUME NEW c \in Batches, Owns(c)' PROVE batches'[c].auth \in Authorizations
  BY <1>0, <1>5 DEF Owns
<1>6. ASSUME NEW q \in Recoveries PROVE RecoveryFits(q)'
  <2>1. CASE q = r
    BY <1>1, <1>2, <2>1 DEF RecoveryFits
  <2>2. CASE q # r
    <3>1. RecoveryFits(q) /\ recoveries'[q] = recoveries[q] /\ Target(q)' = Target(q)
      BY <1>0, <1>2, <2>2
    <3>2. recoveries[q].pc = "link" => ledgers'[Target(q)].opened
      BY <1>1, <1>2, <3>1 DEF RecoveryFits
    <3> QED
      BY <3>1, <3>2 DEF RecoveryFits
  <2> QED
    BY <2>1, <2>2
<1>7. ASSUME ~misread, NEW c \in Batches PROVE Phased(ledgers[c], batches[c])'
  BY <1>0, <1>2, <1>7
<1>8. ASSUME ~misread, NEW q \in Recoveries PROVE RecoveryPhased(q)'
  <2>1. CASE q = r
    <3>1. Dead(t)
      BY <1>0, <1>8 DEF RecoveryPhased
    <3> QED
      BY <1>2, <1>8, <2>1, <3>1 DEF RecoveryPhased, Dead
  <2>2. CASE q # r
    <3>1. /\ RecoveryPhased(q) /\ RecoveryFits(q) /\ recoveries'[q] = recoveries[q]
          /\ Target(q)' = Target(q)
      BY <1>0, <1>2, <1>8, <2>2
    <3>2. \A e : NotRun(m, e) = NotRun(ledgers[t], e)
      BY ReadFromRecords
    <3>3. StartedAuth(m) = StartedAuth(ledgers[t])
      BY ReadFromRecords
    <3>4. \A e, n : CanEnd(m, e, n) = CanEnd(ledgers[t], e, n)
      BY ReadFromRecords
    <3>5. \A e, a, n : BuildManifest(m, e, a, n) = BuildManifest(ledgers[t], e, a, n)
      BY ReadFromRecords
    <3>6. CASE Target(q) = t
      BY <1>2, <3>1, <3>2, <3>3, <3>4, <3>5, <3>6 DEF RecoveryPhased, Dead
    <3>7. CASE Target(q) # t
      <4>1. recoveries[q].pc # "idle" => ledgers'[Target(q)] = ledgers[Target(q)]
        BY <1>2, <3>1, <3>7 DEF RecoveryFits
      <4> QED
        BY <3>1, <4>1 DEF RecoveryPhased, Dead
    <3> QED
      BY <3>6, <3>7
  <2> QED
    BY <2>1, <2>2
<1>9. ASSUME ~misread, ~raced PROVE Exclusive' /\ Unspent'
  <2>1. Exclusive /\ RecoveryPhased(r) /\ lock = Owned(t)
    BY <1>0, <1>9 DEF Exclusive, Owns
  <2>2. ASSUME NEW q \in Recoveries, recoveries'[q].pc # "idle"
        PROVE  recoveries[q].pc # "idle" /\ Target(q)' = Target(q)
    BY <1>2, <2>2
  <2>3. Exclusive'
    <3>1. \A c \in Batches : batches'[c].pc \in Holding => lock' = Owned(c)
      BY <2>1 DEF Exclusive, Owns
    <3>2. \A q \in Recoveries : recoveries'[q].pc # "idle" => lock' = Owned(Target(q)')
      BY <2>1, <2>2 DEF Exclusive, Owns
    <3>3. \A q, u \in Recoveries : recoveries'[q].pc # "idle" /\ recoveries'[u].pc # "idle" => q = u
      BY <2>1, <2>2 DEF Exclusive
    <3> QED
      BY <3>1, <3>2, <3>3 DEF Exclusive, Owns, Target
  <2>4. ASSUME NEW c \in Batches PROVE batches[c].pc \notin {"claim", "open", "start"}
    <3>1. c # t => batches[c].pc \notin Holding
      BY <2>1 DEF Exclusive, Owns, Owned
    <3> QED
      BY <2>1, <3>1 DEF RecoveryPhased, Dead, Holding
  <2> QED
    BY <2>3, <2>4 DEF Unspent
<1> QED
  BY <1>3, <1>4, <1>5, <1>6, <1>7, <1>8, <1>9 DEF QualificationInv

(* It leaves the ledger alone too, or gives up.                             *)
LEMMA RecoveryIsQuiet ==
  ASSUME QualificationInv, NEW r \in Recoveries, recoveries[r].pc # "idle",
         UNCHANGED <<lock, ledgers, batches, faults, raced, misread>>,
         \/ RecoveryEnds(r)
         \/ \E x \in {"recover", "check", "unchanged", "rename"} : RecoveryStep(r, x)
  PROVE  QualificationInv'
<1> DEFINE l == ledgers[Target(r)]
<1>1. /\ Typed /\ Target(r) \in Batches /\ l \in Ledger
      /\ Fits(l, batches[Target(r)]) /\ (~misread => Phased(l, batches[Target(r)]))
      /\ recoveries[r] \in Recovery
  BY DEF QualificationInv, RecoveryFits, Typed
<1>2. ledgers' = [ledgers EXCEPT ![Target(r)] = l]
  BY <1>1 DEF Typed
<1>3. \E s \in Recovery : /\ recoveries' = [recoveries EXCEPT ![r] = s] /\ s.pc # "link"
                          /\ s.pc # "idle" => s.target = Target(r)
  <2>1. CASE RecoveryEnds(r)
    <3>1. NoRecovery \in Recovery /\ NoRecovery.pc = "idle"
      BY DEF NoRecovery, Recovery
    <3> QED
      BY <2>1, <3>1 DEF RecoveryEnds
  <2>2. ASSUME NEW x \in {"recover", "check", "unchanged", "rename"}, RecoveryStep(r, x)
        PROVE  \E s \in Recovery : /\ recoveries' = [recoveries EXCEPT ![r] = s] /\ s.pc # "link"
                                   /\ s.pc # "idle" => s.target = Target(r)
    <3> DEFINE s == [recoveries[r] EXCEPT !.pc = x]
    <3>1. s \in Recovery /\ s.pc = x /\ s.target = Target(r)
      BY <1>1 DEF Recovery, Target
    <3>2. recoveries' = [recoveries EXCEPT ![r] = s]
      BY <2>2 DEF RecoveryStep
    <3> HIDE DEF s
    <3> QED
      BY <3>1, <3>2
  <2> QED
    BY <2>1, <2>2
<1> HIDE DEF l
<1>4. l = ledgers[Target(r)]
  BY DEF l
<1> QED
  BY <1>1, <1>2, <1>3, <1>4, RecoveryKeeps

LEMMA StartRecoveryPreserves ==
  ASSUME QualificationInv, NEW r \in Recoveries, NEW b \in Batches, StartRecovery(r, b)
  PROVE  QualificationInv'
<1>0. /\ Typed /\ \A c \in Batches : Fits(ledgers[c], batches[c])
      /\ \A c \in Batches : Owns(c) => batches[c].auth \in Authorizations
      /\ \A q \in Recoveries : RecoveryFits(q)
      /\ ~misread => /\ \A c \in Batches : Phased(ledgers[c], batches[c])
                     /\ \A q \in Recoveries : RecoveryPhased(q)
      /\ ~misread /\ ~raced => Exclusive /\ Unspent
  BY DEF QualificationInv
<1> DEFINE s == [recoveries[r] EXCEPT !.pc = "inspect", !.target = b]
<1>1. s \in Recovery /\ s.pc = "inspect" /\ s.target = b
  BY <1>0 DEF Typed, Recovery
<1>2. recoveries' = [recoveries EXCEPT ![r] = s]
  BY DEF StartRecovery
<1> HIDE DEF s
<1>3. /\ UNCHANGED <<lock, ledgers, batches, faults>> /\ lock = Owned(b)
      /\ raced' = (raced \/ \E q \in Recoveries : recoveries[q].pc # "idle")
      /\ misread' = (misread \/ ~Dead(b))
  BY DEF StartRecovery, Owns
<1>4. /\ recoveries'[r] = s /\ Target(r)' = b
      /\ \A q \in Recoveries \ {r} : recoveries'[q] = recoveries[q] /\ Target(q)' = Target(q)
  BY <1>0, <1>1, <1>2 DEF Typed, Target
<1>5. Typed'
  <2>1. raced' \in BOOLEAN /\ misread' \in BOOLEAN
    BY <1>3
  <2> QED
    BY <1>0, <1>1, <1>2, <1>3, <2>1 DEF Typed
<1>6. ASSUME NEW c \in Batches PROVE Fits(ledgers[c], batches[c])'
  BY <1>0, <1>3
<1>7. ASSUME NEW c \in Batches, Owns(c)' PROVE batches'[c].auth \in Authorizations
  BY <1>0, <1>3, <1>7 DEF Owns
<1>8. ASSUME NEW q \in Recoveries PROVE RecoveryFits(q)'
  <2>1. batches[b].auth \in Authorizations
    BY <1>0, <1>3 DEF Owns
  <2> QED
    BY <1>0, <1>1, <1>3, <1>4, <2>1 DEF RecoveryFits
<1>9. ASSUME ~misread'
      PROVE  /\ \A c \in Batches : Phased(ledgers[c], batches[c])'
             /\ \A q \in Recoveries : RecoveryPhased(q)'
  <2>1. ~misread /\ Dead(b)
    BY <1>3, <1>9
  <2>2. \A q \in Recoveries : RecoveryPhased(q)'
    BY <1>0, <1>1, <1>3, <1>4, <2>1 DEF RecoveryPhased, Dead
  <2> QED
    BY <1>0, <1>3, <2>1, <2>2
<1>10. ASSUME ~misread', ~raced' PROVE Exclusive' /\ Unspent'
  <2>1. Exclusive /\ Unspent /\ \A q \in Recoveries : recoveries[q].pc = "idle"
    BY <1>0, <1>3, <1>10
  <2>2. \A q \in Recoveries : recoveries'[q].pc # "idle" => q = r
    BY <1>4, <2>1
  <2>3. Exclusive'
    <3>1. \A c \in Batches : batches'[c].pc \in Holding => lock' = Owned(c)
      BY <1>3, <2>1 DEF Exclusive, Owns
    <3>2. \A q \in Recoveries : recoveries'[q].pc # "idle" => lock' = Owned(Target(q)')
      BY <1>3, <1>4, <2>2
    <3>3. \A q, u \in Recoveries : recoveries'[q].pc # "idle" /\ recoveries'[u].pc # "idle" => q = u
      BY <2>2
    <3> QED
      BY <3>1, <3>2, <3>3 DEF Exclusive, Owns, Target
  <2> QED
    BY <1>3, <2>1, <2>3 DEF Unspent
<1> QED
  BY <1>5, <1>6, <1>7, <1>8, <1>9, <1>10 DEF QualificationInv

LEMMA ReleaseRecoveredPreserves ==
  ASSUME QualificationInv, NEW r \in Recoveries, ReleaseRecovered(r)
  PROVE  QualificationInv'
<1>0. /\ Typed /\ \A c \in Batches : Fits(ledgers[c], batches[c])
      /\ \A q \in Recoveries : RecoveryFits(q)
      /\ ~misread => /\ \A c \in Batches : Phased(ledgers[c], batches[c])
                     /\ \A q \in Recoveries : RecoveryPhased(q)
      /\ ~misread /\ ~raced => Exclusive /\ Unspent
  BY DEF QualificationInv
<1>1. /\ UNCHANGED <<ledgers, batches, faults, raced, misread>> /\ lock' = Absent
      /\ recoveries' = [recoveries EXCEPT ![r] = NoRecovery] /\ recoveries[r].pc = "rename"
  BY DEF ReleaseRecovered, RecoveryEnds, RecoveryAt
<1>2. NoRecovery \in Recovery /\ NoRecovery.pc = "idle"
  BY DEF NoRecovery, Recovery
<1>3. /\ recoveries'[r] = NoRecovery
      /\ \A q \in Recoveries \ {r} : recoveries'[q] = recoveries[q] /\ Target(q)' = Target(q)
  BY <1>0, <1>1 DEF Typed, Target
<1>4. Typed'
  BY <1>0, <1>1, <1>2 DEF Typed, Locks
<1>5. \A c \in Batches : Absent # Owned(c)
  BY DEF Absent, Owned
<1>6. \A q \in Recoveries : RecoveryFits(q)'
  BY <1>0, <1>1, <1>2, <1>3 DEF RecoveryFits
<1>7. ~misread => \A q \in Recoveries : RecoveryPhased(q)'
  BY <1>0, <1>1, <1>2, <1>3 DEF RecoveryPhased, Dead
<1>8. ASSUME ~misread, ~raced PROVE Exclusive' /\ Unspent'
  <2>1. Exclusive /\ Unspent /\ RecoveryPhased(r) /\ RecoveryFits(r)
    BY <1>0, <1>8
  <2>2. lock = Owned(Target(r)) /\ Dead(Target(r))
    BY <1>1, <2>1 DEF Exclusive, Owns, RecoveryPhased
  <2>3. ASSUME NEW c \in Batches PROVE batches[c].pc \notin Holding
    <3>1. c # Target(r) => batches[c].pc \notin Holding
      BY <2>1, <2>2 DEF Exclusive, Owns, Owned
    <3> QED
      BY <2>2, <3>1 DEF Dead, Holding
  <2>4. \A q \in Recoveries : recoveries'[q].pc = "idle"
    BY <1>1, <1>2, <1>3, <2>1 DEF Exclusive
  <2> QED
    BY <1>1, <2>1, <2>3, <2>4 DEF Exclusive, Unspent
<1> QED
  BY <1>0, <1>1, <1>4, <1>5, <1>6, <1>7, <1>8 DEF QualificationInv, Owns

LEMMA RecoverInterruptedPreserves ==
  ASSUME QualificationInv, NEW r \in Recoveries, RecoverInterrupted(r)
  PROVE  QualificationInv'
<1> DEFINE b == Target(r)
           l == ledgers[b]
           auth == batches[b].auth
           notRun == NotRun(l, Interrupted)
           draft == BuildManifest(l, Interrupted, auth, notRun)
<1>1. /\ recoveries[r].pc = "recover" /\ recoveries[r].pc # "idle"
      /\ UNCHANGED <<lock, batches, faults, raced, misread>>
  BY DEF RecoverInterrupted, RecoveryAt
<1>2. CASE UNCHANGED ledgers /\ (RecoveryStep(r, "check") \/ RecoveryEnds(r))
  BY <1>1, <1>2, RecoveryIsQuiet
<1>3. CASE /\ StartedAuth(l) \in {None, auth} /\ CanEnd(l, Interrupted, notRun)
           /\ recoveries' = [recoveries EXCEPT ![r].pc = "link", ![r].draft = draft]
           /\ ledgers' = [ledgers EXCEPT ![b].opened = TRUE]
  <2> DEFINE m == [l EXCEPT !.opened = TRUE]
             s == [recoveries[r] EXCEPT !.pc = "link", !.draft = draft]
  <2>1. /\ b \in Batches /\ auth \in Authorizations /\ l \in Ledger /\ recoveries[r] \in Recovery
        /\ Fits(l, batches[b]) /\ (~misread => Phased(l, batches[b]))
    BY <1>1 DEF QualificationInv, RecoveryFits, Typed
  <2>2. m \in Ledger /\ m.checkpoints = l.checkpoints /\ m.files = l.files /\ m.opened
        /\ m.manifest = l.manifest
    <3>1. m = [l EXCEPT !.opened = TRUE]
      OBVIOUS
    <3> HIDE DEF m
    <3> QED
      BY <2>1, <3>1, MadeOrLinked
  <2>3. Interrupted \in Endings /\ notRun \in SUBSET Ordinals
    BY DEF Interrupted, Endings, NotRun, Slice
  <2>4. draft \in Manifest /\ draft.auth = auth
    <3>1. draft.auth = auth
      BY DEF BuildManifest
    <3> HIDE DEF notRun, l
    <3> QED
      BY <2>1, <2>3, <3>1, BuiltManifest
  <2>5. /\ NotRun(m, Interrupted) = notRun /\ StartedAuth(m) = StartedAuth(l)
        /\ CanEnd(m, Interrupted, notRun) /\ BuildManifest(m, Interrupted, auth, notRun) = draft
        /\ Loads(m) = Loads(l) /\ AccountsFor(m) = AccountsFor(l) /\ Loose(m) = Loose(l)
        /\ HasStarted(m) = HasStarted(l)
        /\ \A e, n : CanEnd(m, e, n) = CanEnd(l, e, n)
        /\ \A e, a, n : BuildManifest(m, e, a, n) = BuildManifest(l, e, a, n)
    <3> HIDE DEF m
    <3> QED
      BY <1>3, <2>2, ReadFromRecords
  <2> HIDE DEF m
  <2>6. ManifestValid(l) => ManifestValid(m)
    BY <2>2, <2>5 DEF ManifestValid
  <2>7. PassedOnDisk(l) => PassedOnDisk(m)
    BY <2>2 DEF PassedOnDisk
  <2>8. ledgers' = [ledgers EXCEPT ![b] = m]
    BY <1>3 DEF m
  <2> HIDE DEF draft
  <2>9. s \in Recovery /\ s.pc = "link" /\ s.target = b /\ s.draft = draft
    BY <2>1, <2>4 DEF Recovery, Target
  <2>10. recoveries' = [recoveries EXCEPT ![r] = s]
    BY <1>3
  <2> HIDE DEF s, notRun
  <2>11. Fits(m, batches[b])
    <3> DEFINE p == batches[b]
    <3>1. HasStarted(l) => l.checkpoints[1] = Started(p.auth)
      BY <2>1 DEF Fits
    <3> HIDE DEF p, l
    <3> QED
      BY <2>1, <2>2, <2>5, <2>7, <3>1 DEF Fits, p
  <2>12. ~misread => Phased(m, batches[b])
    <3> DEFINE p == batches[b]
    <3> HIDE DEF p, l
    <3> QED
      BY <2>1, <2>2, <2>5, <2>6 DEF Phased, p
  <2>13. s.pc = "link" => /\ s.draft \in Manifest /\ s.draft.auth = auth /\ m.opened
                          /\ s.draft = BuildManifest(m, Interrupted, auth, NotRun(m, Interrupted))
                          /\ CanEnd(m, Interrupted, NotRun(m, Interrupted))
                          /\ StartedAuth(m) \in {None, auth}
    BY <1>3, <2>2, <2>4, <2>5, <2>9
  <2> QED
    BY <1>1, <2>2, <2>8, <2>9, <2>10, <2>11, <2>12, <2>13, RecoveryKeeps
<1> QED
  BY <1>2, <1>3 DEF RecoverInterrupted

LEMMA LinkInterruptedPreserves ==
  ASSUME QualificationInv, NEW r \in Recoveries, LinkInterrupted(r)
  PROVE  QualificationInv'
<1> DEFINE b == Target(r)
           l == ledgers[b]
           p == batches[b]
           draft == recoveries[r].draft
<1>1. /\ recoveries[r].pc = "link" /\ recoveries[r].pc # "idle"
      /\ UNCHANGED <<lock, batches, faults, raced, misread>>
  BY DEF LinkInterrupted, RecoveryAt
<1>2. CASE UNCHANGED ledgers /\ RecoveryEnds(r)
  BY <1>1, <1>2, RecoveryIsQuiet
<1>3. CASE /\ l.manifest = None
           /\ ledgers' = [ledgers EXCEPT ![b].manifest = draft]
           /\ recoveries' = [recoveries EXCEPT ![r].pc = "check", ![r].draft = None]
  <2> DEFINE m == WithManifest(l, draft)
             s == [recoveries[r] EXCEPT !.pc = "check", !.draft = None]
  <2>1. /\ b \in Batches /\ l \in Ledger /\ recoveries[r] \in Recovery /\ l.opened
        /\ p.auth \in Authorizations /\ draft \in Manifest /\ draft.auth = p.auth
        /\ Fits(l, p) /\ (~misread => Phased(l, p) /\ RecoveryPhased(r))
    BY <1>1 DEF QualificationInv, RecoveryFits, Typed
  <2>2. /\ m \in Ledger /\ m.checkpoints = l.checkpoints /\ m.files = l.files /\ m.opened = l.opened
        /\ m.manifest = draft
    <3>1. m = WithManifest(l, draft) /\ l \in Ledger /\ draft \in Manifest
      BY <2>1
    <3> HIDE DEF m, l, draft
    <3> QED
      BY ONLY <3>1, LinkedManifest
  <2>3. ledgers' = [ledgers EXCEPT ![b] = m]
    BY <1>3 DEF WithManifest
  <2>4. s \in Recovery /\ s.pc = "check" /\ s.target = b
    BY <2>1 DEF Recovery, Target
  <2>5. recoveries' = [recoveries EXCEPT ![r] = s]
    BY <1>3
  <2> HIDE DEF m, s
  <2>6. HasStarted(m) = HasStarted(l) /\ Loads(m) = Loads(l) /\ AccountsFor(m) = AccountsFor(l)
    BY <2>2, ReadFromRecords
  <2>7. p.outcome # "passed" /\ p.pc # "confirm"
    <3>1. p.outcome # "passed"
      BY <1>3, <2>1 DEF Fits, PassedOnDisk
    <3>2. p.pc # "confirm"
      BY <1>3, <2>1, NullAssumption DEF Fits
    <3> QED
      BY <3>1, <3>2
  <2>8. Fits(m, p)
    <3> HIDE DEF p, l, draft
    <3> QED
      BY <2>1, <2>2, <2>6, <2>7 DEF Fits
  <2>9. ASSUME ~misread PROVE Phased(m, p)
    <3> DEFINE notRun == NotRun(l, Interrupted)
    <3>1. /\ draft = BuildManifest(l, Interrupted, p.auth, notRun)
          /\ CanEnd(l, Interrupted, notRun) /\ StartedAuth(l) \in {None, p.auth}
          /\ p.pc \in {"ended", "crashed"} /\ Loads(l) /\ AccountsFor(l)
      BY <1>1, <2>1, <2>9 DEF RecoveryPhased, Dead, Phased
    <3>2. Interrupted \in Endings /\ notRun \in SUBSET Ordinals
      BY DEF Interrupted, Endings, NotRun, Slice
    <3> HIDE DEF notRun, p, l, draft
    <3>3. ManifestValid(m)
      BY <2>1, <2>2, <3>1, <3>2, BuiltIsValid
    <3> QED
      BY <2>6, <3>1, <3>3 DEF Phased, PreStart, Acquiring, InCase
  <2> QED
    BY <1>1, <2>2, <2>3, <2>4, <2>5, <2>8, <2>9, RecoveryKeeps
<1> QED
  BY <1>2, <1>3 DEF LinkInterrupted

LEMMA RecoveryPreserves ==
  ASSUME QualificationInv, NEW r \in Recoveries, RecoveryActs(r)
  PROVE  QualificationInv'
<1>1. CASE InspectTerminal(r)
  BY <1>1, RecoveryIsQuiet DEF InspectTerminal, RecoveryAt
<1>2. CASE CheckPublished(r)
  BY <1>2, RecoveryIsQuiet DEF CheckPublished, RecoveryAt
<1>3. CASE OwnerUnchanged(r)
  BY <1>3, RecoveryIsQuiet DEF OwnerUnchanged, RecoveryAt
<1>4. CASE GiveUp(r)
  BY <1>4, RecoveryIsQuiet DEF GiveUp, RecoveryAt
<1> QED
  BY <1>1, <1>2, <1>3, <1>4, StartRecoveryPreserves, RecoverInterruptedPreserves,
     LinkInterruptedPreserves, ReleaseRecoveredPreserves DEF RecoveryActs

LEMMA InitialLedger == Init => QualificationInv
<1> SUFFICES ASSUME Init PROVE QualificationInv
  OBVIOUS
<1>1. NoLedger \in Ledger
  BY DEF NoLedger, Ledger
<1>2. NewBatch \in Batch
  <2>1. NewBatch = [pc |-> "idle", auth |-> None, index |-> 1, published |-> FALSE, evidence |-> None,
                    ending |-> None, notRun |-> {}, draft |-> None, outcome |-> None]
    BY DEF NewBatch
  <2> QED
    BY <2>1, ClearedBatch
<1>3. NoRecovery \in Recovery /\ NoRecovery.pc = "idle"
  BY DEF NoRecovery, Recovery
<1>4. /\ \A b \in Batches : ledgers[b] = NoLedger /\ batches[b] = NewBatch
      /\ \A r \in Recoveries : recoveries[r] = NoRecovery
      /\ lock = Absent /\ faults = 0 /\ raced = FALSE /\ misread = FALSE
  BY DEF Init
<1>5. Typed
  <2>1. ledgers \in [Batches -> Ledger] /\ batches \in [Batches -> Batch]
    BY <1>1, <1>2 DEF Init
  <2>2. recoveries \in [Recoveries -> Recovery]
    BY <1>3 DEF Init
  <2>3. lock \in Locks /\ faults \in 0 .. MaxFaults
    BY <1>4, FaultAssumption DEF Locks
  <2>4. raced \in BOOLEAN /\ misread \in BOOLEAN
    BY <1>4
  <2> QED
    BY <2>1, <2>2, <2>3, <2>4 DEF Typed
<1>6. /\ NewBatch.pc = "idle" /\ NewBatch.auth = None /\ NewBatch.index = 1 /\ NewBatch.outcome = None
      /\ ~NoLedger.opened /\ NoLedger.checkpoints = <<>> /\ NoLedger.files = {} /\ NoLedger.manifest = None
  BY DEF NewBatch, NoLedger
<1>7. ~HasStarted(NoLedger) /\ Loose(NoLedger) = {} /\ Loads(NoLedger) /\ AccountsFor(NoLedger)
  <2>1. ~HasStarted(NoLedger) /\ Loose(NoLedger) = {}
    BY <1>6 DEF HasStarted, Loose
  <2>2. Loads(NoLedger)
    BY <1>6 DEF Loads
  <2> QED
    BY <2>1, <2>2 DEF AccountsFor
<1>8. Fits(NoLedger, NewBatch)
  BY <1>1, <1>2, <1>6, <1>7, BatchAssumption DEF Fits, PreStart, Acquiring, InCase, CaseUnderway
<1>9. Phased(NoLedger, NewBatch)
  BY <1>6, <1>7 DEF Phased, PreStart, InCase
<1>10. \A b \in Batches : ~Owns(b)
  BY <1>4 DEF Owns, Absent, Owned
<1>11. \A r \in Recoveries : RecoveryFits(r) /\ RecoveryPhased(r)
  BY <1>3, <1>4 DEF RecoveryFits, RecoveryPhased
<1>12. Exclusive /\ Unspent
  BY <1>3, <1>4, <1>6 DEF Exclusive, Unspent, Holding
<1> QED
  BY <1>4, <1>5, <1>8, <1>9, <1>10, <1>11, <1>12 DEF QualificationInv

LEMMA QualificationStep == QualificationInv /\ [Next]_vars => QualificationInv'
<1> SUFFICES ASSUME QualificationInv, [Next]_vars PROVE QualificationInv'
  OBVIOUS
<1>1. ASSUME NEW b \in Batches, BatchStep(b) PROVE QualificationInv'
  BY <1>1, BatchPreserves
<1>2. ASSUME NEW r \in Recoveries, RecoveryActs(r) PROVE QualificationInv'
  BY <1>2, RecoveryPreserves
<1>3. CASE UNCHANGED vars
  BY <1>3 DEF vars, QualificationInv, Typed, RecoveryFits, RecoveryPhased, Exclusive, Unspent, Owns,
     Target, Dead
<1> QED
  BY <1>1, <1>2, <1>3 DEF Next, Finished

LEMMA QualificationHolds == Spec => []QualificationInv
  BY InitialLedger, QualificationStep, PTL DEF Spec

-----------------------------------------------------------------------------
(* The properties *)

(* The lock, the ledgers and the processes of any number of batches and     *)
(* recoveries only take the values they are declared with.                  *)
THEOREM QualificationTypeCorrect == Spec => []TypeOK
<1>1. QualificationInv => TypeOK
  BY DEF QualificationInv, Typed, TypeOK, Ledger
<1> QED
  BY <1>1, QualificationHolds, PTL

(* acquireQualificationLock and releaseExactOwner keep their promise to the *)
(* holder: unless two recoveries ran at once or a live owner was taken for  *)
(* dead, the lock of a live batch is its own from the time it is read back  *)
(* to the rename, whatever the other batches and recoveries do.             *)
THEOREM HolderIsKept == Spec => []HolderKeepsLock
<1>1. QualificationInv => HolderKeepsLock
  BY DEF QualificationInv, Exclusive, HolderKeepsLock, Owns
<1> QED
  BY <1>1, QualificationHolds, PTL

(* Whatever crashed or was recovered, what publishTerminalManifest and      *)
(* recoverInterruptedQualificationBatch have linked agrees with the         *)
(* checkpoints and evidence beside it, and a batch that reports passed has  *)
(* left sound, passed evidence of every case of the schedule.               *)
THEOREM LedgersAreHonest == Spec => []LedgerHonest
<1>1. QualificationInv => LedgerHonest
  <2> SUFFICES ASSUME QualificationInv PROVE LedgerHonest
    OBVIOUS
  <2>1. ASSUME NEW b \in Batches, batches[b].outcome = "passed" PROVE PassedReport(b)
    BY <2>1 DEF QualificationInv, Fits, PassedOnDisk, PassedReport
  <2>2. ASSUME ~misread, NEW b \in Batches, ledgers[b].manifest # None
        PROVE  ManifestValid(ledgers[b])
    BY <2>2 DEF QualificationInv, Phased
  <2> QED
    BY <2>1, <2>2 DEF LedgerHonest
<1> QED
  BY <1>1, QualificationHolds, PTL

(* A ledger that loads, of which a recovery builds an interrupted manifest. *)
LEMMA CanBeInterrupted ==
  ASSUME NEW l, Loads(l), AccountsFor(l)
  PROVE  CanEnd(l, Interrupted, NotRun(l, Interrupted))
<1>1. Interrupted.status = "interrupted" /\ Interrupted.stopReason = "process_interrupted"
  BY DEF Interrupted
<1>2. Unfinished(Interrupted)
  BY <1>1 DEF Unfinished
<1> QED
  BY <1>1, <1>2 DEF CanEnd

(* A batch may die anywhere: recoverQualificationLock then finds either a   *)
(* terminal manifest that matches the owner of the lock or a ledger it can  *)
(* end as interrupted, so that no crash locks the repository for good.      *)
THEOREM LocksAreRecoverable == Spec => []Recoverable
<1>1. QualificationInv => Recoverable
  <2> SUFFICES ASSUME QualificationInv, ~misread, NEW b \in Batches, Owns(b), Dead(b),
                      NEW l, l = ledgers[b]
               PROVE  \/ TerminalMatches(l, batches[b].auth)
                      \/ /\ l.manifest = None /\ StartedAuth(l) \in {None, batches[b].auth}
                         /\ CanEnd(l, Interrupted, NotRun(l, Interrupted))
    BY DEF Recoverable
  <2>1. Fits(l, batches[b]) /\ Phased(l, batches[b])
    BY DEF QualificationInv
  <2>2. CASE l.manifest # None
    BY <2>1, <2>2 DEF Fits, Phased, TerminalMatches, Terminal
  <2>3. CASE l.manifest = None
    <3>1. CanEnd(l, Interrupted, NotRun(l, Interrupted))
      BY <2>1, CanBeInterrupted DEF Phased
    <3>2. HasStarted(l) => l.checkpoints[1].auth = batches[b].auth
      BY <2>1 DEF Fits, Started
    <3>3. StartedAuth(l) \in {None, batches[b].auth}
      BY <3>2 DEF StartedAuth
    <3> QED
      BY <2>3, <3>1, <3>3
  <2> QED
    BY <2>2, <2>3
<1> QED
  BY <1>1, QualificationHolds, PTL

(* No recovery appends a checkpoint.                                        *)
LEMMA RecoveriesAppendNothing ==
  ASSUME QualificationInv, NEW r \in Recoveries, RecoveryActs(r), NEW b \in Batches
  PROVE  ledgers'[b].checkpoints = ledgers[b].checkpoints
<1>1. ledgers \in [Batches -> Ledger]
  BY DEF QualificationInv, Typed
<1>2. CASE UNCHANGED ledgers
  BY <1>2
<1>3. CASE RecoverInterrupted(r)
  <2>1. CASE ledgers' = [ledgers EXCEPT ![Target(r)].opened = TRUE]
    BY <1>1, <2>1 DEF Ledger
  <2> QED
    BY <1>2, <1>3, <2>1 DEF RecoverInterrupted
<1>4. CASE LinkInterrupted(r)
  <2>1. CASE ledgers' = [ledgers EXCEPT ![Target(r)].manifest = recoveries[r].draft]
    BY <1>1, <2>1 DEF Ledger
  <2> QED
    BY <1>2, <1>4, <2>1 DEF LinkInterrupted
<1> QED
  BY <1>2, <1>3, <1>4 DEF RecoveryActs, StartRecovery, InspectTerminal, CheckPublished, OwnerUnchanged,
     ReleaseRecovered, GiveUp

(* The authorization a batch starts with is one that no other batch has     *)
(* recorded: assertAuthorizationReferenceUnused looked at every ledger      *)
(* before, and the lock kept every other batch from starting meanwhile.     *)
THEOREM AuthorizationsAreSpentOnce == Spec => AuthorizationOnce
<1>1. ASSUME QualificationInv, [Next]_vars, NEW b \in Batches,
             ~HasStarted(ledgers[b]), HasStarted(ledgers'[b]), ~raced, ~misread,
             NEW c \in Batches \ {b}
      PROVE  RecordedAuth(ledgers[c]) # StartedAuth(ledgers'[b])
  <2>1. ledgers'[b].checkpoints # ledgers[b].checkpoints
    BY <1>1 DEF HasStarted
  <2>2. PICK d \in Batches : BatchStep(d)
    BY <1>1, <2>1, RecoveriesAppendNothing DEF Next, Finished, vars
  <2>3. PICK m, q : Effect(d, m, q)
    BY <1>1, <2>2, BatchMoves DEF Ready, Moved, QualificationInv
  <2>4. ledgers' = [ledgers EXCEPT ![d] = m] /\ ledgers \in [Batches -> Ledger]
    BY <1>1, <2>3 DEF Effect, QualificationInv, Typed
  <2>5. d = b /\ ledgers'[b] = m
    BY <2>1, <2>4
  <2>6. batches[b].pc = "start" /\ StartedAuth(m) = batches[b].auth
    BY <1>1, <2>3, <2>5 DEF Effect
  <2>7. Unspent
    BY <1>1 DEF QualificationInv
  <2> QED
    BY <2>5, <2>6, <2>7 DEF Unspent
<1>2. QualificationInv /\ [Next]_vars =>
        [\A b \in Batches :
           ~HasStarted(ledgers[b]) /\ HasStarted(ledgers'[b]) =>
             \/ raced \/ misread
             \/ \A c \in Batches \ {b} : RecordedAuth(ledgers[c]) # StartedAuth(ledgers'[b])]_vars
  BY <1>1
<1> QED
  BY <1>2, QualificationHolds, PTL DEF Spec, AuthorizationOnce

-----------------------------------------------------------------------------
(* What the programs ask *)

Styles == {Bounded, Immutable, Stable, Plain}
Lock == "package-lock"
Statuses == {Status({"clean"}), Status({"clean", "batch"})}
Commits == {Commit(as) : as \in {"note", "same"}}
ReadsOf == [op : {"read"}, style : Styles, file : Files, as : {"note", "same"}]
Builds == {Build(a) : a \in Range(Artifacts)}
Question == ((Statuses \cup Commits) \cup ReadsOf) \cup Builds

IsHead(q) == q.op = "head"
ReadsFile(q, file) == q.op = "read" /\ q.file = file

(* A question of the preflight or the verifier: they read the candidate in   *)
(* the most careful way.                                                    *)
Careful == {q \in Question : q.op = "read" /\ q.file \in Candidate => q.style = Stable}
(* A question about what is noted already.                                  *)
Repeated == {q \in Careful : q.op # "build" /\ (q.op # "status" => q.as = "same")}

LEMMA QuestionIs ==
  ASSUME NEW q \in Question
  PROVE  \/ q.op = "status" /\ q.allowed \subseteq {"clean", "batch"}
         \/ q.op = "head" /\ q.as \in {"note", "same"}
         \/ q.op = "read" /\ q.style \in Styles /\ q.file \in Files /\ q.as \in {"note", "same"}
         \/ q.op = "build" /\ q.file \in Range(Artifacts)
<1>1. CASE q \in Builds
  BY <1>1 DEF Builds, Build
<1>2. CASE q \in (Statuses \cup Commits) \cup ReadsOf
  BY <1>2 DEF Statuses, Commits, ReadsOf, Status, Commit, Read
<1> QED BY <1>1, <1>2 DEF Question

LEMMA ArtifactsAre ==
  /\ Artifacts \in Seq(Range(Artifacts))
  /\ Range(Artifacts) \subseteq Candidate /\ Candidate \subseteq Files /\ Lock \in Candidate
  /\ \A i \in DOMAIN Artifacts : Artifacts[i] \in Range(Artifacts)
  /\ \A a \in Range(Artifacts) : \E i \in 1 .. Len(Artifacts) : Artifacts[i] = a
BY CandidateAssumption DEF Candidate, Files, Tracked, Lock, Range

LEMMA ReadIs ==
  ASSUME NEW file \in Files, NEW style \in Styles, NEW as \in {"note", "same"}
  PROVE  /\ Read(style, file, as) \in Question
         /\ style = Stable => Read(style, file, as) \in Careful /\ (as = "same" => Read(style, file, as) \in Repeated)
         /\ file \notin Candidate => Read(style, file, as) \in Careful /\ (as = "same" => Read(style, file, as) \in Repeated)
         /\ ReadsFile(Read(style, file, as), file)
         /\ Read(style, file, as).op = "read" /\ Read(style, file, as).as = as
<1> DEFINE q == Read(style, file, as)
<1>1. q \in Question
  <2>1. q \in ReadsOf BY DEF ReadsOf, Read
  <2> QED BY <2>1 DEF Question
<1>2. q.op = "read" /\ q.style = style /\ q.file = file /\ q.as = as
  BY DEF Read
<1> HIDE DEF q
<1>3. /\ style = Stable => q \in Careful /\ (as = "same" => q \in Repeated)
      /\ file \notin Candidate => q \in Careful /\ (as = "same" => q \in Repeated)
      /\ ReadsFile(q, file)
  BY <1>1, <1>2 DEF Careful, Repeated, ReadsFile
<1> QED BY <1>1, <1>2, <1>3 DEF q

LEMMA CommitIs ==
  ASSUME NEW as \in {"note", "same"}
  PROVE  /\ Commit(as) \in Careful /\ (as = "same" => Commit(as) \in Repeated)
         /\ IsHead(Commit(as)) /\ Commit(as).as = as
<1> DEFINE q == Commit(as)
<1>1. q \in Question
  <2>1. q \in Commits BY ZenonT(30) DEF Commits
  <2> QED BY <2>1 DEF Question
<1>2. q.op = "head" /\ q.as = as
  BY DEF Commit
<1> HIDE DEF q
<1>3. q \in Careful /\ (as = "same" => q \in Repeated) /\ IsHead(q)
  BY <1>1, <1>2 DEF Careful, Repeated, IsHead
<1> QED BY <1>1, <1>2, <1>3 DEF q

LEMMA StatusIs ==
  ASSUME NEW allowed \in {{"clean"}, {"clean", "batch"}}
  PROVE  /\ Status(allowed) \in Careful /\ Status(allowed) \in Repeated /\ Status(allowed).op = "status"
BY DEF Status, Question, Statuses, Careful, Repeated

(* All artifacts, one after the other. *)
LEMMA BuildIs ==
  ASSUME NEW as \in {"note", "same"}
  PROVE  LET build == CollectQualificationBuildIdentity(as) IN
         /\ build \in Seq(Careful) /\ Len(build) = Len(Artifacts)
         /\ as = "same" => build \in Seq(Repeated)
         /\ \A i \in 1 .. Len(build) : build[i].op = "read" /\ ReadsFile(build[i], Artifacts[i])
         /\ \A a \in Range(Artifacts) : \E i \in 1 .. Len(build) : ReadsFile(build[i], a)
<1> DEFINE build == CollectQualificationBuildIdentity(as)
<1>1. Artifacts \in Seq(Range(Artifacts)) /\ DOMAIN Artifacts = 1 .. Len(Artifacts) /\ Len(Artifacts) \in Nat
  BY ArtifactsAre
<1>2. build = [i \in 1 .. Len(Artifacts) |-> Read(Stable, Artifacts[i], as)]
  BY <1>1 DEF CollectQualificationBuildIdentity, ReadAll
<1>3. \A i \in 1 .. Len(Artifacts) : Artifacts[i] \in Files
  BY <1>1, ArtifactsAre
<1>4. \A i \in 1 .. Len(Artifacts) : /\ build[i] \in Careful /\ ReadsFile(build[i], Artifacts[i])
                                     /\ as = "same" => build[i] \in Repeated
                                     /\ build[i].op = "read"
  <2> SUFFICES ASSUME NEW i \in 1 .. Len(Artifacts)
               PROVE  /\ build[i] \in Careful /\ ReadsFile(build[i], Artifacts[i])
                      /\ as = "same" => build[i] \in Repeated
                      /\ build[i].op = "read"
    BY Zenon
  <2>1. build[i] = Read(Stable, Artifacts[i], as)
    BY <1>2
  <2>2. Stable \in Styles /\ Artifacts[i] \in Files
    BY <1>3 DEF Styles
  <2> HIDE DEF build
  <2>3. /\ Read(Stable, Artifacts[i], as) \in Careful
        /\ ReadsFile(Read(Stable, Artifacts[i], as), Artifacts[i])
        /\ as = "same" => Read(Stable, Artifacts[i], as) \in Repeated
        /\ Read(Stable, Artifacts[i], as).op = "read"
    BY <2>2, ReadIs
  <2> QED BY <2>1, <2>3
<1>5. Len(build) = Len(Artifacts)
  BY <1>1, <1>2
<1> HIDE DEF build
<1>6. build \in Seq(Careful) /\ (as = "same" => build \in Seq(Repeated))
  <2>1. build \in [1 .. Len(Artifacts) -> Careful]
    BY <1>2, <1>4
  <2>2. as = "same" => build \in [1 .. Len(Artifacts) -> Repeated]
    BY <1>2, <1>4
  <2>3. ASSUME NEW S, NEW q \in [1 .. Len(Artifacts) -> S]
        PROVE  q \in Seq(S)
    <3>1. Seq(S) = UNION {[1 .. n -> S] : n \in Nat}
      BY SeqDef
    <3> QED BY <1>1, <3>1
  <2> QED BY <2>1, <2>2, <2>3
<1>7. \A a \in Range(Artifacts) : \E i \in 1 .. Len(build) : ReadsFile(build[i], a)
  BY <1>4, <1>5, ArtifactsAre
<1> QED BY <1>4, <1>5, <1>6, <1>7 DEF build

(* The commands of the preflight ask for nothing. *)
LEMMA CommandsAre ==
  /\ DeterministicCommands \in Seq(Careful)
  /\ \A i \in 1 .. Len(DeterministicCommands) : DeterministicCommands[i].op = "build"
<1> DEFINE run == DeterministicCommands
<1>1. Artifacts \in Seq(Range(Artifacts)) /\ DOMAIN Artifacts = 1 .. Len(Artifacts) /\ Len(Artifacts) \in Nat
  BY ArtifactsAre
<1>2. run = [i \in 1 .. Len(Artifacts) |-> Build(Artifacts[i])]
  BY <1>1 DEF DeterministicCommands
<1>3. ASSUME NEW a \in Range(Artifacts)
      PROVE  Build(a) \in Careful /\ Build(a).op = "build"
  <2>1. Build(a) \in Question
    BY DEF Question, Builds
  <2>2. Build(a).op = "build"
    BY DEF Build
  <2> QED BY <2>1, <2>2 DEF Careful
<1>4. \A i \in 1 .. Len(Artifacts) : Artifacts[i] \in Range(Artifacts)
  BY <1>1
<1> HIDE DEF run
<1>5. run \in [1 .. Len(Artifacts) -> Careful] /\ \A i \in 1 .. Len(Artifacts) : run[i].op = "build"
  BY <1>2, <1>3, <1>4
<1>6. Seq(Careful) = UNION {[1 .. n -> Careful] : n \in Nat}
  BY SeqDef
<1>7. run \in Seq(Careful) /\ Len(run) = Len(Artifacts)
  BY <1>1, <1>5, <1>6
<1> QED BY <1>5, <1>7 DEF run

(* Properties of a list of questions: a file is read; the head is asked      *)
(* before the lock file is read; the status is asked and then the head.     *)
Visits(q, file) == \E i \in 1 .. Len(q) : ReadsFile(q[i], file)
HeadFirst(q) ==
  \E i \in 1 .. Len(q) : IsHead(q[i]) /\ \A j \in 1 .. i : ~ReadsFile(q[j], Lock)
Confirms(q) ==
  \E i, j \in 1 .. Len(q) : i < j /\ q[i].op = "status" /\ IsHead(q[j])
HeadsStay(q) ==
  \A i, j \in 1 .. Len(q) : i < j /\ IsHead(q[i]) /\ IsHead(q[j]) => q[j].as = "same"

LEMMA Joined ==
  ASSUME NEW S, NEW s \in Seq(S), NEW t \in Seq(S)
  PROVE  /\ s \o t \in Seq(S) /\ Len(s \o t) = Len(s) + Len(t)
         /\ \A i \in 1 .. Len(s) : (s \o t)[i] = s[i]
         /\ \A i \in 1 .. Len(t) : (s \o t)[Len(s) + i] = t[i]
BY ConcatProperties, LenProperties

LEMMA JoinedKeeps ==
  ASSUME NEW S, NEW s \in Seq(S), NEW t \in Seq(S)
  PROVE  /\ \A file : Visits(s, file) \/ Visits(t, file) => Visits(s \o t, file)
         /\ Confirms(s) \/ Confirms(t) => Confirms(s \o t)
         /\ HeadFirst(s) => HeadFirst(s \o t)
         /\ HeadFirst(t) /\ ~Visits(s, Lock) => HeadFirst(s \o t)
         /\ ~Visits(s, Lock) /\ ~Visits(t, Lock) => ~Visits(s \o t, Lock)
<1> DEFINE q == s \o t
           n == Len(s)
<1>1. /\ Len(q) = n + Len(t) /\ n \in Nat /\ Len(t) \in Nat
      /\ \A i \in 1 .. n : q[i] = s[i]
      /\ \A i \in 1 .. Len(t) : q[n + i] = t[i]
  BY Joined, LenProperties
<1>2. /\ \A i \in 1 .. n : i \in 1 .. Len(q)
      /\ \A i \in 1 .. Len(t) : n + i \in 1 .. Len(q)
  BY <1>1
<1> HIDE DEF q
<1>3. ASSUME NEW file, Visits(s, file) \/ Visits(t, file)
      PROVE  Visits(q, file)
  <2>1. CASE Visits(s, file)
    BY <1>1, <1>2, <2>1 DEF Visits
  <2>2. CASE Visits(t, file)
    <3>1. PICK i \in 1 .. Len(t) : ReadsFile(t[i], file)
      BY <2>2 DEF Visits
    <3> QED BY <1>1, <1>2, <3>1 DEF Visits
  <2> QED BY <1>3, <2>1, <2>2
<1>4. ASSUME Confirms(s) \/ Confirms(t)
      PROVE  Confirms(q)
  <2>1. CASE Confirms(s)
    BY <1>1, <1>2, <2>1 DEF Confirms
  <2>2. CASE Confirms(t)
    <3>1. PICK i \in 1 .. Len(t), j \in 1 .. Len(t) : i < j /\ t[i].op = "status" /\ IsHead(t[j])
      BY <2>2 DEF Confirms
    <3>2. n + i < n + j /\ q[n + i].op = "status" /\ IsHead(q[n + j])
      BY <1>1, <3>1
    <3> QED BY <1>2, <3>2 DEF Confirms
  <2> QED BY <1>4, <2>1, <2>2
<1>5. ASSUME HeadFirst(s)
      PROVE  HeadFirst(q)
  <2>1. PICK i \in 1 .. n : IsHead(s[i]) /\ \A j \in 1 .. i : ~ReadsFile(s[j], Lock)
    BY <1>5 DEF HeadFirst
  <2>2. \A j \in 1 .. i : j \in 1 .. n
    BY <1>1, <2>1
  <2>3. IsHead(q[i]) /\ \A j \in 1 .. i : ~ReadsFile(q[j], Lock)
    BY <1>1, <2>1, <2>2
  <2> QED BY <1>2, <2>1, <2>3 DEF HeadFirst
<1>6. ASSUME HeadFirst(t), ~Visits(s, Lock)
      PROVE  HeadFirst(q)
  <2>1. PICK i \in 1 .. Len(t) : IsHead(t[i]) /\ \A j \in 1 .. i : ~ReadsFile(t[j], Lock)
    BY <1>6 DEF HeadFirst
  <2>2. ASSUME NEW j \in 1 .. (n + i)
        PROVE  ~ReadsFile(q[j], Lock)
    <3>1. CASE j <= n
      <4>1. j \in 1 .. n
        BY <1>1, <3>1
      <4>2. ~ReadsFile(s[j], Lock)
        BY <1>6, <4>1 DEF Visits
      <4> QED BY <1>1, <4>1, <4>2
    <3>2. CASE ~(j <= n)
      <4> DEFINE k == j - n
      <4>1. k \in 1 .. i /\ k \in 1 .. Len(t) /\ j = n + k
        BY <1>1, <2>1, <3>2
      <4> HIDE DEF k
      <4>2. ~ReadsFile(t[k], Lock) /\ q[n + k] = t[k]
        BY <1>1, <2>1, <4>1
      <4> QED BY <4>1, <4>2
    <3> QED BY <3>1, <3>2
  <2>3. IsHead(q[n + i]) /\ n + i \in 1 .. Len(q)
    BY <1>1, <1>2, <2>1
  <2> QED BY <2>2, <2>3 DEF HeadFirst
<1>7. ASSUME ~Visits(s, Lock), ~Visits(t, Lock), NEW i \in 1 .. Len(q)
      PROVE  ~ReadsFile(q[i], Lock)
  <2>1. CASE i <= n
    <3>1. i \in 1 .. n
      BY <1>1, <2>1
    <3> QED BY <1>1, <1>7, <3>1 DEF Visits
  <2>2. CASE ~(i <= n)
    <3>1. i - n \in 1 .. Len(t) /\ n + (i - n) = i
      BY <1>1, <2>2
    <3>2. q[i] = t[i - n]
      BY <1>1, <3>1
    <3> QED BY <1>7, <3>1, <3>2 DEF Visits
  <2> QED BY <2>1, <2>2
<1>8. ~Visits(s, Lock) /\ ~Visits(t, Lock) => ~Visits(q, Lock)
  BY <1>7 DEF Visits
<1> QED BY <1>3, <1>4, <1>5, <1>6, <1>8 DEF q

(* The part of a program up to the only moment at which all of the candidate *)
(* is known, and the part that asks for all of it again.                     *)
FrontOf(front) ==
  /\ front \in Seq(Careful) /\ HeadsStay(front)
  /\ \A a \in Range(Artifacts) : Visits(front, a)
  /\ Visits(front, Lock) /\ HeadFirst(front)
RestOf(rest) ==
  /\ rest \in Seq(Repeated) /\ Confirms(rest)
  /\ \A a \in Range(Artifacts) : Visits(rest, a)

PreflightFront ==
  ((CaptureRepository("note") \o ReadPackageIdentity("note"))
    \o CollectQualificationBuildIdentity("note")) \o DeterministicCommands
PreflightRest ==
  (CaptureRepository("same") \o CollectQualificationBuildIdentity("same"))
    \o CaptureRepository("same")

SnapshotFront == <<Commit("same")>> \o ReadPackageIdentity("same")
VerifyStart ==
  (InspectQualificationTerminal \o <<Read(Immutable, "manifest", "same")>>) \o ValidateManifestEvidence
VerifyFront == VerifyStart \o (AssertQualificationFrozenCandidate \o SnapshotFront)
VerifyRest ==
  (CollectQualificationBuildIdentity("same") \o AssertQualificationFrozenCandidate) \o AssertTerminalStable

LEMMA RepeatedIsCareful ==
  /\ Repeated \subseteq Careful
  /\ Seq(Repeated) \subseteq Seq(Careful)
<1>1. Repeated \subseteq Careful
  BY DEF Repeated
<1> QED BY <1>1, SeqMonotonic

LEMMA CaptureIs ==
  ASSUME NEW as \in {"note", "same"}, NEW allowed \in {{"clean"}, {"clean", "batch"}}
  PROVE  LET c == <<Status(allowed), Commit(as)>> IN
         /\ c \in Seq(Careful) /\ Len(c) = 2 /\ Confirms(c) /\ HeadFirst(c)
         /\ as = "same" => c \in Seq(Repeated)
         /\ ~IsHead(c[1]) /\ IsHead(c[2]) /\ c[2].as = as
         /\ \A file : ~Visits(c, file)
<1> DEFINE s == Status(allowed)
           h == Commit(as)
           c == <<s, h>>
<1>1. s \in Careful /\ s \in Repeated /\ s.op = "status"
  BY StatusIs
<1>2. h \in Careful /\ (as = "same" => h \in Repeated) /\ IsHead(h) /\ h.as = as
  BY CommitIs
<1> HIDE DEF s, h
<1>3. ~IsHead(s) /\ \A file : ~ReadsFile(s, file) /\ ~ReadsFile(h, file)
  BY <1>1, <1>2 DEF IsHead, ReadsFile
<1>4. Len(c) = 2 /\ c[1] = s /\ c[2] = h /\ c \in Seq(Careful) /\ (as = "same" => c \in Seq(Repeated))
  <2>1. c \in Seq(Careful)
    BY <1>1, <1>2
  <2>2. ASSUME as = "same" PROVE c \in Seq(Repeated)
    BY <1>1, <1>2, <2>2
  <2>3. Len(c) = 2 /\ c[1] = s /\ c[2] = h
    OBVIOUS
  <2> QED BY <2>1, <2>2, <2>3
<1> HIDE DEF c
<1>5. Confirms(c)
  <2>1. 1 \in 1 .. Len(c) /\ 2 \in 1 .. Len(c) /\ 1 < 2
    BY <1>4
  <2> QED BY <1>1, <1>2, <1>4, <2>1 DEF Confirms
<1>6. HeadFirst(c)
  <2>1. 2 \in 1 .. Len(c) /\ \A j \in 1 .. 2 : ~ReadsFile(c[j], Lock)
    BY <1>3, <1>4
  <2> QED BY <1>2, <1>4, <2>1 DEF HeadFirst
<1>7. \A file : ~Visits(c, file)
  BY <1>3, <1>4 DEF Visits
<1> QED BY <1>2, <1>3, <1>4, <1>5, <1>6, <1>7 DEF c, s, h

(* A single reading. *)
LEMMA OneRead ==
  ASSUME NEW file \in Files, NEW style \in Styles, NEW as \in {"note", "same"},
         style = Stable \/ file \notin Candidate
  PROVE  LET r == <<Read(style, file, as)>> IN
         /\ r \in Seq(Careful) /\ Len(r) = 1 /\ Visits(r, file)
         /\ as = "same" => r \in Seq(Repeated)
         /\ \A f : f # file => ~Visits(r, f)
         /\ r[1].op = "read"
<1> DEFINE q == Read(style, file, as)
           r == <<q>>
<1>1. q \in Careful /\ (as = "same" => q \in Repeated) /\ ReadsFile(q, file) /\ q.op = "read"
  BY ReadIs
<1> HIDE DEF q
<1>2. Len(r) = 1 /\ r[1] = q /\ r \in Seq(Careful) /\ (as = "same" => r \in Seq(Repeated))
  <2>1. r \in Seq(Careful)
    BY <1>1
  <2>2. ASSUME as = "same" PROVE r \in Seq(Repeated)
    BY <1>1, <2>2
  <2>3. Len(r) = 1 /\ r[1] = q
    OBVIOUS
  <2> QED BY <2>1, <2>2, <2>3
<1> HIDE DEF r
<1>3. Visits(r, file)
  <2>1. 1 \in 1 .. Len(r)
    BY <1>2
  <2> QED BY <1>1, <1>2, <2>1 DEF Visits
<1>4. \A f : f # file => ~Visits(r, f)
  BY <1>1, <1>2 DEF Visits, ReadsFile
<1> QED BY <1>1, <1>2, <1>3, <1>4 DEF r, q

LEMMA HeadsStayJoined ==
  ASSUME NEW S, NEW s \in Seq(S), NEW t \in Seq(S), HeadsStay(s), \A i \in 1 .. Len(t) : ~IsHead(t[i])
  PROVE  HeadsStay(s \o t)
<1> DEFINE q == s \o t
           n == Len(s)
<1>1. /\ Len(q) = n + Len(t) /\ n \in Nat /\ Len(t) \in Nat
      /\ \A i \in 1 .. n : q[i] = s[i]
      /\ \A i \in 1 .. Len(t) : q[n + i] = t[i]
  BY Joined, LenProperties
<1> HIDE DEF q
<1>2. ASSUME NEW i \in 1 .. Len(q), IsHead(q[i])
      PROVE  i \in 1 .. n
  <2> SUFFICES ASSUME ~(i <= n) PROVE FALSE
    BY <1>1
  <2>1. i - n \in 1 .. Len(t) /\ n + (i - n) = i
    BY <1>1
  <2> QED BY <1>1, <1>2, <2>1
<1>3. ASSUME NEW i \in 1 .. Len(q), NEW j \in 1 .. Len(q), i < j, IsHead(q[i]), IsHead(q[j])
      PROVE  q[j].as = "same"
  <2>1. i \in 1 .. n /\ j \in 1 .. n
    BY <1>2, <1>3
  <2> QED BY <1>1, <1>3, <2>1 DEF HeadsStay
<1>4. HeadsStay(q)
  BY <1>3 DEF HeadsStay
<1> QED BY <1>4 DEF q

LEMMA PreflightSplit ==
  /\ RunQualificationPreflight = PreflightFront \o PreflightRest
  /\ FrontOf(PreflightFront) /\ RestOf(PreflightRest)
<1> DEFINE c == CaptureRepository("note")
           p == ReadPackageIdentity("note")
           b == CollectQualificationBuildIdentity("note")
           w == DeterministicCommands
           d == CaptureRepository("same")
           e == CollectQualificationBuildIdentity("same")
<1>1. /\ c \in Seq(Careful) /\ Len(c) = 2 /\ HeadFirst(c)
      /\ ~IsHead(c[1]) /\ IsHead(c[2])
  BY CaptureIs DEF CaptureRepository
<1>2. d \in Seq(Repeated) /\ Confirms(d)
  BY CaptureIs DEF CaptureRepository
<1>3. p \in Seq(Careful) /\ Len(p) = 1 /\ Visits(p, Lock) /\ p[1].op = "read"
  BY OneRead, ArtifactsAre DEF ReadPackageIdentity, Styles, Lock
<1>4. /\ b \in Seq(Careful) /\ \A i \in 1 .. Len(b) : b[i].op = "read"
      /\ \A a \in Range(Artifacts) : Visits(b, a)
  BY BuildIs DEF Visits
<1>5. e \in Seq(Repeated) /\ \A a \in Range(Artifacts) : Visits(e, a)
  BY BuildIs DEF Visits
<1>6. d \in Seq(Careful) /\ e \in Seq(Careful)
  BY <1>2, <1>5, RepeatedIsCareful
<1>7. /\ PreflightFront = ((c \o p) \o b) \o w /\ PreflightRest = (d \o e) \o d
      /\ RunQualificationPreflight = ((((((c \o p) \o b) \o w) \o d) \o e) \o d)
  BY DEF PreflightFront, PreflightRest, RunQualificationPreflight
<1>14. w \in Seq(Careful) /\ \A i \in 1 .. Len(w) : w[i].op = "build"
  BY CommandsAre
<1> HIDE DEF c, p, b, d, e, w
<1> DEFINE cp == c \o p
           f0 == cp \o b
           f == f0 \o w
           de == d \o e
<1>8. /\ cp \in Seq(Careful) /\ Len(cp) = 3 /\ Len(b) \in Nat
      /\ ~IsHead(cp[1]) /\ IsHead(cp[2]) /\ cp[3].op = "read"
      /\ HeadFirst(cp) /\ Visits(cp, Lock)
  <2>1. cp \in Seq(Careful)
    BY <1>1, <1>3, Joined
  <2>3. HeadFirst(cp)
    BY <1>1, <1>3, JoinedKeeps
  <2>4. Visits(cp, Lock)
    BY <1>1, <1>3, JoinedKeeps
  <2>5. /\ Len(cp) = Len(c) + Len(p)
        /\ \A i \in 1 .. Len(c) : cp[i] = c[i]
        /\ \A i \in 1 .. Len(p) : cp[Len(c) + i] = p[i]
    <3>1. c \in Seq(Careful) /\ p \in Seq(Careful)
      BY <1>1, <1>3
    <3> QED BY ONLY <3>1, Joined
  <2> HIDE DEF cp
  <2>2. Len(cp) = 3 /\ cp[1] = c[1] /\ cp[2] = c[2] /\ cp[3] = p[1]
    <3>1. 1 \in 1 .. Len(c) /\ 2 \in 1 .. Len(c) /\ 1 \in 1 .. Len(p) /\ Len(c) + 1 = 3 /\ Len(c) + Len(p) = 3
      BY <1>1, <1>3
    <3> QED BY <2>5, <3>1
  <2> QED BY <1>1, <1>3, <1>4, <2>1, <2>2, <2>3, <2>4
<1>9. f0 \in Seq(Careful) /\ HeadFirst(f0) /\ Visits(f0, Lock) /\ \A a \in Range(Artifacts) : Visits(f0, a)
  BY <1>4, <1>8, Joined, JoinedKeeps
<1>10. HeadsStay(f0)
  <2>1. /\ Len(f0) = 3 + Len(b)
        /\ \A i \in 1 .. 3 : f0[i] = cp[i]
        /\ \A i \in 1 .. Len(b) : f0[3 + i] = b[i]
    <3> HIDE DEF cp
    <3>1. cp \in Seq(Careful) /\ b \in Seq(Careful)
      BY <1>4, <1>8
    <3>2. /\ Len(f0) = Len(cp) + Len(b)
          /\ \A i \in 1 .. Len(cp) : f0[i] = cp[i]
          /\ \A i \in 1 .. Len(b) : f0[Len(cp) + i] = b[i]
      BY ONLY <3>1, Joined
    <3> HIDE DEF f0
    <3> QED BY <1>8, <3>2
  <2> HIDE DEF f0, cp
  <2>2. ASSUME NEW i \in 1 .. Len(f0), IsHead(f0[i])
        PROVE  i = 2
    <3>1. CASE i <= 3
      <4>1. i \in {1, 2, 3}
        BY <3>1, <1>8, <2>1
      <4>2. ~IsHead(f0[1]) /\ ~IsHead(f0[3])
        BY <1>8, <2>1 DEF IsHead
      <4> QED BY <2>2, <4>1, <4>2
    <3>2. CASE ~(i <= 3)
      <4>1. i - 3 \in 1 .. Len(b) /\ 3 + (i - 3) = i
        BY <1>8, <2>1, <3>2
      <4>2. f0[i].op = "read"
        BY <1>4, <2>1, <4>1
      <4> QED BY <2>2, <4>2 DEF IsHead
    <3> QED BY <3>1, <3>2
  <2> QED BY <2>2 DEF HeadsStay
<1>15. f \in Seq(Careful) /\ HeadFirst(f) /\ Visits(f, Lock) /\ \A a \in Range(Artifacts) : Visits(f, a)
  <2> HIDE DEF f0
  <2> QED BY <1>9, <1>14, Joined, JoinedKeeps
<1>16. HeadsStay(f)
  <2> HIDE DEF f0
  <2>1. \A i \in 1 .. Len(w) : ~IsHead(w[i])
    BY <1>14 DEF IsHead
  <2> QED BY <1>9, <1>10, <1>14, <2>1, HeadsStayJoined
<1>11. /\ de \in Seq(Repeated) /\ de \in Seq(Careful)
       /\ Confirms(de) /\ \A a \in Range(Artifacts) : Visits(de, a)
  BY <1>2, <1>5, <1>6, Joined, JoinedKeeps
<1>12. /\ de \o d \in Seq(Repeated)
       /\ Confirms(de \o d) /\ \A a \in Range(Artifacts) : Visits(de \o d, a)
  BY <1>2, <1>11, Joined, JoinedKeeps
<1>13. ((f \o d) \o e) \o d = f \o (de \o d)
  <2> HIDE DEF f
  <2>1. (f \o d) \o e = f \o de
    <3>1. f \in Seq(Careful) /\ d \in Seq(Careful) /\ e \in Seq(Careful)
      BY <1>6, <1>15
    <3> QED BY ONLY <3>1, ConcatAssociative, SMTT(30)
  <2> HIDE DEF de
  <2>2. (f \o de) \o d = f \o (de \o d)
    <3>1. f \in Seq(Careful) /\ d \in Seq(Careful) /\ de \in Seq(Careful)
      BY <1>6, <1>11, <1>15
    <3> QED BY ONLY <3>1, ConcatAssociative, SMTT(30)
  <2> QED BY <2>1, <2>2
<1> QED BY <1>7, <1>12, <1>13, <1>15, <1>16 DEF FrontOf, RestOf

LEMMA VerifySplit ==
  /\ VerifyQualification("frozen-candidate") = VerifyFront \o VerifyRest
  /\ FrontOf(VerifyFront) /\ RestOf(VerifyRest)
<1> DEFINE x == VerifyStart
           r == <<Status({"clean", "batch"}), Commit("same")>>
           b == CollectQualificationBuildIdentity("same")
           z == (r \o b) \o r
           h == <<Commit("same")>>
           p == ReadPackageIdentity("same")
           s == h \o p
           t == AssertTerminalStable
<1>1. r \in Seq(Repeated) /\ HeadFirst(r) /\ Confirms(r) /\ ~Visits(r, Lock)
  BY CaptureIs
<1>2. b \in Seq(Repeated) /\ \A a \in Range(Artifacts) : Visits(b, a)
  BY BuildIs DEF Visits
<1>3. h \in Seq(Repeated)
  BY CommitIs
<1>4. p \in Seq(Repeated) /\ Visits(p, Lock)
  BY OneRead, ArtifactsAre DEF ReadPackageIdentity, Styles, Lock
<1>5. ASSUME NEW file \in {"manifest", "evidence"}
      PROVE  /\ <<Read(Immutable, file, "same")>> \in Seq(Repeated)
             /\ ~Visits(<<Read(Immutable, file, "same")>>, Lock)
  <2>1. file \in Files /\ file \notin Candidate /\ file # Lock
    BY CandidateAssumption DEF Files, Candidate, Tracked, Lock
  <2> QED BY <2>1, OneRead DEF Styles
<1> DEFINE m == <<Read(Immutable, "manifest", "same")>>
           e == <<Read(Immutable, "evidence", "same")>>
<1>6. /\ VerifyStart = (m \o m) \o e /\ AssertTerminalStable = m \o m
      /\ AssertQualificationFrozenCandidate = z /\ SnapshotFront = s
      /\ CollectQualificationCurrentSnapshot = (h \o p) \o b
  BY DEF VerifyStart, InspectQualificationTerminal, ValidateManifestEvidence, AssertTerminalStable,
         AssertQualificationFrozenCandidate, SnapshotFront, CollectQualificationCurrentSnapshot
<1>7. m \in Seq(Repeated) /\ e \in Seq(Repeated) /\ ~Visits(m, Lock) /\ ~Visits(e, Lock)
  BY <1>5
<1>8. /\ VerifyQualification("frozen-candidate") = (x \o ((z \o (s \o b)) \o z)) \o t
      /\ VerifyFront = x \o (z \o s) /\ VerifyRest = (b \o z) \o t
  <2>1. /\ VerifyQualification("frozen-candidate")
             = (VerifyStart \o ((AssertQualificationFrozenCandidate \o CollectQualificationCurrentSnapshot)
                                \o AssertQualificationFrozenCandidate)) \o AssertTerminalStable
        /\ VerifyFront = VerifyStart \o (AssertQualificationFrozenCandidate \o SnapshotFront)
        /\ VerifyRest = (b \o AssertQualificationFrozenCandidate) \o AssertTerminalStable
    <3> HIDE DEF m, e, r, z, h, p, s
    <3> QED BY DEF VerifyQualification, VerifyFront, VerifyRest, VerifyStart
  <2> HIDE DEF m, e, r, z, h, p, b
  <2> QED BY <1>6, <2>1
<1> HIDE DEF m, e, r, h, p, b
<1>9. z \in Seq(Repeated) /\ HeadFirst(z) /\ Confirms(z) /\ \A a \in Range(Artifacts) : Visits(z, a)
  <2>1. r \o b \in Seq(Repeated) /\ HeadFirst(r \o b) /\ Confirms(r \o b)
    BY <1>1, <1>2, Joined, JoinedKeeps
  <2>2. \A a \in Range(Artifacts) : Visits(r \o b, a)
    BY <1>1, <1>2, JoinedKeeps
  <2> DEFINE rb == r \o b
  <2> HIDE DEF rb
  <2> QED BY <1>1, <2>1, <2>2, Joined, JoinedKeeps DEF rb
<1>10. s \in Seq(Repeated) /\ Visits(s, Lock)
  BY <1>3, <1>4, Joined, JoinedKeeps
<1>11. t \in Seq(Repeated) /\ x \in Seq(Repeated) /\ ~Visits(x, Lock)
  <2>1. m \o m \in Seq(Repeated) /\ (m \o m) \o e \in Seq(Repeated)
    BY <1>7, Joined
  <2>2. ~Visits(m \o m, Lock)
    BY <1>7, JoinedKeeps
  <2>3. ~Visits((m \o m) \o e, Lock)
    <3> DEFINE mm == m \o m
    <3> HIDE DEF mm
    <3>1. mm \in Seq(Repeated) /\ ~Visits(mm, Lock)
      BY <2>1, <2>2 DEF mm
    <3>2. ~Visits(mm \o e, Lock)
      BY <1>7, <3>1, JoinedKeeps
    <3> QED BY <3>2 DEF mm
  <2> QED BY <1>6, <2>1, <2>3
<1>12. b \o z \in Seq(Repeated) /\ Confirms(b \o z) /\ \A a \in Range(Artifacts) : Visits(b \o z, a)
  <2> HIDE DEF z
  <2> QED BY <1>2, <1>9, Joined, JoinedKeeps
<1>13. z \o s \in Seq(Repeated) /\ HeadFirst(z \o s) /\ Visits(z \o s, Lock)
       /\ \A a \in Range(Artifacts) : Visits(z \o s, a)
  <2> HIDE DEF z, s
  <2> QED BY <1>9, <1>10, Joined, JoinedKeeps
<1>14. RestOf(VerifyRest)
  <2> DEFINE bz == b \o z
  <2>1. bz \in Seq(Repeated) /\ Confirms(bz) /\ \A a \in Range(Artifacts) : Visits(bz, a)
    BY <1>12
  <2>2. VerifyRest = bz \o t
    BY <1>8
  <2> HIDE DEF bz, t
  <2>3. bz \o t \in Seq(Repeated) /\ Confirms(bz \o t) /\ \A a \in Range(Artifacts) : Visits(bz \o t, a)
    BY <1>11, <2>1, Joined, JoinedKeeps
  <2> QED BY <2>2, <2>3 DEF RestOf
<1>15. FrontOf(VerifyFront)
  <2> DEFINE zs == z \o s
  <2>1. zs \in Seq(Repeated) /\ HeadFirst(zs) /\ Visits(zs, Lock) /\ \A a \in Range(Artifacts) : Visits(zs, a)
    BY <1>13
  <2>2. VerifyFront = x \o zs
    BY <1>8
  <2> HIDE DEF zs, x
  <2>3. x \o zs \in Seq(Repeated)
    BY <1>11, <2>1, Joined
  <2>4. HeadFirst(x \o zs)
    BY <1>11, <2>1, JoinedKeeps
  <2>5. Visits(x \o zs, Lock) /\ \A a \in Range(Artifacts) : Visits(x \o zs, a)
    BY <1>11, <2>1, JoinedKeeps
  <2> DEFINE f == x \o zs
  <2> HIDE DEF f
  <2>6. f \in Seq(Repeated)
    BY <2>3 DEF f
  <2>7. \A i \in 1 .. Len(f) : IsHead(f[i]) => f[i].as = "same"
    <3>1. \A i \in 1 .. Len(f) : f[i] \in Repeated
      BY <2>6
    <3> QED BY <3>1 DEF Repeated, IsHead
  <2> QED BY <2>2, <2>4, <2>5, <2>6, <2>7, RepeatedIsCareful DEF FrontOf, HeadsStay, f
<1>16. (x \o ((z \o (s \o b)) \o z)) \o t = (x \o (z \o s)) \o ((b \o z) \o t)
  <2> HIDE DEF x, z, s, t
  <2>1. z \o (s \o b) = (z \o s) \o b
    <3>1. z \in Seq(Repeated) /\ s \in Seq(Repeated) /\ b \in Seq(Repeated)
      BY <1>2, <1>9, <1>10
    <3> QED BY ONLY <3>1, ConcatAssociative, SMTT(30)
  <2> DEFINE zs == z \o s
             bz == b \o z
  <2>2. zs \in Seq(Repeated) /\ bz \in Seq(Repeated)
    BY <1>12, <1>13
  <2> HIDE DEF zs
  <2>3. (zs \o b) \o z = zs \o (b \o z)
    <3>1. zs \in Seq(Repeated) /\ b \in Seq(Repeated) /\ z \in Seq(Repeated)
      BY <1>2, <1>9, <2>2
    <3> QED BY ONLY <3>1, ConcatAssociative, SMTT(30)
  <2> HIDE DEF bz
  <2>4. x \o (zs \o bz) = (x \o zs) \o bz
    <3>1. x \in Seq(Repeated) /\ zs \in Seq(Repeated) /\ bz \in Seq(Repeated)
      BY <1>11, <2>2
    <3> QED BY ONLY <3>1, ConcatAssociative, SMTT(30)
  <2> DEFINE xz == x \o zs
  <2>5. xz \in Seq(Repeated)
    BY <1>11, <2>2, Joined
  <2> HIDE DEF xz
  <2>6. (xz \o bz) \o t = xz \o (bz \o t)
    <3>1. xz \in Seq(Repeated) /\ bz \in Seq(Repeated) /\ t \in Seq(Repeated)
      BY <1>11, <2>2, <2>5
    <3> QED BY ONLY <3>1, ConcatAssociative, SMTT(30)
  <2> QED BY <2>1, <2>3, <2>4, <2>6 DEF zs, bz, xz
<1> QED BY <1>8, <1>14, <1>15, <1>16

-----------------------------------------------------------------------------
(* What is left of a program *)

Rest(task) == IF task = "preflight" THEN Len(PreflightRest) ELSE Len(VerifyRest)

(* The last b questions ask for what is noted already, for every artifact,   *)
(* and for the status and then the head.                                    *)
Plan(q, b) ==
  /\ q \in Seq(Careful) /\ HeadsStay(q)
  /\ \A i \in 1 .. Len(q) : i > Len(q) - b => q[i] \in Repeated
  /\ Len(q) >= b =>
       /\ \A a \in Range(Artifacts) : \E i \in 1 .. Len(q) : i > Len(q) - b /\ ReadsFile(q[i], a)
       /\ \E i, j \in 1 .. Len(q) : i > Len(q) - b /\ i < j /\ q[i].op = "status" /\ IsHead(q[j])

(* A file is still to be read before the last b questions.                   *)
Ahead(q, b, file) == \E i \in 1 .. (Len(q) - b) : ReadsFile(q[i], file)

LEMMA PlanJoined ==
  ASSUME NEW f, NEW r, FrontOf(f), RestOf(r)
  PROVE  /\ Plan(f \o r, Len(r)) /\ Len(r) \in Nat \ {0}
         /\ \A a \in Candidate : Ahead(f \o r, Len(r), a)
         /\ HeadFirst(f \o r)
<1> DEFINE q == f \o r
           n == Len(f)
           b == Len(r)
<1>1. f \in Seq(Careful) /\ r \in Seq(Repeated) /\ r \in Seq(Careful)
  BY RepeatedIsCareful DEF FrontOf, RestOf
<1>2. q \in Seq(Careful) /\ HeadFirst(q)
  BY <1>1, Joined, JoinedKeeps DEF FrontOf
<1>3. /\ Len(q) = n + b
      /\ \A i \in 1 .. n : q[i] = f[i]
      /\ \A i \in 1 .. b : q[n + i] = r[i]
  BY ONLY <1>1, Joined
<1>4. n \in Nat /\ b \in Nat
  BY <1>1, LenProperties
<1>5. b # 0
  BY <1>4 DEF RestOf, Confirms
<1> HIDE DEF q
<1>6. \A i \in 1 .. b : r[i] \in Repeated
  BY <1>1
<1>7. ASSUME NEW i \in 1 .. Len(q), i > Len(q) - b
      PROVE  q[i] \in Repeated
  <2>1. i - n \in 1 .. b /\ n + (i - n) = i
    BY <1>3, <1>4, <1>7
  <2> QED BY <1>3, <1>6, <2>1
<1>8. HeadsStay(q)
  <2> SUFFICES ASSUME NEW i \in 1 .. Len(q), NEW j \in 1 .. Len(q), i < j, IsHead(q[i]), IsHead(q[j])
               PROVE  q[j].as = "same"
    BY DEF HeadsStay
  <2>1. CASE j > n
    <3>1. q[j] \in Repeated
      BY <1>3, <1>4, <1>7, <2>1
    <3> QED BY <3>1 DEF Repeated, IsHead
  <2>2. CASE ~(j > n)
    <3>1. i \in 1 .. n /\ j \in 1 .. n
      BY <1>3, <1>4, <2>2
    <3>2. HeadsStay(f)
      BY DEF FrontOf
    <3> QED BY <1>3, <3>1, <3>2 DEF HeadsStay
  <2> QED BY <2>1, <2>2
<1>9. \A i \in 1 .. b : n + i \in 1 .. Len(q) /\ n + i > Len(q) - b
  BY <1>3, <1>4
<1>10. ASSUME NEW a \in Range(Artifacts)
       PROVE  \E i \in 1 .. Len(q) : i > Len(q) - b /\ ReadsFile(q[i], a)
  <2>1. PICK i \in 1 .. b : ReadsFile(r[i], a)
    BY DEF RestOf, Visits
  <2>2. ReadsFile(q[n + i], a)
    BY <1>3, <2>1
  <2> QED BY <1>9, <2>2
<1>11. \E i, j \in 1 .. Len(q) : i > Len(q) - b /\ i < j /\ q[i].op = "status" /\ IsHead(q[j])
  <2>1. PICK i \in 1 .. b, j \in 1 .. b : i < j /\ r[i].op = "status" /\ IsHead(r[j])
    BY DEF RestOf, Confirms
  <2>2. q[n + i].op = "status" /\ IsHead(q[n + j]) /\ n + i < n + j
    BY <1>3, <1>4, <2>1
  <2> QED BY <1>9, <2>2
<1>12. ASSUME NEW a \in Candidate
       PROVE  Ahead(q, b, a)
  <2>1. Visits(f, a)
    BY DEF FrontOf, Candidate, Tracked, Lock
  <2>2. PICK i \in 1 .. n : ReadsFile(f[i], a)
    BY <2>1 DEF Visits
  <2>3. Len(q) - b = n
    BY <1>3, <1>4
  <2> QED BY <1>3, <2>2, <2>3 DEF Ahead
<1>13. Plan(q, b)
  BY <1>2, <1>7, <1>8, <1>10, <1>11 DEF Plan
<1> QED BY <1>2, <1>4, <1>5, <1>12, <1>13 DEF q

LEMMA PlanStart ==
  ASSUME NEW task \in Freezing
  PROVE  /\ Plan(Program(task), Rest(task)) /\ Rest(task) \in Nat \ {0}
         /\ \A a \in Candidate : Ahead(Program(task), Rest(task), a)
         /\ HeadFirst(Program(task))
<1>1. CASE task = "preflight"
  <2>1. Program(task) = PreflightFront \o PreflightRest /\ Rest(task) = Len(PreflightRest)
    BY <1>1, PreflightSplit DEF Program, Rest
  <2> QED BY <2>1, PreflightSplit, PlanJoined
<1>2. CASE task = "verify"
  <2>1. Program(task) = VerifyFront \o VerifyRest /\ Rest(task) = Len(VerifyRest)
    BY <1>2, VerifySplit DEF Program, Rest
  <2> QED BY <2>1, VerifySplit, PlanJoined
<1> QED BY <1>1, <1>2 DEF Freezing

(* A program goes on with the next question.                                 *)
LEMMA PlanGoesOn ==
  ASSUME NEW q, NEW b \in Nat \ {0}, Plan(q, b), q # <<>>
  PROVE  /\ Plan(Tail(q), b) /\ Len(Tail(q)) = Len(q) - 1
         /\ \A a : Ahead(q, b, a) /\ ~ReadsFile(q[1], a) => Ahead(Tail(q), b, a)
         /\ HeadFirst(q) /\ ~IsHead(q[1]) => HeadFirst(Tail(q))
         /\ IsHead(q[1]) => \A i \in 1 .. Len(Tail(q)) : IsHead(Tail(q)[i]) => Tail(q)[i].as = "same"
         /\ \A a : Visits(q, a) /\ ~ReadsFile(q[1], a) => Visits(Tail(q), a)
<1> DEFINE t == Tail(q)
<1>1. q \in Seq(Careful) /\ Len(q) \in Nat /\ Len(q) > 0
  BY EmptySeq, LenProperties DEF Plan
<1>2. t \in Seq(Careful) /\ Len(t) = Len(q) - 1 /\ \A i \in 1 .. Len(t) : t[i] = q[i + 1]
  BY <1>1
<1> HIDE DEF t
<1>3. /\ \A i \in 1 .. Len(t) : i + 1 \in 1 .. Len(q)
      /\ \A i \in 1 .. Len(q) : i # 1 => i - 1 \in 1 .. Len(t) /\ t[i - 1] = q[i]
  BY <1>1, <1>2
<1>4. HeadsStay(t)
  <2>1. HeadsStay(q)
    BY DEF Plan
  <2>2. ASSUME NEW i \in 1 .. Len(t), NEW j \in 1 .. Len(t), i < j, IsHead(t[i]), IsHead(t[j])
        PROVE  t[j].as = "same"
    <3>1. i + 1 \in 1 .. Len(q) /\ j + 1 \in 1 .. Len(q) /\ i + 1 < j + 1 /\ IsHead(q[i + 1]) /\ IsHead(q[j + 1])
      BY <1>2, <1>3, <2>2
    <3>2. q[j + 1].as = "same"
      BY <2>1, <3>1 DEF HeadsStay
    <3> QED BY <1>2, <3>2
  <2> QED BY <2>2 DEF HeadsStay
<1>5. ASSUME NEW i \in 1 .. Len(t), i > Len(t) - b
      PROVE  t[i] \in Repeated
  <2>1. i + 1 \in 1 .. Len(q) /\ i + 1 > Len(q) - b
    BY <1>1, <1>2, <1>5
  <2> QED BY <1>2, <2>1 DEF Plan
<1>6. ASSUME Len(t) >= b
      PROVE  /\ \A a \in Range(Artifacts) : \E i \in 1 .. Len(t) : i > Len(t) - b /\ ReadsFile(t[i], a)
             /\ \E i, j \in 1 .. Len(t) : i > Len(t) - b /\ i < j /\ t[i].op = "status" /\ IsHead(t[j])
  <2>1. Len(q) >= b /\ Len(q) - b >= 1
    BY <1>1, <1>2, <1>6
  <2>2. \A i \in 1 .. Len(q) : i > Len(q) - b => i # 1 /\ i - 1 > Len(t) - b
    BY <1>1, <1>2, <2>1
  <2>3. ASSUME NEW a \in Range(Artifacts)
        PROVE  \E i \in 1 .. Len(t) : i > Len(t) - b /\ ReadsFile(t[i], a)
    <3>1. PICK i \in 1 .. Len(q) : i > Len(q) - b /\ ReadsFile(q[i], a)
      BY <2>1 DEF Plan
    <3> QED BY <1>3, <2>2, <3>1
  <2>4. PICK i \in 1 .. Len(q), j \in 1 .. Len(q) :
          i > Len(q) - b /\ i < j /\ q[i].op = "status" /\ IsHead(q[j])
    BY <2>1 DEF Plan
  <2>5. i # 1 /\ j # 1 /\ i - 1 < j - 1
    BY <2>2, <2>4
  <2> QED BY <1>3, <2>2, <2>3, <2>4, <2>5
<1>7. ASSUME NEW a, Ahead(q, b, a), ~ReadsFile(q[1], a)
      PROVE  Ahead(t, b, a)
  <2>1. PICK i \in 1 .. (Len(q) - b) : ReadsFile(q[i], a)
    BY <1>7 DEF Ahead
  <2>2. i # 1 /\ i \in 1 .. Len(q) /\ i - 1 \in 1 .. (Len(t) - b)
    BY <1>1, <1>2, <1>7, <2>1
  <2> QED BY <1>3, <2>1, <2>2 DEF Ahead
<1>8. ASSUME HeadFirst(q), ~IsHead(q[1])
      PROVE  HeadFirst(t)
  <2>1. PICK i \in 1 .. Len(q) : IsHead(q[i]) /\ \A j \in 1 .. i : ~ReadsFile(q[j], Lock)
    BY <1>8 DEF HeadFirst
  <2>2. i # 1 /\ i - 1 \in 1 .. Len(t) /\ t[i - 1] = q[i]
    BY <1>3, <1>8, <2>1
  <2>3. ASSUME NEW j \in 1 .. (i - 1) PROVE ~ReadsFile(t[j], Lock)
    <3>1. j + 1 \in 1 .. i /\ j \in 1 .. Len(t)
      BY <1>1, <1>2, <2>2
    <3> QED BY <1>2, <2>1, <3>1
  <2> QED BY <2>1, <2>2, <2>3 DEF HeadFirst
<1>9. ASSUME IsHead(q[1]), NEW i \in 1 .. Len(t), IsHead(t[i])
      PROVE  t[i].as = "same"
  <2>1. 1 \in 1 .. Len(q) /\ i + 1 \in 1 .. Len(q) /\ 1 < i + 1
    BY <1>1, <1>3
  <2> QED BY <1>2, <1>9, <2>1 DEF Plan, HeadsStay
<1>10. ASSUME NEW a, Visits(q, a), ~ReadsFile(q[1], a)
       PROVE  Visits(t, a)
  BY <1>3, <1>10 DEF Visits
<1>11. Plan(t, b)
  BY <1>2, <1>4, <1>5, <1>6 DEF Plan
<1> QED BY <1>2, <1>7, <1>8, <1>9, <1>10, <1>11 DEF t

(* The status and then the head are still to be asked, or were just.         *)
LEMMA ConfirmsGoesOn ==
  ASSUME NEW S, NEW q \in Seq(S), q # <<>>, Confirms(q)
  PROVE  /\ q[1].op # "status" => Confirms(Tail(q))
         /\ \E i \in 1 .. Len(Tail(q)) : IsHead(Tail(q)[i])
<1> DEFINE t == Tail(q)
<1>1. PICK i \in 1 .. Len(q), j \in 1 .. Len(q) : i < j /\ q[i].op = "status" /\ IsHead(q[j])
  BY DEF Confirms
<1>2. Len(q) \in Nat /\ Len(q) > 0
  BY EmptySeq, LenProperties
<1>3. Len(t) = Len(q) - 1 /\ \A k \in 1 .. Len(t) : t[k] = q[k + 1]
  BY <1>2
<1> HIDE DEF t
<1>4. j - 1 \in 1 .. Len(t) /\ t[j - 1] = q[j]
  <2>1. j - 1 \in 1 .. Len(t) /\ (j - 1) + 1 = j
    BY <1>1, <1>2, <1>3
  <2> QED BY <1>3, <2>1
<1>5. ASSUME q[1].op # "status" PROVE Confirms(t)
  <2>1. i - 1 \in 1 .. Len(t) /\ (i - 1) + 1 = i /\ i - 1 < j - 1
    BY <1>1, <1>2, <1>3, <1>5
  <2>2. t[i - 1] = q[i]
    BY <1>3, <2>1
  <2> QED BY <1>1, <1>4, <2>1, <2>2 DEF Confirms
<1> QED BY <1>1, <1>4, <1>5 DEF t

-----------------------------------------------------------------------------
(* What the others do *)

EntryKinds == {"file", "link", "missing"}
Fields == [kind : EntryKinds, inode : Nat]
WorldOK ==
  /\ writes \in 0 .. MaxWrites
  /\ disk \in Seq(Seq(Blocks))
  /\ path \in [Files -> Fields]
  /\ \A f \in Files : path[f].inode \in 0 .. Len(disk)
  /\ \A f \in Files : path[f].kind # "missing" => path[f].inode # 0
  /\ \A f, g \in Files : f # g /\ path[f].inode = path[g].inode => path[f].inode = 0
  /\ tree \in [head : Nat, state : Trees]

(* A step after which the files but one are what they were: the one behind   *)
(* an inode, or none, was written in place, and no path leads to another    *)
(* file that was there.                                                     *)
DiskKeeps(n) ==
  /\ n \in 0 .. Len(disk) /\ Len(disk) <= Len(disk')
  /\ \A k \in 1 .. Len(disk) : k # n => disk'[k] = disk[k]
PathMoves(n) ==
  /\ n # 0 => path' = path /\ \E g \in Files : path[g].kind = "file" /\ path[g].inode = n
  /\ \A g \in Files : \/ path'[g].inode = path[g].inode
                      \/ path'[g].inode = 0 \/ path'[g].inode > Len(disk)

WorldStep(n) ==
  /\ Underway /\ UNCHANGED reader /\ Watch(n) /\ StatusIsTrue
  /\ WorldOK' /\ DiskKeeps(n) /\ PathMoves(n)

(* What a write in place leaves of a file.                                   *)
Written(d, e) ==
  \/ \E i \in DOMAIN d, v \in Blocks : e = [d EXCEPT ![i] = v]
  \/ \E v \in Blocks : e = Append(d, v)
  \/ \E n \in 0 .. (Len(d) - 1) : e = SubSeq(d, 1, n)

LEMMA WrittenIs ==
  ASSUME NEW d \in Seq(Blocks), NEW e, Written(d, e)
  PROVE  e \in Seq(Blocks)
<1>1. CASE \E i \in DOMAIN d, v \in Blocks : e = [d EXCEPT ![i] = v]
  <2>1. PICK i \in DOMAIN d, v \in Blocks : e = [d EXCEPT ![i] = v]
    BY <1>1
  <2>2. i \in 1 .. Len(d)
    BY <2>1
  <2> QED BY ONLY d \in Seq(Blocks), <2>1, <2>2, ExceptSeq
<1>2. CASE \E v \in Blocks : e = Append(d, v)
  BY <1>2
<1>3. CASE \E n \in 0 .. (Len(d) - 1) : e = SubSeq(d, 1, n)
  BY <1>3
<1> QED BY <1>1, <1>2, <1>3 DEF Written

(* A tree that was touched is one that there can be.                         *)
LEMMA TouchedIs ==
  ASSUME tree \in [head : Nat, state : Trees], NEW file, Touches(file)
  PROVE  tree' \in [head : Nat, state : Trees] /\ StatusIsTrue
BY DEF Touches

(* The paths, when one of them leads elsewhere.                              *)
LEMMA PathSet ==
  ASSUME NEW f \in Files, NEW r \in Fields, WorldOK, path' = [path EXCEPT ![f] = r]
  PROVE  /\ path' \in [Files -> Fields] /\ path'[f] = r
         /\ \A g \in Files : g # f => path'[g] = path[g]
BY DEF WorldOK

LEMMA WriteSteps ==
  ASSUME WorldOK, NEW file \in Files, WriteInPlace(file)
  PROVE  WorldStep(path[file].inode)
<1> DEFINE n == path[file].inode
<1>1. /\ path[file].kind = "file" /\ Underway /\ writes < MaxWrites /\ writes' = writes + 1
      /\ UNCHANGED reader /\ Touches(file) /\ UNCHANGED path /\ Watch(n)
  BY DEF WriteInPlace, Acts
<1>2. n \in 1 .. Len(disk) /\ Len(disk) \in Nat /\ DOMAIN disk = 1 .. Len(disk) /\ writes \in Nat /\ MaxWrites \in Nat
  BY <1>1, CandidateAssumption DEF WorldOK
<1>3. disk[n] \in Seq(Blocks)
  <2>1. disk \in Seq(Seq(Blocks))
    BY DEF WorldOK
  <2> QED BY <1>2, <2>1, ElementOfSeq
<1>4. PICK e : disk' = [disk EXCEPT ![n] = e] /\ Written(disk[n], e)
  <2>1. \/ \E i \in DOMAIN disk[n], block \in Blocks : disk' = [disk EXCEPT ![n] = [disk[n] EXCEPT ![i] = block]]
        \/ \E block \in Blocks : disk' = [disk EXCEPT ![n] = Append(disk[n], block)]
        \/ \E m \in 0 .. (Len(disk[n]) - 1) : disk' = [disk EXCEPT ![n] = SubSeq(disk[n], 1, m)]
    BY DEF WriteInPlace, Size
  <2> QED BY <2>1 DEF Written
<1> HIDE DEF n
<1>5. e \in Seq(Blocks)
  BY <1>3, <1>4, WrittenIs
<1>6. /\ Len(disk') = Len(disk) /\ disk' \in Seq(Seq(Blocks))
      /\ \A k \in 1 .. Len(disk) : k # n => disk'[k] = disk[k]
  <2>1. disk \in Seq(Seq(Blocks))
    BY DEF WorldOK
  <2> QED BY <1>2, <1>4, <1>5, <2>1, ExceptSeq
<1>7. tree' \in [head : Nat, state : Trees] /\ StatusIsTrue
  BY <1>1, TouchedIs DEF WorldOK
<1>8. WorldOK'
  BY <1>1, <1>2, <1>6, <1>7 DEF WorldOK
<1>9. DiskKeeps(n)
  BY <1>2, <1>6 DEF DiskKeeps
<1>10. PathMoves(n)
  BY <1>1 DEF PathMoves, n
<1> QED BY <1>1, <1>7, <1>8, <1>9, <1>10 DEF WorldStep, n

(* A path leads elsewhere: to a new file, to what it led to, or nowhere.     *)
Elsewhere(f, r) ==
  /\ path' = [path EXCEPT ![f] = r]
  /\ \/ disk' = disk /\ \/ r.kind = "missing" /\ r.inode = 0
                        \/ r.kind # "missing" /\ r.inode = path[f].inode /\ r.inode # 0
     \/ /\ r.kind = "file" /\ r.inode = Len(disk) + 1
        /\ \E blocks \in Seq(Blocks) : disk' = Append(disk, blocks)

LEMMA ElsewhereIs ==
  ASSUME WorldOK, NEW f \in Files, NEW r \in Fields, Elsewhere(f, r),
         writes' \in 0 .. MaxWrites, tree' \in [head : Nat, state : Trees]
  PROVE  /\ WorldOK' /\ DiskKeeps(0) /\ PathMoves(0)
         /\ path'[f] = r /\ \A g \in Files : g # f => path'[g] = path[g]
<1>1. Len(disk) \in Nat /\ path' = [path EXCEPT ![f] = r]
  BY DEF WorldOK, Elsewhere
<1>2. path' \in [Files -> Fields] /\ path'[f] = r /\ \A g \in Files : g # f => path'[g] = path[g]
  BY <1>1, PathSet
<1>3. /\ disk' \in Seq(Seq(Blocks)) /\ Len(disk) <= Len(disk')
      /\ \A k \in 1 .. Len(disk) : disk'[k] = disk[k]
      /\ r.inode \in 0 .. Len(disk')
      /\ r.inode = 0 \/ r.inode = path[f].inode \/ r.inode = Len(disk) + 1
      /\ r.kind # "missing" => r.inode # 0
  <2>1. CASE disk' = disk
    BY <1>1, <2>1 DEF WorldOK, Elsewhere
  <2>2. CASE /\ r.kind = "file" /\ r.inode = Len(disk) + 1
             /\ \E blocks \in Seq(Blocks) : disk' = Append(disk, blocks)
    <3>1. PICK e \in Seq(Blocks) : disk' = Append(disk, e)
      BY <2>2
    <3>2. /\ disk' \in Seq(Seq(Blocks)) /\ Len(disk') = Len(disk) + 1
          /\ \A k \in 1 .. Len(disk) : disk'[k] = disk[k]
      BY <1>1, <3>1 DEF WorldOK
    <3> QED BY <1>1, <2>2, <3>2
  <2> QED BY <2>1, <2>2 DEF Elsewhere
<1>4. Len(disk') \in Nat
  BY <1>3, LenProperties
<1>5. DiskKeeps(0)
  BY <1>1, <1>3, <1>4 DEF DiskKeeps
<1>6. PathMoves(0)
  BY <1>1, <1>2, <1>3 DEF PathMoves
<1>7. \A g \in Files : path'[g].inode \in 0 .. Len(disk')
  BY <1>1, <1>2, <1>3, <1>4 DEF WorldOK
<1>8. \A g \in Files : path'[g].kind # "missing" => path'[g].inode # 0
  BY <1>2, <1>3 DEF WorldOK
<1>9. \A g, h \in Files : g # h /\ path'[g].inode = path'[h].inode => path'[g].inode = 0
  <2>1. \A g \in Files : path[g].inode # Len(disk) + 1
    BY <1>1 DEF WorldOK
  <2>2. \A g, h \in Files : g # h /\ path[g].inode = path[h].inode => path[g].inode = 0
    BY DEF WorldOK
  <2>3. r.inode = 0 \/ r.inode = path[f].inode \/ \A g \in Files : path[g].inode # r.inode
    BY <1>3, <2>1
  <2>4. ASSUME NEW g \in Files, g # f, path[g].inode = r.inode
        PROVE  r.inode = 0
    BY <2>2, <2>3, <2>4
  <2>5. ASSUME NEW g \in Files, NEW h \in Files, g # h, path'[g].inode = path'[h].inode
        PROVE  path'[g].inode = 0
    <3>1. CASE g = f
      <4>1. path'[g] = r /\ path'[h] = path[h] /\ h # f
        BY <1>2, <2>5, <3>1
      <4> QED BY <2>4, <2>5, <4>1
    <3>2. CASE h = f
      <4>1. path'[h] = r /\ path'[g] = path[g] /\ g # f
        BY <1>2, <2>5, <3>2
      <4> QED BY <2>4, <2>5, <4>1
    <3>3. CASE g # f /\ h # f
      <4>1. path'[g] = path[g] /\ path'[h] = path[h]
        BY <1>2, <3>3
      <4> QED BY <2>2, <2>5, <4>1
    <3> QED BY <3>1, <3>2, <3>3
  <2> QED BY <2>5
<1>10. WorldOK'
  BY <1>2, <1>3, <1>7, <1>8, <1>9 DEF WorldOK
<1> QED BY <1>2, <1>5, <1>6, <1>10

LEMMA NewFileIs ==
  ASSUME WorldOK, NEW f \in Files, NEW blocks \in NewContents, NewFile(f, blocks)
  PROVE  \E r \in Fields : Elsewhere(f, r)
<1> DEFINE r == [kind |-> "file", inode |-> Len(disk) + 1]
<1>1. r \in Fields /\ r.kind = "file" /\ r.inode = Len(disk) + 1
  BY DEF WorldOK, Fields, EntryKinds
<1>2. path' = [path EXCEPT ![f] = r] /\ disk' = Append(disk, blocks) /\ blocks \in Seq(Blocks)
  BY CandidateAssumption DEF NewFile
<1> HIDE DEF r
<1> QED BY <1>1, <1>2 DEF Elsewhere

LEMMA ActsIs ==
  ASSUME WorldOK, Acts
  PROVE  Underway /\ UNCHANGED reader /\ writes' \in 0 .. MaxWrites
BY CandidateAssumption DEF Acts, WorldOK

LEMMA ElsewhereSteps ==
  ASSUME WorldOK, Acts, Watch(0), StatusIsTrue, NEW f \in Files, \E r \in Fields : Elsewhere(f, r),
         tree' \in [head : Nat, state : Trees]
  PROVE  WorldStep(0)
BY ActsIs, ElsewhereIs DEF WorldStep

LEMMA StillSteps ==
  ASSUME WorldOK, Acts, Watch(0), StatusIsTrue, UNCHANGED <<disk, path>>,
         tree' \in [head : Nat, state : Trees]
  PROVE  WorldStep(0)
<1>1. Underway /\ UNCHANGED reader /\ writes' \in 0 .. MaxWrites
  BY ActsIs
<1>2. WorldOK'
  BY <1>1 DEF WorldOK
<1>3. DiskKeeps(0) /\ PathMoves(0)
  BY DEF DiskKeeps, PathMoves, WorldOK
<1> QED BY <1>1, <1>2, <1>3 DEF WorldStep

LEMMA ReplaceSteps ==
  ASSUME WorldOK, NEW file \in Files, Replace(file)
  PROVE  WorldStep(0)
<1>1. Acts /\ Touches(file) /\ Watch(0)
  BY DEF Replace
<1>2. tree' \in [head : Nat, state : Trees] /\ StatusIsTrue
  BY <1>1, TouchedIs DEF WorldOK
<1>3. CASE \E blocks \in NewContents : NewFile(file, blocks)
  BY <1>1, <1>2, <1>3, NewFileIs, ElsewhereSteps
<1>4. CASE /\ path[file].kind # "missing" /\ UNCHANGED disk
           /\ path' = [path EXCEPT ![file].kind = IF @ = "file" THEN "link" ELSE "file"]
  <2> DEFINE r == [path[file] EXCEPT !.kind = IF @ = "file" THEN "link" ELSE "file"]
  <2>1. path' = [path EXCEPT ![file] = r]
    BY <1>4
  <2>2. path[file] \in Fields /\ path[file].inode # 0
    BY <1>4 DEF WorldOK
  <2>3. r \in Fields /\ r.kind # "missing" /\ r.inode = path[file].inode
    BY <2>2 DEF Fields, EntryKinds
  <2> HIDE DEF r
  <2>4. Elsewhere(file, r)
    BY <1>4, <2>1, <2>2, <2>3 DEF Elsewhere
  <2> QED BY <1>1, <1>2, <2>3, <2>4, ElsewhereSteps
<1>5. CASE path' = [path EXCEPT ![file] = Nowhere] /\ UNCHANGED disk
  <2>1. Nowhere \in Fields /\ Nowhere.kind = "missing" /\ Nowhere.inode = 0
    BY DEF Nowhere, Fields, EntryKinds
  <2>2. Elsewhere(file, Nowhere)
    BY <1>5, <2>1 DEF Elsewhere
  <2> QED BY <1>1, <1>2, <2>1, <2>2, ElsewhereSteps
<1> QED BY <1>3, <1>4, <1>5 DEF Replace

LEMMA CheckoutSteps ==
  ASSUME WorldOK, Checkout
  PROVE  WorldStep(0)
<1>1. Acts /\ Watch(0) /\ StatusIsTrue
  BY DEF Checkout
<1>2. tree' \in [head : Nat, state : Trees]
  <2>1. PICK head \in 0 .. (writes + 1), state \in {"clean", "dirty"} :
          tree' = [head |-> head, state |-> state]
    BY DEF Checkout
  <2>2. head \in Nat /\ state \in Trees
    BY DEF WorldOK, Trees
  <2> QED BY <2>1, <2>2
<1>3. CASE UNCHANGED <<disk, path>>
  BY <1>1, <1>2, <1>3, StillSteps
<1>4. CASE \E blocks \in NewContents : NewFile("package-lock", blocks)
  <2>1. Lock \in Files
    BY ArtifactsAre
  <2> QED BY <1>1, <1>2, <1>4, <2>1, NewFileIs, ElsewhereSteps DEF Lock
<1> QED BY <1>3, <1>4 DEF Checkout

LEMMA LitterSteps ==
  ASSUME WorldOK, Litter
  PROVE  WorldStep(0)
<1>1. Acts /\ Watch(0) /\ StatusIsTrue /\ UNCHANGED <<disk, path>>
  BY DEF Litter
<1>2. tree' \in [head : Nat, state : Trees]
  BY DEF Litter, WorldOK
<1> QED BY <1>1, <1>2, StillSteps

-----------------------------------------------------------------------------
(* All the programs ask questions about the files there are.                 *)
LEMMA ProgramAsks ==
  ASSUME NEW task \in Tasks
  PROVE  Program(task) \in Seq(Question) /\ Program(task) # <<>>
<1>1. Seq(Careful) \subseteq Seq(Question)
  <2>1. Careful \subseteq Question
    BY DEF Careful
  <2> QED BY <2>1, SeqMonotonic
<1>2. CASE task \in Freezing
  <2>1. Plan(Program(task), Rest(task)) /\ HeadFirst(Program(task))
    BY <1>2, PlanStart
  <2>2. Program(task) \in Seq(Careful) /\ Len(Program(task)) # 0
    BY <2>1 DEF Plan, HeadFirst
  <2> QED BY <1>1, <2>2
<1>3. CASE task \notin Freezing
  <2>1. ASSUME NEW style \in Styles, NEW file \in Files
        PROVE  <<Read(style, file, "same")>> \in Seq(Question) /\ Len(<<Read(style, file, "same")>>) = 1
    <3>1. Read(style, file, "same") \in Question
      BY ReadIs
    <3> QED BY <3>1
  <2> DEFINE m == <<Read(Immutable, "manifest", "same")>>
             e == <<Read(Immutable, "evidence", "same")>>
             p == <<Read(Plain, "package-lock", "same")>>
             q == <<Read(Plain, "manifest", "same"), Read(Plain, "evidence", "same")>>
             r == <<Read(Bounded, "result", "same")>>
  <2>2. {"manifest", "evidence", "result", "package-lock"} \subseteq Files /\ {Immutable, Plain, Bounded} \subseteq Styles
    BY DEF Files, Candidate, Tracked, Styles
  <2>3. /\ m \in Seq(Question) /\ e \in Seq(Question) /\ p \in Seq(Question) /\ r \in Seq(Question)
        /\ Len(p) = 1 /\ Len(r) = 1
    BY <2>1, <2>2
  <2>4. q \in Seq(Question)
    <3>1. Read(Plain, "manifest", "same") \in Question /\ Read(Plain, "evidence", "same") \in Question
      BY <2>2, ReadIs
    <3> QED BY <3>1
  <2>5. task \in {"result", "index"}
    BY <1>3, CandidateAssumption DEF Freezing
  <2>6. CASE task = "result"
    <3>1. Program(task) = r
      BY <2>6 DEF Program, InspectResultFile
    <3> QED BY <2>3, <3>1
  <2>7. CASE task = "index"
    <3> DEFINE x == (m \o m) \o e
               t == m \o m
               v == (x \o <<>>) \o t
    <3>1. VerifyQualification("immutable-evidence") = v
      BY DEF VerifyQualification, InspectQualificationTerminal, ValidateManifestEvidence, AssertTerminalStable
    <3>2. Program(task) = p \o (v \o q)
      BY <2>7, <3>1 DEF Program, AnalyzeCapabilityIndex, CollectCapabilityRuntimeInputs, VerifyBatchCapabilityEvidence
    <3> HIDE DEF m, e, p, q
    <3>3. t \in Seq(Question)
      BY <2>3, Joined
    <3>4. x \in Seq(Question)
      <4> HIDE DEF t
      <4>1. t \o e \in Seq(Question)
        BY <2>3, <3>3, Joined
      <4> QED BY <4>1 DEF t
    <3> HIDE DEF x, t
    <3>5. v \in Seq(Question)
      <4>1. x \o <<>> = x
        BY <3>4, ConcatEmptySeq
      <4> QED BY <3>3, <3>4, <4>1, Joined
    <3> HIDE DEF v
    <3>6. v \o q \in Seq(Question)
      BY <2>4, <3>5, Joined
    <3> DEFINE w == v \o q
    <3>7. w \in Seq(Question) /\ Program(task) = p \o w
      BY <3>2, <3>6
    <3> HIDE DEF w
    <3>8. p \o w \in Seq(Question) /\ Len(p \o w) = 1 + Len(w) /\ Len(w) \in Nat
      <4>1. p \in Seq(Question) /\ w \in Seq(Question) /\ Len(p) = 1
        BY <2>3, <3>7
      <4>2. p \o w \in Seq(Question) /\ Len(p \o w) = Len(p) + Len(w)
        BY ONLY <4>1, Joined
      <4>3. Len(w) \in Nat
        BY <4>1, LenProperties
      <4> QED BY <4>1, <4>2, <4>3
    <3>9. Len(Program(task)) # 0
      BY <3>7, <3>8
    <3> QED BY <3>7, <3>8, <3>9
  <2> QED BY <2>5, <2>6, <2>7
<1> QED BY <1>2, <1>3

-----------------------------------------------------------------------------
(* The reader *)

Steps == {"look", "open", "opened", "read", "after", "again"}
Verdicts == {"running", "accepted", "refused"}
Stats == [inode : Nat, size : Nat]
FileFields == [step : Steps, seen : Stats, handle : Nat, got : Seq(Nat)]
LogFields == [head : Nat, of : [Files -> Seq(Nat)]]
ReaderFields ==
  [task : Tasks, left : Seq(Question), file : FileFields, verdict : Verdicts, log : LogFields]

ReaderOK ==
  /\ reader \in ReaderFields
  /\ reader.verdict = "running" => reader.left # <<>>
  /\ reader.verdict = "accepted" => reader.left = <<>>
  /\ reader.file.step = "look" => reader.file = Begin
  /\ reader.file.got \in Seq(Blocks)
  /\ since.rewritten \in BOOLEAN /\ undone \in BOOLEAN
  /\ reader.task \in Freezing => Moment \in held

(* What was read of d so far is what d begins with. *)
Begins(got, d) == Len(got) <= Len(d) /\ \A i \in 1 .. Len(got) : d[i] = got[i]

(* What was noticed of a file of the candidate, and all that could be, was    *)
(* seen in it.                                                              *)
Noticed(f) ==
  /\ <<0, reader.file.seen.size>> \in Seen(f)
  /\ \A i \in 1 .. Len(reader.file.got) : <<i, reader.file.got[i]>> \in Seen(f)
  /\ Marks(disk[reader.file.seen.inode]) \subseteq Seen(f)

FileOK ==
  LET f == reader.file IN
  Reading =>
    /\ f.seen.inode \in 1 .. Len(disk) /\ f.handle \in 0 .. Len(disk)
    /\ f.step # "open" => f.handle # 0
    /\ f.step \in {"open", "opened"} => f.got = <<>> /\ ~since.rewritten
    /\ Op.style # Plain =>
         /\ \A g \in Files : g # Op.file => path[g].inode # f.seen.inode
         /\ disk[f.seen.inode] \in since.contents
         /\ Op.style.capped = "before" => f.seen.size <= MaxSize
         /\ f.step \in {"read", "after", "again"} =>
              /\ f.handle = f.seen.inode /\ f.seen.size <= MaxSize
              /\ since.rewritten \/ Begins(f.got, disk[f.seen.inode])
         /\ f.step = "again" => Len(f.got) = f.seen.size
         /\ reader.task \in Freezing /\ Op.file \in Candidate => Noticed(Op.file)

ReadingOK == WorldOK /\ ReaderOK /\ FileOK

LEMMA PrefixIs ==
  ASSUME NEW S, NEW s \in Seq(S), NEW t \in Seq(S)
  PROVE  IsPrefix(s, t) <=> Begins(s, t)
<1>1. Len(s) \in Nat /\ Len(t) \in Nat /\ DOMAIN s = 1 .. Len(s)
  OBVIOUS
<1>2. ASSUME Len(s) <= Len(t)
      PROVE  SubSeq(s, 1, Len(s)) = SubSeq(t, 1, Len(s)) <=> \A i \in 1 .. Len(s) : t[i] = s[i]
  <2> DEFINE u == SubSeq(s, 1, Len(s))
             v == SubSeq(t, 1, Len(s))
  <2>1. u \in Seq(S) /\ Len(u) = Len(s) /\ \A i \in 1 .. Len(s) : u[i] = s[i]
    BY <1>1
  <2>2. v \in Seq(S) /\ Len(v) = Len(s) /\ \A i \in 1 .. Len(s) : v[i] = t[i]
    BY <1>1, <1>2
  <2> HIDE DEF u, v
  <2>3. (\A i \in 1 .. Len(s) : u[i] = v[i]) => u = v
    BY <2>1, <2>2, SeqEqual
  <2>4. u = v <=> \A i \in 1 .. Len(s) : t[i] = s[i]
    BY <2>1, <2>2, <2>3
  <2> QED BY <2>4 DEF u, v
<1> QED BY <1>2 DEF IsPrefix, Begins

LEMMA BeginsWhole ==
  ASSUME NEW S, NEW s \in Seq(S), NEW t \in Seq(S), Begins(s, t), Len(s) = Len(t)
  PROVE  s = t
BY SeqEqual DEF Begins

(* What was seen stays seen. *)
LEMMA SeenStays ==
  ASSUME NEW f, held \subseteq held'
  PROVE  Seen(f) \subseteq Seen(f)'
BY DEF Seen

LEMMA MomentSeen ==
  ASSUME NEW f \in Candidate
  PROVE  /\ Moment \in held => Marks(Content(f)) \subseteq Seen(f)
         /\ Moment' \in held' => Marks(Content(f)') \subseteq Seen(f)'
<1>1. Moment.of[f] = Content(f) /\ Moment'.of[f] = Content(f)'
  BY DEF Moment
<1> QED BY <1>1 DEF Seen

LEMMA OpIs ==
  ASSUME ReaderOK, Underway
  PROVE  /\ Op \in Question /\ reader.left # <<>>
         /\ \/ Op.op = "status" /\ Op.allowed \subseteq {"clean", "batch"}
            \/ Op.op = "head" /\ Op.as \in {"note", "same"}
            \/ Op.op = "read" /\ Op.style \in Styles /\ Op.file \in Files /\ Op.as \in {"note", "same"}
            \/ Op.op = "build" /\ Op.file \in Range(Artifacts)
<1>1. reader.left \in Seq(Question) /\ reader.left # <<>>
  BY DEF ReaderOK, ReaderFields, Underway
<1>2. Op \in Question
  BY <1>1 DEF Op
<1> QED BY <1>1, <1>2, QuestionIs

LEMMA ReaderStays ==
  ASSUME ReadingOK, NEW n, WorldStep(n)
  PROVE  ReaderOK'
<1>1. WorldOK /\ WorldOK' /\ UNCHANGED reader /\ Watch(n) /\ ReaderOK
  BY DEF ReadingOK, WorldStep
<1>2. since'.rewritten \in BOOLEAN /\ undone' \in BOOLEAN
  BY <1>1 DEF Watch, ReaderOK
<1>3. reader'.task \in Freezing => Moment' \in held'
  BY <1>1 DEF Watch
<1> QED BY <1>1, <1>2, <1>3 DEF ReaderOK, ReaderFields, Begin

LEMMA FileKeeps ==
  ASSUME ReadingOK, NEW n, WorldStep(n)
  PROVE  FileOK'
<1> DEFINE f == reader.file
           s == f.seen.inode
<1>1. /\ WorldOK /\ WorldOK' /\ UNCHANGED reader /\ Watch(n) /\ ReaderOK /\ DiskKeeps(n) /\ PathMoves(n) /\ FileOK
  BY DEF ReadingOK, WorldStep
<1> SUFFICES ASSUME Reading
             PROVE  /\ s \in 1 .. Len(disk') /\ f.handle \in 0 .. Len(disk')
                    /\ f.step # "open" => f.handle # 0
                    /\ f.step \in {"open", "opened"} => f.got = <<>> /\ ~since'.rewritten
                    /\ Op.style # Plain =>
                         /\ \A g \in Files : g # Op.file => path'[g].inode # s
                         /\ disk'[s] \in since'.contents
                         /\ Op.style.capped = "before" => f.seen.size <= MaxSize
                         /\ f.step \in {"read", "after", "again"} =>
                              /\ f.handle = s /\ f.seen.size <= MaxSize
                              /\ since'.rewritten \/ Begins(f.got, disk'[s])
                         /\ f.step = "again" => Len(f.got) = f.seen.size
                         /\ reader.task \in Freezing /\ Op.file \in Candidate => Noticed(Op.file)'
  BY <1>1 DEF FileOK, Reading, Underway, Op
<1>2. Underway /\ Op.op = "read" /\ f.step # "look" /\ Op.file \in Files
  BY <1>1, OpIs DEF Reading
<1>3. /\ s \in 1 .. Len(disk) /\ f.handle \in 0 .. Len(disk)
      /\ f.step # "open" => f.handle # 0
      /\ f.step \in {"open", "opened"} => f.got = <<>> /\ ~since.rewritten
  BY <1>1 DEF FileOK
<1>4. /\ since'.contents = since.contents \cup {Content(Op.file)'}
      /\ since'.rewritten <=> \/ since.rewritten
                              \/ n = f.handle /\ n # 0 /\ ~IsPrefix(f.got, disk'[n])
  BY <1>1 DEF Watch, Op, ReaderOK
<1>5. /\ Len(disk) <= Len(disk') /\ Len(disk) \in Nat /\ Len(disk') \in Nat /\ n \in 0 .. Len(disk)
      /\ \A k \in 1 .. Len(disk) : k # n => disk'[k] = disk[k]
  <2>1. Len(disk) \in Nat /\ Len(disk') \in Nat
    BY <1>1, LenProperties DEF WorldOK
  <2> QED BY <1>1, <2>1 DEF DiskKeeps
<1>6. f.got \in Seq(Blocks) /\ \A k \in 1 .. Len(disk) : disk'[k] \in Seq(Blocks)
  <2>1. f.got \in Seq(Blocks)
    BY <1>1 DEF ReaderOK
  <2>2. ASSUME NEW k \in 1 .. Len(disk)
        PROVE  disk'[k] \in Seq(Blocks)
    <3>1. disk' \in Seq(Seq(Blocks)) /\ k \in 1 .. Len(disk')
      BY <1>1, <1>5 DEF WorldOK
    <3> QED BY <3>1, ElementOfSeq
  <2> QED BY <2>1, <2>2
<1>7. n # 0 => (IsPrefix(f.got, disk'[n]) <=> Begins(f.got, disk'[n]))
  BY <1>5, <1>6, PrefixIs
<1>8. s \in 1 .. Len(disk') /\ f.handle \in 0 .. Len(disk')
  BY <1>3, <1>5
<1>9. ASSUME f.step \in {"open", "opened"}
      PROVE  f.got = <<>> /\ ~since'.rewritten
  <2>1. f.got = <<>> /\ ~since.rewritten
    BY <1>3, <1>9
  <2>2. n # 0 => Begins(f.got, disk'[n])
    <3>1. n # 0 => Len(disk'[n]) \in Nat
      BY <1>5, <1>6
    <3> QED BY <2>1, <3>1 DEF Begins
  <2> QED BY <1>4, <1>7, <2>1, <2>2
<1>10. ASSUME Op.style # Plain
       PROVE  /\ \A g \in Files : g # Op.file => path'[g].inode # s
              /\ disk'[s] \in since'.contents
              /\ Op.style.capped = "before" => f.seen.size <= MaxSize
              /\ f.step \in {"read", "after", "again"} =>
                   /\ f.handle = s /\ f.seen.size <= MaxSize
                   /\ since'.rewritten \/ Begins(f.got, disk'[s])
              /\ f.step = "again" => Len(f.got) = f.seen.size
              /\ reader.task \in Freezing /\ Op.file \in Candidate => Noticed(Op.file)'
  <2>1. /\ \A g \in Files : g # Op.file => path[g].inode # s
        /\ disk[s] \in since.contents
        /\ Op.style.capped = "before" => f.seen.size <= MaxSize
        /\ f.step \in {"read", "after", "again"} =>
             /\ f.handle = s /\ f.seen.size <= MaxSize
             /\ since.rewritten \/ Begins(f.got, disk[s])
        /\ f.step = "again" => Len(f.got) = f.seen.size
        /\ reader.task \in Freezing /\ Op.file \in Candidate => Noticed(Op.file)
    BY <1>1, <1>10 DEF FileOK
  <2>2. \A g \in Files : g # Op.file => path'[g].inode # s
    BY <1>1, <1>3, <1>5, <2>1 DEF PathMoves
  <2>3. n = s => Content(Op.file)' = disk'[s]
    <3> SUFFICES ASSUME n = s PROVE Content(Op.file)' = disk'[s]
      OBVIOUS
    <3>1. PICK g \in Files : path[g].kind = "file" /\ path[g].inode = s /\ path' = path
      BY <1>1, <1>3 DEF PathMoves
    <3>2. g = Op.file
      BY <2>1, <3>1
    <3> QED BY <1>1, <3>1, <3>2 DEF Content, Op
  <2>4. disk'[s] \in since'.contents
    <3>1. CASE n = s
      BY <1>4, <2>3, <3>1
    <3>2. CASE n # s
      BY <1>3, <1>4, <1>5, <2>1, <3>2
    <3> QED BY <3>1, <3>2
  <2>5. ASSUME f.step \in {"read", "after", "again"}
        PROVE  since'.rewritten \/ Begins(f.got, disk'[s])
    <3>1. f.handle = s /\ (since.rewritten \/ Begins(f.got, disk[s]))
      BY <2>1, <2>5
    <3>2. CASE since.rewritten \/ n = s
      BY <1>3, <1>4, <1>7, <3>1, <3>2
    <3>3. CASE ~since.rewritten /\ n # s
      BY <1>3, <1>4, <1>5, <3>1, <3>3
    <3> QED BY <3>2, <3>3
  <2>6. ASSUME reader.task \in Freezing, Op.file \in Candidate
        PROVE  Noticed(Op.file)'
    <3>1. held \subseteq held' /\ Moment' \in held'
      BY <1>1, <2>6 DEF Watch
    <3>2. Seen(Op.file) \subseteq UNION {Marks(moment.of[Op.file]) : moment \in held'}
      BY <3>1 DEF Seen
    <3> DEFINE seen == UNION {Marks(moment.of[Op.file]) : moment \in held'}
    <3>3. Marks(Content(Op.file)') \subseteq seen
      <4>1. ASSUME NEW g \in Candidate
            PROVE  Moment'.of[g] = Content(g)'
        BY DEF Moment
      <4>2. Op' = Op
        BY <1>1 DEF Op
      <4>3. PICK g \in Candidate : g = Op.file
        BY <2>6
      <4>4. Content(Op.file)' = Content(g)'
        BY <4>2, <4>3
      <4>5. Marks(Content(g)') \subseteq seen
        BY <3>1, <4>1, <4>3
      <4> QED BY <4>4, <4>5
    <3> HIDE DEF seen
    <3>4. Marks(disk'[s]) \subseteq seen
      <4>1. CASE n = s
        BY <2>3, <3>3, <4>1
      <4>2. CASE n # s
        BY <1>3, <1>5, <2>1, <2>6, <3>2, <4>2 DEF Noticed, seen
      <4> QED BY <4>1, <4>2
    <3>5. /\ <<0, f.seen.size>> \in seen
          /\ \A i \in 1 .. Len(f.got) : <<i, f.got[i]>> \in seen
      BY <2>1, <2>6, <3>2 DEF Noticed, seen
    <3> QED BY <1>1, <3>4, <3>5 DEF Noticed, Seen, Op, seen
  <2> QED BY <2>1, <2>2, <2>4, <2>5, <2>6
<1> QED BY <1>3, <1>8, <1>9, <1>10
-----------------------------------------------------------------------------
(* The steps of the reader *)

LEMMA BlocksAreNumbers == Seq(Blocks) \subseteq Seq(Nat)
BY CandidateAssumption, SeqMonotonic

(* The reader goes to another step of the same reading.                      *)
Goes(step, seen, handle, got) ==
  /\ reader' \in ReaderFields
  /\ reader'.task = reader.task /\ reader'.left = reader.left
  /\ reader'.verdict = reader.verdict /\ reader'.log = reader.log
  /\ reader'.file.step = step /\ reader'.file.seen = seen
  /\ reader'.file.handle = handle /\ reader'.file.got = got

LEMMA FileSet ==
  ASSUME reader \in ReaderFields, NEW f \in FileFields, reader' = [reader EXCEPT !.file = f]
  PROVE  Goes(f.step, f.seen, f.handle, f.got)
BY DEF ReaderFields, Goes

LEMMA ToStepGoes ==
  ASSUME reader \in ReaderFields, NEW step \in Steps, ToStep(step)
  PROVE  Goes(step, reader.file.seen, reader.file.handle, reader.file.got)
<1> DEFINE f == [reader.file EXCEPT !.step = step]
<1>1. reader' = [reader EXCEPT !.file = f]
  BY DEF ToStep
<1>2. reader.file \in FileFields
  BY DEF ReaderFields
<1>3. /\ f \in FileFields /\ f.step = step /\ f.seen = reader.file.seen
      /\ f.handle = reader.file.handle /\ f.got = reader.file.got
  BY <1>2 DEF FileFields
<1> HIDE DEF f
<1> QED BY <1>1, <1>3, FileSet

LEMMA LookGoes ==
  ASSUME WorldOK, ReaderOK, Look
  PROVE  /\ ReaderAlone /\ Underway /\ Op.op = "read" /\ Op.file \in Files /\ reader.file.step = "look"
         /\ \/ Refuse
            \/ LET at == path[Op.file] IN
               /\ at.kind = "file" /\ at.inode \in 1 .. Len(disk)
               /\ Op.style.capped = "before" => Size(at.inode) <= MaxSize
               /\ Goes("open", [inode |-> at.inode, size |-> Size(at.inode)], 0, <<>>)
               /\ since' = [contents |-> {Content(Op.file)}, rewritten |-> FALSE]
<1> DEFINE at == path[Op.file]
<1>1. ReaderAlone /\ Underway /\ Op.op = "read" /\ reader.file.step = "look"
  BY DEF Look, Reads, Asks
<1>2. Op.file \in Files
  BY <1>1, OpIs
<1>3. CASE Refuse
  BY <1>1, <1>2, <1>3
<1>4. CASE ~Refuse
  <2>1. /\ at.kind = "file" /\ ~(Op.style.capped = "before" /\ Size(at.inode) > MaxSize)
        /\ reader' = [reader EXCEPT !.file.step = "open",
                                    !.file.seen = [inode |-> at.inode, size |-> Size(at.inode)]]
        /\ since' = [contents |-> {Content(Op.file)}, rewritten |-> FALSE]
    BY <1>4 DEF Look
  <2>2. at.inode \in 1 .. Len(disk) /\ Len(disk) \in Nat
    BY <1>2, <2>1 DEF WorldOK
  <2>3. disk[at.inode] \in Seq(Blocks)
    BY <2>2 DEF WorldOK
  <2>4. Size(at.inode) \in Nat /\ MaxSize \in Nat /\ at.inode \in Nat
    BY <2>2, <2>3, CandidateAssumption DEF Size
  <2> DEFINE stat == [inode |-> at.inode, size |-> Size(at.inode)]
             f == [reader.file EXCEPT !.step = "open", !.seen = stat]
  <2>5. stat \in Stats
    BY <2>4 DEF Stats
  <2>6. reader' = [reader EXCEPT !.file = f]
    BY <2>1
  <2> HIDE DEF stat
  <2>7. reader.file \in FileFields /\ reader.file.handle = 0 /\ reader.file.got = <<>>
    BY <1>1 DEF ReaderOK, ReaderFields, Begin
  <2>8. f \in FileFields /\ f.step = "open" /\ f.seen = stat /\ f.handle = 0 /\ f.got = <<>>
    BY <2>5, <2>7 DEF FileFields, Steps
  <2> HIDE DEF f
  <2>9. Goes("open", stat, 0, <<>>)
    BY <2>6, <2>8, FileSet DEF ReaderOK
  <2> QED BY <1>1, <1>2, <2>1, <2>2, <2>4, <2>9 DEF stat
<1> QED BY <1>3, <1>4

LEMMA OpenGoes ==
  ASSUME WorldOK, ReaderOK, OpenFile
  PROVE  /\ ReaderAlone /\ Underway /\ Op.op = "read" /\ Op.file \in Files /\ reader.file.step = "open"
         /\ \/ Refuse
            \/ /\ path[Op.file].inode \in 1 .. Len(disk) /\ UNCHANGED since
               /\ Goes("opened", reader.file.seen, path[Op.file].inode, reader.file.got)
<1>1. ReaderAlone /\ Underway /\ Op.op = "read" /\ reader.file.step = "open"
  BY DEF OpenFile, Reads, Asks
<1>2. Op.file \in Files
  BY <1>1, OpIs
<1>3. CASE Refuse
  BY <1>1, <1>2, <1>3
<1>4. CASE ~Refuse
  <2> DEFINE i == path[Op.file].inode
             f == [reader.file EXCEPT !.step = "opened", !.handle = i]
  <2>1. path[Op.file].kind # "missing" /\ UNCHANGED since
        /\ reader' = [reader EXCEPT !.file.step = "opened", !.file.handle = i]
    BY <1>4 DEF OpenFile
  <2>2. i \in 1 .. Len(disk) /\ i \in Nat
    BY <1>2, <2>1 DEF WorldOK
  <2>3. reader' = [reader EXCEPT !.file = f]
    BY <2>1
  <2>4. reader.file \in FileFields
    BY DEF ReaderOK, ReaderFields
  <2> HIDE DEF i
  <2>5. f \in FileFields /\ f.step = "opened" /\ f.seen = reader.file.seen /\ f.handle = i /\ f.got = reader.file.got
    BY <2>2, <2>4 DEF FileFields, Steps
  <2> HIDE DEF f
  <2>6. Goes("opened", reader.file.seen, i, reader.file.got)
    BY <2>3, <2>5, FileSet DEF ReaderOK
  <2> QED BY <1>1, <1>2, <2>1, <2>2, <2>6 DEF i
<1> QED BY <1>3, <1>4

LEMMA CheckGoes ==
  ASSUME WorldOK, ReaderOK, FileOK, CheckOpened
  PROVE  /\ ReaderAlone /\ Underway /\ Op.op = "read" /\ Op.file \in Files /\ reader.file.step = "opened"
         /\ \/ Refuse
            \/ /\ Op.style.same => SameFile(Handle)
               /\ Op.style.capped = "opened" => Handle.size <= MaxSize
               /\ UNCHANGED since /\ Goes("read", Handle, reader.file.handle, reader.file.got)
<1>1. ReaderAlone /\ Underway /\ Op.op = "read" /\ reader.file.step = "opened"
  BY DEF CheckOpened, Reads, Asks
<1>2. Op.file \in Files
  BY <1>1, OpIs
<1>3. CASE Refuse
  BY <1>1, <1>2, <1>3
<1>4. CASE ~Refuse
  <2>1. /\ ~(Op.style.same /\ ~SameFile(Handle)) /\ ~(Op.style.capped = "opened" /\ Handle.size > MaxSize)
        /\ UNCHANGED since /\ reader' = [reader EXCEPT !.file.step = "read", !.file.seen = Handle]
    BY <1>4 DEF CheckOpened
  <2>2. reader.file.handle \in 1 .. Len(disk) /\ Len(disk) \in Nat
    <3>1. reader.file.handle \in 0 .. Len(disk) /\ reader.file.handle # 0
      BY <1>1 DEF FileOK, Reading
    <3> QED BY <3>1 DEF WorldOK
  <2>3. disk[reader.file.handle] \in Seq(Blocks)
    BY <2>2 DEF WorldOK
  <2>4. Size(reader.file.handle) \in Nat /\ MaxSize \in Nat /\ reader.file.handle \in Nat
    BY <2>2, <2>3, CandidateAssumption DEF Size
  <2>5. Handle \in Stats /\ Handle.size = Size(reader.file.handle)
    BY <2>4 DEF Stats, Handle
  <2> DEFINE f == [reader.file EXCEPT !.step = "read", !.seen = Handle]
  <2>6. reader' = [reader EXCEPT !.file = f]
    BY <2>1
  <2>7. reader.file \in FileFields
    BY DEF ReaderOK, ReaderFields
  <2>8. f \in FileFields /\ f.step = "read" /\ f.seen = Handle /\ f.handle = reader.file.handle /\ f.got = reader.file.got
    BY <2>5, <2>7 DEF FileFields, Steps
  <2> HIDE DEF f
  <2>9. Goes("read", Handle, reader.file.handle, reader.file.got)
    BY <2>6, <2>8, FileSet DEF ReaderOK
  <2> QED BY <1>1, <1>2, <2>1, <2>4, <2>5, <2>9
<1> QED BY <1>3, <1>4

LEMMA ReadGoes ==
  ASSUME WorldOK, ReaderOK, FileOK, ReadBlock
  PROVE  LET f == reader.file
             at == Len(f.got) + 1
         IN
         /\ ReaderAlone /\ Underway /\ Op.op = "read" /\ Op.file \in Files /\ f.step = "read"
         /\ f.handle \in 1 .. Len(disk) /\ disk[f.handle] \in Seq(Blocks)
         /\ \/ Refuse
            \/ /\ at <= Len(disk[f.handle]) /\ UNCHANGED since /\ disk[f.handle][at] \in Blocks
               /\ Goes("read", f.seen, f.handle, Append(f.got, disk[f.handle][at]))
            \/ Op.style.after /\ Goes("after", f.seen, f.handle, f.got) /\ UNCHANGED since
            \/ ~Op.style.after /\ Conclude
<1> DEFINE f == reader.file
           at == Len(f.got) + 1
           block == disk[f.handle][at]
<1>1. ReaderAlone /\ Underway /\ Op.op = "read" /\ f.step = "read"
  BY DEF ReadBlock, Reads, Asks
<1>2. Op.file \in Files
  BY <1>1, OpIs
<1>3. f \in FileFields /\ f.got \in Seq(Blocks) /\ Len(f.got) \in Nat
  <2>1. f \in FileFields /\ f.got \in Seq(Blocks)
    BY DEF ReaderOK, ReaderFields
  <2> QED BY <2>1, LenProperties
<1>4. f.handle \in 1 .. Len(disk) /\ disk[f.handle] \in Seq(Blocks)
  <2>1. f.handle \in 0 .. Len(disk) /\ f.handle # 0
    BY <1>1 DEF FileOK, Reading
  <2>2. Len(disk) \in Nat /\ disk \in Seq(Seq(Blocks))
    BY LenProperties DEF WorldOK
  <2> QED BY <2>1, <2>2
<1>5. \/ Refuse
      \/ EndRead
      \/ at <= Len(disk[f.handle]) /\ UNCHANGED since /\ reader' = [reader EXCEPT !.file.got = Append(@, block)]
  BY DEF ReadBlock, Handle, Size
<1>6. CASE Refuse
  BY <1>1, <1>2, <1>4, <1>6
<1>7. CASE EndRead
  <2>1. "after" \in Steps
    BY DEF Steps
  <2> QED BY <1>1, <1>2, <1>4, <1>7, <2>1, ToStepGoes DEF EndRead, ReaderOK
<1>8. CASE at <= Len(disk[f.handle]) /\ UNCHANGED since /\ reader' = [reader EXCEPT !.file.got = Append(@, block)]
  <2>1. at \in 1 .. Len(disk[f.handle])
    BY <1>3, <1>4, <1>8
  <2>2. block \in Blocks
    BY <1>4, <2>1, ElementOfSeq
  <2> HIDE DEF block
  <2> DEFINE got == Append(f.got, block)
             g == [f EXCEPT !.got = got]
  <2>3. got \in Seq(Nat)
    <3>1. got \in Seq(Blocks)
      BY <1>3, <2>2
    <3> QED BY <3>1, BlocksAreNumbers
  <2>4. reader' = [reader EXCEPT !.file = g]
    BY <1>8
  <2> HIDE DEF got
  <2>5. g \in FileFields /\ g.step = "read" /\ g.seen = f.seen /\ g.handle = f.handle /\ g.got = got
    BY <1>1, <1>3, <2>3 DEF FileFields
  <2> HIDE DEF g
  <2>6. Goes("read", f.seen, f.handle, got)
    BY <2>4, <2>5, FileSet DEF ReaderOK
  <2> QED BY <1>1, <1>2, <1>4, <1>8, <2>2, <2>6 DEF got, block
<1> QED BY <1>5, <1>6, <1>7, <1>8

LEMMA AfterGoes ==
  ASSUME ReaderOK, After
  PROVE  LET f == reader.file IN
         /\ ReaderAlone /\ Underway /\ Op.op = "read" /\ Op.file \in Files /\ f.step = "after"
         /\ \/ Refuse
            \/ /\ SameFile(Handle) /\ Len(f.got) = f.seen.size
               /\ \/ Op.style.again /\ Goes("again", f.seen, f.handle, f.got) /\ UNCHANGED since
                  \/ ~Op.style.again /\ Conclude
<1>1. ReaderAlone /\ Underway /\ Op.op = "read" /\ reader.file.step = "after"
  BY DEF After, Reads, Asks
<1>2. Op.file \in Files
  BY <1>1, OpIs
<1>3. "again" \in Steps
  BY DEF Steps
<1> QED BY <1>1, <1>2, <1>3, ToStepGoes DEF After, ReaderOK

LEMMA AgainGoes ==
  ASSUME ReaderOK, LookAgain
  PROVE  LET at == path[Op.file] IN
         /\ ReaderAlone /\ Underway /\ Op.op = "read" /\ Op.file \in Files /\ reader.file.step = "again"
         /\ \/ Refuse
            \/ at.kind = "file" /\ SameFile([inode |-> at.inode, size |-> Size(at.inode)]) /\ Conclude
<1>1. ReaderAlone /\ Underway /\ Op.op = "read" /\ reader.file.step = "again"
  BY DEF LookAgain, Reads, Asks
<1>2. Op.file \in Files
  BY <1>1, OpIs
<1> QED BY <1>1, <1>2 DEF LookAgain

(* The reader goes on with the next question.                                *)
MovesOn(log) ==
  /\ reader' \in ReaderFields
  /\ reader'.task = reader.task /\ reader'.left = Tail(reader.left) /\ reader'.file = Begin
  /\ reader'.log = log /\ since' = Nothing
  /\ reader'.verdict = IF Len(reader.left) = 1 THEN "accepted" ELSE "running"

LEMMA AdvanceIs ==
  ASSUME ReaderOK, Underway, NEW log \in LogFields, Advance(log)
  PROVE  MovesOn(log) /\ Len(Tail(reader.left)) = Len(reader.left) - 1 /\ Len(reader.left) \in Nat \ {0}
<1>1. reader \in ReaderFields /\ reader.left \in Seq(Question) /\ reader.left # <<>>
  BY DEF ReaderOK, ReaderFields, Underway
<1>2. /\ Len(reader.left) \in Nat \ {0} /\ Tail(reader.left) \in Seq(Question)
      /\ Len(Tail(reader.left)) = Len(reader.left) - 1
  BY <1>1, EmptySeq
<1>3. Begin \in FileFields
  BY DEF Begin, FileFields, Steps, Stats
<1> DEFINE left == Tail(reader.left)
           verdict == IF Len(reader.left) = 1 THEN "accepted" ELSE "running"
<1>4. /\ reader' = [reader EXCEPT !.left = left, !.file = Begin, !.log = log, !.verdict = verdict]
      /\ since' = Nothing /\ verdict \in Verdicts /\ left \in Seq(Question)
  BY <1>2 DEF Advance, Verdicts
<1> HIDE DEF left, verdict
<1>5. /\ reader' \in ReaderFields /\ reader'.task = reader.task /\ reader'.left = left
      /\ reader'.file = Begin /\ reader'.log = log /\ reader'.verdict = verdict
  <2> HIDE DEF Begin
  <2> QED BY <1>1, <1>3, <1>4 DEF ReaderFields
<1> QED BY <1>2, <1>4, <1>5 DEF MovesOn, left, verdict

Noted == [reader.log EXCEPT !.of[Op.file] = reader.file.got]

LEMMA NotedIs ==
  ASSUME ReaderOK, Underway, Op.op = "read"
  PROVE  /\ Noted \in LogFields /\ Noted.head = reader.log.head
         /\ Noted.of[Op.file] = reader.file.got
         /\ \A f \in Files : f # Op.file => Noted.of[f] = reader.log.of[f]
<1>1. reader.log \in LogFields /\ reader.file.got \in Seq(Nat) /\ Op.file \in Files
  BY OpIs DEF ReaderOK, ReaderFields, FileFields
<1> DEFINE of == [reader.log.of EXCEPT ![Op.file] = reader.file.got]
<1>2. /\ of \in [Files -> Seq(Nat)] /\ of[Op.file] = reader.file.got
      /\ \A f \in Files : f # Op.file => of[f] = reader.log.of[f]
  BY <1>1 DEF LogFields
<1>3. Noted = [reader.log EXCEPT !.of = of]
  BY DEF Noted
<1> HIDE DEF of
<1>4. Noted \in LogFields /\ Noted.head = reader.log.head /\ Noted.of = of
  BY <1>1, <1>2, <1>3 DEF LogFields
<1> QED BY <1>2, <1>4

LEMMA ConcludeIs ==
  ASSUME ReaderOK, Underway, Op.op = "read", Conclude
  PROVE  \/ Refuse
         \/ MovesOn(Noted) /\ (Op.as = "same" => reader.file.got = reader.log.of[Op.file])
<1>1. \/ Refuse
      \/ Advance(Noted) /\ (Op.as = "same" => reader.file.got = reader.log.of[Op.file])
  BY DEF Conclude, Noted
<1> QED BY <1>1, NotedIs, AdvanceIs

LEMMA StatusGoes ==
  ASSUME ReaderOK, ReadStatus
  PROVE  /\ ReaderAlone /\ Underway /\ Op.op = "status" /\ Op.allowed \subseteq {"clean", "batch"}
         /\ \/ Refuse
            \/ tree.state \in Op.allowed /\ MovesOn(reader.log)
<1>1. ReaderAlone /\ Underway /\ Op.op = "status" /\ reader.log \in LogFields
  BY DEF ReadStatus, Asks, ReaderOK, ReaderFields
<1>2. Op.allowed \subseteq {"clean", "batch"}
  BY <1>1, OpIs
<1> QED BY <1>1, <1>2, AdvanceIs DEF ReadStatus

LEMMA HeadGoes ==
  ASSUME WorldOK, ReaderOK, ReadHead
  PROVE  /\ ReaderAlone /\ Underway /\ Op.op = "head" /\ Op.as \in {"note", "same"}
         /\ \/ Refuse
            \/ /\ Op.as = "same" => tree.head = reader.log.head
               /\ reader'.log.head = tree.head /\ reader'.log.of = reader.log.of
               /\ MovesOn(reader'.log)
<1>1. ReaderAlone /\ Underway /\ Op.op = "head" /\ reader.log \in LogFields
  BY DEF ReadHead, Asks, ReaderOK, ReaderFields
<1>2. Op.as \in {"note", "same"}
  BY <1>1, OpIs
<1>3. CASE Refuse
  BY <1>1, <1>2, <1>3
<1>4. CASE ~Refuse
  <2> DEFINE log == [reader.log EXCEPT !.head = tree.head]
  <2>1. ~(Op.as = "same" /\ tree.head # reader.log.head) /\ Advance(log)
    BY <1>4 DEF ReadHead
  <2>2. tree.head \in Nat
    BY DEF WorldOK
  <2>3. log \in LogFields /\ log.head = tree.head /\ log.of = reader.log.of
    BY <1>1, <2>2 DEF LogFields
  <2> HIDE DEF log
  <2>4. MovesOn(log)
    BY <1>1, <2>1, <2>3, AdvanceIs
  <2>5. reader'.log = log
    BY <2>4 DEF MovesOn
  <2> QED BY <1>1, <1>2, <2>1, <2>3, <2>4, <2>5
<1> QED BY <1>3, <1>4

LEMMA AloneKeeps ==
  ASSUME WorldOK, ReaderAlone
  PROVE  WorldOK' /\ Moment' = Moment /\ \A f \in Candidate : Content(f)' = Content(f)
<1>1. UNCHANGED <<disk, path, tree, writes, held>>
  BY DEF ReaderAlone, world
<1>2. \A f \in Candidate : Content(f)' = Content(f)
  BY <1>1 DEF Content
<1>3. Moment' = Moment
  BY <1>1, <1>2 DEF Moment
<1> QED BY <1>1, <1>2, <1>3 DEF WorldOK

LEMMA RefuseKeeps ==
  ASSUME ReadingOK, ReaderAlone, Refuse
  PROVE  ReadingOK' /\ reader'.verdict = "refused" /\ reader'.task = reader.task
<1>1. WorldOK' /\ Moment' = Moment /\ UNCHANGED <<held, undone>>
  BY AloneKeeps DEF ReadingOK, ReaderAlone
<1>2. /\ reader' \in ReaderFields /\ reader'.verdict = "refused"
      /\ reader'.task = reader.task /\ reader'.file = reader.file /\ ~since'.rewritten
  BY DEF Refuse, Nothing, ReadingOK, ReaderOK, ReaderFields, Verdicts
<1>3. ReaderOK'
  BY <1>1, <1>2 DEF ReaderOK, ReadingOK, Refuse, Nothing, Begin
<1>4. FileOK'
  BY <1>2 DEF FileOK, Reading, Underway
<1> QED BY <1>1, <1>2, <1>3, <1>4 DEF ReadingOK

LEMMA MovingOnKeeps ==
  ASSUME ReadingOK, Underway, NEW log, MovesOn(log),
         WorldOK', undone' \in BOOLEAN, reader.task \in Freezing => Moment' \in held'
  PROVE  ReadingOK'
<1>2. /\ reader' \in ReaderFields /\ reader'.left = Tail(reader.left) /\ reader'.file = Begin
      /\ reader'.task = reader.task /\ since' = Nothing
      /\ reader'.verdict = IF Len(reader.left) = 1 THEN "accepted" ELSE "running"
  BY DEF MovesOn
<1> DEFINE left == reader.left
<1>3. left \in Seq(Question) /\ left # <<>> /\ Len(left) \in Nat \ {0}
  BY EmptySeq DEF ReadingOK, ReaderOK, ReaderFields, Underway
<1> HIDE DEF left
<1>4. Tail(left) \in Seq(Question) /\ Len(Tail(left)) = Len(left) - 1
  BY <1>3
<1> DEFINE rest == Tail(left)
<1>20. rest \in Seq(Question) /\ Len(rest) = Len(left) - 1 /\ (rest = <<>> <=> Len(left) = 1)
  <2> HIDE DEF rest
  <2>1. rest \in Seq(Question) /\ Len(rest) = Len(left) - 1
    BY <1>4 DEF rest
  <2>2. Len(<<>>) = 0 /\ (rest # <<>> => Len(rest) # 0)
    BY <2>1, EmptySeq
  <2> QED BY <1>3, <2>1, <2>2
<1> HIDE DEF rest
<1>21. reader'.left = rest /\ reader'.verdict = IF Len(left) = 1 THEN "accepted" ELSE "running"
  BY <1>2 DEF left, rest
<1>5. reader'.verdict = "running" => reader'.left # <<>>
  BY <1>20, <1>21
<1>6. reader'.verdict = "accepted" => reader'.left = <<>>
  BY <1>20, <1>21
<1>7. reader'.file.step = "look" /\ reader'.file.got = <<>> /\ since'.rewritten = FALSE
  BY <1>2 DEF Begin, Nothing
<1>8. <<>> \in Seq(Blocks)
  BY EmptySeq
<1>9. ReaderOK'
  <2> HIDE DEF Begin
  <2>1. Begin' = Begin
    BY DEF Begin
  <2>2. reader'.task \in Freezing => Moment' \in held'
    BY <1>2
  <2>3. ReaderFields' = ReaderFields
    BY DEF ReaderFields
  <2> QED BY <1>2, <1>5, <1>6, <1>7, <1>8, <2>1, <2>2, <2>3 DEF ReaderOK
<1>10. FileOK'
  BY <1>7 DEF FileOK, Reading
<1> QED BY <1>9, <1>10 DEF ReadingOK

LEMMA AloneGoesOn ==
  ASSUME ReadingOK, ReaderAlone, Underway, NEW log, MovesOn(log)
  PROVE  ReadingOK'
<1>1. WorldOK' /\ undone' \in BOOLEAN /\ (reader.task \in Freezing => Moment' \in held')
  BY AloneKeeps DEF ReadingOK, ReaderOK, ReaderAlone
<1> QED BY <1>1, MovingOnKeeps

(* In the middle of a reading.                                               *)
LEMMA GoesKeeps ==
  ASSUME ReadingOK, ReaderAlone, Underway, NEW step \in Steps, step # "look",
         NEW seen, NEW handle, NEW got \in Seq(Blocks),
         Goes(step, seen, handle, got), since'.rewritten \in BOOLEAN
  PROVE  WorldOK' /\ ReaderOK' /\ Underway' /\ Op' = Op
<1>1. WorldOK' /\ Moment' = Moment /\ UNCHANGED <<held, undone>>
  BY AloneKeeps DEF ReadingOK, ReaderAlone
<1>2. ReaderOK'
  BY <1>1 DEF ReaderOK, ReadingOK, Goes
<1> QED BY <1>1, <1>2 DEF Goes, Underway, Op

LEMMA NoticedGoes ==
  ASSUME NEW step, NEW seen, NEW handle, NEW got, Goes(step, seen, handle, got), ReaderAlone, Op' = Op,
         <<0, seen.size>> \in Seen(Op.file), Marks(disk[seen.inode]) \subseteq Seen(Op.file),
         \A i \in 1 .. Len(got) : <<i, got[i]>> \in Seen(Op.file)
  PROVE  Noticed(Op.file)'
<1>1. UNCHANGED <<disk, held>>
  BY DEF ReaderAlone, world
<1> QED BY <1>1 DEF Noticed, Seen, Goes

LEMMA MarksAre ==
  ASSUME NEW c \in Seq(Nat)
  PROVE  /\ c # NoContent
         /\ Marks(c) = {<<0, Len(c)>>} \cup {<<i, c[i]>> : i \in 1 .. Len(c)}
<1>1. c # NoContent
  <2>1. NoContent[1] = -1 /\ Len(NoContent) = 1
    BY DEF NoContent
  <2> SUFFICES ASSUME c = NoContent PROVE FALSE
    OBVIOUS
  <2>2. 1 \in 1 .. Len(c)
    BY <2>1
  <2>3. c[1] \in Nat
    BY <2>2, ElementOfSeq
  <2> QED BY <2>1, <2>3
<1>2. DOMAIN c = 1 .. Len(c)
  OBVIOUS
<1> QED BY <1>1, <1>2 DEF Marks

LEMMA StylesAre ==
  ASSUME NEW style \in Styles
  PROVE  /\ style = Plain \/ style \in {Bounded, Immutable, Stable}
         /\ style # Plain => /\ style.same /\ style.after /\ style.capped \in {"before", "opened"}
                             /\ style.again <=> style = Stable
         /\ Plain # Bounded /\ Plain # Immutable /\ Plain # Stable
         /\ ~Plain.after
<1>1. style \in {Bounded, Immutable, Stable, Plain}
  BY DEF Styles
<1>2. /\ Bounded.same /\ Immutable.same /\ Stable.same /\ ~Plain.same
      /\ Bounded.after /\ Immutable.after /\ Stable.after /\ ~Plain.after
      /\ Bounded.capped = "before" /\ Immutable.capped = "before" /\ Stable.capped = "opened"
      /\ ~Bounded.again /\ ~Immutable.again /\ Stable.again
  BY DEF Bounded, Immutable, Stable, Plain
<1>3. Plain # Bounded /\ Plain # Immutable /\ Plain # Stable
  BY <1>2
<1> QED BY <1>1, <1>2, <1>3

LEMMA LookKeeps ==
  ASSUME ReadingOK, Look
  PROVE  ReadingOK'
<1>1. WorldOK /\ ReaderOK
  BY DEF ReadingOK
<1> DEFINE at == path[Op.file]
           seen == [inode |-> at.inode, size |-> Size(at.inode)]
<1>2. /\ ReaderAlone /\ Underway /\ Op.op = "read" /\ Op.file \in Files
      /\ \/ Refuse
         \/ /\ at.kind = "file" /\ at.inode \in 1 .. Len(disk)
            /\ Op.style.capped = "before" => Size(at.inode) <= MaxSize
            /\ Goes("open", seen, 0, <<>>)
            /\ since' = [contents |-> {Content(Op.file)}, rewritten |-> FALSE]
  BY <1>1, LookGoes
<1>3. CASE Refuse
  BY <1>2, <1>3, RefuseKeeps
<1>4. CASE ~Refuse
  <2>0. /\ at.kind = "file" /\ at.inode \in 1 .. Len(disk)
        /\ Op.style.capped = "before" => seen.size <= MaxSize
        /\ Goes("open", seen, 0, <<>>) /\ seen.inode = at.inode
        /\ since' = [contents |-> {Content(Op.file)}, rewritten |-> FALSE]
    BY <1>2, <1>4
  <2>1. Content(Op.file) = disk[at.inode]
    BY <2>0 DEF Content
  <2>2. \A g \in Files : g # Op.file => path[g].inode # at.inode
    BY <1>1, <1>2, <2>0 DEF WorldOK
  <2>3. <<>> \in Seq(Blocks) /\ "open" \in Steps /\ since'.rewritten \in BOOLEAN
    BY <2>0, EmptySeq DEF Steps
  <2> HIDE DEF seen
  <2>4. WorldOK' /\ ReaderOK' /\ Underway' /\ Op' = Op
    BY <1>2, <2>0, <2>3, GoesKeeps
  <2>5. UNCHANGED <<disk, path>> /\ Len(disk) \in Nat
    BY <1>1, <1>2 DEF ReaderAlone, world, WorldOK
  <2>6. /\ reader'.file.step = "open" /\ reader'.file.seen = seen
        /\ reader'.file.handle = 0 /\ reader'.file.got = <<>>
    BY <2>0 DEF Goes
  <2>8. ASSUME reader.task \in Freezing, Op.file \in Candidate
        PROVE  Noticed(Op.file)'
    <3>1. Moment \in held
      BY <1>1, <2>8 DEF ReaderOK
    <3>2. Marks(disk[at.inode]) \subseteq Seen(Op.file)
      BY <2>1, <2>8, <3>1, MomentSeen
    <3>3. <<0, Len(disk[at.inode])>> \in Marks(disk[at.inode])
      <4>1. disk[at.inode] \in Seq(Nat)
        <5>1. disk[at.inode] \in Seq(Blocks)
          BY <1>1, <2>0, ElementOfSeq DEF WorldOK
        <5> QED BY <5>1, BlocksAreNumbers
      <4> QED BY <4>1, MarksAre
    <3>4. seen.size = Len(disk[at.inode])
      BY DEF seen, Size
    <3> QED BY <1>2, <2>0, <2>4, <3>2, <3>3, <3>4, NoticedGoes
  <2>9. reader'.task = reader.task
    BY <2>0 DEF Goes
  <2>7. FileOK'
    BY <2>0, <2>1, <2>2, <2>4, <2>5, <2>6, <2>8, <2>9 DEF FileOK
  <2> QED BY <2>4, <2>7 DEF ReadingOK
<1> QED BY <1>3, <1>4

LEMMA OpenKeeps ==
  ASSUME ReadingOK, OpenFile
  PROVE  ReadingOK'
<1>1. WorldOK /\ ReaderOK /\ FileOK
  BY DEF ReadingOK
<1> DEFINE f == reader.file
           i == path[Op.file].inode
<1>2. /\ ReaderAlone /\ Underway /\ Op.op = "read" /\ Op.file \in Files /\ f.step = "open"
      /\ \/ Refuse
         \/ i \in 1 .. Len(disk) /\ UNCHANGED since /\ Goes("opened", f.seen, i, f.got)
  BY <1>1, OpenGoes
<1>3. CASE Refuse
  BY <1>2, <1>3, RefuseKeeps
<1>4. CASE ~Refuse
  <2>1. i \in 1 .. Len(disk) /\ UNCHANGED since /\ Goes("opened", f.seen, i, f.got)
    BY <1>2, <1>4
  <2> HIDE DEF i
  <2>2. f.got \in Seq(Blocks) /\ "opened" \in Steps /\ since'.rewritten \in BOOLEAN
    BY <1>1, <2>1 DEF ReaderOK, Steps
  <2>3. WorldOK' /\ ReaderOK' /\ Underway' /\ Op' = Op
    BY <1>2, <2>1, <2>2, GoesKeeps
  <2>4. UNCHANGED <<disk, path>> /\ Len(disk) \in Nat
    BY <1>1, <1>2 DEF ReaderAlone, world, WorldOK
  <2>5. reader'.file.step = "opened" /\ reader'.file.seen = f.seen /\ reader'.file.handle = i /\ reader'.file.got = f.got
    BY <2>1 DEF Goes
  <2>6. Reading
    BY <1>2 DEF Reading
  <2>8. ASSUME Op.style # Plain, reader.task \in Freezing, Op.file \in Candidate
        PROVE  Noticed(Op.file)'
    <3>1. Noticed(Op.file)
      BY <1>1, <2>6, <2>8 DEF FileOK
    <3> QED BY <1>2, <2>1, <2>3, <3>1, NoticedGoes DEF Noticed
  <2>9. reader'.task = reader.task
    BY <2>1 DEF Goes
  <2>7. FileOK'
    BY <1>1, <1>2, <2>1, <2>3, <2>4, <2>5, <2>6, <2>8, <2>9 DEF FileOK
  <2> QED BY <2>3, <2>7 DEF ReadingOK
<1> QED BY <1>3, <1>4

LEMMA CheckKeeps ==
  ASSUME ReadingOK, CheckOpened
  PROVE  ReadingOK'
<1>1. WorldOK /\ ReaderOK /\ FileOK
  BY DEF ReadingOK
<1> DEFINE f == reader.file
<1>2. /\ ReaderAlone /\ Underway /\ Op.op = "read" /\ Op.file \in Files /\ f.step = "opened"
      /\ \/ Refuse
         \/ /\ Op.style.same => SameFile(Handle)
            /\ Op.style.capped = "opened" => Handle.size <= MaxSize
            /\ UNCHANGED since /\ Goes("read", Handle, f.handle, f.got)
  BY <1>1, CheckGoes
<1>3. CASE Refuse
  BY <1>2, <1>3, RefuseKeeps
<1>4. CASE ~Refuse
  <2>1. /\ Op.style.same => SameFile(Handle)
        /\ Op.style.capped = "opened" => Handle.size <= MaxSize
        /\ UNCHANGED since /\ Goes("read", Handle, f.handle, f.got)
    BY <1>2, <1>4
  <2>2. f.got \in Seq(Blocks) /\ "read" \in Steps /\ since'.rewritten \in BOOLEAN
    BY <1>1, <2>1 DEF ReaderOK, Steps
  <2>3. WorldOK' /\ ReaderOK' /\ Underway' /\ Op' = Op
    BY <1>2, <2>1, <2>2, GoesKeeps
  <2>4. UNCHANGED <<disk, path, since>> /\ Len(disk) \in Nat
    BY <1>1, <1>2, <2>1 DEF ReaderAlone, world, WorldOK
  <2>5. reader'.file.step = "read" /\ reader'.file.seen = Handle /\ reader'.file.handle = f.handle /\ reader'.file.got = f.got
    BY <2>1 DEF Goes
  <2>6. Reading
    BY <1>2 DEF Reading
  <2>7. f.handle \in 1 .. Len(disk) /\ Handle.inode = f.handle /\ f.got = <<>> /\ ~since.rewritten
    BY <1>1, <1>2, <2>4, <2>6 DEF FileOK, Handle
  <2>8. ASSUME Op.style # Plain
        PROVE  /\ f.handle = f.seen.inode /\ Handle = f.seen /\ Handle.size <= MaxSize
               /\ Begins(f.got, disk[f.handle])
    <3>1. Op.style.same /\ Op.style.capped \in {"before", "opened"}
      BY <1>1, <1>2, <2>8, OpIs, StylesAre
    <3>2. Handle = f.seen
      BY <2>1, <3>1 DEF SameFile
    <3>3. f.handle = f.seen.inode
      BY <2>7, <3>2
    <3>4. Op.style.capped = "before" => f.seen.size <= MaxSize
      BY <1>1, <2>6, <2>8 DEF FileOK
    <3>5. Len(disk[f.handle]) \in Nat
      <4>1. disk[f.handle] \in Seq(Blocks)
        BY <1>1, <2>7 DEF WorldOK
      <4> QED BY <4>1, LenProperties
    <3>6. Begins(f.got, disk[f.handle])
      BY <2>7, <3>5 DEF Begins
    <3> QED BY <2>1, <3>1, <3>2, <3>3, <3>4, <3>6
  <2>9. ASSUME Op.style # Plain
        PROVE  /\ \A g \in Files : g # Op.file => path[g].inode # f.seen.inode
               /\ disk[f.seen.inode] \in since.contents
    BY <1>1, <2>6, <2>9 DEF FileOK
  <2>13. ASSUME Op.style # Plain, reader.task \in Freezing, Op.file \in Candidate
         PROVE  Noticed(Op.file)'
    <3>1. Noticed(Op.file) /\ Handle = f.seen
      BY <1>1, <2>6, <2>8, <2>13 DEF FileOK
    <3>2. Goes("read", f.seen, f.handle, f.got)
      BY <2>1, <3>1
    <3> QED BY <1>2, <2>3, <3>1, <3>2, NoticedGoes DEF Noticed
  <2>14. reader'.task = reader.task
    BY <2>1 DEF Goes
  <2> DEFINE stat == Handle
  <2>11. stat.inode \in 1 .. Len(disk) /\ f.handle \in 0 .. Len(disk) /\ f.handle # 0
    BY <2>4, <2>7
  <2> HIDE DEF stat
  <2>12. /\ reader'.file.seen = stat
         /\ Op.style # Plain => /\ f.handle = stat.inode /\ stat.size <= MaxSize
                                /\ Begins(f.got, disk[stat.inode])
                                /\ \A g \in Files : g # Op.file => path[g].inode # stat.inode
                                /\ disk[stat.inode] \in since.contents
    BY <2>5, <2>8, <2>9 DEF stat
  <2>10. FileOK'
    BY <2>3, <2>4, <2>5, <2>7, <2>11, <2>12, <2>13, <2>14 DEF FileOK
  <2> QED BY <2>3, <2>10 DEF ReadingOK
<1> QED BY <1>3, <1>4

(* One more block is read. *)
LEMMA TakenIs ==
  ASSUME NEW S, NEW got \in Seq(S), NEW d \in Seq(S), Len(got) + 1 <= Len(d), NEW b \in S, b = d[Len(got) + 1]
  PROVE  /\ Append(got, b) \in Seq(S) /\ Len(Append(got, b)) = Len(got) + 1
         /\ Append(got, b)[Len(got) + 1] = b /\ \A i \in 1 .. Len(got) : Append(got, b)[i] = got[i]
         /\ Begins(got, d) => Begins(Append(got, b), d)
<1> DEFINE more == Append(got, b)
<1>1. /\ Len(got) \in Nat /\ Len(d) \in Nat /\ more \in Seq(S) /\ Len(more) = Len(got) + 1
      /\ more[Len(got) + 1] = b /\ \A i \in 1 .. Len(got) : more[i] = got[i]
  OBVIOUS
<1> HIDE DEF more
<1>2. ASSUME Begins(got, d) PROVE Begins(more, d)
  BY <1>1, <1>2 DEF Begins
<1> QED BY <1>1, <1>2 DEF more

LEMMA ConcludeKeeps ==
  ASSUME ReadingOK, ReaderAlone, Underway, Op.op = "read", Conclude
  PROVE  ReadingOK'
<1>1. Refuse \/ MovesOn(Noted)
  BY ConcludeIs DEF ReadingOK
<1> QED BY <1>1, RefuseKeeps, AloneGoesOn

LEMMA ReadKeeps ==
  ASSUME ReadingOK, ReadBlock
  PROVE  ReadingOK'
<1>1. WorldOK /\ ReaderOK /\ FileOK
  BY DEF ReadingOK
<1> DEFINE f == reader.file
           d == disk[f.handle]
           at == Len(f.got) + 1
<1>2. /\ ReaderAlone /\ Underway /\ Op.op = "read" /\ Op.file \in Files /\ f.step = "read"
      /\ f.handle \in 1 .. Len(disk) /\ d \in Seq(Blocks)
      /\ \/ Refuse
         \/ /\ at <= Len(d) /\ UNCHANGED since /\ d[at] \in Blocks
            /\ Goes("read", f.seen, f.handle, Append(f.got, d[at]))
         \/ Op.style.after /\ Goes("after", f.seen, f.handle, f.got) /\ UNCHANGED since
         \/ ~Op.style.after /\ Conclude
  BY <1>1, ReadGoes
<1>3. f.got \in Seq(Blocks) /\ since.rewritten \in BOOLEAN /\ Reading
  BY <1>1, <1>2 DEF ReaderOK, Reading
<1>4. UNCHANGED <<disk, path>> /\ Len(disk) \in Nat
  BY <1>1, <1>2 DEF ReaderAlone, world, WorldOK
<1>5. CASE Refuse
  BY <1>2, <1>5, RefuseKeeps
<1>6. CASE ~Op.style.after /\ Conclude
  BY <1>2, <1>6, ConcludeKeeps
<1>7. ASSUME Op.style # Plain
      PROVE  /\ f.handle = f.seen.inode /\ f.seen.size <= MaxSize
             /\ \A g \in Files : g # Op.file => path[g].inode # f.seen.inode
             /\ disk[f.seen.inode] \in since.contents
             /\ since.rewritten \/ Begins(f.got, d)
             /\ Op.style.capped = "before" => f.seen.size <= MaxSize
  BY <1>1, <1>2, <1>3, <1>7 DEF FileOK
<1>8. CASE Op.style.after /\ Goes("after", f.seen, f.handle, f.got) /\ UNCHANGED since
  <2>1. "after" \in Steps
    BY DEF Steps
  <2>2. WorldOK' /\ ReaderOK' /\ Underway' /\ Op' = Op
    BY <1>2, <1>3, <1>8, <2>1, GoesKeeps
  <2>3. reader'.file.step = "after" /\ reader'.file.seen = f.seen /\ reader'.file.handle = f.handle /\ reader'.file.got = f.got
    BY <1>8 DEF Goes
  <2>4. f.seen.inode \in 1 .. Len(disk) /\ f.handle \in 0 .. Len(disk) /\ f.handle # 0
    BY <1>1, <1>2, <1>3 DEF FileOK
  <2>8. ASSUME Op.style # Plain, reader.task \in Freezing, Op.file \in Candidate
        PROVE  Noticed(Op.file)'
    <3>1. Noticed(Op.file)
      BY <1>1, <1>3, <2>8 DEF FileOK
    <3> QED BY <1>2, <1>8, <2>2, <3>1, NoticedGoes DEF Noticed
  <2>9. reader'.task = reader.task
    BY <1>8 DEF Goes
  <2>5. FileOK'
    BY <1>4, <1>7, <1>8, <2>2, <2>3, <2>4, <2>8, <2>9 DEF FileOK
  <2> QED BY <2>2, <2>5 DEF ReadingOK
<1>9. CASE /\ at <= Len(d) /\ UNCHANGED since /\ d[at] \in Blocks
           /\ Goes("read", f.seen, f.handle, Append(f.got, d[at]))
  <2> DEFINE more == Append(f.got, d[at])
  <2>1. /\ more \in Seq(Blocks)
        /\ Len(more) = at /\ more[at] = d[at] /\ \A i \in 1 .. Len(f.got) : more[i] = f.got[i]
        /\ Begins(f.got, d) => Begins(more, d)
    <3>1. /\ f.got \in Seq(Blocks) /\ d \in Seq(Blocks)
          /\ Len(f.got) + 1 <= Len(d) /\ d[Len(f.got) + 1] \in Blocks
      BY <1>2, <1>3, <1>9
    <3> HIDE DEF d, f
    <3> QED BY ONLY <3>1, TakenIs DEF at, more
  <2>2. "read" \in Steps /\ Goes("read", f.seen, f.handle, more)
    BY <1>9 DEF Steps
  <2> HIDE DEF more
  <2>3. WorldOK' /\ ReaderOK' /\ Underway' /\ Op' = Op
    BY <1>2, <1>3, <1>9, <2>1, <2>2, GoesKeeps
  <2>4. reader'.file.step = "read" /\ reader'.file.seen = f.seen /\ reader'.file.handle = f.handle /\ reader'.file.got = more
    BY <2>2 DEF Goes
  <2>5. f.seen.inode \in 1 .. Len(disk) /\ f.handle \in 0 .. Len(disk) /\ f.handle # 0
    BY <1>1, <1>2, <1>3 DEF FileOK
  <2>6. Op.style # Plain => since.rewritten \/ Begins(more, d)
    BY <1>7, <2>1
  <2>8. ASSUME Op.style # Plain, reader.task \in Freezing, Op.file \in Candidate
        PROVE  Noticed(Op.file)'
    <3>1. Noticed(Op.file) /\ f.handle = f.seen.inode
      BY <1>1, <1>2, <1>3, <2>8 DEF FileOK
    <3>2. d \in Seq(Nat) /\ at \in 1 .. Len(d)
      <4>1. Len(f.got) \in Nat /\ Len(d) \in Nat
        BY <1>2, <1>3, LenProperties
      <4>2. at \in 1 .. Len(d)
        BY <1>9, <4>1
      <4>3. d \in Seq(Nat)
        <5>1. d \in Seq(Blocks)
          BY <1>2
        <5> HIDE DEF d
        <5> QED BY <5>1, BlocksAreNumbers
      <4> QED BY ONLY <4>2, <4>3
    <3>3. <<at, d[at]>> \in Marks(d)
      BY <3>2, MarksAre
    <3>4. <<at, d[at]>> \in Seen(Op.file)
      BY <3>1, <3>3 DEF Noticed
    <3>5. \A i \in 1 .. Len(more) : <<i, more[i]>> \in Seen(Op.file)
      <4>1. Len(f.got) \in Nat /\ \A i \in 1 .. Len(f.got) : <<i, f.got[i]>> \in Seen(Op.file)
        BY <1>3, <3>1, LenProperties DEF Noticed
      <4>2. ASSUME NEW i \in 1 .. Len(more), i \in 1 .. Len(f.got)
            PROVE  <<i, more[i]>> \in Seen(Op.file)
        BY <2>1, <4>1, <4>2
      <4>3. <<at, more[at]>> \in Seen(Op.file)
        BY <2>1, <3>4
      <4>4. ASSUME NEW i \in 1 .. Len(more)
            PROVE  i \in 1 .. Len(f.got) \/ i = at
        BY <2>1, <4>1
      <4> HIDE DEF at
      <4> QED BY <4>2, <4>3, <4>4
    <3> QED BY <1>2, <2>2, <2>3, <3>1, <3>5, NoticedGoes DEF Noticed
  <2>9. reader'.task = reader.task
    BY <2>2 DEF Goes
  <2>7. FileOK'
    BY <1>4, <1>7, <1>9, <2>3, <2>4, <2>5, <2>6, <2>8, <2>9 DEF FileOK
  <2> QED BY <2>3, <2>7 DEF ReadingOK
<1> QED BY <1>2, <1>5, <1>6, <1>8, <1>9

LEMMA AfterKeeps ==
  ASSUME ReadingOK, After
  PROVE  ReadingOK'
<1>1. WorldOK /\ ReaderOK /\ FileOK
  BY DEF ReadingOK
<1> DEFINE f == reader.file
<1>2. /\ ReaderAlone /\ Underway /\ Op.op = "read" /\ Op.file \in Files /\ f.step = "after"
      /\ \/ Refuse
         \/ /\ SameFile(Handle) /\ Len(f.got) = f.seen.size
            /\ \/ Op.style.again /\ Goes("again", f.seen, f.handle, f.got) /\ UNCHANGED since
               \/ ~Op.style.again /\ Conclude
  BY <1>1, AfterGoes
<1>3. f.got \in Seq(Blocks) /\ since.rewritten \in BOOLEAN /\ Reading
  BY <1>1, <1>2 DEF ReaderOK, Reading
<1>4. UNCHANGED <<disk, path>> /\ Len(disk) \in Nat
  BY <1>1, <1>2 DEF ReaderAlone, world, WorldOK
<1>5. CASE Refuse
  BY <1>2, <1>5, RefuseKeeps
<1>6. CASE ~Op.style.again /\ Conclude
  BY <1>2, <1>6, ConcludeKeeps
<1>7. ASSUME Op.style # Plain
      PROVE  /\ f.handle = f.seen.inode /\ f.seen.size <= MaxSize
             /\ \A g \in Files : g # Op.file => path[g].inode # f.seen.inode
             /\ disk[f.seen.inode] \in since.contents
             /\ since.rewritten \/ Begins(f.got, disk[f.seen.inode])
             /\ Op.style.capped = "before" => f.seen.size <= MaxSize
  BY <1>1, <1>2, <1>3, <1>7 DEF FileOK
<1>8. CASE Len(f.got) = f.seen.size /\ Goes("again", f.seen, f.handle, f.got) /\ UNCHANGED since
  <2>1. "again" \in Steps
    BY DEF Steps
  <2>2. WorldOK' /\ ReaderOK' /\ Underway' /\ Op' = Op
    BY <1>2, <1>3, <1>8, <2>1, GoesKeeps
  <2>3. reader'.file.step = "again" /\ reader'.file.seen = f.seen /\ reader'.file.handle = f.handle /\ reader'.file.got = f.got
    BY <1>8 DEF Goes
  <2>4. f.seen.inode \in 1 .. Len(disk) /\ f.handle \in 0 .. Len(disk) /\ f.handle # 0
    BY <1>1, <1>2, <1>3 DEF FileOK
  <2>8. ASSUME Op.style # Plain, reader.task \in Freezing, Op.file \in Candidate
        PROVE  Noticed(Op.file)'
    <3>1. Noticed(Op.file)
      BY <1>1, <1>3, <2>8 DEF FileOK
    <3> QED BY <1>2, <1>8, <2>2, <3>1, NoticedGoes DEF Noticed
  <2>9. reader'.task = reader.task
    BY <1>8 DEF Goes
  <2>5. FileOK'
    BY <1>4, <1>7, <1>8, <2>2, <2>3, <2>4, <2>8, <2>9 DEF FileOK
  <2> QED BY <2>2, <2>5 DEF ReadingOK
<1> QED BY <1>2, <1>5, <1>6, <1>8

LEMMA AgainKeeps ==
  ASSUME ReadingOK, LookAgain
  PROVE  ReadingOK'
<1>1. /\ ReaderAlone /\ Underway /\ Op.op = "read"
      /\ Refuse \/ Conclude
  BY AgainGoes DEF ReadingOK
<1> QED BY <1>1, RefuseKeeps, ConcludeKeeps

LEMMA AnswerKeeps ==
  ASSUME ReadingOK, ReadStatus \/ ReadHead
  PROVE  ReadingOK'
<1>1. /\ ReaderAlone /\ Underway
      /\ Refuse \/ \E log : MovesOn(log)
  BY StatusGoes, HeadGoes DEF ReadingOK
<1> QED BY <1>1, RefuseKeeps, AloneGoesOn

LEMMA BuildGoes ==
  ASSUME WorldOK, ReaderOK, RunCommand
  PROVE  /\ Underway /\ Op.op = "build" /\ Op.file \in Range(Artifacts)
         /\ \/ ReaderAlone /\ Refuse
            \/ /\ MovesOn(reader.log) /\ UNCHANGED <<tree, writes, undone>>
               /\ held' = held \cup {Moment'}
               /\ WorldOK' /\ DiskKeeps(0) /\ PathMoves(0)
               /\ \A g \in Files : g # Op.file => path'[g] = path[g]
<1>1. Underway /\ Op.op = "build"
  BY DEF RunCommand, Asks
<1>2. Op.file \in Range(Artifacts)
  BY <1>1, OpIs
<1>3. CASE Refuse /\ ReaderAlone
  BY <1>1, <1>2, <1>3
<1>4. CASE \E blocks \in NewContents :
             /\ NewFile(Op.file, blocks) /\ UNCHANGED <<tree, writes, undone>>
             /\ held' = held \cup {Moment'} /\ Advance(reader.log)
  <2>1. PICK blocks \in NewContents :
             /\ NewFile(Op.file, blocks) /\ UNCHANGED <<tree, writes, undone>>
             /\ held' = held \cup {Moment'} /\ Advance(reader.log)
    BY <1>4
  <2>2. Op.file \in Files
    BY <1>2, ArtifactsAre
  <2>3. PICK r \in Fields : Elsewhere(Op.file, r)
    BY <2>1, <2>2, NewFileIs
  <2>4. writes' \in 0 .. MaxWrites /\ tree' \in [head : Nat, state : Trees]
    BY <2>1 DEF WorldOK
  <2>5. /\ WorldOK' /\ DiskKeeps(0) /\ PathMoves(0)
        /\ \A g \in Files : g # Op.file => path'[g] = path[g]
    BY <2>2, <2>3, <2>4, ElsewhereIs
  <2>6. reader.log \in LogFields
    BY DEF ReaderOK, ReaderFields
  <2>7. MovesOn(reader.log)
    BY <1>1, <2>1, <2>6, AdvanceIs
  <2> QED BY <1>1, <1>2, <2>1, <2>5, <2>7
<1> QED BY <1>3, <1>4 DEF RunCommand

LEMMA BuildKeeps ==
  ASSUME ReadingOK, RunCommand
  PROVE  ReadingOK'
<1>1. WorldOK /\ ReaderOK /\ undone \in BOOLEAN
  BY DEF ReadingOK, ReaderOK
<1>2. /\ Underway
      /\ \/ ReaderAlone /\ Refuse
         \/ MovesOn(reader.log) /\ undone' = undone /\ Moment' \in held' /\ WorldOK'
  BY <1>1, BuildGoes
<1> QED BY <1>1, <1>2, RefuseKeeps, MovingOnKeeps

(* Every reading, under anything the others do.                              *)
LEMMA ReaderKeeps ==
  ASSUME ReadingOK, ReaderNext
  PROVE  ReadingOK'
BY LookKeeps, OpenKeeps, CheckKeeps, ReadKeeps, AfterKeeps, AgainKeeps, AnswerKeeps, BuildKeeps DEF ReaderNext

LEMMA OthersStep ==
  ASSUME ReadingOK, CandidateNext, ~ReaderNext
  PROVE  \E n : WorldStep(n)
<1>1. WorldOK /\ reader.task \in Tasks
  BY DEF ReadingOK, ReaderOK, ReaderFields
<1>2. Writable \subseteq Files
  <2>1. Program(reader.task) \in Seq(Question)
    BY <1>1, ProgramAsks
  <2>2. ASSUME NEW j \in DOMAIN Program(reader.task), Program(reader.task)[j].op = "read"
        PROVE  Program(reader.task)[j].file \in Files
    <3>1. Program(reader.task)[j] \in Question
      BY <2>1
    <3> QED BY <2>2, <3>1, QuestionIs
  <2>3. ReadBy(Program(reader.task)) \subseteq Files
    BY <2>2 DEF ReadBy
  <2> QED BY <2>3, ArtifactsAre DEF Writable
<1>3. CASE \E file \in Writable : WriteInPlace(file) \/ Replace(file)
  BY <1>1, <1>2, <1>3, WriteSteps, ReplaceSteps
<1>4. CASE Checkout
  BY <1>1, <1>4, CheckoutSteps
<1>5. CASE Litter
  BY <1>1, <1>5, LitterSteps
<1> QED BY <1>3, <1>4, <1>5 DEF CandidateNext

LEMMA WorldKeeps ==
  ASSUME ReadingOK, NEW n, WorldStep(n)
  PROVE  ReadingOK'
BY ReaderStays, FileKeeps DEF ReadingOK, WorldStep

LEMMA ReadingStaysOK ==
  ASSUME ReadingOK, [CandidateNext]_candidateVars
  PROVE  ReadingOK'
<1>1. CASE ReaderNext
  BY <1>1, ReaderKeeps
<1>2. CASE CandidateNext /\ ~ReaderNext
  BY <1>2, OthersStep, WorldKeeps
<1>3. CASE UNCHANGED candidateVars
  <2> USE <1>3 DEF candidateVars
  <2>1. WorldOK'
    BY DEF ReadingOK, WorldOK
  <2>2. ReaderOK'
    BY DEF ReadingOK, ReaderOK, Moment, Content, NoContent, ReaderFields, Begin
  <2>3. FileOK'
    <3>1. ASSUME NEW f
          PROVE  Noticed(f)' <=> Noticed(f)
      BY DEF Noticed, Seen
    <3>2. Op' = Op /\ (Reading' <=> Reading) /\ FileOK
      BY DEF ReadingOK, Reading, Underway, Op
    <3> QED BY <3>1, <3>2 DEF FileOK
  <2> QED BY <2>1, <2>2, <2>3 DEF ReadingOK
<1> QED BY <1>1, <1>2, <1>3

LEMMA FilesAreFinite == IsFiniteSet(Files)
<1>1. IsFiniteSet(1 .. Len(Artifacts))
  BY CandidateAssumption, LenProperties, FS_Interval
<1>2. Artifacts \in Surjection(1 .. Len(Artifacts), Range(Artifacts))
  BY ArtifactsAre, LenProperties DEF Surjection
<1>3. IsFiniteSet(Range(Artifacts))
  BY <1>1, <1>2, FS_Surjection
<1>4. IsFiniteSet({"package-lock"})
  BY FS_Singleton
<1>5. IsFiniteSet(Candidate)
  BY <1>3, <1>4, FS_Union DEF Candidate, Tracked
<1>6. IsFiniteSet({"manifest", "evidence", "result"})
  <2>1. IsFiniteSet({"manifest"})
    BY FS_Singleton
  <2>2. IsFiniteSet({"manifest"} \cup {"evidence"})
    BY <2>1, FS_AddElement
  <2>3. IsFiniteSet(({"manifest"} \cup {"evidence"}) \cup {"result"})
    BY <2>2, FS_AddElement
  <2>4. ({"manifest"} \cup {"evidence"}) \cup {"result"} = {"manifest", "evidence", "result"}
    OBVIOUS
  <2> QED BY <2>3, <2>4
<1> QED BY <1>5, <1>6, FS_Union DEF Files

LEMMA InodesAre ==
  /\ Cardinality(Files) \in Nat
  /\ Inodes \in [1 .. Cardinality(Files) -> Files]
  /\ \A i, j \in 1 .. Cardinality(Files) : Inodes[i] = Inodes[j] => i = j
  /\ \A f \in Files : \E i \in 1 .. Cardinality(Files) : Inodes[i] = f
<1> DEFINE n == Cardinality(Files)
<1>1. n \in Nat /\ ExistsBijection(1 .. n, Files)
  BY FilesAreFinite, FS_CardinalityType
<1>2. \E f \in [1 .. n -> Files] : IsInjective(f)
  BY <1>1 DEF ExistsBijection, Bijection, Injection, IsInjective
<1>3. Inodes \in [1 .. n -> Files] /\ IsInjective(Inodes)
  BY <1>2 DEF Inodes, SetToSeq
<1> HIDE DEF n
<1>4. Inodes \in Injection(1 .. n, Files)
  BY <1>3 DEF Injection, IsInjective
<1>5. IsFiniteSet(1 .. n) /\ Cardinality(1 .. n) = n
  BY <1>1, FS_Interval
<1>6. Cardinality(1 .. n) = Cardinality(Files)
  BY <1>5 DEF n
<1>7. Inodes \in Surjection(1 .. n, Files)
  BY <1>4, <1>6, FilesAreFinite, FS_Injection
<1>8. \A f \in Files : \E i \in 1 .. n : Inodes[i] = f
  BY <1>7 DEF Surjection
<1>9. \A i, j \in 1 .. n : Inodes[i] = Inodes[j] => i = j
  BY <1>3 DEF IsInjective
<1> QED BY <1>1, <1>3, <1>8, <1>9 DEF n

LEMMA InitOK ==
  ASSUME CandidateInit
  PROVE  ReadingOK
<1> DEFINE n == Cardinality(Files)
<1>1. /\ path = [file \in Files |-> [kind |-> "file", inode |-> CHOOSE i \in DOMAIN Inodes : Inodes[i] = file]]
      /\ disk = [i \in DOMAIN Inodes |-> Original(Inodes[i])]
      /\ tree = [head |-> 0, state |-> "clean"] /\ writes = 0 /\ held = {Moment} /\ since = Nothing /\ undone = FALSE
  BY DEF CandidateInit
<1>2. n \in Nat /\ DOMAIN Inodes = 1 .. n /\ \A i \in 1 .. n : Inodes[i] \in Files
  BY InodesAre
<1>3. \A f : Original(f) \in Seq(Blocks) /\ Original(f) \in Seq(Nat)
  <2>1. <<0>> \in Seq(Blocks) /\ <<0, 0>> \in Seq(Blocks)
    BY CandidateAssumption
  <2>2. <<0>> \in Seq(Nat) /\ <<0, 0>> \in Seq(Nat)
    OBVIOUS
  <2> QED BY <2>1, <2>2 DEF Original
<1>4. disk \in Seq(Seq(Blocks)) /\ Len(disk) = n /\ \A i \in 1 .. n : disk[i] = Original(Inodes[i])
  <2>1. disk \in [1 .. n -> Seq(Blocks)]
    BY <1>1, <1>2, <1>3
  <2>2. Seq(Seq(Blocks)) = UNION {[1 .. m -> Seq(Blocks)] : m \in Nat}
    BY SeqDef
  <2>3. disk \in Seq(Seq(Blocks))
    BY <1>2, <2>1, <2>2
  <2>4. DOMAIN disk = 1 .. n
    BY <1>1, <1>2
  <2>5. Len(disk) = n
    BY <1>2, <2>3, <2>4, LenProperties
  <2> QED BY <1>1, <1>2, <2>3, <2>5
<1>5. ASSUME NEW f \in Files
      PROVE  /\ path[f] \in Fields /\ path[f].kind = "file" /\ path[f].inode \in 1 .. n
             /\ Inodes[path[f].inode] = f
  <2> DEFINE i == CHOOSE k \in DOMAIN Inodes : Inodes[k] = f
  <2>1. i \in 1 .. n /\ Inodes[i] = f
    BY <1>2, InodesAre
  <2>2. path[f] = [kind |-> "file", inode |-> i]
    BY <1>1
  <2> HIDE DEF i
  <2> QED BY <1>2, <2>1, <2>2 DEF Fields, EntryKinds
<1>6. WorldOK
  <2>1. path \in [Files -> Fields]
    BY <1>1, <1>5
  <2>2. tree \in [head : Nat, state : Trees]
    BY <1>1 DEF Trees
  <2>3. writes \in 0 .. MaxWrites
    BY <1>1, CandidateAssumption
  <2>4. \A f, g \in Files : path[f].inode = path[g].inode => f = g
    BY <1>5
  <2>5. \A f \in Files : path[f].inode \in 0 .. Len(disk) /\ path[f].inode # 0
    BY <1>2, <1>4, <1>5
  <2> QED BY <1>4, <2>1, <2>2, <2>3, <2>4, <2>5 DEF WorldOK
<1>8. PICK task \in Tasks, record \in Recorded \cup {AsItIs} :
        reader = [task |-> task, left |-> Program(task), file |-> Begin, verdict |-> "running",
                  log |-> [record EXCEPT !.of = [file \in Files |->
                             IF file \in Candidate THEN record.of[file] ELSE Original(file)]]]
  BY DEF CandidateInit
<1>9. record \in [head : Nat, of : [Candidate -> Seq(Nat)]]
  <2>1. AsItIs \in [head : Nat, of : [Candidate -> Seq(Nat)]]
    BY <1>3 DEF AsItIs
  <2> QED BY <2>1, CandidateAssumption
<1> DEFINE of == [file \in Files |-> IF file \in Candidate THEN record.of[file] ELSE Original(file)]
           log == [record EXCEPT !.of = of]
<1>10. of \in [Files -> Seq(Nat)]
  BY <1>3, <1>9
<1> HIDE DEF of
<1>11. log \in LogFields
  BY <1>9, <1>10 DEF LogFields
<1>12. Begin \in FileFields /\ Begin.got = <<>> /\ Begin.step = "look"
  BY DEF Begin, FileFields, Steps, Stats
<1>13. Program(task) \in Seq(Question) /\ Program(task) # <<>>
  BY ProgramAsks
<1>14. reader = [task |-> task, left |-> Program(task), file |-> Begin, verdict |-> "running", log |-> log]
  BY <1>8 DEF of
<1> HIDE DEF log, Begin
<1>15. /\ reader \in ReaderFields /\ reader.verdict = "running" /\ reader.left # <<>>
       /\ reader.file = Begin
  BY <1>11, <1>12, <1>13, <1>14 DEF ReaderFields, Verdicts
<1>16. ReaderOK
  <2>1. since.rewritten \in BOOLEAN /\ undone \in BOOLEAN
    BY <1>1 DEF Nothing
  <2>2. <<>> \in Seq(Blocks)
    BY EmptySeq
  <2> QED BY <1>1, <1>12, <1>15, <2>1, <2>2 DEF ReaderOK
<1>17. FileOK
  BY <1>12, <1>15 DEF FileOK, Reading
<1> QED BY <1>6, <1>16, <1>17 DEF ReadingOK

(* The first half of ReadingIsReal.                                          *)
LEMMA FilesAreWhole ==
  ASSUME ReadingOK
  PROVE  FileIsWhole
<1> DEFINE f == reader.file
           s == f.seen.inode
<1>1. WorldOK /\ ReaderOK /\ FileOK
  BY DEF ReadingOK
<1>2. ASSUME Asks("read"), Op.style # Plain, Len(f.got) = f.seen.size, Handle.size = f.seen.size,
             f.step \in {"after", "again"}
      PROVE  /\ Len(f.got) <= MaxSize
             /\ f.got \in since.contents \/ (since.rewritten /\ Handle.size = Len(f.got))
  <2>1. Underway /\ Op.op = "read" /\ Reading
    BY <1>2 DEF Asks, Reading
  <2>2. /\ s \in 1 .. Len(disk) /\ f.handle = s /\ f.seen.size <= MaxSize
        /\ disk[s] \in since.contents
        /\ since.rewritten \/ Begins(f.got, disk[s])
    BY <1>1, <1>2, <2>1 DEF FileOK
  <2>3. disk[s] \in Seq(Blocks) /\ f.got \in Seq(Blocks)
    BY <1>1, <2>2 DEF WorldOK, ReaderOK
  <2>4. Handle.size = Len(disk[s])
    BY <2>2 DEF Handle, Size
  <2>5. CASE since.rewritten
    BY <1>2, <2>2, <2>5
  <2>6. CASE ~since.rewritten
    <3>1. f.got = disk[s]
      BY <1>2, <2>2, <2>3, <2>4, <2>6, BeginsWhole
    <3> QED BY <1>2, <2>2, <3>1
  <2> QED BY <2>5, <2>6
<1>3. CASE Reads("after") /\ ~Op.style.again /\ SameFile(Handle) /\ Len(f.got) = f.seen.size
  <2>1. Handle.size = f.seen.size /\ Asks("read") /\ f.step = "after"
    BY <1>3 DEF SameFile, Reads
  <2> QED BY <1>2, <1>3, <2>1 DEF FileIsWhole
<1>4. CASE Reads("again") /\ path[Op.file].kind = "file"
             /\ SameFile([inode |-> path[Op.file].inode, size |-> Size(path[Op.file].inode)])
  <2> SUFFICES ASSUME Op.style # Plain
               PROVE  /\ Len(f.got) <= MaxSize
                      /\ f.got \in since.contents \/ (since.rewritten /\ Handle.size = Len(f.got))
    BY DEF FileIsWhole
  <2>1. Asks("read") /\ f.step = "again" /\ Reading
    BY <1>4 DEF Reads, Asks, Reading
  <2>2. Len(f.got) = f.seen.size /\ f.handle = s
    BY <1>1, <2>1 DEF FileOK
  <2>3. path[Op.file].inode = s /\ Size(path[Op.file].inode) = f.seen.size
    BY <1>4 DEF SameFile
  <2>4. Handle.size = f.seen.size
    BY <2>2, <2>3 DEF Handle
  <2> QED BY <1>2, <2>1, <2>2, <2>4
<1>5. CASE Reads("read") /\ ~Op.style.after
  <2>1. Op.style = Plain
    <3>1. Op.style \in Styles
      BY <1>1, <1>5, OpIs DEF Reads, Asks
    <3> QED BY <1>5, <3>1, StylesAre
  <2> QED BY <2>1 DEF FileIsWhole
<1> QED BY <1>3, <1>4, <1>5 DEF FileIsWhole

-----------------------------------------------------------------------------
(* What is known of the candidate while a program freezes it *)

Wanted(f) == reader.log.of[f]
TreeMoved == tree.head # reader.log.head \/ tree.state = "dirty"
HeadKnown ==
  /\ \E moment \in held : moment.head = reader.log.head
  /\ \A i \in 1 .. Len(reader.left) : IsHead(reader.left[i]) => reader.left[i].as = "same"

(* A file was read: all that is wanted of it was seen in it.                 *)
Known(f) == Marks(Wanted(f)) \subseteq Seen(f)
Lost(f) == Known(f) /\ Content(f) # Wanted(f)

LockHeld == HeadKnown /\ (TreeMoved \/ Content(Lock) = Wanted(Lock))

(* Before the last reading of the lock file and of each artifact.            *)
FrontOK ==
  /\ \A a \in Range(Artifacts) : Known(a) \/ Ahead(reader.left, Rest(reader.task), a)
  /\ LockHeld \/ Ahead(reader.left, Rest(reader.task), Lock)

(* What is not as it was at the moment in question will be found out.        *)
AsksHead(q) == \E i \in 1 .. Len(q) : IsHead(q[i])
TreeDoom ==
  \/ Confirms(reader.left) /\ TreeMoved
  \/ AsksHead(reader.left) /\ tree.head # reader.log.head
Comes(f) ==
  \E i \in 1 .. Len(reader.left) : ReadsFile(reader.left[i], f) /\ (i = 1 => reader.file.step = "look")
ReadWrong(f) ==
  \/ reader.file.seen.size # Len(Wanted(f))
  \/ \E i \in 1 .. Len(Wanted(f)) :
       IF i <= Len(reader.file.got) THEN reader.file.got[i] # Wanted(f)[i]
       ELSE ~(i <= Len(disk[reader.file.seen.inode]) /\ disk[reader.file.seen.inode][i] = Wanted(f)[i])
FileDoom(f) ==
  /\ Known(f)
  /\ \/ Content(f) # Wanted(f) /\ Comes(f)
     \/ Reading /\ Op.file = f /\ ReadWrong(f)

TreeWas(moment) ==
  \/ /\ moment.head = reader.log.head /\ moment.state # "dirty"
     /\ moment.of[Lock] = Wanted(Lock)
  \/ TreeDoom
RestOK ==
  /\ HeadKnown
  /\ \E moment \in held :
       /\ TreeWas(moment)
       /\ \A a \in Range(Artifacts) : moment.of[a] = Wanted(a) \/ FileDoom(a)

Freezes == reader.task \in Freezing /\ reader.verdict # "refused" /\ ~undone
FreezingOK ==
  Freezes =>
    /\ Plan(reader.left, Rest(reader.task))
    /\ HeadKnown \/ HeadFirst(reader.left)
    /\ Reading /\ Op.file = Lock => TreeMoved \/ ~since.rewritten
    /\ IF Len(reader.left) > Rest(reader.task) THEN FrontOK ELSE RestOK

(* When a program is accepted nothing is left that could be found out.       *)
LEMMA CandidatesAreReal ==
  ASSUME ReadingOK, FreezingOK
  PROVE  CandidateIsReal
<1> SUFFICES ASSUME reader.verdict = "accepted", reader.task \in Freezing, ~undone
             PROVE  \E moment \in held :
                      /\ moment.head = reader.log.head /\ moment.state # "dirty"
                      /\ \A file \in Candidate : moment.of[file] = reader.log.of[file]
  BY DEF CandidateIsReal
<1>1. Freezes /\ ~Underway
  BY DEF Freezes, Underway
<1>2. reader.left = <<>> /\ Len(reader.left) = 0
  BY DEF ReadingOK, ReaderOK
<1>3. Rest(reader.task) \in Nat \ {0}
  BY PlanStart
<1>4. RestOK
  BY <1>1, <1>2, <1>3 DEF FreezingOK
<1>5. PICK moment \in held : /\ TreeWas(moment)
                             /\ \A a \in Range(Artifacts) : moment.of[a] = Wanted(a) \/ FileDoom(a)
  BY <1>4 DEF RestOK
<1>6. ~TreeDoom
  BY <1>2 DEF TreeDoom, Confirms, AsksHead
<1>7. \A a : ~FileDoom(a)
  BY <1>1, <1>2 DEF FileDoom, Comes, Reading
<1> QED BY <1>5, <1>6, <1>7 DEF TreeWas, Candidate, Tracked, Wanted, Lock

LEMMA FreezingStarts ==
  ASSUME CandidateInit
  PROVE  FreezingOK
<1> SUFFICES ASSUME Freezes PROVE FreezingOK
  BY DEF FreezingOK
<1>1. reader.left = Program(reader.task) /\ reader.file = Begin
  BY DEF CandidateInit
<1>2. reader.task \in Freezing
  BY DEF Freezes
<1>3. /\ Plan(reader.left, Rest(reader.task)) /\ HeadFirst(reader.left) /\ Rest(reader.task) \in Nat \ {0}
      /\ \A a \in Candidate : Ahead(reader.left, Rest(reader.task), a)
  BY <1>1, <1>2, PlanStart
<1>4. Len(reader.left) > Rest(reader.task)
  <2>1. Ahead(reader.left, Rest(reader.task), Lock)
    BY <1>3, ArtifactsAre
  <2>2. reader.left \in Seq(Careful)
    BY <1>3 DEF Plan
  <2>3. Len(reader.left) \in Nat
    BY <2>2, LenProperties
  <2> QED BY <1>3, <2>1, <2>3 DEF Ahead
<1>5. FrontOK
  BY <1>3, ArtifactsAre DEF FrontOK
<1>6. ~Reading
  BY <1>1 DEF Reading, Begin
<1> QED BY <1>3, <1>4, <1>5, <1>6 DEF FreezingOK

-----------------------------------------------------------------------------
(* What is known, when the others act *)

LEMMA ContentIs ==
  ASSUME WorldOK, NEW f \in Files
  PROVE  Content(f) = NoContent \/ Content(f) \in Seq(Nat)
<1>1. CASE path[f].kind = "file"
  <2>1. path[f].inode \in 1 .. Len(disk) /\ Content(f) = disk[path[f].inode]
    BY <1>1 DEF WorldOK, Content
  <2>2. disk[path[f].inode] \in Seq(Blocks)
    BY <2>1 DEF WorldOK
  <2> QED BY <2>1, <2>2, BlocksAreNumbers
<1>2. CASE path[f].kind # "file"
  BY <1>2 DEF Content
<1> QED BY <1>1, <1>2

LEMMA MarkIs ==
  ASSUME NEW c \in Seq(Nat), NEW i \in Nat \ {0}, NEW v
  PROVE  <<i, v>> \in Marks(c) <=> i <= Len(c) /\ c[i] = v
<1>1. Len(c) \in Nat /\ Marks(c) = {<<0, Len(c)>>} \cup {<<j, c[j]>> : j \in 1 .. Len(c)}
  BY MarksAre, LenProperties
<1>2. ASSUME <<i, v>> \in Marks(c) PROVE i <= Len(c) /\ c[i] = v
  <2>1. <<i, v>> # <<0, Len(c)>>
    OBVIOUS
  <2>2. PICK j \in 1 .. Len(c) : <<i, v>> = <<j, c[j]>>
    BY <1>1, <1>2, <2>1
  <2> QED BY <1>1, <2>2
<1>3. ASSUME i <= Len(c), c[i] = v PROVE <<i, v>> \in Marks(c)
  <2>1. i \in 1 .. Len(c)
    BY <1>1, <1>3
  <2> QED BY <1>1, <1>3, <2>1
<1> QED BY <1>2, <1>3

(* The marks of a content tell it from every other. *)
LEMMA MarksTell ==
  ASSUME NEW w \in Seq(Nat), NEW c \in Seq(Nat), Marks(w) \subseteq Marks(c)
  PROVE  w = c
<1>1. Len(w) \in Nat /\ Len(c) \in Nat
  BY LenProperties
<1>2. Len(w) = Len(c)
  <2>1. <<0, Len(w)>> \in Marks(c) /\ Marks(c) = {<<0, Len(c)>>} \cup {<<j, c[j]>> : j \in 1 .. Len(c)}
    BY MarksAre
  <2>2. ASSUME NEW j \in 1 .. Len(c) PROVE <<0, Len(w)>> # <<j, c[j]>>
    BY <1>1
  <2> QED BY <2>1, <2>2
<1>3. ASSUME NEW i \in 1 .. Len(w) PROVE w[i] = c[i]
  <2>1. i \in Nat \ {0} /\ i <= Len(w)
    BY <1>1
  <2>2. <<i, w[i]>> \in Marks(w)
    BY <2>1, MarkIs
  <2> QED BY <2>1, <2>2, MarkIs
<1> QED BY <1>2, <1>3, SeqEqual

(* The others act under a program that goes on, and bring nothing back.      *)
LEMMA OnwardIs ==
  ASSUME ReadingOK, NEW n, WorldStep(n), Freezes'
  PROVE  /\ Freezes /\ ~Undoing /\ held \subseteq held' /\ Moment' \in held' /\ Moment \in held
         /\ UNCHANGED reader /\ WorldOK /\ StatusIsTrue
         /\ \A f \in Files : Wanted(f) \in Seq(Nat) /\ Wanted(f)' = Wanted(f)
<1>1. UNCHANGED reader /\ Watch(n) /\ StatusIsTrue /\ WorldOK /\ ReaderOK
  BY DEF WorldStep, ReadingOK
<1>2. reader.task \in Freezing /\ reader.verdict # "refused" /\ ~undone'
  BY <1>1 DEF Freezes
<1>3. held' = held \cup {Moment'} /\ ~undone /\ ~Undoing
  BY <1>1, <1>2 DEF Watch
<1>4. Moment \in held
  BY <1>1, <1>2 DEF ReaderOK
<1>5. \A f \in Files : Wanted(f) \in Seq(Nat) /\ Wanted(f)' = Wanted(f)
  BY <1>1 DEF ReaderOK, ReaderFields, LogFields, Wanted
<1> QED BY <1>1, <1>2, <1>3, <1>4, <1>5 DEF Freezes

(* A commit that is known, and has moved on, does not come back.             *)
LEMMA MovedStays ==
  ASSUME ReadingOK, NEW n, WorldStep(n), Freezes', HeadKnown
  PROVE  /\ HeadKnown' /\ (TreeMoved => TreeMoved')
         /\ tree.head # reader.log.head => tree'.head # reader'.log.head
         /\ Content(Lock)' = Content(Lock) \/ TreeMoved'
<1>1. /\ ~Undoing /\ held \subseteq held' /\ Moment \in held /\ UNCHANGED reader /\ StatusIsTrue
      /\ \E moment \in held : moment.head = reader.log.head
      /\ \A i \in 1 .. Len(reader.left) : IsHead(reader.left[i]) => reader.left[i].as = "same"
  BY OnwardIs DEF HeadKnown
<1>2. HeadKnown'
  BY <1>1 DEF HeadKnown
<1>3. tree.head # reader.log.head => tree'.head # reader'.log.head
  BY <1>1 DEF Undoing
<1>4. TreeMoved => TreeMoved'
  BY <1>1, <1>3 DEF Undoing, TreeMoved
<1>5. ASSUME ~TreeMoved' PROVE Content(Lock)' = Content(Lock)
  <2>1. tree'.head = tree.head /\ tree'.state # "dirty" /\ tree.state # "dirty"
    BY <1>1, <1>4, <1>5 DEF TreeMoved
  <2>2. Moment.head = tree.head /\ Moment.state = tree.state /\ Moment.of[Lock] = Content(Lock)
    BY ArtifactsAre DEF Moment
  <2> QED BY <1>1, <2>1, <2>2 DEF StatusIsTrue, Lock
<1> QED BY <1>2, <1>3, <1>4, <1>5

LEMMA KnownStays ==
  ASSUME ReadingOK, NEW n, WorldStep(n), Freezes', NEW f \in Candidate, Known(f)
  PROVE  Known(f)' /\ (Content(f) # Wanted(f) => Content(f)' # Wanted(f))
<1>1. f \in Files
  BY ArtifactsAre
<1>2. /\ ~Undoing /\ held \subseteq held' /\ WorldOK
      /\ Wanted(f) \in Seq(Nat) /\ Wanted(f)' = Wanted(f)
  BY <1>1, OnwardIs
<1>3. Known(f)'
  BY <1>2, SeenStays DEF Known
<1>4. ASSUME Content(f)' = Wanted(f), Content(f) # Wanted(f) PROVE FALSE
  <2>1. Marks(Wanted(f)) \subseteq Marks(Content(f))
    BY <1>2, <1>4 DEF Undoing, Known
  <2> DEFINE w == Wanted(f)
             c == Content(f)
  <2>2. w \in Seq(Nat) /\ (c = NoContent \/ c \in Seq(Nat)) /\ Marks(w) \subseteq Marks(c) /\ c # w
    BY <1>1, <1>2, <1>4, <2>1, ContentIs
  <2> HIDE DEF w, c
  <2>3. <<0, Len(w)>> \in Marks(w)
    BY <2>2, MarksAre
  <2>4. c # NoContent
    BY <2>2, <2>3 DEF Marks
  <2> QED BY <2>2, <2>4, MarksTell
<1> QED BY <1>3, <1>4

(* What was read wrongly, or will be, stays wrong.                           *)
LEMMA WrongStays ==
  ASSUME ReadingOK, NEW n, WorldStep(n), Freezes', Reading, NEW f \in Candidate, Op.file = f,
         Op.style # Plain, Known(f), ReadWrong(f)
  PROVE  ReadWrong(f)' /\ Reading'
<1> DEFINE file == reader.file
           s == file.seen.inode
           wanted == Wanted(f)
<1>1. f \in Files
  BY ArtifactsAre
<1>2. /\ UNCHANGED reader /\ ~Undoing /\ WorldOK /\ WorldOK' /\ DiskKeeps(n) /\ PathMoves(n) /\ FileOK
      /\ wanted \in Seq(Nat) /\ wanted' = wanted
  BY <1>1, OnwardIs DEF WorldStep, ReadingOK
<1>3. Reading'
  BY <1>2 DEF Reading, Underway, Op
<1>4. s \in 1 .. Len(disk) /\ \A g \in Files : g # f => path[g].inode # s
  BY <1>2 DEF FileOK
<1>5. disk[s] \in Seq(Nat) /\ disk'[s] \in Seq(Nat)
  <2>1. disk[s] \in Seq(Blocks)
    BY <1>2, <1>4, ElementOfSeq DEF WorldOK
  <2>2. disk' \in Seq(Seq(Blocks)) /\ Len(disk) <= Len(disk') /\ Len(disk) \in Nat /\ Len(disk') \in Nat
    BY <1>2, LenProperties DEF WorldOK, DiskKeeps
  <2>3. s \in 1 .. Len(disk')
    BY <1>4, <2>2
  <2>4. disk'[s] \in Seq(Blocks)
    BY <2>2, <2>3, ElementOfSeq
  <2> QED BY <2>1, <2>4, BlocksAreNumbers
<1>6. CASE file.seen.size # Len(wanted)
  BY <1>2, <1>3, <1>6 DEF ReadWrong
<1>7. CASE \E i \in 1 .. Len(wanted) :
             IF i <= Len(file.got) THEN file.got[i] # wanted[i]
             ELSE ~(i <= Len(disk[s]) /\ disk[s][i] = wanted[i])
  <2>1. PICK i \in 1 .. Len(wanted) :
             IF i <= Len(file.got) THEN file.got[i] # wanted[i]
             ELSE ~(i <= Len(disk[s]) /\ disk[s][i] = wanted[i])
    BY <1>7
  <2>2. i \in Nat \ {0} /\ i <= Len(wanted)
    BY <2>1
  <2>3. ASSUME i <= Len(disk'[s]), disk'[s][i] = wanted[i]
        PROVE  i <= Len(disk[s]) /\ disk[s][i] = wanted[i]
    <3>1. CASE n # s
      BY <1>2, <1>4, <2>3, <3>1 DEF DiskKeeps
    <3>2. CASE n = s
      <4>1. PICK g \in Files : path[g].kind = "file" /\ path[g].inode = s /\ path' = path
        BY <1>2, <1>4, <3>2 DEF PathMoves
      <4>2. g = f
        BY <1>4, <4>1
      <4>3. Content(f) = disk[s] /\ Content(f)' = disk'[s]
        BY <4>1, <4>2 DEF Content
      <4>4. <<i, wanted[i]>> \in Seen(f)
        <5>1. <<i, wanted[i]>> \in Marks(wanted)
          <6> HIDE DEF wanted
          <6> QED BY <1>2, <2>2, MarkIs
        <5> QED BY <5>1 DEF Known
      <4>5. <<i, wanted[i]>> \in Marks(disk'[s])
        BY <1>5, <2>2, <2>3, MarkIs
      <4>6. <<i, wanted[i]>> \in Marks(disk[s])
        BY <1>2, <4>3, <4>4, <4>5 DEF Undoing
      <4> QED BY <1>5, <2>2, <4>6, MarkIs
    <3> QED BY <3>1, <3>2
  <2>4. IF i <= Len(file.got) THEN file.got[i] # wanted[i]
        ELSE ~(i <= Len(disk'[s]) /\ disk'[s][i] = wanted[i])
    BY <2>1, <2>3
  <2> QED BY <1>2, <1>3, <2>1, <2>4 DEF ReadWrong, Wanted
<1> QED BY <1>6, <1>7 DEF ReadWrong

(* What is being asked now is the first question that is left.               *)
LEMMA AskedIs ==
  ASSUME ReadingOK, Underway, NEW b, Plan(reader.left, b)
  PROVE  /\ Op \in Careful /\ Len(reader.left) \in Nat \ {0} /\ 1 \in 1 .. Len(reader.left)
         /\ Op.op = "read" /\ Op.file \in Candidate => Op.style = Stable
         /\ ReadsFile(Op, Lock) => ~HeadFirst(reader.left)
         /\ HeadFirst(reader.left) => Op.op # "read" \/ Op.file # Lock
<1> DEFINE q == reader.left
<1>1. q \in Seq(Careful) /\ q # <<>>
  BY DEF Plan, ReadingOK, ReaderOK, Underway
<1>2. Len(q) \in Nat \ {0} /\ 1 \in 1 .. Len(q)
  <2> HIDE DEF q
  <2>1. Len(q) \in Nat /\ Len(q) # 0
    BY <1>1, EmptySeq, LenProperties
  <2> QED BY <2>1
<1>3. Op \in Careful
  BY <1>1, <1>2 DEF Op
<1>4. ASSUME ReadsFile(Op, Lock), HeadFirst(q) PROVE FALSE
  <2>1. PICK i \in 1 .. Len(q) : \A j \in 1 .. i : ~ReadsFile(q[j], Lock)
    BY <1>4 DEF HeadFirst
  <2>2. 1 \in 1 .. i
    BY <1>2, <2>1
  <2> QED BY <1>4, <2>1, <2>2 DEF Op
<1>5. Op.op = "read" /\ Op.file \in Candidate => Op.style = Stable
  BY <1>3 DEF Careful
<1> QED BY <1>2, <1>3, <1>4, <1>5 DEF ReadsFile

(* A lock file that is written where it was read already: the tree is dirty. *)
LEMMA LockIsWatched ==
  ASSUME ReadingOK, FreezingOK, NEW n, WorldStep(n), Freezes', Reading, Op.file = Lock
  PROVE  TreeMoved' \/ ~since'.rewritten
<1> DEFINE f == reader.file
           s == f.seen.inode
<1>1. /\ Underway /\ Op.op = "read" /\ reader.task \in Freezing /\ f.step \in Steps /\ f.step # "look"
      /\ Plan(reader.left, Rest(reader.task)) /\ (HeadKnown \/ HeadFirst(reader.left))
      /\ TreeMoved \/ ~since.rewritten
  BY OnwardIs DEF Reading, Freezes, FreezingOK, ReadingOK, ReaderOK, ReaderFields, FileFields
<1>2. Op.style = Stable /\ HeadKnown
  BY <1>1, AskedIs, ArtifactsAre
<1>3. (TreeMoved => TreeMoved') /\ (Content(Lock)' = Content(Lock) \/ TreeMoved')
  BY <1>2, MovedStays
<1>4. SUFFICES ASSUME ~TreeMoved', since'.rewritten PROVE FALSE
  OBVIOUS
<1>5. ~since.rewritten /\ Content(Lock)' = Content(Lock)
  BY <1>1, <1>3, <1>4
<1>6. n = f.handle /\ n # 0 /\ ~IsPrefix(f.got, disk'[n])
  BY <1>4, <1>5 DEF WorldStep, Watch
<1>7. FileOK' /\ UNCHANGED reader
  BY FileKeeps DEF WorldStep
<1>8. f.step \in {"read", "after", "again"}
  <2>1. Reading'
    BY <1>7 DEF Reading, Underway, Op
  <2>2. f.step \in {"open", "opened"} => ~since'.rewritten
    BY <1>7, <2>1 DEF FileOK
  <2> QED BY <1>1, <1>4, <2>2 DEF Steps
<1>9. /\ f.handle = s /\ s \in 1 .. Len(disk) /\ Begins(f.got, disk[s])
      /\ \A g \in Files : g # Lock => path[g].inode # s
  BY <1>2, <1>5, <1>8, StylesAre DEF FileOK, ReadingOK, Styles
<1>10. path' = path /\ path[Lock].kind = "file" /\ path[Lock].inode = n
  BY <1>6, <1>9 DEF WorldStep, PathMoves
<1>11. disk'[n] = disk[n]
  BY <1>5, <1>10 DEF Content
<1>12. disk[s] \in Seq(Blocks) /\ f.got \in Seq(Blocks)
  BY <1>9 DEF ReadingOK, WorldOK, ReaderOK
<1> QED BY <1>6, <1>9, <1>11, <1>12, PrefixIs

LEMMA DoomStays ==
  ASSUME ReadingOK, FreezingOK, NEW n, WorldStep(n), Freezes', NEW f \in Candidate, FileDoom(f)
  PROVE  FileDoom(f)'
<1>1. UNCHANGED reader /\ Freezes /\ Wanted(f)' = Wanted(f)
  BY OnwardIs, ArtifactsAre
<1>2. Known(f) /\ Known(f)'
  BY KnownStays DEF FileDoom
<1>3. CASE Content(f) # Wanted(f) /\ Comes(f)
  <2>1. Content(f)' # Wanted(f)'
    BY <1>1, <1>2, <1>3, KnownStays
  <2>2. Comes(f)'
    BY <1>1, <1>3 DEF Comes
  <2> QED BY <1>2, <2>1, <2>2 DEF FileDoom
<1>4. CASE Reading /\ Op.file = f /\ ReadWrong(f)
  <2>1. Op.style # Plain
    <3>1. Underway /\ Op.op = "read" /\ Plan(reader.left, Rest(reader.task))
      BY <1>1, <1>4 DEF Reading, FreezingOK
    <3>2. Op.style = Stable /\ Stable \in Styles
      BY <1>4, <3>1, AskedIs DEF Styles
    <3> QED BY <3>2, StylesAre
  <2>2. ReadWrong(f)' /\ Reading'
    BY <1>2, <1>4, <2>1, WrongStays
  <2>3. Op' = Op
    BY <1>1 DEF Op
  <2> QED BY <1>2, <1>4, <2>2, <2>3 DEF FileDoom
<1> QED BY <1>3, <1>4 DEF FileDoom

LEMMA FreezingUnderOthers ==
  ASSUME ReadingOK, FreezingOK, NEW n, WorldStep(n)
  PROVE  FreezingOK'
<1> SUFFICES ASSUME Freezes' PROVE FreezingOK'
  BY DEF FreezingOK
<1>1. UNCHANGED reader /\ held \subseteq held' /\ Freezes
  BY OnwardIs
<1> DEFINE q == reader.left
           b == Rest(reader.task)
<1>2. /\ Plan(q, b) /\ (HeadKnown \/ HeadFirst(q)) /\ reader.task \in Freezing
      /\ IF Len(q) > b THEN FrontOK ELSE RestOK
  BY <1>1 DEF FreezingOK, Freezes
<1>3. HeadKnown => HeadKnown' /\ (TreeMoved => TreeMoved')
                   /\ (tree.head # reader.log.head => tree'.head # reader'.log.head)
                   /\ (Content(Lock)' = Content(Lock) \/ TreeMoved')
  BY MovedStays
<1>4. \A a \in Candidate : (Known(a) => Known(a)') /\ (FileDoom(a) => FileDoom(a)') /\ Wanted(a)' = Wanted(a)
  BY <1>1, <1>2, KnownStays, DoomStays DEF Wanted
<1>5. Plan(q, b)' /\ (HeadKnown' \/ HeadFirst(q)')
  BY <1>1, <1>2, <1>3
<1>6. (Reading /\ Op.file = Lock)' => TreeMoved' \/ ~since'.rewritten
  <2>1. (Reading /\ Op.file = Lock)' => Reading /\ Op.file = Lock
    BY <1>1 DEF Reading, Underway, Op
  <2> QED BY <2>1, LockIsWatched
<1>7. CASE Len(q) > b
  <2>1. \A a \in Range(Artifacts) : Known(a)' \/ Ahead(q, b, a)'
    BY <1>1, <1>2, <1>4, <1>7, ArtifactsAre DEF FrontOK
  <2>2. LockHeld' \/ Ahead(q, b, Lock)'
    BY <1>1, <1>2, <1>3, <1>4, <1>7, ArtifactsAre DEF FrontOK, LockHeld
  <2>3. FrontOK'
    BY <2>1, <2>2 DEF FrontOK
  <2> QED BY <1>1, <1>5, <1>6, <1>7, <2>3 DEF FreezingOK
<1>8. CASE ~(Len(q) > b)
  <2>1. HeadKnown /\ HeadKnown'
    BY <1>2, <1>3, <1>8 DEF RestOK
  <2>2. PICK moment \in held : /\ TreeWas(moment)
                               /\ \A a \in Range(Artifacts) : moment.of[a] = Wanted(a) \/ FileDoom(a)
    BY <1>2, <1>8 DEF RestOK
  <2>3. TreeWas(moment)'
    <3>1. TreeDoom => TreeDoom'
      BY <1>1, <1>3, <2>1 DEF TreeDoom
    <3>2. reader'.log.head = reader.log.head /\ Wanted(Lock)' = Wanted(Lock)
      BY <1>1, <1>4, ArtifactsAre
    <3> QED BY <2>2, <3>1, <3>2 DEF TreeWas
  <2>4. \A a \in Range(Artifacts) : moment.of[a] = Wanted(a)' \/ FileDoom(a)'
    BY <1>4, <2>2, ArtifactsAre
  <2>5. RestOK'
    BY <1>1, <2>1, <2>3, <2>4 DEF RestOK
  <2> QED BY <1>1, <1>5, <1>6, <1>8, <2>5 DEF FreezingOK
<1> QED BY <1>7, <1>8

-----------------------------------------------------------------------------
(* What is known, when the reader goes on                                    *)

(* A step of the reader leaves what is known of the repository.              *)
LEMMA KnownAlone ==
  ASSUME ReaderAlone, reader'.left = reader.left, reader'.log = reader.log
  PROVE  /\ HeadKnown' = HeadKnown /\ TreeMoved' = TreeMoved /\ TreeDoom' = TreeDoom /\ LockHeld' = LockHeld
         /\ \A f : /\ Wanted(f)' = Wanted(f) /\ Content(f)' = Content(f)
                   /\ Known(f)' = Known(f) /\ Lost(f)' = Lost(f)
         /\ \A moment : TreeWas(moment)' = TreeWas(moment)
<1>1. UNCHANGED <<disk, path, tree, writes, held>>
  BY DEF ReaderAlone, world
<1>2. HeadKnown' = HeadKnown /\ TreeMoved' = TreeMoved
  BY <1>1 DEF HeadKnown, TreeMoved
<1>3. TreeDoom' = TreeDoom
  BY <1>1, <1>2 DEF TreeDoom
<1>4. ASSUME NEW f
      PROVE  /\ Wanted(f)' = Wanted(f) /\ Content(f)' = Content(f)
             /\ Known(f)' = Known(f) /\ Lost(f)' = Lost(f)
  <2>1. Wanted(f)' = Wanted(f) /\ Content(f)' = Content(f)
    BY <1>1 DEF Wanted, Content, NoContent
  <2>2. Known(f)' = Known(f)
    BY <1>1, <2>1 DEF Known, Seen
  <2>3. Lost(f)' = Lost(f)
    BY <2>1, <2>2 DEF Lost
  <2> QED BY <2>1, <2>2, <2>3
<1>5. LockHeld' = LockHeld
  BY <1>2, <1>4 DEF LockHeld
<1>6. ASSUME NEW moment PROVE TreeWas(moment)' = TreeWas(moment)
  BY <1>3, <1>4 DEF TreeWas
<1> QED BY <1>2, <1>3, <1>4, <1>5, <1>6

(* In the middle of a reading: what is read wrongly goes on being so, and a   *)
(* file that is looked at after it lost something is read wrongly.           *)
LEMMA FreezingInReading ==
  ASSUME ReadingOK, FreezingOK, Freezes, ReaderAlone, Underway, Op.op = "read",
         NEW step, NEW seen, NEW handle, NEW got, Goes(step, seen, handle, got), step # "look",
         Op.file = Lock => TreeMoved' \/ ~since'.rewritten,
         \A f \in Candidate : Op.file = f /\ (IF Reading THEN ReadWrong(f) ELSE Lost(f)) => ReadWrong(f)'
  PROVE  FreezingOK'
<1> DEFINE q == reader.left
           b == Rest(reader.task)
<1>1. /\ reader'.task = reader.task /\ reader'.left = q /\ reader'.verdict = reader.verdict
      /\ reader'.log = reader.log /\ reader'.file.step = step
  BY DEF Goes
<1>2. /\ Plan(q, b) /\ (HeadKnown \/ HeadFirst(q))
      /\ IF Len(q) > b THEN FrontOK ELSE RestOK
  BY DEF FreezingOK
<1>3. /\ HeadKnown' = HeadKnown /\ LockHeld' = LockHeld
      /\ \A f : Wanted(f)' = Wanted(f) /\ Known(f)' = Known(f) /\ Lost(f)' = Lost(f)
      /\ \A moment : TreeWas(moment)' = TreeWas(moment)
      /\ UNCHANGED held
  BY <1>1, KnownAlone DEF ReaderAlone
<1>4. Reading' /\ Op' = Op /\ (Reading <=> reader.file.step # "look")
  BY <1>1 DEF Reading, Underway, Op
<1>5. ASSUME NEW f \in Candidate, FileDoom(f)
      PROVE  FileDoom(f)'
  <2>1. Known(f) /\ Known(f)'
    BY <1>3, <1>5 DEF FileDoom
  <2>2. CASE Lost(f) /\ Comes(f)
    <3>1. PICK i \in 1 .. Len(q) : ReadsFile(q[i], f) /\ (i = 1 => reader.file.step = "look")
      BY <2>2 DEF Comes
    <3>2. CASE i = 1
      <4>1. Op.file = f /\ ~Reading
        BY <1>4, <3>1, <3>2 DEF ReadsFile, Op
      <4>2. ReadWrong(f)'
        BY <1>5, <2>2, <4>1
      <4> QED BY <1>4, <2>1, <4>1, <4>2 DEF FileDoom
    <3>3. CASE i # 1
      <4>1. Comes(f)'
        BY <1>1, <3>1, <3>3 DEF Comes
      <4>2. Lost(f)'
        BY <1>3, <2>2
      <4> QED BY <2>1, <4>1, <4>2 DEF FileDoom, Lost
    <3> QED BY <3>2, <3>3
  <2>3. CASE Reading /\ Op.file = f /\ ReadWrong(f)
    <3>1. ReadWrong(f)'
      BY <1>5, <2>3
    <3> QED BY <1>4, <2>1, <2>3, <3>1 DEF FileDoom
  <2> QED BY <1>5, <2>1, <2>2, <2>3 DEF FileDoom, Lost
<1>6. Plan(q, b)' /\ (HeadKnown' \/ HeadFirst(q)')
  BY <1>1, <1>2, <1>3
<1>7. (Reading /\ Op.file = Lock)' => TreeMoved' \/ ~since'.rewritten
  BY <1>4
<1>8. CASE Len(q) > b
  <2>1. FrontOK'
    BY <1>1, <1>2, <1>3, <1>8 DEF FrontOK
  <2> QED BY <1>1, <1>6, <1>7, <1>8, <2>1 DEF FreezingOK
<1>9. CASE ~(Len(q) > b)
  <2>1. HeadKnown' /\ \E moment \in held :
          /\ TreeWas(moment) /\ \A a \in Range(Artifacts) : moment.of[a] = Wanted(a) \/ FileDoom(a)
    BY <1>2, <1>3, <1>9 DEF RestOK
  <2>2. PICK moment \in held :
          /\ TreeWas(moment) /\ \A a \in Range(Artifacts) : moment.of[a] = Wanted(a) \/ FileDoom(a)
    BY <2>1
  <2>3. TreeWas(moment)' /\ \A a \in Range(Artifacts) : moment.of[a] = Wanted(a)' \/ FileDoom(a)'
    BY <1>3, <1>5, <2>2, ArtifactsAre
  <2>4. RestOK'
    BY <1>3, <2>1, <2>3 DEF RestOK
  <2> QED BY <1>1, <1>6, <1>7, <1>9, <2>4 DEF FreezingOK
<1> QED BY <1>8, <1>9

LEMMA FreezingAtLook ==
  ASSUME ReadingOK, FreezingOK, Freezes, Look, ~Refuse
  PROVE  FreezingOK'
<1> DEFINE at == path[Op.file]
           seen == [inode |-> at.inode, size |-> Size(at.inode)]
<1>1. WorldOK /\ ReaderOK
  BY DEF ReadingOK
<1>2. /\ ReaderAlone /\ Underway /\ Op.op = "read" /\ Op.file \in Files /\ reader.file.step = "look"
      /\ at.kind = "file" /\ at.inode \in 1 .. Len(disk)
      /\ Goes("open", seen, 0, <<>>)
      /\ since' = [contents |-> {Content(Op.file)}, rewritten |-> FALSE]
  BY <1>1, LookGoes
<1>3. UNCHANGED <<disk, path>> /\ ~Reading /\ ~since'.rewritten
  BY <1>2 DEF ReaderAlone, world, Reading
<1>4. ASSUME NEW f \in Candidate, Op.file = f, Lost(f)
      PROVE  ReadWrong(f)'
  <2> DEFINE d == disk[at.inode]
             wanted == Wanted(f)
  <2>1. Content(f) = d /\ d \in Seq(Nat) /\ wanted \in Seq(Nat) /\ d # wanted
    <3>1. Content(f) = d /\ d # wanted
      BY <1>2, <1>4 DEF Content, Lost
    <3>2. d \in Seq(Blocks)
      BY <1>1, <1>2 DEF WorldOK
    <3>3. d \in Seq(Nat)
      <4> HIDE DEF d
      <4> QED BY <3>2, BlocksAreNumbers
    <3>4. wanted \in Seq(Nat)
      BY <1>1, ArtifactsAre DEF ReaderOK, ReaderFields, LogFields, Wanted
    <3> QED BY <3>1, <3>3, <3>4
  <2>2. /\ reader'.file.seen.size = Len(d) /\ reader'.file.seen.inode = at.inode
        /\ reader'.file.got = <<>> /\ disk'[at.inode] = d /\ Wanted(f)' = wanted
    BY <1>2, <1>3 DEF Goes, Size, Wanted
  <2> HIDE DEF d, wanted
  <2>3. CASE Len(d) # Len(wanted)
    BY <2>2, <2>3 DEF ReadWrong
  <2>4. CASE Len(d) = Len(wanted)
    <3>1. PICK i \in 1 .. Len(wanted) : d[i] # wanted[i]
      BY <2>1, <2>4, SeqEqual
    <3>2. ~(i <= Len(reader'.file.got))
      BY <2>2, <3>1
    <3>3. reader'.file.seen.inode = at.inode /\ ~(i <= Len(disk'[at.inode]) /\ disk'[at.inode][i] = wanted[i])
      BY <2>2, <3>1
    <3> HIDE DEF seen, at
    <3> QED BY <2>2, <3>1, <3>2, <3>3 DEF ReadWrong
  <2> QED BY <2>3, <2>4
<1> QED BY <1>2, <1>3, <1>4, FreezingInReading

(* A reading in which neither what was seen nor what was read changes.        *)
LEMMA WrongSame ==
  ASSUME ReaderAlone, NEW step, NEW seen, NEW handle, NEW got, Goes(step, seen, handle, got),
         seen = reader.file.seen, got = reader.file.got, NEW f
  PROVE  ReadWrong(f)' = ReadWrong(f)
<1>1. /\ UNCHANGED disk /\ reader'.file.seen = reader.file.seen /\ reader'.file.got = reader.file.got
      /\ Wanted(f)' = Wanted(f)
  BY DEF ReaderAlone, world, Goes, Wanted
<1> QED BY <1>1 DEF ReadWrong

LEMMA FreezingAtRest ==
  ASSUME ReadingOK, FreezingOK, Freezes, ReaderAlone, Underway, Op.op = "read", reader.file.step # "look",
         NEW step, NEW handle, step # "look", UNCHANGED since,
         Goes(step, reader.file.seen, handle, reader.file.got)
  PROVE  FreezingOK'
<1>1. Reading
  BY DEF Reading
<1>2. \A f : ReadWrong(f)' = ReadWrong(f)
  BY WrongSame
<1>3. Op.file = Lock => TreeMoved' \/ ~since'.rewritten
  <2>1. TreeMoved' = TreeMoved
    BY DEF ReaderAlone, world, TreeMoved, Goes
  <2> QED BY <1>1, <2>1 DEF FreezingOK
<1> QED BY <1>1, <1>2, <1>3, FreezingInReading

LEMMA FreezingAtBlock ==
  ASSUME ReadingOK, FreezingOK, Freezes, ReaderAlone, Underway, Op.op = "read", reader.file.step = "read",
         reader.file.handle \in 1 .. Len(disk), disk[reader.file.handle] \in Seq(Blocks), UNCHANGED since,
         Len(reader.file.got) + 1 <= Len(disk[reader.file.handle]),
         NEW block \in Blocks, block = disk[reader.file.handle][Len(reader.file.got) + 1],
         Goes("read", reader.file.seen, reader.file.handle, Append(reader.file.got, block))
  PROVE  FreezingOK'
<1> DEFINE file == reader.file
           s == file.seen.inode
           more == Append(file.got, block)
<1>1. Reading /\ FileOK /\ Plan(reader.left, Rest(reader.task))
  BY DEF Reading, ReadingOK, FreezingOK
<1>2. file.got \in Seq(Blocks) /\ Len(file.got) \in Nat
  BY LenProperties DEF ReadingOK, ReaderOK
<1>3. /\ Len(more) = Len(file.got) + 1 /\ more[Len(file.got) + 1] = block
      /\ \A i \in 1 .. Len(file.got) : more[i] = file.got[i]
  BY <1>2
<1> HIDE DEF more
<1>4. ASSUME NEW f \in Candidate, Op.file = f, ReadWrong(f)
      PROVE  ReadWrong(f)'
  <2>1. Op.style # Plain
    <3>1. Op.style = Stable
      BY <1>1, <1>4, AskedIs
    <3> QED BY <3>1, StylesAre DEF Styles
  <2>2. file.handle = s
    BY <1>1, <2>1 DEF FileOK
  <2> DEFINE wanted == Wanted(f)
  <2>3. /\ reader'.file.seen = file.seen /\ reader'.file.got = more /\ disk' = disk
        /\ Wanted(f)' = wanted
    BY DEF Goes, more, ReaderAlone, world, Wanted
  <2> HIDE DEF wanted
  <2>4. CASE file.seen.size # Len(wanted)
    BY <2>3, <2>4 DEF ReadWrong
  <2>5. CASE file.seen.size = Len(wanted)
    <3>1. PICK i \in 1 .. Len(wanted) :
            IF i <= Len(file.got) THEN file.got[i] # wanted[i]
            ELSE ~(i <= Len(disk[s]) /\ disk[s][i] = wanted[i])
      BY <1>4, <2>5 DEF ReadWrong, wanted
    <3>2. IF i <= Len(more) THEN more[i] # wanted[i]
          ELSE ~(i <= Len(disk[s]) /\ disk[s][i] = wanted[i])
      <4>1. CASE i <= Len(file.got)
        <5>1. i \in 1 .. Len(file.got) /\ i <= Len(more)
          BY <1>2, <1>3, <4>1
        <5> QED BY <1>3, <3>1, <4>1, <5>1
      <4>2. CASE i = Len(file.got) + 1
        <5>1. disk[s][i] # wanted[i]
          <6>1. ~(i <= Len(file.got)) /\ i <= Len(disk[s])
            BY <1>2, <2>2, <4>2
          <6> QED BY <3>1, <6>1
        <5>2. i <= Len(more) /\ more[i] = disk[s][i]
          BY <1>2, <1>3, <2>2, <4>2
        <5> QED BY <5>1, <5>2
      <4>3. CASE i > Len(file.got) + 1
        <5>1. ~(i <= Len(file.got)) /\ ~(i <= Len(more))
          BY <1>2, <1>3, <4>3
        <5> QED BY <3>1, <5>1
      <4>4. i <= Len(file.got) \/ i = Len(file.got) + 1 \/ i > Len(file.got) + 1
        BY <1>2
      <4> QED BY <4>1, <4>2, <4>3, <4>4
    <3> QED BY <2>3, <3>1, <3>2 DEF ReadWrong
  <2> QED BY <2>4, <2>5
<1>5. Op.file = Lock => TreeMoved' \/ ~since'.rewritten
  <2>1. TreeMoved' = TreeMoved
    BY DEF ReaderAlone, world, TreeMoved, Goes
  <2> QED BY <1>1, <2>1 DEF FreezingOK
<1> QED BY <1>1, <1>4, <1>5, FreezingInReading DEF more

LEMMA FreezingAtCheck ==
  ASSUME ReadingOK, FreezingOK, Freezes, CheckOpened, ~Refuse
  PROVE  FreezingOK'
<1> DEFINE file == reader.file
           seen == Handle
<1>1. /\ ReaderAlone /\ Underway /\ Op.op = "read" /\ file.step = "opened"
      /\ Op.style.same => SameFile(seen)
      /\ UNCHANGED since /\ Goes("read", seen, file.handle, file.got)
  BY CheckGoes DEF ReadingOK
<1> HIDE DEF seen
<1>2. Reading /\ Plan(reader.left, Rest(reader.task))
  BY <1>1 DEF Reading, FreezingOK
<1>3. ASSUME NEW f \in Candidate, Op.file = f, ReadWrong(f)
      PROVE  ReadWrong(f)'
  <2>1. Op.style = Stable /\ Stable.same
    <3>1. Op.style = Stable
      BY <1>1, <1>2, <1>3, AskedIs
    <3> QED BY <3>1 DEF Stable
  <2>2. seen = file.seen
    BY <1>1, <2>1 DEF SameFile
  <2>3. ReadWrong(f)' = ReadWrong(f)
    BY <1>1, <2>2, WrongSame
  <2> QED BY <1>3, <2>3
<1>4. Op.file = Lock => TreeMoved' \/ ~since'.rewritten
  <2>1. TreeMoved' = TreeMoved
    BY <1>1 DEF ReaderAlone, world, TreeMoved, Goes
  <2> QED BY <1>1, <1>2, <2>1 DEF FreezingOK
<1> QED BY <1>1, <1>2, <1>3, <1>4, FreezingInReading

-----------------------------------------------------------------------------
(* What an answer says                                                       *)

(* A file is read with its content, or was written meanwhile; and all that   *)
(* was read was seen in it.                                                 *)
Whole(f) ==
  /\ Reading /\ Len(reader.file.got) = reader.file.seen.size
  /\ reader.file.got = Content(f) \/ since.rewritten
  /\ Marks(reader.file.got) \subseteq Seen(f)

Answers(log) ==
  /\ MovesOn(log)
  /\ \/ Op.op = "status" /\ tree.state # "dirty" /\ log = reader.log
     \/ /\ Op.op = "head" /\ log.head = tree.head /\ log.of = reader.log.of
        /\ Op.as = "same" => tree.head = reader.log.head
     \/ /\ Op.op = "read" /\ Op.file \in Files /\ log = Noted
        /\ Op.as = "same" => reader.file.got = reader.log.of[Op.file]
        /\ Op.file \in Candidate => Whole(Op.file)

LEMMA LookedAgain ==
  ASSUME ReadingOK, reader.task \in Freezing, Underway, Op.op = "read", Op.style # Plain,
         Op.file \in Candidate, reader.file.step = "again",
         path[Op.file].kind = "file",
         SameFile([inode |-> path[Op.file].inode, size |-> Size(path[Op.file].inode)])
  PROVE  Whole(Op.file)
<1> DEFINE f == reader.file
           s == f.seen.inode
<1>1. WorldOK /\ ReaderOK /\ FileOK /\ Reading
  BY DEF ReadingOK, Reading
<1>2. path[Op.file].inode = s /\ Size(path[Op.file].inode) = f.seen.size
  BY DEF SameFile
<1>3. /\ s \in 1 .. Len(disk) /\ Len(f.got) = f.seen.size
      /\ since.rewritten \/ Begins(f.got, disk[s])
      /\ Noticed(Op.file)
  BY <1>1, ArtifactsAre DEF FileOK
<1>4. Content(Op.file) = disk[s] /\ Len(disk[s]) = f.seen.size
  BY <1>2 DEF Content, Size
<1>5. f.got \in Seq(Blocks) /\ disk[s] \in Seq(Blocks)
  BY <1>1, <1>3 DEF WorldOK, ReaderOK
<1>6. since.rewritten \/ f.got = disk[s]
  BY <1>3, <1>4, <1>5, BeginsWhole
<1>7. Marks(f.got) \subseteq Seen(Op.file)
  <2> DEFINE got == f.got
  <2>1. got \in Seq(Nat) /\ Len(got) = f.seen.size
    BY <1>3, <1>5, BlocksAreNumbers
  <2>2. <<0, f.seen.size>> \in Seen(Op.file) /\ \A i \in 1 .. Len(got) : <<i, got[i]>> \in Seen(Op.file)
    BY <1>3 DEF Noticed
  <2> HIDE DEF got
  <2>3. Marks(got) = {<<0, Len(got)>>} \cup {<<i, got[i]>> : i \in 1 .. Len(got)}
    BY <2>1, MarksAre
  <2>4. Marks(got) \subseteq Seen(Op.file)
    BY <2>1, <2>2, <2>3
  <2> QED BY <2>4 DEF got
<1> QED BY <1>1, <1>3, <1>4, <1>6, <1>7 DEF Whole

LEMMA Answered ==
  ASSUME ReadingOK, Plan(reader.left, Rest(reader.task)), ReaderAlone, Underway, Op.op = "read", Op.file \in Files,
         Conclude, ~Refuse, Op.file \in Candidate => Whole(Op.file)
  PROVE  Answers(Noted)
<1>1. MovesOn(Noted) /\ (Op.as = "same" => reader.file.got = reader.log.of[Op.file])
  BY ConcludeIs DEF ReadingOK
<1> QED BY <1>1 DEF Answers

(* The reader is refused, goes on with a reading, or has an answer.          *)
LEMMA ReaderAnswers ==
  ASSUME ReadingOK, FreezingOK, Freezes, ReaderNext, ~RunCommand
  PROVE  /\ ReaderAlone /\ Underway
         /\ Refuse \/ FreezingOK' \/ \E log : Answers(log)
<1>1. WorldOK /\ ReaderOK /\ FileOK /\ Plan(reader.left, Rest(reader.task))
  BY DEF ReadingOK, FreezingOK
<1>2. CASE ReadStatus
  <2>1. ReaderAlone /\ Underway /\ Op.op = "status" /\ Op.allowed \subseteq {"clean", "batch"}
        /\ (Refuse \/ (tree.state \in Op.allowed /\ MovesOn(reader.log)))
    BY <1>1, <1>2, StatusGoes
  <2> QED BY <2>1 DEF Answers
<1>3. CASE ReadHead
  <2>1. /\ ReaderAlone /\ Underway /\ Op.op = "head"
        /\ \/ Refuse
           \/ /\ Op.as = "same" => tree.head = reader.log.head
              /\ reader'.log.head = tree.head /\ reader'.log.of = reader.log.of
              /\ MovesOn(reader'.log)
    BY <1>1, <1>3, HeadGoes
  <2>2. PICK log : log = reader'.log
    OBVIOUS
  <2>3. Refuse \/ Answers(log)
    BY <2>1, <2>2 DEF Answers
  <2> QED BY <2>1, <2>3
<1>4. CASE Look
  BY <1>1, <1>4, LookGoes, FreezingAtLook
<1>5. CASE OpenFile
  <2>1. /\ ReaderAlone /\ Underway /\ Op.op = "read" /\ Op.file \in Files /\ reader.file.step = "open"
        /\ \/ Refuse
           \/ /\ path[Op.file].inode \in 1 .. Len(disk) /\ UNCHANGED since
              /\ Goes("opened", reader.file.seen, path[Op.file].inode, reader.file.got)
    BY <1>1, <1>5, OpenGoes
  <2>2. PICK handle : handle = path[Op.file].inode
    OBVIOUS
  <2>3. UNCHANGED since /\ Goes("opened", reader.file.seen, handle, reader.file.got) => FreezingOK'
    BY <2>1, FreezingAtRest
  <2> QED BY <2>1, <2>2, <2>3
<1>6. CASE CheckOpened
  BY <1>1, <1>6, CheckGoes, FreezingAtCheck
<1>7. Op.op = "read" /\ Op.file \in Candidate => Op.style = Stable
  <2>1. Underway
    BY DEF RunCommand, ReaderNext, ReadStatus, ReadHead, Look, OpenFile, CheckOpened, ReadBlock, After, LookAgain, Reads, Asks
  <2> QED BY <1>1, <2>1, AskedIs
<1>8. Stable.after /\ Stable.again
  BY DEF Stable
<1>9. CASE ReadBlock
  <2> DEFINE f == reader.file
             block == disk[f.handle][Len(f.got) + 1]
  <2>1. /\ ReaderAlone /\ Underway /\ Op.op = "read" /\ Op.file \in Files /\ f.step = "read"
        /\ f.handle \in 1 .. Len(disk) /\ disk[f.handle] \in Seq(Blocks)
        /\ \/ Refuse
           \/ /\ Len(f.got) + 1 <= Len(disk[f.handle]) /\ UNCHANGED since /\ block \in Blocks
              /\ Goes("read", f.seen, f.handle, Append(f.got, block))
           \/ Op.style.after /\ Goes("after", f.seen, f.handle, f.got) /\ UNCHANGED since
           \/ ~Op.style.after /\ Conclude
    BY <1>1, <1>9, ReadGoes
  <2>2. CASE /\ Len(f.got) + 1 <= Len(disk[f.handle]) /\ UNCHANGED since /\ block \in Blocks
             /\ Goes("read", f.seen, f.handle, Append(f.got, block))
    <3>1. PICK new \in Blocks : new = block
      BY <2>2
    <3>2. FreezingOK'
      BY <2>1, <2>2, <3>1, FreezingAtBlock
    <3> QED BY <2>1, <3>2
  <2>3. CASE Goes("after", f.seen, f.handle, f.got) /\ UNCHANGED since
    <3>1. FreezingOK'
      BY <2>1, <2>3, FreezingAtRest
    <3> QED BY <2>1, <3>1
  <2>4. CASE ~Op.style.after /\ Conclude /\ ~Refuse
    <3>1. Op.file \notin Candidate
      BY <1>7, <1>8, <2>1, <2>4
    <3>2. Answers(Noted)
      BY <1>1, <2>1, <2>4, <3>1, Answered
    <3> QED BY <2>1, <3>2
  <2> QED BY <2>1, <2>2, <2>3, <2>4
<1>10. CASE After
  <2> DEFINE f == reader.file
  <2>1. /\ ReaderAlone /\ Underway /\ Op.op = "read" /\ Op.file \in Files /\ f.step = "after"
        /\ \/ Refuse
           \/ Goes("again", f.seen, f.handle, f.got) /\ UNCHANGED since
           \/ ~Op.style.again /\ Conclude
    BY <1>1, <1>10, AfterGoes
  <2>2. CASE Goes("again", f.seen, f.handle, f.got) /\ UNCHANGED since
    <3>1. FreezingOK'
      BY <2>1, <2>2, FreezingAtRest
    <3> QED BY <2>1, <3>1
  <2>3. CASE ~Op.style.again /\ Conclude /\ ~Refuse
    <3>1. Op.file \notin Candidate
      BY <1>7, <1>8, <2>1, <2>3
    <3>2. Answers(Noted)
      BY <1>1, <2>1, <2>3, <3>1, Answered
    <3> QED BY <2>1, <3>2
  <2> QED BY <2>1, <2>2, <2>3
<1>11. CASE LookAgain
  <2>1. /\ ReaderAlone /\ Underway /\ Op.op = "read" /\ Op.file \in Files /\ reader.file.step = "again"
        /\ \/ Refuse
           \/ /\ path[Op.file].kind = "file" /\ Conclude
              /\ SameFile([inode |-> path[Op.file].inode, size |-> Size(path[Op.file].inode)])
    BY <1>1, <1>11, AgainGoes
  <2>2. CASE Refuse
    BY <2>1, <2>2
  <2>3. CASE ~Refuse
    <3>1. Op.file \in Candidate => Whole(Op.file)
      <4>1. Stable # Plain
        BY StylesAre DEF Styles
      <4>2. reader.task \in Freezing
        BY DEF Freezes
      <4> QED BY <1>7, <2>1, <2>3, <4>1, <4>2, LookedAgain
    <3>2. Answers(Noted)
      BY <1>1, <2>1, <2>3, <3>1, Answered
    <3> QED BY <2>1, <3>2
  <2> QED BY <2>2, <2>3
<1> QED BY <1>2, <1>3, <1>4, <1>5, <1>6, <1>9, <1>10, <1>11 DEF ReaderNext

(* After an answer: what was noted of the other files, and what of this one. *)
LEMMA AnsweredOf ==
  ASSUME ReadingOK, ReaderAlone, Underway, NEW log, Answers(log)
  PROVE  /\ UNCHANGED <<disk, path, tree, writes, held>> /\ \A f : Content(f)' = Content(f)
         /\ reader'.log = log /\ reader'.left = Tail(reader.left) /\ reader'.task = reader.task
         /\ reader'.file = Begin /\ ~Reading' /\ Moment' = Moment
         /\ \A f \in Candidate :
              /\ ~ReadsFile(Op, f) => /\ Wanted(f)' = Wanted(f) /\ Known(f)' = Known(f)
                                      /\ Lost(f)' = Lost(f)
              /\ ReadsFile(Op, f) => Wanted(f)' = reader.file.got /\ Whole(f)
         /\ ~IsHead(Op) => log.head = reader.log.head
         /\ IsHead(Op) => log.head = tree.head /\ (Op.as = "same" => tree.head = reader.log.head)
<1>1. /\ MovesOn(log)
      /\ \/ Op.op = "status" /\ log = reader.log
         \/ /\ Op.op = "head" /\ log.head = tree.head /\ log.of = reader.log.of
            /\ Op.as = "same" => tree.head = reader.log.head
         \/ /\ Op.op = "read" /\ Op.file \in Files /\ log = Noted
            /\ Op.file \in Candidate => Whole(Op.file)
  BY DEF Answers
<1>2. UNCHANGED <<disk, path, tree, writes, held>>
  BY DEF ReaderAlone, world
<1>3. \A f : Content(f)' = Content(f)
  BY <1>2 DEF Content, NoContent
<1>4. /\ reader'.log = log /\ reader'.left = Tail(reader.left) /\ reader'.task = reader.task
      /\ reader'.file = Begin
  BY <1>1 DEF MovesOn
<1>5. ~Reading'
  BY <1>4 DEF Reading, Begin
<1>6. Moment' = Moment
  BY <1>2, <1>3 DEF Moment
<1>7. ~IsHead(Op) => log.head = reader.log.head
  BY <1>1, NotedIs DEF IsHead, ReadingOK
<1>8. IsHead(Op) => log.head = tree.head /\ (Op.as = "same" => tree.head = reader.log.head)
  BY <1>1 DEF IsHead
<1>9. ASSUME NEW f \in Candidate, ~ReadsFile(Op, f)
      PROVE  Wanted(f)' = Wanted(f) /\ Known(f)' = Known(f) /\ Lost(f)' = Lost(f)
  <2>1. f \in Files
    BY ArtifactsAre
  <2>2. log.of[f] = reader.log.of[f]
    BY <1>1, <1>9, <2>1, NotedIs DEF ReadsFile, ReadingOK
  <2>3. Wanted(f)' = Wanted(f)
    BY <1>4, <2>2 DEF Wanted
  <2>4. Known(f)' = Known(f)
    BY <1>2, <1>3, <2>3 DEF Known, Seen
  <2>5. Lost(f)' = Lost(f)
    BY <1>3, <2>3, <2>4 DEF Lost
  <2> QED BY <2>3, <2>4, <2>5
<1>10. ASSUME NEW f \in Candidate, ReadsFile(Op, f)
       PROVE  Wanted(f)' = reader.file.got /\ Whole(f)
  <2>1. Op.op = "read" /\ Op.file = f /\ log = Noted
    BY <1>1, <1>10 DEF ReadsFile
  <2>2. Noted.of[f] = reader.file.got
    BY <2>1, NotedIs DEF ReadingOK
  <2> QED BY <1>1, <1>4, <2>1, <2>2 DEF Wanted
<1> QED BY <1>2, <1>3, <1>4, <1>5, <1>6, <1>7, <1>8, <1>9, <1>10

(* The commit is asked for before the lock file is read, and stays known.     *)
LEMMA HeadIsKnown ==
  ASSUME ReadingOK, FreezingOK, Freezes, ReaderAlone, Underway, NEW log, Answers(log)
  PROVE  /\ HeadKnown' \/ HeadFirst(Tail(reader.left))
         /\ HeadKnown => HeadKnown' /\ TreeMoved' = TreeMoved /\ log.head = reader.log.head
         /\ ReadsFile(Op, Lock) => HeadKnown
<1> DEFINE q == reader.left
           b == Rest(reader.task)
           t == Tail(q)
<1>1. /\ UNCHANGED <<tree, held>> /\ reader'.log = log /\ reader'.left = t
      /\ ~IsHead(Op) => log.head = reader.log.head
      /\ IsHead(Op) => log.head = tree.head /\ (Op.as = "same" => tree.head = reader.log.head)
  BY AnsweredOf
<1>2. Plan(q, b) /\ (HeadKnown \/ HeadFirst(q)) /\ b \in Nat \ {0}
  BY PlanStart DEF FreezingOK, Freezes
<1>3. Len(q) \in Nat \ {0} /\ 1 \in 1 .. Len(q) /\ (ReadsFile(Op, Lock) => ~HeadFirst(q))
  BY <1>2, AskedIs
<1>4. q # <<>>
  BY DEF ReadingOK, ReaderOK, Underway
<1>5. /\ HeadFirst(q) /\ ~IsHead(q[1]) => HeadFirst(t)
      /\ IsHead(q[1]) => \A i \in 1 .. Len(t) : IsHead(t[i]) => t[i].as = "same"
  BY <1>2, <1>4, PlanGoesOn
<1>6. Len(t) = Len(q) - 1 /\ \A i \in 1 .. Len(t) : i + 1 \in 1 .. Len(q) /\ t[i] = q[i + 1]
  <2>1. q \in Seq(Careful)
    BY <1>2 DEF Plan
  <2> HIDE DEF q
  <2>2. Len(t) = Len(q) - 1 /\ \A i \in 1 .. Len(t) : t[i] = q[i + 1]
    BY <1>4, <2>1
  <2> QED BY <1>3, <2>2
<1>7. Op = q[1]
  BY DEF Op
<1> HIDE DEF q, t
<1>8. CASE IsHead(Op)
  <2>1. \E moment \in held : moment.head = log.head
    <3>1. Moment \in held /\ Moment.head = tree.head
      BY DEF ReadingOK, ReaderOK, Moment, Freezes
    <3> QED BY <1>1, <1>8, <3>1
  <2>2. HeadKnown'
    BY <1>1, <1>5, <1>7, <1>8, <2>1 DEF HeadKnown
  <2>3. ASSUME HeadKnown PROVE log.head = reader.log.head
    <3>1. Op.as = "same"
      BY <1>3, <1>7, <1>8, <2>3 DEF HeadKnown, q
    <3> QED BY <1>1, <1>8, <3>1
  <2>4. ASSUME HeadKnown PROVE TreeMoved' = TreeMoved
    BY <1>1, <2>3, <2>4 DEF TreeMoved
  <2> QED BY <1>2, <1>3, <2>2, <2>3, <2>4
<1>9. CASE ~IsHead(Op)
  <2>1. TreeMoved' = TreeMoved
    BY <1>1, <1>9 DEF TreeMoved
  <2>2. ASSUME HeadKnown PROVE HeadKnown'
    <3>1. \A i \in 1 .. Len(q) : IsHead(q[i]) => q[i].as = "same"
      BY <2>2 DEF HeadKnown, q
    <3>2. \A i \in 1 .. Len(t) : IsHead(t[i]) => t[i].as = "same"
      BY <1>6, <3>1
    <3>3. \E moment \in held' : moment.head = reader'.log.head
      BY <1>1, <1>9, <2>2 DEF HeadKnown
    <3> QED BY <1>1, <3>2, <3>3 DEF HeadKnown
  <2> QED BY <1>1, <1>2, <1>3, <1>5, <1>7, <1>9, <2>1, <2>2 DEF t, q
<1> QED BY <1>8, <1>9

LEMMA KnownNow ==
  ASSUME ReadingOK, reader.task \in Freezing, ReaderAlone, Underway, NEW log, Answers(log),
         NEW f \in Candidate, ReadsFile(Op, f)
  PROVE  Known(f)' /\ (since.rewritten \/ Content(f)' = Wanted(f)')
<1>1. /\ UNCHANGED held /\ Content(f)' = Content(f) /\ Wanted(f)' = reader.file.got
      /\ Marks(reader.file.got) \subseteq Seen(f)
      /\ reader.file.got = Content(f) \/ since.rewritten
  BY AnsweredOf DEF Whole
<1>2. Known(f)'
  BY <1>1 DEF Known, Seen
<1> QED BY <1>1, <1>2

(* Before the last reading of the candidate.                                 *)
LEMMA FrontGoesOn ==
  ASSUME ReadingOK, FreezingOK, Freezes, Underway, Len(reader.left) > Rest(reader.task),
         reader'.left = Tail(reader.left), reader'.task = reader.task, reader'.file = Begin, Moment' \in held',
         HeadKnown' \/ HeadFirst(Tail(reader.left)),
         \A a \in Range(Artifacts) : Known(a) \/ ReadsFile(Op, a) => Known(a)',
         LockHeld \/ ReadsFile(Op, Lock) => LockHeld'
  PROVE  FreezingOK'
<1> DEFINE q == reader.left
           b == Rest(reader.task)
           t == Tail(q)
<1>1. /\ reader'.left = t /\ reader'.task = reader.task /\ reader'.file = Begin /\ ~Reading'
  BY DEF Reading, Begin
<1>2. reader.task \in Freezing /\ Plan(q, b) /\ b \in Nat \ {0} /\ q # <<>> /\ Op = q[1] /\ FrontOK
  BY PlanStart DEF FreezingOK, Freezes, ReadingOK, ReaderOK, Underway, Op
<1>3. /\ Plan(t, b) /\ Len(t) = Len(q) - 1
      /\ \A a : Ahead(q, b, a) /\ ~ReadsFile(q[1], a) => Ahead(t, b, a)
  BY <1>2, PlanGoesOn
<1>4. HeadKnown' \/ HeadFirst(t)
  OBVIOUS
<1>5. Len(q) \in Nat /\ Len(t) \in Nat /\ Len(t) >= b
  BY <1>2, <1>3, AskedIs
<1> HIDE DEF q, t, b
<1>6. \A a \in Range(Artifacts) : Known(a)' \/ Ahead(t, b, a)
  BY <1>2, <1>3 DEF FrontOK, q, b
<1>7. LockHeld' \/ Ahead(t, b, Lock)
  BY <1>2, <1>3 DEF FrontOK, q, b
<1>8. reader'.left = t /\ Rest(reader'.task) = b
  BY <1>1 DEF b
<1>9. CASE Len(t) > b
  <2>1. FrontOK'
    BY <1>6, <1>7, <1>8 DEF FrontOK
  <2> QED BY <1>1, <1>3, <1>4, <1>8, <1>9, <2>1 DEF FreezingOK
<1>10. CASE ~(Len(t) > b)
  <2>1. \A a : ~Ahead(t, b, a)
    BY <1>2, <1>5, <1>10 DEF Ahead
  <2>2. LockHeld' /\ HeadKnown' /\ \A a \in Range(Artifacts) : Known(a)'
    BY <1>6, <1>7, <2>1 DEF LockHeld
  <2>3. /\ \A a \in Range(Artifacts) : \E i \in 1 .. Len(t) : ReadsFile(t[i], a)
        /\ Confirms(t)
    BY <1>3, <1>5 DEF Plan, Confirms
  <2>4. Moment' \in held'
    OBVIOUS
  <2>5. TreeWas(Moment)'
    <3>1. CASE TreeMoved'
      BY <1>8, <2>3, <3>1 DEF TreeWas, TreeDoom
    <3>2. CASE ~TreeMoved'
      <4>1. Content(Lock)' = Wanted(Lock)'
        BY <2>2, <3>2 DEF LockHeld
      <4>2. tree'.head = reader'.log.head /\ tree'.state # "dirty"
        BY <3>2 DEF TreeMoved
      <4>3. Moment'.of[Lock] = Content(Lock)' /\ Moment'.head = tree'.head /\ Moment'.state = tree'.state
        BY ArtifactsAre DEF Moment
      <4> QED BY <4>1, <4>2, <4>3 DEF TreeWas
    <3> QED BY <3>1, <3>2
  <2>6. ASSUME NEW a \in Range(Artifacts)
        PROVE  Moment'.of[a] = Wanted(a)' \/ FileDoom(a)'
    <3>1. Moment'.of[a] = Content(a)'
      BY ArtifactsAre DEF Moment
    <3>2. Known(a)'
      BY <2>2
    <3>3. CASE Content(a)' = Wanted(a)'
      BY <3>1, <3>3
    <3>4. CASE Content(a)' # Wanted(a)'
      <4>2. Comes(a)'
        <5>1. PICK i \in 1 .. Len(t) : ReadsFile(t[i], a)
          BY <2>3
        <5>2. reader'.left = t /\ reader'.file.step = "look"
          <6>1. Begin.step = "look"
            BY ONLY DEF Begin
          <6> QED BY <1>1, <6>1, Zenon
        <5>3. i \in 1 .. Len(reader'.left) /\ ReadsFile(reader'.left[i], a)
          BY <5>1, <5>2, Zenon
        <5> QED BY <5>2, <5>3, Zenon DEF Comes
      <4> QED BY <3>2, <3>4, <4>2 DEF FileDoom
    <3> QED BY <3>3, <3>4
  <2>7. RestOK'
    BY <2>2, <2>4, <2>5, <2>6 DEF RestOK
  <2> QED BY <1>1, <1>3, <1>4, <1>8, <1>10, <2>7 DEF FreezingOK
<1> QED BY <1>9, <1>10

LEMMA FreezingInFront ==
  ASSUME ReadingOK, FreezingOK, Freezes, ReaderAlone, Underway, NEW log, Answers(log),
         Len(reader.left) > Rest(reader.task)
  PROVE  FreezingOK'
<1>1. /\ UNCHANGED <<disk, path, tree, writes, held>> /\ \A f : Content(f)' = Content(f)
      /\ reader'.left = Tail(reader.left) /\ reader'.task = reader.task
      /\ reader'.file = Begin /\ Moment' = Moment
      /\ \A f \in Candidate :
           /\ ~ReadsFile(Op, f) => Wanted(f)' = Wanted(f) /\ Known(f)' = Known(f)
           /\ ReadsFile(Op, f) => Whole(f)
  BY AnsweredOf
<1>2. reader.task \in Freezing
  BY DEF Freezes
<1>3. Moment' \in held'
  BY <1>1, <1>2 DEF ReadingOK, ReaderOK
<1>4. /\ HeadKnown' \/ HeadFirst(Tail(reader.left))
      /\ HeadKnown => HeadKnown' /\ TreeMoved' = TreeMoved
      /\ ReadsFile(Op, Lock) => HeadKnown
  BY HeadIsKnown
<1>5. ASSUME NEW a \in Range(Artifacts), Known(a) \/ ReadsFile(Op, a)
      PROVE  Known(a)'
  <2>1. a \in Candidate
    BY ArtifactsAre
  <2>2. CASE ReadsFile(Op, a)
    BY <1>2, <2>1, <2>2, KnownNow
  <2>3. CASE ~ReadsFile(Op, a)
    BY <1>1, <1>5, <2>1, <2>3
  <2> QED BY <2>2, <2>3
<1>6. ASSUME LockHeld \/ ReadsFile(Op, Lock)
      PROVE  LockHeld'
  <2>1. Lock \in Candidate
    BY ArtifactsAre
  <2>2. CASE ReadsFile(Op, Lock)
    <3>1. HeadKnown' /\ TreeMoved' = TreeMoved
      BY <1>4, <2>2
    <3>2. TreeMoved \/ ~since.rewritten
      <4>1. Reading /\ Op.file = Lock
        BY <1>1, <2>1, <2>2 DEF Whole, ReadsFile
      <4> QED BY <4>1 DEF FreezingOK
    <3>3. since.rewritten \/ Content(Lock)' = Wanted(Lock)'
      BY <1>2, <2>1, <2>2, KnownNow
    <3> QED BY <3>1, <3>2, <3>3 DEF LockHeld
  <2>3. CASE ~ReadsFile(Op, Lock)
    <3>1. Wanted(Lock)' = Wanted(Lock) /\ Content(Lock)' = Content(Lock)
      BY <1>1, <2>1, <2>3
    <3> QED BY <1>4, <1>6, <2>3, <3>1 DEF LockHeld
  <2> QED BY <2>2, <2>3
<1> QED BY <1>1, <1>3, <1>4, <1>5, <1>6, FrontGoesOn

(* An artifact is made anew before the preflight reads the artifacts again.  *)
LEMMA FreezingAtBuild ==
  ASSUME ReadingOK, FreezingOK, Freezes, RunCommand, ~Refuse
  PROVE  FreezingOK'
<1> DEFINE q == reader.left
           b == Rest(reader.task)
           t == Tail(q)
<1>1. /\ Underway /\ Op.op = "build" /\ Op.file \in Range(Artifacts)
      /\ MovesOn(reader.log) /\ UNCHANGED <<tree, writes, undone>> /\ held' = held \cup {Moment'}
      /\ DiskKeeps(0)
      /\ \A g \in Files : g # Op.file => path'[g] = path[g]
  BY BuildGoes DEF ReadingOK
<1>2. /\ reader'.left = t /\ reader'.task = reader.task /\ reader'.file = Begin /\ reader'.log = reader.log
      /\ held \subseteq held' /\ Moment' \in held'
  BY <1>1 DEF MovesOn
<1>3. reader.task \in Freezing /\ Plan(q, b) /\ b \in Nat \ {0} /\ q # <<>> /\ Op = q[1]
  BY <1>1, PlanStart DEF FreezingOK, Freezes, ReadingOK, ReaderOK, Underway, Op
<1>4. Len(q) \in Nat \ {0} /\ 1 \in 1 .. Len(q)
  BY <1>1, <1>3, AskedIs
<1>5. Len(q) > b
  <2>1. Op \notin Repeated
    BY <1>1 DEF Repeated
  <2> QED BY <1>3, <1>4, <2>1 DEF Plan
<1>6. ~IsHead(Op) /\ \A f : ~ReadsFile(Op, f)
  BY <1>1 DEF IsHead, ReadsFile
<1>7. ASSUME HeadKnown PROVE HeadKnown'
  <2>1. Len(t) = Len(q) - 1 /\ \A i \in 1 .. Len(t) : i + 1 \in 1 .. Len(q) /\ t[i] = q[i + 1]
    <3>1. q \in Seq(Careful)
      BY <1>3 DEF Plan
    <3> HIDE DEF q
    <3>2. Len(t) = Len(q) - 1 /\ \A i \in 1 .. Len(t) : t[i] = q[i + 1]
      BY <1>3, <3>1
    <3> QED BY <1>4, <3>2
  <2>2. \A i \in 1 .. Len(q) : IsHead(q[i]) => q[i].as = "same"
    BY <1>7 DEF HeadKnown
  <2> HIDE DEF t, q
  <2>3. \A i \in 1 .. Len(t) : IsHead(t[i]) => t[i].as = "same"
    BY <2>1, <2>2
  <2>4. \E moment \in held' : moment.head = reader'.log.head
    BY <1>2, <1>7 DEF HeadKnown
  <2> QED BY <1>2, <2>3, <2>4 DEF HeadKnown
<1>8. HeadKnown' \/ HeadFirst(t)
  <2>1. HeadKnown \/ HeadFirst(q)
    BY DEF FreezingOK
  <2>2. HeadFirst(q) => HeadFirst(t)
    BY <1>3, <1>6, PlanGoesOn
  <2> QED BY <1>7, <2>1, <2>2
<1>9. \A a \in Range(Artifacts) : Known(a) => Known(a)'
  <2> SUFFICES ASSUME NEW a \in Range(Artifacts), Known(a) PROVE Known(a)'
    BY Zenon
  <2>1. Wanted(a)' = Wanted(a)
    BY <1>2 DEF Wanted
  <2> QED BY <1>2, <2>1, SeenStays DEF Known
<1>10. LockHeld => LockHeld'
  <2>1. Lock \in Files /\ Lock # Op.file
    BY <1>1, CandidateAssumption, ArtifactsAre DEF Lock
  <2>2. path'[Lock] = path[Lock]
    BY <1>1, <2>1
  <2>3. path[Lock].kind = "file" => path[Lock].inode \in 1 .. Len(disk)
    BY <2>1 DEF ReadingOK, WorldOK
  <2>4. Content(Lock)' = Content(Lock)
    BY <1>1, <2>2, <2>3 DEF Content, DiskKeeps
  <2>5. Wanted(Lock)' = Wanted(Lock) /\ TreeMoved' = TreeMoved
    BY <1>1, <1>2 DEF Wanted, TreeMoved
  <2> QED BY <1>7, <2>4, <2>5 DEF LockHeld
<1> QED BY <1>1, <1>2, <1>5, <1>6, <1>8, <1>9, <1>10, FrontGoesOn

(* Where everything is asked for again: what is not as it was is found out.   *)
LEMMA FreezingInRest ==
  ASSUME ReadingOK, FreezingOK, Freezes, ReaderAlone, Underway, NEW log, Answers(log),
         ~(Len(reader.left) > Rest(reader.task))
  PROVE  FreezingOK'
<1> DEFINE q == reader.left
           b == Rest(reader.task)
           t == Tail(q)
<1>1. /\ UNCHANGED <<disk, path, tree, writes, held>> /\ \A f : Content(f)' = Content(f)
      /\ reader'.log = log /\ reader'.left = t /\ reader'.task = reader.task
      /\ reader'.file = Begin /\ ~Reading'
      /\ \A f \in Candidate :
           /\ ~ReadsFile(Op, f) => Wanted(f)' = Wanted(f)
           /\ ReadsFile(Op, f) => Wanted(f)' = reader.file.got /\ Whole(f)
      /\ IsHead(Op) => (Op.as = "same" => tree.head = reader.log.head)
  BY AnsweredOf
<1>2. reader.task \in Freezing /\ Plan(q, b) /\ b \in Nat \ {0} /\ q # <<>> /\ Op = q[1] /\ RestOK
  BY PlanStart DEF FreezingOK, Freezes, ReadingOK, ReaderOK, Underway, Op
<1>3. Plan(t, b) /\ Len(t) = Len(q) - 1
  BY <1>2, PlanGoesOn
<1>4. HeadKnown' /\ TreeMoved' = TreeMoved /\ log.head = reader.log.head
  <2>1. HeadKnown
    BY <1>2 DEF RestOK
  <2> QED BY <2>1, HeadIsKnown
<1>5. Len(q) \in Nat \ {0} /\ Len(q) <= b /\ q \in Seq(Careful) /\ 1 \in 1 .. Len(q)
  BY <1>2, AskedIs DEF Plan
<1>6. Op \in Repeated
  BY <1>2, <1>5 DEF Plan
<1>7. \A i \in 1 .. Len(t) : t[i] = q[i + 1]
  <2> HIDE DEF q
  <2> QED BY <1>2, <1>5
<1>8. \A i \in 1 .. Len(q) : i # 1 => i - 1 \in 1 .. Len(t) /\ t[i - 1] = q[i]
  <2> HIDE DEF t, q
  <2> QED BY <1>3, <1>5, <1>7
<1> HIDE DEF q, t, b
<1>9. reader'.left = t /\ reader.left = q /\ Rest(reader'.task) = b
  BY <1>1 DEF b, q
<1>10. \A f \in Candidate : /\ Wanted(f)' = Wanted(f)
                            /\ ReadsFile(Op, f) => Wanted(f) = reader.file.got /\ Whole(f)
  <2> SUFFICES ASSUME NEW f \in Candidate, ReadsFile(Op, f)
               PROVE  reader.file.got = Wanted(f)
    BY <1>1
  <2>1. Op.as = "same" /\ Op.file = f
    BY <1>6 DEF Repeated, ReadsFile
  <2> QED BY <2>1 DEF Answers, ReadsFile, Wanted
<1>11. \A f \in Candidate : Known(f)' = Known(f) /\ Lost(f)' = Lost(f)
  <2> SUFFICES ASSUME NEW f \in Candidate
               PROVE  Known(f)' = Known(f) /\ Lost(f)' = Lost(f)
    BY Zenon
  <2>1. Wanted(f)' = Wanted(f) /\ Content(f)' = Content(f)
    BY <1>1, <1>10
  <2>2. Known(f)' = Known(f)
    BY <1>1, <2>1 DEF Known, Seen
  <2> QED BY <2>1, <2>2 DEF Lost
<1>12. TreeDoom => TreeDoom'
  <2>1. CASE Confirms(q) /\ TreeMoved
    <3>1. (q[1].op # "status" => Confirms(t)) /\ AsksHead(t)
      BY <1>2, <1>5, <2>1, ConfirmsGoesOn DEF AsksHead, t
    <3>2. CASE Op.op = "status"
      <4>1. tree.state # "dirty"
        BY <3>2 DEF Answers
      <4>2. tree'.head # reader'.log.head
        BY <1>1, <1>4, <2>1, <4>1 DEF TreeMoved
      <4> QED BY <1>9, <3>1, <4>2 DEF TreeDoom
    <3>3. CASE Op.op # "status"
      BY <1>2, <1>4, <1>9, <2>1, <3>1, <3>3 DEF TreeDoom
    <3> QED BY <3>2, <3>3
  <2>2. CASE AsksHead(q) /\ tree.head # reader.log.head
    <3>1. PICK i \in 1 .. Len(q) : IsHead(q[i])
      BY <2>2 DEF AsksHead
    <3>2. i # 1
      <4>1. IsHead(Op) => Op.as = "same"
        BY <1>6 DEF Repeated, IsHead
      <4> QED BY <1>1, <1>2, <2>2, <3>1, <4>1
    <3>3. AsksHead(t)
      BY <1>8, <3>1, <3>2 DEF AsksHead
    <3> QED BY <1>1, <1>4, <1>9, <2>2, <3>3 DEF TreeDoom
  <2> QED BY <1>9, <2>1, <2>2 DEF TreeDoom
<1>13. ASSUME NEW f \in Candidate, FileDoom(f)
       PROVE  FileDoom(f)'
  <2>1. Known(f) /\ Known(f)'
    BY <1>11, <1>13 DEF FileDoom
  <2>2. CASE Lost(f) /\ Comes(f)
    <3>1. PICK i \in 1 .. Len(q) : ReadsFile(q[i], f) /\ (i = 1 => reader.file.step = "look")
      BY <1>9, <2>2 DEF Comes
    <3>2. i # 1
      <4>1. ReadsFile(Op, f) => reader.file.step # "look"
        BY <1>10 DEF Whole, Reading
      <4> QED BY <1>2, <3>1, <4>1
    <3>3. i - 1 \in 1 .. Len(t) /\ ReadsFile(t[i - 1], f)
      BY <1>8, <3>1, <3>2
    <3>4. reader'.file.step = "look"
      BY <1>1 DEF Begin
    <3>5. Comes(f)'
      BY <1>9, <3>3, <3>4 DEF Comes
    <3> QED BY <1>11, <2>1, <2>2, <3>5 DEF FileDoom, Lost
  <2>3. CASE Reading /\ Op.file = f /\ ReadWrong(f)
    <3>1. ReadsFile(Op, f)
      BY <2>3 DEF Reading, ReadsFile
    <3>2. Wanted(f) = reader.file.got /\ Len(reader.file.got) = reader.file.seen.size
      BY <1>10, <3>1 DEF Whole
    <3>3. \A i \in 1 .. Len(Wanted(f)) : i <= Len(reader.file.got) /\ reader.file.got[i] = Wanted(f)[i]
      BY <3>2
    <3>4. ~ReadWrong(f)
      BY <3>2, <3>3 DEF ReadWrong
    <3> QED BY <2>3, <3>4
  <2> QED BY <1>13, <2>1, <2>2, <2>3 DEF FileDoom, Lost
<1>14. PICK moment \in held : /\ TreeWas(moment)
                              /\ \A a \in Range(Artifacts) : moment.of[a] = Wanted(a) \/ FileDoom(a)
  BY <1>2 DEF RestOK
<1>15. TreeWas(moment)'
  <2>1. reader'.log.head = reader.log.head /\ Wanted(Lock)' = Wanted(Lock)
    BY <1>1, <1>4, <1>10, ArtifactsAre
  <2> QED BY <1>12, <1>14, <2>1 DEF TreeWas
<1>16. \A a \in Range(Artifacts) : moment.of[a] = Wanted(a)' \/ FileDoom(a)'
  BY <1>10, <1>13, <1>14, ArtifactsAre
<1>17. RestOK'
  BY <1>1, <1>4, <1>15, <1>16 DEF RestOK
<1>18. ~(Len(t) > b)
  BY <1>2, <1>3, <1>5
<1> QED BY <1>1, <1>3, <1>4, <1>9, <1>17, <1>18 DEF FreezingOK

LEMMA ReaderTask ==
  ASSUME ReadingOK, ReaderNext
  PROVE  reader'.task = reader.task
BY DEF ReaderNext, RunCommand, ReadStatus, ReadHead, Look, OpenFile, CheckOpened, ReadBlock, After, LookAgain,
       EndRead, Conclude, Refuse, Advance, ToStep, ReadingOK, ReaderOK, ReaderFields

LEMMA ReaderUndoesNothing ==
  ASSUME ReaderNext
  PROVE  undone' = undone
BY DEF ReaderNext, RunCommand, ReadStatus, ReadHead, Look, OpenFile, CheckOpened, ReadBlock, After, LookAgain,
       ReaderAlone

LEMMA FreezingStaysOK ==
  ASSUME ReadingOK, FreezingOK, [CandidateNext]_candidateVars
  PROVE  FreezingOK'
<1>2. CASE CandidateNext /\ ~ReaderNext
  BY <1>2, OthersStep, FreezingUnderOthers
<1>3. CASE ReaderNext
  <2> SUFFICES ASSUME Freezes' PROVE FreezingOK'
    BY DEF FreezingOK
  <2>1. ReaderNext => Underway
    BY DEF RunCommand, ReaderNext, ReadStatus, ReadHead, Look, OpenFile, CheckOpened, ReadBlock, After, LookAgain, Reads, Asks
  <2>2. reader'.task = reader.task
    BY <1>3, ReaderTask
  <2>3. Freezes
    <3>1. undone' = undone
      BY <1>3, ReaderUndoesNothing
    <3> QED BY <1>3, <2>1, <2>2, <3>1 DEF Freezes, Underway
  <2>4. ~Refuse
    BY DEF Freezes, Refuse, ReadingOK, ReaderOK, ReaderFields
  <2>5. CASE RunCommand
    BY <2>3, <2>4, <2>5, FreezingAtBuild
  <2>6. CASE ~RunCommand
    <3>1. /\ ReaderAlone /\ Underway
          /\ FreezingOK' \/ \E log : Answers(log)
      BY <1>3, <2>3, <2>4, <2>6, ReaderAnswers
    <3> QED BY <2>3, <3>1, FreezingInFront, FreezingInRest
  <2> QED BY <2>5, <2>6
<1>4. CASE UNCHANGED candidateVars
  <2>1. UNCHANGED <<disk, path, tree, writes, held, reader, since, undone>>
    BY <1>4 DEF candidateVars
  <2>2. Reading' = Reading /\ Op' = Op /\ Freezes' = Freezes
    BY <2>1 DEF Reading, Underway, Op, Freezes
  <2>3. /\ HeadKnown' = HeadKnown /\ TreeMoved' = TreeMoved /\ LockHeld' = LockHeld
        /\ \A f : Wanted(f)' = Wanted(f) /\ Known(f)' = Known(f) /\ Lost(f)' = Lost(f)
        /\ \A moment : TreeWas(moment)' = TreeWas(moment)
    BY <2>1, KnownAlone DEF ReaderAlone, world
  <2>4. \A f : FileDoom(f)' = FileDoom(f)
    <3>1. \A f : ReadWrong(f)' = ReadWrong(f)
      BY <2>1, <2>3 DEF ReadWrong
    <3>2. \A f : Comes(f)' = Comes(f)
      BY <2>1 DEF Comes
    <3>3. ASSUME NEW f PROVE FileDoom(f)' = FileDoom(f)
      <4>1. Content(f)' = Content(f) /\ Wanted(f)' = Wanted(f)
        BY <2>1 DEF Content, Wanted
      <4> QED BY <2>2, <2>3, <3>1, <3>2, <4>1, Zenon DEF FileDoom
    <3> QED BY <3>3, Zenon
  <2>5. FrontOK' = FrontOK
    BY <2>1, <2>3 DEF FrontOK
  <2>6. RestOK' = RestOK
    BY <2>1, <2>3, <2>4 DEF RestOK
  <2> QED BY <2>1, <2>2, <2>3, <2>5, <2>6 DEF FreezingOK
<1> QED BY <1>2, <1>3, <1>4

(* What is read of a repository while others write to it was there.  A file  *)
(* that the preflight, the manifest, the verifier or the result-file         *)
(* evidence reads had that content, whole, at one moment of the reading,     *)
(* unless it was changed in place where it had been read already; and the    *)
(* candidate the preflight records, or the verifier accepts, existed whole   *)
(* at one moment, unless the others undid a change meanwhile, which may go   *)
(* unnoticed (CandidateIsReal says when).  For every list of artifacts, all  *)
(* blocks and contents, every bound on sizes and writes, any record.         *)
THEOREM ReadingsAreReal == CandidateSpec => []ReadingIsReal
<1> DEFINE IInv == ReadingOK /\ FreezingOK
<1>1. CandidateInit => IInv
  BY InitOK, FreezingStarts
<1>2. IInv /\ [CandidateNext]_candidateVars => IInv'
  BY ReadingStaysOK, FreezingStaysOK
<1>3. IInv => ReadingIsReal
  BY FilesAreWhole, CandidatesAreReal DEF ReadingIsReal
<1> QED BY <1>1, <1>2, <1>3, PTL DEF CandidateSpec
=============================================================================
