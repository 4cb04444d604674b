-------------------------- MODULE KeyedLimiterProofs --------------------------
(***************************************************************************)
(* Theorems about the limiter, for every number of jobs, keys and slots,   *)
(* and about the evidence taken around a task, for every directory.        *)
(***************************************************************************)
EXTENDS KeyedLimiter, WorkspaceEvidence, QueueLemmas, FiniteSetTheorems, SequenceTheorems, TLAPS

SlotsOf(s) == {j \in Jobs : stateOf[j] = s /\ HasSlot(j)}

(* A job's closures hold a state of its own key, created by then. *)
Bound ==
  /\ \A j \in Jobs : stateOf[j] # NoState => KeyOf[stateOf[j]] = KeyOf[j] /\ phase[stateOf[j]] # "new"
  /\ \A j \in Jobs : HasSlot(j) \/ phase[j] = "queued" => stateOf[j] # NoState
  /\ \A j \in Jobs : phase[j] = "new" => stateOf[j] = NoState

Counted == \A s \in Jobs : active[s] = Cardinality(SlotsOf(s))

Lined ==
  \A s \in Jobs : /\ \A j \in Jobs : (stateOf[j] = s /\ phase[j] = "queued") <=> InQueue(queue[s], j)
                  /\ Distinct(queue[s])

Mapped ==
  /\ OneLiveState
  /\ \A key \in Keys : states[key] # NoState => KeyOf[states[key]] = key

Full ==
  /\ \A s \in Jobs : active[s] <= Limit[KeyOf[s]]
  /\ NoIdleSlot

KInv == TypeOK /\ Bound /\ Counted /\ Lined /\ Mapped /\ Full

-----------------------------------------------------------------------------
(* Queues *)

(* The two ways Taken cuts a queue: nothing of an empty one, and the head   *)
(* of any other.                                                           *)
LEMMA Cut ==
  ASSUME NEW s \in Jobs, queue[s] \in Seq(Jobs)
  PROVE  /\ queue[s] = <<>> => Taken(s, 0).first = <<>> /\ Taken(s, 0).rest = <<>>
         /\ queue[s] # <<>> => /\ Taken(s, 1).first = <<Head(queue[s])>>
                               /\ Taken(s, 1).rest = Tail(queue[s])
<1>1. ASSUME NEW q \in Seq(Jobs), q = <<>> PROVE SubSeq(q, 1, 0) = <<>> /\ SubSeq(q, 0 + 1, Len(q)) = <<>>
  <2>1. Len(q) = 0
    BY <1>1
  <2> QED BY <2>1, SubSeqEmpty
<1>2. ASSUME NEW q \in Seq(Jobs), q # <<>>
      PROVE  SubSeq(q, 1, 1) = <<Head(q)>> /\ SubSeq(q, 1 + 1, Len(q)) = Tail(q)
  <2>1. Len(q) \in Nat \ {0} /\ Head(q) = q[1] /\ q[1] \in Jobs
    BY <1>2
  <2>2. SubSeq(q, 1, 1) \in Seq(Jobs) /\ Len(SubSeq(q, 1, 1)) = 1 /\ SubSeq(q, 1, 1)[1] = q[1]
    BY <2>1
  <2>3. \A t \in Seq(Jobs) : Len(t) = 1 /\ t[1] = q[1] => t = <<q[1]>>
    BY <2>1
  <2>4. SubSeq(q, 1, 1) = <<q[1]>>
    BY <2>2, <2>3
  <2> QED BY <1>2, <2>1, <2>4, TailIsSubSeq
<1>3. /\ Taken(s, 0).first = SubSeq(queue[s], 1, 0) /\ Taken(s, 0).rest = SubSeq(queue[s], 0 + 1, Len(queue[s]))
      /\ Taken(s, 1).first = SubSeq(queue[s], 1, 1) /\ Taken(s, 1).rest = SubSeq(queue[s], 1 + 1, Len(queue[s]))
  BY DEF Taken
<1> QED BY <1>1, <1>2, <1>3

-----------------------------------------------------------------------------
(* The parts of a step *)

(* The jobs that hold slots of one state are finitely many. *)
LEMMA Slots ==
  ASSUME NEW s \in Jobs
  PROVE  IsFiniteSet(SlotsOf(s)) /\ IsFiniteSet(SlotsOf(s)')
<1>1. SlotsOf(s) \in SUBSET Jobs /\ SlotsOf(s)' \in SUBSET Jobs
  BY DEF SlotsOf
<1> QED BY <1>1, JobsAssumption, FS_Subset

(* A job that holds a slot holds it of a state of its key that is in use. *)
LEMMA InUse ==
  ASSUME KInv, NEW j \in Jobs, HasSlot(j)
  PROVE  /\ stateOf[j] \in Jobs /\ KeyOf[stateOf[j]] = KeyOf[j]
         /\ active[stateOf[j]] >= 1 /\ ~Idle(stateOf[j])
<1>1. stateOf[j] \in Jobs /\ KeyOf[stateOf[j]] = KeyOf[j]
  BY DEF KInv, TypeOK, Bound
<1>2. j \in SlotsOf(stateOf[j])
  BY DEF SlotsOf
<1>3. Cardinality(SlotsOf(stateOf[j])) # 0
  BY <1>1, <1>2, Slots, FS_EmptySet
<1>4. active[stateOf[j]] # 0 /\ active[stateOf[j]] \in Nat
  BY <1>1, <1>3 DEF KInv, Counted, TypeOK
<1> QED BY <1>1, <1>4 DEF Idle

(* A step that moves one job along its chain without taking or giving a    *)
(* slot or a place in line.                                                *)
LEMMA Calm ==
  ASSUME KInv, NEW j \in Jobs, NEW p \in Phases \ {"new", "queued"}, phase[j] # "queued",
         HasSlot(j) <=> p \in {"started", "running", "settled"},
         phase' = [phase EXCEPT ![j] = p],
         UNCHANGED <<states, active, queue, stateOf, aborted>>
  PROVE  KInv'
<1> USE DEF KInv
<1>1. TypeOK'
  BY DEF TypeOK
<1>2. phase \in [Jobs -> Phases] /\ \A i \in Jobs : phase'[i] = IF i = j THEN p ELSE phase[i]
  BY DEF TypeOK
<1>3. Bound'
  BY <1>2 DEF Bound, HasSlot
<1>4. Counted'
  <2>1. ASSUME NEW s \in Jobs PROVE SlotsOf(s)' = SlotsOf(s)
    BY <1>2 DEF SlotsOf, HasSlot
  <2> QED BY <2>1 DEF Counted
<1>5. Lined'
  BY <1>2 DEF Lined, InQueue, Distinct
<1>6. Mapped' /\ Full'
  BY DEF Mapped, OneLiveState, Idle, Full, NoIdleSlot
<1> QED BY <1>1, <1>3, <1>4, <1>5, <1>6

(* #deleteIdleState after a step that touched one state in use leaves the  *)
(* map with the states in use and no other.                                *)
LEMMA Dropping ==
  ASSUME TypeOK, Mapped, NEW s \in Jobs, ~Idle(s), DeleteIdleState(KeyOf[s], s),
         \A t \in Jobs : t # s => active'[t] = active[t] /\ queue'[t] = queue[t]
  PROVE  Mapped' /\ states' \in [Keys -> Jobs \cup {NoState}]
<1>1. KeyOf[s] \in Keys /\ states[KeyOf[s]] = s
  BY KeyAssumption DEF Mapped, OneLiveState
<1>2. states' \in [Keys -> Jobs \cup {NoState}]
  BY DEF DeleteIdleState, TypeOK
<1>3. ASSUME NEW key \in Keys, key # KeyOf[s] PROVE states'[key] = states[key]
  BY <1>3 DEF DeleteIdleState, TypeOK
<1>4. states'[KeyOf[s]] = IF Idle(s)' THEN NoState ELSE s
  BY <1>1 DEF DeleteIdleState, TypeOK, Idle
<1>5. ASSUME NEW t \in Jobs, t # s PROVE Idle(t)' <=> Idle(t)
  BY <1>5 DEF Idle
<1>6. ASSUME NEW t \in Jobs, ~Idle(t)' PROVE states'[KeyOf[t]] = t
  <2>1. CASE t = s
    BY <1>4, <1>6, <2>1
  <2>2. CASE t # s
    <3>1. ~Idle(t)
      BY <1>5, <1>6, <2>2
    <3>2. KeyOf[t] \in Keys /\ states[KeyOf[t]] = t
      BY <3>1, KeyAssumption DEF Mapped, OneLiveState
    <3> QED BY <1>1, <1>3, <2>2, <3>2
  <2> QED BY <2>1, <2>2
<1>7. ASSUME NEW key \in Keys, states'[key] # NoState
      PROVE  ~Idle(states[key])' /\ KeyOf[states'[key]] = key
  <2>1. CASE key = KeyOf[s]
    BY <1>4, <1>7, <2>1 DEF Idle
  <2>2. CASE key # KeyOf[s]
    <3>1. states'[key] = states[key] /\ states[key] \in Jobs
      BY <1>3, <1>7, <2>2 DEF TypeOK
    <3>2. ~Idle(states[key]) /\ KeyOf[states[key]] = key
      BY <1>7, <3>1 DEF Mapped, OneLiveState
    <3>3. states[key] # s
      BY <2>2, <3>2
    <3> QED BY <1>5, <3>1, <3>2, <3>3 DEF Idle
  <2> QED BY <2>1, <2>2 DEF Idle
<1> QED BY <1>2, <1>6, <1>7 DEF Mapped, OneLiveState, Idle

-----------------------------------------------------------------------------
(* One lemma per operation that moves a slot or a place in line *)

(* The state #stateFor returns: of the job's key, within its limit, and     *)
(* without waiters while it has a free slot.                               *)
LEMMA StateForIs ==
  ASSUME KInv, NEW j \in Jobs, phase[j] = "new"
  PROVE  /\ StateFor(j) \in Jobs /\ KeyOf[StateFor(j)] = KeyOf[j]
         /\ StateFor(j) = j \/ phase[StateFor(j)] # "new"
         /\ \A t \in Jobs : KeyOf[t] = KeyOf[j] /\ ~Idle(t) => t = StateFor(j)
<1>1. KeyOf[j] \in Keys /\ states[KeyOf[j]] \in Jobs \cup {NoState}
  BY KeyAssumption DEF KInv, TypeOK
<1>2. \A t \in Jobs : KeyOf[t] = KeyOf[j] /\ ~Idle(t) => t = states[KeyOf[j]]
  BY DEF KInv, Mapped, OneLiveState
<1>3. CASE states[KeyOf[j]] = NoState
  BY <1>2, <1>3, JobsAssumption DEF StateFor
<1>4. CASE states[KeyOf[j]] # NoState
  <2>1. StateFor(j) = states[KeyOf[j]] /\ states[KeyOf[j]] \in Jobs
    BY <1>1, <1>4 DEF StateFor
  <2>2. KeyOf[states[KeyOf[j]]] = KeyOf[j] /\ ~Idle(states[KeyOf[j]])
    BY <1>1, <1>4 DEF KInv, Mapped, OneLiveState
  <2>3. \E i \in Jobs : stateOf[i] = states[KeyOf[j]]
    <3>1. CASE queue[states[KeyOf[j]]] # <<>>
      <4>1. InQueue(queue[states[KeyOf[j]]], Head(queue[states[KeyOf[j]]])) /\ Head(queue[states[KeyOf[j]]]) \in Jobs
        BY <2>1, <3>1, Shift DEF KInv, Lined, TypeOK
      <4> QED BY <2>1, <4>1 DEF KInv, Lined
    <3>2. CASE active[states[KeyOf[j]]] # 0
      <4>1. Cardinality(SlotsOf(states[KeyOf[j]])) # 0
        BY <2>1, <3>2 DEF KInv, Counted
      <4>2. SlotsOf(states[KeyOf[j]]) # {}
        BY <4>1, FS_EmptySet
      <4> QED BY <4>2 DEF SlotsOf
    <3> QED BY <2>2, <3>1, <3>2 DEF Idle
  <2>4. phase[states[KeyOf[j]]] # "new"
    BY <2>1, <2>3, JobsAssumption DEF KInv, Bound
  <2> QED BY <1>2, <2>1, <2>2, <2>4
<1> QED BY <1>3, <1>4

(* run(): the job takes a free slot, or joins the line. *)
LEMMA RunStep ==
  ASSUME KInv, NEW j \in Jobs, Run(j)
  PROVE  KInv'
<1> USE DEF KInv
<1> DEFINE s == StateFor(j)
<1>1. /\ s \in Jobs /\ KeyOf[s] = KeyOf[j] /\ (s = j \/ phase[s] # "new")
      /\ \A t \in Jobs : KeyOf[t] = KeyOf[j] /\ ~Idle(t) => t = s
  BY StateForIs DEF Run
<1>2. KeyOf[j] \in Keys /\ Limit[KeyOf[j]] \in Nat \ {0}
  BY KeyAssumption, LimitAssumption
<1>3. /\ phase[j] = "new" /\ stateOf[j] = NoState /\ NoState # s
      /\ states' = [states EXCEPT ![KeyOf[j]] = s]
      /\ stateOf' = [stateOf EXCEPT ![j] = s]
      /\ aborted' = aborted
  BY <1>1, JobsAssumption DEF Run, Bound
<1>4. CASE active[s] < Limit[KeyOf[j]]
  <2>1. /\ active' = [active EXCEPT ![s] = @ + 1] /\ queue' = queue
        /\ phase' = [phase EXCEPT ![j] = "started"]
    BY <1>4 DEF Run
  <2> HIDE DEF s
  <2>2. TypeOK'
    BY <1>1, <1>2, <1>3, <2>1 DEF TypeOK, Phases
  <2>3. \A i \in Jobs : /\ phase'[i] = IF i = j THEN "started" ELSE phase[i]
                        /\ stateOf'[i] = IF i = j THEN s ELSE stateOf[i]
    BY <1>3, <2>1 DEF TypeOK
  <2>4. Bound'
    BY <1>1, <1>3, <2>3, JobsAssumption DEF Bound, HasSlot, TypeOK
  <2>5. Counted'
    <3> SUFFICES ASSUME NEW t \in Jobs PROVE active'[t] = Cardinality(SlotsOf(t)')
      BY DEF Counted
    <3>1. CASE t = s
      <4>1. SlotsOf(t)' = SlotsOf(t) \cup {j} /\ j \notin SlotsOf(t)
        BY <1>3, <2>3, <3>1 DEF SlotsOf, HasSlot
      <4>2. Cardinality(SlotsOf(t)') = Cardinality(SlotsOf(t)) + 1
        BY <4>1, Slots, FS_AddElement
      <4> QED BY <2>1, <3>1, <4>2 DEF Counted, TypeOK
    <3>2. CASE t # s
      <4>1. SlotsOf(t)' = SlotsOf(t)
        BY <1>3, <2>3, <3>2, JobsAssumption DEF SlotsOf, HasSlot
      <4> QED BY <2>1, <3>2, <4>1 DEF Counted, TypeOK
    <3> QED BY <3>1, <3>2
  <2>6. Lined'
    BY <1>3, <2>1, <2>3, JobsAssumption DEF Lined
  <2>7. \A t \in Jobs : Idle(t)' <=> Idle(t) /\ t # s
    BY <1>1, <2>1 DEF Idle, TypeOK
  <2>8. Mapped'
    BY <1>1, <1>2, <1>3, <2>7, KeyAssumption DEF Mapped, OneLiveState, Idle, TypeOK
  <2>9. Full'
    <3> SUFFICES ASSUME NEW t \in Jobs
                 PROVE  /\ active'[t] <= Limit[KeyOf[t]]
                        /\ queue'[t] # <<>> => active'[t] = Limit[KeyOf[t]]
      BY DEF Full, NoIdleSlot
    <3>1. active[t] <= Limit[KeyOf[t]] /\ (queue[t] # <<>> => active[t] = Limit[KeyOf[t]])
      BY DEF Full, NoIdleSlot
    <3>2. active[t] \in Nat /\ active'[t] = IF t = s THEN active[t] + 1 ELSE active[t]
      BY <2>1 DEF TypeOK
    <3> QED BY <1>1, <1>2, <1>4, <2>1, <3>1, <3>2
  <2> QED BY <2>2, <2>4, <2>5, <2>6, <2>8, <2>9
<1>5. CASE ~(active[s] < Limit[KeyOf[j]])
  <2>1. /\ active' = active /\ queue' = [queue EXCEPT ![s] = Append(@, j)]
        /\ phase' = [phase EXCEPT ![j] = "queued"]
    BY <1>5 DEF Run
  <2> HIDE DEF s
  <2>2. TypeOK'
    BY <1>1, <1>2, <1>3, <2>1 DEF TypeOK, Phases
  <2>3. \A i \in Jobs : /\ phase'[i] = IF i = j THEN "queued" ELSE phase[i]
                        /\ stateOf'[i] = IF i = j THEN s ELSE stateOf[i]
    BY <1>3, <2>1 DEF TypeOK
  <2>4. Bound'
    BY <1>1, <1>3, <2>3, JobsAssumption DEF Bound, HasSlot, TypeOK
  <2>5. Counted'
    <3>1. ASSUME NEW t \in Jobs PROVE SlotsOf(t)' = SlotsOf(t)
      BY <1>3, <2>3, JobsAssumption DEF SlotsOf, HasSlot
    <3> QED BY <2>1, <3>1 DEF Counted
  <2>6. \A t \in Jobs : queue[t] \in Seq(Jobs) /\ Distinct(queue[t]) /\ ~InQueue(queue[t], j)
    BY <1>3 DEF Lined, TypeOK
  <2>7. /\ Distinct(queue'[s]) /\ queue'[s] # <<>>
        /\ \A i \in Jobs : InQueue(queue'[s], i) <=> InQueue(queue[s], i) \/ i = j
    <3>1. queue'[s] = Append(queue[s], j)
      BY <1>1, <2>1 DEF TypeOK
    <3> QED BY <1>1, <2>6, <3>1, Join
  <2>8. \A t \in Jobs : t # s => queue'[t] = queue[t]
    BY <2>1 DEF TypeOK
  <2>9. Lined'
    <3> SUFFICES ASSUME NEW t \in Jobs
                 PROVE  /\ \A i \in Jobs : stateOf'[i] = t /\ phase'[i] = "queued" <=> InQueue(queue'[t], i)
                        /\ Distinct(queue'[t])
      BY DEF Lined, InQueue, Distinct
    <3>1. CASE t = s
      BY <1>3, <2>3, <2>7, <3>1 DEF Lined
    <3>2. CASE t # s
      BY <1>3, <2>3, <2>6, <2>8, <3>2 DEF Lined
    <3> QED BY <3>1, <3>2
  <2>10. \A t \in Jobs : Idle(t)' <=> Idle(t) /\ t # s
    BY <1>1, <2>1, <2>7, <2>8 DEF Idle, TypeOK
  <2>11. Mapped'
    BY <1>1, <1>2, <1>3, <2>10, KeyAssumption DEF Mapped, OneLiveState, Idle, TypeOK
  <2>12. Full'
    BY <1>1, <1>2, <1>5, <2>1, <2>8, KeyAssumption, LimitAssumption DEF Full, NoIdleSlot, TypeOK
  <2> QED BY <2>2, <2>4, <2>5, <2>9, <2>11, <2>12
<1> QED BY <1>4, <1>5

(* The abort of a waiter: it leaves the line, and nobody else does. *)
LEMMA AbortQueuedStep ==
  ASSUME KInv, NEW j \in Jobs, AbortQueued(j)
  PROVE  KInv'
<1> USE DEF KInv
<1> DEFINE s == stateOf[j]
<1>1. /\ phase[j] = "queued" /\ s \in Jobs /\ KeyOf[s] = KeyOf[j]
      /\ phase' = [phase EXCEPT ![j] = "rejected"] /\ aborted' = [aborted EXCEPT ![j] = TRUE]
      /\ active' = active /\ stateOf' = stateOf
      /\ DeleteIdleState(KeyOf[s], s)
  BY DEF AbortQueued, Bound, TypeOK
<1>2. PICK index \in DOMAIN queue[s] :
        /\ queue[s][index] = j
        /\ queue' = [queue EXCEPT ![s] = SubSeq(@, 1, index - 1) \o SubSeq(@, index + 1, Len(@))]
  BY DEF AbortQueued
<1> HIDE DEF s
<1>3. queue[s] \in Seq(Jobs) /\ Distinct(queue[s]) /\ queue[s] # <<>>
  BY <1>1, <1>2 DEF Lined, TypeOK
<1>4. queue'[s] = Struck(queue[s], index)
  BY <1>1, <1>2 DEF TypeOK, Struck
<1>5. /\ queue'[s] \in Seq(Jobs) /\ Distinct(queue'[s])
      /\ \A i : InQueue(queue'[s], i) <=> InQueue(queue[s], i) /\ i # j
  BY <1>2, <1>3, <1>4, Strike
<1>6. \A t \in Jobs : t # s => queue'[t] = queue[t]
  BY <1>2 DEF TypeOK
<1>7. \A i \in Jobs : phase'[i] = IF i = j THEN "rejected" ELSE phase[i]
  BY <1>1 DEF TypeOK
<1>8. Mapped' /\ states' \in [Keys -> Jobs \cup {NoState}]
  BY <1>1, <1>3, <1>6, Dropping DEF Idle
<1>9. TypeOK'
  <2>1. queue' \in [Jobs -> Seq(Jobs)]
    BY <1>1, <1>2, <1>4, <1>5 DEF TypeOK
  <2>2. aborted' \in [Jobs -> BOOLEAN]
    BY <1>1, Zenon DEF TypeOK
  <2>3. phase' \in [Jobs -> Phases]
    BY <1>1 DEF TypeOK, Phases
  <2> QED BY <1>1, <1>8, <2>1, <2>2, <2>3 DEF TypeOK
<1>10. Bound'
  BY <1>1, <1>7 DEF Bound, HasSlot
<1>11. Counted'
  <2>1. ASSUME NEW t \in Jobs PROVE SlotsOf(t)' = SlotsOf(t)
    BY <1>1, <1>7 DEF SlotsOf, HasSlot
  <2> QED BY <1>1, <2>1 DEF Counted
<1>12. Lined'
  <2> SUFFICES ASSUME NEW t \in Jobs
               PROVE  /\ \A i \in Jobs : stateOf'[i] = t /\ phase'[i] = "queued" <=> InQueue(queue'[t], i)
                      /\ Distinct(queue'[t])
    BY DEF Lined, InQueue, Distinct
  <2>1. CASE t = s
    BY <1>1, <1>5, <1>7, <2>1 DEF Lined
  <2>2. CASE t # s
    BY <1>1, <1>6, <1>7, <2>2 DEF Lined, s
  <2> QED BY <2>1, <2>2
<1>13. Full'
  BY <1>1, <1>3, <1>6 DEF Full, NoIdleSlot
<1> QED BY <1>8, <1>9, <1>10, <1>11, <1>12, <1>13

(* The abort event of any other job changes its signal only. *)
LEMMA AbortOtherStep ==
  ASSUME KInv, NEW j \in Jobs, AbortOther(j)
  PROVE  KInv'
<1> USE DEF KInv
<1>1. aborted' = [aborted EXCEPT ![j] = TRUE] /\ UNCHANGED <<states, active, queue, stateOf, phase>>
  BY DEF AbortOther
<1>2. TypeOK'
  <2>1. aborted' \in [Jobs -> BOOLEAN]
    BY <1>1, Zenon DEF TypeOK
  <2> QED BY <1>1, <2>1 DEF TypeOK
<1>3. Bound' /\ Lined' /\ Mapped' /\ Full'
  BY <1>1 DEF Bound, HasSlot, Lined, InQueue, Distinct, Mapped, OneLiveState, Idle, Full, NoIdleSlot
<1>4. Counted'
  <2>1. ASSUME NEW t \in Jobs PROVE SlotsOf(t)' = SlotsOf(t)
    BY <1>1 DEF SlotsOf, HasSlot
  <2> QED BY <1>1, <2>1 DEF Counted
<1> QED BY <1>2, <1>3, <1>4

(* #drain after a release: with nobody in line the slot is free; otherwise  *)
(* exactly one waiter starts, the one at the head.                          *)
LEMMA ReleaseIs ==
  ASSUME KInv, NEW j \in Jobs, Release(j), NEW s, s = stateOf[j]
  PROVE  /\ queue[s] = <<>> => /\ active' = [active EXCEPT ![s] = @ - 1] /\ queue' = queue
                               /\ phase' = [phase EXCEPT ![j] = "released"]
         /\ queue[s] # <<>> => /\ active' = active /\ queue' = [queue EXCEPT ![s] = Tail(@)]
                               /\ phase' = [phase EXCEPT ![j] = "released", ![Head(queue[s])] = "started"]
<1> USE DEF KInv
<1> DEFINE free == Limit[KeyOf[j]] - (active[s] - 1)
           n == Lesser(free, Len(queue[s]))
<1>1. phase[j] = "settled" /\ HasSlot(j)
  BY DEF Release, HasSlot
<1>2. s \in Jobs /\ KeyOf[s] = KeyOf[j] /\ active[s] >= 1
  BY <1>1, InUse
<1>3. /\ active[s] \in Nat /\ active[s] <= Limit[KeyOf[j]] /\ Limit[KeyOf[j]] \in Nat
      /\ queue[s] \in Seq(Jobs) /\ (queue[s] # <<>> => active[s] = Limit[KeyOf[j]])
  BY <1>2, KeyAssumption, LimitAssumption DEF Full, NoIdleSlot, TypeOK
<1>4. /\ active' = [active EXCEPT ![s] = @ - 1 + Len(Taken(s, n).first)]
      /\ queue' = [queue EXCEPT ![s] = Taken(s, n).rest]
      /\ phase' = [i \in Jobs |->
                     IF i = j THEN "released"
                     ELSE IF \E m \in DOMAIN Taken(s, n).first : Taken(s, n).first[m] = i THEN "started"
                     ELSE phase[i]]
  BY DEF Release
<1> HIDE DEF n
<1>5. CASE queue[s] = <<>>
  <2>1. n = 0
    BY <1>2, <1>3, <1>5 DEF n, Lesser
  <2>2. Taken(s, n).first = <<>> /\ Taken(s, n).rest = <<>>
    <3>1. Taken(s, 0).first = <<>> /\ Taken(s, 0).rest = <<>>
      BY <1>2, <1>3, <1>5, Cut
    <3> QED BY <2>1, <3>1
  <2>3. active' = [active EXCEPT ![s] = @ - 1]
    <3>1. active[s] - 1 + Len(Taken(s, n).first) = active[s] - 1
      BY <1>2, <1>3, <2>2
    <3> QED BY <1>4, <3>1, Zenon
  <2>4. queue' = queue
    BY <1>2, <1>4, <1>5, <2>2 DEF TypeOK
  <2>5. phase' = [phase EXCEPT ![j] = "released"]
    <3>1. DOMAIN Taken(s, n).first = {}
      BY <2>2
    <3> QED BY <1>4, <3>1 DEF TypeOK
  <2> QED BY <1>5, <2>3, <2>4, <2>5
<1>6. CASE queue[s] # <<>>
  <2>1. n = 1 /\ Len(queue[s]) \in Nat \ {0}
    <3>1. \A q \in Seq(Jobs) : q # <<>> => Len(q) \in Nat \ {0}
      OBVIOUS
    <3>2. Len(queue[s]) \in Nat \ {0} /\ free = 1
      BY <1>3, <1>6, <3>1
    <3>3. Len(queue[s]) \in Nat /\ Len(queue[s]) >= 1
      BY <3>2
    <3>4. \A a, b \in Nat : a = 1 /\ b >= 1 => Lesser(a, b) = 1
      BY DEF Lesser
    <3>5. Lesser(free, Len(queue[s])) = 1
      BY <3>2, <3>3, <3>4
    <3> QED BY <3>2, <3>5 DEF n
  <2>2. Taken(s, n).first = <<Head(queue[s])>> /\ Taken(s, n).rest = Tail(queue[s])
    <3>1. Taken(s, 1).first = <<Head(queue[s])>> /\ Taken(s, 1).rest = Tail(queue[s])
      BY <1>2, <1>3, <1>6, Cut
    <3> QED BY <2>1, <3>1
  <2>3. active' = active
    BY <1>2, <1>3, <1>4, <2>2 DEF TypeOK
  <2>4. queue' = [queue EXCEPT ![s] = Tail(@)]
    BY <1>4, <2>2
  <2>5. /\ InQueue(queue[s], Head(queue[s])) /\ Head(queue[s]) \in Jobs
    BY <1>2, <1>3, <1>6, Shift DEF Lined
  <2>6. Head(queue[s]) # j
    BY <1>1, <1>2, <2>5 DEF Lined
  <2>7. phase' = [phase EXCEPT ![j] = "released", ![Head(queue[s])] = "started"]
    <3> DEFINE h == Head(queue[s])
    <3>1. \A i : (\E m \in DOMAIN <<h>> : <<h>>[m] = i) <=> i = h
      OBVIOUS
    <3> HIDE DEF h
    <3>2. phase' = [i \in Jobs |-> IF i = j THEN "released" ELSE IF i = h THEN "started" ELSE phase[i]]
      BY <1>4, <2>2, <3>1 DEF h
    <3>3. h \in Jobs /\ h # j
      BY <2>5, <2>6 DEF h
    <3>4. phase' = [phase EXCEPT ![j] = "released", ![h] = "started"]
      BY <3>2, <3>3 DEF TypeOK
    <3> QED BY <3>4 DEF h
  <2> QED BY <1>6, <2>3, <2>4, <2>7
<1> QED BY <1>5, <1>6

(* The finally callback: the slot is given back, or passed on. *)
LEMMA ReleaseStep ==
  ASSUME KInv, NEW j \in Jobs, Release(j)
  PROVE  KInv'
<1> USE DEF KInv
<1>1. phase[j] = "settled" /\ HasSlot(j)
  BY DEF Release, HasSlot
<1>2. PICK s \in Jobs : /\ s = stateOf[j] /\ KeyOf[s] = KeyOf[j]
                        /\ active[s] >= 1 /\ ~Idle(s)
  BY <1>1, InUse
<1>3. /\ stateOf' = stateOf /\ aborted' = aborted
      /\ DeleteIdleState(KeyOf[s], s)
  BY <1>2 DEF Release
<1>4. active[s] \in Nat /\ queue[s] \in Seq(Jobs) /\ Distinct(queue[s])
  BY DEF TypeOK, Lined
<1>5. CASE queue[s] = <<>>
  <2>1. /\ active' = [active EXCEPT ![s] = @ - 1] /\ queue' = queue
        /\ phase' = [phase EXCEPT ![j] = "released"]
    BY <1>2, <1>5, ReleaseIs
  <2>2. \A i \in Jobs : phase'[i] = IF i = j THEN "released" ELSE phase[i]
    BY <2>1 DEF TypeOK
  <2>3. \A t \in Jobs : active'[t] = IF t = s THEN active[s] - 1 ELSE active[t]
    BY <2>1 DEF TypeOK
  <2>4. Mapped' /\ states' \in [Keys -> Jobs \cup {NoState}]
    BY <1>2, <1>3, <2>1, <2>3, Dropping
  <2>5. TypeOK'
    BY <1>2, <1>3, <1>4, <2>1, <2>4 DEF TypeOK, Phases
  <2>6. Bound'
    BY <1>1, <1>3, <2>2 DEF Bound, HasSlot, TypeOK
  <2>7. Counted'
    <3> SUFFICES ASSUME NEW t \in Jobs PROVE active'[t] = Cardinality(SlotsOf(t)')
      BY DEF Counted
    <3>1. CASE t = s
      <4>1. SlotsOf(t)' = SlotsOf(t) \ {j} /\ j \in SlotsOf(t)
        BY <1>1, <1>2, <1>3, <2>2, <3>1 DEF SlotsOf, HasSlot
      <4>2. Cardinality(SlotsOf(t)') = Cardinality(SlotsOf(t)) - 1
        BY <4>1, Slots, FS_RemoveElement
      <4> QED BY <2>3, <3>1, <4>2 DEF Counted
    <3>2. CASE t # s
      <4>1. SlotsOf(t)' = SlotsOf(t)
        BY <1>2, <1>3, <2>2, <3>2 DEF SlotsOf, HasSlot
      <4> QED BY <2>3, <3>2, <4>1 DEF Counted
    <3> QED BY <3>1, <3>2
  <2>8. Lined'
    BY <1>1, <1>3, <2>1, <2>2 DEF Lined, InQueue, Distinct
  <2>9. Full'
    <3> SUFFICES ASSUME NEW t \in Jobs
                 PROVE  /\ active'[t] <= Limit[KeyOf[t]]
                        /\ queue'[t] # <<>> => active'[t] = Limit[KeyOf[t]]
      BY DEF Full, NoIdleSlot
    <3>1. active[t] <= Limit[KeyOf[t]] /\ (queue[t] # <<>> => active[t] = Limit[KeyOf[t]])
      BY DEF Full, NoIdleSlot
    <3>2. active[t] \in Nat /\ Limit[KeyOf[t]] \in Nat
      BY KeyAssumption, LimitAssumption DEF TypeOK
    <3> QED BY <1>5, <2>1, <2>3, <3>1, <3>2
  <2> QED BY <2>4, <2>5, <2>6, <2>7, <2>8, <2>9
<1>6. CASE queue[s] # <<>>
  <2>1. PICK h \in Jobs : h = Head(queue[s])
    BY <1>4, <1>6
  <2>2. /\ active' = active /\ queue' = [queue EXCEPT ![s] = Tail(@)]
        /\ phase' = [phase EXCEPT ![j] = "released", ![h] = "started"]
    BY <1>2, <1>6, <2>1, ReleaseIs
  <2>3. /\ InQueue(queue[s], h) /\ Tail(queue[s]) \in Seq(Jobs) /\ Distinct(Tail(queue[s]))
        /\ \A i : InQueue(Tail(queue[s]), i) <=> InQueue(queue[s], i) /\ i # h
    BY <1>4, <1>6, <2>1, Shift
  <2>4. phase[h] = "queued" /\ stateOf[h] = s /\ h # j
    BY <1>1, <2>3 DEF Lined
  <2>5. \A i \in Jobs : phase'[i] = IF i = j THEN "released" ELSE IF i = h THEN "started" ELSE phase[i]
    BY <2>2, <2>4 DEF TypeOK
  <2>6. queue'[s] = Tail(queue[s]) /\ \A t \in Jobs : t # s => queue'[t] = queue[t]
    BY <2>2 DEF TypeOK
  <2>7. Mapped' /\ states' \in [Keys -> Jobs \cup {NoState}]
    BY <1>2, <1>3, <2>2, <2>6, Dropping
  <2>8. TypeOK'
    BY <1>3, <2>2, <2>3, <2>7 DEF TypeOK, Phases
  <2>9. Bound'
    BY <1>1, <1>3, <2>4, <2>5, JobsAssumption DEF Bound, HasSlot, TypeOK
  <2>10. Counted'
    <3> SUFFICES ASSUME NEW t \in Jobs PROVE active'[t] = Cardinality(SlotsOf(t)')
      BY DEF Counted
    <3>1. CASE t = s
      <4>1. SlotsOf(t)' = (SlotsOf(t) \ {j}) \cup {h} /\ j \in SlotsOf(t) /\ h \notin SlotsOf(t)
        BY <1>1, <1>2, <1>3, <2>4, <2>5, <3>1 DEF SlotsOf, HasSlot
      <4>2. /\ IsFiniteSet(SlotsOf(t) \ {j})
            /\ Cardinality(SlotsOf(t) \ {j}) = Cardinality(SlotsOf(t)) - 1
        BY <4>1, Slots, FS_RemoveElement
      <4>3. Cardinality((SlotsOf(t) \ {j}) \cup {h}) = Cardinality(SlotsOf(t) \ {j}) + 1
        BY <4>1, <4>2, FS_AddElement
      <4>4. Cardinality(SlotsOf(t)) \in Nat
        BY Slots, FS_CardinalityType
      <4> QED BY <2>2, <4>1, <4>2, <4>3, <4>4 DEF Counted
    <3>2. CASE t # s
      <4>1. SlotsOf(t)' = SlotsOf(t)
        BY <1>2, <1>3, <2>4, <2>5, <3>2 DEF SlotsOf, HasSlot
      <4> QED BY <2>2, <4>1 DEF Counted
    <3> QED BY <3>1, <3>2
  <2>11. Lined'
    <3> SUFFICES ASSUME NEW t \in Jobs
                 PROVE  /\ \A i \in Jobs : stateOf'[i] = t /\ phase'[i] = "queued" <=> InQueue(queue'[t], i)
                        /\ Distinct(queue'[t])
      BY DEF Lined, InQueue, Distinct
    <3>1. CASE t = s
      BY <1>1, <1>3, <2>3, <2>5, <2>6, <3>1 DEF Lined
    <3>2. CASE t # s
      BY <1>1, <1>3, <2>4, <2>5, <2>6, <3>2 DEF Lined
    <3> QED BY <3>1, <3>2
  <2>12. Full'
    BY <1>6, <2>2, <2>6 DEF Full, NoIdleSlot
  <2> QED BY <2>7, <2>8, <2>9, <2>10, <2>11, <2>12
<1> QED BY <1>5, <1>6

-----------------------------------------------------------------------------
(* The theorems *)

(* The invariant holds of a limiter nobody has called.                      *)
LEMMA InitKInv == Init => KInv
<1> SUFFICES ASSUME Init PROVE KInv
  OBVIOUS
<1> USE DEF Init
<1>1. TypeOK
  BY DEF TypeOK, Phases
<1>2. Bound /\ Full
  BY JobsAssumption, KeyAssumption, LimitAssumption DEF Bound, HasSlot, Full, NoIdleSlot
<1>3. Counted
  <2>1. ASSUME NEW s \in Jobs PROVE SlotsOf(s) = {}
    BY DEF SlotsOf, HasSlot
  <2> QED BY <2>1, FS_EmptySet DEF Counted
<1>4. Lined
  BY DEF Lined, InQueue, Distinct
<1>5. Mapped
  BY DEF Mapped, OneLiveState, Idle
<1> QED BY <1>1, <1>2, <1>3, <1>4, <1>5 DEF KInv

(* Every step preserves it: each call of run, each abort and each release.  *)
LEMMA StepKInv == KInv /\ [Next]_vars => KInv'
<1> SUFFICES ASSUME KInv, [Next]_vars PROVE KInv'
  OBVIOUS
<1>1. CASE UNCHANGED vars
  <2>1. TypeOK' /\ Bound' /\ Lined' /\ Mapped' /\ Full'
    BY <1>1 DEF vars, KInv, TypeOK, Bound, HasSlot, Lined, InQueue, Distinct,
                Mapped, OneLiveState, Idle, Full, NoIdleSlot
  <2>2. ASSUME NEW t \in Jobs PROVE SlotsOf(t)' = SlotsOf(t)
    BY <1>1 DEF vars, SlotsOf, HasSlot
  <2>3. Counted'
    BY <1>1, <2>2 DEF vars, KInv, Counted
  <2> QED BY <2>1, <2>3 DEF KInv
<1>2. ASSUME NEW j \in Jobs, RefuseAborted(j) PROVE KInv'
  <2>1. "rejected" \in Phases \ {"new", "queued"} /\ phase[j] # "queued"
    BY <1>2 DEF Phases, RefuseAborted
  <2>2. HasSlot(j) <=> "rejected" \in {"started", "running", "settled"}
    BY <1>2 DEF HasSlot, RefuseAborted
  <2> QED BY <1>2, <2>1, <2>2, Calm DEF RefuseAborted
<1>3. ASSUME NEW j \in Jobs, BeginWork(j) PROVE KInv'
  <2>1. "running" \in Phases \ {"new", "queued"} /\ phase[j] # "queued"
    BY <1>3 DEF Phases, BeginWork
  <2>2. HasSlot(j) <=> "running" \in {"started", "running", "settled"}
    BY <1>3 DEF HasSlot, BeginWork
  <2> QED BY <1>3, <2>1, <2>2, Calm DEF BeginWork
<1>4. ASSUME NEW j \in Jobs, Settle(j) PROVE KInv'
  <2>1. "settled" \in Phases \ {"new", "queued"} /\ phase[j] # "queued"
    BY <1>4 DEF Phases, Settle
  <2>2. HasSlot(j) <=> "settled" \in {"started", "running", "settled"}
    BY <1>4 DEF HasSlot, Settle
  <2> QED BY <1>4, <2>1, <2>2, Calm DEF Settle
<1>5. CASE Next
  BY <1>1, <1>2, <1>3, <1>4, <1>5, RunStep, ReleaseStep, AbortOtherStep, AbortQueuedStep
     DEF Next, Microtask, Quiet
<1> QED BY <1>1, <1>5

(* The inductive invariant holds in every reachable state. *)
THEOREM Invariant == Spec => []KInv
BY InitKInv, StepKInv, PTL DEF Spec

(* Every variable stays in its type. *)
THEOREM TypeCorrect == Spec => []TypeOK
<1>1. KInv => TypeOK
  BY DEF KInv
<1> QED BY <1>1, Invariant, PTL

(* However many calls are made, aborted and settled in whatever order, no   *)
(* key ever has more works between start and release than its limit.       *)
THEOREM NeverMoreThanTheLimit == Spec => []LimitHolds
<1>1. KInv => LimitHolds
  <2> SUFFICES ASSUME KInv, NEW key \in Keys PROVE Cardinality(Holders(key)) <= Limit[key]
    BY DEF LimitHolds
  <2>1. CASE Holders(key) = {}
    BY <2>1, FS_EmptySet, LimitAssumption
  <2>2. CASE Holders(key) # {}
    <3>1. PICK j \in Holders(key) : TRUE
      BY <2>2
    <3>2. PICK s \in Jobs : s = states[key] /\ KeyOf[s] = key
      BY <3>1, InUse DEF Holders, KInv, Mapped, OneLiveState
    <3>3. \A i \in Holders(key) : i \in SlotsOf(s)
      BY <3>2, InUse DEF Holders, SlotsOf, KInv, Mapped, OneLiveState
    <3>4. Cardinality(Holders(key)) <= Cardinality(SlotsOf(s))
      BY <3>3, Slots, FS_Subset
    <3>5. Holders(key) \in SUBSET Jobs
      BY DEF Holders
    <3>6. Cardinality(Holders(key)) \in Nat /\ active[s] \in Nat /\ Limit[key] \in Nat
      BY <3>5, JobsAssumption, FS_Subset, FS_CardinalityType, LimitAssumption DEF KInv, TypeOK
    <3>7. active[s] = Cardinality(SlotsOf(s)) /\ active[s] <= Limit[key]
      BY <3>2 DEF KInv, Counted, Full
    <3> QED BY <3>4, <3>6, <3>7
  <2> QED BY <2>1, <2>2
<1> QED BY <1>1, Invariant, PTL

(* The counters and queues of the state objects are the jobs that hold     *)
(* their slots and the jobs that wait for one, whatever was aborted.       *)
THEOREM StatesAreCounts == Spec => []StatesCountTheirJobs
<1>1. KInv => StatesCountTheirJobs
  BY DEF KInv, Counted, Lined, StatesCountTheirJobs, SlotsOf, InQueue, Distinct
<1> QED BY <1>1, Invariant, PTL

(* The map holds exactly the state objects in use, one per key. *)
THEOREM MapIsExact == Spec => []OneLiveState
<1>1. KInv => OneLiveState
  BY DEF KInv, Mapped
<1> QED BY <1>1, Invariant, PTL

(* Nobody waits for a slot that is free. *)
THEOREM NoSlotIdles == Spec => []NoIdleSlot
<1>1. KInv => NoIdleSlot
  BY DEF KInv, Full
<1> QED BY <1>1, Invariant, PTL

(* No waiter's signal is aborted: start() never meets the case in which it  *)
(* rejects a waiter and drains again, which the actions leave out.          *)
THEOREM NoWaiterIsAborted == Spec => []WaitersAreLive
<1>1. Init => WaitersAreLive
  BY DEF Init, WaitersAreLive
<1>2. TypeOK /\ WaitersAreLive /\ [Next]_vars => WaitersAreLive'
  <2> SUFFICES ASSUME TypeOK, WaitersAreLive, [Next]_vars, NEW i \in Jobs, phase'[i] = "queued"
               PROVE  ~aborted'[i]
    BY DEF WaitersAreLive
  <2>1. CASE UNCHANGED vars
    BY <2>1 DEF WaitersAreLive, vars
  <2>2. ASSUME NEW j \in Jobs, RefuseAborted(j) \/ BeginWork(j) \/ Settle(j) PROVE ~aborted'[i]
    BY <2>2 DEF RefuseAborted, BeginWork, Settle, WaitersAreLive, TypeOK
  <2>3. ASSUME NEW j \in Jobs, Run(j) PROVE ~aborted'[i]
    <3>1. ~aborted[j] /\ aborted' = aborted /\ (i # j => phase'[i] = phase[i])
      BY <2>3 DEF Run, TypeOK
    <3> QED BY <3>1 DEF WaitersAreLive
  <2>4. ASSUME NEW j \in Jobs, Release(j) PROVE ~aborted'[i]
    <3>1. aborted' = aborted /\ phase'[i] = phase[i]
      BY <2>4 DEF Release, TypeOK
    <3> QED BY <3>1 DEF WaitersAreLive
  <2>5. ASSUME NEW j \in Jobs, AbortOther(j) PROVE ~aborted'[i]
    <3>1. phase' = phase /\ phase[j] # "queued" /\ (i # j => aborted'[i] = aborted[i])
      BY <2>5 DEF AbortOther, TypeOK
    <3> QED BY <3>1 DEF WaitersAreLive
  <2>6. ASSUME NEW j \in Jobs, AbortQueued(j) PROVE ~aborted'[i]
    <3>1. i # j /\ phase'[i] = phase[i] /\ aborted'[i] = aborted[i]
      BY <2>6 DEF AbortQueued, TypeOK
    <3> QED BY <3>1 DEF WaitersAreLive
  <2> QED BY <2>1, <2>2, <2>3, <2>4, <2>5, <2>6 DEF Next, Microtask, Quiet
<1> QED BY <1>1, <1>2, TypeCorrect, PTL DEF Spec
-----------------------------------------------------------------------------
(* The limiter is a pool (BoundedPool) *)

(* The line of a key is the queue of its state, also while it has none.    *)
LEMMA LineIs ==
  ASSUME KInv, NEW s \in Jobs, states[KeyOf[s]] \in {s, NoState}
  PROVE  Waiting[KeyOf[s]] = queue[s]
<1>1. KeyOf[s] \in Keys
  BY KeyAssumption
<1>2. states[KeyOf[s]] # s => queue[s] = <<>>
  BY DEF KInv, Mapped, OneLiveState, Idle
<1> QED BY <1>1, <1>2, JobsAssumption DEF Waiting

(* The pool counts with the operator of the limiter.                       *)
LEMMA SameCount ==
  ASSUME NEW S
  PROVE  Pool!Cardinality(S) = Cardinality(S)
BY DEF Pool!Cardinality, Cardinality

(* Whoever holds a slot of a key holds it of that state.                   *)
LEMMA HoldersAre ==
  ASSUME KInv, NEW s \in Jobs, states[KeyOf[s]] \in {s, NoState}
  PROVE  Pool!Cardinality(Pool!Inside(KeyOf[s])) = active[s]
<1>1. ASSUME NEW j \in Jobs, HasSlot(j), KeyOf[j] = KeyOf[s] PROVE stateOf[j] = s
  <2>1. stateOf[j] \in Jobs /\ KeyOf[stateOf[j]] = KeyOf[s] /\ ~Idle(stateOf[j])
    BY <1>1, InUse
  <2>2. states[KeyOf[s]] = stateOf[j]
    BY <2>1 DEF KInv, Mapped, OneLiveState
  <2> QED BY <2>1, <2>2, JobsAssumption
<1>2. ASSUME NEW j \in Jobs, HasSlot(j), stateOf[j] = s PROVE KeyOf[j] = KeyOf[s]
  BY <1>2, InUse
<1>3. Pool!Inside(KeyOf[s]) = SlotsOf(s)
  BY <1>1, <1>2 DEF Pool!Inside, Holding, SlotsOf
<1> QED BY <1>3, SameCount DEF KInv, Counted

(* A step that touches the queue and the place in the map of one state     *)
(* changes the line of its key only.                                       *)
LEMMA LineMoves ==
  ASSUME KInv, KInv', NEW s \in Jobs,
         states[KeyOf[s]] \in {s, NoState}, states'[KeyOf[s]] \in {s, NoState},
         \A key \in Keys : key # KeyOf[s] => states'[key] = states[key],
         \A t \in Jobs : t # s => queue'[t] = queue[t]
  PROVE  Waiting' = [Waiting EXCEPT ![KeyOf[s]] = queue'[s]]
<1>1. KeyOf[s] \in Keys
  BY KeyAssumption
<1>2. states'[KeyOf[s]] # s => queue'[s] = <<>>
  BY DEF KInv, Mapped, OneLiveState, Idle
<1>3. Waiting'[KeyOf[s]] = queue'[s]
  BY <1>1, <1>2, JobsAssumption DEF Waiting
<1>4. ASSUME NEW key \in Keys, key # KeyOf[s] PROVE Waiting'[key] = Waiting[key]
  <2>1. states'[key] = states[key]
    BY <1>4
  <2>2. states[key] # NoState => states[key] \in Jobs /\ states[key] # s
    BY <1>4 DEF KInv, TypeOK, Mapped
  <2> QED BY <2>1, <2>2 DEF Waiting
<1>5. Waiting = [key \in Keys |-> Waiting[key]] /\ Waiting' = [key \in Keys |-> Waiting'[key]]
  BY DEF Waiting
<1> QED BY <1>1, <1>3, <1>4, <1>5

(* A step of the pool is its change of the three sets; the others of this  *)
(* section say which one an operation of the limiter is.                   *)
LEMMA EnterOrQueue ==
  ASSUME KInv, KInv', NEW j \in Jobs, Run(j)
  PROVE  Pool!Enter(j) \/ Pool!Queue(j)
<1> DEFINE s == StateFor(j)
<1>1. /\ s \in Jobs /\ KeyOf[s] = KeyOf[j]
      /\ states[KeyOf[s]] \in {s, NoState} /\ (states[KeyOf[s]] = NoState => s = j)
  BY StateForIs DEF Run, StateFor
<1>2. /\ phase[j] = "new" /\ KeyOf[s] \in Keys /\ Limit[KeyOf[s]] \in Nat \ {0}
      /\ states' = [states EXCEPT ![KeyOf[s]] = s]
  BY <1>1, KeyAssumption, LimitAssumption DEF Run
<1>3. active[s] \in Nat /\ active[s] <= Limit[KeyOf[s]] /\ (queue[s] # <<>> => active[s] = Limit[KeyOf[s]])
  BY <1>1 DEF KInv, TypeOK, Full, NoIdleSlot
<1>4. states'[KeyOf[s]] = s /\ \A key \in Keys : key # KeyOf[s] => states'[key] = states[key]
  BY <1>2 DEF KInv, TypeOK
<1>5. j \in Fresh /\ Waiting[KeyOf[j]] = queue[s] /\ Pool!Cardinality(Pool!Inside(KeyOf[j])) = active[s]
  BY <1>1, <1>2, LineIs, HoldersAre DEF Fresh
<1>6. CASE active[s] < Limit[KeyOf[j]]
  <2>1. queue' = queue /\ phase' = [phase EXCEPT ![j] = "started"]
    BY <1>6 DEF Run
  <2> HIDE DEF s
  <2>2. Waiting' = [Waiting EXCEPT ![KeyOf[s]] = queue'[s]]
    BY <1>1, <1>4, <2>1, LineMoves
  <2>3. Waiting' = Waiting
    BY <1>1, <1>2, <1>5, <2>1, <2>2 DEF Waiting
  <2>4. Fresh' = Fresh \ {j} /\ Holding' = Holding \cup {j}
    BY <1>2, <2>1 DEF Fresh, Holding, HasSlot, KInv, TypeOK
  <2>5. Waiting[KeyOf[j]] = <<>> /\ Pool!Cardinality(Pool!Inside(KeyOf[j])) < Limit[KeyOf[j]]
    BY <1>1, <1>2, <1>3, <1>5, <1>6
  <2> QED BY <1>5, <2>3, <2>4, <2>5 DEF Pool!Enter
<1>7. CASE ~(active[s] < Limit[KeyOf[j]])
  <2>1. queue' = [queue EXCEPT ![s] = Append(@, j)] /\ phase' = [phase EXCEPT ![j] = "queued"]
    BY <1>7 DEF Run
  <2> HIDE DEF s
  <2>2. queue'[s] = Append(queue[s], j) /\ \A t \in Jobs : t # s => queue'[t] = queue[t]
    BY <1>1, <2>1 DEF KInv, TypeOK
  <2>3. Waiting' = [Waiting EXCEPT ![KeyOf[s]] = queue'[s]]
    BY <1>1, <1>4, <2>2, LineMoves
  <2>4. Waiting' = [Waiting EXCEPT ![KeyOf[j]] = Append(@, j)]
    BY <1>1, <1>5, <2>2, <2>3
  <2>5. Fresh' = Fresh \ {j} /\ Holding' = Holding
    BY <1>2, <2>1 DEF Fresh, Holding, HasSlot, KInv, TypeOK
  <2>6. Pool!Cardinality(Pool!Inside(KeyOf[j])) = Limit[KeyOf[j]]
    BY <1>1, <1>2, <1>3, <1>5, <1>7
  <2> QED BY <1>5, <2>4, <2>5, <2>6 DEF Pool!Queue
<1> QED BY <1>6, <1>7

(* Where a job in line or with a slot finds its state: in the map.         *)
LEMMA StateOfIsMapped ==
  ASSUME KInv, NEW j \in Jobs, HasSlot(j) \/ phase[j] = "queued"
  PROVE  /\ stateOf[j] \in Jobs /\ KeyOf[stateOf[j]] = KeyOf[j]
         /\ states[KeyOf[j]] = stateOf[j]
<1>1. stateOf[j] \in Jobs /\ KeyOf[stateOf[j]] = KeyOf[j]
  BY DEF KInv, TypeOK, Bound
<1>2. ~Idle(stateOf[j])
  <2>1. CASE HasSlot(j)
    BY <2>1, InUse
  <2>2. CASE phase[j] = "queued"
    <3>1. InQueue(queue[stateOf[j]], j)
      BY <1>1, <2>2 DEF KInv, Lined
    <3> QED BY <3>1 DEF InQueue, Idle
  <2> QED BY <2>1, <2>2
<1> QED BY <1>1, <1>2 DEF KInv, Mapped, OneLiveState

(* The abort of a waiter is its giving up.                                 *)
LEMMA GivesUp ==
  ASSUME KInv, KInv', NEW j \in Jobs, AbortQueued(j)
  PROVE  Pool!GiveUp(j)
<1> DEFINE s == stateOf[j]
<1>1. /\ phase[j] = "queued" /\ phase' = [phase EXCEPT ![j] = "rejected"]
      /\ DeleteIdleState(KeyOf[j], s)
  BY DEF AbortQueued
<1>2. s \in Jobs /\ KeyOf[s] = KeyOf[j] /\ states[KeyOf[s]] = s /\ KeyOf[s] \in Keys
  BY <1>1, StateOfIsMapped, KeyAssumption
<1>3. PICK index \in DOMAIN queue[s] :
        /\ queue[s][index] = j
        /\ queue' = [queue EXCEPT ![s] = SubSeq(@, 1, index - 1) \o SubSeq(@, index + 1, Len(@))]
  BY DEF AbortQueued
<1>4. states'[KeyOf[s]] \in {s, NoState} /\ \A key \in Keys : key # KeyOf[s] => states'[key] = states[key]
  BY <1>1, <1>2 DEF DeleteIdleState, KInv, TypeOK
<1> HIDE DEF s
<1>5. /\ queue'[s] = SubSeq(queue[s], 1, index - 1) \o SubSeq(queue[s], index + 1, Len(queue[s]))
      /\ \A t \in Jobs : t # s => queue'[t] = queue[t]
  BY <1>2, <1>3 DEF KInv, TypeOK
<1>6. Waiting' = [Waiting EXCEPT ![KeyOf[s]] = queue'[s]]
  BY <1>2, <1>4, <1>5, LineMoves
<1>7. Waiting[KeyOf[j]] = queue[s]
  BY <1>2, LineIs
<1>8. Fresh' = Fresh /\ Holding' = Holding
  BY <1>1 DEF Fresh, Holding, HasSlot, KInv, TypeOK
<1>9. Waiting' = [Waiting EXCEPT ![KeyOf[j]] = SubSeq(@, 1, index - 1) \o SubSeq(@, index + 1, Len(@))]
  BY <1>2, <1>5, <1>6, <1>7
<1> QED BY <1>3, <1>7, <1>8, <1>9 DEF Pool!GiveUp

(* The finally callback leaves the place, and passes it to the first in line. *)
LEMMA Leaves ==
  ASSUME KInv, KInv', NEW j \in Jobs, Release(j)
  PROVE  Pool!Leave(j)
<1> DEFINE s == stateOf[j]
<1>1. phase[j] = "settled" /\ HasSlot(j) /\ DeleteIdleState(KeyOf[j], s)
  BY DEF Release, HasSlot
<1>2. s \in Jobs /\ KeyOf[s] = KeyOf[j] /\ states[KeyOf[s]] = s /\ KeyOf[s] \in Keys
  BY <1>1, StateOfIsMapped, KeyAssumption
<1>3. states'[KeyOf[s]] \in {s, NoState} /\ \A key \in Keys : key # KeyOf[s] => states'[key] = states[key]
  BY <1>1, <1>2 DEF DeleteIdleState, KInv, TypeOK
<1>4. j \in Holding /\ Waiting[KeyOf[j]] = queue[s] /\ queue[s] \in Seq(Jobs)
  BY <1>1, <1>2, LineIs DEF Holding, KInv, TypeOK
<1>5. CASE queue[s] = <<>>
  <2>1. queue' = queue /\ phase' = [phase EXCEPT ![j] = "released"]
    BY <1>5, ReleaseIs
  <2> HIDE DEF s
  <2>2. Waiting' = [Waiting EXCEPT ![KeyOf[s]] = queue'[s]]
    BY <1>2, <1>3, <2>1, LineMoves
  <2>3. Waiting' = Waiting
    BY <1>2, <1>4, <2>1, <2>2 DEF Waiting
  <2>4. Fresh' = Fresh /\ Holding' = Holding \ {j}
    BY <1>1, <2>1 DEF Fresh, Holding, HasSlot, KInv, TypeOK
  <2> QED BY <1>4, <1>5, <2>3, <2>4 DEF Pool!Leave
<1>6. CASE queue[s] # <<>>
  <2>1. /\ queue' = [queue EXCEPT ![s] = Tail(@)]
        /\ phase' = [phase EXCEPT ![j] = "released", ![Head(queue[s])] = "started"]
    BY <1>6, ReleaseIs
  <2> HIDE DEF s
  <2>2. queue'[s] = Tail(queue[s]) /\ \A t \in Jobs : t # s => queue'[t] = queue[t]
    BY <1>2, <2>1 DEF KInv, TypeOK
  <2>3. Waiting' = [Waiting EXCEPT ![KeyOf[s]] = queue'[s]]
    BY <1>2, <1>3, <2>2, LineMoves
  <2>4. Waiting' = [Waiting EXCEPT ![KeyOf[j]] = Tail(@)]
    BY <1>2, <1>4, <2>2, <2>3
  <2>5. Head(queue[s]) \in Jobs /\ phase[Head(queue[s])] = "queued"
    <3>1. Distinct(queue[s])
      BY <1>2 DEF KInv, Lined
    <3>2. Head(queue[s]) \in Jobs /\ InQueue(queue[s], Head(queue[s]))
      BY <1>4, <1>6, <3>1, Shift
    <3> QED BY <1>2, <3>2 DEF KInv, Lined
  <2>6. PICK h \in Jobs : h = Head(Waiting[KeyOf[j]]) /\ phase[h] = "queued"
    BY <1>4, <2>5
  <2>7. phase' = [phase EXCEPT ![j] = "released", ![h] = "started"]
    BY <1>4, <2>1, <2>6
  <2>8. Fresh' = Fresh /\ Holding' = (Holding \ {j}) \cup {h}
    BY <1>1, <2>6, <2>7 DEF Fresh, Holding, HasSlot, KInv, TypeOK
  <2> QED BY <1>4, <1>6, <2>4, <2>6, <2>8 DEF Pool!Leave
<1> QED BY <1>5, <1>6

(* Every step of the limiter is a step of the pool, or invisible there.    *)
LEMMA PoolStep == KInv /\ KInv' /\ [Next]_vars => [Pool!Next]_Pool!vars
<1> SUFFICES ASSUME KInv, KInv', [Next]_vars PROVE Pool!Next \/ UNCHANGED Pool!vars
  BY Zenon
<1>1. CASE UNCHANGED vars
  BY <1>1 DEF vars, Pool!vars, Fresh, Waiting, Holding, HasSlot
<1>2. ASSUME NEW j \in Jobs, RefuseAborted(j) PROVE Pool!Next
  <2>1. /\ phase[j] = "new" /\ phase' = [phase EXCEPT ![j] = "rejected"]
        /\ UNCHANGED <<states, queue>>
    BY <1>2 DEF RefuseAborted
  <2>2. j \in Fresh /\ Fresh' = Fresh \ {j} /\ Holding' = Holding
    BY <2>1 DEF Fresh, Holding, HasSlot, KInv, TypeOK
  <2>3. Waiting' = Waiting
    BY <2>1 DEF Waiting
  <2>4. Pool!Refuse(j)
    BY <2>2, <2>3 DEF Pool!Refuse
  <2> QED BY <2>4 DEF Pool!Next
<1>3. ASSUME NEW j \in Jobs, BeginWork(j) \/ Settle(j) PROVE UNCHANGED Pool!vars
  <2>1. PICK p \in {"running", "settled"} :
          HasSlot(j) /\ phase' = [phase EXCEPT ![j] = p] /\ UNCHANGED <<states, queue>>
    BY <1>3 DEF BeginWork, Settle, HasSlot
  <2>2. Fresh' = Fresh /\ Holding' = Holding
    BY <2>1 DEF Fresh, Holding, HasSlot, KInv, TypeOK
  <2> QED BY <2>1, <2>2 DEF Waiting, Pool!vars
<1>4. ASSUME NEW j \in Jobs, AbortOther(j) PROVE UNCHANGED Pool!vars
  BY <1>4 DEF AbortOther, Pool!vars, Fresh, Waiting, Holding, HasSlot
<1>5. ASSUME NEW j \in Jobs, Run(j) PROVE Pool!Next
  BY <1>5, EnterOrQueue DEF Pool!Next
<1>6. ASSUME NEW j \in Jobs, AbortQueued(j) PROVE Pool!Next
  BY <1>6, GivesUp DEF Pool!Next
<1>7. ASSUME NEW j \in Jobs, Release(j) PROVE Pool!Next
  BY <1>7, Leaves DEF Pool!Next
<1> QED BY <1>1, <1>2, <1>3, <1>4, <1>5, <1>6, <1>7 DEF Next, Microtask, Quiet

(* Every behaviour of the limiter is one of the pool: state objects, their  *)
(* deletion and the microtasks are invisible to the callers (limiter.ts).  *)
(* StdioSession relies on the pool in the place of the limiter.            *)
THEOREM ImplementsSafePool == Spec => Pool!Spec
<1>1. Init => Pool!Init
  BY DEF Init, Pool!Init, Fresh, Waiting, Holding, HasSlot
<1> QED BY <1>1, PoolStep, Invariant, PTL DEF Spec, Pool!Spec

-----------------------------------------------------------------------------
(* Where a place is *)

All == Places \cup {Root}

(* The directories above a place, as the least set with the one it is in    *)
(* and those above; the definition of Chain has a solution, thus.           *)
LEMMA ChainIs ==
  \A p \in All : Chain[p] = IF p = Root THEN {} ELSE {Above[p]} \cup Chain[Above[p]]
<1> DEFINE Closed(s) == \A q \in s \ {Root} : Above[q] \in s
           Up(p) == {q \in All : \A s \in SUBSET All : Above[p] \in s /\ Closed(s) => q \in s}
           f == [p \in All |-> IF p = Root THEN {} ELSE Up(p)]
           Is(g) == g = [p \in All |-> IF p = Root THEN {} ELSE {Above[p]} \cup g[Above[p]]]
<1>1. \A p \in Places : Above[p] \in All /\ p # Root
  BY EvidenceAssumption DEF All
<1>2. ASSUME NEW p \in Places, Above[p] = Root PROVE Up(p) = {Root}
  <2>1. Closed({Root}) /\ {Root} \in SUBSET All
    BY DEF All
  <2>2. Up(p) \subseteq {Root}
    BY <1>2, <2>1
  <2>3. Root \in Up(p)
    BY <1>2 DEF All
  <2> QED BY <2>2, <2>3
<1>3. ASSUME NEW p \in Places, Above[p] # Root PROVE Up(p) = {Above[p]} \cup Up(Above[p])
  <2> DEFINE a == Above[p]
  <2>1. a \in Places /\ Above[a] \in All
    BY <1>1, <1>3 DEF All
  <2>2. ASSUME NEW s \in SUBSET All, a \in s, Closed(s) PROVE Above[a] \in s
    BY <1>3, <2>2
  <2>5. a \in Up(p)
    BY <1>1
  <2>6. ASSUME NEW q \in Up(a) PROVE q \in Up(p)
    BY <1>1, <2>2, <2>6
  <2>3. {a} \cup Up(a) \subseteq Up(p)
    BY <2>5, <2>6
  <2>4. ASSUME NEW q \in Up(p), q # a PROVE q \in Up(a)
    <3> SUFFICES ASSUME NEW s \in SUBSET All, Above[a] \in s, Closed(s) PROVE q \in s
      BY <2>4
    <3> DEFINE t == s \cup {a}
    <3>1. t \in SUBSET All /\ a \in t /\ Closed(t)
      BY <1>1, <2>1
    <3> QED BY <2>4, <3>1
  <2> QED BY <2>3, <2>4
<1>4. Is(f)
  <2>1. ASSUME NEW p \in All PROVE f[p] = IF p = Root THEN {} ELSE {Above[p]} \cup f[Above[p]]
    <3>1. CASE p = Root
      BY <3>1
    <3>2. CASE p # Root
      <4>1. p \in Places /\ Above[p] \in All /\ f[p] = Up(p)
        BY <1>1, <3>2 DEF All
      <4>2. CASE Above[p] = Root
        <5>1. f[Above[p]] = {}
          BY <4>1, <4>2
        <5> HIDE DEF Up, f
        <5> QED BY <1>2, <3>2, <4>1, <4>2, <5>1
      <4>3. CASE Above[p] # Root
        <5>1. f[Above[p]] = Up(Above[p])
          BY <4>1, <4>3
        <5> HIDE DEF Up, f
        <5> QED BY <1>3, <3>2, <4>1, <4>3, <5>1
      <4> QED BY <4>2, <4>3
    <3> QED BY <3>1, <3>2
  <2> HIDE DEF Up
  <2> QED BY <2>1
<1>5. Chain = CHOOSE g : Is(g)
  BY DEF Chain, All
<1> HIDE DEF f
<1>6. Is(Chain)
  BY <1>4, <1>5
<1> QED BY <1>6

(* Below everything there is something that is in it.                       *)
LEMMA ChainGoesDown ==
  ASSUME NEW p \in Places
  PROVE  /\ Chain[p] \subseteq All /\ Root \in Chain[p]
         /\ \A q \in Chain[p] : \E c \in {p} \cup Chain[p] : c \in Places /\ Above[c] = q
<1> DEFINE Good(x) == /\ Chain[x] \subseteq All /\ Root \in Chain[x]
                      /\ \A q \in Chain[x] : \E c \in {x} \cup Chain[x] : c \in Places /\ Above[c] = q
           bad == {x \in Places : ~Good(x)}
<1>1. SUFFICES bad = {}
  OBVIOUS
<1>2. SUFFICES ASSUME bad # {} PROVE FALSE
  OBVIOUS
<1>3. PICK x \in bad : Above[x] \notin bad
  <2>1. bad \in SUBSET Places
    OBVIOUS
  <2> HIDE DEF bad
  <2> QED BY <1>2, <2>1, EvidenceAssumption
<1>4. x \in Places /\ x # Root /\ Above[x] \in All /\ Chain[x] = {Above[x]} \cup Chain[Above[x]]
  <2>1. x \in Places /\ x # Root /\ x \in All
    BY EvidenceAssumption DEF All
  <2>2. Above[x] \in All
    BY <2>1, EvidenceAssumption DEF All
  <2> QED BY <2>1, <2>2, ChainIs
<1>5. CASE Above[x] = Root
  <2>1. Chain[x] = {Root}
    <3>1. Chain[Root] = {}
      BY ChainIs DEF All
    <3> QED BY <1>4, <1>5, <3>1
  <2>2. Good(x)
    BY <1>4, <1>5, <2>1 DEF All
  <2> QED BY <2>2
<1>6. CASE Above[x] # Root
  <2>1. Above[x] \in Places /\ Good(Above[x])
    BY <1>3, <1>4, <1>6 DEF All
  <2>2. Good(x)
    BY <1>4, <2>1
  <2> QED BY <2>2
<1> QED BY <1>5, <1>6

(* What is anywhere has directories above it, up to the root.               *)
LEMMA AboveAreDirectories ==
  ASSUME NEW t \in Trees, NEW p \in Places, t[p] # Nothing
  PROVE  \A q \in Chain[p] : t[q] = Directory
<1> DEFINE Good(x) == t[x] # Nothing => \A q \in Chain[x] : t[q] = Directory
           bad == {x \in Places : ~Good(x)}
<1>1. SUFFICES ASSUME bad # {} PROVE FALSE
  OBVIOUS
<1>2. PICK x \in bad : Above[x] \notin bad
  <2>1. bad \in SUBSET Places
    OBVIOUS
  <2> HIDE DEF bad
  <2> QED BY <1>1, <2>1, EvidenceAssumption
<1>3. x \in Places /\ t[x] # Nothing /\ t[Above[x]] = Directory
  BY DEF Trees
<1>4. Above[x] \in All /\ Chain[x] = {Above[x]} \cup Chain[Above[x]]
  <2>1. x # Root /\ x \in All /\ Above[x] \in All
    BY <1>3, EvidenceAssumption DEF All
  <2> QED BY <2>1, ChainIs
<1>5. \A q \in Chain[Above[x]] : t[q] = Directory
  <2>1. CASE Above[x] = Root
    BY <2>1, ChainIs DEF All
  <2>2. CASE Above[x] # Root
    <3>1. Above[x] \in Places /\ Directory # Nothing
      BY <1>4, <2>2 DEF All, Directory, Nothing
    <3> QED BY <1>2, <1>3, <3>1
  <2> QED BY <2>1, <2>2
<1>6. Good(x)
  BY <1>3, <1>4, <1>5
<1> QED BY <1>6

LEMMA ChainGoesOn ==
  ASSUME NEW x \in Places, NEW p \in Places
  PROVE  x \in Chain[p] => Chain[x] \subseteq Chain[p]
<1> DEFINE Good(y) == x \in Chain[y] => Chain[x] \subseteq Chain[y]
           bad == {y \in Places : ~Good(y)}
<1>1. SUFFICES ASSUME bad # {} PROVE FALSE
  OBVIOUS
<1>2. PICK y \in bad : Above[y] \notin bad
  <2>1. bad \in SUBSET Places
    OBVIOUS
  <2> HIDE DEF bad
  <2> QED BY <1>1, <2>1, EvidenceAssumption
<1>3. y \in Places /\ x \in Chain[y] /\ ~(Chain[x] \subseteq Chain[y])
  OBVIOUS
<1>4. Above[y] \in All /\ Chain[y] = {Above[y]} \cup Chain[Above[y]]
  <2>1. y # Root /\ y \in All /\ Above[y] \in All
    BY <1>3, EvidenceAssumption DEF All
  <2> QED BY <2>1, ChainIs
<1>5. x # Above[y] /\ x \in Chain[Above[y]]
  BY <1>3, <1>4
<1>6. Above[y] \in Places
  <2>1. Chain[Root] = {}
    BY ChainIs DEF All
  <2> QED BY <1>4, <1>5, <2>1 DEF All
<1>7. Chain[x] \subseteq Chain[Above[y]]
  BY <1>2, <1>5, <1>6
<1> QED BY <1>3, <1>4, <1>7

LEMMA ChainEnds == \A p \in Places : p \notin Chain[p]
<1> DEFINE bad == {x \in Places : x \in Chain[x]}
<1>1. SUFFICES ASSUME bad # {} PROVE FALSE
  OBVIOUS
<1>2. PICK x \in bad : Above[x] \notin bad
  <2>1. bad \in SUBSET Places
    OBVIOUS
  <2> HIDE DEF bad
  <2> QED BY <1>1, <2>1, EvidenceAssumption
<1>3. x \in Places /\ x \in Chain[x]
  OBVIOUS
<1>4. Above[x] \in All /\ Chain[x] = {Above[x]} \cup Chain[Above[x]]
  <2>1. x # Root /\ x \in All /\ Above[x] \in All
    BY <1>3, EvidenceAssumption DEF All
  <2> QED BY <2>1, ChainIs
<1>5. x # Above[x]
  BY <1>2
<1>6. x \in Chain[Above[x]]
  BY <1>3, <1>4, <1>5
<1>7. Above[x] \in Places
  <2>1. Chain[Root] = {}
    BY ChainIs DEF All
  <2> QED BY <1>4, <1>6, <2>1 DEF All
<1>8. Above[x] \in Chain[Above[x]]
  BY <1>3, <1>4, <1>6, <1>7, ChainGoesOn
<1> QED BY <1>2, <1>7, <1>8

-----------------------------------------------------------------------------
(* What is still to come *)

Item == [place : All, kind : {"file", "link", "dir"}]
Pending(todo) == UNION {todo[i] : i \in DOMAIN todo}

LEMMA LeftIs ==
  ASSUME NEW todo \in Seq(SUBSET Item)
  PROVE  /\ Left(todo) \in Seq(SUBSET Item) /\ Pending(Left(todo)) = Pending(todo)
         /\ Left(todo) = <<>> => Pending(todo) = {}
<1> DEFINE full == {i \in DOMAIN todo : todo[i] # {}}
<1>1. DOMAIN todo = 1 .. Len(todo) /\ Len(todo) \in Nat /\ \A i \in 1 .. Len(todo) : todo[i] \in SUBSET Item
  OBVIOUS
<1>2. CASE full = {}
  <2>1. Left(todo) = <<>> /\ Pending(todo) = {}
    BY <1>2 DEF Left, Pending
  <2>2. Pending(<<>>) = {} /\ <<>> \in Seq(SUBSET Item)
    BY DEF Pending
  <2> QED BY <2>1, <2>2
<1>3. CASE full # {}
  <2>1. full \in SUBSET Nat
    BY <1>1
  <2>2. \E i \in full : \A j \in full : i <= j
    <3> HIDE DEF full
    <3> QED BY <1>3, <2>1, LeastNumber
  <2> DEFINE n == CHOOSE i \in full : \A j \in full : i <= j
  <2>3. n \in full /\ \A j \in full : n <= j
    <3> HIDE DEF full
    <3> QED BY <2>2
  <2>4. Left(todo) = SubSeq(todo, n, Len(todo))
    BY <1>3 DEF Left
  <2> HIDE DEF n
  <2> DEFINE l == SubSeq(todo, n, Len(todo))
  <2>5. n \in 1 .. Len(todo)
    BY <1>1, <2>3
  <2>6. /\ l \in Seq(SUBSET Item) /\ Len(l) = Len(todo) - n + 1
        /\ \A k \in 1 .. Len(l) : l[k] = todo[n + k - 1]
    BY <1>1, <2>5
  <2> HIDE DEF l
  <2>7. DOMAIN l = 1 .. Len(l) /\ Len(l) \in Nat /\ l # <<>>
    BY <1>1, <2>5, <2>6
  <2>8. Pending(l) \subseteq Pending(todo)
    <3>1. ASSUME NEW k \in DOMAIN l PROVE n + k - 1 \in DOMAIN todo /\ l[k] = todo[n + k - 1]
      BY <1>1, <2>5, <2>6, <2>7
    <3> QED BY <3>1 DEF Pending
  <2>9. Pending(todo) \subseteq Pending(l)
    <3> SUFFICES ASSUME NEW i \in DOMAIN todo, todo[i] # {} PROVE \E k \in DOMAIN l : l[k] = todo[i]
      BY DEF Pending
    <3>1. i \in full /\ n <= i
      BY <2>3
    <3>2. i - n + 1 \in DOMAIN l /\ n + (i - n + 1) - 1 = i
      BY <1>1, <2>5, <2>6, <2>7, <3>1
    <3> QED BY <2>6, <2>7, <3>2
  <2> QED BY <2>4, <2>6, <2>7, <2>8, <2>9 DEF l
<1> QED BY <1>2, <1>3

LEMMA RestIs ==
  ASSUME NEW todo \in Seq(SUBSET Item), todo # <<>>, NEW e \in Head(todo)
  PROVE  /\ Rest(todo, e) \in Seq(SUBSET Item) /\ Rest(todo, e) # <<>>
         /\ e \in Pending(todo) /\ e \in Item
         /\ Pending(Rest(todo, e)) \subseteq Pending(todo)
         /\ Pending(todo) \subseteq Pending(Rest(todo, e)) \cup {e}
<1> DEFINE r == Rest(todo, e)
<1>1. /\ Head(todo) = todo[1] /\ Head(todo) \in SUBSET Item /\ Tail(todo) \in Seq(SUBSET Item)
      /\ Len(Tail(todo)) = Len(todo) - 1 /\ Len(todo) \in Nat \ {0}
      /\ \A i \in 1 .. Len(Tail(todo)) : Tail(todo)[i] = todo[i + 1]
  OBVIOUS
<1>2. <<Head(todo) \ {e}>> \in Seq(SUBSET Item)
  BY <1>1
<1>3. /\ r \in Seq(SUBSET Item) /\ Len(r) = Len(todo) /\ r[1] = todo[1] \ {e}
      /\ \A i \in 2 .. Len(todo) : r[i] = todo[i]
  <2>1. r = <<Head(todo) \ {e}>> \o Tail(todo)
    BY DEF Rest
  <2>2. /\ r \in Seq(SUBSET Item) /\ Len(r) = 1 + Len(Tail(todo))
        /\ \A i \in 1 .. Len(r) : r[i] = IF i <= 1 THEN <<Head(todo) \ {e}>>[i] ELSE Tail(todo)[i - 1]
    BY <1>1, <1>2, <2>1, ConcatProperties
  <2> HIDE DEF r
  <2>3. r[1] = todo[1] \ {e}
    BY <1>1, <2>2
  <2>4. ASSUME NEW i \in 2 .. Len(todo) PROVE r[i] = todo[i]
    <3>1. i - 1 \in 1 .. Len(Tail(todo)) /\ i \in 1 .. Len(r) /\ ~(i <= 1) /\ (i - 1) + 1 = i
      BY <1>1, <2>2
    <3>2. r[i] = Tail(todo)[i - 1]
      BY <2>2, <3>1
    <3> QED BY <1>1, <3>1, <3>2
  <2> QED BY <1>1, <2>2, <2>3, <2>4
<1> HIDE DEF r
<1>4. DOMAIN r = 1 .. Len(todo) /\ DOMAIN todo = 1 .. Len(todo) /\ 1 \in 1 .. Len(todo)
  BY <1>1, <1>3
<1>5. ASSUME NEW i \in 1 .. Len(todo) PROVE r[i] \subseteq todo[i] /\ todo[i] \subseteq r[i] \cup {e}
  <2>1. i = 1 \/ i \in 2 .. Len(todo)
    BY <1>1
  <2> QED BY <1>3, <2>1
<1>6. e \in Pending(todo)
  BY <1>1, <1>4 DEF Pending
<1>7. Pending(r) \subseteq Pending(todo) /\ Pending(todo) \subseteq Pending(r) \cup {e}
  BY <1>4, <1>5 DEF Pending
<1>8. r # <<>>
  BY <1>1, <1>3
<1> QED BY <1>1, <1>3, <1>6, <1>7, <1>8 DEF r

LEMMA ListedIs ==
  ASSUME NEW todo \in Seq(SUBSET Item), NEW items \in SUBSET Item
  PROVE  <<items>> \o todo \in Seq(SUBSET Item) /\ Pending(<<items>> \o todo) = items \cup Pending(todo)
<1> DEFINE l == <<items>> \o todo
<1>1. /\ <<items>> \in Seq(SUBSET Item) /\ Len(<<items>>) = 1 /\ <<items>>[1] = items
  OBVIOUS
<1>2. /\ l \in Seq(SUBSET Item) /\ Len(l) = 1 + Len(todo)
      /\ \A i \in 1 .. Len(l) : l[i] = IF i <= 1 THEN <<items>>[i] ELSE todo[i - 1]
  BY <1>1, ConcatProperties
<1> HIDE DEF l
<1>3. Len(todo) \in Nat /\ DOMAIN l = 1 .. Len(l) /\ DOMAIN todo = 1 .. Len(todo)
  BY <1>2
<1>4. l[1] = items /\ 1 \in DOMAIN l
  BY <1>1, <1>2, <1>3
<1>5. ASSUME NEW i \in DOMAIN todo PROVE i + 1 \in DOMAIN l /\ l[i + 1] = todo[i]
  <2>1. i + 1 \in 1 .. Len(l) /\ ~(i + 1 <= 1) /\ (i + 1) - 1 = i
    BY <1>2, <1>3
  <2>2. l[i + 1] = todo[(i + 1) - 1]
    BY ONLY <1>2, <2>1
  <2> QED BY <1>3, <2>1, <2>2
<1>6. ASSUME NEW i \in DOMAIN l, i # 1 PROVE i - 1 \in DOMAIN todo /\ l[i] = todo[i - 1]
  <2>1. ~(i <= 1) /\ i - 1 \in 1 .. Len(todo)
    BY <1>2, <1>3, <1>6
  <2> QED BY <1>2, <1>3, <2>1
<1>7. items \cup Pending(todo) \subseteq Pending(l)
  BY <1>4, <1>5 DEF Pending
<1>8. Pending(l) \subseteq items \cup Pending(todo)
  BY <1>4, <1>6 DEF Pending
<1> QED BY <1>2, <1>7, <1>8 DEF l

-----------------------------------------------------------------------------
(* The inductive invariant *)

Noted == {Nothing} \cup [kind : {"file", "link"}, hash : Contents \cup {Far}]
Walk ==
  [style : {"capture", "snapshot"}, stage : {"before", "work", "after", "done", "failed"},
   open : BOOLEAN, todo : Seq(SUBSET Item), at : Item \cup {NoEntry},
   before : [Places -> Noted], files : [Places -> Noted]]

EvidenceTyped ==
  /\ there \in Trees /\ walk \in Walk
  /\ truth \in [first : Trees, ever : SUBSET All, moved : SUBSET All, edits : Nat]

(* What a walk has noted so far, when items are still to come: of a place   *)
(* that did not move what is there, unless it or a directory above it is    *)
(* still to come; nothing of what is not watched.                           *)
Notes(files, tree, items) ==
  \A p \in Places :
    IF p \in Watched
    THEN p \notin truth.moved =>
           \/ files[p] = Evidence(tree[p])
           \/ files[p] = Nothing /\ \E item \in items : item.place \in {p} \cup Chain[p]
    ELSE files[p] = Nothing

(* What an item is taken for, it still is, unless it moved; and above what  *)
(* did not move it still is a directory.                                    *)
ItemFits(item) ==
  /\ item.place = Root => item.kind = "dir"
  /\ item.place \notin truth.moved => item.kind = there[item.place].kind
  /\ walk.style = "capture" => Chain[item.place] \cap Ignored = {}
  /\ \A p \in Places : p \notin truth.moved /\ there[p] # Nothing /\ item.place \in Chain[p] =>
       item.kind = "dir"

Coming == Pending(walk.todo) \cup ({walk.at} \ {NoEntry})

Unstarted == walk.stage = "work" \/ (Walking /\ ~walk.open)
Excused ==
  IF walk.style = "capture" THEN there[Root] = Nothing
  ELSE \E place \in Places : there[place].kind = "link"

(* What is so while a walk goes on.                                         *)
UnderWay ==
  /\ Notes(walk.files, there, Coming)
  /\ \A item \in Coming : ItemFits(item)
  /\ walk.style = "capture" => walk.at = NoEntry
  /\ walk.todo # <<>> /\ walk.at.kind # "link"

EvidenceInv ==
  /\ EvidenceTyped
  /\ \A p \in All \ truth.ever : there[p] = truth.first[p]
  /\ truth.moved \subseteq truth.ever /\ (walk.stage = "before" => truth.ever \subseteq truth.moved)
  /\ walk.stage \in {"work", "after", "done"} => Notes(walk.before, truth.first, {})
  /\ Unstarted => walk.files = NoFiles /\ walk.todo = <<>> /\ walk.at = NoEntry
  /\ Walking /\ walk.open => UnderWay
  /\ walk.stage = "done" => Notes(walk.files, there, {})
  /\ walk.stage = "failed" /\ truth.moved = {} => Excused

LEMMA KindsAre ==
  /\ Nothing.kind = "none" /\ Directory.kind = "dir" /\ Nothing # Directory
  /\ \A t \in Trees, p \in All :
       /\ t[p] \in Entries /\ t[p].kind \in {"none", "dir", "file", "link"}
       /\ t[p].kind = "none" <=> t[p] = Nothing
       /\ t[p].kind = "dir" <=> t[p] = Directory
       /\ t[p].kind \in {"file", "link"} => t[p] \in Noted
  /\ NoFiles \in [Places -> Noted] /\ \A p \in Places : NoFiles[p] = Nothing
BY DEF Trees, Entries, Nothing, Directory, Noted, NoFiles, All

LEMMA EvidenceIs ==
  \A t \in Trees, p \in Places :
    /\ t[p] = Nothing \/ t[p] = Directory => Evidence(t[p]) = Nothing
    /\ t[p].kind = "file" => Evidence(t[p]) = t[p]
    /\ t[p].kind = "link" => Evidence(t[p]) = IF walk.style = "capture" THEN t[p] ELSE Nothing
BY KindsAre DEF Evidence, Nothing, Directory

LEMMA EvidenceStarts == EvidenceInit(Trees) => EvidenceInv
<1> SUFFICES ASSUME EvidenceInit(Trees) PROVE EvidenceInv
  OBVIOUS
<1>1. PICK style \in {"capture", "snapshot"} :
        walk = [style |-> style, stage |-> "before", open |-> FALSE, todo |-> <<>>, at |-> NoEntry,
                before |-> NoFiles, files |-> NoFiles]
  BY DEF EvidenceInit
<1>2. there \in Trees /\ truth = [first |-> there, ever |-> {}, moved |-> {}, edits |-> 0]
  BY DEF EvidenceInit
<1>3. <<>> \in Seq(SUBSET Item)
  OBVIOUS
<1>4. EvidenceTyped
  BY <1>1, <1>2, <1>3, KindsAre DEF EvidenceTyped, Walk
<1> QED BY <1>1, <1>2, <1>4 DEF EvidenceInv, Walking, Unstarted

-----------------------------------------------------------------------------
(* The steps of a walk *)

(* A walk that goes on, with what it notes and what is still to come.       *)
LEMMA WalkedKeeps ==
  ASSUME EvidenceInv, Walking, NEW todo \in Seq(SUBSET Item), NEW files \in [Places -> Noted],
         Walked(todo, files), UNCHANGED <<there, truth>>, Notes(files, there, Pending(todo)),
         Left(todo) # <<>> => walk.open /\ \A item \in Pending(todo) : ItemFits(item)
  PROVE  EvidenceInv'
<1> DEFINE l == Left(todo)
<1>1. /\ l \in Seq(SUBSET Item) /\ Pending(l) = Pending(todo) /\ (l = <<>> => Pending(todo) = {})
      /\ walk \in Walk /\ walk.stage \in {"before", "after"} /\ <<>> \in Seq(SUBSET Item)
  BY LeftIs DEF EvidenceInv, EvidenceTyped, Walking
<1>2. \A f, t, s : walk'.style = walk.style => Notes(f, t, s)' = Notes(f, t, s)
  BY DEF Notes, Watched, Evidence
<1>3. \A item : walk'.style = walk.style => ItemFits(item)' = ItemFits(item)
  BY DEF ItemFits
<1> HIDE DEF l
<1>4. CASE l # <<>>
  <2>1. walk' = [walk EXCEPT !.todo = l, !.at = NoEntry, !.files = files]
    BY <1>4 DEF Walked, l
  <2>2. /\ walk' \in Walk /\ walk'.style = walk.style /\ walk'.stage = walk.stage /\ walk'.todo = l
        /\ walk'.at = NoEntry /\ walk'.before = walk.before /\ walk'.files = files /\ walk'.open = walk.open
    BY <1>1, <2>1 DEF Walk
  <2>3. Coming' = Pending(todo)
    BY <1>1, <2>2 DEF Coming
  <2>4. walk.open /\ \A item \in Pending(todo) : ItemFits(item)
    BY <1>4 DEF l
  <2>5. Notes(walk'.files, there', Coming') /\ \A item \in Coming' : ItemFits(item)'
    BY <1>3, <2>2, <2>3, <2>4
  <2>6. Notes(walk.files, there, Coming)'
    BY <1>2, <2>2, <2>5 DEF Coming
  <2>7. UnderWay'
    BY <1>4, <2>2, <2>5, <2>6 DEF UnderWay, NoEntry
  <2>9. walk'.stage \in {"work", "after", "done"} => Notes(walk.before, truth.first, {})'
    BY <1>2, <2>2 DEF EvidenceInv
  <2> QED
    BY <1>1, <2>2, <2>4, <2>7, <2>9 DEF EvidenceInv, EvidenceTyped, Unstarted, Walking
<1>5. CASE l = <<>> /\ walk.stage = "before"
  <2>1. walk' = [walk EXCEPT !.stage = "work", !.todo = <<>>, !.at = NoEntry,
                             !.before = files, !.files = NoFiles]
    BY <1>5 DEF Walked, l
  <2>2. /\ walk' \in Walk /\ walk'.style = walk.style /\ walk'.stage = "work" /\ walk'.todo = <<>>
        /\ walk'.at = NoEntry /\ walk'.before = files /\ walk'.files = NoFiles
    BY <1>1, <2>1, KindsAre DEF Walk
  <2>3. Notes(files, truth.first, {})
    <3>1. \A p \in Places : p \notin truth.moved => there[p] = truth.first[p]
      BY <1>5 DEF EvidenceInv, All
    <3> QED BY <1>1, <1>5, <3>1 DEF Notes
  <2> QED
    BY <1>1, <1>2, <1>5, <2>2, <2>3 DEF EvidenceInv, EvidenceTyped, Unstarted, Walking
<1>6. CASE l = <<>> /\ walk.stage # "before"
  <2>1. walk' = [walk EXCEPT !.stage = "done", !.todo = <<>>, !.at = NoEntry, !.files = files]
    BY <1>6 DEF Walked, l
  <2>2. /\ walk' \in Walk /\ walk'.style = walk.style /\ walk'.stage = "done" /\ walk'.todo = <<>>
        /\ walk'.at = NoEntry /\ walk'.before = walk.before /\ walk'.files = files
    BY <1>1, <2>1 DEF Walk
  <2>3. Notes(files, there, {}) /\ Notes(walk.before, truth.first, {})
    BY <1>1, <1>6 DEF EvidenceInv
  <2> QED
    BY <1>1, <1>2, <1>6, <2>2, <2>3 DEF EvidenceInv, EvidenceTyped, Unstarted, Walking
<1> QED BY <1>4, <1>5, <1>6

LEMMA FailingKeeps ==
  ASSUME EvidenceInv, Walking, Fails, UNCHANGED <<there, truth>>, truth.moved = {} => Excused
  PROVE  EvidenceInv'
<1>1. /\ walk' \in Walk /\ walk'.stage = "failed" /\ walk'.style = walk.style
  BY DEF EvidenceInv, EvidenceTyped, Fails, Walk
<1>2. Excused' = Excused
  BY <1>1 DEF Excused
<1> QED BY <1>1, <1>2 DEF EvidenceInv, EvidenceTyped, Unstarted, Walking

(* Before a walk has looked at anything.                                    *)
LEMMA FromRootKeeps ==
  ASSUME EvidenceInv, Walking, ~walk.open, there[Root] # Nothing, FromRoot, UNCHANGED <<there, truth>>
  PROVE  EvidenceInv'
<1> DEFINE top == [place |-> Root, kind |-> "dir"]
           todo == <<{top}>>
<1>1. /\ top \in Item /\ todo \in Seq(SUBSET Item) /\ Len(todo) = 1 /\ todo[1] = {top} /\ todo # <<>>
  BY DEF Item, All
<1>2. Pending(todo) = {top}
  <2>1. DOMAIN todo = {1}
    OBVIOUS
  <2> QED BY <1>1, <2>1 DEF Pending
<1>3. /\ walk \in Walk /\ walk.files = NoFiles /\ walk.at = NoEntry /\ there \in Trees
      /\ walk.stage \in {"before", "after"}
  BY DEF EvidenceInv, EvidenceTyped, Unstarted, Walking
<1> HIDE DEF todo
<1>4. walk' = [walk EXCEPT !.open = TRUE, !.todo = todo]
  BY DEF FromRoot, todo
<1>5. /\ walk' \in Walk /\ walk'.style = walk.style /\ walk'.stage = walk.stage /\ walk'.todo = todo
      /\ walk'.at = NoEntry /\ walk'.before = walk.before /\ walk'.files = NoFiles /\ walk'.open
  BY <1>1, <1>3, <1>4 DEF Walk
<1>6. there[Root] = Directory /\ there[Root].kind = "dir"
  BY <1>3, KindsAre DEF Trees
<1>7. \A f, t, s : Notes(f, t, s)' = Notes(f, t, s)
  BY <1>5 DEF Notes, Watched, Evidence
<1>8. Coming' = {top}
  BY <1>2, <1>5 DEF Coming
<1>9. Notes(NoFiles, there, {top})
  BY ChainGoesDown, KindsAre DEF Notes
<1>10. ItemFits(top)'
  <2>1. Chain[Root] = {} /\ top.place = Root /\ top.kind = "dir"
    BY ChainIs DEF All
  <2> HIDE DEF top
  <2> QED BY <1>6, <2>1 DEF ItemFits
<1>11. Notes(walk.files, there, Coming)'
  BY <1>5, <1>7, <1>8, <1>9
<1>12. UnderWay'
  BY <1>1, <1>5, <1>8, <1>10, <1>11 DEF UnderWay, NoEntry
<1>13. walk'.stage \in {"work", "after", "done"} => Notes(walk.before, truth.first, {})'
  BY <1>5, <1>7 DEF EvidenceInv
<1> QED BY <1>3, <1>5, <1>12, <1>13 DEF EvidenceInv, EvidenceTyped, Unstarted, Walking

(* What an item is followed by in a directory and up to the root.           *)
LEMMA Below ==
  ASSUME NEW place \in All, NEW p \in Places, there \in Trees, there[p] # Nothing, place \in Chain[p]
  PROVE  \E c \in Places : /\ c \in {p} \cup Chain[p] /\ Above[c] = place
                           /\ there[c] # Nothing
<1>1. PICK c \in {p} \cup Chain[p] : c \in Places /\ Above[c] = place
  BY ChainGoesDown
<1>2. there[c] # Nothing
  BY AboveAreDirectories, KindsAre
<1> QED BY <1>1, <1>2

LEMMA ReadDirectoryKeeps ==
  ASSUME EvidenceInv, Walking, walk.open, NEW item \in Item, item.kind = "dir", ItemFits(item),
         walk.style = "capture" => item.place \notin Ignored,
         NEW todo \in Seq(SUBSET Item), \A x \in Pending(todo) : ItemFits(x),
         Notes(walk.files, there, Pending(todo) \cup {item}),
         ReadDirectory(todo, item.place), UNCHANGED <<there, truth>>
  PROVE  EvidenceInv'
<1> DEFINE place == item.place
           listing == Listing(place)
           more == <<listing>> \o todo
<1>1. /\ place \in All /\ there \in Trees /\ walk.files \in [Places -> Noted]
      /\ truth.moved \subseteq All
  BY DEF EvidenceInv, EvidenceTyped, Walk, Item
<1>2. CASE there[place].kind = "dir"
  <2>1. Walked(more, walk.files)
    BY <1>2 DEF ReadDirectory
  <2>2. ASSUME NEW x \in listing
        PROVE  /\ x.place \in Places /\ Above[x.place] = place /\ there[x.place] # Nothing
               /\ x.kind = there[x.place].kind /\ x \in Item
    <3>1. PICK q \in Places : Above[q] = place /\ there[q] # Nothing /\ x = [place |-> q, kind |-> there[q].kind]
      BY <2>2 DEF Listing
    <3>2. there[q].kind \in {"file", "link", "dir"} /\ q \in All
      BY <1>1, <3>1, KindsAre DEF All
    <3> QED BY <3>1, <3>2 DEF Item
  <2>3. ASSUME NEW q \in Places, Above[q] = place, there[q] # Nothing
        PROVE  \E x \in listing : x.place = q
    <3>1. [place |-> q, kind |-> there[q].kind] \in listing
      BY <2>3 DEF Listing
    <3> QED BY <3>1
  <2> HIDE DEF listing
  <2>4. more \in Seq(SUBSET Item) /\ Pending(more) = listing \cup Pending(todo)
    <3>1. listing \in SUBSET Item
      BY <2>2
    <3> QED BY <3>1, ListedIs
  <2> HIDE DEF more
  <2>5. ASSUME NEW x \in listing PROVE ItemFits(x)
    <3>1. x.place \in Places /\ x.place # Root /\ x.place \in All
      BY <2>2, <2>5, EvidenceAssumption DEF All
    <3>2. Chain[x.place] = {place} \cup Chain[place]
      BY <2>2, <2>5, <3>1, ChainIs
    <3>3. walk.style = "capture" => Chain[x.place] \cap Ignored = {}
      BY <3>2 DEF ItemFits
    <3>4. ASSUME NEW p \in Places, there[p] # Nothing, x.place \in Chain[p] PROVE x.kind = "dir"
      <4>1. there[x.place] = Directory
        BY <1>1, <3>4, AboveAreDirectories
      <4> QED BY <2>2, <2>5, <4>1, KindsAre
    <3> QED BY <2>2, <2>5, <3>1, <3>3, <3>4 DEF ItemFits
  <2>6. Notes(walk.files, there, Pending(more))
    <3> SUFFICES ASSUME NEW p \in Places, p \in Watched, p \notin truth.moved,
                        walk.files[p] = Nothing, Evidence(there[p]) # Nothing
                 PROVE  \E x \in Pending(more) : x.place \in {p} \cup Chain[p]
      BY DEF Notes
    <3>1. PICK x \in Pending(todo) \cup {item} : x.place \in {p} \cup Chain[p]
      BY DEF Notes
    <3>2. there[p] # Nothing /\ there[p] # Directory
      BY <1>1, EvidenceIs
    <3>3. CASE x \in Pending(todo)
      BY <2>4, <3>1, <3>3
    <3>4. CASE x = item
      <4>1. place # p
        BY <1>1, <1>2, <3>2, KindsAre DEF All
      <4>2. place \in Chain[p]
        BY <3>1, <3>4, <4>1
      <4>3. PICK c \in Places : c \in {p} \cup Chain[p] /\ Above[c] = place /\ there[c] # Nothing
        BY <1>1, <3>2, <4>2, Below
      <4> QED BY <2>3, <2>4, <4>3
    <3> QED BY <3>1, <3>3, <3>4
  <2> QED BY <1>1, <2>1, <2>4, <2>5, <2>6, WalkedKeeps
<1>3. CASE there[place].kind # "dir"
  <2>1. truth.moved # {}
    BY <1>3 DEF ItemFits
  <2>2. Fails
    BY <1>3 DEF ReadDirectory
  <2> QED BY <2>1, <2>2, FailingKeeps
<1> QED BY <1>2, <1>3

(* A file, or a link of the capture, is noted.                              *)
LEMMA RecordKeeps ==
  ASSUME EvidenceInv, Walking, walk.open, NEW item \in Item, item.kind # "dir", ItemFits(item),
         NEW todo \in Seq(SUBSET Item), \A x \in Pending(todo) : ItemFits(x),
         Notes(walk.files, there, Pending(todo) \cup {item}),
         NEW entry \in Noted, item.place \notin truth.moved => entry = Evidence(there[item.place]),
         Record(todo, item.place, entry), UNCHANGED <<there, truth>>
  PROVE  EvidenceInv'
<1> DEFINE place == item.place
           files == [walk.files EXCEPT ![place] = entry]
<1>1. /\ place \in Places /\ there \in Trees /\ walk.files \in [Places -> Noted]
      /\ truth.moved \subseteq All /\ place \in Watched
  BY DEF EvidenceInv, EvidenceTyped, Walk, Item, ItemFits, All, Watched
<1>2. /\ files \in [Places -> Noted] /\ files[place] = entry
      /\ \A p \in Places : p # place => files[p] = walk.files[p]
  BY <1>1
<1>3. Walked(todo, files)
  BY DEF Record
<1> HIDE DEF files
<1>4. Notes(files, there, Pending(todo))
  <2>1. ASSUME NEW p \in Places, p # place, p \in Watched, p \notin truth.moved,
               walk.files[p] = Nothing, Evidence(there[p]) # Nothing
        PROVE  \E x \in Pending(todo) : x.place \in {p} \cup Chain[p]
    <3>1. PICK x \in Pending(todo) \cup {item} : x.place \in {p} \cup Chain[p]
      BY <2>1 DEF Notes
    <3>2. there[p] # Nothing
      BY <1>1, <2>1, EvidenceIs
    <3>3. x # item
      BY <2>1, <3>1, <3>2 DEF ItemFits
    <3> QED BY <3>1, <3>3
  <2>2. ASSUME NEW p \in Places, p # place, p \in Watched, p \notin truth.moved
        PROVE  \/ files[p] = Evidence(there[p])
               \/ files[p] = Nothing /\ \E x \in Pending(todo) : x.place \in {p} \cup Chain[p]
    <3>1. \/ walk.files[p] = Evidence(there[p]) \/ walk.files[p] = Nothing
      BY <2>2 DEF Notes
    <3> QED BY <1>2, <2>1, <2>2, <3>1
  <2>3. ASSUME NEW p \in Places, p \notin Watched PROVE files[p] = Nothing
    <3>1. p # place /\ walk.files[p] = Nothing
      BY <1>1, <2>3 DEF Notes
    <3> QED BY <1>2, <3>1
  <2>4. place \notin truth.moved => files[place] = Evidence(there[place])
    BY <1>2
  <2> QED BY <1>1, <2>2, <2>3, <2>4 DEF Notes
<1> QED BY <1>2, <1>3, <1>4, WalkedKeeps

LEMMA ReadFileKeeps ==
  ASSUME EvidenceInv, Walking, walk.open, NEW item \in Item, item.kind = "file", ItemFits(item),
         NEW todo \in Seq(SUBSET Item), \A x \in Pending(todo) : ItemFits(x),
         Notes(walk.files, there, Pending(todo) \cup {item}),
         ReadFile(todo, item.place), UNCHANGED <<there, truth>>
  PROVE  EvidenceInv'
<1> DEFINE place == item.place
<1>1. place \in Places /\ place \in All /\ there \in Trees
  BY DEF EvidenceInv, EvidenceTyped, Item, ItemFits, All
<1>2. CASE there[place].kind = "file"
  <2>1. Record(todo, place, there[place]) /\ there[place] \in Noted /\ there[place] = Evidence(there[place])
    BY <1>1, <1>2, KindsAre, EvidenceIs DEF ReadFile
  <2> QED BY <2>1, RecordKeeps
<1>3. CASE there[place].kind = "link"
  <2> DEFINE entry == [kind |-> "file", hash |-> Far]
  <2>1. Record(todo, place, entry) /\ entry \in Noted
    BY <1>3 DEF ReadFile, Noted
  <2>2. place \in truth.moved
    BY <1>3 DEF ItemFits
  <2> HIDE DEF entry
  <2> QED BY <2>1, <2>2, RecordKeeps
<1>4. CASE there[place].kind \notin {"file", "link"}
  <2>1. truth.moved # {}
    BY <1>4 DEF ItemFits
  <2>2. Fails
    BY <1>4 DEF ReadFile
  <2> QED BY <2>1, <2>2, FailingKeeps
<1> QED BY <1>2, <1>3, <1>4

LEMMA CollectEntryKeeps == EvidenceInv /\ CollectEntry => EvidenceInv'
<1> SUFFICES ASSUME EvidenceInv, CollectEntry PROVE EvidenceInv'
  OBVIOUS
<1>1. /\ Walking /\ walk.open /\ walk.style = "capture" /\ UNCHANGED <<there, truth>>
      /\ walk.todo \in Seq(SUBSET Item) /\ walk.todo # <<>> /\ walk.at = NoEntry /\ there \in Trees
      /\ walk.files \in [Places -> Noted]
      /\ Notes(walk.files, there, Pending(walk.todo)) /\ \A x \in Pending(walk.todo) : ItemFits(x)
  BY DEF EvidenceInv, UnderWay, EvidenceTyped, Walk, CollectEntry, Coming
<1>2. PICK item \in Head(walk.todo) :
        LET todo == Rest(walk.todo, item)
            place == item.place IN
        CASE item.kind = "dir" /\ place \in Ignored -> Walked(todo, walk.files)
          [] item.kind = "dir" /\ place \notin Ignored -> ReadDirectory(todo, place)
          [] item.kind = "link" ->
               IF there[place].kind = "link" THEN Record(todo, place, there[place]) ELSE Fails
          [] OTHER -> ReadFile(todo, place)
  BY DEF CollectEntry
<1> DEFINE todo == Rest(walk.todo, item)
           place == item.place
<1>3. /\ item \in Item /\ todo \in Seq(SUBSET Item) /\ ItemFits(item) /\ \A x \in Pending(todo) : ItemFits(x)
      /\ Pending(walk.todo) \subseteq Pending(todo) \cup {item}
  BY <1>1, RestIs
<1>4. Notes(walk.files, there, Pending(todo) \cup {item})
  BY <1>1, <1>3 DEF Notes
<1>5. item.kind \in {"dir", "link", "file"} /\ place \in All
  BY <1>3 DEF Item
<1>6. CASE item.kind = "dir" /\ place \in Ignored
  <2>1. Walked(todo, walk.files)
    BY <1>2, <1>6
  <2> HIDE DEF todo
  <2>2. Notes(walk.files, there, Pending(todo))
    <3> SUFFICES ASSUME NEW p \in Places, p \in Watched, p \notin truth.moved,
                        walk.files[p] = Nothing, Evidence(there[p]) # Nothing
                 PROVE  \E x \in Pending(todo) : x.place \in {p} \cup Chain[p]
      BY <1>4 DEF Notes
    <3>1. PICK x \in Pending(todo) \cup {item} : x.place \in {p} \cup Chain[p]
      BY <1>4 DEF Notes
    <3>2. place \notin Chain[p]
      BY <1>1, <1>6 DEF Watched
    <3>3. p # place
      <4>1. there[p] # Directory
        BY <1>1, EvidenceIs
      <4> QED BY <1>1, <1>3, <1>5, <1>6, <4>1, KindsAre DEF ItemFits
    <3> QED BY <3>1, <3>2, <3>3
  <2> QED BY <1>1, <1>3, <2>1, <2>2, WalkedKeeps
<1>7. CASE item.kind = "dir" /\ place \notin Ignored
  <2>1. ReadDirectory(todo, place)
    BY <1>2, <1>7
  <2> HIDE DEF todo
  <2> QED BY <1>1, <1>3, <1>4, <1>7, <2>1, ReadDirectoryKeeps
<1>8. CASE item.kind = "link"
  <2>1. IF there[place].kind = "link" THEN Record(todo, place, there[place]) ELSE Fails
    BY <1>2, <1>8
  <2> HIDE DEF todo
  <2>2. place \in Places
    BY <1>3, <1>5, <1>8 DEF ItemFits, All
  <2>3. CASE there[place].kind = "link"
    <3>1. there[place] \in Noted /\ there[place] = Evidence(there[place]) /\ item.kind # "dir"
      BY <1>1, <1>8, <2>2, <2>3, KindsAre, EvidenceIs DEF All
    <3> QED BY <1>1, <1>3, <1>4, <2>1, <2>3, <3>1, RecordKeeps
  <2>4. CASE there[place].kind # "link"
    <3>1. truth.moved # {}
      BY <1>3, <1>8, <2>4 DEF ItemFits
    <3> QED BY <1>1, <2>1, <2>4, <3>1, FailingKeeps
  <2> QED BY <2>3, <2>4
<1>9. CASE item.kind = "file"
  <2>1. ReadFile(todo, place)
    BY <1>2, <1>9
  <2> HIDE DEF todo
  <2> QED BY <1>1, <1>3, <1>4, <1>9, <2>1, ReadFileKeeps
<1> QED BY <1>5, <1>6, <1>7, <1>8, <1>9

LEMMA VisitEntryKeeps == EvidenceInv /\ VisitEntry => EvidenceInv'
<1> SUFFICES ASSUME EvidenceInv, VisitEntry PROVE EvidenceInv'
  OBVIOUS
<1> DEFINE item == walk.at
<1>1. /\ Walking /\ walk.at # NoEntry /\ UNCHANGED <<there, truth>>
      /\ walk.todo \in Seq(SUBSET Item) /\ item \in Item /\ there \in Trees /\ walk.open
      /\ walk.style # "capture"
  BY DEF EvidenceInv, UnderWay, EvidenceTyped, Walk, VisitEntry, Unstarted
<1>2. /\ Notes(walk.files, there, Pending(walk.todo) \cup {item})
      /\ ItemFits(item) /\ \A x \in Pending(walk.todo) : ItemFits(x)
  <2>1. Coming = Pending(walk.todo) \cup {item}
    BY <1>1 DEF Coming
  <2> QED BY <1>1, <2>1 DEF EvidenceInv, UnderWay
<1>3. IF item.kind = "dir" THEN ReadDirectory(walk.todo, item.place) ELSE ReadFile(walk.todo, item.place)
  BY DEF VisitEntry
<1>4. item.kind # "dir" => item.kind = "file"
  BY <1>1 DEF EvidenceInv, UnderWay, Item
<1> HIDE DEF item
<1> QED BY <1>1, <1>2, <1>3, <1>4, ReadDirectoryKeeps, ReadFileKeeps

LEMMA StatKeeps == EvidenceInv /\ Stat => EvidenceInv'
<1> SUFFICES ASSUME EvidenceInv, Stat PROVE EvidenceInv'
  OBVIOUS
<1>1. /\ Walking /\ walk.open /\ walk.style = "snapshot" /\ UNCHANGED <<there, truth>>
      /\ walk.todo \in Seq(SUBSET Item) /\ walk.todo # <<>> /\ walk.at = NoEntry /\ there \in Trees
      /\ Notes(walk.files, there, Pending(walk.todo)) /\ \A x \in Pending(walk.todo) : ItemFits(x)
      /\ walk \in Walk
  BY DEF EvidenceInv, UnderWay, EvidenceTyped, Walk, Stat, Coming
<1>2. PICK item \in Head(walk.todo) :
        LET kind == there[item.place].kind IN
        IF kind \in {"file", "dir"}
        THEN walk' = [walk EXCEPT !.todo = Rest(@, item), !.at = [place |-> item.place, kind |-> kind]]
        ELSE Fails
  BY DEF Stat
<1> DEFINE todo == Rest(walk.todo, item)
           place == item.place
           at == [place |-> place, kind |-> there[place].kind]
<1>3. /\ item \in Item /\ todo \in Seq(SUBSET Item) /\ todo # <<>> /\ ItemFits(item)
      /\ \A x \in Pending(todo) : ItemFits(x)
      /\ Pending(walk.todo) \subseteq Pending(todo) \cup {item}
  BY <1>1, RestIs
<1>4. place \in All
  BY <1>3 DEF Item
<1>5. CASE there[place].kind \in {"file", "dir"}
  <2>1. walk' = [walk EXCEPT !.todo = todo, !.at = at]
    BY <1>2, <1>5
  <2> HIDE DEF todo
  <2>2. at \in Item /\ at # NoEntry /\ at.kind # "link" /\ at.place = place /\ at.kind = there[place].kind
    BY <1>4, <1>5 DEF Item, NoEntry
  <2> HIDE DEF at
  <2>3. /\ walk' \in Walk /\ walk'.style = walk.style /\ walk'.stage = walk.stage /\ walk'.todo = todo
        /\ walk'.at = at /\ walk'.before = walk.before /\ walk'.files = walk.files /\ walk'.open
    BY <1>1, <1>3, <2>1, <2>2 DEF Walk
  <2>4. \A f, t, s : Notes(f, t, s)' = Notes(f, t, s)
    BY <1>1, <2>3 DEF Notes, Watched, Evidence
  <2>5. \A x : ItemFits(x)' = ItemFits(x)
    BY <1>1, <2>3 DEF ItemFits
  <2>6. Coming' = Pending(todo) \cup {at}
    BY <2>2, <2>3 DEF Coming
  <2>7. ItemFits(at)
    <3>1. place = Root => at.kind = "dir"
      BY <1>1, <1>5, <2>2, KindsAre DEF Trees
    <3>2. ASSUME NEW p \in Places, there[p] # Nothing, place \in Chain[p] PROVE at.kind = "dir"
      <4>1. there[place] = Directory
        BY <1>1, <3>2, AboveAreDirectories
      <4> QED BY <2>2, <4>1, KindsAre
    <3> QED BY <1>1, <2>2, <3>1, <3>2 DEF ItemFits
  <2>8. Notes(walk.files, there, Coming')
    <3>1. \A p : (\E x \in Pending(walk.todo) : x.place \in {p} \cup Chain[p]) =>
                 \E x \in Coming' : x.place \in {p} \cup Chain[p]
      BY <1>3, <2>2, <2>6
    <3> QED BY <1>1, <3>1 DEF Notes
  <2>9. Notes(walk.files, there, Coming)'
    <3>1. \A s : Notes(walk.files, there, s)' = Notes(walk.files, there, s)
      BY <1>1, <2>3 DEF Notes, Watched, Evidence
    <3> QED BY <2>8, <3>1 DEF Coming
  <2> QED
    BY <1>1, <1>3, <2>2, <2>3, <2>4, <2>5, <2>6, <2>7, <2>9
    DEF EvidenceInv, UnderWay, EvidenceTyped, Unstarted, Walking
<1>6. CASE there[place].kind \notin {"file", "dir"}
  <2>1. Fails
    BY <1>2, <1>6
  <2>2. truth.moved = {} => Excused
    <3> SUFFICES ASSUME truth.moved = {} PROVE \E p \in Places : there[p].kind = "link"
      BY <1>1 DEF Excused
    <3>1. item.kind = there[place].kind
      BY <1>3 DEF ItemFits
    <3>2. there[place].kind = "link" /\ place # Root
      BY <1>3, <1>6, <3>1 DEF Item, ItemFits
    <3> QED BY <1>4, <3>2 DEF All
  <2> QED BY <1>1, <2>1, <2>2, FailingKeeps
<1> QED BY <1>5, <1>6

LEMMA StartsKeep == EvidenceInv /\ (StartCapture \/ StartSnapshot) => EvidenceInv'
<1> SUFFICES ASSUME EvidenceInv, StartCapture \/ StartSnapshot PROVE EvidenceInv'
  OBVIOUS
<1>1. Walking /\ ~walk.open /\ UNCHANGED <<there, truth>>
  BY DEF StartCapture, StartSnapshot, Starts
<1>2. CASE there[Root] # Nothing
  BY <1>1, <1>2, FromRootKeeps DEF StartCapture, StartSnapshot
<1>3. CASE there[Root] = Nothing /\ StartCapture
  <2>1. Fails /\ walk.style = "capture"
    BY <1>3 DEF StartCapture, Starts
  <2> QED BY <1>1, <1>3, <2>1, FailingKeeps DEF Excused
<1>4. CASE there[Root] = Nothing /\ StartSnapshot
  <2>1. Walked(<<>>, NoFiles)
    BY <1>4 DEF StartSnapshot
  <2>2. <<>> \in Seq(SUBSET Item) /\ Pending(<<>>) = {} /\ there \in Trees
    BY DEF EvidenceInv, EvidenceTyped, Pending
  <2>3. Left(<<>>) = <<>>
    BY DEF Left
  <2>4. \A p \in Places : there[p] = Nothing
    <3>1. \A p \in Places : Root \in Chain[p]
      BY ChainGoesDown
    <3> QED BY <1>4, <2>2, <3>1, AboveAreDirectories, KindsAre
  <2>5. Notes(NoFiles, there, {})
    BY <2>2, <2>4, KindsAre, EvidenceIs DEF Notes
  <2> QED BY <1>1, <2>1, <2>2, <2>3, <2>5, KindsAre, WalkedKeeps
<1> QED BY <1>2, <1>3, <1>4

LEMMA WorkEndsKeeps == EvidenceInv /\ WorkEnds => EvidenceInv'
<1> SUFFICES ASSUME EvidenceInv, WorkEnds PROVE EvidenceInv'
  OBVIOUS
<1>1. walk.stage = "work" /\ walk' = [walk EXCEPT !.stage = "after", !.open = FALSE] /\ UNCHANGED <<there, truth>>
  BY DEF WorkEnds
<1>2. /\ walk' \in Walk /\ walk'.style = walk.style /\ walk'.stage = "after" /\ walk'.todo = walk.todo
      /\ walk'.at = walk.at /\ walk'.before = walk.before /\ walk'.files = walk.files /\ ~walk'.open
  BY <1>1 DEF EvidenceInv, EvidenceTyped, Walk
<1>3. \A f, t, s : Notes(f, t, s)' = Notes(f, t, s)
  BY <1>1, <1>2 DEF Notes, Watched, Evidence
<1> QED BY <1>1, <1>2, <1>3 DEF EvidenceInv, EvidenceTyped, Unstarted, Walking

-----------------------------------------------------------------------------
(* The steps of the others *)

LEMMA EditKeeps ==
  ASSUME EvidenceInv, NEW place \in All, Edit(place)
  PROVE  EvidenceInv'
<1>1. /\ there \in Trees /\ walk \in Walk /\ UNCHANGED walk
      /\ walk.stage \in {"work", "after"} \/ (walk.stage = "before" /\ walk.open)
      /\ place # Root => there[Above[place]] = Directory
      /\ truth \in [first : Trees, ever : SUBSET All, moved : SUBSET All, edits : Nat]
  BY DEF Edit, EvidenceInv, EvidenceTyped
<1>2. PICK entry \in IF place = Root THEN {Nothing, Directory} ELSE Entries :
        there' = [p \in All |-> IF p = place THEN entry
                                ELSE IF place \in Chain[p] THEN Nothing ELSE there[p]]
  BY DEF Edit, All
<1> DEFINE changed == {p \in All : there'[p] # there[p]}
<1>3. /\ truth' = [truth EXCEPT !.edits = @ + 1, !.ever = @ \cup changed,
                                !.moved = IF Walking /\ walk.open THEN @ \cup changed ELSE @]
  BY DEF Edit, All
<1>4. /\ truth' \in [first : Trees, ever : SUBSET All, moved : SUBSET All, edits : Nat]
      /\ truth'.first = truth.first /\ truth'.ever = truth.ever \cup changed
      /\ truth'.moved = IF Walking /\ walk.open THEN truth.moved \cup changed ELSE truth.moved
  <2> HIDE DEF changed
  <2> DEFINE ever == truth.ever \cup changed
             moved == IF Walking /\ walk.open THEN truth.moved \cup changed ELSE truth.moved
  <2>1. changed \in SUBSET All
    BY DEF changed
  <2>2. ever \in SUBSET All /\ moved \in SUBSET All
    BY <1>1, <2>1
  <2>3. truth' = [truth EXCEPT !.edits = @ + 1, !.ever = ever, !.moved = moved]
    BY <1>3
  <2> HIDE DEF ever, moved
  <2>4. truth.edits \in Nat /\ truth.edits + 1 \in Nat
    BY <1>1
  <2>5. /\ truth' \in [first : Trees, ever : SUBSET All, moved : SUBSET All, edits : Nat]
        /\ truth'.first = truth.first /\ truth'.ever = ever /\ truth'.moved = moved
    BY <1>1, <2>2, <2>3, <2>4
  <2> QED BY <2>5 DEF ever, moved
<1>5. there' \in Trees
  <2>1. there' \in [All -> Entries]
    <3>1. Nothing \in Entries /\ Directory \in Entries
      BY DEF Entries
    <3>2. entry \in Entries
      BY <1>2, <3>1
    <3>3. \A p \in All : there[p] \in Entries
      BY <1>1 DEF Trees, All
    <3> QED BY <1>2, <3>1, <3>2, <3>3
  <2>2. there'[Root] \in {Nothing, Directory}
    <3>1. Chain[Root] = {} /\ Root \in All
      BY ChainIs DEF All
    <3> QED BY <1>1, <1>2, <3>1 DEF Trees
  <2>3. ASSUME NEW p \in Places, there'[p] # Nothing PROVE there'[Above[p]] = Directory
    <3>1. p # Root /\ p \in All /\ Above[p] \in All
      BY EvidenceAssumption DEF All
    <3>2. Chain[p] = {Above[p]} \cup Chain[Above[p]] /\ p \notin Chain[p]
      BY <3>1, ChainIs, ChainEnds
    <3>3. CASE p = place
      <4>1. there[Above[p]] = Directory
        BY <1>1, <3>1, <3>3
      <4> QED BY <1>2, <3>1, <3>2, <3>3, <4>1
    <3>4. CASE p # place
      <4>1. place \notin Chain[p] /\ there[p] # Nothing
        BY <1>2, <2>3, <3>1, <3>4
      <4>2. there[Above[p]] = Directory
        BY <1>1, <4>1 DEF Trees
      <4> QED BY <1>2, <3>1, <3>2, <4>1, <4>2
    <3> QED BY <3>3, <3>4
  <2> QED BY <2>1, <2>2, <2>3 DEF Trees, All
<1> HIDE DEF changed
<1>6. \A p \in All : p \notin changed => there'[p] = there[p]
  BY DEF changed
<1>7. EvidenceTyped'
  BY <1>1, <1>4, <1>5 DEF EvidenceTyped
<1>8. /\ \A p \in All \ truth'.ever : there'[p] = truth'.first[p]
      /\ truth'.moved \subseteq truth'.ever /\ (walk.stage = "before" => truth'.ever \subseteq truth'.moved)
  <2>1. /\ \A p \in All \ truth.ever : there[p] = truth.first[p]
        /\ truth.moved \subseteq truth.ever /\ (walk.stage = "before" => truth.ever \subseteq truth.moved)
    BY DEF EvidenceInv
  <2> QED BY <1>1, <1>4, <1>6, <2>1 DEF Walking
<1>9. /\ truth.moved \subseteq truth'.moved
      /\ Walking /\ walk.open => \A p \in All \ truth'.moved : there'[p] = there[p]
  BY <1>4, <1>6
<1>10. ASSUME NEW f, NEW t, NEW s, Notes(f, t, s) PROVE Notes(f, t, s)'
  BY <1>1, <1>9, <1>10 DEF Notes, Watched, Evidence
<1>11. CASE Walking /\ walk.open
  <2>1. Notes(walk.files, there, Coming) /\ \A x \in Coming : ItemFits(x)
    BY <1>11 DEF EvidenceInv, UnderWay
  <2>2. Notes(walk.files, there, Coming)'
    <3>1. Coming' = Coming
      BY <1>1 DEF Coming
    <3>2. \A p \in Places : p \notin truth'.moved => p \notin truth.moved /\ there'[p] = there[p]
      BY <1>9, <1>11 DEF All
    <3> HIDE DEF Coming
    <3> QED BY <1>1, <2>1, <3>1, <3>2 DEF Notes, Watched, Evidence
  <2>3. ASSUME NEW x \in Coming PROVE ItemFits(x)'
    <3>1. ItemFits(x) /\ x.place \in All
      BY <1>1, <2>1, <2>3 DEF Coming, Pending, Walk, Item, NoEntry
    <3>2. \A p \in All : p \notin truth'.moved => p \notin truth.moved /\ there'[p] = there[p]
      BY <1>9, <1>11
    <3>3. Places \subseteq All
      BY DEF All
    <3> QED BY <1>1, <3>1, <3>2, <3>3 DEF ItemFits
  <2>4. Coming' = Coming
    BY <1>1 DEF Coming
  <2>5. walk.stage \in {"work", "after", "done"} => Notes(walk.before, truth.first, {})'
    <3>1. walk.stage \in {"work", "after", "done"} => Notes(walk.before, truth.first, {})
      BY DEF EvidenceInv
    <3>2. Notes(walk.before, truth.first, {}) => Notes(walk.before, truth.first, {})'
      BY <1>1, <1>4, <1>9 DEF Notes, Watched, Evidence
    <3> QED BY <3>1, <3>2
  <2>6. UnderWay'
    <3>1. walk.style = "capture" => walk.at = NoEntry
      BY <1>11 DEF EvidenceInv, UnderWay
    <3>2. walk.todo # <<>> /\ walk.at.kind # "link"
      BY <1>11 DEF EvidenceInv, UnderWay
    <3> QED BY <1>1, <2>2, <2>3, <2>4, <3>1, <3>2 DEF UnderWay
  <2> QED BY <1>1, <1>7, <1>8, <1>11, <2>5, <2>6 DEF EvidenceInv, Unstarted, Walking
<1>12. CASE ~(Walking /\ walk.open)
  <2>1. walk.stage \in {"work", "after", "done"} => Notes(walk.before, truth.first, {})'
    <3>1. walk.stage \in {"work", "after", "done"} => Notes(walk.before, truth.first, {})
      BY DEF EvidenceInv
    <3>2. Notes(walk.before, truth.first, {}) => Notes(walk.before, truth.first, {})'
      BY <1>1, <1>4, <1>9 DEF Notes, Watched, Evidence
    <3> QED BY <3>1, <3>2
  <2> QED BY <1>1, <1>7, <1>8, <1>12, <2>1 DEF EvidenceInv, Unstarted, Walking
<1> QED BY <1>11, <1>12

LEMMA EvidenceStays == EvidenceInv /\ [EvidenceNext]_evidenceVars => EvidenceInv'
<1> SUFFICES ASSUME EvidenceInv, [EvidenceNext]_evidenceVars PROVE EvidenceInv'
  OBVIOUS
<1>1. CASE EvidenceNext
  BY <1>1, StatKeeps, StartsKeep, CollectEntryKeeps, VisitEntryKeeps, WorkEndsKeeps, EditKeeps
  DEF EvidenceNext, All
<1>2. CASE UNCHANGED evidenceVars
  <2>1. UNCHANGED <<there, walk, truth>>
    BY <1>2 DEF evidenceVars
  <2>2. \A f, t, s : Notes(f, t, s)' = Notes(f, t, s)
    BY <2>1 DEF Notes, Watched, Evidence
  <2>3. \A x : ItemFits(x)' = ItemFits(x)
    BY <2>1 DEF ItemFits
  <2>4. Coming' = Coming /\ Unstarted' = Unstarted /\ Walking' = Walking /\ Excused' = Excused
        /\ EvidenceTyped' = EvidenceTyped
    BY <2>1 DEF Coming, Unstarted, Walking, Excused, EvidenceTyped
  <2>5. Notes(walk.files, there, Coming)' = Notes(walk.files, there, Coming)
    BY <2>1, <2>4 DEF Notes, Watched, Evidence
  <2>6. UnderWay' = UnderWay
    BY <2>1, <2>3, <2>4, <2>5 DEF UnderWay
  <2> QED BY <2>1, <2>2, <2>4, <2>6 DEF EvidenceInv
<1> QED BY <1>1, <1>2

(* A snapshot notes no link.                                                *)
NoLinks(files) == walk.style = "snapshot" => \A p \in Places : files[p].kind # "link"
Plain == NoLinks(walk.before) /\ NoLinks(walk.files)

LEMMA WalkedPlain ==
  ASSUME walk \in Walk, Plain, NEW todo, NEW files \in [Places -> Noted], NoLinks(files), Walked(todo, files)
  PROVE  Plain'
<1>1. /\ walk'.style = walk.style
      /\ \/ walk'.before = walk.before /\ walk'.files = files
         \/ walk'.before = files /\ walk'.files = NoFiles
  BY DEF Walked, Walk
<1>2. NoLinks(NoFiles)
  BY KindsAre DEF NoLinks
<1> QED BY <1>1, <1>2 DEF Plain, NoLinks

LEMMA FailsPlain ==
  ASSUME walk \in Walk, Plain, Fails
  PROVE  Plain'
<1>1. walk'.style = walk.style /\ walk'.before = walk.before /\ walk'.files = walk.files
  BY DEF Fails, Walk
<1> QED BY <1>1 DEF Plain, NoLinks

LEMMA RecordPlain ==
  ASSUME EvidenceInv, Plain, NEW todo, NEW place \in Places, NEW entry \in Noted,
         walk.style = "snapshot" => entry.kind # "link", Record(todo, place, entry)
  PROVE  Plain'
<1> DEFINE files == [walk.files EXCEPT ![place] = entry]
<1>1. walk \in Walk /\ walk.files \in [Places -> Noted] /\ Walked(todo, files)
  BY DEF EvidenceInv, EvidenceTyped, Walk, Record
<1>2. files \in [Places -> Noted] /\ \A p \in Places : files[p] = IF p = place THEN entry ELSE walk.files[p]
  BY <1>1
<1> HIDE DEF files
<1>3. NoLinks(files)
  BY <1>2 DEF Plain, NoLinks
<1> QED BY <1>1, <1>2, <1>3, WalkedPlain

LEMMA ReadPlain ==
  ASSUME EvidenceInv, Plain, NEW todo, NEW place \in All,
         ReadFile(todo, place) \/ ReadDirectory(todo, place)
  PROVE  Plain'
<1>1. /\ walk \in Walk /\ walk.files \in [Places -> Noted] /\ there \in Trees /\ NoLinks(walk.files)
  BY DEF EvidenceInv, EvidenceTyped, Walk, Plain
<1>2. CASE Fails
  BY <1>1, <1>2, FailsPlain
<1>3. CASE Walked(<<Listing(place)>> \o todo, walk.files)
  BY <1>1, <1>3, WalkedPlain
<1>4. CASE there[place].kind = "file" /\ Record(todo, place, there[place])
  <2>1. place \in Places
    BY <1>1, <1>4, KindsAre DEF Trees, All
  <2> QED BY <1>1, <1>4, <2>1, KindsAre, RecordPlain
<1>5. CASE there[place].kind = "link" /\ Record(todo, place, [kind |-> "file", hash |-> Far])
  <2>1. place \in Places
    BY <1>1, <1>5, KindsAre DEF Trees, All
  <2>2. [kind |-> "file", hash |-> Far] \in Noted
    BY DEF Noted
  <2> QED BY <1>5, <2>1, <2>2, RecordPlain
<1> QED BY <1>2, <1>3, <1>4, <1>5 DEF ReadFile, ReadDirectory

LEMMA PlainStays == EvidenceInv /\ Plain /\ [EvidenceNext]_evidenceVars => Plain'
<1> SUFFICES ASSUME EvidenceInv, Plain, [EvidenceNext]_evidenceVars PROVE Plain'
  OBVIOUS
<1>1. /\ walk \in Walk /\ walk.files \in [Places -> Noted] /\ there \in Trees /\ NoLinks(walk.files)
      /\ NoFiles \in [Places -> Noted] /\ NoLinks(NoFiles)
  BY KindsAre DEF EvidenceInv, EvidenceTyped, Walk, Plain, NoLinks
<1>2. CASE Fails
  BY <1>1, <1>2, FailsPlain
<1>3. CASE StartCapture \/ StartSnapshot
  <2>1. CASE FromRoot
    <3>1. walk'.style = walk.style /\ walk'.before = walk.before /\ walk'.files = walk.files
      BY <1>1, <2>1 DEF FromRoot, Walk
    <3> QED BY <3>1 DEF Plain, NoLinks
  <2>2. CASE Walked(<<>>, NoFiles)
    BY <1>1, <2>2, WalkedPlain
  <2> QED BY <1>2, <1>3, <2>1, <2>2 DEF StartCapture, StartSnapshot
<1>4. CASE Stat
  <2>1. Fails \/ \E todo, at : walk' = [walk EXCEPT !.todo = todo, !.at = at]
    BY <1>4 DEF Stat
  <2>2. ASSUME NEW todo, NEW at, walk' = [walk EXCEPT !.todo = todo, !.at = at] PROVE Plain'
    <3>1. walk'.style = walk.style /\ walk'.before = walk.before /\ walk'.files = walk.files
      BY <1>1, <2>2 DEF Walk
    <3> QED BY <3>1 DEF Plain, NoLinks
  <2> QED BY <1>2, <2>1, <2>2
<1>5. CASE CollectEntry
  <2>1. PICK entry \in Head(walk.todo) :
          LET todo == Rest(walk.todo, entry)
              place == entry.place IN
          CASE entry.kind = "dir" /\ place \in Ignored -> Walked(todo, walk.files)
            [] entry.kind = "dir" /\ place \notin Ignored -> ReadDirectory(todo, place)
            [] entry.kind = "link" ->
                 IF there[place].kind = "link" THEN Record(todo, place, there[place]) ELSE Fails
            [] OTHER -> ReadFile(todo, place)
    BY <1>5 DEF CollectEntry
  <2> DEFINE todo == Rest(walk.todo, entry)
             place == entry.place
  <2>2. place \in All /\ walk.style # "snapshot"
    <3>1. walk.style = "capture" /\ walk.todo # <<>> /\ walk.todo \in Seq(SUBSET Item)
      BY <1>5 DEF CollectEntry, EvidenceInv, EvidenceTyped, UnderWay, Walk
    <3>2. Head(walk.todo) \in SUBSET Item
      BY <3>1
    <3> QED BY <2>1, <3>1, <3>2 DEF Item
  <2> HIDE DEF todo
  <2>3. \/ Walked(todo, walk.files) \/ ReadDirectory(todo, place) \/ Fails \/ ReadFile(todo, place)
        \/ there[place].kind = "link" /\ Record(todo, place, there[place])
    BY <2>1 DEF todo
  <2>4. CASE there[place].kind = "link" /\ Record(todo, place, there[place])
    <3>1. place \in Places /\ there[place] \in Noted
      BY <1>1, <2>2, <2>4, KindsAre DEF Trees, All
    <3> QED BY <2>2, <2>4, <3>1, RecordPlain
  <2> QED BY <1>1, <1>2, <2>2, <2>3, <2>4, ReadPlain, WalkedPlain
<1>6. CASE VisitEntry
  <2>1. walk.at.place \in All
    BY <1>1, <1>6 DEF VisitEntry, Walk, Item
  <2> QED BY <1>6, <2>1, ReadPlain DEF VisitEntry
<1>7. CASE WorkEnds
  <2>1. walk'.style = walk.style /\ walk'.before = walk.before /\ walk'.files = walk.files
    BY <1>1, <1>7 DEF WorkEnds, Walk
  <2> QED BY <2>1 DEF Plain, NoLinks
<1>8. CASE (\E place \in All : Edit(place)) \/ UNCHANGED evidenceVars
  <2>1. UNCHANGED walk
    BY <1>8 DEF Edit, evidenceVars
  <2> QED BY <2>1 DEF Plain, NoLinks
<1> QED BY <1>3, <1>4, <1>5, <1>6, <1>7, <1>8 DEF EvidenceNext, All

(* What a comparison names, and what it does not.                           *)
LEMMA ComparisonNames ==
  ASSUME EvidenceInv, Plain, NEW p \in Places
  PROVE  p \in FilesChanged <=> walk.before[p] # walk.files[p]
<1>1. /\ walk.before[p] \in Noted /\ walk.files[p] \in Noted /\ walk.style \in {"capture", "snapshot"}
  BY DEF EvidenceInv, EvidenceTyped, Walk
<1>2. ASSUME walk.before[p] # Nothing, walk.files[p] # Nothing
      PROVE  walk.before[p] = walk.files[p] <=>
               /\ walk.before[p].hash = walk.files[p].hash /\ walk.before[p].kind = walk.files[p].kind
  BY <1>1, <1>2 DEF Noted
<1>3. CASE walk.style = "capture"
  BY <1>2, <1>3 DEF FilesChanged, CompareWorkspace, Compare, Present, Rehashed
<1>4. CASE walk.style = "snapshot"
  <2>1. ASSUME walk.before[p] # Nothing, walk.files[p] # Nothing
        PROVE  walk.before[p].kind = "file" /\ walk.files[p].kind = "file"
    BY <1>1, <1>4, <2>1 DEF Plain, NoLinks, Noted
  <2> QED BY <1>2, <1>4, <2>1 DEF FilesChanged, DiffSnapshots, Compare, Present, Rehashed
<1> QED BY <1>1, <1>3, <1>4

LEMMA InvReports == EvidenceInv /\ Plain => ChangesAreReported
<1> SUFFICES ASSUME EvidenceInv, Plain PROVE ChangesAreReported
  OBVIOUS
<1>1. ASSUME walk.stage = "done"
      PROVE  /\ FilesChanged \subseteq truth.ever
             /\ \A place \in Watched \ truth.moved :
                  place \in FilesChanged <=> Evidence(truth.first[place]) # Evidence(there[place])
  <2>1. Notes(walk.before, truth.first, {}) /\ Notes(walk.files, there, {})
    BY <1>1 DEF EvidenceInv
  <2>2. ASSUME NEW p \in Watched, p \notin truth.moved
        PROVE  p \in FilesChanged <=> Evidence(truth.first[p]) # Evidence(there[p])
    <3>1. p \in Places
      BY DEF Watched
    <3>2. walk.before[p] = Evidence(truth.first[p]) /\ walk.files[p] = Evidence(there[p])
      BY <2>1, <2>2, <3>1 DEF Notes
    <3> QED BY <1>1, <3>1, <3>2, ComparisonNames
  <2>3. ASSUME NEW p \in Places, p \notin truth.ever PROVE p \notin FilesChanged
    <3>1. p \notin truth.moved /\ there[p] = truth.first[p]
      BY <2>3 DEF EvidenceInv, All
    <3>2. walk.before[p] = walk.files[p]
      BY <2>1, <3>1 DEF Notes
    <3> QED BY <1>1, <3>2, ComparisonNames
  <2>4. FilesChanged \subseteq Places
    BY DEF FilesChanged, CompareWorkspace, DiffSnapshots, Compare, Present
  <2> QED BY <2>2, <2>3, <2>4
<1>2. ASSUME walk.stage = "failed", truth.moved = {}
      PROVE  IF walk.style = "capture" THEN there[Root] = Nothing
             ELSE \E place \in Places : there[place].kind = "link"
  BY <1>2 DEF EvidenceInv, Excused
<1> QED BY <1>1, <1>2 DEF ChangesAreReported

(* A task of review that leaves a trace is found out, and only such: what   *)
(* compareWorkspace and diffSnapshots name has changed, and what changed    *)
(* between the two walks is named, whatever others do to the directory      *)
(* meanwhile; only a place that changed under a walk may be missed.  For    *)
(* any tree of places, any contents and any number of edits.                *)
THEOREM ReportsAreFaithful == EvidenceSpec => []ChangesAreReported
<1>1. EvidenceInit(Trees) => EvidenceInv /\ Plain
  <2>1. EvidenceInit(Trees) => Plain
    BY KindsAre DEF EvidenceInit, Plain, NoLinks
  <2> QED BY <2>1, EvidenceStarts
<1>2. EvidenceInv /\ Plain /\ [EvidenceNext]_evidenceVars => (EvidenceInv /\ Plain)'
  BY EvidenceStays, PlainStays
<1> QED BY <1>1, <1>2, InvReports, PTL DEF EvidenceSpec
=============================================================================
