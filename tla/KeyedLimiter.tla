----------------------------- MODULE KeyedLimiter -----------------------------
(***************************************************************************)
(* src/runtime/limiter.ts: at most Limit[key] works of one key run at the  *)
(* same time in this process; the others wait in line and may be aborted.  *)
(*                                                                         *)
(* A step is one synchronous run of JavaScript: a call of run(), an abort  *)
(* event, or one microtask.  A job is one call of run().  A KeyState       *)
(* object is named by the job whose call created it, so that an object     *)
(* that has been dropped from the map stays apart from its successor.      *)
(***************************************************************************)
EXTENDS Naturals, Sequences, FiniteSets

CONSTANTS
  Jobs, Keys,
  KeyOf,      \* the key each job names
  Limit,      \* limitForKey
  NoState     \* undefined

ASSUME JobsAssumption == IsFiniteSet(Jobs) /\ NoState \notin Jobs
ASSUME KeyAssumption == KeyOf \in [Jobs -> Keys]
(* #limit throws for anything else; ExternalAgentService never passes it.  *)
ASSUME LimitAssumption == Limit \in [Keys -> Nat \ {0}]

VARIABLES
  states,     \* #states: key -> KeyState
  active,     \* KeyState.active
  queue,      \* KeyState.queue
  stateOf,    \* the KeyState a job's closures hold
  phase,      \* where the promise chain of a job is
  aborted     \* its signal

vars == <<states, active, queue, stateOf, phase, aborted>>

Phases == {"new", "queued", "started", "running", "settled", "released", "rejected"}

(* A job has a slot from start() to the finally callback: also before its   *)
(* work is called, and after its caller's promise has settled.             *)
HasSlot(j) == phase[j] \in {"started", "running", "settled"}

TypeOK ==
  /\ states \in [Keys -> Jobs \cup {NoState}]
  /\ active \in [Jobs -> Nat]
  /\ queue \in [Jobs -> Seq(Jobs)]
  /\ stateOf \in [Jobs -> Jobs \cup {NoState}]
  /\ phase \in [Jobs -> Phases]
  /\ aborted \in [Jobs -> BOOLEAN]

Init ==
  /\ states = [key \in Keys |-> NoState]
  /\ active = [s \in Jobs |-> 0]
  /\ queue = [s \in Jobs |-> <<>>]
  /\ stateOf = [j \in Jobs |-> NoState]
  /\ phase = [j \in Jobs |-> "new"]
  /\ aborted = [j \in Jobs |-> FALSE]

-----------------------------------------------------------------------------

(* #stateFor, for the key of job j *)
StateFor(j) == IF states[KeyOf[j]] = NoState THEN j ELSE states[KeyOf[j]]

(* #deleteIdleState: by key, whatever object the map holds under it *)
DeleteIdleState(key, s) ==
  states' = IF active'[s] = 0 /\ queue'[s] = <<>>
              THEN [states EXCEPT ![key] = NoState] ELSE states

RefuseAborted(j) ==
  /\ phase[j] = "new" /\ aborted[j]
  /\ phase' = [phase EXCEPT ![j] = "rejected"]
  /\ UNCHANGED <<states, active, queue, stateOf, aborted>>

\* Mutant: the number of waiters is compared with the limit.
RunCountingWaiters(j) ==
  LET s == StateFor(j) IN
  /\ phase[j] = "new" /\ ~aborted[j]
  /\ states' = [states EXCEPT ![KeyOf[j]] = s]
  /\ stateOf' = [stateOf EXCEPT ![j] = s]
  /\ IF Len(queue[s]) < Limit[KeyOf[j]]
       THEN /\ active' = [active EXCEPT ![s] = @ + 1]
            /\ phase' = [phase EXCEPT ![j] = "started"]
            /\ UNCHANGED queue
       ELSE /\ queue' = [queue EXCEPT ![s] = Append(@, j)]
            /\ phase' = [phase EXCEPT ![j] = "queued"]
            /\ UNCHANGED active
  /\ UNCHANGED aborted

Run(j) ==
  LET s == StateFor(j) IN
  /\ phase[j] = "new" /\ ~aborted[j]
  /\ states' = [states EXCEPT ![KeyOf[j]] = s]
  /\ stateOf' = [stateOf EXCEPT ![j] = s]
  /\ IF active[s] < Limit[KeyOf[j]]
       THEN /\ active' = [active EXCEPT ![s] = @ + 1]
            /\ phase' = [phase EXCEPT ![j] = "started"]
            /\ UNCHANGED queue
       ELSE /\ queue' = [queue EXCEPT ![s] = Append(@, j)]
            /\ phase' = [phase EXCEPT ![j] = "queued"]
            /\ UNCHANGED active
  /\ UNCHANGED aborted

(* The microtask that calls work. *)
BeginWork(j) ==
  /\ phase[j] = "started"
  /\ phase' = [phase EXCEPT ![j] = "running"]
  /\ UNCHANGED <<states, active, queue, stateOf, aborted>>

(* Work settles, and with it the promise run() returned: the caller goes on *)
(* before the slot is released.                                            *)
Settle(j) ==
  /\ phase[j] = "running"
  /\ phase' = [phase EXCEPT ![j] = "settled"]
  /\ UNCHANGED <<states, active, queue, stateOf, aborted>>

-----------------------------------------------------------------------------
(* #drain *)

Lesser(a, b) == IF a < b THEN a ELSE b

\* Mutant: the slot is passed to the youngest waiter.
TakenFromTheBack(s, n) ==
  [first |-> SubSeq(queue[s], Len(queue[s]) - n + 1, Len(queue[s])),
   rest  |-> SubSeq(queue[s], 1, Len(queue[s]) - n)]

(* The n jobs shifted from the queue, and what is left of it. *)
Taken(s, n) ==
  [first |-> SubSeq(queue[s], 1, n),
   rest  |-> SubSeq(queue[s], n + 1, Len(queue[s]))]

\* Mutant: the released slot is not offered to the waiters.
ReleaseWithoutDrain(j) ==
  LET s == stateOf[j] IN
  /\ phase[j] = "settled"
  /\ active' = [active EXCEPT ![s] = @ - 1]
  /\ phase' = [phase EXCEPT ![j] = "released"]
  /\ UNCHANGED <<queue, stateOf, aborted>>
  /\ DeleteIdleState(KeyOf[j], s)

(* The finally callback: one slot less, then #drain.  The waiters it starts *)
(* are not aborted (WaitersAreLive): start() finds its signal clean.        *)
Release(j) ==
  LET s    == stateOf[j]
      free == Limit[KeyOf[j]] - (active[s] - 1)
      take == Taken(s, Lesser(free, Len(queue[s])))
  IN
  /\ phase[j] = "settled"
  /\ active' = [active EXCEPT ![s] = @ - 1 + Len(take.first)]
  /\ queue' = [queue EXCEPT ![s] = take.rest]
  /\ phase' = [i \in Jobs |->
                 IF i = j THEN "released"
                 ELSE IF \E n \in DOMAIN take.first : take.first[n] = i THEN "started"
                 ELSE phase[i]]
  /\ UNCHANGED <<stateOf, aborted>>
  /\ DeleteIdleState(KeyOf[j], s)

(* The abort event.  onAbort is registered for queued jobs only; a job that *)
(* has started keeps its slot until its own work settles.                   *)
AbortOther(j) ==
  /\ ~aborted[j] /\ phase[j] # "queued"
  /\ aborted' = [aborted EXCEPT ![j] = TRUE]
  /\ UNCHANGED <<states, active, queue, stateOf, phase>>

AbortQueued(j) ==
  LET s == stateOf[j] IN
  /\ ~aborted[j] /\ phase[j] = "queued"
  /\ aborted' = [aborted EXCEPT ![j] = TRUE]
  /\ phase' = [phase EXCEPT ![j] = "rejected"]
  /\ \E index \in DOMAIN queue[s] :
       /\ queue[s][index] = j
       /\ queue' = [queue EXCEPT ![s] =
                      SubSeq(@, 1, index - 1) \o SubSeq(@, index + 1, Len(@))]
  /\ UNCHANGED <<active, stateOf>>
  /\ DeleteIdleState(KeyOf[j], s)

(* Nothing left to do: every job has been answered and every signal fired.  *)
Quiet == (\A j \in Jobs : phase[j] \in {"released", "rejected"}) /\ UNCHANGED vars

Microtask(j) == BeginWork(j) \/ Release(j)

Next == \/ \E j \in Jobs : \/ RefuseAborted(j) \/ Run(j) \/ Microtask(j) \/ Settle(j)
                           \/ AbortOther(j) \/ AbortQueued(j)
        \/ Quiet

Spec == Init /\ [][Next]_vars

(* Microtasks run; a work settles because its process is owned and drained. *)
FairSpec == Spec /\ \A j \in Jobs : WF_vars(Microtask(j)) /\ WF_vars(Settle(j))

-----------------------------------------------------------------------------
(* Safety *)

Holders(key) == {j \in Jobs : KeyOf[j] = key /\ HasSlot(j)}
Idle(s) == active[s] = 0 /\ queue[s] = <<>>

(* Counted over the jobs, not over the counter of one state object: no key  *)
(* ever has more works between start and release than its limit.            *)
LimitHolds == \A key \in Keys : Cardinality(Holders(key)) <= Limit[key]

(* The counter is the number of jobs that hold its slots, and the queue is  *)
(* exactly the jobs that wait for one.                                      *)
StatesCountTheirJobs ==
  \A s \in Jobs :
    /\ active[s] = Cardinality({j \in Jobs : stateOf[j] = s /\ HasSlot(j)})
    /\ \A j \in Jobs : (stateOf[j] = s /\ phase[j] = "queued")
                         <=> \E n \in DOMAIN queue[s] : queue[s][n] = j
    /\ \A m, n \in DOMAIN queue[s] : queue[s][m] = queue[s][n] => m = n

(* The map holds the one state of a key that is in use, and no other: two   *)
(* states of one key would each grant the whole limit, and an idle one      *)
(* would never be dropped.                                                  *)
OneLiveState ==
  /\ \A s \in Jobs : ~Idle(s) => states[KeyOf[s]] = s
  /\ \A key \in Keys : states[key] # NoState => ~Idle(states[key])

(* Nobody waits for a slot that is free. *)
NoIdleSlot == \A s \in Jobs : queue[s] # <<>> => active[s] = Limit[KeyOf[s]]

(* No waiter's signal has been aborted, so start() never meets one: the     *)
(* branch of start() that rejects and drains again is never taken.          *)
WaitersAreLive == \A j \in Jobs : phase[j] = "queued" => ~aborted[j]

-----------------------------------------------------------------------------
(* Refinement and liveness, under FairSpec *)

(* What a caller sees: who has not asked, who is in line, who has a slot.    *)
Fresh == {j \in Jobs : phase[j] = "new"}
Waiting == [key \in Keys |-> IF states[key] = NoState THEN <<>> ELSE queue[states[key]]]
Holding == {j \in Jobs : HasSlot(j)}

Pool == INSTANCE BoundedPool WITH fresh <- Fresh, waiting <- Waiting, holding <- Holding

(* The limiter is a bounded pool per key: its state objects, their deletion *)
(* and the gap between settling and releasing are invisible.  A place that   *)
(* is left goes to the first in line, and every place is left, so every      *)
(* waiter gets its slot or its rejection (limiter.ts:95-105).                *)
ImplementsPool == Pool!FairSpec
=============================================================================
