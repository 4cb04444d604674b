------------------------- MODULE StdioSessionProofs -------------------------
(***************************************************************************)
(* Theorems about the session, for every set of requests, pools and limits. *)
(***************************************************************************)
EXTENDS StdioSession, QueueLemmas

Outside == {"idle", "received", "sink"}
Tracking == {"sink", "settled"} \cup Working
Slotted == {"granted", "launching", "running", "leaving", "after"}

(* The gate of InFlightTasks is the closeRequested of the session; where    *)
(* the connection and the shutdown stand, and what has happened by then.    *)
Course ==
  /\ admissionClosed = s.closeRequested
  /\ s.started <=> s.connection # "none"
  /\ ~s.started => s.failure = NoFailure /\ ~s.listening
  /\ s.shutdown # "none" => s.closeRequested /\ s.connection = "connected"
  /\ s.connection \in {"none", "failing", "failed"} =>
       \A q \in Requests : r[q].stage = "idle"
  /\ s.completion # "pending" <=> s.connection = "failed" \/ s.shutdown = "over"
  /\ s.completion # "pending" =>
       ~s.listening /\ (s.completion = "resolved" <=> s.failure = NoFailure)
  /\ s.shutdown = "over" => tasks = {}

(* An agent lives while its adapter works with it; one that was left behind *)
(* belongs to a request that has not completed and has told of no exit.     *)
Owning(x, owned) ==
  /\ x.stage \in {"running", "leaving"} => owned
  /\ owned => x.stage \in {"running", "leaving"} \cup Returned
  /\ owned /\ x.stage \in Returned => x.status # "completed" /\ ~Reported(x, "ownedExit")

(* The sets and the slots follow the stages. *)
Held ==
  \A q \in Requests :
    /\ q \in tasks <=> r[q].stage \in Tracking
    /\ Owning(r[q], q \in agents)
    /\ r[q].stage \in Slotted => q \in holding
    /\ r[q].stage \in Outside \cup {"waiting"} => q \notin holding
    /\ r[q].stage = "waiting" => ~r[q].aborted

Lined ==
  \A k \in Keys :
    /\ Distinct(waiting[k])
    /\ \A q \in Requests : InQueue(waiting[k], q) <=> KeyOf[q] = k /\ r[q].stage = "waiting"

Orderly(x) == InRank(x.log) /\ (Reported(x, "ownedExit") => Reported(x, "sdkAbort"))

(* What a request has reported, by its stage. *)
History(x) ==
  /\ Sound(x.log)
  /\ x.stage \in Outside => x.log = <<>>
  /\ Reported(x, "sdkAbort") => x.aborted
  /\ Reported(x, "ownedExit") => x.stage \in {"after", "finishing", "settled", "gone"}
  /\ Reported(x, "handlerCancelled") => x.stage \in {"settled", "gone"} /\ Orderly(x)
  /\ Reported(x, "inFlightRemoved") => x.stage = "gone"
  /\ x.stage \in {"after", "finishing"} /\ x.status = "cancelled" => Orderly(x)
  /\ x.stage \in {"launching", "running"} /\ x.reason = "cancelled" /\ x.log # <<>> =>
       Reported(x, "sdkAbort")
  /\ x.stage \in Outside \cup {"waiting", "granted"} => x.reason = "none"
  /\ x.stage = "leaving" => x.reason = "none" /\ x.status # "cancelled"

Told == \A q \in Requests : History(r[q])

SInv == TypeOK /\ Course /\ Held /\ Lined /\ Told

-----------------------------------------------------------------------------
(* Events *)

(* A further event at the end of a log that was neither in it nor ended it. *)
LEMMA Appending ==
  ASSUME NEW log \in Seq(Events), Sound(log), log # <<>>,
         NEW e \in Events \ {"requestStarted"},
         ~InQueue(log, e), ~InQueue(log, "inFlightRemoved"),
         NEW new, new = Append(log, e)
  PROVE  /\ new \in Seq(Events) /\ new # <<>> /\ Sound(new)
         /\ \A f : InQueue(new, f) <=> InQueue(log, f) \/ f = e
         /\ InRank(log) /\ (\A f \in Events : InQueue(log, f) => Rank[f] < Rank[e]) => InRank(new)
<1>1. /\ DOMAIN log = 1..Len(log) /\ Len(log) \in Nat \ {0}
      /\ DOMAIN new = 1..(Len(log) + 1) /\ Len(new) = Len(log) + 1
      /\ \A n \in 1..Len(log) : new[n] = log[n] /\ log[n] \in Events
      /\ new[Len(log) + 1] = e
      /\ new \in Seq(Events) /\ new # <<>>
  OBVIOUS
<1>2. \A n \in 1..Len(log) : log[n] # e /\ log[n] # "inFlightRemoved"
  BY <1>1 DEF InQueue
<1>3. Sound(new)
  BY <1>1, <1>2 DEF Sound
<1>4. \A f : InQueue(new, f) <=> InQueue(log, f) \/ f = e
  BY <1>1 DEF InQueue
<1>5. ASSUME InRank(log), \A f \in Events : InQueue(log, f) => Rank[f] < Rank[e],
             NEW i \in DOMAIN new, NEW j \in DOMAIN new, i < j
      PROVE  Rank[new[i]] < Rank[new[j]]
  <2>1. i \in 1..Len(log) /\ new[i] = log[i] /\ log[i] \in Events
    BY <1>1, <1>5
  <2>2. CASE j = Len(log) + 1
    <3>1. InQueue(log, log[i])
      BY <1>1, <2>1 DEF InQueue
    <3>2. Rank[log[i]] < Rank[e]
      BY <1>5, <2>1, <3>1
    <3> QED BY <1>1, <2>1, <2>2, <3>2
  <2>3. CASE j # Len(log) + 1
    <3>1. j \in 1..Len(log) /\ new[j] = log[j]
      BY <1>1, <2>3
    <3> QED BY <1>1, <1>5, <2>1, <3>1 DEF InRank
  <2> QED BY <2>2, <2>3
<1> QED BY <1>1, <1>3, <1>4, <1>5 DEF InRank

(* What Emit does to a request. *)
LEMMA Emitting ==
  ASSUME NEW x \in Request, Sound(x.log), NEW e \in Events \ {"requestStarted"},
         ~Reported(x, e), ~Reported(x, "inFlightRemoved"), NEW y, y = Emit(x, e)
  PROVE  /\ y \in Request /\ Sound(y.log) /\ (y.log = <<>> <=> x.log = <<>>)
         /\ y.stage = x.stage /\ y.aborted = x.aborted /\ y.owed = x.owed
         /\ y.reason = x.reason /\ y.status = x.status
         /\ \A f : Reported(y, f) <=> Reported(x, f) \/ (f = e /\ x.log # <<>>)
         /\ InRank(x.log) /\ (\A f \in Events : Reported(x, f) => Rank[f] < Rank[e])
              => InRank(y.log)
<1>1. CASE x.log = <<>>
  <2>1. y = x
    BY <1>1 DEF Emit, HasSink
  <2> QED BY <1>1, <2>1
<1>2. CASE x.log # <<>>
  <2>1. x.log \in Seq(Events)
    BY DEF Request
  <2>2. y = [x EXCEPT !.log = Append(x.log, e)]
    BY <1>2 DEF Emit, HasSink
  <2>3. /\ y.log = Append(x.log, e)
        /\ y.stage = x.stage /\ y.aborted = x.aborted /\ y.owed = x.owed
        /\ y.reason = x.reason /\ y.status = x.status
    BY <2>2 DEF Request
  <2> DEFINE new == Append(x.log, e)
  <2>4. \A f : InQueue(x.log, f) <=> Reported(x, f)
    BY DEF InQueue, Reported
  <2>5. /\ new \in Seq(Events) /\ new # <<>> /\ Sound(new)
        /\ \A f : InQueue(new, f) <=> InQueue(x.log, f) \/ f = e
        /\ InRank(x.log) /\ (\A f \in Events : InQueue(x.log, f) => Rank[f] < Rank[e]) => InRank(new)
    BY <1>2, <2>1, <2>4, Appending
  <2>6. y \in Request
    BY <2>2, <2>5 DEF Request
  <2>7. \A f : InQueue(new, f) <=> Reported(y, f)
    BY <2>3 DEF InQueue, Reported
  <2> HIDE DEF new
  <2> QED BY <1>2, <2>3, <2>4, <2>5, <2>6, <2>7 DEF new
<1> QED BY <1>1, <1>2

(* A log without an exit of the agent, a cancelled handler or a removal has *)
(* the start and perhaps the abort, in this order.                          *)
LEMMA Early ==
  ASSUME NEW x \in Request, Sound(x.log), ~Reported(x, "ownedExit"),
         ~Reported(x, "handlerCancelled"), ~Reported(x, "inFlightRemoved")
  PROVE  Orderly(x)
<1>1. x.log \in Seq(Events)
  BY DEF Request
<1>2. /\ DOMAIN x.log = 1..Len(x.log) /\ Len(x.log) \in Nat
      /\ \A i \in 1..Len(x.log) : x.log[i] \in Events
  BY <1>1
<1>3. \A i \in 1..Len(x.log) : x.log[i] \in {"requestStarted", "sdkAbort"}
  BY <1>2 DEF Reported, Events
<1>4. ASSUME NEW i \in 1..Len(x.log), NEW j \in 1..Len(x.log), i < j
      PROVE  x.log[i] = "requestStarted" /\ x.log[j] = "sdkAbort"
  BY <1>2, <1>3, <1>4 DEF Sound
<1>5. Rank["requestStarted"] < Rank["sdkAbort"]
  BY DEF Rank
<1> QED BY <1>2, <1>4, <1>5 DEF Orderly, InRank

(* cancel() changes the reason only, and only of a run that has none. *)
LEMMA Cancelling ==
  ASSUME NEW x \in Request, NEW why \in Reasons, NEW y, y = CancelRun(x, why)
  PROVE  /\ y \in Request /\ y.stage = x.stage /\ y.aborted = x.aborted
         /\ y.owed = x.owed /\ y.status = x.status /\ y.log = x.log
         /\ y.reason \in {x.reason, why}
         /\ y.stage \notin {"launching", "running"} => y.reason = x.reason
BY DEF CancelRun, Request

(* Everything but the log and the fields History reads may change. *)
LEMMA SameHistory ==
  ASSUME NEW x, NEW y, History(x), y.log = x.log, y.stage = x.stage,
         y.aborted = x.aborted, y.status = x.status,
         \/ y.reason = x.reason
         \/ y.reason # "cancelled" /\ x.stage \in {"launching", "running"}
  PROVE  History(y)
BY DEF History, Orderly, Reported, Outside

(* An abort of the signal of a request. *)
LEMMA Aborting ==
  ASSUME NEW x \in Request, History(x), x.stage = "waiting" => ~x.aborted,
         NEW y, y = AbortRequest(x)
  PROVE  /\ y \in Request /\ History(y)
         /\ y.stage = IF x.stage = "waiting" THEN "finishing" ELSE x.stage
         /\ y.status = x.status /\ (Reported(y, "ownedExit") <=> Reported(x, "ownedExit"))
<1>1. CASE x.stage \notin Live \/ x.aborted
  <2>1. y = x
    BY <1>1 DEF AbortRequest
  <2>2. x.stage # "waiting"
    BY <1>1 DEF Live, Working
  <2> QED BY <2>1, <2>2
<1>2. CASE x.stage \in Live /\ ~x.aborted
  <2> DEFINE seen == IF x.stage \in Working THEN Emit(x, "sdkAbort") ELSE x
             told == CancelRun(seen, "cancelled")
  <2>1. ~Reported(x, "sdkAbort") /\ ~Reported(x, "inFlightRemoved") /\ Sound(x.log)
    BY <1>2 DEF History, Live, Working
  <2>2. y = [told EXCEPT !.aborted = TRUE,
                         !.stage = IF @ = "waiting" THEN "finishing" ELSE @]
    BY <1>2 DEF AbortRequest
  <2>3. /\ seen \in Request /\ Sound(seen.log) /\ (seen.log = <<>> <=> x.log = <<>>)
        /\ seen.stage = x.stage /\ seen.aborted = x.aborted /\ seen.owed = x.owed
        /\ seen.reason = x.reason /\ seen.status = x.status
        /\ \A f : Reported(seen, f) <=>
                  Reported(x, f) \/ (x.stage \in Working /\ f = "sdkAbort" /\ x.log # <<>>)
    <3>1. CASE x.stage \in Working
      BY <2>1, <3>1, Emitting DEF Events
    <3>2. CASE x.stage \notin Working
      BY <2>1, <3>2
    <3> QED BY <3>1, <3>2
  <2>4. InRank(x.log) /\ ~Reported(x, "ownedExit") /\ ~Reported(x, "handlerCancelled")
          => InRank(seen.log)
    <3>1. CASE x.stage \in Working
      <4>1. \A f \in Events : f \notin {"sdkAbort", "ownedExit", "handlerCancelled", "inFlightRemoved"}
                              => Rank[f] < Rank["sdkAbort"]
        BY DEF Events, Rank
      <4> QED BY <2>1, <3>1, <4>1, Emitting DEF Events
    <3>2. CASE x.stage \notin Working
      BY <3>2
    <3> QED BY <3>1, <3>2
  <2>5. /\ told \in Request /\ told.log = seen.log
        /\ told.stage = x.stage /\ told.aborted = x.aborted /\ told.owed = x.owed
        /\ told.status = x.status /\ told.reason \in {x.reason, "cancelled"}
        /\ told.stage \notin {"launching", "running"} => told.reason = x.reason
    <3> HIDE DEF seen
    <3>1. "cancelled" \in Reasons
      BY DEF Reasons
    <3> QED BY <2>3, <3>1, Cancelling
  <2> HIDE DEF told, seen
  <2>6. /\ y \in Request
        /\ y.stage = IF x.stage = "waiting" THEN "finishing" ELSE x.stage
        /\ y.aborted = TRUE /\ y.log = seen.log /\ y.status = x.status
        /\ y.reason = told.reason
    BY <2>2, <2>5 DEF Request, Stages, Live, Working
  <2>7. \A f : Reported(y, f) <=> Reported(seen, f)
    BY <2>6 DEF Reported
  <2>8. x.stage \in Outside => y.log = <<>>
    BY <2>3, <2>6 DEF History
  <2>9. Reported(y, "handlerCancelled") => y.stage \in {"settled", "gone"} /\ Orderly(y)
    <3>1. CASE Reported(x, "handlerCancelled")
      <4>1. x.stage = "settled" /\ Orderly(x)
        BY <1>2, <3>1 DEF History, Live, Working
      <4>2. seen = x
        BY <4>1 DEF seen, Working
      <4> QED BY <2>6, <4>1, <4>2 DEF Orderly, Reported
    <3>2. CASE ~Reported(x, "handlerCancelled")
      BY <2>3, <2>7, <3>2
    <3> QED BY <3>1, <3>2
  <2>10. y.stage \in {"after", "finishing"} /\ y.status = "cancelled" => Orderly(y)
    <3> SUFFICES ASSUME y.stage \in {"after", "finishing"}, y.status = "cancelled"
                 PROVE  Orderly(y)
      OBVIOUS
    <3>1. x.stage \in {"after", "finishing", "waiting"} /\ x.status = "cancelled"
      BY <2>6
    <3>2. ~Reported(x, "handlerCancelled")
      BY <3>1 DEF History
    <3>3. Orderly(x) /\ ~Reported(x, "ownedExit")
      <4>1. CASE x.stage = "waiting"
        <5>1. ~Reported(x, "ownedExit")
          BY <4>1 DEF History
        <5> QED BY <2>1, <3>2, <5>1, Early
      <4>2. CASE x.stage # "waiting"
        BY <2>1, <3>1, <4>2 DEF History, Orderly
      <4> QED BY <4>1, <4>2
    <3>4. InRank(y.log)
      BY <2>4, <2>6, <3>2, <3>3 DEF Orderly
    <3>5. ~Reported(y, "ownedExit")
      BY <2>3, <2>7, <3>3
    <3> QED BY <3>4, <3>5 DEF Orderly
  <2>11. /\ Sound(y.log)
         /\ Reported(y, "sdkAbort") => y.aborted
         /\ Reported(y, "ownedExit") => y.stage \in {"after", "finishing", "settled", "gone"}
         /\ Reported(y, "inFlightRemoved") => y.stage = "gone"
         /\ y.stage \in {"launching", "running"} /\ y.log # <<>> => Reported(y, "sdkAbort")
         /\ y.stage = "leaving" => y.reason = "none" /\ y.status # "cancelled"
         /\ y.stage \in Outside \cup {"waiting", "granted"} => y.reason = "none"
    BY <2>3, <2>5, <2>6, <2>7 DEF History, Working, Outside
  <2>12. y.stage \in Outside => x.stage \in Outside
    BY <2>6 DEF Outside
  <2>13. Reported(y, "ownedExit") <=> Reported(x, "ownedExit")
    BY <2>3, <2>7
  <2> QED BY <2>6, <2>8, <2>9, <2>10, <2>11, <2>12, <2>13 DEF History
<1> QED BY <1>1, <1>2

(* A request keeps its agent, or has none to keep, when it moves without    *)
(* the adapter.                                                             *)
LEMMA Keeping ==
  ASSUME NEW q, NEW x, NEW y, Owning(x, q \in agents),
         \/ y.stage = x.stage
         \/ y.stage \notin {"running", "leaving"} /\ x.stage \notin {"running", "leaving"} \cup Returned
         \/ y.stage \in Returned /\ x.stage \in Returned
         \/ y.stage = "leaving" /\ x.stage = "running",
         q \in agents /\ y.status = "completed" => x.status = "completed" \/ y.stage = "leaving",
         Reported(y, "ownedExit") <=> Reported(x, "ownedExit")
  PROVE  Owning(y, q \in agents)
BY DEF Owning, Returned

-----------------------------------------------------------------------------
(* Steps of one request *)

(* A request moves on, without the queues; a slot may be taken. *)
LEMMA Moves ==
  ASSUME SInv, NEW q \in Requests, NEW y \in Request, History(y),
         r' = [r EXCEPT ![q] = y],
         r[q].stage # "waiting", y.stage # "waiting",
         r[q].stage = "idle" => Serving,
         y.stage \in Outside => r[q].stage \in Outside,
         y.stage \in Tracking <=> q \in tasks', tasks' \ {q} = tasks \ {q},
         Owning(y, q \in agents'), agents' \subseteq Requests, agents' \ {q} = agents \ {q},
         y.stage \in Tracking /\ r[q].stage \notin Tracking => ~admissionClosed,
         UNCHANGED <<sessionVars, waiting>>, fresh' \subseteq Requests,
         holding' \in {holding, holding \cup {q}},
         y.stage \in Slotted => q \in holding', y.stage \in Outside => q \notin holding'
  PROVE  SInv'
<1>1. r \in [Requests -> Request] /\ tasks \subseteq Requests /\ agents \subseteq Requests
  BY DEF SInv, TypeOK
<1>2. r' \in [Requests -> Request] /\ r'[q] = y /\ \A p \in Requests : p # q => r'[p] = r[p]
  BY <1>1
<1>3. /\ s' = s /\ admissionClosed' = admissionClosed /\ awaited' = awaited
      /\ waiting' = waiting
  BY DEF sessionVars
<1>4. TypeOK'
  BY <1>1, <1>2, <1>3 DEF SInv, TypeOK, Pool!TypeOK
<1>5. Course'
  <2>1. s.connection \notin {"none", "failing", "failed"}
    BY DEF SInv, Course, Serving
  <2>2. s.shutdown = "over" => tasks' = {}
    <3> SUFFICES ASSUME s.shutdown = "over" PROVE tasks' = {}
      OBVIOUS
    <3>1. tasks = {} /\ admissionClosed
      BY DEF SInv, Course
    <3>2. r[q].stage \notin Tracking
      BY <3>1 DEF SInv, Held
    <3> QED BY <3>1, <3>2
  <2> QED BY <1>3, <2>1, <2>2 DEF SInv, Course
<1>6. Held'
  <2> SUFFICES ASSUME NEW p \in Requests
               PROVE  /\ p \in tasks' <=> r'[p].stage \in Tracking
                      /\ Owning(r'[p], p \in agents')
                      /\ r'[p].stage \in Slotted => p \in holding'
                      /\ r'[p].stage \in Outside \cup {"waiting"} => p \notin holding'
                      /\ r'[p].stage = "waiting" => ~r'[p].aborted
    BY DEF Held
  <2>1. CASE p = q
    BY <1>2, <2>1
  <2>2. CASE p # q
    <3>1. (p \in agents' <=> p \in agents) /\ (p \in tasks' <=> p \in tasks) /\ r'[p] = r[p]
      BY <1>2, <2>2
    <3>2. (p \in agents') = (p \in agents)
      BY <3>1
    <3> QED BY <1>2, <2>2, <3>1, <3>2 DEF SInv, Held
  <2> QED BY <2>1, <2>2
<1>7. Lined'
  BY <1>2, <1>3 DEF SInv, Lined, InQueue, Distinct
<1>8. Told'
  BY <1>2 DEF SInv, Told
<1> QED BY <1>4, <1>5, <1>6, <1>7, <1>8 DEF SInv

(* The requests change without moving, and the session moves on. *)
LEMMA Stays ==
  ASSUME SInv, Course', s' \in Session, admissionClosed' \in BOOLEAN, awaited' \subseteq Requests,
         r' \in [Requests -> Request],
         \A q \in Requests : /\ r'[q].stage = r[q].stage /\ History(r'[q])
                             /\ Owning(r'[q], q \in agents)
                             /\ r[q].stage = "waiting" => r'[q].aborted = r[q].aborted,
         UNCHANGED <<tasks, agents, poolVars>>
  PROVE  SInv'
<1>1. /\ waiting' = waiting /\ fresh' = fresh /\ holding' = holding
      /\ tasks' = tasks /\ agents' = agents
  BY DEF poolVars
<1>2. TypeOK'
  BY <1>1 DEF SInv, TypeOK, Pool!TypeOK
<1>3. Held'
  BY <1>1 DEF SInv, Held
<1>4. Lined'
  BY <1>1 DEF SInv, Lined, InQueue, Distinct
<1>5. Told'
  BY DEF Told
<1> QED BY <1>2, <1>3, <1>4, <1>5 DEF SInv

(* The same of a request that neither enters nor leaves anything. *)
LEMMA MovesOn ==
  ASSUME SInv, NEW q \in Requests, NEW y \in Request, History(y),
         r' = [r EXCEPT ![q] = y],
         r[q].stage # "waiting", y.stage # "waiting", r[q].stage = "idle" => y.stage = "idle",
         y.stage \in Outside => r[q].stage \in Outside,
         y.stage \in Tracking <=> r[q].stage \in Tracking,
         Owning(y, q \in agents),
         y.stage \in Slotted => r[q].stage \in Slotted,
         UNCHANGED <<sessionVars, tasks, agents, poolVars>>
  PROVE  SInv'
<1>1. CASE r[q].stage = "idle"
  <2>1. /\ r \in [Requests -> Request]
        /\ \A p \in Requests : History(r[p]) /\ Owning(r[p], p \in agents)
        /\ s \in Session /\ admissionClosed \in BOOLEAN /\ awaited \subseteq Requests
    BY DEF SInv, TypeOK, Told, Held
  <2>2. s' = s /\ admissionClosed' = admissionClosed /\ awaited' = awaited /\ tasks' = tasks
    BY DEF sessionVars
  <2>3. /\ r' \in [Requests -> Request]
        /\ \A p \in Requests : /\ r'[p].stage = r[p].stage /\ History(r'[p])
                               /\ Owning(r'[p], p \in agents)
                               /\ r[p].stage = "waiting" => r'[p].aborted = r[p].aborted
    BY <1>1, <2>1
  <2>4. Course'
    BY <2>2, <2>3 DEF SInv, Course
  <2> QED BY <2>1, <2>2, <2>3, <2>4, Stays
<1>2. CASE r[q].stage # "idle"
  <2>1. /\ UNCHANGED <<sessionVars, waiting>> /\ tasks' = tasks /\ agents' = agents
        /\ holding' = holding /\ fresh' = fresh
    BY DEF poolVars
  <2>2. fresh' \subseteq Requests
    BY <2>1 DEF SInv, TypeOK, Pool!TypeOK
  <2>3. /\ q \in tasks <=> r[q].stage \in Tracking
        /\ agents \subseteq Requests /\ (q \in agents') = (q \in agents)
        /\ r[q].stage \in Slotted => q \in holding
        /\ r[q].stage \in Outside => q \notin holding
    BY <2>1 DEF SInv, TypeOK, Held
  <2> QED BY <1>2, <2>1, <2>2, <2>3, Moves
<1> QED BY <1>1, <1>2

LEMMA ArriveStep ==
  ASSUME SInv, NEW q \in Requests, Arrive(q) PROVE SInv'
<1> DEFINE y == [r[q] EXCEPT !.stage = "received"]
<1>1. /\ r[q] \in Request /\ History(r[q]) /\ Serving /\ r[q].stage = "idle"
      /\ r' = [r EXCEPT ![q] = y]
  BY DEF SInv, TypeOK, Told, Arrive, Become
<1>2. y \in Request /\ y.stage = "received" /\ y.log = r[q].log
  BY <1>1 DEF Request, Stages, Live
<1>3. History(y)
  BY <1>1, <1>2 DEF History, Outside, Reported
<1>4. UNCHANGED <<sessionVars, tasks, agents, waiting, fresh, holding>>
  BY DEF Arrive, poolVars
<1>5. q \notin tasks /\ q \notin agents /\ q \notin holding
  BY <1>1 DEF SInv, Held, Owning, Returned, Tracking, Working, Outside
<1>6. fresh' \subseteq Requests
  BY <1>4 DEF SInv, TypeOK, Pool!TypeOK
<1> HIDE DEF y
<1>7. Owning(y, q \in agents') /\ agents' \subseteq Requests
  BY <1>2, <1>4, <1>5 DEF Owning, SInv, TypeOK
<1> QED BY <1>1, <1>2, <1>3, <1>4, <1>5, <1>6, <1>7, Moves DEF Outside, Tracking, Working, Slotted

LEMMA HandleStep ==
  ASSUME SInv, NEW q \in Requests, Handle(q) PROVE SInv'
<1> DEFINE y == [r[q] EXCEPT !.stage = IF admissionClosed THEN "gone" ELSE "sink"]
<1>1. /\ r[q] \in Request /\ History(r[q]) /\ r[q].stage = "received"
      /\ r' = [r EXCEPT ![q] = y]
      /\ tasks' = IF admissionClosed THEN tasks ELSE tasks \cup {q}
  BY DEF SInv, TypeOK, Told, Handle, Become
<1>2. y \in Request /\ y.stage \in {"gone", "sink"} /\ y.log = r[q].log
      /\ (y.stage = "sink" <=> ~admissionClosed)
  BY <1>1 DEF Request, Stages, Live
<1>3. History(y)
  <2>1. r[q].log = <<>>
    BY <1>1 DEF History, Outside
  <2> QED BY <1>1, <1>2, <2>1 DEF History, Outside, Reported
<1>4. UNCHANGED <<sessionVars, agents, waiting, fresh, holding>>
  BY DEF Handle, poolVars
<1>5. q \notin tasks /\ q \notin agents /\ q \notin holding
  BY <1>1 DEF SInv, Held, Owning, Returned, Tracking, Working, Outside
<1>6. fresh' \subseteq Requests
  BY <1>4 DEF SInv, TypeOK, Pool!TypeOK
<1> HIDE DEF y
<1>7. Owning(y, q \in agents') /\ agents' \subseteq Requests
  BY <1>2, <1>4, <1>5 DEF Owning, SInv, TypeOK
<1> QED BY <1>1, <1>2, <1>3, <1>4, <1>5, <1>6, <1>7, Moves DEF Outside, Tracking, Working, Slotted

LEMMA TurnAwayStep ==
  ASSUME SInv, NEW q \in Requests, TurnAway(q) PROVE SInv'
<1> DEFINE y == [r[q] EXCEPT !.stage = "settled"]
<1>1. /\ r[q] \in Request /\ History(r[q]) /\ r[q].stage = "sink"
      /\ r' = [r EXCEPT ![q] = y]
      /\ UNCHANGED <<sessionVars, tasks, agents, poolVars>>
  BY DEF SInv, TypeOK, Told, TurnAway, Become
<1>2. y \in Request /\ y.stage = "settled" /\ y.log = r[q].log
  BY <1>1 DEF Request, Stages, Live
<1>3. History(y)
  <2>1. r[q].log = <<>>
    BY <1>1 DEF History, Outside
  <2> QED BY <1>1, <1>2, <2>1 DEF History, Outside, Reported
<1> HIDE DEF y
<1>4. Owning(y, q \in agents)
  BY <1>1, <1>2 DEF SInv, Held, Owning, Returned
<1> QED BY <1>1, <1>2, <1>3, <1>4, MovesOn DEF Outside, Tracking, Working, Slotted

(* The adapter, the workspace and the handler: r[q] becomes a record that   *)
(* differs in stage, reason, status, owed and at most one event.            *)
LEMMA PrepareStep ==
  ASSUME SInv, NEW q \in Requests, Prepare(q) PROVE SInv'
<1>1. /\ r[q] \in Request /\ History(r[q]) /\ r[q].stage = "granted"
      /\ UNCHANGED <<sessionVars, tasks, agents, poolVars>>
  BY DEF SInv, TypeOK, Told, Prepare
<1>2. PICK stage \in {"finishing", "after", "launching"}, status \in Statuses \cup {"none"} :
        /\ r' = [r EXCEPT ![q] = [r[q] EXCEPT !.stage = stage, !.status = status]]
        /\ stage = "launching" => ~r[q].aborted /\ ~admissionClosed
  <2>1. r[q].status \in Statuses \cup {"none"} /\ "failed" \in Statuses /\ "cancelled" \in Statuses
    BY <1>1 DEF Request, Statuses
  <2>2. CASE Become(q, "finishing")
    <3>1. r' = [r EXCEPT ![q] = [r[q] EXCEPT !.stage = "finishing", !.status = r[q].status]]
      BY <1>1, <2>2 DEF Become, Request
    <3> QED BY <2>1, <3>1
  <2>3. CASE r' = [r EXCEPT ![q].stage = "after", ![q].status = "failed"]
    BY <2>1, <2>3
  <2>4. CASE r' = [r EXCEPT ![q].stage = "after", ![q].status = "cancelled"]
    BY <2>1, <2>4
  <2>5. CASE ~r[q].aborted /\ ~admissionClosed /\ Become(q, "launching")
    <3>1. r' = [r EXCEPT ![q] = [r[q] EXCEPT !.stage = "launching", !.status = r[q].status]]
      BY <1>1, <2>5 DEF Become, Request
    <3> QED BY <2>1, <2>5, <3>1
  <2> QED BY <2>2, <2>3, <2>4, <2>5 DEF Prepare
<1> DEFINE y == [r[q] EXCEPT !.stage = stage, !.status = status]
<1>3. /\ y \in Request /\ y.stage = stage /\ y.log = r[q].log /\ y.status = status
      /\ y.aborted = r[q].aborted /\ y.reason = r[q].reason
  BY <1>1 DEF Request, Stages, Live, Working
<1>4. ~Reported(r[q], "ownedExit") /\ ~Reported(r[q], "handlerCancelled") /\ ~Reported(r[q], "inFlightRemoved")
  BY <1>1 DEF History
<1>5. Orderly(r[q])
  BY <1>1, <1>4, Early DEF History
<1> HIDE DEF y
<1>6. r[q].reason # "cancelled"
  BY <1>1 DEF History
<1>7. History(y)
  BY <1>1, <1>3, <1>4, <1>5, <1>6 DEF History, Outside, Reported, Orderly
<1>8. Owning(y, q \in agents)
  BY <1>1, <1>2, <1>3 DEF SInv, Held, Owning, Returned
<1> QED BY <1>1, <1>2, <1>3, <1>7, <1>8, MovesOn DEF y, Outside, Tracking, Working, Slotted

LEMMA LaunchStep ==
  ASSUME SInv, NEW q \in Requests, Launch(q) PROVE SInv'
<1>1. /\ r[q] \in Request /\ History(r[q]) /\ r[q].stage = "launching"
      /\ UNCHANGED <<sessionVars, tasks, poolVars>>
      /\ q \in tasks /\ q \notin agents /\ q \in holding
      /\ agents \subseteq Requests
  BY DEF SInv, TypeOK, Told, Held, Owning, Returned, Launch, Tracking, Working, Slotted
<1>2. CASE Become(q, "running") /\ agents' = agents \cup {q}
  <2> DEFINE y == [r[q] EXCEPT !.stage = "running"]
  <2>1. /\ r' = [r EXCEPT ![q] = y] /\ y \in Request /\ y.stage = "running" /\ y.log = r[q].log
        /\ y.aborted = r[q].aborted /\ y.reason = r[q].reason /\ y.status = r[q].status
    BY <1>1, <1>2 DEF Become, Request, Stages, Live, Working
  <2>2. History(y)
    BY <1>1, <2>1 DEF History, Outside, Reported
  <2>3. fresh' \subseteq Requests /\ UNCHANGED <<sessionVars, waiting>> /\ holding' = holding
        /\ tasks' = tasks
    BY <1>1 DEF SInv, TypeOK, Pool!TypeOK, poolVars
  <2> HIDE DEF y
  <2>4. Owning(y, q \in agents') /\ agents' \subseteq Requests
    BY <1>1, <1>2, <2>1 DEF Owning, Returned
  <2> QED BY <1>1, <1>2, <2>1, <2>2, <2>3, <2>4, Moves DEF Outside, Tracking, Working, Slotted
<1>3. CASE /\ \E status \in Outcomes(q) \ {"completed"} :
                r' = [r EXCEPT ![q] = ReturnedWith(@, status)]
           /\ UNCHANGED agents
  <2>1. PICK status \in Outcomes(q) \ {"completed"} :
          r' = [r EXCEPT ![q] = ReturnedWith(@, status)]
    BY <1>3
  <2> DEFINE y == ReturnedWith(r[q], status)
  <2>2. status \in Statuses
    BY DEF Outcomes, StatusOf, Statuses
  <2>3. /\ r' = [r EXCEPT ![q] = y] /\ y \in Request /\ y.stage = "after" /\ y.log = r[q].log
        /\ y.aborted = r[q].aborted
    BY <1>1, <2>1, <2>2 DEF ReturnedWith, Request, Stages, Live, Working
  <2>4. ~Reported(r[q], "ownedExit") /\ ~Reported(r[q], "handlerCancelled") /\ ~Reported(r[q], "inFlightRemoved")
    BY <1>1 DEF History
  <2>5. Orderly(r[q])
    BY <1>1, <2>4, Early DEF History
  <2>6. History(y)
    BY <1>1, <2>3, <2>4, <2>5 DEF History, Outside, Reported, Orderly
  <2>7. fresh' \subseteq Requests /\ UNCHANGED <<sessionVars, waiting>> /\ holding' = holding
        /\ tasks' = tasks /\ agents' = agents
    BY <1>1, <1>3 DEF SInv, TypeOK, Pool!TypeOK, poolVars
  <2> HIDE DEF y
  <2>8. Owning(y, q \in agents') /\ agents' \subseteq Requests
    BY <1>1, <2>3, <2>7 DEF Owning
  <2> QED BY <1>1, <2>3, <2>6, <2>7, <2>8, Moves DEF Outside, Tracking, Working, Slotted
<1> QED BY <1>2, <1>3 DEF Launch

LEMMA DeadlineStep ==
  ASSUME SInv, NEW q \in Requests, DeadlineElapses(q) PROVE SInv'
<1> DEFINE y == CancelRun(r[q], "timed_out")
<1>1. /\ r[q] \in Request /\ History(r[q]) /\ r[q].stage \in {"launching", "running"}
      /\ r[q].reason = "none" /\ r' = [r EXCEPT ![q] = y]
      /\ UNCHANGED <<sessionVars, tasks, agents, poolVars>>
  BY DEF SInv, TypeOK, Told, DeadlineElapses
<1>2. "timed_out" \in Reasons
  BY DEF Reasons
<1>3. /\ y \in Request /\ y.stage = r[q].stage /\ y.aborted = r[q].aborted
      /\ y.status = r[q].status /\ y.log = r[q].log /\ y.reason # "cancelled"
  BY <1>1, <1>2, Cancelling
<1> HIDE DEF y
<1>4. History(y)
  BY <1>1, <1>3, SameHistory
<1>5. Owning(y, q \in agents)
  <2>1. Owning(r[q], q \in agents) /\ (Reported(y, "ownedExit") <=> Reported(r[q], "ownedExit"))
    BY <1>3 DEF SInv, Held, Reported
  <2> QED BY <1>3, <2>1, Keeping
<1> QED BY <1>1, <1>3, <1>4, <1>5, MovesOn DEF Outside

LEMMA OwedStep ==
  ASSUME SInv, NEW q \in Requests, Report(q) \/ HostReads(q) PROVE SInv'
<1>1. PICK owed \in BOOLEAN : r' = [r EXCEPT ![q].owed = owed]
  BY DEF Report, HostReads
<1> DEFINE y == [r[q] EXCEPT !.owed = owed]
<1>2. /\ r[q] \in Request /\ History(r[q]) /\ r' = [r EXCEPT ![q] = y]
      /\ UNCHANGED <<sessionVars, tasks, agents, poolVars>>
  BY <1>1 DEF SInv, TypeOK, Told, Report, HostReads
<1>3. /\ y \in Request /\ y.stage = r[q].stage /\ y.aborted = r[q].aborted
      /\ y.status = r[q].status /\ y.log = r[q].log /\ y.reason = r[q].reason
  BY <1>2 DEF Request
<1> HIDE DEF y
<1>4. History(y)
  BY <1>2, <1>3, SameHistory
<1>7. Owning(y, q \in agents)
  <2>1. Owning(r[q], q \in agents) /\ (Reported(y, "ownedExit") <=> Reported(r[q], "ownedExit"))
    BY <1>3 DEF SInv, Held, Reported
  <2> QED BY <1>3, <2>1, Keeping
<1>5. CASE r[q].stage # "waiting"
  BY <1>2, <1>3, <1>4, <1>5, <1>7, MovesOn DEF Outside
<1>6. CASE r[q].stage = "waiting"
  <2>1. s' = s /\ admissionClosed' = admissionClosed /\ awaited' = awaited /\ tasks' = tasks
    BY <1>2 DEF sessionVars
  <2>2. /\ r' \in [Requests -> Request]
        /\ \A p \in Requests : /\ r'[p].stage = r[p].stage /\ History(r'[p])
                               /\ Owning(r'[p], p \in agents)
                               /\ r[p].stage = "waiting" => r'[p].aborted = r[p].aborted
    BY <1>2, <1>3, <1>4, <1>7 DEF SInv, TypeOK, Told, Held
  <2>3. Course'
    BY <2>1, <2>2 DEF SInv, Course
  <2> QED BY <1>2, <2>1, <2>2, <2>3, Stays DEF SInv, TypeOK
<1> QED BY <1>5, <1>6

LEMMA KimiLetsGoStep ==
  ASSUME SInv, NEW q \in Requests, KimiLetsGo(q) PROVE SInv'
<1>1. PICK status \in {"completed", "failed"} :
        r' = [r EXCEPT ![q].stage = "leaving", ![q].status = status]
  BY DEF KimiLetsGo, Outcomes
<1> DEFINE y == [r[q] EXCEPT !.stage = "leaving", !.status = status]
<1>2. /\ r[q] \in Request /\ History(r[q]) /\ r[q].stage = "running" /\ r[q].reason = "none"
      /\ r' = [r EXCEPT ![q] = y]
      /\ UNCHANGED <<sessionVars, tasks, agents, poolVars>>
  BY <1>1 DEF SInv, TypeOK, Told, KimiLetsGo
<1>3. /\ y \in Request /\ y.stage = "leaving" /\ y.aborted = r[q].aborted
      /\ y.status = status /\ y.log = r[q].log /\ y.reason = "none"
  BY <1>2 DEF Request, Stages, Live, Working, Statuses
<1>4. History(y)
  BY <1>2, <1>3 DEF History, Outside, Reported
<1> HIDE DEF y
<1>5. Owning(y, q \in agents)
  BY <1>2, <1>3 DEF SInv, Held, Owning, Returned
<1> QED BY <1>2, <1>3, <1>4, <1>5, MovesOn DEF Outside, Tracking, Working, Slotted

LEMMA AgentEndsStep ==
  ASSUME SInv, NEW q \in Requests, AgentEnds(q) PROVE SInv'
<1>1. /\ r[q] \in Request /\ History(r[q]) /\ r[q].stage \in {"running", "leaving"}
      /\ agents' = agents \ {q} /\ UNCHANGED <<sessionVars, tasks, poolVars>>
      /\ q \in tasks /\ q \in holding /\ agents \subseteq Requests
  BY DEF SInv, TypeOK, Told, Held, AgentEnds, CanReturn, Tracking, Working, Slotted
<1>2. PICK status \in IF r[q].stage = "leaving" THEN {r[q].status, "failed"} ELSE Outcomes(q),
           ownedExit \in BOOLEAN :
        /\ ownedExit => status = "failed" \/ r[q].reason = "cancelled"
        /\ r' = [r EXCEPT ![q] =
                    ReturnedWith(IF ownedExit THEN Emit(r[q], "ownedExit") ELSE r[q], status)]
  BY DEF AgentEnds, Verdicts
<1> DEFINE told == IF ownedExit THEN Emit(r[q], "ownedExit") ELSE r[q]
           y == ReturnedWith(told, status)
<1>3. ~Reported(r[q], "ownedExit") /\ ~Reported(r[q], "handlerCancelled") /\ ~Reported(r[q], "inFlightRemoved")
      /\ Sound(r[q].log)
  BY <1>1 DEF History
<1>4. Orderly(r[q])
  BY <1>1, <1>3, Early
<1>5. status \in Statuses \cup {"none"}
  BY <1>1 DEF Outcomes, StatusOf, Statuses, Request
<1>6. /\ told \in Request /\ Sound(told.log) /\ (told.log = <<>> <=> r[q].log = <<>>)
      /\ told.aborted = r[q].aborted
      /\ \A f : Reported(told, f) <=>
                Reported(r[q], f) \/ (ownedExit /\ f = "ownedExit" /\ r[q].log # <<>>)
      /\ InRank(told.log)
  <2>1. CASE ownedExit
    <3>1. "ownedExit" \in Events \ {"requestStarted"}
      BY DEF Events
    <3>2. \A f \in Events : f \notin {"ownedExit", "handlerCancelled", "inFlightRemoved"}
                            => Rank[f] < Rank["ownedExit"]
      BY DEF Events, Rank
    <3>3. \A f \in Events : Reported(r[q], f) => Rank[f] < Rank["ownedExit"]
      BY <1>3, <3>2
    <3>4. told = Emit(r[q], "ownedExit")
      BY <2>1
    <3> HIDE DEF told
    <3> QED BY <1>1, <1>3, <1>4, <2>1, <3>1, <3>3, <3>4, Emitting DEF Orderly
  <2>2. CASE ~ownedExit
    BY <1>1, <1>3, <1>4, <2>2 DEF Orderly
  <2> QED BY <2>1, <2>2
<1>7. r' = [r EXCEPT ![q] = y]
  BY <1>2
<1> HIDE DEF told
<1>8. /\ y \in Request /\ y.stage = "after" /\ y.log = told.log /\ y.status = status
      /\ y.aborted = r[q].aborted
  BY <1>5, <1>6 DEF ReturnedWith, Request, Stages, Live, Working
<1> HIDE DEF y
<1>9. \A f : Reported(y, f) <=> Reported(told, f)
  BY <1>8 DEF Reported
<1>10. status = "cancelled" /\ ownedExit /\ r[q].log # <<>> => Reported(r[q], "sdkAbort")
  <2>1. status = "cancelled" /\ ownedExit => r[q].reason = "cancelled"
    BY <1>2
  <2>2. status = "cancelled" => r[q].stage # "leaving"
    BY <1>1, <1>2 DEF History
  <2> QED BY <1>1, <2>1, <2>2 DEF History
<1>11. y.status = "cancelled" => Orderly(y)
  BY <1>3, <1>6, <1>8, <1>9, <1>10 DEF Orderly
<1>12. History(y)
  BY <1>1, <1>3, <1>6, <1>8, <1>9, <1>11 DEF History, Outside
<1>13. /\ fresh' \subseteq Requests /\ UNCHANGED <<sessionVars, waiting>>
       /\ holding' = holding /\ tasks' = tasks
  BY <1>1 DEF SInv, TypeOK, Pool!TypeOK, poolVars
<1>14. Owning(y, q \in agents') /\ agents' \subseteq Requests
  BY <1>1, <1>8 DEF Owning
<1> QED BY <1>1, <1>7, <1>8, <1>12, <1>13, <1>14, Moves DEF Outside, Tracking, Working, Slotted

(* The same of an adapter that gives up on the process. *)
LEMMA AgentLeftStep ==
  ASSUME SInv, NEW q \in Requests, AgentLeft(q) PROVE SInv'
<1>1. /\ r[q] \in Request /\ History(r[q]) /\ r[q].stage \in {"running", "leaving"}
      /\ UNCHANGED <<sessionVars, tasks, agents, poolVars>>
  BY DEF SInv, TypeOK, Told, AgentLeft, CanReturn
<1>2. PICK status \in Verdicts(q) \ {"completed"} :
        r' = [r EXCEPT ![q] = ReturnedWith(@, status)]
  BY DEF AgentLeft
<1> DEFINE y == ReturnedWith(r[q], status)
<1>3. status \in Statuses \cup {"none"}
  BY <1>1, <1>2 DEF Verdicts, Outcomes, StatusOf, Statuses, Request
<1>4. /\ r' = [r EXCEPT ![q] = y] /\ y \in Request /\ y.stage = "after" /\ y.log = r[q].log
      /\ y.aborted = r[q].aborted /\ y.status = status /\ y.status # "completed"
  BY <1>1, <1>2, <1>3 DEF ReturnedWith, Request, Stages, Live, Working
<1>5. ~Reported(r[q], "ownedExit") /\ ~Reported(r[q], "handlerCancelled") /\ ~Reported(r[q], "inFlightRemoved")
  BY <1>1 DEF History
<1>6. Orderly(r[q])
  BY <1>1, <1>5, Early DEF History
<1> HIDE DEF y
<1>7. History(y)
  BY <1>1, <1>4, <1>5, <1>6 DEF History, Outside, Reported, Orderly
<1>8. Owning(y, q \in agents)
  BY <1>4, <1>5 DEF Owning, Returned, Reported
<1> QED BY <1>1, <1>4, <1>7, <1>8, MovesOn DEF Outside, Tracking, Working, Slotted

(* A process that was left behind ends. *)
LEMMA LeftAgentDiesStep ==
  ASSUME SInv, NEW q \in Requests, LeftAgentDies(q) PROVE SInv'
<1>1. /\ r[q].stage \in Returned /\ agents' = agents \ {q} /\ r' = r
      /\ s' = s /\ admissionClosed' = admissionClosed /\ awaited' = awaited /\ tasks' = tasks
      /\ fresh' = fresh /\ waiting' = waiting /\ holding' = holding
  BY DEF LeftAgentDies, sessionVars, poolVars
<1>2. TypeOK' /\ Course' /\ Lined' /\ Told'
  BY <1>1 DEF SInv, TypeOK, Pool!TypeOK, Course, Lined, InQueue, Distinct, Told
<1>3. ASSUME NEW p \in Requests PROVE Owning(r'[p], p \in agents')
  <2>1. CASE p = q
    BY <1>1, <2>1 DEF Owning, Returned
  <2>2. CASE p # q
    <3>1. (p \in agents') = (p \in agents)
      BY <1>1, <2>2
    <3> QED BY <1>1, <3>1 DEF SInv, Held
  <2> QED BY <2>1, <2>2
<1>4. Held'
  BY <1>1, <1>3 DEF SInv, Held
<1> QED BY <1>2, <1>4 DEF SInv

LEMMA CompareStep ==
  ASSUME SInv, NEW q \in Requests, Compare(q) PROVE SInv'
<1>1. /\ r[q] \in Request /\ History(r[q]) /\ r[q].stage = "after"
      /\ UNCHANGED <<sessionVars, tasks, agents, poolVars>>
  BY DEF SInv, TypeOK, Told, Compare
<1>2. PICK status \in {r[q].status, "none", "workspace_changed", "failed"} :
        r' = [r EXCEPT ![q].stage = "finishing", ![q].status = status]
  BY DEF Compare
<1> DEFINE y == [r[q] EXCEPT !.stage = "finishing", !.status = status]
<1>3. /\ r' = [r EXCEPT ![q] = y] /\ y \in Request /\ y.stage = "finishing"
      /\ y.log = r[q].log /\ y.status = status
      /\ y.aborted = r[q].aborted
  BY <1>1, <1>2 DEF Request, Stages, Live, Working, Statuses
<1>4. History(y)
  BY <1>1, <1>3 DEF History, Outside, Reported, Orderly
<1> HIDE DEF y
<1>5. Owning(y, q \in agents)
  <2>1. Owning(r[q], q \in agents) /\ (Reported(y, "ownedExit") <=> Reported(r[q], "ownedExit"))
    BY <1>3 DEF SInv, Held, Reported
  <2> QED BY <1>1, <1>2, <1>3, <2>1, Keeping DEF Returned
<1> QED BY <1>1, <1>3, <1>4, <1>5, MovesOn DEF Outside, Tracking, Working, Slotted

LEMMA FinishStep ==
  ASSUME SInv, NEW q \in Requests, Finish(q) PROVE SInv'
<1> DEFINE x == IF r[q].status = "cancelled" THEN Emit(r[q], "handlerCancelled") ELSE r[q]
           y == [x EXCEPT !.stage = "settled", !.owed = FALSE]
<1>1. /\ r[q] \in Request /\ History(r[q]) /\ r[q].stage = "finishing"
      /\ UNCHANGED <<sessionVars, tasks, agents, poolVars>>
      /\ r' = [r EXCEPT ![q] = y]
  BY DEF SInv, TypeOK, Told, Finish
<1>2. ~Reported(r[q], "handlerCancelled") /\ ~Reported(r[q], "inFlightRemoved") /\ Sound(r[q].log)
  BY <1>1 DEF History
<1>3. /\ x \in Request /\ Sound(x.log) /\ x.aborted = r[q].aborted /\ x.status = r[q].status
      /\ \A f : Reported(x, f) <=> Reported(r[q], f) \/
           (r[q].status = "cancelled" /\ f = "handlerCancelled" /\ r[q].log # <<>>)
      /\ r[q].status = "cancelled" => Orderly(x)
  <2>1. CASE r[q].status = "cancelled"
    <3>1. "handlerCancelled" \in Events \ {"requestStarted"}
      BY DEF Events
    <3>2. \A f \in Events : f \notin {"handlerCancelled", "inFlightRemoved"}
                            => Rank[f] < Rank["handlerCancelled"]
      BY DEF Events, Rank
    <3>3. \A f \in Events : Reported(r[q], f) => Rank[f] < Rank["handlerCancelled"]
      BY <1>2, <3>2
    <3>4. x = Emit(r[q], "handlerCancelled") /\ Orderly(r[q])
      BY <1>1, <2>1 DEF History
    <3> HIDE DEF x
    <3>5. /\ x \in Request /\ Sound(x.log) /\ x.aborted = r[q].aborted /\ x.status = r[q].status
          /\ \A f : Reported(x, f) <=> Reported(r[q], f) \/ (f = "handlerCancelled" /\ r[q].log # <<>>)
          /\ InRank(x.log)
      BY <1>1, <1>2, <3>1, <3>3, <3>4, Emitting DEF Orderly
    <3> QED BY <2>1, <3>4, <3>5 DEF Orderly
  <2>2. CASE r[q].status # "cancelled"
    BY <1>1, <1>2, <2>2
  <2> QED BY <2>1, <2>2
<1> HIDE DEF x
<1>4. /\ y \in Request /\ y.stage = "settled" /\ y.log = x.log /\ y.aborted = r[q].aborted
      /\ y.status = r[q].status
  BY <1>3 DEF Request, Stages, Live, Working
<1> HIDE DEF y
<1>5. (\A f : Reported(y, f) <=> Reported(x, f)) /\ (Orderly(y) <=> Orderly(x))
  BY <1>4 DEF Reported, Orderly
<1>6. History(y)
  BY <1>1, <1>2, <1>3, <1>4, <1>5 DEF History, Outside
<1>7. Owning(y, q \in agents)
  <2>1. Owning(r[q], q \in agents) /\ (Reported(y, "ownedExit") <=> Reported(r[q], "ownedExit"))
    BY <1>3, <1>5 DEF SInv, Held
  <2> QED BY <1>1, <1>4, <2>1, Keeping DEF Returned
<1> QED BY <1>1, <1>4, <1>6, <1>7, MovesOn DEF Outside, Tracking, Working, Slotted

LEMMA RemoveStep ==
  ASSUME SInv, NEW q \in Requests, Remove(q) PROVE SInv'
<1> DEFINE x == Emit(r[q], "inFlightRemoved")
           y == [x EXCEPT !.stage = "gone"]
<1>1. /\ r[q] \in Request /\ History(r[q]) /\ r[q].stage = "settled"
      /\ UNCHANGED <<sessionVars, agents, poolVars>>
      /\ r' = [r EXCEPT ![q] = y] /\ tasks' = tasks \ {q} /\ Owning(r[q], q \in agents)
  BY DEF SInv, TypeOK, Told, Held, Remove
<1>2. ~Reported(r[q], "inFlightRemoved") /\ Sound(r[q].log)
  BY <1>1 DEF History
<1>3. "inFlightRemoved" \in Events \ {"requestStarted"}
  BY DEF Events
<1>4. \A f \in Events : f # "inFlightRemoved" => Rank[f] < Rank["inFlightRemoved"]
  BY DEF Events, Rank
<1>5. /\ x \in Request /\ Sound(x.log) /\ x.aborted = r[q].aborted /\ x.status = r[q].status
      /\ \A f : Reported(x, f) <=> Reported(r[q], f) \/ (f = "inFlightRemoved" /\ r[q].log # <<>>)
      /\ InRank(r[q].log) => InRank(x.log)
  <2> HIDE DEF x
  <2>1. x = Emit(r[q], "inFlightRemoved")
    BY DEF x
  <2> QED BY <1>1, <1>2, <1>3, <1>4, <2>1, Emitting
<1> HIDE DEF x
<1>6. /\ y \in Request /\ y.stage = "gone" /\ y.log = x.log /\ y.aborted = r[q].aborted
      /\ y.status = r[q].status
  BY <1>5 DEF Request, Stages, Live, Working
<1> HIDE DEF y
<1>7. (\A f : Reported(y, f) <=> Reported(x, f)) /\ (Orderly(r[q]) => Orderly(y))
  <2>1. (\A f : Reported(y, f) <=> Reported(x, f)) /\ (InRank(x.log) => InRank(y.log))
    BY <1>6 DEF Reported
  <2>2. \A f \in {"ownedExit", "sdkAbort"} : Reported(y, f) <=> Reported(r[q], f)
    BY <1>5, <2>1
  <2> QED BY <1>5, <2>1, <2>2 DEF Orderly
<1>8. History(y)
  BY <1>1, <1>2, <1>5, <1>6, <1>7 DEF History, Outside
<1>9. /\ fresh' \subseteq Requests /\ UNCHANGED <<sessionVars, waiting>>
      /\ holding' = holding /\ agents' = agents
  BY <1>1 DEF SInv, TypeOK, Pool!TypeOK, poolVars
<1>10. Owning(y, q \in agents') /\ agents' \subseteq Requests
  <2>1. (q \in agents') = (q \in agents) /\ agents' \subseteq Requests
    BY <1>9 DEF SInv, TypeOK
  <2>2. Reported(y, "ownedExit") <=> Reported(r[q], "ownedExit")
    BY <1>5, <1>7
  <2>3. Owning(y, q \in agents)
    BY <1>1, <1>6, <2>2, Keeping DEF Returned
  <2> QED BY <2>1, <2>3
<1> QED BY <1>1, <1>6, <1>8, <1>9, <1>10, Moves DEF Outside, Tracking, Working, Slotted

(* The handler has started: what execute() reports before the limiter.      *)
Begun(x, sink, stage) ==
  [(IF ~sink THEN x
    ELSE [x EXCEPT !.log = IF x.aborted THEN <<"requestStarted", "sdkAbort">>
                                        ELSE <<"requestStarted">>])
     EXCEPT !.stage = stage]

LEMMA Starting ==
  ASSUME NEW x \in Request, History(x), x.stage = "sink", NEW sink \in BOOLEAN,
         NEW stage \in {"finishing", "granted", "waiting"}, stage = "waiting" => ~x.aborted,
         NEW y, y = Begun(x, sink, stage)
  PROVE  y \in Request /\ y.stage = stage /\ y.aborted = x.aborted /\ History(y)
<1>1. x.log = <<>> /\ x.reason = "none"
  BY DEF History, Outside
<1>2. <<"requestStarted", "sdkAbort">> \in Seq(Events) /\ <<"requestStarted">> \in Seq(Events)
  BY DEF Events
<1>3. /\ y \in Request /\ y.stage = stage /\ y.aborted = x.aborted /\ y.reason = "none"
      /\ y.log = IF ~sink THEN <<>> ELSE IF x.aborted THEN <<"requestStarted", "sdkAbort">>
                                                    ELSE <<"requestStarted">>
  BY <1>1, <1>2 DEF Begun, Request, Stages, Live, Working
<1>4. /\ Sound(y.log)
      /\ \A f : Reported(y, f) => f \in {"requestStarted", "sdkAbort"}
      /\ Reported(y, "sdkAbort") => y.aborted
  BY <1>3 DEF Sound, Reported
<1>5. Orderly(y)
  <2>1. ~Reported(y, "ownedExit") /\ ~Reported(y, "handlerCancelled") /\ ~Reported(y, "inFlightRemoved")
    BY <1>4
  <2> HIDE DEF Reported
  <2> QED BY <1>3, <1>4, <2>1, Early
<1> QED BY <1>3, <1>4, <1>5 DEF History, Outside

LEMMA ExecuteStep ==
  ASSUME SInv, NEW q \in Requests, Execute(q) PROVE SInv'
<1>1. /\ r[q] \in Request /\ History(r[q]) /\ r[q].stage = "sink" /\ ~admissionClosed
      /\ UNCHANGED <<sessionVars, tasks, agents>>
      /\ q \in tasks /\ q \notin agents /\ q \notin holding
      /\ r \in [Requests -> Request]
      /\ fresh \subseteq Requests /\ holding \subseteq Requests /\ waiting \in [Keys -> Seq(Requests)]
      /\ agents \subseteq Requests
  BY DEF SInv, TypeOK, Pool!TypeOK, Told, Held, Owning, Returned, Execute, Tracking, Outside
<1>2. PICK sink \in BOOLEAN, stage \in {"finishing", "granted", "waiting"} :
        /\ r' = [r EXCEPT ![q] = Begun(r[q], sink, stage)]
        /\ \/ stage = "finishing" /\ (UNCHANGED poolVars \/ Pool!Refuse(q))
           \/ stage = "granted" /\ Pool!Enter(q)
           \/ stage = "waiting" /\ ~r[q].aborted /\ Pool!Queue(q)
  BY DEF Execute, Begun
<1> DEFINE y == Begun(r[q], sink, stage)
<1>3. y \in Request /\ y.stage = stage /\ y.aborted = r[q].aborted /\ History(y)
  <2>1. y = Begun(r[q], sink, stage) /\ (stage = "waiting" => ~r[q].aborted)
    BY <1>2
  <2> HIDE DEF y
  <2> QED BY <1>1, <2>1, Starting
<1>4. r' = [r EXCEPT ![q] = y]
  BY <1>2
<1> HIDE DEF y
<1>7. Owning(y, q \in agents') /\ agents' \subseteq Requests
  BY <1>1, <1>3 DEF Owning
<1>5. CASE stage # "waiting"
  <2>1. /\ waiting' = waiting /\ fresh' \subseteq Requests
        /\ holding' \in {holding, holding \cup {q}}
        /\ stage = "granted" => q \in holding'
    BY <1>1, <1>2, <1>5 DEF poolVars, Pool!Refuse, Pool!Enter
  <2> QED BY <1>1, <1>3, <1>4, <1>5, <1>7, <2>1, Moves DEF Outside, Tracking, Working, Slotted
<1>6. CASE stage = "waiting"
  <2> DEFINE k == KeyOf[q]
  <2>1. /\ k \in Keys /\ ~r[q].aborted /\ holding' = holding /\ fresh' \subseteq Requests
        /\ waiting' = [waiting EXCEPT ![k] = Append(@, q)]
    BY <1>1, <1>2, <1>6, PoolAssumption DEF Pool!Queue
  <2>2. Distinct(waiting[k]) /\ ~InQueue(waiting[k], q) /\ waiting[k] \in Seq(Requests)
    BY <1>1, <2>1 DEF SInv, Lined
  <2> HIDE DEF k
  <2>3. /\ Append(waiting[k], q) \in Seq(Requests) /\ Distinct(Append(waiting[k], q))
        /\ \A j : InQueue(Append(waiting[k], q), j) <=> InQueue(waiting[k], j) \/ j = q
    BY <2>2, Join
  <2>4. /\ s' = s /\ admissionClosed' = admissionClosed /\ awaited' = awaited
        /\ tasks' = tasks /\ agents' = agents
    BY <1>1 DEF sessionVars
  <2>5. r' \in [Requests -> Request] /\ r'[q] = y /\ \A p \in Requests : p # q => r'[p] = r[p]
    BY <1>1, <1>3, <1>4
  <2>6. TypeOK'
    BY <1>1, <2>1, <2>3, <2>4, <2>5 DEF SInv, TypeOK, Pool!TypeOK
  <2>7. Course'
    BY <1>1, <2>4, <2>5 DEF SInv, Course
  <2>8. Held'
    BY <1>1, <1>3, <1>6, <1>7, <2>1, <2>4, <2>5 DEF SInv, Held, Outside, Tracking, Working, Slotted
  <2>9. Lined'
    <3> SUFFICES ASSUME NEW m \in Keys
                 PROVE  /\ Distinct(waiting'[m])
                        /\ \A p \in Requests : InQueue(waiting'[m], p) <=>
                                               KeyOf[p] = m /\ r'[p].stage = "waiting"
      BY DEF Lined, InQueue
    <3>1. CASE m = k
      BY <1>1, <1>3, <1>6, <2>1, <2>3, <2>5, <3>1 DEF SInv, Lined, k
    <3>2. CASE m # k
      <4>1. waiting'[m] = waiting[m]
        BY <1>1, <2>1, <3>2
      <4> QED BY <1>1, <2>5, <3>2, <4>1 DEF SInv, Lined, k
    <3> QED BY <3>1, <3>2
  <2>10. Told'
    BY <1>3, <2>5 DEF SInv, Told
  <2> QED BY <2>6, <2>7, <2>8, <2>9, <2>10 DEF SInv
<1> QED BY <1>5, <1>6

(* A cancellation; a request in line leaves it for good. *)
LEMMA CancelStep ==
  ASSUME SInv, NEW q \in Requests, Cancel(q) PROVE SInv'
<1> DEFINE y == AbortRequest(r[q])
<1>1. /\ r[q] \in Request /\ History(r[q]) /\ r[q].stage \in Live /\ Serving
      /\ r[q].stage = "waiting" => ~r[q].aborted
      /\ r' = [r EXCEPT ![q] = y] /\ r \in [Requests -> Request]
      /\ UNCHANGED <<sessionVars, tasks, agents>>
  BY DEF SInv, TypeOK, Told, Held, Cancel
<1>2. /\ y \in Request /\ History(y)
      /\ y.stage = IF r[q].stage = "waiting" THEN "finishing" ELSE r[q].stage
      /\ y.status = r[q].status /\ (Reported(y, "ownedExit") <=> Reported(r[q], "ownedExit"))
  BY <1>1, Aborting
<1> HIDE DEF y
<1>5. Owning(y, q \in agents)
  <2>1. Owning(r[q], q \in agents)
    BY DEF SInv, Held
  <2> QED BY <1>2, <2>1, Keeping DEF Returned
<1>3. CASE r[q].stage # "waiting"
  <2>1. UNCHANGED <<sessionVars, tasks, agents, poolVars>>
    BY <1>1, <1>3 DEF Cancel
  <2> QED BY <1>1, <1>2, <1>3, <1>5, <2>1, MovesOn
<1>4. CASE r[q].stage = "waiting"
  <2> DEFINE k == KeyOf[q]
  <2>1. Pool!GiveUp(q) /\ k \in Keys /\ waiting \in [Keys -> Seq(Requests)]
    BY <1>4, PoolAssumption DEF Cancel, SInv, TypeOK, Pool!TypeOK
  <2>2. PICK i \in DOMAIN waiting[k] :
          /\ waiting[k][i] = q
          /\ waiting' = [waiting EXCEPT ![k] = SubSeq(@, 1, i - 1) \o SubSeq(@, i + 1, Len(@))]
    BY <2>1 DEF Pool!GiveUp
  <2>3. fresh' = fresh /\ holding' = holding
    BY <2>1 DEF Pool!GiveUp
  <2>4. Distinct(waiting[k]) /\ waiting[k] \in Seq(Requests)
    BY <2>1 DEF SInv, Lined
  <2> HIDE DEF k
  <2> DEFINE rest == Struck(waiting[k], i)
  <2>5. /\ rest \in Seq(Requests) /\ Distinct(rest)
        /\ \A j : InQueue(rest, j) <=> InQueue(waiting[k], j) /\ j # q
    <3>1. i \in DOMAIN waiting[k] /\ waiting[k][i] = q
      BY <2>2
    <3> QED BY <2>4, <3>1, Strike
  <2>6. waiting' = [waiting EXCEPT ![k] = rest]
    BY <2>2 DEF Struck
  <2> HIDE DEF rest
  <2>7. /\ s' = s /\ admissionClosed' = admissionClosed /\ awaited' = awaited
        /\ tasks' = tasks /\ agents' = agents
    BY <1>1 DEF sessionVars
  <2>8. r' \in [Requests -> Request] /\ r'[q] = y /\ \A p \in Requests : p # q => r'[p] = r[p]
    BY <1>1, <1>2
  <2>9. TypeOK'
    BY <2>1, <2>3, <2>5, <2>6, <2>7, <2>8 DEF SInv, TypeOK, Pool!TypeOK
  <2>10. Course'
    <3>1. s.connection \notin {"none", "failing", "failed"}
      BY <1>1 DEF Serving
    <3> QED BY <2>7, <3>1 DEF SInv, Course
  <2>14. ASSUME NEW p \in Requests PROVE Owning(r'[p], p \in agents')
    <3>1. Owning(r[p], p \in agents) /\ (p \in agents') = (p \in agents)
      BY <2>7 DEF SInv, Held
    <3>2. CASE p = q
      BY <1>5, <2>8, <3>1, <3>2
    <3>3. CASE p # q
      BY <2>8, <3>1, <3>3
    <3> QED BY <3>2, <3>3
  <2>11. Held'
    <3> SUFFICES ASSUME NEW p \in Requests
                 PROVE  /\ p \in tasks' <=> r'[p].stage \in Tracking
                        /\ r'[p].stage \in Slotted => p \in holding'
                        /\ r'[p].stage \in Outside \cup {"waiting"} => p \notin holding'
                        /\ r'[p].stage = "waiting" => ~r'[p].aborted
      BY <2>14 DEF Held
    <3>1. CASE p = q
      BY <1>2, <1>4, <2>3, <2>7, <2>8, <3>1 DEF SInv, Held, Outside, Tracking, Working, Slotted
    <3>2. CASE p # q
      BY <2>3, <2>7, <2>8, <3>2 DEF SInv, Held
    <3> QED BY <3>1, <3>2
  <2>12. Lined'
    <3> SUFFICES ASSUME NEW m \in Keys
                 PROVE  /\ Distinct(waiting'[m])
                        /\ \A p \in Requests : InQueue(waiting'[m], p) <=>
                                               KeyOf[p] = m /\ r'[p].stage = "waiting"
      BY DEF Lined, InQueue
    <3>3. r'[q].stage = "finishing" /\ r[q].stage = "waiting" /\ \A p \in Requests : p # q => r'[p] = r[p]
      BY <1>2, <1>4, <2>8
    <3>1. CASE m = k
      <4>1. waiting'[m] = rest
        BY <2>1, <2>6, <3>1
      <4>2. \A p \in Requests : InQueue(waiting[m], p) <=> KeyOf[p] = m /\ r[p].stage = "waiting"
        BY DEF SInv, Lined
      <4> QED BY <2>5, <3>1, <3>3, <4>1, <4>2
    <3>2. CASE m # k
      <4>1. waiting'[m] = waiting[m]
        BY <2>1, <2>6, <3>2
      <4> QED BY <1>2, <1>4, <2>8, <3>2, <4>1 DEF SInv, Lined, k
    <3> QED BY <3>1, <3>2
  <2>13. Told'
    BY <1>2, <2>8 DEF SInv, Told
  <2> QED BY <2>9, <2>10, <2>11, <2>12, <2>13 DEF SInv
<1> QED BY <1>3, <1>4

(* The slot is given back, or passed to the first in line. *)
LEMMA ReleaseStep ==
  ASSUME SInv, NEW q \in Requests, Release(q) PROVE SInv'
<1> DEFINE k == KeyOf[q]
<1>1. /\ q \in holding /\ r[q].stage \in {"finishing", "settled", "gone"} /\ Pool!Leave(q)
      /\ r' = [p \in Requests |-> IF p \in holding' \ holding THEN [r[p] EXCEPT !.stage = "granted"]
                                                              ELSE r[p]]
      /\ s' = s /\ admissionClosed' = admissionClosed /\ awaited' = awaited
      /\ tasks' = tasks /\ agents' = agents
  BY DEF Release, sessionVars
<1>2. /\ k \in Keys /\ waiting \in [Keys -> Seq(Requests)] /\ r \in [Requests -> Request]
      /\ holding \subseteq Requests /\ fresh' = fresh
  BY <1>1, PoolAssumption DEF SInv, TypeOK, Pool!TypeOK, Pool!Leave
<1>3. CASE waiting[k] = <<>>
  <2>1. holding' = holding \ {q} /\ waiting' = waiting
    BY <1>1, <1>3 DEF Pool!Leave
  <2>2. r' = r
    BY <1>1, <1>2, <2>1
  <2>3. TypeOK' /\ Course'
    BY <1>1, <1>2, <2>1, <2>2 DEF SInv, TypeOK, Pool!TypeOK, Course
  <2>4. Held'
    BY <1>1, <2>1, <2>2 DEF SInv, Held, Slotted
  <2>5. Lined' /\ Told'
    BY <2>1, <2>2 DEF SInv, Lined, InQueue, Distinct, Told
  <2> QED BY <2>3, <2>4, <2>5 DEF SInv
<1>4. CASE waiting[k] # <<>>
  <2> DEFINE h == Head(waiting[k])
  <2>1. /\ holding' = (holding \ {q}) \cup {h}
        /\ waiting' = [waiting EXCEPT ![k] = Tail(@)]
    BY <1>1, <1>4 DEF Pool!Leave
  <2>2. Distinct(waiting[k]) /\ waiting[k] \in Seq(Requests)
    BY <1>2 DEF SInv, Lined
  <2> HIDE DEF k
  <2>3. /\ h \in Requests /\ InQueue(waiting[k], h) /\ Tail(waiting[k]) \in Seq(Requests)
        /\ Distinct(Tail(waiting[k]))
        /\ \A j : InQueue(Tail(waiting[k]), j) <=> InQueue(waiting[k], j) /\ j # h
    BY <1>4, <2>2, Shift
  <2> HIDE DEF h
  <2>4. r[h].stage = "waiting" /\ KeyOf[h] = k /\ h \notin holding /\ h # q
    BY <1>1, <1>2, <2>3 DEF SInv, Lined, Held
  <2> DEFINE y == [r[h] EXCEPT !.stage = "granted"]
  <2>5. /\ y \in Request /\ y.stage = "granted" /\ y.log = r[h].log /\ y.aborted = r[h].aborted
        /\ y.reason = r[h].reason
    BY <1>2, <2>3 DEF Request, Stages, Live, Working
  <2>6. r' = [r EXCEPT ![h] = y]
    <3>1. holding' \ holding = {h}
      BY <2>1, <2>4
    <3> QED BY <1>1, <1>2, <3>1
  <2>7. History(y)
    <3>1. History(r[h])
      BY <2>3 DEF SInv, Told
    <3> QED BY <2>4, <2>5, <3>1 DEF History, Outside, Reported
  <2> HIDE DEF y
  <2>8. r' \in [Requests -> Request] /\ r'[h] = y /\ \A p \in Requests : p # h => r'[p] = r[p]
    BY <1>2, <2>3, <2>5, <2>6
  <2>9. TypeOK'
    BY <1>1, <1>2, <2>1, <2>3, <2>8 DEF SInv, TypeOK, Pool!TypeOK
  <2>10. Course'
    <3>1. s.connection \notin {"none", "failing", "failed"}
      BY <2>3, <2>4 DEF SInv, Course
    <3> QED BY <1>1, <3>1 DEF SInv, Course
  <2>14. Owning(y, h \in agents)
    BY <2>3, <2>4, <2>5 DEF SInv, Held, Owning, Returned
  <2>11. Held'
    BY <1>1, <2>1, <2>4, <2>5, <2>8, <2>14 DEF SInv, Held, Outside, Tracking, Working, Slotted
  <2>12. Lined'
    <3> SUFFICES ASSUME NEW m \in Keys
                 PROVE  /\ Distinct(waiting'[m])
                        /\ \A p \in Requests : InQueue(waiting'[m], p) <=>
                                               KeyOf[p] = m /\ r'[p].stage = "waiting"
      BY DEF Lined, InQueue
    <3>1. CASE m = k
      <4>1. waiting'[m] = Tail(waiting[k])
        BY <1>2, <2>1, <3>1
      <4> QED BY <1>2, <2>3, <2>5, <2>8, <3>1, <4>1 DEF SInv, Lined
    <3>2. CASE m # k
      <4>1. waiting'[m] = waiting[m]
        BY <1>2, <2>1, <3>2
      <4> QED BY <2>4, <2>5, <2>8, <3>2, <4>1 DEF SInv, Lined
    <3> QED BY <3>1, <3>2
  <2>13. Told'
    BY <2>7, <2>8 DEF SInv, Told
  <2> QED BY <2>9, <2>10, <2>11, <2>12, <2>13 DEF SInv
<1> QED BY <1>3, <1>4

-----------------------------------------------------------------------------
(* Steps of the session *)

(* The shutdown signal reaches every adapter. *)
LEMMA ClosingAdmission ==
  ASSUME NEW x \in Request, History(x), NEW y, y = CloseAdmission(x)
  PROVE  /\ y \in Request /\ History(y)
         /\ y.stage = x.stage /\ y.aborted = x.aborted
         /\ y.status = x.status /\ (Reported(y, "ownedExit") <=> Reported(x, "ownedExit"))
<1>1. "session_shutdown" \in Reasons /\ y = CancelRun(x, "session_shutdown")
  BY DEF Reasons, CloseAdmission
<1>2. /\ y \in Request /\ y.stage = x.stage /\ y.aborted = x.aborted
      /\ y.status = x.status /\ y.log = x.log /\ y.reason \in {x.reason, "session_shutdown"}
      /\ y.stage \notin {"launching", "running"} => y.reason = x.reason
  BY <1>1, Cancelling
<1>3. History(y)
  BY <1>2, SameHistory
<1> QED BY <1>2, <1>3 DEF Reported

(* server.close(): everyone in line goes, and nobody else moves. *)
LEMMA Clearing ==
  ASSUME SInv, NEW told \in [Requests -> Request],
         \A q \in Requests : /\ told[q].stage = r[q].stage /\ History(told[q])
                             /\ told[q].aborted = r[q].aborted /\ told[q].status = r[q].status
                             /\ Reported(told[q], "ownedExit") <=> Reported(r[q], "ownedExit"),
         ServerClose(told), Course', s' \in Session, admissionClosed' \in BOOLEAN,
         UNCHANGED <<tasks, awaited, agents>>
  PROVE  SInv'
<1>1. /\ r' = [q \in Requests |-> AbortRequest(told[q])]
      /\ waiting' = [k \in Keys |-> <<>>] /\ fresh' = fresh /\ holding' = holding
  BY DEF ServerClose
<1>2. ASSUME NEW q \in Requests
      PROVE  /\ r'[q] \in Request /\ History(r'[q])
             /\ r'[q].stage = IF r[q].stage = "waiting" THEN "finishing" ELSE r[q].stage
             /\ Owning(r'[q], q \in agents)
  <2>1. told[q] \in Request /\ (told[q].stage = "waiting" => ~told[q].aborted)
    BY DEF SInv, Held
  <2>2. r'[q] = AbortRequest(told[q])
    BY <1>1
  <2>3. /\ r'[q] \in Request /\ History(r'[q])
        /\ r'[q].stage = IF r[q].stage = "waiting" THEN "finishing" ELSE r[q].stage
        /\ r'[q].status = r[q].status /\ (Reported(r'[q], "ownedExit") <=> Reported(r[q], "ownedExit"))
    BY <2>1, <2>2, Aborting
  <2>4. Owning(r[q], q \in agents)
    BY DEF SInv, Held
  <2> QED BY <2>3, <2>4, Keeping DEF Returned
<1>3. r' \in [Requests -> Request]
  BY <1>1, <1>2
<1>4. waiting' \in [Keys -> Seq(Requests)]
  BY <1>1
<1>5. TypeOK'
  BY <1>1, <1>3, <1>4 DEF SInv, TypeOK, Pool!TypeOK
<1>6. Held'
  BY <1>1, <1>2 DEF SInv, Held, Outside, Tracking, Working, Slotted
<1>7. Lined'
  <2>1. \A q \in Requests : r'[q].stage # "waiting"
    BY <1>2
  <2>2. \A k \in Keys : waiting'[k] = <<>>
    BY <1>1
  <2> QED BY <2>1, <2>2 DEF Lined, InQueue, Distinct
<1>8. Told'
  BY <1>2 DEF Told
<1> QED BY <1>5, <1>6, <1>7, <1>8 DEF SInv

(* What is asked of a step of the session that leaves the requests alone.   *)
LEMMA Alone ==
  ASSUME SInv, Course', s' \in Session, admissionClosed' \in BOOLEAN, awaited' \subseteq Requests,
         UNCHANGED <<tasks, r, agents, poolVars>>
  PROVE  SInv'
<1>1. /\ r' = r /\ r \in [Requests -> Request]
      /\ \A q \in Requests : History(r[q]) /\ Owning(r[q], q \in agents)
  BY DEF SInv, TypeOK, Told, Held
<1> QED BY <1>1, Stays

LEMMA RunStep ==
  ASSUME SInv, Run PROVE SInv'
<1>1. /\ s \in Session /\ ~s.started /\ admissionClosed \in BOOLEAN /\ awaited \subseteq Requests
      /\ UNCHANGED <<tasks, r, agents, poolVars>> /\ awaited' = awaited
      /\ tasks' = tasks /\ r' = r
  BY DEF SInv, TypeOK, Run
<1>2. PICK input \in {"open", "ended", "errored"}, connects \in {"connecting", "failing", "throws"} :
        LET began == [s EXCEPT !.started = TRUE, !.listening = TRUE,
                               !.closeRequested = @ \/ input # "open",
                               !.failure = IF input = "errored" THEN "input" ELSE @]
        IN /\ s' = IF connects = "throws" THEN FailConnect(began)
                   ELSE [began EXCEPT !.connection = connects]
           /\ admissionClosed' = (admissionClosed \/ input # "open")
  BY DEF Run
<1> DEFINE began == [s EXCEPT !.started = TRUE, !.listening = TRUE,
                              !.closeRequested = @ \/ input # "open",
                              !.failure = IF input = "errored" THEN "input" ELSE @]
<1>3. /\ began \in Session /\ began.started /\ began.shutdown = s.shutdown
      /\ (began.closeRequested <=> s.closeRequested \/ input # "open")
      /\ began.completion = s.completion
  BY <1>1 DEF Session, Failures, NoFailure
<1>4. /\ s' = IF connects = "throws" THEN FailConnect(began)
                                     ELSE [began EXCEPT !.connection = connects]
      /\ admissionClosed' = (admissionClosed \/ input # "open")
  BY <1>2
<1> HIDE DEF began
<1>5. s.connection = "none" /\ s.shutdown = "none" /\ s.completion = "pending"
      /\ \A q \in Requests : r[q].stage = "idle"
  BY <1>1 DEF SInv, Course, Session
<1>6. /\ s' \in Session /\ s'.started /\ s'.shutdown = "none"
      /\ (s'.closeRequested <=> s.closeRequested \/ input # "open")
      /\ IF connects = "throws"
           THEN /\ s'.connection = "failed" /\ s'.completion = "rejected" /\ ~s'.listening
                /\ s'.failure # NoFailure
           ELSE s'.connection = connects /\ s'.completion = "pending"
  BY <1>3, <1>4, <1>5 DEF Session, FailConnect, FirstFailure, Failures, NoFailure
<1>7. Course'
  <2>1. (admissionClosed <=> s.closeRequested) /\ s.closeRequested \in BOOLEAN
    BY <1>1 DEF SInv, Course, Session
  <2>2. admissionClosed' = s'.closeRequested
    BY <1>1, <1>4, <1>6, <2>1 DEF Session
  <2> QED BY <1>1, <1>5, <1>6, <2>2 DEF Course
<1> QED BY <1>1, <1>4, <1>6, <1>7, Alone

LEMMA RequestCloseStep ==
  ASSUME SInv, NEW failure \in Failures \cup {NoFailure}, RequestClose(failure),
         failure # NoFailure => s.listening
  PROVE  SInv'
<1> DEFINE starts == s.connection = "connected" /\ s.shutdown = "none"
           told == IF s.closeRequested THEN r ELSE [q \in Requests |-> CloseAdmission(r[q])]
<1>1. /\ s \in Session /\ r \in [Requests -> Request] /\ \A q \in Requests : History(r[q])
      /\ s' = [s EXCEPT !.closeRequested = TRUE, !.failure = FirstFailure(@, failure),
                        !.shutdown = IF starts THEN "closing" ELSE @]
      /\ admissionClosed' = TRUE
      /\ IF starts THEN ServerClose(told) ELSE r' = told /\ UNCHANGED poolVars
      /\ UNCHANGED <<tasks, awaited, agents>> /\ tasks' = tasks /\ awaited' \subseteq Requests
  BY DEF SInv, TypeOK, Told, RequestClose
<1>2. told \in [Requests -> Request] /\
      \A q \in Requests : /\ told[q].stage = r[q].stage /\ History(told[q])
                          /\ told[q].aborted = r[q].aborted /\ told[q].status = r[q].status
                          /\ Reported(told[q], "ownedExit") <=> Reported(r[q], "ownedExit")
  BY <1>1, ClosingAdmission
<1>3. /\ s' \in Session /\ s'.closeRequested /\ s'.started = s.started
      /\ s'.connection = s.connection /\ s'.completion = s.completion
      /\ s'.listening = s.listening /\ s'.failure = FirstFailure(s.failure, failure)
      /\ s'.shutdown = IF starts THEN "closing" ELSE s.shutdown
  BY <1>1 DEF Session, FirstFailure
<1> HIDE DEF told
<1>4. s'.connection \in {"none", "failing", "failed"} => \A q \in Requests : r'[q].stage = "idle"
  BY <1>1, <1>2, <1>3 DEF SInv, Course
<1>5. s'.completion # "pending" => s'.failure = s.failure
  BY <1>3 DEF SInv, Course, FirstFailure
<1>6. ~s.started => s'.failure = NoFailure /\ ~s'.listening
  BY <1>3 DEF SInv, Course, FirstFailure
<1>7. s'.shutdown # "none" => s'.closeRequested /\ s'.connection = "connected"
  BY <1>3 DEF SInv, Course
<1>8. Course'
  BY <1>1, <1>3, <1>4, <1>5, <1>6, <1>7 DEF SInv, Course
<1>9. CASE starts
  BY <1>1, <1>2, <1>3, <1>8, <1>9, Clearing
<1>10. CASE ~starts
  <2>1. r' = told /\ UNCHANGED <<tasks, agents, poolVars>>
    BY <1>1, <1>10
  <2>2. ASSUME NEW q \in Requests PROVE Owning(r'[q], q \in agents)
    <3>1. Owning(r[q], q \in agents)
      BY DEF SInv, Held
    <3> QED BY <1>2, <2>1, <3>1, Keeping
  <2> QED BY <1>1, <1>2, <1>3, <1>8, <2>1, <2>2, Stays
<1> QED BY <1>9, <1>10

LEMMA ConnectedStep ==
  ASSUME SInv, Connected PROVE SInv'
<1>1. /\ s \in Session /\ s.connection = "connecting" /\ s.started
      /\ s' = [s EXCEPT !.connection = "connected",
                        !.shutdown = IF s.closeRequested THEN "closing" ELSE @]
      /\ IF s.closeRequested THEN ServerClose(r) ELSE UNCHANGED <<r, poolVars>>
      /\ UNCHANGED <<admissionClosed, tasks, awaited, agents>>
      /\ tasks' = tasks /\ admissionClosed' = admissionClosed
      /\ admissionClosed \in BOOLEAN /\ awaited' \subseteq Requests
  BY DEF SInv, TypeOK, Course, Connected
<1>2. s.shutdown = "none" /\ s.completion = "pending"
  BY <1>1 DEF SInv, Course, Session
<1>3. /\ s' \in Session /\ s'.connection = "connected" /\ s'.started /\ s'.completion = "pending"
      /\ s'.closeRequested = s.closeRequested
      /\ s'.shutdown = IF s.closeRequested THEN "closing" ELSE "none"
  BY <1>1, <1>2 DEF Session
<1>4. Course'
  BY <1>1, <1>3 DEF SInv, Course
<1>5. /\ r \in [Requests -> Request] /\ \A q \in Requests : History(r[q])
      /\ s.closeRequested \in BOOLEAN
  BY <1>1 DEF SInv, TypeOK, Told, Session
<1>6. CASE s.closeRequested
  BY <1>1, <1>3, <1>4, <1>5, <1>6, Clearing
<1>7. CASE ~s.closeRequested
  BY <1>1, <1>3, <1>4, <1>7, Alone
<1> QED BY <1>6, <1>7

LEMMA SessionStep ==
  ASSUME SInv, ConnectFails \/ ServerClosed \/ Drained PROVE SInv'
<1>1. /\ s \in Session /\ tasks \subseteq Requests /\ awaited \subseteq Requests
      /\ UNCHANGED <<tasks, r, agents, poolVars>> /\ tasks' = tasks /\ r' = r
      /\ admissionClosed' = admissionClosed /\ admissionClosed \in BOOLEAN
      /\ awaited' \subseteq Requests
  BY DEF SInv, TypeOK, ConnectFails, ServerClosed, Drained
<1>2. CASE ConnectFails
  <2>1. s.connection = "failing" /\ s' = FailConnect(s)
    BY <1>2 DEF ConnectFails
  <2>2. /\ s' \in Session /\ s'.connection = "failed" /\ s'.completion = "rejected"
        /\ ~s'.listening /\ s'.failure # NoFailure /\ s'.started = s.started
        /\ s'.shutdown = s.shutdown /\ s'.closeRequested = s.closeRequested
    BY <1>1, <2>1 DEF Session, FailConnect, FirstFailure, Failures, NoFailure
  <2>3. s.started /\ s.shutdown = "none" /\ \A q \in Requests : r[q].stage = "idle"
    BY <1>1, <2>1 DEF SInv, Course, Session
  <2>4. Course'
    BY <1>1, <2>2, <2>3 DEF SInv, Course
  <2> QED BY <1>1, <2>2, <2>4, Alone
<1>3. CASE ServerClosed
  <2>1. PICK failure \in {NoFailure, "close"} :
          s' = [s EXCEPT !.shutdown = "draining", !.failure = FirstFailure(@, failure)]
    BY <1>3 DEF ServerClosed
  <2>2. s.shutdown = "closing" /\ s.completion = "pending"
    BY <1>3 DEF ServerClosed, SInv, Course
  <2>3. /\ s' \in Session /\ s'.connection = s.connection /\ s'.completion = "pending"
        /\ s'.started = s.started /\ s'.shutdown = "draining"
        /\ s'.closeRequested = s.closeRequested
    BY <1>1, <2>1, <2>2 DEF Session, FirstFailure, Failures, NoFailure
  <2>4. Course'
    BY <1>1, <2>2, <2>3 DEF SInv, Course
  <2> QED BY <1>1, <2>3, <2>4, Alone
<1>4. CASE Drained
  <2>1. CASE tasks # {}
    <3>1. s' = s
      BY <1>4, <2>1 DEF Drained
    <3>2. Course'
      BY <1>1, <3>1 DEF SInv, Course
    <3> QED BY <1>1, <3>1, <3>2, Alone
  <2>2. CASE tasks = {}
    <3>1. PICK failure \in {NoFailure, "listeners"} :
            s' = [s EXCEPT !.shutdown = "over", !.listening = FALSE,
                           !.failure = FirstFailure(s.failure, failure),
                           !.completion = IF FirstFailure(s.failure, failure) = NoFailure
                                            THEN "resolved" ELSE "rejected"]
      BY <1>4, <2>2 DEF Drained
    <3>2. s.shutdown = "draining"
      BY <1>4 DEF Drained
    <3>3. /\ s' \in Session /\ s'.connection = s.connection /\ s'.started = s.started
          /\ s'.shutdown = "over" /\ ~s'.listening /\ s'.closeRequested = s.closeRequested
          /\ s'.completion \in {"resolved", "rejected"}
          /\ (s'.completion = "resolved" <=> s'.failure = NoFailure)
      BY <1>1, <3>1 DEF Session, FirstFailure, Failures, NoFailure
    <3>4. Course'
      BY <1>1, <2>2, <3>2, <3>3 DEF SInv, Course
    <3> QED BY <1>1, <3>3, <3>4, Alone
  <2> QED BY <2>1, <2>2
<1> QED BY <1>2, <1>3, <1>4

-----------------------------------------------------------------------------
(* The inductive invariant *)

LEMMA Initially == Init => SInv
<1> SUFFICES ASSUME Init PROVE SInv
  OBVIOUS
<1>1. TypeOK
  <2>1. s \in Session /\ admissionClosed \in BOOLEAN
    BY DEF Init, Session, NoFailure
  <2>2. r \in [Requests -> Request]
    <3>1. [stage |-> "idle", aborted |-> FALSE, owed |-> FALSE,
           reason |-> "none", status |-> "none", log |-> <<>>] \in Request
      BY DEF Request, Stages
    <3> QED BY <3>1 DEF Init
  <2>3. Pool!TypeOK
    BY DEF Init, Pool!Init, Pool!TypeOK
  <2> QED BY <2>1, <2>2, <2>3 DEF Init, TypeOK
<1>2. /\ \A q \in Requests : r[q].stage = "idle" /\ r[q].log = <<>> /\ r[q].reason = "none"
      /\ \A k \in Keys : waiting[k] = <<>>
      /\ tasks = {} /\ agents = {} /\ holding = {}
  BY DEF Init, Pool!Init
<1>3. Course
  BY DEF Init, Course, NoFailure
<1>4. Held
  BY <1>2 DEF Held, Owning, Returned, Outside, Tracking, Working, Slotted
<1>5. Lined
  BY <1>2 DEF Lined, InQueue, Distinct
<1>6. Told
  <2> SUFFICES ASSUME NEW q \in Requests PROVE History(r[q])
    BY DEF Told
  <2>1. r[q].stage = "idle" /\ r[q].log = <<>> /\ r[q].reason = "none" /\ DOMAIN r[q].log = {}
    BY <1>2
  <2>2. Sound(r[q].log) /\ \A e : ~Reported(r[q], e)
    BY <2>1 DEF Sound, Reported
  <2> QED BY <2>1, <2>2 DEF History
<1> QED BY <1>1, <1>3, <1>4, <1>5, <1>6 DEF SInv

LEMMA Inductive == SInv /\ [Next]_vars => SInv'
<1> SUFFICES ASSUME SInv, [Next]_vars PROVE SInv'
  OBVIOUS
<1>1. CASE UNCHANGED vars \/ Over
  <2>1. /\ UNCHANGED <<s, admissionClosed, awaited>>
        /\ UNCHANGED <<tasks, r, agents, fresh, waiting, holding>>
    BY <1>1 DEF vars, Over
  <2> QED BY <2>1 DEF SInv, TypeOK, Pool!TypeOK, Course, Held, Lined, InQueue, Distinct, Told
<1>2. CASE Run
  BY <1>2, RunStep
<1>3. CASE InputEnds \/ InputFails \/ CloseSession
  <2>1. PICK failure \in {NoFailure, "input"} :
          RequestClose(failure) /\ (failure # NoFailure => s.listening)
    BY <1>3 DEF InputEnds, InputFails, CloseSession
  <2> QED BY <2>1, RequestCloseStep DEF Failures
<1>4. CASE SessionSteps
  BY <1>4, ConnectedStep, SessionStep DEF SessionSteps
<1>5. ASSUME NEW q \in Requests, RequestSteps(q) PROVE SInv'
  BY <1>5, HandleStep, TurnAwayStep, ExecuteStep, PrepareStep, LaunchStep, CompareStep,
     FinishStep, RemoveStep DEF RequestSteps
<1>6. ASSUME NEW q \in Requests, Release(q) PROVE SInv'
  BY <1>6, ReleaseStep
<1>7. ASSUME NEW q \in Requests, HostSteps(q) PROVE SInv'
  BY <1>7, ArriveStep, CancelStep, OwedStep DEF HostSteps
<1>8. ASSUME NEW q \in Requests, AgentSteps(q) PROVE SInv'
  BY <1>8, DeadlineStep, OwedStep, KimiLetsGoStep, AgentEndsStep, AgentLeftStep,
     LeftAgentDiesStep DEF AgentSteps
<1> QED BY <1>1, <1>2, <1>3, <1>4, <1>5, <1>6, <1>7, <1>8 DEF Next

(* Every reachable state satisfies the inductive invariant. *)
THEOREM Invariant == Spec => []SInv
BY Initially, Inductive, PTL DEF Spec

(* The variables keep their types. *)
THEOREM TypeCorrect == Spec => []TypeOK
<1>1. SInv => TypeOK
  BY DEF SInv
<1> QED BY <1>1, Invariant, PTL

(* A settled session has no task and no request under way, and an agent     *)
(* that lives on was given up by its adapter and is not reported completed. *)
THEOREM NothingIsLeft == Spec => []NothingOutlivesSession
<1>1. SInv => NothingOutlivesSession
  <2> SUFFICES ASSUME SInv, s.completion # "pending"
               PROVE  /\ tasks = {}
                      /\ \A q \in Requests : r[q].stage \in {"idle", "received", "gone"}
                      /\ \A q \in agents : r[q].stage = "gone" /\ r[q].status # "completed"
    BY DEF NothingOutlivesSession
  <2>1. tasks = {}
    <3>1. CASE s.shutdown = "over"
      BY <3>1 DEF SInv, Course
    <3>2. CASE s.connection = "failed"
      BY <3>2 DEF SInv, TypeOK, Course, Held, Tracking, Working
    <3> QED BY <3>1, <3>2 DEF SInv, Course
  <2>2. \A q \in Requests : r[q].stage \notin Tracking
    BY <2>1 DEF SInv, Held
  <2>3. \A q \in agents : r[q].stage = "gone" /\ r[q].status # "completed"
    BY <2>2 DEF SInv, TypeOK, Held, Owning, Returned, Tracking, Working
  <2>4. \A q \in Requests : r[q].stage \in Stages
    BY DEF SInv, TypeOK, Request
  <2> QED BY <2>1, <2>2, <2>3, <2>4 DEF Stages, Live, Tracking
<1> QED BY <1>1, Invariant, PTL

(* The line of a pool is the requests that wait for it, none of them         *)
(* aborted, and whoever works on a slot holds it.                            *)
THEOREM LinesAndSlotsMatch == Spec => []SlotsMatchTasks
<1>1. SInv => SlotsMatchTasks
  <2> SUFFICES ASSUME SInv PROVE SlotsMatchTasks
    OBVIOUS
  <2>1. \A q \in Requests : KeyOf[q] \in Keys
    BY PoolAssumption
  <2>2. \A q \in agents : r[q].stage \notin Returned => q \in holding \cap tasks
    BY DEF SInv, TypeOK, Held, Owning, Slotted, Tracking, Working
  <2> QED BY <2>1, <2>2 DEF SlotsMatchTasks, SInv, Held, Lined, InQueue, Slotted
<1> QED BY <1>1, Invariant, PTL

(* The events of a request come in the order the host's observer demands.   *)
THEOREM EventsAreInOrder == Spec => []EventsInOrder
<1>1. SInv => EventsInOrder
  <2> SUFFICES ASSUME SInv, NEW q \in Requests
               PROVE  /\ Sound(r[q].log)
                      /\ Reported(r[q], "handlerCancelled") =>
                           /\ InRank(r[q].log)
                           /\ Reported(r[q], "ownedExit") => Reported(r[q], "sdkAbort")
                      /\ Reported(r[q], "ownedExit") => q \notin agents
                      /\ Reported(r[q], "inFlightRemoved") => q \notin tasks /\ r[q].stage = "gone"
    BY DEF EventsInOrder
  <2>1. History(r[q])
    BY DEF SInv, Told
  <2>2. r[q].stage = "gone" => q \notin tasks
    BY DEF SInv, Held, Tracking, Working
  <2>3. Reported(r[q], "ownedExit") => q \notin agents
    BY <2>1 DEF SInv, Held, Owning, History, Returned
  <2> QED BY <2>1, <2>2, <2>3 DEF History, Orderly
<1> QED BY <1>1, Invariant, PTL
-----------------------------------------------------------------------------
(* What a step may not do *)

(* The steps that leave the session itself alone. *)
LEMMA OutsideSteps ==
  ASSUME NEW q \in Requests, RequestSteps(q) \/ Release(q) \/ HostSteps(q) \/ AgentSteps(q)
  PROVE  s' = s /\ admissionClosed' = admissionClosed /\ awaited' = awaited
BY DEF RequestSteps, HostSteps, AgentSteps, sessionVars, Arrive, Cancel, Handle, TurnAway,
   Execute, Prepare, Launch, DeadlineElapses, Report, HostReads, KimiLetsGo, AgentEnds,
   AgentLeft, LeftAgentDies, Compare, Release, Finish, Remove

(* The first failure stays, the completion settles once and by it.          *)
THEOREM FirstFailureDecides == Spec => OutcomeIsFirstFailure
<1>1. ASSUME SInv, SInv', [Next]_vars
      PROVE  [ /\ s.failure # NoFailure => s'.failure = s.failure
               /\ s'.completion # "pending" =>
                    (s'.completion = "resolved" <=> s'.failure = NoFailure)
               /\ s.completion # "pending" =>
                    s'.completion = s.completion /\ s'.failure = s.failure ]_vars
  <2> DEFINE Keeps == /\ s.failure # NoFailure => s'.failure = s.failure
                      /\ s.completion # "pending" =>
                           s'.completion = s.completion /\ s'.failure = s.failure
  <2>1. s \in Session /\ Course /\ Course'
    BY <1>1 DEF SInv, TypeOK
  <2>2. ASSUME s' = s PROVE Keeps
    BY <2>2
  <2>3. ASSUME Run PROVE Keeps
    <3>1. s.failure = NoFailure /\ s.completion = "pending"
      BY <2>1, <2>3 DEF Run, Course, Session
    <3> QED BY <3>1
  <2>4. ASSUME NEW failure \in {NoFailure, "input"}, RequestClose(failure),
               failure # NoFailure => s.listening
        PROVE  Keeps
    <3>1. s'.failure = FirstFailure(s.failure, failure) /\ s'.completion = s.completion
      BY <2>1, <2>4 DEF RequestClose, Session
    <3> QED BY <2>1, <2>4, <3>1 DEF FirstFailure, Course
  <2>5. ASSUME Connected PROVE Keeps
    <3>1. s'.failure = s.failure /\ s'.completion = s.completion
      BY <2>1, <2>5 DEF Connected, Session
    <3> QED BY <3>1
  <2>6. ASSUME ConnectFails PROVE Keeps
    <3>1. s'.failure = FirstFailure(s.failure, "connect") /\ s.completion = "pending"
      BY <2>1, <2>6 DEF ConnectFails, FailConnect, Session, Course
    <3> QED BY <3>1 DEF FirstFailure
  <2>7. ASSUME ServerClosed PROVE Keeps
    <3>1. PICK failure \in {NoFailure, "close"} : s'.failure = FirstFailure(s.failure, failure)
      BY <2>1, <2>7 DEF ServerClosed, Session
    <3>2. s.completion = "pending"
      BY <2>1, <2>7 DEF ServerClosed, Course
    <3> QED BY <3>1, <3>2 DEF FirstFailure
  <2>8. ASSUME Drained PROVE Keeps
    <3>1. s' = s \/ \E failure \in {NoFailure, "listeners"} :
                      s'.failure = FirstFailure(s.failure, failure)
      BY <2>1, <2>8 DEF Drained, Session
    <3>2. s.completion = "pending"
      BY <2>1, <2>8 DEF Drained, Course
    <3> QED BY <3>1, <3>2 DEF FirstFailure
  <2>9. Keeps
    <3>1. CASE \E q \in Requests : RequestSteps(q) \/ Release(q) \/ HostSteps(q) \/ AgentSteps(q)
      BY <2>2, <3>1, OutsideSteps
    <3>2. CASE InputEnds \/ InputFails \/ CloseSession
      BY <2>4, <3>2 DEF InputEnds, InputFails, CloseSession
    <3>3. CASE Over \/ UNCHANGED vars
      BY <2>2, <3>3 DEF Over, vars
    <3> HIDE DEF Keeps
    <3> QED BY <1>1, <2>3, <2>5, <2>6, <2>7, <2>8, <3>1, <3>2, <3>3 DEF Next, SessionSteps
  <2> QED BY <2>1, <2>9 DEF Course
<1> QED BY <1>1, Invariant, PTL DEF Spec, OutcomeIsFirstFailure

(* A request takes no forbidden step once the session was asked to close. *)
StartsNothing ==
  /\ tasks' \subseteq tasks
  /\ \A q \in Requests :
       r'[q].stage \in {"granted", "launching", "running"} =>
         r[q].stage \in {"waiting", "granted", "launching", "running"}
  /\ \A q \in Requests : r'[q].stage = "launching" => r[q].stage = "launching"

(* A step that changes the stage of one request only. *)
LEMMA OneStarts ==
  ASSUME SInv, NEW q \in Requests, NEW y, r' = [r EXCEPT ![q] = y], tasks' \subseteq tasks,
         y.stage \in {"granted", "launching", "running"} =>
           r[q].stage \in {"waiting", "granted", "launching", "running"},
         y.stage = "launching" => r[q].stage = "launching"
  PROVE  StartsNothing
BY DEF SInv, TypeOK, StartsNothing

LEMMA ServerCloseStarts ==
  ASSUME SInv, NEW told \in [Requests -> Request],
         \A q \in Requests : /\ told[q].stage = r[q].stage /\ History(told[q])
                             /\ told[q].aborted = r[q].aborted,
         ServerClose(told), tasks' = tasks
  PROVE  StartsNothing
<1>1. ASSUME NEW q \in Requests
      PROVE  r'[q].stage = IF r[q].stage = "waiting" THEN "finishing" ELSE r[q].stage
  <2>1. told[q] \in Request /\ (told[q].stage = "waiting" => ~told[q].aborted)
    BY DEF SInv, Held
  <2>2. r'[q] = AbortRequest(told[q])
    BY DEF ServerClose
  <2> QED BY <2>1, <2>2, Aborting
<1> QED BY <1>1 DEF StartsNothing

LEMMA RequestStarts ==
  ASSUME SInv, s.closeRequested, NEW q \in Requests,
         RequestSteps(q) \/ Release(q) \/ HostSteps(q) \/ AgentSteps(q)
  PROVE  StartsNothing
<1>1. /\ admissionClosed /\ r[q] \in Request /\ r \in [Requests -> Request] /\ History(r[q])
      /\ r[q].stage = "waiting" => ~r[q].aborted
  BY DEF SInv, Course, TypeOK, Told, Held
<1>2. CASE Handle(q) \/ TurnAway(q) \/ Compare(q) \/ Arrive(q)
  <2>1. PICK stage \in {"gone", "settled", "finishing", "received"}, status \in Statuses \cup {"none"} :
          r' = [r EXCEPT ![q].stage = stage, ![q].status = status]
    BY <1>1, <1>2 DEF Handle, TurnAway, Compare, Arrive, Become, Request
  <2>2. tasks' = tasks
    BY <1>1, <1>2 DEF Handle, TurnAway, Compare, Arrive
  <2> DEFINE y == [r[q] EXCEPT !.stage = stage, !.status = status]
  <2>3. r' = [r EXCEPT ![q] = y] /\ y.stage = stage
    BY <1>1, <2>1 DEF Request
  <2> QED BY <2>2, <2>3, OneStarts
<1>3. CASE Execute(q)
  BY <1>1, <1>3 DEF Execute
<1>10. CASE LeftAgentDies(q)
  <2>1. r' = r /\ tasks' = tasks
    BY <1>10 DEF LeftAgentDies
  <2> QED BY <2>1 DEF StartsNothing
<1>11. ASSUME NEW x \in {r[q]} \cup {Emit(r[q], e) : e \in Events}, NEW status,
              r' = [r EXCEPT ![q] = ReturnedWith(x, status)], tasks' = tasks
       PROVE  StartsNothing
  <2>1. ReturnedWith(x, status).stage = "after"
    BY <1>1 DEF ReturnedWith, Emit, Request
  <2> QED BY <1>11, <2>1, OneStarts
<1>12. CASE AgentLeft(q)
  <2>1. PICK status : r' = [r EXCEPT ![q] = ReturnedWith(r[q], status)]
    BY <1>12 DEF AgentLeft
  <2>2. tasks' = tasks
    BY <1>12 DEF AgentLeft
  <2> QED BY <1>11, <2>1, <2>2
<1>13. CASE AgentEnds(q)
  <2>1. \E x \in {r[q], Emit(r[q], "ownedExit")} : \E status : r' = [r EXCEPT ![q] = ReturnedWith(x, status)]
    BY <1>13 DEF AgentEnds
  <2>3. PICK x \in {r[q], Emit(r[q], "ownedExit")} : \E status : r' = [r EXCEPT ![q] = ReturnedWith(x, status)]
    BY <2>1
  <2>4. PICK status : r' = [r EXCEPT ![q] = ReturnedWith(x, status)]
    BY <2>3
  <2>2. tasks' = tasks /\ x \in {r[q]} \cup {Emit(r[q], e) : e \in Events}
    BY <1>13 DEF AgentEnds, Events
  <2> QED BY <1>11, <2>2, <2>4
<1>14. CASE Launch(q)
  <2>1. tasks' = tasks
    BY <1>14 DEF Launch
  <2>2. CASE Become(q, "running")
    <3> DEFINE y == [r[q] EXCEPT !.stage = "running"]
    <3>1. r' = [r EXCEPT ![q] = y] /\ y.stage = "running" /\ r[q].stage = "launching"
      BY <1>1, <1>14, <2>2 DEF Launch, Become, Request
    <3> QED BY <2>1, <3>1, OneStarts
  <2>3. CASE ~Become(q, "running")
    <3>1. PICK status : r' = [r EXCEPT ![q] = ReturnedWith(r[q], status)]
      BY <1>14, <2>3 DEF Launch
    <3> QED BY <1>11, <2>1, <3>1
  <2> QED BY <2>2, <2>3
<1>4. CASE Prepare(q)
  <2>1. /\ r[q].stage = "granted" /\ tasks' = tasks
        /\ \E stage \in {"finishing", "after"}, status \in Statuses \cup {"none"} :
             r' = [r EXCEPT ![q].stage = stage, ![q].status = status]
    BY <1>1, <1>4 DEF Prepare, Become, Request, Statuses
  <2>2. PICK stage \in {"finishing", "after"}, status \in Statuses \cup {"none"} :
          r' = [r EXCEPT ![q].stage = stage, ![q].status = status]
    BY <2>1
  <2> DEFINE y == [r[q] EXCEPT !.stage = stage, !.status = status]
  <2>3. r' = [r EXCEPT ![q] = y] /\ y.stage = stage
    BY <1>1, <2>2 DEF Request
  <2> QED BY <2>1, <2>3, OneStarts
<1>5. CASE Finish(q) \/ Remove(q) \/ KimiLetsGo(q)
  <2>1. PICK y : /\ r' = [r EXCEPT ![q] = y]
                 /\ y.stage \in {"settled", "gone", "leaving"}
    <3>1. ASSUME NEW x \in {r[q]} \cup {Emit(r[q], e) : e \in Events}
          PROVE  /\ [x EXCEPT !.stage = "settled", !.owed = FALSE].stage = "settled"
                 /\ [x EXCEPT !.stage = "gone"].stage = "gone"
      BY <1>1, <3>1 DEF Emit, Request
    <3>2. CASE Finish(q)
      <4> DEFINE x == IF r[q].status = "cancelled" THEN Emit(r[q], "handlerCancelled") ELSE r[q]
      <4>1. /\ r' = [r EXCEPT ![q] = [x EXCEPT !.stage = "settled", !.owed = FALSE]]
            /\ x \in {r[q]} \cup {Emit(r[q], e) : e \in Events}
        BY <3>2 DEF Finish, Events
      <4> HIDE DEF x
      <4> QED BY <3>1, <4>1
    <3>3. CASE Remove(q)
      <4> DEFINE x == Emit(r[q], "inFlightRemoved")
      <4>1. /\ r' = [r EXCEPT ![q] = [x EXCEPT !.stage = "gone"]]
            /\ x \in {r[q]} \cup {Emit(r[q], e) : e \in Events}
        BY <1>1, <3>3 DEF Remove, Events
      <4> HIDE DEF x
      <4> QED BY <3>1, <4>1
    <3>5. CASE KimiLetsGo(q)
      <4>1. PICK status : r' = [r EXCEPT ![q].stage = "leaving", ![q].status = status]
        BY <3>5 DEF KimiLetsGo
      <4>2. /\ r' = [r EXCEPT ![q] = [r[q] EXCEPT !.stage = "leaving", !.status = status]]
            /\ [r[q] EXCEPT !.stage = "leaving", !.status = status].stage = "leaving"
        BY <1>1, <4>1 DEF Request
      <4> QED BY <4>2
    <3> QED BY <1>5, <3>2, <3>3, <3>5
  <2>2. tasks' \subseteq tasks
    BY <1>5 DEF Finish, Remove, KimiLetsGo
  <2> QED BY <2>1, <2>2, OneStarts
<1>6. CASE DeadlineElapses(q)
  <2>1. CancelRun(r[q], "timed_out").stage = r[q].stage
    BY <1>1, Cancelling DEF Reasons
  <2> QED BY <1>6, <2>1, OneStarts DEF DeadlineElapses
<1>7. CASE Report(q) \/ HostReads(q)
  <2>1. PICK owed \in BOOLEAN : r' = [r EXCEPT ![q].owed = owed]
    BY <1>7 DEF Report, HostReads
  <2>2. r' = [r EXCEPT ![q] = [r[q] EXCEPT !.owed = owed]]
        /\ [r[q] EXCEPT !.owed = owed].stage = r[q].stage
    BY <1>1, <2>1 DEF Request
  <2> QED BY <1>7, <2>2, OneStarts DEF Report, HostReads
<1>8. CASE Cancel(q)
  <2>1. AbortRequest(r[q]).stage = IF r[q].stage = "waiting" THEN "finishing" ELSE r[q].stage
    BY <1>1, Aborting
  <2> QED BY <1>8, <2>1, OneStarts DEF Cancel
<1>9. CASE Release(q)
  <2>1. /\ tasks' = tasks
        /\ \A p \in Requests : r'[p] = IF p \in holding' \ holding
                                         THEN [r[p] EXCEPT !.stage = "granted"] ELSE r[p]
    BY <1>9 DEF Release
  <2>2. ASSUME NEW p \in holding' \ holding PROVE r[p].stage = "waiting" /\ p \in Requests
    <3> DEFINE k == KeyOf[q]
    <3>1. waiting[k] # <<>> /\ p = Head(waiting[k])
      BY <1>9 DEF Release, Pool!Leave
    <3>2. k \in Keys /\ waiting[k] \in Seq(Requests) /\ Distinct(waiting[k])
      BY PoolAssumption DEF SInv, TypeOK, Pool!TypeOK, Lined
    <3> HIDE DEF k
    <3>3. p \in Requests /\ InQueue(waiting[k], p)
      BY <3>1, <3>2, Shift
    <3> QED BY <3>2, <3>3 DEF SInv, Lined
  <2>3. \A p \in Requests : r'[p].stage = IF p \in holding' \ holding THEN "granted"
                                          ELSE r[p].stage
    BY <1>1, <2>1 DEF Request
  <2> QED BY <2>1, <2>2, <2>3 DEF StartsNothing
<1> QED BY <1>2, <1>3, <1>4, <1>5, <1>6, <1>7, <1>8, <1>9, <1>10, <1>12, <1>13, <1>14
        DEF RequestSteps, HostSteps, AgentSteps

(* Once the session was asked to close nothing is taken on and no adapter   *)
(* sets out to start a process.                                             *)
THEOREM NothingStarts == Spec => NothingStartsAfterClose
<1>1. ASSUME SInv, s.closeRequested, [Next]_vars PROVE StartsNothing
  <2>1. /\ \A q \in Requests : History(r[q]) /\ r[q] \in Request
        /\ s \in Session /\ r \in [Requests -> Request]
    BY <1>1 DEF SInv, Told, TypeOK
  <2>2. CASE r' = r /\ tasks' = tasks
    BY <2>2 DEF StartsNothing
  <2>3. CASE Connected
    BY <1>1, <2>1, <2>2, <2>3, ServerCloseStarts DEF Connected
  <2>4. ASSUME NEW failure, RequestClose(failure) PROVE StartsNothing
    <3>1. tasks' = tasks
      BY <2>4 DEF RequestClose
    <3>2. ServerClose(r) \/ r' = r
      BY <1>1, <2>4 DEF RequestClose
    <3> QED BY <1>1, <2>1, <2>2, <3>1, <3>2, ServerCloseStarts
  <2>5. CASE UNCHANGED vars \/ Over \/ Run \/ ConnectFails \/ ServerClosed \/ Drained
    BY <2>2, <2>5 DEF vars, Over, Run, ConnectFails, ServerClosed, Drained
  <2>6. CASE \E q \in Requests : RequestSteps(q) \/ Release(q) \/ HostSteps(q) \/ AgentSteps(q)
    BY <1>1, <2>6, RequestStarts
  <2> QED BY <1>1, <2>3, <2>4, <2>5, <2>6
          DEF Next, SessionSteps, InputEnds, InputFails, CloseSession
<1> QED BY <1>1, Invariant, PTL DEF Spec, NothingStartsAfterClose, StartsNothing
-----------------------------------------------------------------------------
(* The session is a task server *)

(* A request asks for nothing but its admission, and leaves. *)
LEMMA RequestServes ==
  ASSUME SInv, NEW q \in Requests,
         RequestSteps(q) \/ Release(q) \/ HostSteps(q) \/ AgentSteps(q)
  PROVE  [Server!Next]_(Server!vars)
<1>1. s' = s /\ admissionClosed' = admissionClosed
  BY OutsideSteps
<1>2. CASE tasks' = tasks
  BY <1>1, <1>2 DEF Server!vars
<1>3. CASE tasks' = tasks \ {q}
  <2>1. Server!Finish(q)
    BY <1>1, <1>3 DEF Server!Finish
  <2> QED BY <2>1 DEF Server!Next
<1>4. CASE tasks' = tasks \cup {q} /\ ~admissionClosed /\ r[q].stage = "received"
  <2>1. s.completion = "pending"
    BY <1>4 DEF SInv, Course
  <2>2. Server!Admit(q)
    BY <1>1, <1>4, <2>1 DEF Server!Admit
  <2> QED BY <2>2 DEF Server!Next
<1>5. \/ tasks' = tasks \/ tasks' = tasks \ {q}
      \/ tasks' = tasks \cup {q} /\ ~admissionClosed /\ r[q].stage = "received"
  BY DEF RequestSteps, HostSteps, AgentSteps, Arrive, Cancel, Handle, TurnAway,
     Execute, Prepare, Launch, DeadlineElapses, Report, HostReads, KimiLetsGo, AgentEnds,
     AgentLeft, LeftAgentDies, Compare, Release, Finish, Remove
<1> QED BY <1>2, <1>3, <1>4, <1>5

(* A step of the session closes the gate, ends it, or does neither. *)
LEMMA SessionServes ==
  ASSUME tasks' = tasks,
         \/ admissionClosed' = admissionClosed \/ admissionClosed',
         \/ s'.completion = s.completion
         \/ tasks = {} /\ s'.completion # "pending",
         admissionClosed \in BOOLEAN, admissionClosed' \in BOOLEAN
  PROVE  [Server!Next]_(Server!vars)
<1>1. CASE s'.completion = s.completion /\ admissionClosed' = admissionClosed
  BY <1>1 DEF Server!vars
<1>2. CASE s'.completion = s.completion /\ admissionClosed'
  <2>1. Server!CloseGate
    BY <1>2 DEF Server!CloseGate
  <2> QED BY <2>1 DEF Server!Next
<1>3. CASE tasks = {} /\ s'.completion # "pending"
  <2>1. Server!End
    BY <1>3 DEF Server!End
  <2> QED BY <2>1 DEF Server!Next
<1> QED BY <1>1, <1>2, <1>3

(* The session implements the task server: while the gate is open tasks are *)
(* taken on, it never opens again, and the end waits for the last of them.  *)
THEOREM Implements == Spec => ImplementsServer
<1>1. Init => Server!Init
  BY DEF Init, Server!Init
<1>2. SInv /\ SInv' /\ [Next]_vars => [Server!Next]_(Server!vars)
  <2> SUFFICES ASSUME SInv, SInv', [Next]_vars PROVE [Server!Next]_(Server!vars)
    OBVIOUS
  <2>1. s \in Session /\ admissionClosed \in BOOLEAN /\ admissionClosed' \in BOOLEAN
    BY DEF SInv, TypeOK
  <2>2. (\A q \in Requests : r[q].stage = "idle") => tasks = {}
    BY DEF SInv, TypeOK, Held, Tracking, Working
  <2>3. CASE Run
    <3>1. s.connection = "none" /\ s.completion = "pending"
      BY <2>3 DEF Run, SInv, Course
    <3>2. tasks = {}
      <4>1. \A q \in Requests : r[q].stage = "idle"
        BY <3>1 DEF SInv, Course
      <4> QED BY <2>2, <4>1
    <3>3. tasks' = tasks /\ (admissionClosed' = admissionClosed \/ admissionClosed')
      <4>1. PICK input : admissionClosed' = (admissionClosed \/ input # "open")
        BY <2>3 DEF Run
      <4>2. tasks' = tasks
        BY <2>3 DEF Run
      <4> QED BY <2>1, <4>1, <4>2
    <3> QED BY <2>1, <3>1, <3>2, <3>3, SessionServes
  <2>4. ASSUME NEW failure, RequestClose(failure) PROVE [Server!Next]_(Server!vars)
    <3>1. tasks' = tasks /\ admissionClosed' /\ s'.completion = s.completion
      BY <2>1, <2>4 DEF RequestClose, Session
    <3> QED BY <2>1, <3>1, SessionServes
  <2>5. CASE Connected \/ ServerClosed
    <3>1. tasks' = tasks /\ admissionClosed' = admissionClosed /\ s'.completion = s.completion
      BY <2>1, <2>5 DEF Connected, ServerClosed, Session
    <3> QED BY <2>1, <3>1, SessionServes
  <2>6. CASE ConnectFails
    <3>1. tasks = {} /\ s'.completion # "pending"
      BY <2>1, <2>2, <2>6 DEF ConnectFails, FailConnect, Session, SInv, Course
    <3>2. tasks' = tasks /\ admissionClosed' = admissionClosed
      BY <2>6 DEF ConnectFails
    <3> QED BY <2>1, <3>1, <3>2, SessionServes
  <2>7. CASE Drained
    <3>1. tasks' = tasks /\ admissionClosed' = admissionClosed
      BY <2>7 DEF Drained
    <3>2. CASE tasks = {}
      <4>1. PICK first : s' = [s EXCEPT !.shutdown = "over", !.listening = FALSE, !.failure = first,
                                        !.completion = IF first = NoFailure THEN "resolved"
                                                       ELSE "rejected"]
        BY <2>7, <3>2 DEF Drained
      <4>2. s'.completion # "pending"
        BY <2>1, <4>1 DEF Session
      <4> QED BY <2>1, <3>1, <3>2, <4>2, SessionServes
    <3>3. CASE tasks # {}
      <4>1. s' = s
        BY <2>7, <3>3 DEF Drained
      <4> QED BY <2>1, <3>1, <4>1, SessionServes
    <3> QED BY <3>2, <3>3
  <2>8. CASE Over \/ UNCHANGED vars
    BY <2>8 DEF Over, vars, Server!vars
  <2>9. CASE \E q \in Requests : RequestSteps(q) \/ Release(q) \/ HostSteps(q) \/ AgentSteps(q)
    BY <2>9, RequestServes
  <2> QED BY <2>3, <2>4, <2>5, <2>6, <2>7, <2>8, <2>9
          DEF Next, SessionSteps, InputEnds, InputFails, CloseSession
<1> QED BY <1>1, <1>2, Invariant, PTL DEF Spec, ImplementsServer, Server!Spec
=============================================================================
