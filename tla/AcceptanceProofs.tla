--------------------------- MODULE AcceptanceProofs ---------------------------
(***************************************************************************)
(* Theorems about the acceptance of a release on a host (HostAcceptance),   *)
(* for any hosts and MCP processes, and any bound on the frames in the pipe; *)
(* about the receipt it leaves (HostReceipt), for any clock; and about the   *)
(* release that rests on it (ReleaseValidation), for any history.            *)
(***************************************************************************)
EXTENDS HostAcceptance, ReleaseValidation, FiniteSets, TLAPS

Frames == {"hello"} \cup {Events[i] : i \in 1..5}
Elements(s) == {s[i] : i \in DOMAIN s}

McpStates == {"unborn", "running", "closing", "gone"}
Tasks == {"review", "delegate"}
Attempts == {"none", "connecting", "open", "failed", "ended"}
Terminals == {"open", "graceful", "abortive"}
Tails == Seq(Frames)
Requests == {"none", "running", "ending", "gone", "unobserved"}
Reasons == {"none", "cancelled", "session_shutdown"}
Statuses == {"none", "completed", "failed", "cancelled"}

McpRecord ==
  [state : McpStates, asked : SUBSET Tasks, loading : Tasks \cup {"none"}, attempt : Attempts,
   terminal : Terminals, tail : Tails, claimed : BOOLEAN, request : Requests,
   sink : BOOLEAN, agent : BOOLEAN, stopped : BOOLEAN, told : BOOLEAN,
   reason : Reasons, status : Statuses]

AppRecord ==
  [state : {"unborn", "running", "exited"},
   before : [apps : SUBSET Apps, mcps : SUBSET Mcps]]

PipeRecord ==
  [open : BOOLEAN, peer : Mcps \cup {0}, buffer : Seq(Frames), eof : BOOLEAN]

Peopled ==
  /\ app \in [Apps -> AppRecord]
  /\ mcp \in [Mcps -> McpRecord]
  /\ pipe \in PipeRecord

Concluding == {"checking", "writing", "passed"}

ObserverRecord ==
  [at : {"starting", "accepting", "greeting", "waiting", "restarting", "reaccepting",
         "regreeting", "observing", "failed", "killed"} \cup Concluding,
   old : Mcps \cup {0}, new : Mcps \cup {0}, frames : 0..5]

ScriptRecord ==
  [at : {"consuming", "removing", "leaving", "succeeded", "failed", "dead"},
   index : Nat, published : BOOLEAN, failed : BOOLEAN, interrupted : BOOLEAN]

Staffed ==
  /\ observer \in ObserverRecord /\ script \in ScriptRecord
  /\ lines \in Seq(Elements(Phases))
  /\ disk \in [descriptor : {"none", "ours", "other"}, receipt : BOOLEAN, markers : SUBSET Mcps]

-----------------------------------------------------------------------------
(* What a process has told, given the frames E that it wrote or will write:  *)
(* an exit is told of an agent that was told to cancel, or failed; the end   *)
(* of the handler is told of a run that was cancelled.  A delegate is asked  *)
(* for once.                                                                 *)
Fits(x, E) ==
  /\ x.request # "none" => x.loading # "delegate" /\ ("delegate" \in x.asked \/ x.state = "gone")
  /\ x.loading = "delegate" => "delegate" \in x.asked
  /\ x.agent => x.request = "running"
  /\ x.reason = "cancelled" => x.stopped
  /\ "ownedExit" \in E => ~x.agent /\ x.request \in {"ending", "gone"}
  /\ "ownedExit" \in E /\ x.request = "ending" => x.status = "failed" \/ x.reason = "cancelled"
  /\ "handlerCancelled" \in E =>
       x.request = "gone" /\ x.status = "cancelled" /\ ("ownedExit" \in E => x.reason = "cancelled")

Heard(o) == {Events[i] : i \in 1..o.frames}

(* The frames of a process, wherever they are by now. *)
Trail(m) ==
  Elements(mcp[m].tail) \cup (IF pipe.peer = m THEN Elements(pipe.buffer) ELSE {})
    \cup (IF observer.new = m THEN Heard(observer) ELSE {})

Told == \A m \in Mcps : Fits(mcp[m], Trail(m))

(* The observer hears the process it is connected to, which it found to be  *)
(* of a host that came up after the old one had gone.                       *)
Bound ==
  /\ pipe.peer = 0 => pipe.buffer = <<>>
  /\ observer.new = 0 => observer.frames = 0
  /\ observer.new # 0 <=> observer.at \in {"observing"} \cup Concluding
  /\ observer.at = "observing" => pipe.peer = observer.new
  /\ observer.at \in Concluding => observer.frames = 5
  /\ observer.at \in {"writing", "passed"} => observer.new \notin disk.markers
  /\ observer.new # 0 => StartedAfter(observer.new, observer.old)
  /\ \A a \in Apps : app[a].state = "unborn" => app[a].before.apps = {}
  /\ disk.receipt <=> observer.at = "passed"

(* The script: its descriptor lies there only between its publication and    *)
(* its removal, or after the script died; it goes on without a failure only  *)
(* from an observer that passed, and an interrupt ends the observer.         *)
Scripted ==
  /\ disk.descriptor = "ours" => script.published /\ script.at \in {"consuming", "removing", "dead"}
  /\ script.interrupted => ObserverOver
  /\ script.at \in {"removing", "leaving"} /\ ~script.failed => observer.at = "passed"
  /\ script.at = "succeeded" => observer.at = "passed"
  /\ script.at = "failed" => ObserverOver

AcceptanceInv == Peopled /\ Staffed /\ Told /\ Bound /\ Scripted

-----------------------------------------------------------------------------
(* Sequences of frames *)

LEMMA ElementsAre ==
  ASSUME NEW S, NEW s \in Seq(S)
  PROVE  /\ Elements(s) \subseteq S
         /\ \A e \in S : Append(s, e) \in Seq(S) /\ Elements(Append(s, e)) = Elements(s) \cup {e}
         /\ s # <<>> => /\ Head(s) \in Elements(s) /\ Tail(s) \in Seq(S)
                        /\ Elements(Tail(s)) \subseteq Elements(s)
<1>1. DOMAIN s = 1..Len(s) /\ Len(s) \in Nat
  OBVIOUS
<1>2. Elements(s) \subseteq S
  BY <1>1 DEF Elements
<1>3. ASSUME NEW e \in S PROVE Append(s, e) \in Seq(S) /\ Elements(Append(s, e)) = Elements(s) \cup {e}
  <2>1. /\ Append(s, e) \in Seq(S) /\ DOMAIN Append(s, e) = 1..(Len(s) + 1)
        /\ \A i \in 1..Len(s) : Append(s, e)[i] = s[i]
        /\ Append(s, e)[Len(s) + 1] = e
    OBVIOUS
  <2>2. 1..(Len(s) + 1) = (1..Len(s)) \cup {Len(s) + 1}
    BY <1>1
  <2>3. ASSUME NEW a \in Elements(Append(s, e)) PROVE a \in Elements(s) \cup {e}
    <3>1. PICK i \in 1..(Len(s) + 1) : a = Append(s, e)[i]
      BY <2>1 DEF Elements
    <3> QED BY <1>1, <2>1, <2>2, <3>1 DEF Elements
  <2>4. ASSUME NEW a \in Elements(s) \cup {e} PROVE a \in Elements(Append(s, e))
    <3>1. CASE a = e
      BY <1>1, <2>1, <2>2, <3>1 DEF Elements
    <3>2. CASE a \in Elements(s)
      <4>1. PICK i \in 1..Len(s) : a = s[i]
        BY <1>1, <3>2 DEF Elements
      <4> QED BY <2>1, <2>2, <4>1 DEF Elements
    <3> QED BY <3>1, <3>2
  <2> QED BY <2>1, <2>3, <2>4
<1>4. ASSUME s # <<>> PROVE Head(s) \in Elements(s) /\ Tail(s) \in Seq(S) /\ Elements(Tail(s)) \subseteq Elements(s)
  <2>1. /\ Len(s) >= 1 /\ Head(s) = s[1] /\ Tail(s) \in Seq(S)
        /\ DOMAIN Tail(s) = 1..(Len(s) - 1)
        /\ \A i \in 1..(Len(s) - 1) : Tail(s)[i] = s[i + 1]
    BY <1>4
  <2>2. \A i \in 1..(Len(s) - 1) : i + 1 \in 1..Len(s)
    BY <1>1
  <2> QED BY <1>1, <2>1, <2>2 DEF Elements
<1> QED BY <1>2, <1>3, <1>4

LEMMA NoElements ==
  ASSUME NEW S
  PROVE  <<>> \in Seq(S) /\ Elements(<<>>) = {}
BY DEF Elements

(* A sequence of anything, and one element more. *)
Listed(s) == s \in Seq(Elements(s))

LEMMA Longer ==
  ASSUME NEW s, Listed(s), NEW e
  PROVE  /\ Listed(Append(s, e)) /\ Len(s) \in Nat /\ Len(Append(s, e)) = Len(s) + 1
         /\ DOMAIN s = 1..Len(s) /\ DOMAIN Append(s, e) = 1..(Len(s) + 1)
         /\ \A i \in 1..Len(s) : Append(s, e)[i] = s[i]
         /\ Append(s, e)[Len(s) + 1] = e
<1> DEFINE S == Elements(s) \cup {e}
           t == Append(s, e)
<1>1. s \in Seq(S)
  BY DEF Listed
<1>2. /\ t \in Seq(S) /\ Len(s) \in Nat /\ Len(t) = Len(s) + 1
      /\ DOMAIN s = 1..Len(s) /\ DOMAIN t = 1..(Len(s) + 1)
      /\ \A i \in 1..Len(s) : t[i] = s[i]
      /\ t[Len(s) + 1] = e
  BY <1>1
<1> HIDE DEF t
<1>3. t = [i \in 1..Len(t) |-> t[i]] /\ \A i \in 1..Len(t) : t[i] \in Elements(t)
  BY <1>2 DEF Elements
<1>4. Listed(t)
  BY <1>2, <1>3 DEF Listed
<1> QED BY <1>2, <1>4 DEF t

LEMMA FrameNames ==
  /\ Frames = {"hello", "requestStarted", "sdkAbort", "ownedExit", "handlerCancelled", "inFlightRemoved"}
  /\ Len(Events) = 5 /\ \A i \in 1..5 : Events[i] \in Frames
  /\ Events[3] = "ownedExit" /\ Events[4] = "handlerCancelled"
<1>1. /\ Len(Events) = 5 /\ Events[1] = "requestStarted" /\ Events[2] = "sdkAbort"
      /\ Events[3] = "ownedExit" /\ Events[4] = "handlerCancelled" /\ Events[5] = "inFlightRemoved"
  BY DEF Events
<1>2. 1..5 = {1, 2, 3, 4, 5}
  OBVIOUS
<1>3. {Events[i] : i \in 1..5} = {Events[1], Events[2], Events[3], Events[4], Events[5]}
  BY <1>2
<1> QED BY <1>1, <1>2, <1>3 DEF Frames

-----------------------------------------------------------------------------
(* What the client does to its record *)

(* Less was told: what fits it still does. *)
LEMMA Fewer ==
  ASSUME NEW x, NEW E, NEW F, F \subseteq E, Fits(x, E)
  PROVE  Fits(x, F)
BY DEF Fits

(* The fields of a request and of the process. *)
Alike(y, x) ==
  /\ y.state = x.state /\ y.asked = x.asked /\ y.loading = x.loading /\ y.request = x.request
  /\ y.agent = x.agent /\ y.reason = x.reason /\ y.status = x.status /\ y.stopped = x.stopped

LEMMA AlikeFits ==
  ASSUME NEW x, NEW y, NEW E, Alike(y, x), Fits(x, E)
  PROVE  Fits(y, E)
BY DEF Fits, Alike

(* To tell adds at most the event to the tail. *)
LEMMA TellIs ==
  ASSUME NEW x \in McpRecord, NEW event \in Frames
  PROVE  /\ Tell(x, event) \in McpRecord /\ Alike(Tell(x, event), x)
         /\ Tell(x, event).told = x.told
         /\ Elements(Tell(x, event).tail) \subseteq Elements(x.tail) \cup {event}
<1>1. x.tail \in Seq(Frames)
  BY DEF McpRecord, Tails
<1>2. Append(x.tail, event) \in Seq(Frames) /\ Elements(Append(x.tail, event)) = Elements(x.tail) \cup {event}
  BY <1>1, ElementsAre
<1> DEFINE y == Enqueue(x, event)
           longer == Append(x.tail, event)
<1>3. y \in McpRecord /\ Alike(y, x) /\ y.told = x.told /\ y.tail \in {x.tail, longer}
  <2>1. y \in {x, [x EXCEPT !.tail = longer]}
    BY DEF Enqueue
  <2>2. longer \in Seq(Frames)
    BY <1>2
  <2> HIDE DEF y, longer
  <2>3. [x EXCEPT !.tail = longer] \in McpRecord
    BY <2>2 DEF McpRecord, Tails
  <2>4. Alike([x EXCEPT !.tail = longer], x) /\ [x EXCEPT !.tail = longer].told = x.told
        /\ [x EXCEPT !.tail = longer].tail = longer
    BY DEF McpRecord, Alike
  <2> QED BY <2>1, <2>3, <2>4 DEF Alike
<1>4. Tell(x, event) \in
        {x, y, [y EXCEPT !.sink = FALSE, !.terminal = IF @ = "open" THEN "graceful" ELSE @]}
  BY DEF Tell
<1> HIDE DEF y
<1>5. ASSUME NEW z, z = [y EXCEPT !.sink = FALSE, !.terminal = IF @ = "open" THEN "graceful" ELSE @]
      PROVE  z \in McpRecord /\ Alike(z, y) /\ z.told = y.told /\ z.tail = y.tail
  <2>1. z \in McpRecord
    <3>1. PICK t \in Terminals : z = [y EXCEPT !.sink = FALSE, !.terminal = t]
      BY <1>3, <1>5 DEF McpRecord, Terminals
    <3> QED BY <1>3, <3>1 DEF McpRecord
  <2>2. Alike(z, y) /\ z.told = y.told /\ z.tail = y.tail
    BY <1>3, <1>5 DEF McpRecord, Alike
  <2> QED BY <2>1, <2>2
<1>6. y \in McpRecord /\ Alike(y, x) /\ y.told = x.told /\ y.tail \in {x.tail, Append(x.tail, event)}
  BY <1>3
<1>7. Alike(x, x)
  BY DEF Alike
<1> QED BY <1>2, <1>4, <1>5, <1>6, <1>7 DEF Alike

(* The record once the request of an attempt that is over was left. *)
Halted(z, r) ==
  [z EXCEPT !.request = r, !.agent = FALSE, !.stopped = FALSE,
            !.told = FALSE, !.reason = "none", !.status = "none"]

LEMMA HaltedIs ==
  ASSUME NEW z \in McpRecord, NEW r \in {"unobserved", "gone"}
  PROVE  Halted(z, r) \in McpRecord
<1>1. "none" \in Reasons /\ "none" \in Statuses /\ r \in Requests
  BY DEF Reasons, Statuses, Requests
<1> QED BY <1>1 DEF Halted, McpRecord

(* An attempt that is over tells nothing more.                             *)
LEMMA OverIs ==
  ASSUME NEW x \in McpRecord, NEW how \in {"failed", "ended"}
  PROVE  /\ Over(x, how) \in McpRecord /\ Over(x, how).tail = <<>>
         /\ \A E : Fits(x, E) => Fits(Over(x, how), E)
<1> DEFINE over == [x EXCEPT !.attempt = how, !.terminal = "abortive", !.tail = <<>>, !.sink = FALSE]
<1>1. over \in McpRecord /\ Alike(over, x) /\ over.tail = <<>>
  <2>1. <<>> \in Tails /\ how \in Attempts /\ "abortive" \in Terminals
    BY DEF Tails, Attempts, Terminals
  <2>2. over \in McpRecord
    BY <2>1 DEF McpRecord
  <2>3. Alike(over, x) /\ over.tail = <<>>
    BY DEF McpRecord, Alike
  <2> QED BY <2>2, <2>3
<1>2. CASE x.request \notin {"running", "ending"}
  <2>1. Over(x, how) = over
    BY <1>2 DEF Over
  <2> QED BY <1>1, <2>1, AlikeFits
<1>3. CASE x.request \in {"running", "ending"}
  <2>1. Over(x, how) =
          [over EXCEPT !.request = IF x.agent THEN "unobserved" ELSE "gone", !.agent = FALSE,
                       !.stopped = FALSE, !.told = FALSE, !.reason = "none", !.status = "none"]
    BY <1>3 DEF Over
  <2> HIDE DEF over
  <2>2. Over(x, how) \in McpRecord
    <3>1. PICK r \in {"unobserved", "gone"} : Over(x, how) = Halted(over, r)
      BY <2>1 DEF Halted
    <3> QED BY <1>1, <3>1, HaltedIs
  <2>9. Over(x, how).tail = <<>>
    BY <1>1, <2>1 DEF McpRecord
  <2>3. LET z == Over(x, how) IN
        /\ z.state = x.state /\ z.asked = x.asked /\ z.loading = x.loading
        /\ z.request = (IF x.agent THEN "unobserved" ELSE "gone") /\ ~z.agent /\ z.reason = "none"
    BY <1>1, <2>1 DEF McpRecord, Alike
  <2>4. ASSUME NEW E, Fits(x, E) PROVE Fits(Over(x, how), E)
    BY <1>3, <2>3, <2>4 DEF Fits
  <2> QED BY <2>2, <2>9, <2>4
<1> QED BY <1>2, <1>3

Starting == {"requestStarted", "sdkAbort"}

(* A delegate begins, once; nothing it may not have told is told of it.    *)
LEMMA BeginIs ==
  ASSUME NEW x \in McpRecord, x.request = "none", x.loading = "none", "delegate" \in x.asked
  PROVE  /\ Begin(x) \in McpRecord
         /\ Elements(Begin(x).tail) \subseteq Elements(x.tail) \cup Starting
         /\ \A E : Fits(x, E) => Fits(Begin(x), E \cup Starting)
<1> DEFINE begun == [x EXCEPT !.request = "running", !.sink = TRUE, !.agent = ~x.stopped,
                              !.status = IF x.stopped THEN "cancelled" ELSE @]
           started == Tell(begun, "requestStarted")
           aborted == Tell(started, "sdkAbort")
           turned == [x EXCEPT !.request = "gone"]
           told == [aborted EXCEPT !.told = TRUE]
<1>1. {"requestStarted", "sdkAbort"} \subseteq Frames
  BY FrameNames
<1>2. /\ begun \in McpRecord /\ begun.tail = x.tail /\ begun.state = x.state /\ begun.asked = x.asked
      /\ begun.loading = x.loading /\ begun.request = "running" /\ begun.reason = x.reason
      /\ begun.stopped = x.stopped
  <2>1. (~x.stopped) \in BOOLEAN /\ "running" \in Requests /\ "cancelled" \in Statuses
    BY DEF Requests, Statuses
  <2> QED BY <2>1 DEF McpRecord
<1>3. ASSUME NEW E, Fits(x, E) PROVE Fits(begun, E \cup Starting)
  <2> HIDE DEF begun
  <2> QED BY <1>2, <1>3 DEF Fits, Starting
<1> HIDE DEF begun
<1>4. started \in McpRecord /\ Alike(started, begun) /\ Elements(started.tail) \subseteq Elements(x.tail) \cup Starting
  BY <1>1, <1>2, TellIs DEF Starting
<1> HIDE DEF started
<1>5. aborted \in McpRecord /\ Alike(aborted, begun) /\ Elements(aborted.tail) \subseteq Elements(x.tail) \cup Starting
  <2>1. aborted \in McpRecord /\ Alike(aborted, started)
        /\ Elements(aborted.tail) \subseteq Elements(started.tail) \cup {"sdkAbort"}
    BY <1>1, <1>4, TellIs
  <2> HIDE DEF aborted
  <2> QED BY <1>4, <2>1 DEF Starting, Alike
<1> HIDE DEF aborted
<1>6. told \in McpRecord /\ Alike(told, begun) /\ told.tail = aborted.tail
  BY <1>5 DEF McpRecord, Alike
<1>7. turned \in McpRecord /\ turned.tail = x.tail /\ \A E : Fits(x, E) => Fits(turned, E \cup Starting)
  <2>1. /\ turned \in McpRecord /\ turned.tail = x.tail /\ turned.state = x.state /\ turned.asked = x.asked
        /\ turned.loading = x.loading /\ turned.request = "gone" /\ turned.reason = x.reason
        /\ turned.stopped = x.stopped /\ turned.agent = x.agent
    BY DEF McpRecord, Requests
  <2> HIDE DEF turned
  <2> QED BY <2>1 DEF Fits, Starting
<1>8. Begin(x) \in {turned, told, started}
  BY DEF Begin, begun, started, aborted
<1> HIDE DEF told, turned
<1> QED BY <1>3, <1>4, <1>5, <1>6, <1>7, <1>8, AlikeFits

(* The signal of the request is aborted: its agent, if any, is told why.    *)
LEMMA CancelledIs ==
  ASSUME NEW x \in McpRecord, NEW why \in {"cancelled", "session_shutdown"}
  PROVE  /\ Cancelled(x, why) \in McpRecord
         /\ Elements(Cancelled(x, why).tail) \subseteq Elements(x.tail) \cup {"sdkAbort"}
         /\ \E y \in {x, [x EXCEPT !.reason = why]} : Alike(Cancelled(x, why), y) /\ (y # x => x.agent)
<1> DEFINE reasoned == IF x.agent /\ x.reason = "none" THEN [x EXCEPT !.reason = why] ELSE x
           aborted == Tell(reasoned, "sdkAbort")
           told == [aborted EXCEPT !.told = TRUE]
<1>1. /\ reasoned \in McpRecord /\ reasoned.tail = x.tail
      /\ reasoned \in {x, [x EXCEPT !.reason = why]} /\ (reasoned # x => x.agent)
  BY DEF McpRecord, Reasons
<1> HIDE DEF reasoned
<1>2. aborted \in McpRecord /\ Alike(aborted, reasoned) /\ Elements(aborted.tail) \subseteq Elements(x.tail) \cup {"sdkAbort"}
  BY <1>1, TellIs, FrameNames
<1> HIDE DEF aborted
<1>3. told \in McpRecord /\ Alike(told, reasoned) /\ told.tail = aborted.tail
  BY <1>2 DEF McpRecord, Alike
<1>4. Cancelled(x, why) \in {told, reasoned}
  BY DEF Cancelled, reasoned, aborted
<1> HIDE DEF told
<1>5. Alike(reasoned, reasoned)
  BY DEF Alike
<1> QED BY <1>1, <1>2, <1>3, <1>4, <1>5

-----------------------------------------------------------------------------
(* Steps of the processes *)

(* A step that changes the record of one process to y, tells at most the    *)
(* frames of N, and may connect it to a pipe in which nothing is.           *)
LEMMA OneMoves ==
  ASSUME Peopled, Told, NEW m \in Mcps, NEW y \in McpRecord, NEW N,
         mcp' = [mcp EXCEPT ![m] = y], app' = app, observer' = observer,
         pipe' \in PipeRecord, pipe'.buffer = pipe.buffer,
         pipe'.peer # pipe.peer => pipe'.peer = m /\ pipe.buffer = <<>>,
         Elements(y.tail) \subseteq Elements(mcp[m].tail) \cup N,
         Fits(y, Trail(m) \cup N)
  PROVE  Peopled' /\ Told'
<1>1. Peopled'
  BY DEF Peopled
<1>2. /\ mcp'[m] = y /\ \A k \in Mcps : k # m => mcp'[k] = mcp[k]
      /\ Elements(<<>>) = {}
  BY DEF Peopled, Elements
<1>3. Trail(m)' \subseteq Trail(m) \cup N
  BY <1>2 DEF Trail, Heard
<1>4. ASSUME NEW k \in Mcps, k # m PROVE Trail(k)' \subseteq Trail(k)
  BY <1>2, <1>4 DEF Trail, Heard
<1>5. Fits(mcp'[m], Trail(m)')
  BY <1>2, <1>3, Fewer
<1>6. ASSUME NEW k \in Mcps, k # m PROVE Fits(mcp'[k], Trail(k)')
  <2>1. Fits(mcp[k], Trail(k)')
    BY <1>4, <1>6, Fewer DEF Told
  <2> QED BY <1>2, <1>6, <2>1
<1>7. \A k \in Mcps : Fits(mcp'[k], Trail(k)')
  BY <1>5, <1>6
<1> QED BY <1>1, <1>7 DEF Told

(* The same for a step that leaves the pipe alone. *)
LEMMA OneMovesAlone ==
  ASSUME Peopled, Told, NEW m \in Mcps, NEW y \in McpRecord, NEW N,
         mcp' = [mcp EXCEPT ![m] = y], UNCHANGED <<app, observer, pipe>>,
         Elements(y.tail) \subseteq Elements(mcp[m].tail) \cup N,
         Fits(y, Trail(m) \cup N)
  PROVE  Peopled' /\ Told'
<1>1. pipe' \in PipeRecord /\ pipe'.buffer = pipe.buffer /\ pipe'.peer = pipe.peer
  BY DEF Peopled
<1> QED BY <1>1, OneMoves

LEMMA TailTyped ==
  ASSUME Peopled, NEW m \in Mcps
  PROVE  mcp[m] \in McpRecord /\ mcp[m].tail \in Seq(Frames)
BY DEF Peopled, McpRecord, Tails

LEMMA McpStartsMoves ==
  ASSUME AcceptanceInv, NEW m \in Mcps, McpStarts(m)
  PROVE  Peopled' /\ Told'
<1> USE DEF AcceptanceInv
<1> DEFINE y == [mcp[m] EXCEPT !.state = "running"]
<1>1. mcp' = [mcp EXCEPT ![m] = y] /\ UNCHANGED <<app, observer, pipe>> /\ mcp[m].state = "unborn"
  BY DEF McpStarts
<1>2. y \in McpRecord /\ y.tail = mcp[m].tail
  BY TailTyped DEF McpRecord, McpStates
<1>3. Fits(mcp[m], Trail(m))
  BY DEF Told
<1>4. Fits(y, Trail(m) \cup {})
  BY <1>1, <1>3, TailTyped DEF Fits, McpRecord
<1> HIDE DEF y
<1> QED BY <1>1, <1>2, <1>4, OneMovesAlone

LEMMA AskMoves ==
  ASSUME AcceptanceInv, NEW m \in Mcps, NEW task \in {"review", "delegate"}, Ask(m, task)
  PROVE  Peopled' /\ Told'
<1> USE DEF AcceptanceInv
<1> DEFINE y == [mcp[m] EXCEPT !.loading = task, !.asked = @ \cup {task}]
<1>1. /\ mcp' = [mcp EXCEPT ![m] = y] /\ UNCHANGED <<app, observer, pipe>>
      /\ mcp[m].state = "running" /\ task \notin mcp[m].asked
  BY DEF Ask
<1>2. y \in McpRecord /\ y.tail = mcp[m].tail
  BY TailTyped DEF McpRecord, Tasks
<1>3. Fits(mcp[m], Trail(m))
  BY DEF Told
<1>4. /\ y.state = mcp[m].state /\ y.asked = mcp[m].asked \cup {task} /\ y.loading = task
      /\ y.request = mcp[m].request /\ y.agent = mcp[m].agent /\ y.reason = mcp[m].reason
      /\ y.status = mcp[m].status /\ y.stopped = mcp[m].stopped
  BY TailTyped DEF McpRecord
<1> HIDE DEF y
<1>5. Fits(y, Trail(m) \cup {})
  BY <1>1, <1>3, <1>4 DEF Fits
<1> QED BY <1>1, <1>2, <1>5, OneMovesAlone

(* The pipe after the end of one side of it. *)
LEMMA HangupIs ==
  ASSUME Peopled, NEW m
  PROVE  Hangup(m) \in PipeRecord /\ Hangup(m).buffer = pipe.buffer /\ Hangup(m).peer = pipe.peer
BY DEF Hangup, Peopled, PipeRecord

LEMMA McpExitsMoves ==
  ASSUME AcceptanceInv, NEW m \in Mcps, McpExits(m)
  PROVE  Peopled' /\ Told'
<1> USE DEF AcceptanceInv
<1> DEFINE x == [mcp[m] EXCEPT !.agent = FALSE]
           z == Over(x, "ended")
           y == [z EXCEPT !.state = "gone", !.asked = {}, !.loading = "none"]
<1>1. mcp' = [mcp EXCEPT ![m] = y] /\ UNCHANGED <<app, observer>> /\ pipe' = Hangup(m)
  BY DEF McpExits
<1>2. Fits(mcp[m], Trail(m))
  BY DEF Told
<1>3. /\ x.state = mcp[m].state /\ x.asked = mcp[m].asked /\ x.loading = mcp[m].loading
      /\ x.request = mcp[m].request /\ x.agent = FALSE /\ x.reason = mcp[m].reason
      /\ x.status = mcp[m].status /\ x.stopped = mcp[m].stopped
      /\ x \in McpRecord
  BY TailTyped DEF McpRecord
<1> HIDE DEF x
<1>4. Fits(x, Trail(m))
  BY <1>2, <1>3 DEF Fits
<1>5. z \in McpRecord /\ z.tail = <<>> /\ Fits(z, Trail(m))
  BY <1>3, <1>4, OverIs
<1> HIDE DEF z
<1>6. /\ y.state = "gone" /\ y.loading = "none" /\ y.tail = <<>>
      /\ y.request = z.request /\ y.agent = z.agent /\ y.reason = z.reason
      /\ y.status = z.status /\ y.stopped = z.stopped
      /\ y \in McpRecord
  BY <1>5 DEF McpRecord, McpStates
<1> HIDE DEF y
<1>7. Fits(y, Trail(m) \cup {})
  BY <1>5, <1>6 DEF Fits
<1>8. Elements(y.tail) = {}
  BY <1>6 DEF Elements
<1> QED BY <1>1, <1>6, <1>7, <1>8, HangupIs, OneMoves

LEMMA LoadedMoves ==
  ASSUME AcceptanceInv, NEW m \in Mcps, Loaded(m)
  PROVE  Peopled' /\ Told'
<1> USE DEF AcceptanceInv
<1> DEFINE x == [mcp[m] EXCEPT !.loading = "none"]
           hello == [x EXCEPT !.attempt = "connecting", !.tail = <<"hello">>]
           attempting == IF Found /\ x.attempt = "none" THEN hello ELSE x
           claimed == [attempting EXCEPT !.claimed = TRUE]
           alone == [attempting EXCEPT !.request = "unobserved"]
<1>1. Fits(mcp[m], Trail(m)) /\ mcp[m] \in McpRecord
  BY TailTyped DEF Told
<1>2. /\ x.state = mcp[m].state /\ x.asked = mcp[m].asked /\ x.loading = "none"
      /\ x.request = mcp[m].request /\ x.agent = mcp[m].agent /\ x.reason = mcp[m].reason
      /\ x.status = mcp[m].status /\ x.stopped = mcp[m].stopped /\ x.tail = mcp[m].tail
      /\ x \in McpRecord
  BY <1>1 DEF McpRecord
<1>3. \E y : mcp' = [mcp EXCEPT ![m] = y] /\
        \/ y = attempting /\ mcp[m].loading = "review"
        \/ y = Begin(claimed) /\ mcp[m].loading # "review"
        \/ y = alone /\ mcp[m].loading # "review"
  BY DEF Loaded
<1>4. mcp[m].loading # "none" /\ mcp[m].loading \in {"review", "delegate", "none"}
  BY <1>1 DEF Loaded, McpRecord, Tasks
<1>5. mcp[m].loading = "delegate" => x.request = "none" /\ "delegate" \in x.asked
  BY <1>1, <1>2, <1>4 DEF Fits
<1> HIDE DEF x
<1>6. <<"hello">> \in Tails /\ Elements(<<"hello">>) = {"hello"}
  <2>1. "hello" \in Frames
    BY FrameNames
  <2> QED BY <2>1 DEF Tails, Elements
<1>7. hello \in McpRecord /\ Alike(hello, x) /\ hello.tail = <<"hello">>
  BY <1>2, <1>6 DEF McpRecord, Alike, Attempts
<1> HIDE DEF hello
<1>8. /\ attempting \in McpRecord /\ Alike(attempting, x)
      /\ Elements(attempting.tail) \subseteq Elements(mcp[m].tail) \cup {"hello"}
  BY <1>2, <1>6, <1>7 DEF Alike
<1> HIDE DEF attempting
<1>9. Fits(x, Trail(m)) /\ Fits(attempting, Trail(m))
  <2>1. Fits(x, Trail(m))
    BY <1>1, <1>2 DEF Fits
  <2> QED BY <1>8, <2>1, AlikeFits
<1>10. claimed \in McpRecord /\ Alike(claimed, attempting) /\ claimed.tail = attempting.tail
  BY <1>8 DEF McpRecord, Alike
<1> HIDE DEF claimed
<1>11. mcp[m].loading = "delegate" =>
         /\ Begin(claimed) \in McpRecord /\ Fits(Begin(claimed), Trail(m) \cup Starting)
         /\ Elements(Begin(claimed).tail) \subseteq Elements(mcp[m].tail) \cup ({"hello"} \cup Starting)
  <2> SUFFICES ASSUME mcp[m].loading = "delegate"
               PROVE  /\ Begin(claimed) \in McpRecord /\ Fits(Begin(claimed), Trail(m) \cup Starting)
                      /\ Elements(Begin(claimed).tail) \subseteq Elements(mcp[m].tail) \cup ({"hello"} \cup Starting)
    OBVIOUS
  <2>1. claimed.request = "none" /\ claimed.loading = "none" /\ "delegate" \in claimed.asked
    BY <1>2, <1>5, <1>8, <1>10 DEF Alike
  <2>2. Fits(claimed, Trail(m))
    BY <1>9, <1>10, AlikeFits
  <2>3. /\ Begin(claimed) \in McpRecord
        /\ Elements(Begin(claimed).tail) \subseteq Elements(claimed.tail) \cup Starting
        /\ Fits(Begin(claimed), Trail(m) \cup Starting)
    BY <1>10, <2>1, <2>2, BeginIs
  <2> QED BY <1>8, <1>10, <2>3
<1>12. mcp[m].loading = "delegate" => alone \in McpRecord /\ Fits(alone, Trail(m)) /\ alone.tail = attempting.tail
  <2> SUFFICES ASSUME mcp[m].loading = "delegate"
               PROVE  alone \in McpRecord /\ Fits(alone, Trail(m)) /\ alone.tail = attempting.tail
    OBVIOUS
  <2>1. /\ alone \in McpRecord /\ alone.tail = attempting.tail
        /\ alone.state = x.state /\ alone.asked = x.asked /\ alone.loading = "none"
        /\ alone.request = "unobserved" /\ alone.agent = x.agent /\ alone.reason = x.reason
        /\ alone.stopped = x.stopped
    BY <1>2, <1>8 DEF McpRecord, Requests, Alike
  <2> HIDE DEF alone
  <2>2. Fits(alone, Trail(m))
    BY <1>5, <1>9, <2>1 DEF Fits
  <2> QED BY <2>1, <2>2
<1> DEFINE N == {"hello"} \cup Starting
<1> HIDE DEF alone
<1>14. /\ Fits(attempting, Trail(m) \cup N)
       /\ mcp[m].loading = "delegate" =>
            Fits(Begin(claimed), Trail(m) \cup N) /\ Fits(alone, Trail(m) \cup N)
  <2>1. \A y : Fits(y, Trail(m)) \/ Fits(y, Trail(m) \cup Starting) => Fits(y, Trail(m) \cup N)
    BY DEF Fits, Starting
  <2> QED BY <1>9, <1>11, <1>12, <2>1
<1>15. PICK y \in McpRecord : /\ mcp' = [mcp EXCEPT ![m] = y] /\ Fits(y, Trail(m) \cup N)
                              /\ Elements(y.tail) \subseteq Elements(mcp[m].tail) \cup N
  BY <1>3, <1>4, <1>8, <1>11, <1>12, <1>14
<1>16. UNCHANGED <<app, observer, pipe>>
  BY DEF Loaded
<1> HIDE DEF N
<1> QED BY <1>15, <1>16, OneMovesAlone

LEMMA ConnectMoves ==
  ASSUME AcceptanceInv, NEW m \in Mcps, Connect(m)
  PROVE  Peopled' /\ Told'
<1> USE DEF AcceptanceInv
<1> DEFINE open == [mcp[m] EXCEPT !.attempt = "open"]
           over == Over(mcp[m], "ended")
<1>1. Fits(mcp[m], Trail(m)) /\ mcp[m] \in McpRecord
  BY TailTyped DEF Told
<1>2. open \in McpRecord /\ open.tail = mcp[m].tail /\ Alike(open, mcp[m])
  BY <1>1 DEF McpRecord, Attempts, Alike
<1>3. over \in McpRecord /\ over.tail = <<>> /\ Fits(over, Trail(m))
  BY <1>1, OverIs
<1>4. pipe.peer = 0 /\ pipe.buffer = <<>> /\ UNCHANGED <<app, observer>>
  BY DEF Connect, Bound
<1>5. pipe' \in PipeRecord /\ pipe'.buffer = pipe.buffer /\ pipe'.peer = m
  BY DEF Connect, Peopled, PipeRecord
<1>6. mcp' = [mcp EXCEPT ![m] = open] \/ mcp' = [mcp EXCEPT ![m] = over]
  BY DEF Connect
<1> HIDE DEF open, over
<1>7. Fits(open, Trail(m) \cup {}) /\ Fits(over, Trail(m) \cup {})
  BY <1>1, <1>2, <1>3, AlikeFits
<1>8. Elements(over.tail) = {}
  BY <1>3 DEF Elements
<1>9. CASE mcp' = [mcp EXCEPT ![m] = open]
  BY <1>2, <1>4, <1>5, <1>7, <1>9, OneMoves
<1>10. CASE mcp' = [mcp EXCEPT ![m] = over]
  BY <1>3, <1>4, <1>5, <1>7, <1>8, <1>10, OneMoves
<1> QED BY <1>6, <1>9, <1>10

LEMMA ConnectFailsMoves ==
  ASSUME AcceptanceInv, NEW m \in Mcps, ConnectFails(m)
  PROVE  Peopled' /\ Told'
<1> USE DEF AcceptanceInv
<1> DEFINE over == Over(mcp[m], "failed")
<1>1. Fits(mcp[m], Trail(m)) /\ mcp[m] \in McpRecord
  BY TailTyped DEF Told
<1>2. over \in McpRecord /\ over.tail = <<>> /\ Fits(over, Trail(m) \cup {})
  BY <1>1, OverIs
<1>3. mcp' = [mcp EXCEPT ![m] = over] /\ UNCHANGED <<app, observer, pipe>>
  BY DEF ConnectFails
<1> HIDE DEF over
<1>4. Elements(over.tail) = {}
  BY <1>2 DEF Elements
<1> QED BY <1>2, <1>3, <1>4, OneMovesAlone

(* A frame goes from the tail into the pipe, or the attempt is over.       *)
LEMMA WriteMoves ==
  ASSUME AcceptanceInv, NEW m \in Mcps, Write(m)
  PROVE  Peopled' /\ Told'
<1> USE DEF AcceptanceInv
<1>1. Fits(mcp[m], Trail(m)) /\ mcp[m] \in McpRecord /\ mcp[m].tail \in Seq(Frames)
  BY TailTyped DEF Told
<1>2. CASE mcp[m].tail # <<>> /\ mcp[m].terminal # "abortive" /\ pipe.peer = m
  <2> DEFINE y == [mcp[m] EXCEPT !.tail = Tail(@)]
             frame == Head(mcp[m].tail)
  <2>1. /\ mcp' = [mcp EXCEPT ![m] = y] /\ pipe' = [pipe EXCEPT !.buffer = Append(@, frame)]
        /\ UNCHANGED <<app, observer>>
    BY <1>2 DEF Write
  <2>2. /\ frame \in Elements(mcp[m].tail) /\ Tail(mcp[m].tail) \in Seq(Frames)
        /\ Elements(Tail(mcp[m].tail)) \subseteq Elements(mcp[m].tail) /\ frame \in Frames
    BY <1>1, <1>2, ElementsAre
  <2>3. y \in McpRecord /\ y.tail = Tail(mcp[m].tail) /\ Alike(y, mcp[m])
    BY <1>1, <2>2 DEF McpRecord, Tails, Alike
  <2>4. pipe.buffer \in Seq(Frames) /\ pipe \in PipeRecord
    BY DEF Peopled, PipeRecord
  <2> HIDE DEF y, frame
  <2>5. Append(pipe.buffer, frame) \in Seq(Frames)
        /\ Elements(Append(pipe.buffer, frame)) = Elements(pipe.buffer) \cup {frame}
    BY <2>2, <2>4, ElementsAre
  <2>6. pipe' \in PipeRecord /\ pipe'.peer = m /\ pipe'.buffer = Append(pipe.buffer, frame)
    BY <1>2, <2>1, <2>4, <2>5 DEF PipeRecord
  <2>7. mcp'[m] = y /\ \A k \in Mcps : k # m => mcp'[k] = mcp[k]
    BY <2>1 DEF Peopled
  <2>8. Peopled'
    BY <2>1, <2>3, <2>6 DEF Peopled
  <2>9. Trail(m)' \subseteq Trail(m)
    BY <1>2, <2>1, <2>2, <2>3, <2>5, <2>6, <2>7 DEF Trail, Heard
  <2>10. ASSUME NEW k \in Mcps, k # m PROVE Trail(k)' \subseteq Trail(k)
    BY <1>2, <2>1, <2>6, <2>7, <2>10 DEF Trail, Heard
  <2>11. Fits(mcp'[m], Trail(m)')
    BY <1>1, <2>3, <2>7, <2>9, Fewer, AlikeFits
  <2>12. ASSUME NEW k \in Mcps PROVE Fits(mcp'[k], Trail(k)')
    <3>1. CASE k = m
      BY <2>11, <3>1
    <3>2. CASE k # m
      <4>1. Fits(mcp[k], Trail(k)')
        BY <2>10, <3>2, Fewer DEF Told
      <4> QED BY <2>7, <3>2, <4>1
    <3> QED BY <3>1, <3>2
  <2> QED BY <2>8, <2>12 DEF Told
<1>3. CASE ~(mcp[m].tail # <<>> /\ mcp[m].terminal # "abortive" /\ pipe.peer = m)
  <2> DEFINE over == Over(mcp[m], "ended")
  <2>1. over \in McpRecord /\ over.tail = <<>> /\ Fits(over, Trail(m) \cup {})
    BY <1>1, OverIs
  <2>2. mcp' = [mcp EXCEPT ![m] = over] /\ UNCHANGED <<app, observer>> /\ pipe' = Hangup(m)
    BY <1>3 DEF Write
  <2> HIDE DEF over
  <2>3. Elements(over.tail) = {}
    BY <2>1 DEF Elements
  <2> QED BY <2>1, <2>2, <2>3, HangupIs, OneMoves
<1> QED BY <1>2, <1>3

LEMMA ShutdownMoves ==
  ASSUME AcceptanceInv, NEW m \in Mcps, Shutdown(m)
  PROVE  Peopled' /\ Told'
<1> USE DEF AcceptanceInv
<1> DEFINE y == [mcp[m] EXCEPT !.terminal = "abortive"]
<1>1. Fits(mcp[m], Trail(m)) /\ mcp[m] \in McpRecord
  BY TailTyped DEF Told
<1>2. y \in McpRecord /\ y.tail = mcp[m].tail /\ Alike(y, mcp[m])
  BY <1>1 DEF McpRecord, Terminals, Alike
<1>3. mcp' = [mcp EXCEPT ![m] = y] /\ UNCHANGED <<app, observer, pipe>>
  BY DEF Shutdown
<1> HIDE DEF y
<1>4. Fits(y, Trail(m) \cup {})
  BY <1>1, <1>2, AlikeFits
<1> QED BY <1>2, <1>3, <1>4, OneMovesAlone

(* Stop and the close of the session; only Stop gives the reason the         *)
(* receipt is about.                                                        *)
LEMMA StopMoves ==
  ASSUME AcceptanceInv, NEW m \in Mcps, Stop(m)
  PROVE  Peopled' /\ Told'
<1> USE DEF AcceptanceInv
<1> DEFINE x == mcp[m]
           z == Cancelled(x, "cancelled")
           y == [z EXCEPT !.stopped = TRUE]
<1>1. Fits(x, Trail(m)) /\ x \in McpRecord
  BY TailTyped DEF Told
<1>2. mcp' = [mcp EXCEPT ![m] = y] /\ UNCHANGED <<app, observer, pipe>>
  BY DEF Stop
<1> HIDE DEF x
<1>3. /\ z \in McpRecord /\ Elements(z.tail) \subseteq Elements(x.tail) \cup {"sdkAbort"}
      /\ \E w \in {x, [x EXCEPT !.reason = "cancelled"]} : Alike(z, w) /\ (w # x => x.agent)
  BY <1>1, CancelledIs
<1>4. /\ z.state = x.state /\ z.asked = x.asked /\ z.loading = x.loading /\ z.request = x.request
      /\ z.agent = x.agent /\ z.status = x.status
      /\ z.reason = x.reason \/ (x.agent /\ z.reason = "cancelled")
  BY <1>1, <1>3 DEF Alike, McpRecord
<1> HIDE DEF z
<1>5. /\ y \in McpRecord /\ y.tail = z.tail /\ y.stopped
      /\ y.state = z.state /\ y.asked = z.asked /\ y.loading = z.loading /\ y.request = z.request
      /\ y.agent = z.agent /\ y.status = z.status /\ y.reason = z.reason
  BY <1>3 DEF McpRecord
<1> HIDE DEF y
<1>6. Fits(y, Trail(m) \cup {"sdkAbort"})
  BY <1>1, <1>4, <1>5 DEF Fits
<1> QED BY <1>2, <1>3, <1>5, <1>6, OneMovesAlone DEF x

LEMMA SessionClosesMoves ==
  ASSUME AcceptanceInv, NEW m \in Mcps, SessionCloses(m)
  PROVE  Peopled' /\ Told'
<1> USE DEF AcceptanceInv
<1> DEFINE x == mcp[m]
           z == Cancelled(x, "session_shutdown")
           y == [z EXCEPT !.state = "closing"]
<1>1. Fits(x, Trail(m)) /\ x \in McpRecord
  BY TailTyped DEF Told
<1>2. mcp' = [mcp EXCEPT ![m] = y] /\ UNCHANGED <<app, observer, pipe>> /\ x.state = "running"
  BY DEF SessionCloses
<1> HIDE DEF x
<1>3. /\ z \in McpRecord /\ Elements(z.tail) \subseteq Elements(x.tail) \cup {"sdkAbort"}
      /\ \E w \in {x, [x EXCEPT !.reason = "session_shutdown"]} : Alike(z, w) /\ (w # x => x.agent)
  BY <1>1, CancelledIs
<1>4. /\ z.state = x.state /\ z.asked = x.asked /\ z.loading = x.loading /\ z.request = x.request
      /\ z.agent = x.agent /\ z.status = x.status /\ z.stopped = x.stopped
      /\ z.reason = x.reason \/ (x.agent /\ z.reason = "session_shutdown")
  BY <1>1, <1>3 DEF Alike, McpRecord
<1> HIDE DEF z
<1>5. /\ y \in McpRecord /\ y.tail = z.tail /\ y.stopped = z.stopped
      /\ y.state = "closing" /\ y.asked = z.asked /\ y.loading = z.loading /\ y.request = z.request
      /\ y.agent = z.agent /\ y.status = z.status /\ y.reason = z.reason
  BY <1>3 DEF McpRecord, McpStates
<1> HIDE DEF y
<1>6. Fits(y, Trail(m) \cup {"sdkAbort"})
  BY <1>1, <1>2, <1>4, <1>5 DEF Fits
<1> QED BY <1>2, <1>3, <1>5, <1>6, OneMovesAlone DEF x

(* The end of an agent, told or not. *)
Ended(x, status) == [x EXCEPT !.agent = FALSE, !.request = "ending", !.status = status]

LEMMA EndingIs ==
  ASSUME NEW x \in McpRecord, NEW status \in Statuses, NEW E, Fits(x, E), x.agent,
         NEW z, z = Ended(x, status)
  PROVE  /\ z \in McpRecord /\ z.tail = x.tail /\ z.reason = x.reason /\ Fits(z, E)
         /\ status = "failed" \/ x.reason = "cancelled" => Fits(z, E \cup {"ownedExit"})
<1>1. /\ z \in McpRecord /\ z.tail = x.tail /\ z.stopped = x.stopped
      /\ z.state = x.state /\ z.asked = x.asked /\ z.loading = x.loading /\ z.request = "ending"
      /\ z.agent = FALSE /\ z.status = status /\ z.reason = x.reason
  BY DEF McpRecord, Requests, Ended
<1> QED BY <1>1 DEF Fits

LEMMA AgentEndsMoves ==
  ASSUME AcceptanceInv, NEW m \in Mcps, AgentEnds(m) \/ AgentTerminated(m)
  PROVE  Peopled' /\ Told'
<1> USE DEF AcceptanceInv
<1>1. Fits(mcp[m], Trail(m)) /\ mcp[m] \in McpRecord /\ mcp[m].agent
  BY TailTyped DEF Told, AgentEnds, AgentTerminated
<1>2. "ownedExit" \in Frames
  BY FrameNames
<1>3. UNCHANGED <<app, observer, pipe>>
  BY DEF AgentEnds, AgentTerminated
<1>9. PICK status \in Statuses : \E z :
        /\ z = Ended(mcp[m], status)
        /\ \/ mcp' = [mcp EXCEPT ![m] = z]
           \/ mcp' = [mcp EXCEPT ![m] = Tell(z, "ownedExit")] /\ (status = "failed" \/ z.reason = "cancelled")
  BY DEF AgentEnds, AgentTerminated, Statuses, Ended
<1>4. PICK z :
        /\ z = Ended(mcp[m], status)
        /\ \/ mcp' = [mcp EXCEPT ![m] = z]
           \/ mcp' = [mcp EXCEPT ![m] = Tell(z, "ownedExit")] /\ (status = "failed" \/ z.reason = "cancelled")
  BY <1>9
<1>5. /\ z \in McpRecord /\ z.tail = mcp[m].tail /\ z.reason = mcp[m].reason /\ Fits(z, Trail(m) \cup {})
      /\ status = "failed" \/ z.reason = "cancelled" => Fits(z, Trail(m) \cup {"ownedExit"})
  <2>1. z = Ended(mcp[m], status)
    BY <1>4
  <2>2. /\ z \in McpRecord /\ z.tail = mcp[m].tail /\ z.reason = mcp[m].reason /\ Fits(z, Trail(m))
        /\ status = "failed" \/ mcp[m].reason = "cancelled" => Fits(z, Trail(m) \cup {"ownedExit"})
    BY <1>1, <2>1, EndingIs
  <2>3. Trail(m) \cup {} = Trail(m)
    OBVIOUS
  <2> QED BY <2>2, <2>3
<1> DEFINE y == Tell(z, "ownedExit")
<1>6. y \in McpRecord /\ Alike(y, z) /\ Elements(y.tail) \subseteq Elements(mcp[m].tail) \cup {"ownedExit"}
  BY <1>2, <1>5, TellIs
<1> HIDE DEF y
<1>7. CASE mcp' = [mcp EXCEPT ![m] = z]
  BY <1>3, <1>5, <1>7, OneMovesAlone
<1>8. CASE mcp' = [mcp EXCEPT ![m] = y] /\ (status = "failed" \/ z.reason = "cancelled")
  <2>1. Fits(y, Trail(m) \cup {"ownedExit"})
    BY <1>5, <1>6, <1>8, AlikeFits
  <2> QED BY <1>3, <1>6, <1>8, <2>1, OneMovesAlone
<1> QED BY <1>4, <1>7, <1>8 DEF y

(* The end of the handler is told of a cancelled run only; what was told of  *)
(* its agent before, if anything, was then told for that reason.            *)
LEMMA SettleMoves ==
  ASSUME AcceptanceInv, NEW m \in Mcps, Settle(m)
  PROVE  Peopled' /\ Told'
<1> USE DEF AcceptanceInv
<1> DEFINE x == mcp[m]
           ended == IF x.status = "cancelled" THEN Tell(x, "handlerCancelled") ELSE x
           removed == Tell(ended, "inFlightRemoved")
           y == [removed EXCEPT !.request = "gone"]
           N == {"inFlightRemoved"} \cup (IF x.status = "cancelled" THEN {"handlerCancelled"} ELSE {})
<1>1. Fits(x, Trail(m)) /\ x \in McpRecord
  BY TailTyped DEF Told
<1>2. /\ mcp' = [mcp EXCEPT ![m] = y] /\ UNCHANGED <<app, observer, pipe>>
      /\ x.request \in {"running", "ending"} /\ ~x.agent
  BY DEF Settle
<1> HIDE DEF x
<1>3. {"handlerCancelled", "inFlightRemoved"} \subseteq Frames /\ Alike(x, x)
  BY FrameNames DEF Alike
<1>4. ended \in McpRecord /\ Alike(ended, x) /\ Elements(ended.tail) \subseteq Elements(x.tail) \cup N
  BY <1>1, <1>3, TellIs
<1> HIDE DEF ended
<1>5. /\ removed \in McpRecord /\ Alike(removed, ended)
      /\ Elements(removed.tail) \subseteq Elements(ended.tail) \cup {"inFlightRemoved"}
  BY <1>3, <1>4, TellIs
<1> HIDE DEF removed
<1>6. /\ y \in McpRecord /\ y.tail = removed.tail
      /\ y.state = x.state /\ y.asked = x.asked /\ y.loading = x.loading /\ y.request = "gone"
      /\ y.agent = x.agent /\ y.status = x.status /\ y.reason = x.reason /\ y.stopped = x.stopped
  BY <1>4, <1>5 DEF McpRecord, Requests, Alike
<1> HIDE DEF y
<1>7. Fits(y, Trail(m) \cup N)
  BY <1>1, <1>2, <1>6 DEF Fits
<1>8. Elements(y.tail) \subseteq Elements(mcp[m].tail) \cup N
  BY <1>4, <1>5, <1>6 DEF x
<1> HIDE DEF N
<1> QED BY <1>2, <1>6, <1>7, <1>8, OneMovesAlone DEF x

(* What a process does changes its record and at most the end of the pipe.  *)
LEMMA AsideHolds ==
  ASSUME AcceptanceInv, Peopled', Told', UNCHANGED <<app, observer, script, lines, disk>>,
         pipe'.peer = 0 => pipe'.buffer = <<>>,
         observer.at = "observing" => pipe'.peer = pipe.peer
  PROVE  AcceptanceInv'
<1>1. Staffed' /\ Scripted'
  BY DEF AcceptanceInv, Staffed, Scripted, ObserverOver
<1>2. Bound'
  BY DEF AcceptanceInv, Bound, StartedAfter
<1> QED BY <1>1, <1>2 DEF AcceptanceInv

ProcessStep(m) ==
  \/ ClientSteps(m) \/ RequestSteps(m) \/ HostSteps(m) \/ AgentEnds(m)

LEMMA ProcessHolds ==
  ASSUME AcceptanceInv, NEW m \in Mcps, ProcessStep(m)
  PROVE  AcceptanceInv'
<1>1. Peopled' /\ Told'
  BY McpStartsMoves, AskMoves, McpExitsMoves, LoadedMoves, ConnectMoves, ConnectFailsMoves,
     WriteMoves, ShutdownMoves, StopMoves, SessionClosesMoves, AgentEndsMoves, SettleMoves
     DEF ProcessStep, ClientSteps, RequestSteps, HostSteps
<1>2. UNCHANGED <<app, observer, script, lines, disk>>
  BY DEF ProcessStep, ClientSteps, RequestSteps, HostSteps, McpStarts, Ask, McpExits, Loaded, Connect,
         ConnectFails, Write, Shutdown, Stop, SessionCloses, AgentEnds, AgentTerminated, Settle
<1>3. (pipe'.peer = 0 => pipe'.buffer = <<>>) /\ (observer.at = "observing" => pipe'.peer = pipe.peer)
  <2>1. CASE pipe' = pipe \/ pipe' = Hangup(m)
    BY <2>1, HangupIs DEF AcceptanceInv, Bound
  <2>2. CASE Connect(m)
    <3>1. pipe.peer = 0 /\ pipe'.peer = m /\ m # 0
      BY <2>2, HostAssumption DEF Connect, AcceptanceInv, Peopled, PipeRecord
    <3> QED BY <3>1 DEF AcceptanceInv, Bound
  <2>3. CASE Write(m)
    <3>1. CASE pipe' = Hangup(m)
      BY <2>1, <3>1
    <3>2. CASE pipe.peer = m /\ pipe' = [pipe EXCEPT !.buffer = Append(@, Head(mcp[m].tail))]
      <4>1. pipe'.peer = m /\ m # 0
        BY <3>2, HostAssumption DEF AcceptanceInv, Peopled, PipeRecord
      <4> QED BY <3>2, <4>1
    <3> QED BY <2>3, <3>1, <3>2 DEF Write
  <2>4. CASE McpExits(m)
    BY <2>1, <2>4 DEF McpExits
  <2> QED BY <2>1, <2>2, <2>3, <2>4
          DEF ProcessStep, ClientSteps, RequestSteps, HostSteps, McpStarts, Ask, Loaded,
              ConnectFails, Shutdown, Stop, SessionCloses, AgentEnds, AgentTerminated, Settle
<1> QED BY <1>1, <1>2, <1>3, AsideHolds

(* What five events in their order say of the process that told them.      *)
LEMMA Convicted ==
  ASSUME AcceptanceInv, observer.at \in Concluding
  PROVE  /\ observer.new \in Mcps /\ StartedAfter(observer.new, observer.old)
         /\ LET x == mcp[observer.new] IN
            /\ x.request = "gone" /\ ~x.agent /\ x.stopped
            /\ x.reason = "cancelled" /\ x.status = "cancelled"
<1>1. observer.new \in Mcps /\ observer.frames = 5 /\ StartedAfter(observer.new, observer.old)
  BY DEF AcceptanceInv, Bound, Staffed, ObserverRecord
<1>2. {"ownedExit", "handlerCancelled"} \subseteq Heard(observer)
  <2>1. 3 \in 1..5 /\ 4 \in 1..5
    OBVIOUS
  <2> QED BY <1>1, <2>1, FrameNames DEF Heard
<1>3. {"ownedExit", "handlerCancelled"} \subseteq Trail(observer.new)
  BY <1>2 DEF Trail
<1>4. Fits(mcp[observer.new], Trail(observer.new))
  BY <1>1 DEF AcceptanceInv, Told
<1> QED BY <1>1, <1>3, <1>4 DEF Fits

(* The marker is left by an agent that is there, or that nobody hears of.   *)
LEMMA LeaveMarkerHolds ==
  ASSUME AcceptanceInv, NEW m \in Mcps, LeaveMarker(m)
  PROVE  AcceptanceInv'
<1> USE DEF AcceptanceInv
<1>1. /\ UNCHANGED <<app, mcp, pipe, observer, script, lines>>
      /\ mcp[m].agent \/ mcp[m].request = "unobserved"
      /\ disk' = [disk EXCEPT !.markers = @ \cup {m}]
  BY DEF LeaveMarker
<1>2. /\ disk'.descriptor = disk.descriptor /\ disk'.receipt = disk.receipt
      /\ disk'.markers = disk.markers \cup {m}
      /\ disk' \in [descriptor : {"none", "ours", "other"}, receipt : BOOLEAN, markers : SUBSET Mcps]
  BY <1>1 DEF Staffed
<1>3. observer.at \in {"writing", "passed"} => observer.new # m
  BY <1>1, Convicted DEF Concluding
<1>4. Peopled' /\ Told'
  BY <1>1 DEF Peopled, Told, Trail, Heard
<1>5. Staffed' /\ Scripted'
  BY <1>1, <1>2 DEF Staffed, Scripted, ObserverOver
<1>6. Bound'
  BY <1>1, <1>2, <1>3 DEF Bound, StartedAfter
<1> QED BY <1>4, <1>5, <1>6

LEMMA AppHolds ==
  ASSUME AcceptanceInv, NEW a \in Apps, AppStarts(a) \/ AppExits(a)
  PROVE  AcceptanceInv'
<1> USE DEF AcceptanceInv
<1>1. UNCHANGED <<mcp, pipe, observer, script, lines, disk>>
  BY DEF AppStarts, AppExits
<1>2. PICK y \in AppRecord : /\ app' = [app EXCEPT ![a] = y] /\ y.state # "unborn"
                             /\ app[a].state # "unborn" => y.before = app[a].before
  <2>1. CASE AppStarts(a)
    <3> DEFINE y == [state |-> "running", before |-> [apps |-> ExitedNow, mcps |-> GoneNow]]
    <3>1. ExitedNow \in SUBSET Apps /\ GoneNow \in SUBSET Mcps
      BY DEF ExitedNow, GoneNow
    <3>2. y \in AppRecord /\ y.state # "unborn"
      BY <3>1 DEF AppRecord
    <3>3. app' = [app EXCEPT ![a] = y] /\ app[a].state = "unborn"
      BY <2>1 DEF AppStarts
    <3> HIDE DEF y
    <3> QED BY <3>2, <3>3
  <2>2. CASE AppExits(a)
    <3> DEFINE y == [app[a] EXCEPT !.state = "exited"]
    <3>1. y \in AppRecord /\ y.state # "unborn" /\ y.before = app[a].before
      BY DEF AppRecord, Peopled
    <3>2. app' = [app EXCEPT ![a] = y]
      BY <2>2 DEF AppExits
    <3> HIDE DEF y
    <3> QED BY <3>1, <3>2
  <2> QED BY <2>1, <2>2
<1>3. app'[a] = y /\ \A b \in Apps : b # a => app'[b] = app[b]
  BY <1>2 DEF Peopled
<1>4. Peopled' /\ Told'
  BY <1>1, <1>2 DEF Peopled, Told, Trail, Heard
<1>5. Staffed' /\ Scripted'
  BY <1>1 DEF Staffed, Scripted, ObserverOver
<1>6. ASSUME observer.new # 0 PROVE StartedAfter(observer.new, observer.old)'
  <2>1. observer.new \in Mcps /\ AppOf[observer.new] \in Apps /\ StartedAfter(observer.new, observer.old)
    BY <1>6, HostAssumption DEF Bound, Staffed, ObserverRecord
  <2>2. app[AppOf[observer.new]].state # "unborn"
    BY <2>1 DEF Bound, StartedAfter
  <2>3. app'[AppOf[observer.new]].before = app[AppOf[observer.new]].before
    BY <1>2, <1>3, <2>1, <2>2
  <2> QED BY <1>1, <2>1, <2>3 DEF StartedAfter
<1>7. Bound'
  BY <1>1, <1>2, <1>3, <1>6 DEF Bound
<1> QED BY <1>4, <1>5, <1>7

-----------------------------------------------------------------------------
(* Steps of the observer *)

(* Its end leaves nothing to follow; no receipt was written before.        *)
LEMMA EndsHolds ==
  ASSUME AcceptanceInv, ~ObserverOver, NEW end \in {"failed", "killed"}, EndsAs(end),
         lines' \in Seq(Elements(Phases)), UNCHANGED disk
  PROVE  /\ Peopled' /\ Told' /\ Bound' /\ ObserverOver'
         /\ observer' \in ObserverRecord
<1> USE DEF AcceptanceInv
<1>1. /\ observer' = [observer EXCEPT !.at = end, !.old = 0, !.new = 0, !.frames = 0]
      /\ pipe' = NoPipe /\ app' = [a \in Apps |-> NewApp] /\ mcp' = [m \in Mcps |-> NewMcp]
  BY DEF EndsAs
<1>2. /\ observer' \in ObserverRecord /\ observer'.at = end /\ observer'.new = 0
      /\ observer'.frames = 0
  <2>1. 0 \in Mcps \cup {0} /\ 0 \in 0..5 /\ observer \in ObserverRecord
    BY DEF Staffed
  <2>2. observer'.at = end /\ observer'.new = 0 /\ observer'.frames = 0
    BY <1>1, <2>1 DEF ObserverRecord
  <2>3. observer' \in ObserverRecord
    BY <1>1, <2>1 DEF ObserverRecord
  <2> QED BY <2>2, <2>3
<1>3. NewApp \in AppRecord /\ NewApp.before.apps = {}
  BY DEF NewApp, AppRecord
<1>4. /\ NewMcp \in McpRecord /\ NewMcp.tail = <<>> /\ NewMcp.request = "none"
      /\ NewMcp.loading = "none" /\ ~NewMcp.agent /\ NewMcp.reason = "none"
  <2>1. <<>> \in Tails
    BY DEF Tails
  <2> QED BY <2>1 DEF NewMcp, McpRecord, McpStates, Tasks, Attempts, Terminals, Requests, Reasons, Statuses
<1>5. NoPipe \in PipeRecord /\ NoPipe.peer = 0 /\ NoPipe.buffer = <<>>
  BY DEF NoPipe, PipeRecord
<1>6. Peopled'
  BY <1>1, <1>3, <1>4, <1>5 DEF Peopled
<1>7. Told'
  <2>1. ASSUME NEW m \in Mcps PROVE Trail(m)' = {}
    BY <1>1, <1>2, <1>4, <1>5, HostAssumption DEF Trail, Elements, Heard
  <2>2. Fits(NewMcp, {})
    BY <1>4 DEF Fits
  <2> QED BY <1>1, <2>1, <2>2 DEF Told
<1>8. Bound'
  <2>1. ~disk.receipt
    BY DEF Bound, ObserverOver
  <2>2. \A a \in Apps : app'[a].before.apps = {}
    BY <1>1, <1>3
  <2> QED BY <1>1, <1>2, <1>5, <2>1, <2>2 DEF Bound, Concluding
<1> QED BY <1>2, <1>6, <1>7, <1>8 DEF ObserverOver

LEMMA FailsHolds ==
  ASSUME AcceptanceInv, ~ObserverOver, Fails, UNCHANGED <<script, disk>>,
         lines' \in Seq(Elements(Phases))
  PROVE  AcceptanceInv'
<1>1. Peopled' /\ Told' /\ Bound' /\ ObserverOver' /\ observer' \in ObserverRecord
  BY EndsHolds DEF Fails
<1>2. Staffed'
  BY <1>1 DEF AcceptanceInv, Staffed
<1>3. Scripted'
  BY <1>1 DEF AcceptanceInv, Scripted, ObserverOver
<1> QED BY <1>1, <1>2, <1>3 DEF AcceptanceInv

(* A line that may be published, or need not. *)
LEMMA LinesAre ==
  ASSUME Staffed
  PROVE  /\ \A phase \in Elements(Phases) : Publish(phase) => lines' \in Seq(Elements(Phases))
         /\ Unread \/ UNCHANGED lines => lines' \in Seq(Elements(Phases))
         /\ lines # <<>> => Tail(lines) \in Seq(Elements(Phases))
         /\ \A i \in 1..4 : Phases[i] \in Elements(Phases)
         /\ <<>> \in Seq(Elements(Phases))
<1>1. lines \in Seq(Elements(Phases))
  BY DEF Staffed
<1>2. \A i \in 1..4 : Phases[i] \in Elements(Phases)
  BY DEF Phases, Elements
<1> QED BY <1>1, <1>2, ElementsAre DEF Publish, Unread

LEMMA PhaseNames ==
  {"READY", "OLD_HOST_BOUND", "OLD_HOST_EXITED", "REQUEST_STARTED"} \subseteq Elements(Phases)
<1>1. /\ DOMAIN Phases = {1, 2, 3, 4}
      /\ Phases[1] = "READY" /\ Phases[2] = "OLD_HOST_BOUND" /\ Phases[3] = "OLD_HOST_EXITED"
      /\ Phases[4] = "REQUEST_STARTED"
  BY DEF Phases
<1> QED BY <1>1 DEF Elements

(* The observer goes on, and has heard nothing that was not there to hear.  *)
LEMMA GoesHolds ==
  ASSUME AcceptanceInv, ~ObserverOver, UNCHANGED <<app, mcp, script>>,
         pipe' \in PipeRecord, observer' \in ObserverRecord, lines' \in Seq(Elements(Phases)),
         disk' \in [descriptor : {"none", "ours", "other"}, receipt : BOOLEAN, markers : SUBSET Mcps],
         disk'.descriptor = disk.descriptor,
         \A m \in Mcps : Trail(m)' \subseteq Trail(m), Bound'
  PROVE  AcceptanceInv'
<1> USE DEF AcceptanceInv
<1>1. Peopled' /\ Staffed' /\ Scripted'
  BY DEF Peopled, Staffed, Scripted, ObserverOver
<1>2. ASSUME NEW m \in Mcps PROVE Fits(mcp'[m], Trail(m)')
  BY Fewer DEF Told
<1>3. Told'
  BY <1>2 DEF Told
<1> QED BY <1>1, <1>3

(* It goes on alone: the pipe is as it was, or there is another or none.    *)
LEMMA GoesWithoutFrame ==
  ASSUME AcceptanceInv, ~ObserverOver, UNCHANGED <<app, mcp, script>>,
         NEW at, at \notin {"failed", "killed", "observing"},
         observer' = [observer EXCEPT !.at = at], observer' \in ObserverRecord,
         at \in Concluding => observer.new # 0 /\ observer.frames = 5,
         at \notin Concluding => observer.new = 0,
         pipe' \in PipeRecord, pipe' = pipe \/ (pipe'.peer = 0 /\ pipe'.buffer = <<>>),
         lines' \in Seq(Elements(Phases)),
         disk' = [disk EXCEPT !.receipt = (at = "passed")],
         at \in {"writing", "passed"} => observer.new \notin disk.markers
  PROVE  AcceptanceInv'
<1> USE DEF AcceptanceInv
<1>1. observer'.at = at /\ observer'.new = observer.new /\ observer'.old = observer.old
      /\ observer'.frames = observer.frames
  BY DEF Staffed, ObserverRecord
<1>2. /\ disk' \in [descriptor : {"none", "ours", "other"}, receipt : BOOLEAN, markers : SUBSET Mcps]
      /\ disk'.descriptor = disk.descriptor /\ disk'.markers = disk.markers
      /\ disk'.receipt <=> at = "passed"
  <2>1. (at = "passed") \in BOOLEAN
    OBVIOUS
  <2> QED BY <2>1 DEF Staffed
<1>3. ASSUME NEW m \in Mcps PROVE Trail(m)' \subseteq Trail(m)
  <2>1. mcp' = mcp /\ Heard(observer)' = Heard(observer) /\ observer'.new = observer.new
    BY <1>1 DEF Heard
  <2>2. pipe'.peer = m => pipe' = pipe
    BY HostAssumption
  <2> QED BY <2>1, <2>2 DEF Trail
<1>4. Bound'
  BY <1>1, <1>2 DEF Bound, StartedAfter, Concluding
<1> QED BY <1>1, <1>2, <1>3, <1>4, GoesHolds

LEMMA DiskAsItIs ==
  ASSUME AcceptanceInv, ~ObserverOver, NEW at, at # "passed"
  PROVE  disk = [disk EXCEPT !.receipt = (at = "passed")]
<1>1. disk.receipt = FALSE
  BY DEF AcceptanceInv, Bound, ObserverOver, Staffed
<1> QED BY <1>1 DEF AcceptanceInv, Staffed

LEMMA ObserverHolds ==
  ASSUME AcceptanceInv, ObserverSteps
  PROVE  AcceptanceInv'
<1> USE DEF AcceptanceInv
<1>1. CASE CreatePipe
  <2>1. ~ObserverOver /\ observer.new = 0 /\ UNCHANGED <<script, disk>>
    BY <1>1 DEF CreatePipe, ObserverOver, Bound, Concluding
  <2>2. CASE Unread /\ Fails
    BY <2>1, <2>2, FailsHolds, LinesAre
  <2>3. ASSUME NEW at \in {"accepting", "reaccepting"}, NEW phase \in {"READY", "OLD_HOST_EXITED"},
               Publish(phase), pipe' = [NoPipe EXCEPT !.open = TRUE], Goes([observer EXCEPT !.at = at])
        PROVE  AcceptanceInv'
    <3>1. pipe' \in PipeRecord /\ pipe'.peer = 0 /\ pipe'.buffer = <<>>
      <4>1. pipe' = [open |-> TRUE, peer |-> 0, buffer |-> <<>>, eof |-> FALSE]
        BY <2>3 DEF NoPipe
      <4>2. <<>> \in Seq(Frames)
        OBVIOUS
      <4> QED BY <4>1, <4>2 DEF PipeRecord
    <3>2. /\ observer' = [observer EXCEPT !.at = at] /\ UNCHANGED <<app, mcp>>
          /\ observer' \in ObserverRecord
      BY <2>3 DEF Goes, Staffed, ObserverRecord
    <3>3. lines' \in Seq(Elements(Phases))
      BY <2>3, LinesAre, PhaseNames
    <3>4. /\ at \notin {"failed", "killed", "observing", "passed", "writing"} /\ at \notin Concluding
      BY <2>3 DEF Concluding
    <3>5. disk' = [disk EXCEPT !.receipt = (at = "passed")]
      BY <2>1, <3>4, DiskAsItIs
    <3> QED BY <2>1, <3>1, <3>2, <3>3, <3>4, <3>5, GoesWithoutFrame
  <2> QED BY <1>1, <2>2, <2>3 DEF CreatePipe
<1>2. CASE Accept
  <2>1. ~ObserverOver /\ observer.new = 0 /\ UNCHANGED <<script, disk, lines>>
    BY <1>2 DEF Accept, ObserverOver, Bound, Concluding
  <2>2. CASE Fails
    BY <2>1, <2>2, FailsHolds, LinesAre
  <2>3. ASSUME NEW at \in {"greeting", "regreeting"}, UNCHANGED pipe, Goes([observer EXCEPT !.at = at])
        PROVE  AcceptanceInv'
    <3>1. /\ observer' = [observer EXCEPT !.at = at] /\ UNCHANGED <<app, mcp>>
          /\ observer' \in ObserverRecord
      BY <2>3 DEF Goes, Staffed, ObserverRecord
    <3>2. /\ at \notin {"failed", "killed", "observing", "passed", "writing"} /\ at \notin Concluding
      BY <2>3 DEF Concluding
    <3>3. disk' = [disk EXCEPT !.receipt = (at = "passed")]
      BY <2>1, <3>2, DiskAsItIs
    <3>4. lines' \in Seq(Elements(Phases)) /\ pipe' \in PipeRecord
      BY <2>1, <2>3, LinesAre DEF Peopled
    <3> QED BY <2>1, <2>3, <3>1, <3>2, <3>3, <3>4, GoesWithoutFrame
  <2> QED BY <1>2, <2>2, <2>3 DEF Accept
<1>3. CASE ObserveOldHello
  <2>1. ~ObserverOver /\ observer.new = 0 /\ UNCHANGED <<script, disk>> /\ observer.at = "greeting"
    BY <1>3 DEF ObserveOldHello, ObserverOver, Bound, Concluding
  <2>2. CASE Fails /\ (Unread \/ UNCHANGED lines)
    BY <2>1, <2>2, FailsHolds, LinesAre
  <2>3. CASE /\ Received("hello") /\ Publish("OLD_HOST_BOUND")
             /\ Consume([observer EXCEPT !.at = "waiting", !.old = pipe.peer])
    <3>1. /\ observer' = [observer EXCEPT !.at = "waiting", !.old = pipe.peer] /\ UNCHANGED <<app, mcp>>
          /\ pipe.buffer # <<>> /\ pipe' = [pipe EXCEPT !.buffer = Tail(@)]
      BY <2>3 DEF Consume, Goes, Received
    <3>2. pipe.buffer \in Seq(Frames) /\ pipe.peer \in Mcps \cup {0}
      BY DEF Peopled, PipeRecord
    <3>3. Tail(pipe.buffer) \in Seq(Frames) /\ Elements(Tail(pipe.buffer)) \subseteq Elements(pipe.buffer)
      BY <3>1, <3>2, ElementsAre
    <3>4. pipe' \in PipeRecord /\ pipe'.peer = pipe.peer /\ pipe'.buffer = Tail(pipe.buffer)
      BY <3>1, <3>3 DEF Peopled, PipeRecord
    <3>5. /\ observer' \in ObserverRecord /\ observer'.at = "waiting" /\ observer'.new = 0
          /\ observer'.frames = observer.frames
      BY <2>1, <3>1, <3>2 DEF Staffed, ObserverRecord
    <3>6. ASSUME NEW m \in Mcps PROVE Trail(m)' \subseteq Trail(m)
      BY <2>1, <3>1, <3>3, <3>4, <3>5, HostAssumption DEF Trail
    <3>7. lines' \in Seq(Elements(Phases))
      BY <2>3, LinesAre, PhaseNames
    <3>8. Bound'
      BY <2>1, <3>1, <3>4, <3>5 DEF Bound, Concluding
    <3>9. /\ disk' \in [descriptor : {"none", "ours", "other"}, receipt : BOOLEAN, markers : SUBSET Mcps]
          /\ disk'.descriptor = disk.descriptor
      BY <2>1 DEF Staffed
    <3> QED BY <2>1, <3>1, <3>4, <3>5, <3>6, <3>7, <3>8, <3>9, GoesHolds
  <2> QED BY <1>3, <2>2, <2>3 DEF ObserveOldHello
<1>4. CASE ObserveOldExited
  <2>1. ~ObserverOver /\ observer.new = 0 /\ UNCHANGED <<script, disk, lines>>
    BY <1>4 DEF ObserveOldExited, ObserverOver, Bound, Concluding
  <2>2. CASE Fails
    BY <2>1, <2>2, FailsHolds, LinesAre
  <2>3. CASE pipe' = NoPipe /\ Goes([observer EXCEPT !.at = "restarting"])
    <3>1. /\ observer' = [observer EXCEPT !.at = "restarting"] /\ UNCHANGED <<app, mcp>>
          /\ observer' \in ObserverRecord
      BY <2>3 DEF Goes, Staffed, ObserverRecord
    <3>2. disk' = [disk EXCEPT !.receipt = ("restarting" = "passed")]
      BY <2>1, DiskAsItIs
    <3>3. lines' \in Seq(Elements(Phases)) /\ pipe' \in PipeRecord /\ pipe'.peer = 0 /\ pipe'.buffer = <<>>
      BY <2>1, <2>3, LinesAre DEF NoPipe, PipeRecord
    <3>4. "restarting" \notin Concluding
      BY DEF Concluding
    <3> QED BY <2>1, <3>1, <3>2, <3>3, <3>4, GoesWithoutFrame
  <2> QED BY <1>4, <2>2, <2>3 DEF ObserveOldExited
<1>5. CASE ObserveNewHello
  <2>1. /\ ~ObserverOver /\ observer.new = 0 /\ UNCHANGED <<script, disk, lines>>
        /\ observer.at = "regreeting" /\ observer.frames = 0
    BY <1>5 DEF ObserveNewHello, ObserverOver, Bound, Concluding
  <2>2. CASE Fails
    BY <2>1, <2>2, FailsHolds, LinesAre
  <2>3. CASE /\ Received("hello") /\ StartedAfter(pipe.peer, observer.old)
             /\ Consume([observer EXCEPT !.at = "observing", !.new = pipe.peer])
    <3>1. /\ observer' = [observer EXCEPT !.at = "observing", !.new = pipe.peer] /\ UNCHANGED <<app, mcp>>
          /\ pipe.buffer # <<>> /\ pipe' = [pipe EXCEPT !.buffer = Tail(@)]
      BY <2>3 DEF Consume, Goes, Received
    <3>2. pipe.buffer \in Seq(Frames) /\ pipe.peer \in Mcps
      BY <3>1 DEF Peopled, PipeRecord, Bound
    <3>3. Tail(pipe.buffer) \in Seq(Frames) /\ Elements(Tail(pipe.buffer)) \subseteq Elements(pipe.buffer)
      BY <3>1, <3>2, ElementsAre
    <3>4. pipe' \in PipeRecord /\ pipe'.peer = pipe.peer /\ pipe'.buffer = Tail(pipe.buffer)
      BY <3>1, <3>3 DEF Peopled, PipeRecord
    <3>5. /\ observer' \in ObserverRecord /\ observer'.at = "observing" /\ observer'.new = pipe.peer
          /\ observer'.frames = 0 /\ observer'.old = observer.old
      BY <2>1, <3>1, <3>2 DEF Staffed, ObserverRecord
    <3>6. Heard(observer)' = {}
      BY <3>5 DEF Heard
    <3>7. ASSUME NEW m \in Mcps PROVE Trail(m)' \subseteq Trail(m)
      BY <3>1, <3>3, <3>4, <3>6 DEF Trail
    <3>8. Bound'
      BY <2>1, <2>3, <3>1, <3>2, <3>4, <3>5, HostAssumption DEF Bound, Concluding, StartedAfter
    <3>9. /\ disk' \in [descriptor : {"none", "ours", "other"}, receipt : BOOLEAN, markers : SUBSET Mcps]
          /\ disk'.descriptor = disk.descriptor /\ lines' \in Seq(Elements(Phases))
      BY <2>1, LinesAre DEF Staffed
    <3> QED BY <2>1, <3>1, <3>4, <3>5, <3>7, <3>8, <3>9, GoesHolds
  <2> QED BY <1>5, <2>2, <2>3 DEF ObserveNewHello
<1>6. CASE Observe
  <2>1. /\ ~ObserverOver /\ observer.new = pipe.peer /\ UNCHANGED <<script, disk>>
        /\ observer.at = "observing" /\ observer.frames \in 0..4 /\ observer.new # 0
    BY <1>6, FrameNames DEF Observe, ObserverOver, Bound, Concluding, Staffed, ObserverRecord
  <2>2. CASE Fails /\ (Unread \/ UNCHANGED lines)
    BY <2>1, <2>2, FailsHolds, LinesAre
  <2>3. CASE /\ Received(Events[observer.frames + 1])
             /\ Publish("REQUEST_STARTED") \/ UNCHANGED lines
             /\ Consume([observer EXCEPT !.frames = @ + 1])
    <3>1. /\ observer' = [observer EXCEPT !.frames = @ + 1] /\ UNCHANGED <<app, mcp>>
          /\ pipe.buffer # <<>> /\ pipe' = [pipe EXCEPT !.buffer = Tail(@)]
          /\ Head(pipe.buffer) = Events[observer.frames + 1]
      BY <2>3 DEF Consume, Goes, Received
    <3>2. pipe.buffer \in Seq(Frames)
      BY DEF Peopled, PipeRecord
    <3>3. /\ Tail(pipe.buffer) \in Seq(Frames) /\ Elements(Tail(pipe.buffer)) \subseteq Elements(pipe.buffer)
          /\ Events[observer.frames + 1] \in Elements(pipe.buffer)
      BY <3>1, <3>2, ElementsAre
    <3>4. pipe' \in PipeRecord /\ pipe'.peer = pipe.peer /\ pipe'.buffer = Tail(pipe.buffer)
      BY <3>1, <3>3 DEF Peopled, PipeRecord
    <3>5. /\ observer' \in ObserverRecord /\ observer'.at = "observing" /\ observer'.new = observer.new
          /\ observer'.frames = observer.frames + 1 /\ observer'.old = observer.old
      BY <2>1, <3>1 DEF Staffed, ObserverRecord
    <3>6. Heard(observer)' \subseteq Heard(observer) \cup Elements(pipe.buffer)
      <4>1. ASSUME NEW i \in 1..(observer.frames + 1)
            PROVE  Events[i] \in Heard(observer) \cup Elements(pipe.buffer)
        <5>1. i \in 1..observer.frames \/ i = observer.frames + 1
          BY <2>1, <4>1
        <5> QED BY <3>3, <5>1 DEF Heard
      <4> QED BY <3>5, <4>1 DEF Heard
    <3>7. ASSUME NEW m \in Mcps PROVE Trail(m)' \subseteq Trail(m)
      BY <2>1, <3>1, <3>3, <3>4, <3>5, <3>6 DEF Trail
    <3>8. Bound'
      BY <2>1, <3>1, <3>4, <3>5 DEF Bound, Concluding, StartedAfter
    <3>9. /\ disk' \in [descriptor : {"none", "ours", "other"}, receipt : BOOLEAN, markers : SUBSET Mcps]
          /\ disk'.descriptor = disk.descriptor /\ lines' \in Seq(Elements(Phases))
      BY <2>1, <2>3, LinesAre, PhaseNames DEF Staffed
    <3> QED BY <2>1, <3>1, <3>4, <3>5, <3>7, <3>8, <3>9, GoesHolds
  <2> QED BY <1>6, <2>2, <2>3 DEF Observe
<1>7. CASE RequireCleanEof
  <2>1. /\ ~ObserverOver /\ UNCHANGED <<script, disk, lines>>
        /\ observer.at = "observing" /\ observer.frames = 5 /\ observer.new # 0
    BY <1>7, FrameNames DEF RequireCleanEof, ObserverOver, Bound
  <2>2. CASE Fails
    BY <2>1, <2>2, FailsHolds, LinesAre
  <2>3. CASE pipe' = NoPipe /\ Goes([observer EXCEPT !.at = "checking"])
    <3>1. /\ observer' = [observer EXCEPT !.at = "checking"] /\ UNCHANGED <<app, mcp>>
          /\ observer' \in ObserverRecord
      BY <2>3 DEF Goes, Staffed, ObserverRecord, Concluding
    <3>2. disk' = [disk EXCEPT !.receipt = ("checking" = "passed")]
      BY <2>1, DiskAsItIs
    <3>3. lines' \in Seq(Elements(Phases)) /\ pipe' \in PipeRecord /\ pipe'.peer = 0 /\ pipe'.buffer = <<>>
      BY <2>1, <2>3, LinesAre DEF NoPipe, PipeRecord
    <3>4. "checking" \in Concluding
      BY DEF Concluding
    <3> QED BY <2>1, <3>1, <3>2, <3>3, <3>4, GoesWithoutFrame
  <2> QED BY <1>7, <2>2, <2>3 DEF RequireCleanEof
<1>8. CASE RequireCompletionMarkerAbsent
  <2>1. /\ ~ObserverOver /\ UNCHANGED <<script, disk, lines>>
        /\ observer.at = "checking" /\ observer.frames = 5 /\ observer.new # 0
    BY <1>8 DEF RequireCompletionMarkerAbsent, ObserverOver, Bound, Concluding
  <2>2. CASE Fails
    BY <2>1, <2>2, FailsHolds, LinesAre
  <2>3. CASE disk.markers = {} /\ Goes([observer EXCEPT !.at = "writing"]) /\ UNCHANGED pipe
    <3>1. /\ observer' = [observer EXCEPT !.at = "writing"] /\ UNCHANGED <<app, mcp>>
          /\ observer' \in ObserverRecord
      BY <2>3 DEF Goes, Staffed, ObserverRecord, Concluding
    <3>2. disk' = [disk EXCEPT !.receipt = ("writing" = "passed")]
      BY <2>1, DiskAsItIs
    <3>3. lines' \in Seq(Elements(Phases)) /\ pipe' \in PipeRecord
      BY <2>1, <2>3, LinesAre DEF Peopled
    <3>4. "writing" \in Concluding
      BY DEF Concluding
    <3> QED BY <2>1, <2>3, <3>1, <3>2, <3>3, <3>4, GoesWithoutFrame
  <2> QED BY <1>8, <2>2, <2>3 DEF RequireCompletionMarkerAbsent
<1>9. CASE WriteReceipt
  <2>1. /\ ~ObserverOver /\ UNCHANGED <<script, lines, pipe>>
        /\ observer.at = "writing" /\ observer.frames = 5 /\ observer.new # 0
        /\ observer.new \notin disk.markers
    BY <1>9 DEF WriteReceipt, ObserverOver, Bound, Concluding
  <2>2. /\ observer' = [observer EXCEPT !.at = "passed"] /\ UNCHANGED <<app, mcp>>
        /\ observer' \in ObserverRecord
    BY <1>9 DEF WriteReceipt, Goes, Staffed, ObserverRecord, Concluding
  <2>3. disk' = [disk EXCEPT !.receipt = ("passed" = "passed")]
    BY <1>9 DEF WriteReceipt, Staffed
  <2>4. lines' \in Seq(Elements(Phases)) /\ pipe' \in PipeRecord
    BY <2>1, LinesAre DEF Peopled
  <2>5. "passed" \in Concluding
    BY DEF Concluding
  <2> QED BY <2>1, <2>2, <2>3, <2>4, <2>5, GoesWithoutFrame
<1> QED BY <1>1, <1>2, <1>3, <1>4, <1>5, <1>6, <1>7, <1>8, <1>9 DEF ObserverSteps

-----------------------------------------------------------------------------
(* Steps of the script *)

(* What the script does alone touches neither the observer nor the hosts.   *)
LEMMA ScriptAlone ==
  ASSUME AcceptanceInv, UNCHANGED <<app, mcp, pipe, observer>>,
         script' \in ScriptRecord, lines' \in Seq(Elements(Phases)),
         NEW d \in {"none", "ours", "other"}, disk' = [disk EXCEPT !.descriptor = d],
         d = "ours" => script'.published /\ script'.at \in {"consuming", "removing", "dead"},
         script'.interrupted => ObserverOver,
         script'.at \in {"removing", "leaving"} /\ ~script'.failed => observer.at = "passed",
         script'.at = "succeeded" => observer.at = "passed",
         script'.at = "failed" => ObserverOver
  PROVE  AcceptanceInv'
<1> USE DEF AcceptanceInv
<1>1. /\ disk' \in [descriptor : {"none", "ours", "other"}, receipt : BOOLEAN, markers : SUBSET Mcps]
      /\ disk'.descriptor = d /\ disk'.receipt = disk.receipt /\ disk'.markers = disk.markers
  BY DEF Staffed
<1>2. Peopled' /\ Staffed'
  BY <1>1 DEF Peopled, Staffed
<1>3. Told'
  BY DEF Told, Trail, Heard
<1>4. Bound'
  BY <1>1 DEF Bound, StartedAfter
<1>5. Scripted'
  BY <1>1 DEF Scripted, ObserverOver
<1> QED BY <1>2, <1>3, <1>4, <1>5

LEMMA DescriptorAsItIs ==
  ASSUME Staffed
  PROVE  /\ disk = [disk EXCEPT !.descriptor = disk.descriptor]
         /\ disk.descriptor \in {"none", "ours", "other"}
BY DEF Staffed

LEMMA ScriptAloneHolds ==
  ASSUME AcceptanceInv, ReadLine \/ LinesEnd \/ RemoveDescriptor \/ ScriptDies \/ OtherEnds
  PROVE  AcceptanceInv'
<1> USE DEF AcceptanceInv
<1>0. /\ UNCHANGED <<app, mcp, pipe, observer>> /\ script \in ScriptRecord
      /\ lines \in Seq(Elements(Phases))
  BY DEF ReadLine, LinesEnd, RemoveDescriptor, ScriptDies, OtherEnds, Staffed
<1>1. CASE ReadLine
  <2> DEFINE next == [script EXCEPT !.index = @ + 1]
             publishing == [next EXCEPT !.published = TRUE]
  <2>1. script.at = "consuming" /\ lines' = Tail(lines) /\ lines # <<>>
    BY <1>1 DEF ReadLine, Consumed
  <2>2. lines' \in Seq(Elements(Phases))
    BY <2>1, LinesAre
  <2>3. \/ script' \in {Broken, next} /\ UNCHANGED disk
        \/ PublishDescriptor /\ script' = publishing
    BY <1>1 DEF ReadLine, Consumed
  <2>4. /\ Broken \in ScriptRecord /\ Broken.at = "removing" /\ Broken.failed
        /\ Broken.published = script.published /\ Broken.interrupted = script.interrupted
    BY <1>0 DEF Broken, ScriptRecord
  <2>5. /\ next \in ScriptRecord /\ next.at = "consuming" /\ next.published = script.published
        /\ next.interrupted = script.interrupted
    BY <1>0, <2>1 DEF ScriptRecord
  <2>6. /\ publishing \in ScriptRecord /\ publishing.at = "consuming" /\ publishing.published
        /\ publishing.interrupted = script.interrupted
    BY <2>5 DEF ScriptRecord
  <2> HIDE DEF next, publishing
  <2>7. CASE script' = Broken /\ UNCHANGED disk
    BY <1>0, <2>1, <2>2, <2>4, <2>7, DescriptorAsItIs, ScriptAlone DEF Scripted
  <2>8. CASE script' = next /\ UNCHANGED disk
    BY <1>0, <2>1, <2>2, <2>5, <2>8, DescriptorAsItIs, ScriptAlone DEF Scripted
  <2>9. CASE PublishDescriptor /\ script' = publishing
    BY <1>0, <2>1, <2>2, <2>6, <2>9, ScriptAlone DEF Scripted, PublishDescriptor
  <2> QED BY <2>3, <2>7, <2>8, <2>9
<1>2. CASE LinesEnd
  <2> DEFINE f == script.index # Len(Phases) \/ observer.at # "passed"
  <2>1. /\ script.at = "consuming" /\ script' = [script EXCEPT !.at = "removing", !.failed = f]
        /\ UNCHANGED <<lines, disk>>
    BY <1>2 DEF LinesEnd
  <2>2. f \in BOOLEAN /\ (~f => observer.at = "passed")
    OBVIOUS
  <2> HIDE DEF f
  <2>3. /\ script' \in ScriptRecord /\ script'.at = "removing" /\ script'.failed = f
        /\ script'.published = script.published /\ script'.interrupted = script.interrupted
    BY <1>0, <2>1, <2>2 DEF ScriptRecord
  <2> QED BY <1>0, <2>1, <2>2, <2>3, DescriptorAsItIs, ScriptAlone DEF Scripted
<1>3. CASE RemoveDescriptor
  <2>1. /\ script.at = "removing" /\ script' = [script EXCEPT !.at = "leaving"] /\ UNCHANGED lines
        /\ IF script.published THEN disk' = RemoveExactDescriptor ELSE UNCHANGED disk
    BY <1>3 DEF RemoveDescriptor
  <2>2. /\ script' \in ScriptRecord /\ script'.at = "leaving" /\ script'.failed = script.failed
        /\ script'.interrupted = script.interrupted
    BY <1>0, <2>1 DEF ScriptRecord
  <2>3. disk.descriptor = "ours" => script.published
    BY DEF Scripted
  <2>4. PICK d \in {"none", "other"} : disk' = [disk EXCEPT !.descriptor = d]
    BY <2>1, <2>3, DescriptorAsItIs DEF RemoveExactDescriptor
  <2> QED BY <1>0, <2>1, <2>2, <2>4, ScriptAlone DEF Scripted
<1>4. CASE ScriptDies
  <2>1. script' = [script EXCEPT !.at = "dead"] /\ lines' = <<>> /\ UNCHANGED disk
    BY <1>4 DEF ScriptDies
  <2>2. /\ script' \in ScriptRecord /\ script'.at = "dead" /\ script'.published = script.published
        /\ script'.interrupted = script.interrupted
    BY <1>0, <2>1 DEF ScriptRecord
  <2>3. lines' \in Seq(Elements(Phases))
    BY <2>1, LinesAre
  <2> QED BY <1>0, <2>1, <2>2, <2>3, DescriptorAsItIs, ScriptAlone DEF Scripted
<1>5. CASE OtherEnds
  <2>1. disk' = [disk EXCEPT !.descriptor = "none"] /\ UNCHANGED <<script, lines>>
    BY <1>5 DEF OtherEnds
  <2> QED BY <1>0, <2>1, ScriptAlone DEF Scripted
<1> QED BY <1>1, <1>2, <1>3, <1>4, <1>5

(* The script that has to end the observer does so.                        *)
LEMMA KilledHolds ==
  ASSUME AcceptanceInv, Killed, UNCHANGED <<lines, disk>>
  PROVE  /\ Peopled' /\ Told' /\ Bound' /\ ObserverOver'
         /\ observer' \in ObserverRecord
         /\ observer.at = "passed" => observer'.at = "passed"
<1> USE DEF AcceptanceInv
<1>1. CASE ObserverOver
  <2>1. UNCHANGED <<app, mcp, pipe, observer, disk>>
    BY <1>1 DEF Killed
  <2>2. Peopled' /\ Told'
    BY <2>1 DEF Peopled, Told, Trail, Heard
  <2>3. Bound'
    BY <2>1 DEF Bound, StartedAfter
  <2>4. ObserverOver' /\ observer' \in ObserverRecord
    BY <1>1, <2>1 DEF ObserverOver, Staffed
  <2> QED BY <2>1, <2>2, <2>3, <2>4
<1>2. CASE ~ObserverOver
  <2>1. EndsAs("killed") /\ observer.at # "passed"
    BY <1>2 DEF Killed, ObserverOver
  <2>2. lines' \in Seq(Elements(Phases))
    BY LinesAre
  <2> QED BY <1>2, <2>1, <2>2, EndsHolds
<1> QED BY <1>1, <1>2

LEMMA KillingHolds ==
  ASSUME AcceptanceInv, Leave \/ Interrupt
  PROVE  AcceptanceInv'
<1> USE DEF AcceptanceInv
<1>0. UNCHANGED <<lines, disk>> /\ script \in ScriptRecord
  BY DEF Leave, Interrupt, Staffed
<1>1. ASSUME Killed, script' \in ScriptRecord,
             script'.at = script.at \/ (script.at = "leaving" /\ script'.at = "failed"),
             script'.published = script.published, script'.failed = script.failed
      PROVE  AcceptanceInv'
  <2>1. /\ Peopled' /\ Told' /\ Bound' /\ ObserverOver' /\ observer' \in ObserverRecord
        /\ observer.at = "passed" => observer'.at = "passed"
    BY <1>0, <1>1, KilledHolds
  <2>2. Staffed'
    BY <1>0, <1>1, <2>1 DEF Staffed
  <2>3. Scripted'
    BY <1>0, <1>1, <2>1 DEF Scripted
  <2> QED BY <2>1, <2>2, <2>3
<1>2. CASE Interrupt
  <2>1. script' = [script EXCEPT !.interrupted = TRUE] /\ Killed
    BY <1>2 DEF Interrupt
  <2>2. /\ script' \in ScriptRecord /\ script'.at = script.at
        /\ script'.published = script.published /\ script'.failed = script.failed
    BY <1>0, <2>1 DEF ScriptRecord
  <2> QED BY <1>1, <2>1, <2>2
<1>3. CASE Leave
  <2>1. /\ script.at = "leaving"
        /\ script' = [script EXCEPT
             !.at = IF script.failed \/ script.interrupted THEN "failed" ELSE "succeeded"]
        /\ IF script.failed THEN Killed ELSE UNCHANGED <<observer, pipe, app, mcp>>
    BY <1>3 DEF Leave
  <2>2. /\ script' \in ScriptRecord /\ script'.published = script.published
        /\ script'.failed = script.failed /\ script'.interrupted = script.interrupted
        /\ script'.at = IF script.failed \/ script.interrupted THEN "failed" ELSE "succeeded"
    BY <1>0, <2>1 DEF ScriptRecord
  <2>3. CASE script.failed
    BY <1>1, <2>1, <2>2, <2>3
  <2>4. CASE ~script.failed
    <3>1. UNCHANGED <<app, mcp, pipe, observer>> /\ observer.at = "passed" /\ ObserverOver
      BY <2>1, <2>4 DEF Scripted, ObserverOver
    <3>2. disk.descriptor # "ours"
      BY <2>1 DEF Scripted
    <3> QED BY <1>0, <2>2, <3>1, <3>2, DescriptorAsItIs, ScriptAlone DEF Staffed
  <2> QED BY <2>3, <2>4
<1> QED BY <1>2, <1>3

-----------------------------------------------------------------------------
(* The specification *)

LEMMA InitHolds ==
  ASSUME Init
  PROVE  AcceptanceInv
<1>1. /\ observer = [at |-> "starting", old |-> 0, new |-> 0, frames |-> 0]
      /\ script = [at |-> "consuming", index |-> 0, published |-> FALSE,
                   failed |-> FALSE, interrupted |-> FALSE]
      /\ lines = <<>> /\ pipe = NoPipe
      /\ disk \in [descriptor : {"none", "other"}, receipt : {FALSE}, markers : {{}}]
  BY DEF Init
<1>2. \A a \in Apps : app[a] \in AppRecord /\ app[a].before.apps = {}
  <2>1. ASSUME NEW s \in {"unborn", "running"}
        PROVE  [NewApp EXCEPT !.state = s] \in AppRecord /\ [NewApp EXCEPT !.state = s].before.apps = {}
    BY DEF NewApp, AppRecord
  <2>2. ASSUME NEW a \in Apps
        PROVE  \E s \in {"unborn", "running"} : app[a] = [NewApp EXCEPT !.state = s]
    BY DEF Init, NewApp
  <2> QED BY <2>1, <2>2
<1>3. ASSUME NEW m \in Mcps
      PROVE  mcp[m] \in McpRecord /\ mcp[m].tail = <<>> /\ Fits(mcp[m], {})
  <2>1. ASSUME NEW s \in {"unborn", "running"}
        PROVE  LET x == [NewMcp EXCEPT !.state = s] IN
               x \in McpRecord /\ x.tail = <<>> /\ Fits(x, {})
    <3>1. <<>> \in Tails
      BY DEF Tails
    <3>2. [NewMcp EXCEPT !.state = s] \in McpRecord
      BY <3>1 DEF NewMcp, McpRecord, McpStates, Tasks, Attempts, Terminals, Requests, Reasons, Statuses
    <3>3. LET x == [NewMcp EXCEPT !.state = s] IN
          x.tail = <<>> /\ x.request = "none" /\ x.loading = "none" /\ ~x.agent /\ x.reason = "none"
      BY DEF NewMcp
    <3> QED BY <3>2, <3>3 DEF Fits
  <2>2. \E s \in {"unborn", "running"} : mcp[m] = [NewMcp EXCEPT !.state = s]
    BY DEF Init, NewMcp
  <2> QED BY <2>1, <2>2
<1>4. NoPipe \in PipeRecord /\ NoPipe.peer = 0 /\ NoPipe.buffer = <<>>
  BY DEF NoPipe, PipeRecord
<1>5. Peopled
  <2>1. app = [a \in Apps |-> app[a]] /\ mcp = [m \in Mcps |-> mcp[m]]
    BY DEF Init
  <2> QED BY <1>1, <1>2, <1>3, <1>4, <2>1 DEF Peopled
<1>6. Staffed
  <2>1. lines \in Seq(Elements(Phases))
    BY <1>1
  <2>2. observer \in ObserverRecord
    BY <1>1 DEF ObserverRecord
  <2>3. script \in ScriptRecord
    BY <1>1 DEF ScriptRecord
  <2> QED BY <1>1, <2>1, <2>2, <2>3 DEF Staffed
<1>7. Told
  <2>1. ASSUME NEW m \in Mcps PROVE Trail(m) = {}
    BY <1>1, <1>3, <1>4, HostAssumption DEF Trail, Elements, Heard
  <2> QED BY <1>3, <2>1 DEF Told
<1>8. Bound
  BY <1>1, <1>2, <1>4 DEF Bound, Concluding
<1>9. Scripted
  BY <1>1 DEF Scripted
<1> QED BY <1>5, <1>6, <1>7, <1>8, <1>9 DEF AcceptanceInv

LEMMA StepHolds ==
  ASSUME AcceptanceInv, [Next]_vars
  PROVE  AcceptanceInv'
<1>1. CASE UNCHANGED vars
  BY <1>1 DEF vars, AcceptanceInv, Peopled, Staffed, Told, Trail, Heard, Bound, StartedAfter,
              Scripted, ObserverOver
<1>2. CASE ObserverSteps
  BY <1>2, ObserverHolds
<1>3. CASE ReadLine \/ LinesEnd \/ RemoveDescriptor \/ ScriptDies \/ OtherEnds
  BY <1>3, ScriptAloneHolds
<1>4. CASE Leave \/ Interrupt
  BY <1>4, KillingHolds
<1>5. ASSUME NEW a \in Apps, AppStarts(a) \/ AppExits(a) PROVE AcceptanceInv'
  BY <1>5, AppHolds
<1>6. ASSUME NEW m \in Mcps, ProcessStep(m) \/ LeaveMarker(m) PROVE AcceptanceInv'
  BY <1>6, ProcessHolds, LeaveMarkerHolds
<1> QED
  BY <1>1, <1>2, <1>3, <1>4, <1>5, <1>6 DEF Next, ScriptSteps, Finished, AgentSteps, ProcessStep

(* What the theorems below rest on: what every process has told fits its     *)
(* request, wherever the frames are (host-acceptance-client.ts:165-262),     *)
(* the observer hears the one it bound (ObserverSession.cs:45-90), and the   *)
(* script knows of its descriptor and of the observer's end                  *)
(* (start-session.mjs:608-652).                                              *)
THEOREM AcceptanceInvariant == Spec => []AcceptanceInv
<1>1. Init => AcceptanceInv
  BY InitHolds
<1>2. AcceptanceInv /\ [Next]_vars => AcceptanceInv'
  BY StepHolds
<1> QED BY <1>1, <1>2, PTL DEF Spec

(* Hosts, processes, pipe, observer, script and disk have their types, the   *)
(* frames those of the protocol (host-acceptance-client.ts:20-60).           *)
THEOREM AcceptanceTypeCorrect == Spec => [](Peopled /\ Staffed)
<1>1. AcceptanceInv => Peopled /\ Staffed
  BY DEF AcceptanceInv
<1> QED BY <1>1, AcceptanceInvariant, PTL

(* A receipt tells the truth, for any hosts and processes that come, go and  *)
(* ask in any order: the old host and its process had exited before the new  *)
(* host started, and the delegate of the new one was cancelled by Stop, with *)
(* no agent and no marker left (ObserverSession.cs:45-90,                    *)
(* AcceptanceState.cs:185-245, host-acceptance-client.ts:205-262).           *)
THEOREM ReceiptsAreTrue == Spec => []ReceiptIsTrue
<1>1. AcceptanceInv => ReceiptIsTrue
  <2> SUFFICES ASSUME AcceptanceInv, disk.receipt PROVE ReceiptIsTrue
    BY DEF ReceiptIsTrue
  <2>1. observer.at = "passed" /\ observer.at \in Concluding
    BY DEF AcceptanceInv, Bound, Concluding
  <2>2. observer.new \notin disk.markers
    BY <2>1 DEF AcceptanceInv, Bound
  <2> QED BY <2>1, <2>2, Convicted DEF ReceiptIsTrue, StartedAfter
<1> QED BY <1>1, AcceptanceInvariant, PTL

(* No step lets the script say success without the receipt, leave with its   *)
(* own descriptor published or the observer running, or take away the        *)
(* descriptor of another session (start-session.mjs:608-652, 965-1017).      *)
THEOREM ScriptStaysHonest == Spec => ScriptIsHonest
<1> DEFINE Honest ==
      /\ script'.at = "succeeded" => disk'.receipt /\ disk'.descriptor # "ours"
      /\ script'.at \in {"succeeded", "failed"} =>
           disk'.descriptor # "ours" /\ observer'.at \in {"passed", "failed", "killed"}
      /\ disk.descriptor = "other" /\ disk'.descriptor # "other" => UNCHANGED script
<1>1. ASSUME AcceptanceInv, AcceptanceInv', Next
      PROVE  Honest
  <2>1. script'.at = "succeeded" => disk'.receipt /\ disk'.descriptor # "ours"
    BY <1>1 DEF AcceptanceInv, Scripted, Bound
  <2>2. script'.at \in {"succeeded", "failed"} =>
          disk'.descriptor # "ours" /\ observer'.at \in {"passed", "failed", "killed"}
    BY <1>1 DEF AcceptanceInv, Scripted, ObserverOver
  <2>3. ASSUME disk.descriptor = "other", disk'.descriptor # "other" PROVE UNCHANGED script
    <3>1. disk \in [descriptor : {"none", "ours", "other"}, receipt : BOOLEAN, markers : SUBSET Mcps]
      BY <1>1 DEF AcceptanceInv, Staffed
    <3>2. disk' # disk
      BY <2>3
    <3>3. ~PublishDescriptor /\ disk' # RemoveExactDescriptor
      BY <2>3, <3>2 DEF PublishDescriptor, RemoveExactDescriptor
    <3>4. ~WriteReceipt
      BY <2>3, <3>1 DEF WriteReceipt
    <3>5. \A m \in Mcps : ~LeaveMarker(m)
      BY <2>3, <3>1 DEF LeaveMarker
    <3>6. CASE ObserverSteps
      BY <3>2, <3>4, <3>6 DEF ObserverSteps, CreatePipe, Accept, ObserveOldHello, ObserveOldExited,
         ObserveNewHello, Observe, RequireCleanEof, RequireCompletionMarkerAbsent
    <3>7. CASE ScriptSteps \/ Interrupt \/ ScriptDies \/ Finished
      BY <3>2, <3>3, <3>7 DEF ScriptSteps, ReadLine, LinesEnd, RemoveDescriptor, Leave, Interrupt,
         ScriptDies, Finished, vars
    <3>8. CASE OtherEnds
      BY <3>8 DEF OtherEnds
    <3>9. CASE \E a \in Apps : AppStarts(a) \/ AppExits(a)
      BY <3>2, <3>9 DEF AppStarts, AppExits
    <3>10. CASE \E m \in Mcps : ProcessStep(m)
      BY <3>2, <3>10 DEF ProcessStep, ClientSteps, RequestSteps, HostSteps, McpStarts, Ask, McpExits,
         Loaded, Connect, ConnectFails, Write, Shutdown, Stop, SessionCloses, AgentEnds,
         AgentTerminated, Settle
    <3> QED BY <1>1, <3>5, <3>6, <3>7, <3>8, <3>9, <3>10 DEF Next, AgentSteps, ProcessStep
  <2> QED BY <2>1, <2>2, <2>3
<1>2. AcceptanceInv /\ AcceptanceInv' /\ [Next]_vars => [Honest]_vars
  BY <1>1
<1> HIDE DEF Honest
<1>3. Spec => [][Honest]_vars
  BY <1>2, AcceptanceInvariant, PTL DEF Spec
<1> QED BY <1>3 DEF ScriptIsHonest, Honest

-----------------------------------------------------------------------------
(* The receipt of the observer *)

Millis == {t \in Nat : t % TicksPerMs = 0}

(* Whole milliseconds compare as their ticks do. *)
LEMMA InMillis ==
  /\ \A t \in Nat : NormalizeTimestamp(t) \in Millis
  /\ \A t \in Millis : FormatTimestamp(t) \in Nat
  /\ \A s, t \in Millis : s <= t => FormatTimestamp(s) <= FormatTimestamp(t)
  /\ \A s, t \in Millis : s < t => FormatTimestamp(s) < FormatTimestamp(t)
<1>1. TicksPerMs \in Nat /\ TicksPerMs > 0
  BY ClockAssumption
<1>2. ASSUME NEW t \in Nat
      PROVE  /\ t \div TicksPerMs \in Nat /\ t % TicksPerMs \in 0..(TicksPerMs - 1)
             /\ t = TicksPerMs * (t \div TicksPerMs) + (t % TicksPerMs)
  BY <1>1
<1>3. ASSUME NEW t \in Nat PROVE NormalizeTimestamp(t) \in Millis
  <2> DEFINE n == t - (t % TicksPerMs)
             q == t \div TicksPerMs
  <2>1. n = TicksPerMs * q /\ n \in Nat /\ q \in Nat
    BY <1>1, <1>2
  <2>2. n % TicksPerMs = 0
    <3>1. n = TicksPerMs * (n \div TicksPerMs) + (n % TicksPerMs)
          /\ n \div TicksPerMs \in Nat /\ n % TicksPerMs \in 0..(TicksPerMs - 1)
      BY <1>2, <2>1
    <3> DEFINE p == n \div TicksPerMs
               r == n % TicksPerMs
    <3> HIDE DEF n, p, q, r
    <3>2. TicksPerMs * (q - p) = r /\ r \in 0..(TicksPerMs - 1) /\ p \in Nat
      BY <1>1, <2>1, <3>1 DEF p, r
    <3>3. q - p = 0
      <4>1. CASE q - p >= 1
        BY <1>1, <2>1, <3>2, <4>1
      <4>2. CASE q - p <= -1
        BY <1>1, <2>1, <3>2, <4>2
      <4> QED BY <2>1, <3>2, <4>1, <4>2
    <3> QED BY <1>1, <3>2, <3>3 DEF r
  <2> QED BY <2>1, <2>2 DEF Millis, NormalizeTimestamp
<1>4. ASSUME NEW s \in Millis, NEW t \in Millis
      PROVE  /\ FormatTimestamp(t) \in Nat
             /\ s <= t => FormatTimestamp(s) <= FormatTimestamp(t)
             /\ s < t => FormatTimestamp(s) < FormatTimestamp(t)
  <2> DEFINE p == s \div TicksPerMs
             q == t \div TicksPerMs
  <2>1. s = TicksPerMs * p /\ t = TicksPerMs * q /\ p \in Nat /\ q \in Nat
    <3>1. s \in Nat /\ t \in Nat /\ s % TicksPerMs = 0 /\ t % TicksPerMs = 0
      BY DEF Millis
    <3>2. /\ p \in Nat /\ s = TicksPerMs * p + (s % TicksPerMs)
          /\ q \in Nat /\ t = TicksPerMs * q + (t % TicksPerMs)
      BY <1>2, <3>1
    <3> HIDE DEF p, q
    <3> QED BY <1>1, <3>1, <3>2
  <2> HIDE DEF p, q
  <2>2. ASSUME s <= t, p > q PROVE FALSE
    BY <1>1, <2>1, <2>2
  <2>3. ASSUME s < t, p >= q PROVE FALSE
    BY <1>1, <2>1, <2>3
  <2> QED BY <2>1, <2>2, <2>3 DEF p, q, FormatTimestamp
<1> QED BY <1>3, <1>4

(* What the machine has seen of the hosts. *)
Times == [Places -> Millis]

HostsSeen ==
  /\ machine.stage \in {"oldHello", "oldExit", "newHello", "events", "completed", "failed"}
  /\ machine.stage \in {"oldExit", "newHello", "events", "completed"} =>
       machine.old.created \in Times /\ InOrder(machine.old.created)
  /\ machine.stage \in {"newHello", "events", "completed"} =>
       /\ machine.exited \in Times
       /\ \A p \in Places : machine.old.created[p] < machine.exited[p]
  /\ machine.stage \in {"events", "completed"} =>
       /\ machine.new.created \in Times /\ InOrder(machine.new.created)
       /\ \A p \in Places : machine.exited[p] < machine.new.created[1]
       /\ AllDistinct(machine.old.names \o machine.new.names)

Formed(x) ==
  x = [stage |-> x.stage, old |-> x.old, exited |-> x.exited, new |-> x.new,
       events |-> x.events, binding |-> x.binding, last |-> x.last]

(* The events so far are the first of those expected, each behind the one    *)
(* before it in time and in the chain of hashes.                             *)
Linked(x) ==
  /\ Listed(x.events)
  /\ \A i \in 1..Len(x.events) :
       LET event == x.events[i]
           previous == IF i = 1 THEN x.binding ELSE x.events[i - 1].hash
       IN /\ event.at \in Nat /\ event.previous = previous
          /\ event.hash = EventHash(ExpectedEvents[i][1], event.at, previous, ExpectedEvents[i][2])
          /\ i > 1 => x.events[i - 1].at <= event.at
  /\ x.events # <<>> => x.events[1].at >= FormatTimestamp(x.new.created[3])

EventsSeen ==
  /\ Formed(machine) /\ Linked(machine)
  /\ machine.stage \notin {"events", "completed"} => machine.events = <<>>
  /\ machine.stage = "events" => Len(machine.events) \in {0, 1, 2, 4, 5, 6}
  /\ machine.stage = "completed" => Len(machine.events) = 7
  /\ machine.events # <<>> =>
       /\ machine.binding = BindingHash(machine.new.names)
       /\ machine.last \in Millis
       /\ machine.events[Len(machine.events)].at = FormatTimestamp(machine.last)

ReceiptInv == HostsSeen /\ EventsSeen

(* An event that is expected, not before the last one, makes the chain longer. *)
LEMMA ObservedIs ==
  ASSUME NEW x, Formed(x), Linked(x), NEW at \in Millis, NEW what,
         what = ExpectedEvents[Len(x.events) + 1],
         x.events # <<>> => x.events[Len(x.events)].at <= FormatTimestamp(at),
         x.events = <<>> => FormatTimestamp(at) >= FormatTimestamp(x.new.created[3])
  PROVE  LET y == Observed(x, at, what) IN
         /\ Formed(y) /\ Linked(y)
         /\ y.stage = x.stage /\ y.old = x.old /\ y.exited = x.exited /\ y.new = x.new
         /\ y.binding = x.binding /\ y.last = x.last
         /\ Len(x.events) \in Nat /\ Len(y.events) = Len(x.events) + 1 /\ y.events # <<>>
         /\ y.events[Len(y.events)].at = FormatTimestamp(at)
<1> DEFINE n == Len(x.events)
           e == NewEvent(what[1], at, LastHash(x), what[2])
           longer == Append(x.events, e)
           y == Observed(x, at, what)
<1>1. y = [x EXCEPT !.events = longer]
  BY DEF Observed
<1>2. /\ Listed(longer) /\ n \in Nat /\ Len(longer) = n + 1
      /\ DOMAIN longer = 1..(n + 1) /\ DOMAIN x.events = 1..n
      /\ \A i \in 1..n : longer[i] = x.events[i]
      /\ longer[n + 1] = e
  <2> HIDE DEF e
  <2> QED BY Longer DEF Linked
<1>3. x.events = <<>> <=> n = 0
  BY <1>2 DEF Linked, Listed
<1>4. /\ FormatTimestamp(at) \in Nat
      /\ e.at = FormatTimestamp(at) /\ e.previous = LastHash(x)
      /\ e.hash = EventHash(what[1], FormatTimestamp(at), LastHash(x), what[2])
  BY InMillis DEF NewEvent
<1>5. LastHash(x) = IF n = 0 THEN x.binding ELSE x.events[n].hash
  BY <1>3 DEF LastHash, Last
<1> HIDE DEF e, longer, y
<1>6. /\ Formed(y) /\ y.events = longer /\ y.stage = x.stage /\ y.old = x.old
      /\ y.exited = x.exited /\ y.new = x.new /\ y.binding = x.binding /\ y.last = x.last
  BY <1>1 DEF Formed
<1>7. longer # <<>>
  BY <1>2
<1>8. ASSUME NEW i \in 1..(n + 1)
      PROVE  LET event == longer[i]
                 previous == IF i = 1 THEN x.binding ELSE longer[i - 1].hash
             IN /\ event.at \in Nat /\ event.previous = previous
                /\ event.hash = EventHash(ExpectedEvents[i][1], event.at, previous, ExpectedEvents[i][2])
                /\ i > 1 => longer[i - 1].at <= event.at
  <2>1. CASE i \in 1..n
    <3>1. i > 1 => i - 1 \in 1..n
      BY <1>2, <2>1
    <3>2. longer[i] = x.events[i] /\ (i > 1 => longer[i - 1] = x.events[i - 1])
      BY <1>2, <2>1, <3>1
    <3>3. i > 1 <=> i # 1
      BY <1>2, <2>1
    <3>4. LET event == x.events[i]
              previous == IF i = 1 THEN x.binding ELSE x.events[i - 1].hash
          IN /\ event.at \in Nat /\ event.previous = previous
             /\ event.hash = EventHash(ExpectedEvents[i][1], event.at, previous, ExpectedEvents[i][2])
             /\ i > 1 => x.events[i - 1].at <= event.at
      BY <2>1 DEF Linked
    <3> HIDE DEF n
    <3> QED BY <3>2, <3>3, <3>4
  <2>2. CASE i = n + 1
    <3>1. n > 0 => /\ n \in 1..n /\ longer[n] = x.events[n] /\ i - 1 = n
                   /\ x.events[n].at <= FormatTimestamp(at)
      BY <1>2, <1>3, <2>2
    <3>2. longer[i] = e /\ (i = 1 <=> n = 0) /\ (i > 1 <=> n > 0) /\ what = ExpectedEvents[i]
      BY <1>2, <2>2
    <3> QED BY <1>2, <1>4, <1>5, <3>1, <3>2
  <2> QED BY <1>2, <2>1, <2>2
<1>9. longer[1].at >= FormatTimestamp(x.new.created[3])
  <2>1. CASE n = 0
    BY <1>2, <1>3, <1>4, <2>1
  <2>2. CASE n # 0
    <3>1. 1 \in 1..n
      BY <1>2, <2>2
    <3> QED BY <1>2, <1>3, <2>2, <3>1 DEF Linked
  <2> QED BY <2>1, <2>2
<1>10. Linked(y)
  BY <1>2, <1>6, <1>8, <1>9 DEF Linked
<1> QED BY <1>2, <1>4, <1>6, <1>7, <1>10 DEF y

LEMMA RejectedHolds == machine' = Rejected => ReceiptInv'
<1>1. Listed(<<>>) /\ Len(<<>>) = 0
  BY DEF Listed, Elements
<1> QED BY <1>1 DEF Rejected, Unobserved, ReceiptInv, HostsSeen, EventsSeen, Formed, Linked

LEMMA ReceiptInitHolds == ReceiptInit => ReceiptInv
<1>1. Listed(<<>>) /\ Len(<<>>) = 0
  BY DEF Listed, Elements
<1> QED BY <1>1 DEF ReceiptInit, Unobserved, ReceiptInv, HostsSeen, EventsSeen, Formed, Linked

LEMMA NormalizedIs ==
  ASSUME NEW times \in [Places -> Ticks]
  PROVE  Normalized(times) \in Times
BY InMillis, ClockAssumption DEF Normalized, Times, Ticks

(* The steps before the events set out with the hosts. *)
LEMMA HostStepsHold ==
  ASSUME ReceiptInv, ObserveOldHost \/ ObserveOldHostGone \/ ObserveNewHost
  PROVE  ReceiptInv'
<1>1. CASE machine' = Rejected
  BY <1>1, RejectedHolds
<1>2. Formed(machine) /\ Linked(machine) /\ (machine.stage \notin {"events", "completed"} => machine.events = <<>>)
  BY DEF ReceiptInv, EventsSeen
<1>3. Len(<<>>) = 0
  OBVIOUS
<1>4. ASSUME NEW chain, machine.stage = "oldHello", InOrder(chain.created), chain.created \in Times,
             machine' = [machine EXCEPT !.stage = "oldExit", !.old = chain]
      PROVE  ReceiptInv'
  <2>1. /\ Formed(machine)' /\ machine'.stage = "oldExit" /\ machine'.old = chain
        /\ machine'.events = <<>> /\ machine.events = <<>>
    BY <1>2, <1>4 DEF Formed
  <2>2. HostsSeen'
    BY <1>4, <2>1 DEF HostsSeen
  <2>3. EventsSeen'
    BY <1>2, <1>3, <2>1 DEF EventsSeen, Linked
  <2> QED BY <2>2, <2>3 DEF ReceiptInv
<1>5. ASSUME NEW exits, machine.stage = "oldExit", exits \in Times,
             \A p \in Places : machine.old.created[p] < exits[p],
             machine' = [machine EXCEPT !.stage = "newHello", !.exited = exits]
      PROVE  ReceiptInv'
  <2>1. /\ Formed(machine)' /\ machine'.stage = "newHello" /\ machine'.old = machine.old
        /\ machine'.exited = exits /\ machine'.events = <<>> /\ machine.events = <<>>
    BY <1>2, <1>5 DEF Formed
  <2>2. HostsSeen'
    BY <1>5, <2>1 DEF ReceiptInv, HostsSeen
  <2>3. EventsSeen'
    BY <1>2, <1>3, <2>1 DEF EventsSeen, Linked
  <2> QED BY <2>2, <2>3 DEF ReceiptInv
<1>6. ASSUME NEW chain, machine.stage = "newHello", InOrder(chain.created), chain.created \in Times,
             \A p \in Places : machine.exited[p] < chain.created[1],
             AllDistinct(machine.old.names \o chain.names),
             machine' = [machine EXCEPT !.stage = "events", !.new = chain]
      PROVE  ReceiptInv'
  <2>1. /\ Formed(machine)' /\ machine'.stage = "events" /\ machine'.old = machine.old
        /\ machine'.exited = machine.exited /\ machine'.new = chain
        /\ machine'.events = <<>> /\ machine.events = <<>>
    BY <1>2, <1>6 DEF Formed
  <2>2. HostsSeen'
    BY <1>6, <2>1 DEF ReceiptInv, HostsSeen
  <2>3. EventsSeen'
    BY <1>2, <1>3, <2>1 DEF EventsSeen, Linked
  <2> QED BY <2>2, <2>3 DEF ReceiptInv
<1>7. ASSUME NEW names, NEW times \in [Places -> Ticks]
      PROVE  Chain(names, times).created \in Times /\ Chain(names, times).names = names
  BY NormalizedIs DEF Chain
<1>8. CASE ObserveOldHost
  BY <1>1, <1>4, <1>7, <1>8 DEF ObserveOldHost
<1>9. CASE ObserveOldHostGone
  BY <1>1, <1>5, <1>9, NormalizedIs DEF ObserveOldHostGone
<1>10. CASE ObserveNewHost
  BY <1>1, <1>6, <1>7, <1>10 DEF ObserveNewHost
<1> QED BY <1>8, <1>9, <1>10

(* Which events the next frame stands for *)
LEMMA NextEvents ==
  ASSUME NEW n \in {0, 1, 2, 4, 5, 6}
  PROVE  LET k == n - (IF n > 3 THEN 1 ELSE 0) + 1
             what == Observations[k]
         IN /\ what[1] = ExpectedEvents[n + 1]
            /\ n # 2 => Len(what) = 1
            /\ n = 2 => Len(what) = 2 /\ what[2] = ExpectedEvents[4]
            /\ k = 6 <=> n = 6
            /\ Len(Observations) = 6
<1>1. CASE n = 0 BY <1>1 DEF Observations, ExpectedEvents
<1>2. CASE n = 1 BY <1>2 DEF Observations, ExpectedEvents
<1>3. CASE n = 2 BY <1>3 DEF Observations, ExpectedEvents
<1>4. CASE n = 4 BY <1>4 DEF Observations, ExpectedEvents
<1>5. CASE n = 5 BY <1>5 DEF Observations, ExpectedEvents
<1>6. CASE n = 6 BY <1>6 DEF Observations, ExpectedEvents
<1> QED BY <1>1, <1>2, <1>3, <1>4, <1>5, <1>6

LEMMA ObserveNextHolds ==
  ASSUME ReceiptInv, ObserveNext
  PROVE  ReceiptInv'
<1> DEFINE n == Len(machine.events)
           k == FramesTaken + 1
           what == Observations[k]
           next(at) == [machine EXCEPT !.binding = BindingHash(machine.new.names), !.last = at]
           final(at) == [ObservedAll(next(at), at, what) EXCEPT
                           !.stage = IF k = Len(Observations) THEN "completed" ELSE @]
<1>0. /\ Formed(machine) /\ Linked(machine) /\ machine.stage = "events"
      /\ n \in {0, 1, 2, 4, 5, 6} /\ HostsSeen
      /\ machine.events = <<>> <=> n = 0
  BY DEF ReceiptInv, EventsSeen, ObserveNext, Linked, Listed
<1>1. CASE machine' = Rejected
  BY <1>1, RejectedHolds
<1>2. ASSUME NEW at \in Millis, machine' = final(at),
             at >= IF machine.events = <<>> THEN machine.new.created[3] ELSE machine.last
      PROVE  ReceiptInv'
  <2> DEFINE x == next(at)
             once == Observed(x, at, what[1])
             twice == Observed(once, at, what[2])
             all == ObservedAll(x, at, what)
  <2>1. /\ what[1] = ExpectedEvents[n + 1]
        /\ n # 2 => Len(what) = 1
        /\ n = 2 => Len(what) = 2 /\ what[2] = ExpectedEvents[4]
        /\ k = Len(Observations) <=> n = 6
    <3>1. k = n - (IF n > 3 THEN 1 ELSE 0) + 1
      BY DEF FramesTaken
    <3> HIDE DEF n, k
    <3> QED BY <1>0, <3>1, NextEvents
  <2>2. /\ Formed(x) /\ x.stage = "events" /\ x.old = machine.old /\ x.exited = machine.exited
        /\ x.new = machine.new /\ x.events = machine.events
        /\ x.binding = BindingHash(machine.new.names) /\ x.last = at
    <3>1. PICK h : h = BindingHash(machine.new.names) /\ x = [machine EXCEPT !.binding = h, !.last = at]
      OBVIOUS
    <3> HIDE DEF x
    <3> QED BY <1>0, <3>1 DEF Formed
  <2>3. all = IF Len(what) = 1 THEN once ELSE twice
    BY DEF ObservedAll
  <2>4. machine' = [all EXCEPT !.stage = IF k = Len(Observations) THEN "completed" ELSE all.stage]
    BY <1>2
  <2> HIDE DEF x, all, what, k
  <2>5. machine.events # <<>> =>
          /\ machine.binding = x.binding /\ machine.last \in Millis
          /\ machine.events[n].at = FormatTimestamp(machine.last)
    BY <2>2 DEF ReceiptInv, EventsSeen
  <2>6. Linked(x)
    BY <1>0, <2>2, <2>5 DEF Linked
  <2>7. machine.new.created[3] \in Millis
    BY <1>0 DEF HostsSeen, Times, Places
  <2>8. /\ n # 0 => x.events[n].at <= FormatTimestamp(at)
        /\ n = 0 => FormatTimestamp(at) >= FormatTimestamp(x.new.created[3])
    <3>1. FormatTimestamp(at) \in Nat /\ FormatTimestamp(machine.new.created[3]) \in Nat
      BY <2>7, InMillis
    <3>2. n = 0 => at >= machine.new.created[3]
      BY <1>0, <1>2
    <3>3. n # 0 => at >= machine.last
      BY <1>0, <1>2
    <3>4. n = 0 => FormatTimestamp(machine.new.created[3]) <= FormatTimestamp(at)
      BY <2>7, <3>2, InMillis DEF Millis
    <3>5. n # 0 => FormatTimestamp(machine.last) <= FormatTimestamp(at)
      BY <1>0, <2>5, <3>3, InMillis DEF Millis
    <3> QED BY <1>0, <2>2, <2>5, <3>1, <3>4, <3>5
  <2>9. /\ Formed(once) /\ Linked(once)
        /\ once.stage = x.stage /\ once.old = x.old /\ once.exited = x.exited /\ once.new = x.new
        /\ once.binding = x.binding /\ once.last = x.last
        /\ Len(once.events) = n + 1 /\ once.events # <<>>
        /\ once.events[Len(once.events)].at = FormatTimestamp(at)
    BY <1>0, <2>1, <2>2, <2>6, <2>8, ObservedIs
  <2> HIDE DEF once
  <2>10. ASSUME n = 2
         PROVE  /\ Formed(twice) /\ Linked(twice)
                /\ twice.stage = x.stage /\ twice.old = x.old /\ twice.exited = x.exited
                /\ twice.new = x.new /\ twice.binding = x.binding /\ twice.last = x.last
                /\ Len(twice.events) = 4 /\ twice.events # <<>>
                /\ twice.events[Len(twice.events)].at = FormatTimestamp(at)
    <3>1. what[2] = ExpectedEvents[Len(once.events) + 1] /\ Len(once.events) + 1 = 4
      BY <2>1, <2>9, <2>10
    <3>2. once.events[Len(once.events)].at <= FormatTimestamp(at)
      BY <2>9, InMillis
    <3>3. Formed(once) /\ Linked(once) /\ once.events # <<>>
      BY <2>9
    <3>4. /\ Formed(twice) /\ Linked(twice)
          /\ twice.stage = once.stage /\ twice.old = once.old /\ twice.exited = once.exited
          /\ twice.new = once.new /\ twice.binding = once.binding /\ twice.last = once.last
          /\ Len(twice.events) = Len(once.events) + 1 /\ twice.events # <<>>
          /\ twice.events[Len(twice.events)].at = FormatTimestamp(at)
      BY <3>1, <3>2, <3>3, ObservedIs
    <3> HIDE DEF twice
    <3> QED BY <2>9, <2>10, <3>1, <3>4
  <2> HIDE DEF twice
  <2>11. /\ Formed(all) /\ Linked(all)
         /\ all.stage = "events" /\ all.old = machine.old /\ all.exited = machine.exited
         /\ all.new = machine.new /\ all.binding = BindingHash(machine.new.names) /\ all.last = at
         /\ Len(all.events) = (IF n = 2 THEN 4 ELSE n + 1) /\ all.events # <<>>
         /\ all.events[Len(all.events)].at = FormatTimestamp(at)
    <3>1. CASE n = 2
      <4>1. all = twice
        BY <2>1, <2>3, <3>1
      <4> HIDE DEF n
      <4> QED BY <2>2, <2>10, <3>1, <4>1
    <3>2. CASE n # 2
      BY <2>1, <2>2, <2>3, <2>9, <3>2
    <3> QED BY <3>1, <3>2
  <2>12. PICK s : machine' = [all EXCEPT !.stage = s] /\ s = IF n = 6 THEN "completed" ELSE "events"
    BY <2>1, <2>4, <2>11
  <2>13. /\ Formed(machine)' /\ machine'.stage = s /\ machine'.old = machine.old
         /\ machine'.exited = machine.exited /\ machine'.new = machine.new
         /\ machine'.binding = BindingHash(machine.new.names) /\ machine'.last = at
         /\ machine'.events = all.events
    BY <2>11, <2>12 DEF Formed
  <2>14. Linked(machine')
    BY <2>11, <2>13 DEF Linked
  <2>15. HostsSeen'
    BY <1>0, <2>12, <2>13 DEF HostsSeen
  <2>16. Len(machine'.events) = (IF n = 2 THEN 4 ELSE n + 1) /\ s \in {"events", "completed"}
         /\ (s = "completed" <=> n = 6)
    BY <2>11, <2>12, <2>13
  <2>17. EventsSeen'
    <3>1. /\ machine'.stage = "events" => Len(machine'.events) \in {0, 1, 2, 4, 5, 6}
          /\ machine'.stage = "completed" => Len(machine'.events) = 7
      <4> HIDE DEF n
      <4> QED BY <1>0, <2>13, <2>16
    <3> QED BY <2>11, <2>13, <2>14, <2>16, <3>1 DEF EventsSeen
  <2> QED BY <2>15, <2>17 DEF ReceiptInv
<1>3. PICK tick \in Ticks, fits \in BOOLEAN :
        machine' =
          IF fits /\ NormalizeTimestamp(tick) >=
                       (IF machine.events = <<>> THEN machine.new.created[3] ELSE machine.last)
          THEN final(NormalizeTimestamp(tick)) ELSE Rejected
  BY DEF ObserveNext
<1>4. NormalizeTimestamp(tick) \in Millis
  BY InMillis, ClockAssumption DEF Ticks
<1> HIDE DEF final
<1> QED BY <1>1, <1>2, <1>3, <1>4

(* What the machine has seen is what the validator asks for. *)
LEMMA SeenIsAccepted ==
  ASSUME ReceiptInv
  PROVE  CompletedIsAccepted
<1> SUFFICES ASSUME machine.stage = "completed" PROVE ReceiptHolds(Receipt)
  BY DEF CompletedIsAccepted
<1> DEFINE old == [names |-> machine.old.names, created |-> Formatted(machine.old.created),
                   exited |-> Formatted(machine.exited)]
           new == [names |-> machine.new.names, created |-> Formatted(machine.new.created)]
<1>1. /\ machine.old.created \in Times /\ InOrder(machine.old.created)
      /\ machine.exited \in Times /\ machine.new.created \in Times /\ InOrder(machine.new.created)
      /\ \A p \in Places : /\ machine.old.created[p] < machine.exited[p]
                           /\ machine.exited[p] < machine.new.created[1]
      /\ AllDistinct(machine.old.names \o machine.new.names)
  BY DEF ReceiptInv, HostsSeen
<1>2. /\ Linked(machine) /\ Len(machine.events) = 7 /\ DOMAIN machine.events = 1..7
      /\ machine.events # <<>> /\ machine.binding = BindingHash(machine.new.names)
  BY DEF ReceiptInv, EventsSeen, Linked, Listed
<1>3. EventsHold(machine.binding, machine.events)
  <2>1. Len(ExpectedEvents) = 7
    BY DEF ExpectedEvents
  <2> QED BY <1>2, <2>1 DEF EventsHold, Linked
<1>4. ASSUME NEW times \in Times, InOrder(times) PROVE InOrder(Formatted(times))
  BY <1>4, InMillis DEF InOrder, Formatted, Times, Places
<1>5. ASSUME NEW s \in Times, NEW t \in Times, NEW p \in Places, NEW q \in Places, s[p] < t[q]
      PROVE  Formatted(s)[p] < Formatted(t)[q]
  BY <1>5, InMillis DEF Formatted, Times
<1>6. TimelineHolds(old, new, machine.events)
  <2>1. InOrder(old.created) /\ InOrder(new.created)
    BY <1>1, <1>4
  <2>2. \A p \in Places : old.created[p] < old.exited[p] /\ old.exited[p] < new.created[1]
    BY <1>1, <1>5 DEF Places
  <2>3. machine.events[1].at >= new.created[3]
    BY <1>2 DEF Linked, Formatted, Places
  <2>4. \A i \in DOMAIN machine.events \ {1} : machine.events[i - 1].at <= machine.events[i].at
    BY <1>2 DEF Linked
  <2> HIDE DEF old, new
  <2> QED BY <2>1, <2>2, <2>3, <2>4 DEF TimelineHolds
<1>7. Receipt = [oldHost |-> old, newHost |-> new, binding |-> machine.binding, events |-> machine.events]
  BY DEF Receipt
<1>8. old.names = machine.old.names /\ new.names = machine.new.names
  OBVIOUS
<1> HIDE DEF old, new
<1> QED BY <1>1, <1>2, <1>3, <1>6, <1>7, <1>8 DEF ReceiptHolds

(* The validator accepts every receipt of a session the observer completed,  *)
(* for any clock, any length of a millisecond and any identities             *)
(* (AcceptanceState.cs:153-247, release-validation.ts:1178-1351).            *)
THEOREM CompletedCounts == ReceiptSpec => []CompletedIsAccepted
<1>1. ReceiptInit => ReceiptInv
  BY ReceiptInitHolds
<1>2. ReceiptInv /\ [ReceiptNext]_machine => ReceiptInv'
  <2>1. CASE UNCHANGED machine
    BY <2>1 DEF ReceiptInv, HostsSeen, EventsSeen
  <2> QED BY <2>1, HostStepsHold, ObserveNextHolds DEF ReceiptNext
<1>3. ReceiptInv => CompletedIsAccepted
  BY SeenIsAccepted
<1> QED BY <1>1, <1>2, <1>3, PTL DEF ReceiptSpec

-----------------------------------------------------------------------------
(* The release *)

(* Every file record: that of the maintainers and those of the commits.     *)
Records == {checkout} \cup {commits[c].files : c \in DOMAIN commits}

(* What is true of whatever the maintainers wrote, when it was written and   *)
(* ever after: a freeze is of its commit, a stable marker is of a beta that  *)
(* is public, a receipt is of a session.                                     *)
Truthful(files) ==
  /\ files = [name \in FileNames |-> files[name]]
  /\ files.freeze # Missing =>
       LET commit == files.freeze.commit
           frozen == commits[commit].files
       IN /\ commit \in DOMAIN commits
          /\ files.freeze = FreezeReceipt(frozen, commit)
          /\ frozen.sources = frozen.manifest
  /\ files.stableMarker # Missing => registry["beta"] # Missing
  /\ files.receipt # Missing => files.receipt \in sessions

Grown ==
  /\ Listed(commits) /\ head \in DOMAIN commits
  /\ tags = [v \in Versions |-> tags[v]] /\ registry = [v \in Versions |-> registry[v]]
  /\ \A v \in Versions : tags[v] # Missing => tags[v] \in DOMAIN commits

(* What is in the registry was verified, and still would be. *)
Verifiable ==
  \A v \in Versions : registry[v] # Missing =>
    /\ tags[v] # Missing /\ Verified(v, tags[v])
    /\ registry[v] = Package(commits[tags[v]].files)

ReleaseInv == Grown /\ (\A files \in Records : Truthful(files)) /\ Verifiable

(* Nothing is taken back. *)
Growing ==
  /\ DOMAIN commits \subseteq DOMAIN commits' /\ \A c \in DOMAIN commits : commits'[c] = commits[c]
  /\ \A v \in Versions : /\ tags[v] # Missing => tags'[v] = tags[v]
                         /\ registry[v] # Missing => registry'[v] = registry[v]
  /\ sessions \subseteq sessions' /\ maySkip' = maySkip

LEMMA FreezeIs ==
  ASSUME NEW files, NEW commit
  PROVE  /\ FreezeReceipt(files, commit).canonical = CanonicalDigest(files)
         /\ FreezeReceipt(files, commit).observer = ObserverArtifact(files)
         /\ FreezeReceipt(files, commit).capabilities = Fingerprints[files.index]
BY DEF FreezeReceipt

LEMMA TruthfulStays ==
  ASSUME Growing, NEW files, Truthful(files)
  PROVE  Truthful(files)'
BY DEF Growing, Truthful, FreezeReceipt, Versions


(* What was verified once is verified for ever. *)
LEMMA VerifiedStays ==
  ASSUME ReleaseInv, Growing, NEW v \in Versions, NEW commit \in DOMAIN commits,
         tags[v] = commit, tags[v] # Missing, Verified(v, commit)
  PROVE  Verified(v, commit)'
<1>1. /\ commits'[commit] = commits[commit] /\ tags'[v] = commit /\ maySkip' = maySkip
  BY DEF Growing
<1> DEFINE files == commits[commit].files
<1>2. CASE v = "beta"
  <2>1. VerifyBeta(files, commit)
    BY <1>2 DEF Verified
  <2>2. VerifyBeta(files, commit)'
    BY <1>1, <1>2, <2>1 DEF VerifyBeta, CoreHolds, IsAncestor
  <2> QED BY <1>1, <1>2, <2>2 DEF Verified
<1>3. CASE v = "stable"
  <2> DEFINE marker == files.stableMarker
  <2>1. VerifyStable(files, commit)
    BY <1>3 DEF Verified
  <2>2. registry["beta"] # Missing
    <3>1. files \in Records /\ marker # Missing
      BY <2>1 DEF Records, VerifyStable
    <3> QED BY <3>1 DEF ReleaseInv, Truthful
  <2>3. /\ registry'["beta"] = registry["beta"] /\ tags'["beta"] = tags["beta"]
        /\ tags["beta"] \in DOMAIN commits /\ commits'[tags["beta"]] = commits[tags["beta"]]
    BY <2>2 DEF Versions, Growing, ReleaseInv, Grown, Verifiable
  <2>4. BetaHolds(marker.publicBeta, marker.core, commit)
    BY <2>1 DEF VerifyStable
  <2>5. BetaHolds(marker.publicBeta, marker.core, commit)'
    <3>1. marker.publicBeta.commit = tags["beta"] /\ marker' = marker
      BY <1>1, <2>4 DEF BetaHolds
    <3> HIDE DEF marker
    <3> QED BY <1>1, <2>3, <2>4, <3>1 DEF BetaHolds, IsAncestor
  <2>6. VerifyStable(files, commit)'
    BY <1>1, <1>3, <2>1, <2>5 DEF VerifyStable, CoreHolds, IsAncestor, HostHolds
  <2> QED BY <1>1, <1>3, <2>6 DEF Verified
<1> QED BY <1>2, <1>3 DEF Versions

LEMMA StaysVerifiable ==
  ASSUME ReleaseInv, Growing, registry' = registry
  PROVE  Verifiable'
<1> SUFFICES ASSUME NEW v \in Versions, registry[v] # Missing
             PROVE  /\ tags'[v] # Missing /\ Verified(v, tags[v])'
                    /\ registry[v] = Package(commits[tags[v]].files)'
  BY DEF Verifiable
<1>1. /\ tags[v] # Missing /\ tags'[v] = tags[v] /\ tags[v] \in DOMAIN commits
      /\ commits'[tags[v]] = commits[tags[v]] /\ Verified(v, tags[v])
      /\ registry[v] = Package(commits[tags[v]].files)
  BY DEF ReleaseInv, Grown, Verifiable, Growing
<1>2. Verified(v, tags[v])'
  BY <1>1, VerifiedStays DEF ReleaseInv
<1> QED BY <1>1, <1>2

LEMMA ReleaseInitHolds ==
  ASSUME ReleaseInit
  PROVE  ReleaseInv
<1>1. /\ checkout = [name \in FileNames |-> checkout[name]]
      /\ checkout.freeze = Missing /\ checkout.stableMarker = Missing /\ checkout.receipt = Missing
  BY ReleaseAssumption DEF ReleaseInit, FileNames
<1>2. Truthful(checkout)
  BY <1>1 DEF Truthful
<1> DEFINE first == [files |-> checkout, line |-> {1}]
<1>3. commits = <<first>> /\ head = 1 /\ DOMAIN commits = {1} /\ commits[1].files = checkout
  BY DEF ReleaseInit
<1>4. Listed(commits)
  <2>1. \A x : <<x>> \in Seq({<<x>>[i] : i \in {1}})
    OBVIOUS
  <2> QED BY <1>3, <2>1 DEF Listed, Elements
<1>5. tags = [v \in Versions |-> Missing] /\ registry = [v \in Versions |-> Missing]
  BY DEF ReleaseInit
<1>6. Grown /\ Verifiable
  BY <1>3, <1>4, <1>5 DEF Grown, Verifiable
<1> QED BY <1>2, <1>3, <1>6 DEF ReleaseInv, Records

(* Most steps only write into the checkout. *)
LEMMA Written ==
  ASSUME ReleaseInv, UNCHANGED <<commits, tags, registry, maySkip>>, head' \in DOMAIN commits,
         sessions \subseteq sessions', Truthful(checkout)'
  PROVE  ReleaseInv'
<1>1. Growing
  BY DEF Growing
<1>2. Grown' /\ Verifiable'
  BY <1>1, StaysVerifiable DEF ReleaseInv, Grown
<1>3. ASSUME NEW files \in Records' PROVE Truthful(files)'
  <2>1. CASE files \in Records
    BY <1>1, <2>1, TruthfulStays DEF ReleaseInv
  <2>2. files = checkout' \/ files \in Records
    BY DEF Records
  <2> QED BY <2>1, <2>2
<1> QED BY <1>2, <1>3 DEF ReleaseInv

(* What is written beside freeze, stable marker and receipt is not told of. *)
LEMMA Rewritten ==
  ASSUME ReleaseInv, UNCHANGED <<head, commits, tags, registry, maySkip, sessions>>,
         checkout' = [name \in FileNames |-> checkout'[name]],
         checkout'.freeze = checkout.freeze, checkout'.stableMarker = checkout.stableMarker,
         checkout'.receipt = checkout.receipt
  PROVE  ReleaseInv'
<1>1. Truthful(checkout)
  BY DEF ReleaseInv, Records
<1>2. Truthful(checkout)'
  BY <1>1 DEF Truthful, FreezeReceipt
<1> QED BY <1>2, Written DEF ReleaseInv, Grown

LEMMA MaintainersHold ==
  ASSUME ReleaseInv, UNCHANGED maySkip,
         Edit \/ BuildObserver \/ CheckOut \/ FreezeHost \/ PrepareBeta \/ PrepareStable \/ HostSession
  PROVE  ReleaseInv'
<1>0. /\ UNCHANGED <<commits, tags, registry>> /\ Truthful(checkout) /\ head \in DOMAIN commits
      /\ checkout = [name \in FileNames |-> checkout[name]]
  BY DEF Edit, BuildObserver, CheckOut, FreezeHost, PrepareBeta, PrepareStable, HostSession,
         UnchangedHistory, ReleaseInv, Records, Truthful, Grown
<1> DEFINE told == {"freeze", "stableMarker", "receipt"}
<1>1. told \subseteq FileNames /\ told \cap DOMAIN Contents = {}
      /\ {"observer", "manifest", "version", "betaMarker"} \subseteq FileNames
      /\ told \cap {"observer", "manifest", "version", "betaMarker"} = {}
  BY ReleaseAssumption DEF FileNames
<1>2. CASE Edit
  <2>1. PICK file \in DOMAIN Contents : \E content : checkout' = [checkout EXCEPT ![file] = content]
    BY <1>2 DEF Edit
  <2> QED BY <1>0, <1>1, <1>2, <2>1, Rewritten DEF Edit, UnchangedHistory
<1>3. CASE BuildObserver
  <2>1. checkout' = [checkout EXCEPT !.observer = checkout.sources, !.manifest = checkout.sources]
    BY <1>3 DEF BuildObserver
  <2> QED BY <1>0, <1>1, <1>3, <2>1, Rewritten DEF BuildObserver, UnchangedHistory
<1>4. CASE PrepareBeta
  <2>1. checkout' = [checkout EXCEPT !.version = "beta", !.betaMarker = BetaMarker(checkout)]
    BY <1>4 DEF PrepareBeta
  <2> QED BY <1>0, <1>1, <1>4, <2>1, Rewritten DEF PrepareBeta, UnchangedHistory
<1>5. CASE CheckOut
  <2>1. PICK commit \in DOMAIN commits : head' = commit /\ checkout' = commits[commit].files
    BY <1>5 DEF CheckOut
  <2>2. commits[commit].files \in Records /\ sessions' = sessions
    BY <1>5 DEF Records, CheckOut
  <2>3. Truthful(checkout)'
    BY <1>0, <2>1, <2>2 DEF ReleaseInv, Truthful, FreezeReceipt
  <2> QED BY <1>0, <2>1, <2>2, <2>3, Written
<1>6. CASE FreezeHost
  <2>1. /\ checkout = commits[head].files /\ checkout.sources = checkout.manifest
        /\ checkout' = [checkout EXCEPT !.freeze = FreezeReceipt(checkout, head)]
        /\ UNCHANGED <<head, sessions>>
    BY <1>6 DEF FreezeHost, Clean, ObserverProvenance, UnchangedHistory
  <2>2. /\ checkout' = [name \in FileNames |-> checkout'[name]]
        /\ checkout'.freeze = FreezeReceipt(checkout, head)
        /\ checkout'.stableMarker = checkout.stableMarker /\ checkout'.receipt = checkout.receipt
    BY <1>0, <1>1, <2>1
  <2>3. FreezeReceipt(checkout, head).commit = head
    BY DEF FreezeReceipt
  <2>4. Truthful(checkout)'
    <3>1. LET commit == checkout'.freeze.commit
              frozen == commits'[commit].files
          IN /\ commit \in DOMAIN commits'
             /\ checkout'.freeze = FreezeReceipt(frozen, commit)
             /\ frozen.sources = frozen.manifest
      BY <1>0, <2>1, <2>2, <2>3
    <3>2. registry' = registry /\ sessions' = sessions
      BY <1>0, <2>1
    <3> QED BY <1>0, <2>2, <3>1, <3>2 DEF Truthful
  <2> QED BY <1>0, <2>1, <2>4, Written
<1>7. CASE PrepareStable
  <2>1. /\ UNCHANGED <<head, sessions>> /\ registry["beta"] # Missing
        /\ checkout' = [name \in FileNames |-> checkout'[name]]
        /\ checkout'.freeze = checkout.freeze
        /\ checkout'.receipt = checkout.receipt \/ checkout'.receipt \in sessions
    <3>1. PICK core \in {Core(checkout), PublicBeta.marker.core} :
            \/ \E receipt \in sessions :
                 checkout' = [checkout EXCEPT
                   !.version = "stable", !.receipt = receipt,
                   !.stableMarker = [core |-> core, publicBeta |-> PublicBeta,
                                     host |-> [status |-> "passed", receipt |-> receipt,
                                               nonce |-> receipt.nonce]]]
            \/ checkout' = [checkout EXCEPT
                 !.version = "stable",
                 !.stableMarker = [core |-> core, publicBeta |-> PublicBeta,
                                   host |-> [status |-> "skipped", decision |-> PublicBeta]]]
      BY <1>7 DEF PrepareStable
    <3> DEFINE tried(receipt) == [core |-> core, publicBeta |-> PublicBeta,
                                  host |-> [status |-> "passed", receipt |-> receipt,
                                            nonce |-> receipt.nonce]]
               skipped == [core |-> core, publicBeta |-> PublicBeta,
                           host |-> [status |-> "skipped", decision |-> PublicBeta]]
    <3>2. \/ \E receipt \in sessions, marker \in {tried(r) : r \in sessions} :
               checkout' = [checkout EXCEPT !.version = "stable", !.receipt = receipt,
                                            !.stableMarker = marker]
          \/ checkout' = [checkout EXCEPT !.version = "stable", !.stableMarker = skipped]
      BY <3>1
    <3> HIDE DEF tried, skipped
    <3>3. /\ checkout' = [name \in FileNames |-> checkout'[name]]
          /\ checkout'.freeze = checkout.freeze
          /\ checkout'.receipt = checkout.receipt \/ checkout'.receipt \in sessions
      BY <1>0, <1>1, <3>2
    <3> QED BY <1>7, <3>3 DEF PrepareStable, UnchangedHistory
  <2>2. Truthful(checkout)'
    BY <1>0, <2>1 DEF Truthful, FreezeReceipt
  <2> QED BY <1>0, <2>1, <2>2, Written
<1>8. CASE HostSession
  <2>1. UNCHANGED <<head, checkout>> /\ sessions \subseteq sessions'
    BY <1>8 DEF HostSession, UnchangedHistory
  <2>2. Truthful(checkout)'
    BY <1>0, <2>1 DEF Truthful, FreezeReceipt
  <2> QED BY <1>0, <2>1, <2>2, Written
<1> QED BY <1>2, <1>3, <1>4, <1>5, <1>6, <1>7, <1>8

LEMMA CommitHolds ==
  ASSUME ReleaseInv, UNCHANGED maySkip, CommitFiles
  PROVE  ReleaseInv'
<1> DEFINE new == [files |-> checkout, line |-> commits[head].line \cup {Len(commits) + 1}]
<1>1. /\ commits' = Append(commits, new) /\ head' = Len(commits) + 1
      /\ UNCHANGED <<checkout, tags, registry, sessions>>
  BY DEF CommitFiles
<1>2. new.files = checkout
  OBVIOUS
<1> HIDE DEF new
<1>3. /\ Listed(commits') /\ DOMAIN commits = 1..Len(commits) /\ DOMAIN commits' = 1..(Len(commits) + 1)
      /\ Len(commits) \in Nat
      /\ \A c \in 1..Len(commits) : commits'[c] = commits[c]
      /\ commits'[Len(commits) + 1] = new
  BY <1>1, Longer DEF ReleaseInv, Grown
<1>4. Growing
  BY <1>1, <1>3 DEF Growing
<1>5. Grown'
  BY <1>1, <1>3 DEF ReleaseInv, Grown, Listed
<1>6. ASSUME NEW files \in Records' PROVE Truthful(files)'
  <2>1. Records' = Records
    <3>1. ASSUME NEW c \in DOMAIN commits' PROVE commits'[c].files \in Records
      BY <1>2, <1>3 DEF Records
    <3>2. ASSUME NEW c \in DOMAIN commits PROVE commits[c].files \in Records'
      BY <1>3 DEF Records
    <3> QED BY <1>1, <3>1, <3>2 DEF Records
  <2> QED BY <1>4, <2>1, TruthfulStays DEF ReleaseInv
<1>7. Verifiable'
  BY <1>1, <1>4, StaysVerifiable
<1> QED BY <1>5, <1>6, <1>7 DEF ReleaseInv

LEMMA TagHolds ==
  ASSUME ReleaseInv, UNCHANGED maySkip, TagCommit
  PROVE  ReleaseInv'
<1>1. PICK v \in Versions : tags[v] = Missing /\ tags' = [tags EXCEPT ![v] = head]
  BY DEF TagCommit
<1>2. UNCHANGED <<checkout, head, commits, registry, sessions>>
  BY DEF TagCommit
<1>3. Growing
  BY <1>1, <1>2 DEF Growing, ReleaseInv, Grown
<1>4. Grown'
  BY <1>1, <1>2 DEF ReleaseInv, Grown, Listed
<1>5. Records' = Records
  BY <1>2 DEF Records
<1>6. \A files \in Records' : Truthful(files)'
  BY <1>3, <1>5, TruthfulStays DEF ReleaseInv
<1>7. Verifiable'
  BY <1>2, <1>3, StaysVerifiable
<1> QED BY <1>4, <1>6, <1>7 DEF ReleaseInv

LEMMA PublishHolds ==
  ASSUME ReleaseInv, UNCHANGED maySkip, PublishPackage
  PROVE  ReleaseInv'
<1>1. PICK v \in Versions : /\ tags[v] # Missing /\ registry[v] = Missing /\ Verified(v, tags[v])
                            /\ registry' = [registry EXCEPT ![v] = Package(commits[tags[v]].files)]
  BY DEF PublishPackage
<1>2. UNCHANGED <<checkout, head, commits, tags, sessions>>
  BY DEF PublishPackage
<1>3. Growing
  BY <1>1, <1>2 DEF Growing, ReleaseInv, Grown
<1>4. Grown'
  BY <1>1, <1>2 DEF ReleaseInv, Grown, Listed
<1>5. Records' = Records
  BY <1>2 DEF Records
<1>6. \A files \in Records' : Truthful(files)'
  BY <1>3, <1>5, TruthfulStays DEF ReleaseInv
<1>7. ASSUME NEW w \in Versions, registry'[w] # Missing
      PROVE  /\ tags'[w] # Missing /\ Verified(w, tags[w])'
             /\ registry'[w] = Package(commits[tags[w]].files)'
  <2>1. tags[w] # Missing /\ Verified(w, tags[w]) /\ tags[w] \in DOMAIN commits
    BY <1>1, <1>7 DEF ReleaseInv, Grown, Verifiable
  <2>2. Verified(w, tags[w])'
    BY <1>2, <1>3, <2>1, VerifiedStays
  <2>3. registry'[w] = Package(commits[tags[w]].files)
    BY <1>1, <1>7 DEF ReleaseInv, Grown, Verifiable
  <2> QED BY <1>2, <2>1, <2>2, <2>3 DEF Package, PluginDigest
<1>8. Verifiable'
  BY <1>7 DEF Verifiable
<1> QED BY <1>4, <1>6, <1>8 DEF ReleaseInv

LEMMA ReleaseStepHolds ==
  ASSUME ReleaseInv, [ReleaseNext]_releaseVars
  PROVE  ReleaseInv'
<1>1. CASE UNCHANGED releaseVars
  BY <1>1, Written DEF releaseVars, ReleaseInv, Grown, Records, Truthful, FreezeReceipt
<1>2. CASE ReleaseNext
  BY <1>2, MaintainersHold, CommitHolds, TagHolds, PublishHolds DEF ReleaseNext
<1> QED BY <1>1, <1>2

(* What was verified of a stable version has been true of its beta before.  *)
LEMMA VerifiedIsTested ==
  ASSUME ReleaseInv
  PROVE  StableWasTested
<1> SUFFICES ASSUME registry["stable"] # Missing
             PROVE  LET stable == commits[tags["stable"]].files
                        beta == commits[tags["beta"]].files
                        frozen == commits[beta.betaMarker.core.commit].files
                    IN /\ registry["beta"] = Package(beta)
                       /\ tags["beta"] \in commits[tags["stable"]].line \ {tags["stable"]}
                       /\ beta.betaMarker.core.commit \in commits[tags["beta"]].line \ {tags["beta"]}
                       /\ \A file \in {"inputs", "helper"} :
                            stable[file] = beta[file] /\ beta[file] = frozen[file]
                       /\ stable.index = beta.index
                       /\ Fingerprints[beta.index] = Fingerprints[frozen.index]
                       /\ beta.observer = frozen.observer /\ beta.sources = frozen.sources
                       /\ maySkip \/ \E receipt \in sessions :
                            receipt.commit = tags["beta"] /\ receipt.npm = registry["beta"]
  BY DEF StableWasTested
<1> DEFINE stable == commits[tags["stable"]].files
           beta == commits[tags["beta"]].files
           marker == stable.stableMarker
           core == beta.betaMarker.core
           frozen == commits[core.commit].files
<1>1. VerifyStable(stable, tags["stable"]) /\ tags["stable"] \in DOMAIN commits
  BY DEF ReleaseInv, Verifiable, Grown, Verified, Versions
<1>2. stable \in Records /\ Truthful(stable) /\ marker # Missing
  BY <1>1 DEF ReleaseInv, Records, VerifyStable
<1>3. registry["beta"] # Missing
  BY <1>2 DEF Truthful
<1>4. /\ VerifyBeta(beta, tags["beta"]) /\ tags["beta"] \in DOMAIN commits
      /\ registry["beta"] = Package(beta)
  BY <1>3 DEF ReleaseInv, Verifiable, Grown, Verified, Versions
<1>5. beta \in Records /\ Truthful(beta)
  BY <1>4 DEF ReleaseInv, Records
<1>6. /\ marker.publicBeta.commit = tags["beta"] /\ tags["beta"] # tags["stable"]
      /\ tags["beta"] \in commits[tags["stable"]].line
      /\ marker.core = core
      /\ registry["beta"] = marker.publicBeta.npm
  BY <1>1 DEF VerifyStable, BetaHolds, IsAncestor
<1>7. /\ core.commit # tags["beta"] /\ core.commit \in commits[tags["beta"]].line
      /\ core.canonical = CanonicalDigest(beta) /\ core.helper = beta.helper /\ core.index = beta.index
  BY <1>4 DEF VerifyBeta, CoreHolds, IsAncestor
<1>8. core.canonical = CanonicalDigest(stable) /\ core.helper = stable.helper /\ core.index = stable.index
  BY <1>1, <1>6 DEF VerifyStable, CoreHolds
<1>9. /\ beta.freeze # Missing /\ beta.freeze.commit = core.commit
      /\ beta.freeze.capabilities = Fingerprints[beta.index]
      /\ beta.freeze.observer = beta.betaMarker.observer
      /\ beta.freeze.canonical = core.canonical
      /\ ObserverProvenance(beta.betaMarker.observer, beta)
  BY <1>4 DEF VerifyBeta, FreezeHolds
<1>10. beta.freeze = FreezeReceipt(frozen, core.commit) /\ frozen.sources = frozen.manifest
  BY <1>5, <1>9 DEF Truthful
<1>11. /\ beta.freeze.capabilities = Fingerprints[frozen.index]
       /\ beta.freeze.observer = ObserverArtifact(frozen)
       /\ beta.freeze.canonical = CanonicalDigest(frozen)
  <2> HIDE DEF beta, core, frozen
  <2> QED BY <1>10, FreezeIs
<1>12. ASSUME NEW x, NEW y, CanonicalDigest(x) = CanonicalDigest(y)
       PROVE  x.inputs = y.inputs /\ x.helper = y.helper
  BY <1>12 DEF CanonicalDigest
<1>13. \A file \in {"inputs", "helper"} : stable[file] = beta[file] /\ beta[file] = frozen[file]
  <2>1. /\ CanonicalDigest(stable) = CanonicalDigest(beta)
        /\ CanonicalDigest(beta) = CanonicalDigest(frozen)
    BY <1>7, <1>8, <1>9, <1>11
  <2> HIDE DEF stable, beta, frozen
  <2> QED BY <1>12, <2>1
<1>14. beta.observer = frozen.observer /\ beta.sources = frozen.sources
  <2>1. ObserverProvenance(ObserverArtifact(frozen), beta)
    BY <1>9, <1>11
  <2> HIDE DEF beta, frozen
  <2> QED BY <1>10, <2>1 DEF ObserverProvenance, ObserverArtifact
<1>15. maySkip \/ \E receipt \in sessions :
         receipt.commit = tags["beta"] /\ receipt.npm = registry["beta"]
  <2>1. HostHolds(marker, stable)
    BY <1>1 DEF VerifyStable
  <2>2. stable.receipt # Missing => stable.receipt \in sessions
    BY <1>2 DEF Truthful
  <2> QED BY <1>6, <2>1, <2>2 DEF HostHolds, SessionHolds
<1>16. stable.index = beta.index /\ Fingerprints[beta.index] = Fingerprints[frozen.index]
  BY <1>7, <1>8, <1>9, <1>11
<1> QED BY <1>4, <1>6, <1>7, <1>13, <1>14, <1>15, <1>16

(* What is published as stable was frozen, published as beta and tried,      *)
(* whatever was edited, committed, checked out and written in between, in    *)
(* any order and any number of times (release-validation.ts:1765-1980).      *)
THEOREM StableIsWhatWasTested == ReleaseSpec => []StableWasTested
<1>1. ReleaseInit => ReleaseInv
  BY ReleaseInitHolds
<1>2. ReleaseInv /\ [ReleaseNext]_releaseVars => ReleaseInv'
  BY ReleaseStepHolds
<1>3. ReleaseInv => StableWasTested
  BY VerifiedIsTested
<1> QED BY <1>1, <1>2, <1>3, PTL DEF ReleaseSpec

(* Both, which is what the run checks of a release: what it says has been    *)
(* tried, and a completed session counts (release-validation.ts:1765-1980).  *)
THEOREM ReleasesAreTested == ReleaseSpec /\ ReceiptSpec => []ReleaseIsTested
<1>1. StableWasTested /\ CompletedIsAccepted => ReleaseIsTested
  BY DEF ReleaseIsTested
<1> QED BY <1>1, StableIsWhatWasTested, CompletedCounts, PTL

=============================================================================
