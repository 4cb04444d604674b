---------------------------- MODULE StdioSession ----------------------------
(***************************************************************************)
(* The MCP session on stdio (src/mcp/stdio-session.ts), the tasks it has   *)
(* in flight (in-flight.ts), the tool handlers (tools.ts) with their       *)
(* progress and lifecycle events, and the run of the task service          *)
(* (src/tasks/service.ts) inside a slot of the limiter.                    *)
(*                                                                         *)
(* An action is what happens between two awaits.  The limiter is taken by  *)
(* its contract, BoundedPool, which KeyedLimiter is checked to implement.  *)
(* The clients of the adapters are taken by what KimiClient and PiClient   *)
(* show of them: a run that completed has seen its process end, but one    *)
(* that failed or was cancelled may have given up on it, the helper out of *)
(* reach or the kill of the group refused, and leave it to itself.         *)
(***************************************************************************)
EXTENDS Naturals, Sequences, FiniteSets

CONSTANTS
  Requests,    \* the calls a host may make
  Delegates,   \* those of external_delegate; the rest are reviews
  Kimi,        \* those run by the Kimi adapter; the rest by Pi
  Keys, KeyOf, Limit   \* the pools of the registry

ASSUME RequestAssumption == Delegates \subseteq Requests /\ Kimi \subseteq Requests
ASSUME PoolAssumption ==
  KeyOf \in [Requests -> Keys] /\ Limit \in [Keys -> Nat \ {0}]

VARIABLES
  s,                \* the session: the variables of createMcpStdioSession
  admissionClosed,  \* InFlightTasks: #admissionClosed and the shutdown signal
  tasks,            \* InFlightTasks: #tasks
  awaited,          \* the snapshot drain() is waiting for
  r,                \* per request, what its handler and its signal have come to
  agents,           \* requests whose agent process lives, with its adapter or left behind
  fresh, waiting, holding   \* the limiter

sessionVars == <<s, admissionClosed, awaited>>
poolVars == <<fresh, waiting, holding>>
vars == <<s, admissionClosed, tasks, awaited, r, agents, fresh, waiting, holding>>

Pool == INSTANCE BoundedPool WITH Jobs <- Requests

NoFailure == "none"
Failures == {"connect", "input", "close", "listeners"}
Statuses == {"completed", "failed", "cancelled", "timed_out", "workspace_changed"}
Reasons == {"cancelled", "session_shutdown", "timed_out"}
Events == {"requestStarted", "sdkAbort", "ownedExit", "handlerCancelled",
           "inFlightRemoved"}

(* received: parsed by the SDK.  sink: tracked, openRequest() is awaited.   *)
(* waiting, granted: in the limiter.  launching: the adapter has looked at  *)
(* the signals and is starting its process.  leaving: Kimi has its result   *)
(* or its failure, listens no longer and waits for its process to be gone.  *)
(* after: the adapter returned.                                             *)
(* finishing: the service settled.  settled: the handler did.               *)
Working == {"waiting", "granted", "launching", "running", "leaving", "after",
            "finishing"}
Live == {"received", "sink", "settled"} \cup Working
Stages == {"idle", "gone"} \cup Live
Returned == {"after", "finishing", "settled", "gone"}   \* no adapter works with the agent

Session == [started : BOOLEAN, listening : BOOLEAN, closeRequested : BOOLEAN,
            connection : {"none", "connecting", "failing", "connected", "failed"},
            shutdown : {"none", "closing", "draining", "over"},
            failure : Failures \cup {NoFailure},
            completion : {"pending", "resolved", "rejected"}]

Request == [stage : Stages, aborted : BOOLEAN, owed : BOOLEAN,
            reason : Reasons \cup {"none"}, status : Statuses \cup {"none"},
            log : Seq(Events)]

TypeOK ==
  /\ s \in Session /\ admissionClosed \in BOOLEAN
  /\ tasks \subseteq Requests /\ awaited \subseteq Requests /\ agents \subseteq Requests
  /\ r \in [Requests -> Request]
  /\ Pool!TypeOK

Init ==
  /\ s = [started |-> FALSE, listening |-> FALSE, closeRequested |-> FALSE,
          connection |-> "none", shutdown |-> "none", failure |-> NoFailure,
          completion |-> "pending"]
  /\ admissionClosed = FALSE /\ tasks = {} /\ awaited = {} /\ agents = {}
  /\ r = [q \in Requests |-> [stage |-> "idle", aborted |-> FALSE, owed |-> FALSE,
                              reason |-> "none", status |-> "none", log |-> <<>>]]
  /\ Pool!Init

-----------------------------------------------------------------------------
(* The two signals of a request *)

HasSink(x) == x.log # <<>>

(* An event reaches the sink, if there is one. *)
Emit(x, event) == IF HasSink(x) THEN [x EXCEPT !.log = Append(@, event)] ELSE x

\* Mutant: a run that is still starting its process does not hear the signal.
CancelRunWhenRunning(x, why) ==
  IF x.stage = "running" /\ x.reason = "none" THEN [x EXCEPT !.reason = why] ELSE x

(* cancel() of an adapter: the first reason counts. *)
CancelRun(x, why) ==
  IF x.stage \in {"launching", "running"} /\ x.reason = "none"
    THEN [x EXCEPT !.reason = why] ELSE x

\* Mutant: an aborted waiter stays in line.
AbortLeavingWaiter(x) ==
  IF x.stage \notin Live \/ x.aborted THEN x
  ELSE [CancelRun(Emit(x, "sdkAbort"), "cancelled") EXCEPT !.aborted = TRUE]

\* Mutant: the lifecycle goes on listening after it has finished.
AbortAfterFinish(x) ==
  IF x.stage \notin Live \/ x.aborted THEN x
  ELSE [CancelRun(Emit(x, "sdkAbort"), "cancelled") EXCEPT
          !.aborted = TRUE, !.stage = IF @ = "waiting" THEN "finishing" ELSE @]

(* The listeners of extra.signal: of the lifecycle while it is active, of   *)
(* the limiter while the job waits, and of the adapter.                     *)
AbortRequest(x) ==
  IF x.stage \notin Live \/ x.aborted THEN x
  ELSE LET seen == IF x.stage \in Working THEN Emit(x, "sdkAbort") ELSE x
       IN [CancelRun(seen, "cancelled") EXCEPT
             !.aborted = TRUE,
             !.stage = IF @ = "waiting" THEN "finishing" ELSE @]

(* closeAdmission() aborts the shutdown signal, which only adapters watch. *)
CloseAdmission(x) == CancelRun(x, "session_shutdown")

-----------------------------------------------------------------------------
(* The session *)

FirstFailure(failure, next) == IF failure = NoFailure THEN next ELSE failure

Serving == s.connection \in {"connecting", "connected"} /\ s.shutdown = "none"

(* server.close() aborts every request the SDK still handles; the waiters   *)
(* among them leave the limiter.                                            *)
ServerClose(requests) ==
  /\ r' = [q \in Requests |-> AbortRequest(requests[q])]
  /\ waiting' = [k \in Keys |-> <<>>]
  /\ UNCHANGED <<fresh, holding>>

(* requestClose(): what an input event, a signal or close() does.  With the *)
(* connection made, startShutdown() goes on to close the server.            *)
RequestClose(failure) ==
  LET starts == s.connection = "connected" /\ s.shutdown = "none"
      told == IF s.closeRequested THEN r ELSE [q \in Requests |-> CloseAdmission(r[q])]
  IN /\ s' = [s EXCEPT !.closeRequested = TRUE,
                       !.failure = FirstFailure(@, failure),
                       !.shutdown = IF starts THEN "closing" ELSE @]
     /\ admissionClosed' = TRUE
     /\ IF starts THEN ServerClose(told) ELSE r' = told /\ UNCHANGED poolVars
     /\ UNCHANGED <<tasks, awaited, agents>>

(* end, close, SIGINT, SIGTERM *)
InputEnds == s.listening /\ ~s.closeRequested /\ RequestClose(NoFailure)

InputFails == s.listening /\ s.failure = NoFailure /\ RequestClose("input")

(* close() of the session, which needs no listener. *)
CloseSession == ~s.closeRequested /\ RequestClose(NoFailure)

FailConnect(x) ==
  [x EXCEPT !.connection = "failed", !.failure = FirstFailure(@, "connect"),
            !.listening = FALSE, !.completion = "rejected"]

(* run(): the state of the input is looked at before connect().  The SDK's  *)
(* connect() starts the transport in the same turn, so that it has failed   *)
(* before anything can be received, though its promise tells so later.      *)
Run ==
  /\ ~s.started
  /\ \E input \in {"open", "ended", "errored"},
        connects \in {"connecting", "failing", "throws"} :
       LET began == [s EXCEPT
             !.started = TRUE, !.listening = TRUE,
             !.closeRequested = @ \/ input # "open",
             !.failure = IF input = "errored" THEN "input" ELSE @]
       IN /\ s' = IF connects = "throws" THEN FailConnect(began)
                  ELSE [began EXCEPT !.connection = connects]
          /\ admissionClosed' = (admissionClosed \/ input # "open")
  /\ UNCHANGED <<tasks, awaited, r, agents, poolVars>>

Connected ==
  /\ s.connection = "connecting"
  /\ s' = [s EXCEPT !.connection = "connected",
                    !.shutdown = IF s.closeRequested THEN "closing" ELSE @]
  /\ IF s.closeRequested THEN ServerClose(r) ELSE UNCHANGED <<r, poolVars>>
  /\ UNCHANGED <<admissionClosed, tasks, awaited, agents>>

ConnectFails ==
  /\ s.connection = "failing"
  /\ s' = FailConnect(s)
  /\ UNCHANGED <<admissionClosed, tasks, awaited, r, agents, poolVars>>

(* server.close() has settled; drain() takes its first snapshot. *)
ServerClosed ==
  /\ s.shutdown = "closing"
  /\ \E failure \in {NoFailure, "close"} :
       s' = [s EXCEPT !.shutdown = "draining", !.failure = FirstFailure(@, failure)]
  /\ awaited' = tasks
  /\ UNCHANGED <<admissionClosed, tasks, r, agents, poolVars>>

(* Every promise of the snapshot has settled, and each was removed in the   *)
(* turn before; drain() looks again.  When nothing is left the listeners    *)
(* go, which may fail, and the completion settles.                          *)
SnapshotSettled == \A q \in awaited : r[q].stage = "gone"

\* Mutant: the completion does not wait for the tasks.
DrainedAtOnce ==
  /\ s.shutdown = "draining"
  /\ s' = [s EXCEPT !.shutdown = "over", !.listening = FALSE,
                    !.completion = IF s.failure = NoFailure THEN "resolved" ELSE "rejected"]
  /\ UNCHANGED <<admissionClosed, tasks, awaited, r, agents, poolVars>>

\* Mutant: a failure to remove the listeners comes after the outcome was taken.
DrainedBeforeCleanup ==
  /\ s.shutdown = "draining" /\ SnapshotSettled /\ tasks = {}
  /\ \E failure \in {NoFailure, "listeners"} :
       s' = [s EXCEPT !.shutdown = "over", !.listening = FALSE,
                      !.failure = FirstFailure(@, failure),
                      !.completion = IF s.failure = NoFailure THEN "resolved" ELSE "rejected"]
  /\ UNCHANGED <<admissionClosed, tasks, awaited, r, agents, poolVars>>

Drained ==
  /\ s.shutdown = "draining" /\ SnapshotSettled
  /\ IF tasks = {}
       THEN \E failure \in {NoFailure, "listeners"} :
              LET first == FirstFailure(s.failure, failure)
              IN s' = [s EXCEPT
                         !.shutdown = "over", !.listening = FALSE, !.failure = first,
                         !.completion = IF first = NoFailure THEN "resolved"
                                        ELSE "rejected"]
       ELSE UNCHANGED s
  /\ awaited' = tasks
  /\ UNCHANGED <<admissionClosed, tasks, r, agents, poolVars>>

-----------------------------------------------------------------------------
(* A request *)

Become(q, stage) == r' = [r EXCEPT ![q].stage = stage]

Arrive(q) ==
  /\ Serving /\ r[q].stage = "idle" /\ Become(q, "received")
  /\ UNCHANGED <<sessionVars, tasks, agents, poolVars>>

(* notifications/cancelled *)
Cancel(q) ==
  /\ Serving /\ r[q].stage \in Live /\ ~r[q].aborted
  /\ r' = [r EXCEPT ![q] = AbortRequest(@)]
  /\ IF r[q].stage = "waiting" THEN Pool!GiveUp(q) ELSE UNCHANGED poolVars
  /\ UNCHANGED <<sessionVars, tasks, agents>>

\* Mutant: admission is not checked.
HandleAlways(q) ==
  /\ r[q].stage = "received"
  /\ Become(q, "sink") /\ tasks' = tasks \cup {q}
  /\ UNCHANGED <<sessionVars, agents, poolVars>>

(* inFlight.run() refuses, or tracks the handler that asks for a sink. *)
Handle(q) ==
  /\ r[q].stage = "received"
  /\ IF admissionClosed
       THEN Become(q, "gone") /\ UNCHANGED tasks
       ELSE Become(q, "sink") /\ tasks' = tasks \cup {q}
  /\ UNCHANGED <<sessionVars, agents, poolVars>>

(* The sink came too late. *)
TurnAway(q) ==
  /\ r[q].stage = "sink" /\ admissionClosed /\ Become(q, "settled")
  /\ UNCHANGED <<sessionVars, tasks, agents, poolVars>>

(* execute(): the lifecycle says that the request has started, and at once  *)
(* that it was aborted if it was; the service asks the limiter for a slot   *)
(* unless the request is not valid.                                         *)
Execute(q) ==
  /\ r[q].stage = "sink" /\ ~admissionClosed
  /\ \E sink \in IF q \in Delegates THEN BOOLEAN ELSE {FALSE} :
       LET x == IF ~sink THEN r[q]
                ELSE [r[q] EXCEPT !.log = IF r[q].aborted
                                            THEN <<"requestStarted", "sdkAbort">>
                                            ELSE <<"requestStarted">>]
           Enters(stage) == r' = [r EXCEPT ![q] = [x EXCEPT !.stage = stage]]
       IN \/ Enters("finishing") /\ UNCHANGED poolVars
          \/ r[q].aborted /\ Enters("finishing") /\ Pool!Refuse(q)
          \/ ~r[q].aborted /\ Enters("granted") /\ Pool!Enter(q)
          \/ ~r[q].aborted /\ Enters("waiting") /\ Pool!Queue(q)
  /\ UNCHANGED <<sessionVars, tasks, agents>>

\* Mutant: the adapter looks at the signal of the request only.
PrepareIgnoringShutdown(q) ==
  /\ r[q].stage = "granted"
  /\ IF r[q].aborted
       THEN r' = [r EXCEPT ![q].stage = "after", ![q].status = "cancelled"]
       ELSE Become(q, "launching")
  /\ UNCHANGED <<sessionVars, tasks, agents, poolVars>>

(* The work of the slot up to the moment an adapter looks at the signals:   *)
(* the workspace is captured, the executable located.  Either may fail; a   *)
(* request that is no longer wanted is cancelled without a process.         *)
Prepare(q) ==
  /\ r[q].stage = "granted"
  /\ \/ Become(q, "finishing")
     \/ r' = [r EXCEPT ![q].stage = "after", ![q].status = "failed"]
     \/ /\ r[q].aborted \/ admissionClosed
        /\ r' = [r EXCEPT ![q].stage = "after", ![q].status = "cancelled"]
     \/ ~r[q].aborted /\ ~admissionClosed /\ Become(q, "launching")
  /\ UNCHANGED <<sessionVars, tasks, agents, poolVars>>

StatusOf(reason) == IF reason = "timed_out" THEN "timed_out" ELSE "cancelled"

(* A run that was cancelled does not complete; it may fail all the same. *)
Outcomes(q) ==
  IF r[q].reason = "none" THEN {"completed", "failed"}
                          ELSE {StatusOf(r[q].reason), "failed"}

(* The adapter returns; its reason was a variable of the call. *)
ReturnedWith(x, status) == [x EXCEPT !.stage = "after", !.status = status, !.reason = "none"]

Launch(q) ==
  /\ r[q].stage = "launching"
  /\ \/ Become(q, "running") /\ agents' = agents \cup {q}
     \/ /\ \E status \in Outcomes(q) \ {"completed"} :
             r' = [r EXCEPT ![q] = ReturnedWith(@, status)]
        /\ UNCHANGED agents
  /\ UNCHANGED <<sessionVars, tasks, poolVars>>

DeadlineElapses(q) ==
  /\ r[q].stage \in {"launching", "running"} /\ r[q].reason = "none"
  /\ r' = [r EXCEPT ![q] = CancelRun(@, "timed_out")]
  /\ UNCHANGED <<sessionVars, tasks, agents, poolVars>>

(* A progress notification that the host has not taken yet. *)
Report(q) ==
  /\ r[q].stage = "running" /\ ~r[q].aborted /\ ~r[q].owed
  /\ r' = [r EXCEPT ![q].owed = TRUE]
  /\ UNCHANGED <<sessionVars, tasks, agents, poolVars>>

HostReads(q) ==
  /\ r[q].owed /\ r' = [r EXCEPT ![q].owed = FALSE]
  /\ UNCHANGED <<sessionVars, tasks, agents, poolVars>>

(* finally of runKimiAcp: with the prompt answered the input of the process *)
(* is ended, with a failure the process is terminated; in both cases the    *)
(* listeners and the deadline are given up first.                           *)
KimiLetsGo(q) ==
  /\ q \in Kimi /\ r[q].stage = "running" /\ r[q].reason = "none"
  /\ \E status \in Outcomes(q) :
       r' = [r EXCEPT ![q].stage = "leaving", ![q].status = status]
  /\ UNCHANGED <<sessionVars, tasks, agents, poolVars>>

CanReturn(q) ==
  \/ r[q].stage = "running" /\ (q \in Kimi => r[q].reason # "none")
  \/ r[q].stage = "leaving"
Verdicts(q) == IF r[q].stage = "leaving" THEN {r[q].status, "failed"} ELSE Outcomes(q)

(* The adapter returns, with the process drained.  The service tells the    *)
(* lifecycle of a process that completed as cancelled, which is how a       *)
(* failed run is terminated too.                                            *)
AgentEnds(q) ==
  /\ CanReturn(q)
  /\ \E status \in Verdicts(q) :
       /\ \E ownedExit \in IF status = "failed" \/ r[q].reason = "cancelled"
                             THEN BOOLEAN ELSE {FALSE} :
            LET told == IF ownedExit THEN Emit(r[q], "ownedExit") ELSE r[q]
            IN r' = [r EXCEPT ![q] = ReturnedWith(told, status)]
  /\ agents' = agents \ {q}
  /\ UNCHANGED <<sessionVars, tasks, poolVars>>

(* The adapter returns although the process lives: terminate() or closed    *)
(* was rejected, the kill of the group was refused, or the child did not    *)
(* close in time.  What had completed has failed then; a cancelled run may  *)
(* stay cancelled.  There is no exit to tell of.                            *)
AgentLeft(q) ==
  /\ CanReturn(q)
  /\ \E status \in Verdicts(q) \ {"completed"} :
       r' = [r EXCEPT ![q] = ReturnedWith(@, status)]
  /\ UNCHANGED <<sessionVars, tasks, agents, poolVars>>

(* A process that was left behind ends by itself, if it does. *)
LeftAgentDies(q) ==
  /\ q \in agents /\ r[q].stage \in Returned
  /\ agents' = agents \ {q}
  /\ UNCHANGED <<sessionVars, tasks, r, poolVars>>

(* The workspace is captured again, and a review that finds it changed or   *)
(* sees a forbidden tool says so instead.                                   *)
Compare(q) ==
  /\ r[q].stage = "after"
  /\ \/ r' = [r EXCEPT ![q].stage = "finishing", ![q].status = "none"]
     \/ \E status \in {r[q].status} \cup
                      (IF q \in Delegates THEN {} ELSE {"workspace_changed", "failed"}) :
          r' = [r EXCEPT ![q].stage = "finishing", ![q].status = status]
  /\ UNCHANGED <<sessionVars, tasks, agents, poolVars>>

(* The turn in which the limiter passes the slot on. *)
Release(q) ==
  /\ q \in holding /\ r[q].stage \in {"finishing", "settled", "gone"}
  /\ Pool!Leave(q)
  /\ r' = [p \in Requests |->
             IF p \in holding' \ holding THEN [r[p] EXCEPT !.stage = "granted"]
                                         ELSE r[p]]
  /\ UNCHANGED <<sessionVars, tasks, agents>>

\* Mutant: the notifications are awaited whether or not the request is aborted.
FinishWhenRead(q) ==
  /\ r[q].stage = "finishing" /\ ~r[q].owed
  /\ LET x == IF r[q].status = "cancelled" THEN Emit(r[q], "handlerCancelled") ELSE r[q]
     IN r' = [r EXCEPT ![q] = [x EXCEPT !.stage = "settled"]]
  /\ UNCHANGED <<sessionVars, tasks, agents, poolVars>>

(* progress.finish() waits for the notifications or the abort, whichever is *)
(* first; then the lifecycle ends and the handler settles.                  *)
Finish(q) ==
  /\ r[q].stage = "finishing" /\ (r[q].owed => r[q].aborted)
  /\ LET x == IF r[q].status = "cancelled" THEN Emit(r[q], "handlerCancelled") ELSE r[q]
     IN r' = [r EXCEPT ![q] = [x EXCEPT !.stage = "settled", !.owed = FALSE]]
  /\ UNCHANGED <<sessionVars, tasks, agents, poolVars>>

Remove(q) ==
  /\ r[q].stage = "settled"
  /\ tasks' = tasks \ {q}
  /\ r' = [r EXCEPT ![q] = [Emit(@, "inFlightRemoved") EXCEPT !.stage = "gone"]]
  /\ UNCHANGED <<sessionVars, agents, poolVars>>

-----------------------------------------------------------------------------
RequestSteps(q) ==
  \/ Handle(q) \/ TurnAway(q) \/ Execute(q) \/ Prepare(q) \/ Launch(q)
  \/ Compare(q) \/ Finish(q) \/ Remove(q)

HostSteps(q) == Arrive(q) \/ Cancel(q) \/ HostReads(q)

AgentSteps(q) ==
  \/ DeadlineElapses(q) \/ Report(q) \/ KimiLetsGo(q)
  \/ AgentEnds(q) \/ AgentLeft(q) \/ LeftAgentDies(q)

SessionSteps == Connected \/ ConnectFails \/ ServerClosed \/ Drained

(* The session has settled and nothing is left to do. *)
Over ==
  /\ s.completion # "pending" /\ s.closeRequested
  /\ \A q \in Requests : r[q].stage \in {"idle", "gone"}
  /\ holding = {}
  /\ UNCHANGED vars

Next ==
  \/ Run \/ InputEnds \/ InputFails \/ CloseSession \/ SessionSteps \/ Over
  \/ \E q \in Requests : RequestSteps(q) \/ Release(q) \/ HostSteps(q) \/ AgentSteps(q)

Spec == Init /\ [][Next]_vars

(* The event loop runs what it has queued, and the adapter of an agent that *)
(* is terminated returns, whether or not the agent is gone.  Neither the    *)
(* host nor an agent left alone owes anything.                              *)
Terminated(q) ==
  \/ r[q].stage = "running" /\ r[q].reason # "none"
  \/ r[q].stage = "leaving" /\ r[q].status = "failed"

Fairness ==
  /\ WF_vars(SessionSteps)
  /\ \A q \in Requests :
       /\ WF_vars(RequestSteps(q)) /\ WF_vars(Release(q))
       /\ WF_vars(Terminated(q) /\ (AgentEnds(q) \/ AgentLeft(q)))

(* The Kimi CLI exits when its input ends. *)
KimiExits == \A q \in Kimi : WF_vars(r[q].stage = "leaving" /\ (AgentEnds(q) \/ AgentLeft(q)))

FairSpec == Spec /\ Fairness /\ KimiExits
UncooperativeSpec == Spec /\ Fairness

-----------------------------------------------------------------------------
(* When the session settles no request is being handled, and none follows;  *)
(* an agent that lives on is one its adapter has returned without, its      *)
(* request over and not reported as completed (stdio-session.ts:125-148,    *)
(* in-flight.ts:63-67, kimi/client.ts:626-684, pi/client.ts:755-807).       *)
NothingOutlivesSession ==
  s.completion # "pending" =>
    /\ tasks = {}
    /\ \A q \in Requests : r[q].stage \in {"idle", "received", "gone"}
    /\ \A q \in agents : r[q].stage = "gone" /\ r[q].status # "completed"

(* The limiter and the handlers agree: exactly the tasks that wait are in   *)
(* line, none of them aborted, and whoever works on a slot holds it; an     *)
(* agent has a slot and a task for as long as an adapter works with it      *)
(* (service.ts:199-202 over limiter.ts).  What an adapter left behind has   *)
(* none: the limit bounds the adapters, not the processes.                  *)
SlotsMatchTasks ==
  /\ \A q \in Requests :
       /\ (\E i \in DOMAIN waiting[KeyOf[q]] : waiting[KeyOf[q]][i] = q)
            <=> r[q].stage = "waiting"
       /\ r[q].stage = "waiting" => ~r[q].aborted
       /\ r[q].stage \in {"granted", "launching", "running", "leaving", "after"} => q \in holding
  /\ \A q \in agents : r[q].stage \notin Returned => q \in holding \cap tasks

(* The events of a request begin with its start and end with its removal,   *)
(* none comes twice, and a handler that reports a cancellation has reported *)
(* what led to it in the order the observer demands: no exit of the agent   *)
(* without the abort before it (tools.ts:315-373 against                    *)
(* AcceptanceState.cs:201-229).  Of an agent whose exit was told nothing is *)
(* left, and a request that says it was removed is tracked no more and has  *)
(* no handler.                                                              *)
Rank == [requestStarted |-> 1, sdkAbort |-> 2, ownedExit |-> 3,
         handlerCancelled |-> 4, inFlightRemoved |-> 5]
Reported(x, event) == \E i \in DOMAIN x.log : x.log[i] = event
Sound(log) ==
  \A i \in DOMAIN log :
    /\ log[i] = "requestStarted" <=> i = 1
    /\ log[i] = "inFlightRemoved" => i = Len(log)
    /\ \A j \in DOMAIN log : log[j] = log[i] => j = i
InRank(log) == \A i, j \in DOMAIN log : i < j => Rank[log[i]] < Rank[log[j]]
EventsInOrder ==
  \A q \in Requests :
    /\ Sound(r[q].log)
    /\ Reported(r[q], "handlerCancelled") =>
         /\ InRank(r[q].log)
         /\ Reported(r[q], "ownedExit") => Reported(r[q], "sdkAbort")
    /\ Reported(r[q], "ownedExit") => q \notin agents
    /\ Reported(r[q], "inFlightRemoved") => q \notin tasks /\ r[q].stage = "gone"

(* The completion settles once: it resolves of a session without failure    *)
(* and rejects with the first one, which no later failure replaces; after   *)
(* it settled none is recorded (stdio-session.ts:58-61, 115-123, 145-147).  *)
OutcomeIsFirstFailure ==
  [][ /\ s.failure # NoFailure => s'.failure = s.failure
      /\ s'.completion # "pending" =>
           (s'.completion = "resolved" <=> s'.failure = NoFailure)
      /\ s.completion # "pending" =>
           s'.completion = s.completion /\ s'.failure = s.failure ]_vars

(* Once the session was asked to close, no request is taken on and no       *)
(* adapter sets out to start a process (in-flight.ts:34-38, tools.ts:201,   *)
(* the checks of the adapters).                                             *)
NothingStartsAfterClose ==
  [][ s.closeRequested =>
        /\ tasks' \subseteq tasks
        /\ \A q \in Requests :
             r'[q].stage \in {"granted", "launching", "running"} =>
               r[q].stage \in {"waiting", "granted", "launching", "running"}
        /\ \A q \in Requests :
             r'[q].stage = "launching" => r[q].stage = "launching" ]_vars

Server == INSTANCE TaskServer WITH
  open <- ~admissionClosed, active <- tasks, ended <- s.completion # "pending"
ImplementsServer == Server!Spec

(* A session that was asked to close settles, whatever the host does or     *)
(* fails to read (stdio-session.ts:125-148, progress.ts:71-76).             *)
CloseEndsSession == s.started /\ s.closeRequested ~> s.completion # "pending"

(* An agent whose request was cancelled is reclaimed, whatever it is doing, *)
(* or its adapter returns and says that it could not.                       *)
CancelReclaimsAgent ==
  \A q \in Requests :
    (r[q].aborted /\ q \in agents) ~> (q \notin agents \/ r[q].stage \in Returned)

(* A request the host cancelled ends, also when it waits for a slot or for  *)
(* the host to read its progress.                                           *)
CancelEndsRequest ==
  \A q \in Requests : r[q].aborted ~> r[q].stage = "gone"
=============================================================================
