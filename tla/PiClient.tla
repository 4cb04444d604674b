------------------------------ MODULE PiClient ------------------------------
(***************************************************************************)
(* runPiRpc (src/adapters/pi/client.ts): one prompt over the JSON-line RPC *)
(* of Pi.  The coroutine sends its commands one after the other, waits for *)
(* agent_settled, ends the input and waits for the process; meanwhile the  *)
(* caller, the session and the deadline may cancel, the agent may write    *)
(* anything or die, and every one of them settles promises the coroutine   *)
(* may or may not be waiting for.                                          *)
(*                                                                         *)
(* run.answer is the entry of the pending map, run.completion the promise  *)
(* of agent_settled, run.flow cancellationFlow.  The reason of the closure *)
(* and its promise are agent.asked and agent.term.  Retry counters and     *)
(* tool events are in TaskEvents; diagnostics are left out.                *)
(***************************************************************************)
EXTENDS AdapterRun

CONSTANTS
  PinRetries,  \* whether the request has autoRetry and autoCompaction
  Windows,   \* the platforms: a subset of BOOLEAN
  Chunks     \* what one read of stdout may decode to: sequences of records

(* The commands of a run; qualification pins the retries of Pi.             *)
Commands == <<"set_model", "set_thinking_level">>
              \o (IF PinRetries THEN <<"set_auto_retry", "set_auto_compaction">> ELSE <<>>)
              \o <<"prompt">>
CommandNames == {Commands[i] : i \in DOMAIN Commands}
After(command) ==
  LET i == CHOOSE j \in DOMAIN Commands : Commands[j] = command IN
  IF i = Len(Commands) THEN "settling" ELSE Commands[i + 1]

Identities == {"unseen", "match", "mismatch", "unknown"}
(* A response is good, refused or, of set_model, for another model.  An     *)
(* assistant message has an identity and may be an error.                   *)
Records ==
  [type : {"response"}, says : {"ok", "refused", "mismatch"}]
    \cup [type : {"message_end"}, who : Identities \ {"unseen"}, error : BOOLEAN]
    \cup [type : {"agent_end"}, who : Identities \ {"unseen"}]
    \cup [type : {"agent_settled", "other"}]

ASSUME ChunkAssumption == Chunks \subseteq Seq(Records) /\ Windows \subseteq BOOLEAN
                             /\ PinRetries \in BOOLEAN

(* ready: racing with a cancellation.  settling: awaiting completion.       *)
(* flowing: awaiting cancellationFlow.  closing: the input was ended.       *)
(* cleanup, draining: the awaits of the finally block.                      *)
Stages == {"start", "spawning", "ready", "settling", "flowing", "closing",
           "cleanup", "draining", "done"} \cup CommandNames

Telemetry == [known : BOOLEAN, invoked : BOOLEAN, fallback : BOOLEAN,
              drained : BOOLEAN, completion : Reasons \cup {"root_exit", "none"}]
NoTelemetry == [known |-> FALSE, invoked |-> FALSE, fallback |-> FALSE,
                drained |-> FALSE, completion |-> "none"]

Run == [client : {"pi"}, stage : Stages, windows : BOOLEAN, reason : Reasons \cup {NoReason},
        answer : {"none", "ok", "refused", "mismatch", "rejected"},
        completion : {"open", "ok", "error"}, internal : BOOLEAN,
        flow : {"none", "term", "resolved"}, ownFlow : {"none", "term", "resolved"},
        exit : Reasons \cup {"root_exit", "none"}, closedError : BOOLEAN,
        reported : BOOLEAN, inputEnded : BOOLEAN, decoderDone : BOOLEAN,
        who : Identities, assistantError : BOOLEAN, invoked : BOOLEAN,
        fallback : BOOLEAN, drained : BOOLEAN, status : Statuses, telemetry : Telemetry]

PiInit ==
  /\ HostInit /\ agent = NoAgent
  /\ \E windows \in Windows :
       run = [client |-> "pi", stage |-> "start", windows |-> windows, reason |-> NoReason,
              answer |-> "none", completion |-> "open", internal |-> FALSE,
              flow |-> "none", ownFlow |-> "none", exit |-> "none",
              closedError |-> FALSE, reported |-> FALSE, inputEnded |-> FALSE,
              decoderDone |-> FALSE, who |-> "unseen", assistantError |-> FALSE,
              invoked |-> FALSE, fallback |-> FALSE, drained |-> FALSE,
              status |-> "failed", telemetry |-> NoTelemetry]

-----------------------------------------------------------------------------
(* The functions of the closure. *)
RejectPending(c) == IF c.answer = "none" THEN [c EXCEPT !.answer = "rejected"] ELSE c
FinishCompletion(c, end) == IF c.completion = "open" THEN [c EXCEPT !.completion = end] ELSE c

(* startOwnedClosure: nothing to do for a process whose exit is known.      *)
StartOwnedClosure(w, reason) ==
  IF w.run.exit # "none" THEN w ELSE World(w.run, Terminate(w.agent, reason))
FlowOf(c) == IF c.exit # "none" THEN "resolved" ELSE "term"

LatchInternalFailure(w) ==
  IF w.run.internal THEN w ELSE
  LET c == FinishCompletion(RejectPending([w.run EXCEPT !.internal = TRUE]), "error") IN
  IF w.run.windows THEN StartOwnedClosure(World(c, w.agent), "cancelled")
  ELSE World(c, Kill(w.agent, "failure"))

CancelRun(w, reason) ==
  IF w.run.reason # NoReason THEN w ELSE
  LET flow == IF w.run.windows THEN FlowOf(w.run) ELSE "resolved"
      c == [w.run EXCEPT !.reason = reason, !.flow = flow] IN
  IF w.run.windows THEN StartOwnedClosure(World(c, w.agent), reason)
  ELSE World(c, GiveGrace(w.agent))

FinishDecoder(w, torn) ==
  IF w.run.decoderDone THEN w ELSE
  LET b == World([w.run EXCEPT !.decoderDone = TRUE], w.agent) IN
  IF torn /\ w.run.reason = NoReason THEN LatchInternalFailure(b) ELSE b

Fits(completion, expected) ==
  completion = expected \/ (expected # "root_exit" /\ completion = "root_exit")
(* Mutant: the exit code of the root is not looked at.                      *)
ValidExitAnyCode(completion, clean, expected) == Fits(completion, expected)

ValidExit(completion, clean, expected) ==
  Fits(completion, expected) /\ (expected = "root_exit" => clean)

-----------------------------------------------------------------------------
(* handleRecord. *)
Recognise(who, seen) ==
  IF "unknown" \in {who, seen} THEN "unknown"
  ELSE IF "mismatch" \in {who, seen} THEN "mismatch" ELSE who

HandleRecord(c, record) ==
  CASE record.type = "response" ->
         IF c.answer = "none" /\ c.stage \in CommandNames
         THEN [c EXCEPT !.answer = IF record.says = "mismatch" /\ c.stage # "set_model"
                                   THEN "ok" ELSE record.says]
         ELSE c
    [] record.type = "message_end" ->
         [c EXCEPT !.who = Recognise(record.who, @), !.assistantError = record.error]
    [] record.type = "agent_end" -> [c EXCEPT !.who = Recognise(record.who, @)]
    [] record.type = "agent_settled" -> FinishCompletion(c, "ok")
    [] OTHER -> c

Speaks(records) == \E i \in DOMAIN records : records[i].type \in {"message_end", "agent_end"}

HandleRecords(c, records) ==
  LET after[i \in 0..Len(records)] ==
        IF i = 0 THEN c ELSE HandleRecord(after[i - 1], records[i])
  IN after[Len(records)]

-----------------------------------------------------------------------------
(* The coroutine.  Awaiting says whether its promise has not settled.       *)
Settled(flow) == CASE flow = "term" -> agent.term # "pending"
                   [] OTHER -> TRUE

Awaiting ==
  CASE run.stage = "ready" -> agent.ready = "pending" /\ run.reason = NoReason
    [] run.stage \in CommandNames -> run.answer = "none"
    [] run.stage = "settling" -> run.completion = "open"
    [] run.stage = "flowing" -> ~Settled(run.flow)
    [] run.stage = "closing" -> ~IsClosed(agent)
    [] run.stage = "cleanup" -> IF run.windows THEN ~Settled(run.ownFlow)
                                ELSE agent.kills["cleanup"] = "waiting"
    [] run.stage = "draining" -> agent.closed = "pending"
    [] OTHER -> TRUE

(* No microtask is left: the event loop may deliver the next event.         *)
Quiet == Awaiting

(* sendCommand: after a cancellation its promise is rejected at once.       *)
Send(c, command) ==
  [c EXCEPT !.stage = command, !.invoked = @ \/ command = "prompt",
            !.answer = IF c.reason = NoReason THEN "none" ELSE "rejected"]

(* The finally block, up to its first await.                                *)
Leave(w) ==
  LET c == [w.run EXCEPT !.stage = "cleanup"]
      g == ClearGrace(w.agent)
      unended == c.internal \/ (~c.inputEnded /\ c.exit = "none" /\ ~c.closedError) IN
  IF ~c.windows THEN World(c, Kill(g, "cleanup"))
  ELSE IF c.flow # "none" THEN World([c EXCEPT !.ownFlow = c.flow], g)
  ELSE IF unended THEN StartOwnedClosure(World([c EXCEPT !.ownFlow = FlowOf(c)], g), "cancelled")
  ELSE World([c EXCEPT !.ownFlow = "resolved"], g)

(* The catch block. *)
Throw(w) ==
  LET c == w.run
      b == IF c.reason # NoReason THEN w
           ELSE IF c.windows /\ c.closedError THEN World([c EXCEPT !.reported = TRUE], w.agent)
           ELSE LatchInternalFailure(w)
      status == IF b.run.internal \/ b.run.reported \/ c.reason = NoReason
                THEN "failed" ELSE StatusOfReason(c.reason) IN
  Leave(World([b.run EXCEPT !.status = status], b.agent))

Succeed(w) ==
  LET status == IF w.run.reason = NoReason THEN "completed" ELSE StatusOfReason(w.run.reason) IN
  Leave(World([w.run EXCEPT !.status = status], w.agent))

Report(c) == [c EXCEPT !.reported = TRUE, !.status = "failed"]

ResumeReady ==
  /\ run.stage = "ready" /\ ~Awaiting
  /\ Becomes(IF agent.ready = "resolved" /\ run.reason = NoReason
             THEN World(Send(run, "set_model"), agent) ELSE Throw(Here))
  /\ host' = IF run'.stage = "cleanup" THEN Deafened(host) ELSE host

ResumeCommand ==
  /\ run.stage \in CommandNames /\ ~Awaiting
  /\ LET next == After(run.stage) IN
     Becomes(CASE run.answer = "ok" ->
                    IF next = "settling" THEN World([run EXCEPT !.stage = next], agent)
                    ELSE World(Send(run, next), agent)
               [] run.answer = "mismatch" -> Throw(World([run EXCEPT !.fallback = TRUE], agent))
               [] OTHER -> Throw(Here))
  /\ host' = IF run'.stage = "cleanup" THEN Deafened(host) ELSE host

ResumeSettled ==
  /\ run.stage = "settling" /\ ~Awaiting
  /\ Becomes(IF run.completion = "error" \/ run.assistantError THEN Throw(Here)
             ELSE IF ~run.windows THEN Succeed(Here)
             ELSE IF run.reason = NoReason
             THEN World([run EXCEPT !.inputEnded = TRUE, !.stage = "closing"], agent)
             ELSE World([run EXCEPT !.stage = "flowing"], agent))
  /\ host' = IF run'.stage = "cleanup" THEN Deafened(host) ELSE host

ResumeFlowing ==
  /\ run.stage = "flowing" /\ ~Awaiting
  /\ Becomes(IF run.flow = "term" /\ agent.term = "rejected" THEN Throw(Here)
             ELSE World([run EXCEPT !.stage = "closing"], agent))
  /\ host' = IF run'.stage = "cleanup" THEN Deafened(host) ELSE host

Expected(c) == IF c.reason = NoReason THEN "root_exit" ELSE c.reason

ResumeClosing ==
  /\ run.stage = "closing" /\ ~Awaiting
  /\ Becomes(IF ~HasExit(agent) THEN Throw(Here)
             ELSE LET b == World([run EXCEPT !.exit = agent.closed, !.drained = TRUE], agent) IN
                  IF ValidExit(agent.closed, agent.clean, Expected(run)) THEN Succeed(b)
                  ELSE Throw(b))
  /\ host' = Deafened(host)

ResumeCleanup ==
  /\ run.stage = "cleanup" /\ ~Awaiting
  /\ run' = LET failed == IF run.windows
                          THEN run.ownFlow = "term" /\ agent.term = "rejected"
                          ELSE agent.kills["cleanup"] = "failed"
                c == [run EXCEPT !.stage = "draining"] IN
            IF ~failed THEN c
            ELSE IF run.windows THEN Report(c)
            ELSE IF run.status = "completed" THEN [c EXCEPT !.status = "failed"] ELSE c
  /\ UNCHANGED <<agent, host>>

(* The identity of the assistant and the telemetry of the result.           *)
Conclude(c) ==
  LET status == IF c.internal THEN "failed" ELSE c.status
      unavailable == c.invoked /\ c.who \in {"unseen", "unknown"}
      known == [known |-> TRUE, invoked |-> c.invoked,
                fallback |-> c.fallback \/ (~unavailable /\ c.who = "mismatch"),
                drained |-> c.drained,
                completion |-> IF c.drained THEN c.exit ELSE "none"] IN
  [c EXCEPT !.stage = "done",
            !.status = IF status = "completed" /\ (unavailable \/ c.who = "mismatch")
                       THEN "failed" ELSE status,
            !.telemetry = IF unavailable /\ (status = "completed" \/ ~c.drained)
                          THEN NoTelemetry ELSE known]

(* The last await: the exit of the process, which must fit the reason it    *)
(* was closed for; then the unread rest of stdout.                          *)
ResumeDraining ==
  /\ run.stage = "draining" /\ ~Awaiting
  /\ \E torn \in BOOLEAN :
       LET c == IF ~run.windows THEN run
                ELSE IF HasExit(agent)
                THEN [run EXCEPT !.drained = TRUE,
                                 !.exit = IF @ = "none" THEN agent.closed ELSE @]
                ELSE Report([run EXCEPT !.closedError = TRUE])
            expected == IF agent.asked = NoReason THEN "root_exit" ELSE agent.asked
            d == IF c.exit # "none" /\ ~ValidExit(c.exit, agent.clean, expected)
                 THEN Report(c) ELSE c
            w == FinishDecoder(World(d, agent), torn)
       IN Becomes(World(Conclude(w.run), w.agent))
  /\ UNCHANGED host

Resume == \/ ResumeReady \/ ResumeCommand \/ ResumeSettled \/ ResumeFlowing
          \/ ResumeClosing \/ ResumeCleanup \/ ResumeDraining

-----------------------------------------------------------------------------
(* Events. *)

(* A signal that is aborted beforehand ends the call without a process.  On *)
(* POSIX the spawn may throw, or report later that there is no process.     *)
Begin ==
  /\ run.stage = "start"
  /\ \/ /\ Aborted # NoReason
        /\ run' = [run EXCEPT !.stage = "done", !.reason = Aborted, !.status = "cancelled",
                              !.telemetry = [NoTelemetry EXCEPT !.known = TRUE]]
        /\ UNCHANGED <<agent, host>>
     \/ /\ Aborted = NoReason /\ run.windows
        /\ run' = [run EXCEPT !.stage = "spawning"] /\ UNCHANGED <<agent, host>>
     \/ /\ Aborted = NoReason /\ ~run.windows
        /\ \E timeout \in Timeouts : host' = [host EXCEPT !.listening = TRUE, !.deadline = Arm(timeout)]
        /\ run' = Send(run, "set_model")
        /\ \E exists \in BOOLEAN : agent' = [Started(FALSE) EXCEPT !.gone = ~exists]
     \/ /\ Aborted = NoReason /\ ~run.windows
        /\ run' = [run EXCEPT !.stage = "done"] /\ UNCHANGED <<agent, host>>

(* The wrapper has its helper, or has none.  The signals are looked at      *)
(* again, because nobody listened meanwhile.                                *)
Spawned ==
  /\ run.stage = "spawning"
  /\ \/ run' = [run EXCEPT !.stage = "done"] /\ UNCHANGED <<agent, host>>
     \/ /\ \E timeout \in Timeouts : host' = [host EXCEPT !.listening = TRUE, !.deadline = Arm(timeout)]
        /\ LET w == World([run EXCEPT !.stage = "ready"], Started(TRUE)) IN
           Becomes(IF Aborted = NoReason THEN w ELSE CancelRun(w, Aborted))

(* A signal that comes once the run has stopped listening is not modelled:  *)
(* nobody looks at it again.                                                *)
Heard == host.listening \/ run.stage \in {"start", "spawning"}

CallerAborts ==
  /\ Quiet /\ Heard /\ ~host.caller
  /\ host' = [host EXCEPT !.caller = TRUE]
  /\ Becomes(IF host.listening THEN CancelRun(Here, "cancelled") ELSE Here)

SessionAborts ==
  /\ Quiet /\ Heard /\ ~host.shutdown
  /\ host' = [host EXCEPT !.shutdown = TRUE]
  /\ Becomes(IF host.listening THEN CancelRun(Here, "session_shutdown") ELSE Here)

TimerFires ==
  /\ Quiet /\ host.deadline.timer = "armed"
  /\ \E elapsed \in Elapses(host.deadline) :
       LET d == TimerRuns(host.deadline, elapsed) IN
       /\ host' = [host EXCEPT !.deadline = d]
       /\ Becomes(IF Expired(d) THEN CancelRun(Here, "timed_out") ELSE Here)

(* A chunk of stdout.  One record that does not parse throws away the       *)
(* records that came with it.  Pi may say anything out of turn, except that *)
(* it has messages only once it was prompted.                               *)
Reads ==
  /\ Quiet /\ agent.made /\ ~run.decoderDone /\ ~run.internal /\ run.stage # "done"
  /\ ~IsClosed(agent)
  /\ \/ \E chunk \in {ch \in Chunks : run.invoked \/ ~Speaks(ch)} :
           Becomes(World(HandleRecords(run, chunk), agent))
     \/ Becomes(LatchInternalFailure(Here))
  /\ UNCHANGED host

StdoutEnds ==
  /\ Quiet /\ agent.made /\ ~run.decoderDone /\ run.stage # "done"
  /\ ~IsClosed(agent)
  /\ \E torn \in BOOLEAN : Becomes(FinishDecoder(Here, torn))
  /\ UNCHANGED host

(* stdin.write calls back with an error. *)
WriteFails ==
  /\ Quiet /\ run.stage \in CommandNames
  /\ run' = [run EXCEPT !.answer = "rejected"] /\ UNCHANGED <<agent, host>>

ReadySettles ==
  /\ Quiet /\ agent.ready = "pending"
  /\ \E end \in {"resolved", "rejected"} : agent' = [agent EXCEPT !.ready = end]
  /\ UNCHANGED <<run, host>>

(* owned.closed.  If the run has been told to finish already, a completion  *)
(* leaves what is pending pending.                                          *)
OwnedCloses ==
  /\ Quiet /\ run.windows /\ agent.closed = "pending"
  /\ \E end \in Endings(TRUE), clean \in BOOLEAN :
       /\ agent' = [agent EXCEPT !.closed = end, !.clean = clean,
                                 !.ready = IF @ = "pending" THEN "rejected" ELSE @]
       /\ run' = IF end = "rejected"
                 THEN FinishCompletion(RejectPending([run EXCEPT !.closedError = TRUE]), "error")
                 ELSE LET c == [run EXCEPT !.exit = end] IN
                      IF c.completion # "open" THEN c
                      ELSE FinishCompletion(RejectPending(c), "error")
  /\ UNCHANGED host

RootExits ==
  /\ Quiet /\ ~run.windows /\ agent.made /\ ~agent.exited
  /\ agent' = [agent EXCEPT !.exited = TRUE]
  /\ run' = FinishCompletion(RejectPending(run), "error")
  /\ UNCHANGED host

OutputCloses ==
  /\ Quiet /\ ~run.windows /\ agent.closed = "pending"
  /\ \E end \in Endings(FALSE) : agent' = [agent EXCEPT !.closed = end]
  /\ UNCHANGED <<run, host>>

Surroundings ==
  \/ Vanish \/ TerminateSettles \/ GraceEnds
  \/ \E killer \in Killers : Poll(killer)

Finished == run.stage = "done" /\ UNCHANGED vars

PiNext ==
  \/ Begin \/ Spawned \/ Resume \/ CallerAborts \/ SessionAborts \/ TimerFires
  \/ Reads \/ StdoutEnds \/ WriteFails \/ ReadySettles \/ OwnedCloses
  \/ RootExits \/ OutputCloses \/ (Quiet /\ Surroundings) \/ Finished

PiSpec == PiInit /\ [][PiNext]_vars

-----------------------------------------------------------------------------
(* What the result of a run says is what happened.                          *)

PiTypeOK == run \in Run /\ AgentTypeOK

PiStatusAgrees ==
  run.stage = "done" =>
    CASE run.status = "completed" ->
           /\ run.reason = NoReason /\ ~run.internal /\ run.who = "match"
           /\ run.invoked /\ run.telemetry.known /\ ~run.telemetry.fallback
           /\ run.windows => /\ agent.closed = "root_exit" /\ agent.clean
                             /\ agent.gone /\ agent.asked = NoReason
           /\ ~run.windows => agent.closed = "resolved" /\ agent.kills["cleanup"] = "done"
      [] run.status \in {"cancelled", "timed_out"} ->
           /\ run.reason # NoReason /\ (run.status = "timed_out" <=> run.reason = "timed_out")
           /\ ~run.internal
           /\ (run.windows /\ agent.made) => HasExit(agent)
      [] OTHER -> TRUE

PiDrainIsReal ==
  /\ run.telemetry.drained =>
       /\ agent.gone /\ run.telemetry.completion = agent.closed
       /\ run.telemetry.completion \in {"root_exit", run.reason, "cancelled"}
  /\ run.stage = "done" /\ run.windows /\ agent.made => IsClosed(agent)

(* The coroutine waits for an answer after the run was told to finish.      *)
Deaf == run.stage \in CommandNames /\ run.answer = "none" /\ run.completion # "open"

PiFairness ==
  WF_vars(/\ run.client = "pi"
          /\ \/ Resume \/ Spawned \/ ReadySettles
             \/ agent.gone /\ (OwnedCloses \/ RootExits \/ OutputCloses))
=============================================================================
