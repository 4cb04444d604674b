----------------------------- MODULE KimiClient -----------------------------
(***************************************************************************)
(* runKimiAcp (src/adapters/kimi/client.ts): one prompt over the Agent      *)
(* Client Protocol of Kimi.  The signals and the deadline are listened to   *)
(* before the process exists; the requests of the protocol are answered,    *)
(* refused, or rejected when the connection ends, and a cancellation        *)
(* settles none of them: only the end of the agent does.                    *)
(*                                                                          *)
(* run.submitted is promptSubmitted.  The stop reason of the prompt, the    *)
(* updates and the permission requests leave no trace in the status; the    *)
(* session/cancel notification is left out because the agent may ignore it. *)
(***************************************************************************)
EXTENDS AdapterRun

CONSTANT KimiWindows   \* the platforms: a subset of BOOLEAN

ASSUME KimiAssumption == KimiWindows \subseteq BOOLEAN

Requests == <<"initialize", "open_session", "set_config", "prompt">>
RequestNames == {Requests[i] : i \in DOMAIN Requests}
NextRequest(request) ==
  Requests[1 + CHOOSE i \in 1..(Len(Requests) - 1) : Requests[i] = request]

(* helper, handshake: awaiting the spawn and ready.  leaving: awaiting      *)
(* terminate() or the kill of the group; reaping: the exit; unplugging:     *)
(* the end of the connection.                                               *)
KimiStages == {"begin", "helper", "handshake", "leaving", "reaping", "unplugging", "done"}
              \cup RequestNames

KimiRun == [client : {"kimi"}, stage : KimiStages, windows : BOOLEAN,
            reason : Reasons \cup {NoReason},
            connection : {"none", "open", "closed"},
            reply : {"none", "ok", "refused", "rejected"},
            submitted : BOOLEAN, ended : BOOLEAN, drained : BOOLEAN,
            status : Statuses]

KimiInit ==
  /\ HostInit /\ agent = NoAgent
  /\ \E windows \in KimiWindows :
       run = [client |-> "kimi", stage |-> "begin", windows |-> windows, reason |-> NoReason,
              connection |-> "none", reply |-> "none", submitted |-> FALSE,
              ended |-> FALSE, drained |-> FALSE, status |-> "failed"]

(* Mutant: a cancellation only takes note of its reason.                    *)
KimiCancelNoted(w, reason) ==
  IF w.run.reason # NoReason THEN w ELSE World([w.run EXCEPT !.reason = reason], w.agent)

(* cancel(reason).  A group without a pid has nothing to kill.              *)
KimiCancel(w, reason) ==
  IF w.run.reason # NoReason THEN w ELSE
  World([w.run EXCEPT !.reason = reason],
        CASE ~w.agent.made -> w.agent
          [] w.agent.made /\ w.run.windows -> Terminate(w.agent, reason)
          [] OTHER -> GiveGrace(w.agent))

-----------------------------------------------------------------------------
(* The coroutine. *)

Waits ==
  CASE run.stage = "handshake" -> agent.ready = "pending"
    [] run.stage \in RequestNames -> run.reply = "none"
    [] run.stage = "leaving" -> IF run.windows THEN agent.term = "pending"
                                ELSE agent.kills["cleanup"] = "waiting"
    [] run.stage = "reaping" -> agent.closed = "pending"
    [] run.stage = "unplugging" -> run.connection = "open"
    [] OTHER -> TRUE

Ask(c, request) ==
  [c EXCEPT !.stage = request, !.submitted = @ \/ request = "prompt",
            !.connection = IF @ = "none" THEN "open" ELSE @,
            !.reply = IF c.connection = "closed" THEN "rejected" ELSE "none"]

(* try and catch give a status; finally goes on to the process, if there is *)
(* one, and asks it to end.                                                 *)
StatusAtEnd(reason, otherwise) == IF reason = NoReason THEN otherwise ELSE StatusOfReason(reason)

Finally(w, outcome) ==
  LET c == [w.run EXCEPT !.status = StatusAtEnd(w.run.reason, outcome)]
      g == ClearGrace(w.agent)
      At(stage) == [c EXCEPT !.stage = stage]
      word == IF c.reason = NoReason THEN "cancelled" ELSE c.reason IN
  CASE g.closed = "none" -> World(At("done"), g)
    [] g.closed # "none" /\ c.windows ->
         IF c.status = "completed" THEN World([At("reaping") EXCEPT !.ended = TRUE], g)
         ELSE World(At("leaving"), Terminate(g, word))
    [] OTHER -> IF g.made THEN World(At("leaving"), Kill(g, "cleanup")) ELSE World(At("reaping"), g)

KimiFail == Finally(Here, "failed")
InFinally(stage) == stage \in {"leaving", "reaping", "done"}
FallsSilent == host' = IF InFinally(run'.stage) THEN Deafened(host) ELSE host

ResumeHandshake ==
  /\ run.stage = "handshake" /\ ~Waits
  /\ Becomes(IF agent.ready = "resolved" /\ run.reason = NoReason
             THEN World(Ask(run, "initialize"), agent) ELSE KimiFail)
  /\ FallsSilent

(* Before the prompt, and only there, the reason is looked at: the session  *)
(* stops as if the agent had cancelled it.                                  *)
ResumeRequest ==
  /\ run.stage \in RequestNames /\ ~Waits
  /\ Becomes(CASE run.reply # "ok" -> KimiFail
               [] run.reply = "ok" /\ run.stage = "prompt" -> Finally(Here, "completed")
               [] OTHER -> IF run.stage = "set_config" /\ run.reason # NoReason
                           THEN Finally(Here, "completed")
                           ELSE World(Ask(run, NextRequest(run.stage)), agent))
  /\ FallsSilent

ResumeLeaving ==
  /\ run.stage = "leaving" /\ ~Waits
  /\ LET failed == IF run.windows THEN agent.term = "rejected"
                   ELSE agent.kills["cleanup"] = "failed" IN
     run' = [run EXCEPT !.stage = IF failed THEN "done" ELSE "reaping",
                        !.status = IF failed /\ (run.windows \/ @ = "completed")
                                   THEN "failed" ELSE @]
  /\ UNCHANGED <<agent, host>>

(* The exit.  On POSIX it is waited for no longer than a second.            *)
ResumeReaping ==
  /\ run.stage = "reaping" /\ ~Waits
  /\ run' = CASE ~run.windows -> [run EXCEPT !.stage = "done"]
              [] run.windows /\ HasExit(agent) ->
                   [run EXCEPT !.stage = "unplugging", !.drained = TRUE]
              [] OTHER -> [run EXCEPT !.stage = "done", !.status = "failed"]
  /\ UNCHANGED <<agent, host>>

CloseTimesOut ==
  /\ run.stage = "reaping" /\ ~run.windows /\ Waits
  /\ run' = [run EXCEPT !.stage = "done", !.status = "failed"]
  /\ UNCHANGED <<agent, host>>

ResumeUnplugging ==
  /\ run.stage = "unplugging" /\ ~Waits
  /\ run' = [run EXCEPT !.stage = "done",
                        !.status = IF @ = "completed" /\ (agent.closed # "root_exit" \/ ~agent.clean)
                                   THEN "failed" ELSE @]
  /\ UNCHANGED <<agent, host>>

KimiResume == \/ ResumeHandshake \/ ResumeRequest \/ ResumeLeaving
              \/ ResumeReaping \/ ResumeUnplugging

-----------------------------------------------------------------------------
(* Events. *)

(* The call: listeners, the signals that were aborted before, the deadline; *)
(* then the process.  A cancelled call starts nothing on Windows; on POSIX  *)
(* it starts a child and throws before it says a word to it.  The spawn of  *)
(* POSIX may throw, or give a child without a pid.                          *)
ChildStarts(w) ==
  {Finally(w, "failed")} \cup
    {LET child == [Started(FALSE) EXCEPT !.made = exists, !.gone = ~exists] IN
     IF w.run.reason = NoReason THEN World(Ask(w.run, "initialize"), child)
     ELSE Finally(World(w.run, child), "failed") : exists \in BOOLEAN}

KimiBegin ==
  /\ run.stage = "begin"
  /\ \E w \in LET b == IF Aborted = NoReason THEN Here ELSE KimiCancel(Here, Aborted) IN
              CASE ~run.windows -> ChildStarts(b)
                [] run.windows /\ b.run.reason = NoReason -> {World([b.run EXCEPT !.stage = "helper"], b.agent)}
                [] OTHER -> {Finally(b, "failed")} : Becomes(w)
  /\ \E timeout \in Timeouts :
       LET h == [host EXCEPT !.listening = TRUE, !.deadline = Arm(timeout)] IN
       host' = IF InFinally(run'.stage) THEN Deafened(h) ELSE h

(* The helper is there, or is not.  A call that was cancelled meanwhile     *)
(* ends what it has just started.                                           *)
HelperStarts ==
  /\ run.stage = "helper"
  /\ Becomes(IF run.reason = NoReason THEN World([run EXCEPT !.stage = "handshake"], Started(TRUE))
             ELSE Finally(World(run, Started(TRUE)), "failed"))
  /\ FallsSilent

HelperFails == run.stage = "helper" /\ Becomes(KimiFail) /\ FallsSilent

KimiSignal(listening, reason) ==
  Becomes(IF listening THEN KimiCancel(Here, reason) ELSE Here)

KimiCallerAborts ==
  /\ (host.listening \/ run.stage = "begin") /\ ~host.caller
  /\ host' = [host EXCEPT !.caller = TRUE] /\ KimiSignal(host.listening, "cancelled")

KimiSessionAborts ==
  /\ (host.listening \/ run.stage = "begin") /\ ~host.shutdown
  /\ host' = [host EXCEPT !.shutdown = TRUE] /\ KimiSignal(host.listening, "session_shutdown")

KimiTimerFires ==
  /\ host.deadline.timer = "armed"
  /\ \E elapsed \in Elapses(host.deadline) :
       LET d == TimerRuns(host.deadline, elapsed) IN
       host' = [host EXCEPT !.deadline = d] /\ KimiSignal(Expired(d), "timed_out")

(* The agent answers the request that is open, by a result the client can   *)
(* use or not: the protocol has ids, and the client one request at a time.  *)
Answers ==
  /\ agent.made /\ run.stage \in RequestNames /\ run.reply = "none"
  /\ run.connection = "open"
  /\ \E reply \in {"ok", "refused"} : run' = [run EXCEPT !.reply = reply]
  /\ UNCHANGED <<agent, host>>

(* The agent closes its output, at the latest when it dies.                 *)
ConnectionCloses ==
  /\ run.connection = "open"
  /\ run' = [run EXCEPT !.connection = "closed",
                        !.reply = IF @ = "none" THEN "rejected" ELSE @]
  /\ UNCHANGED <<agent, host>>

KimiReadySettles ==
  /\ agent.ready = "pending"
  /\ \E end \in {"resolved", "rejected"} : agent' = [agent EXCEPT !.ready = end]
  /\ UNCHANGED <<run, host>>

(* owned.closed on Windows; on POSIX the close event of the child, which a  *)
(* child without a pid has too.                                             *)
ChildCloses ==
  /\ agent.closed = "pending"
  /\ \E end \in IF run.windows THEN Endings(TRUE) ELSE {"resolved"}, clean \in BOOLEAN :
       agent' = [agent EXCEPT !.closed = end, !.clean = clean,
                              !.ready = IF @ = "pending" THEN "rejected" ELSE @]
  /\ UNCHANGED <<run, host>>

KimiEvent ==
  \/ HelperStarts \/ HelperFails \/ KimiCallerAborts \/ KimiSessionAborts \/ KimiTimerFires
  \/ Answers \/ ConnectionCloses \/ KimiReadySettles \/ ChildCloses \/ CloseTimesOut
  \/ Vanish \/ TerminateSettles \/ GraceEnds \/ (\E killer \in Killers : Poll(killer))

KimiFinished == run.stage = "done" /\ UNCHANGED vars

KimiNext == KimiBegin \/ KimiResume \/ (Waits /\ KimiEvent) \/ KimiFinished

KimiSpec == KimiInit /\ [][KimiNext]_vars

-----------------------------------------------------------------------------
KimiTypeOK == run \in KimiRun /\ AgentTypeOK

KimiStatusAgrees ==
  run.stage = "done" =>
    CASE run.status = "completed" ->
           /\ run.reason = NoReason /\ run.submitted /\ IsClosed(agent)
           /\ IF run.windows
              THEN /\ agent.closed = "root_exit" /\ agent.clean /\ agent.gone
                   /\ agent.asked = NoReason /\ run.connection = "closed"
              ELSE agent.kills["cleanup"] = "done"
      [] run.status \in {"cancelled", "timed_out"} ->
           /\ run.reason # NoReason /\ (run.status = "timed_out" <=> run.reason = "timed_out")
           /\ run.windows /\ agent.made => HasExit(agent)
           /\ ~agent.made => ~run.submitted
      [] OTHER -> TRUE

KimiDrainIsReal == run.drained => agent.gone /\ HasExit(agent)

KimiFairness ==
  WF_vars(/\ run.client = "kimi"
          /\ \/ KimiResume \/ HelperStarts \/ HelperFails \/ KimiReadySettles \/ CloseTimesOut
             \/ (agent.gone \/ IsClosed(agent)) /\ ConnectionCloses
             \/ agent.gone /\ ChildCloses)
=============================================================================
