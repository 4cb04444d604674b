----------------------------- MODULE MCAdapters -----------------------------
(***************************************************************************)
(* The adapters on small instances.  A behaviour is one run of the Pi       *)
(* client, one run of the Kimi client, or one stream of events as the host  *)
(* reads it; the three share nothing, and the run checks them side by side. *)
(***************************************************************************)
EXTENDS Clients, EvidenceGates

Response(says) == [type |-> "response", says |-> says]
Message(who, error) == [type |-> "message_end", who |-> who, error |-> error]
AgentEnd(who) == [type |-> "agent_end", who |-> who]
AgentSettled == [type |-> "agent_settled"]

(* Every response; a message of the right model; an end that comes with the *)
(* wrong one, with an answer, and before an error.                          *)
MCChunks ==
  {<<Response(says)>> : says \in {"ok", "refused", "mismatch"}}
    \cup {<<AgentSettled>>, <<Message("match", FALSE)>>, <<AgentEnd("mismatch"), AgentSettled>>,
          <<Response("ok"), AgentSettled>>, <<AgentSettled, Message("match", TRUE)>>}

(* Everything a command may say of itself, and a change of mind on its kind. *)
MCPatches ==
  [kind : {Absent, "execute"}, title : {Absent, "text"}, rawInput : {Absent, "command", "useless"}]
    \cup [kind : {"read"}, title : {Absent}, rawInput : {Absent}]

(* Short streams of every kind; and a run that is about to pass: the one    *)
(* command of Kimi given at once, of the two of Pi the first done and the   *)
(* second begun; and a run of Kimi with more commands than evidence holds.  *)
Given == [kind |-> "execute", title |-> Absent, rawInput |-> "command"]
Called(id) == [type |-> "tool_call", id |-> id, patch |-> Given]
Bash(id) == [type |-> "tool_execution_start", id |-> id, tool |-> "bash", args |-> "command"]
Done(id) == [type |-> "tool_execution_end", id |-> id, tool |-> "bash", isError |-> "false"]
Stream(kind, seen, left) == [kind |-> kind, seen |-> seen, left |-> left]
MCBeginnings ==
  {Stream("acp", <<>>, 3), Stream("pi", <<>>, 3), Stream("retry", <<>>, 4),
   Stream("acp", <<Called("a")>>, 1), Stream("acp", <<Called("a"), Called("b"), Called("c")>>, 1),
   Stream("pi", <<Bash("a"), Done("a"), Bash("b")>>, 2)}

NoStream == Stream("none", <<>>, 0)
(* Every way a run can end is tried on a stream without events; a run that  *)
(* ended well but for one thing on the streams that may pass; and one that  *)
(* ended well on all others.                                                *)
Well(runtime, task) ==
  [runtime |-> runtime, task |-> task, how |-> "ran", status |-> "completed",
   model |-> "frozen",
   telemetry |-> [known |-> TRUE, invoked |-> TRUE, fallback |-> FALSE, drained |-> TRUE],
   diagnosed |-> "plain", isolated |-> TRUE, frozen |-> TRUE, changed |-> FALSE, good |-> TRUE]

ButOne(end) ==
  {end, [end EXCEPT !.status = "failed"], [end EXCEPT !.isolated = FALSE],
   [end EXCEPT !.frozen = FALSE], [end EXCEPT !.good = FALSE], [end EXCEPT !.how = "threw"],
   [end EXCEPT !.diagnosed = "quota"], [end EXCEPT !.telemetry.drained = FALSE]}
    \cup {[end EXCEPT !.model = model] : model \in {"other", "unsafe", "none"}}

MayPass(s) == \/ s.kind = "acp" /\ Len(s.seen) <= 2 /\ s.seen[1] = Called("a")
              \/ /\ s.kind = "pi" /\ Len(s.seen) >= 3
                 /\ SubSeq(s.seen, 1, 3) = <<Bash("a"), Done("a"), Bash("b")>>

MCRuns(s) ==
  LET runtime == IF s.kind = "acp" THEN "kimi" ELSE "pi"
      well == {Well(runtime, "delegate")}
      pi == IF runtime = "pi" THEN {Well(runtime, "review")} ELSE {} IN
  CASE s.seen = <<>> -> PossibleRuns(s.kind)
    [] s.seen # <<>> /\ MayPass(s) -> UNION {ButOne(end) : end \in well}
    [] OTHER -> IF s.kind = "retry" THEN pi ELSE well \cup pi

NoClient == [client |-> "none", stage |-> "done", reason |-> NoReason]

Init == \/ ClientsInit /\ stream = NoStream
        \/ EventsInit /\ run = NoClient /\ agent = NoAgent
           /\ host = [caller |-> FALSE, shutdown |-> FALSE, listening |-> FALSE, deadline |-> NoDeadline]

EventsFinished ==
  stream.kind # "none" /\ stream.left = 0 /\ UNCHANGED stream

Next == \/ ClientsNext /\ UNCHANGED stream
        \/ run.client = "none" /\ (Observe \/ EventsFinished) /\ UNCHANGED vars

Spec == Init /\ [][Next]_<<run, agent, host, stream>>
        /\ AgentFairness /\ PiFairness /\ KimiFairness

TypeOK == CASE run.client = "pi" -> PiTypeOK [] run.client = "kimi" -> KimiTypeOK
            [] OTHER -> \A i \in DOMAIN stream.seen : stream.seen[i] \in EventsOf(stream.kind, Ids)

(* A run that was cancelled or ran out of time ends.  The client of Pi may  *)
(* have gone deaf before (TimeoutEndsRun), and on POSIX the system may      *)
(* refuse to signal the group.                                              *)
CancelEndsRun ==
  run.reason # NoReason ~>
    \/ run.stage = "done" \/ Refused
    \/ run.client = "pi" /\ Deaf

(* The design has a run that runs out of time end as timed_out, with its    *)
(* process cleaned up.                                                      *)
TimeoutEndsRun == run.client = "pi" /\ run.reason = "timed_out" ~> run.stage = "done"
=============================================================================
