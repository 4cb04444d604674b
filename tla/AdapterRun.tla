----------------------------- MODULE AdapterRun -----------------------------
(***************************************************************************)
(* What the two adapter clients have around them: the signals of the host, *)
(* the deadline of the call (src/runtime/deadline.ts) and the agent        *)
(* process, which on Windows is taken by the contract OwnedAgent and on    *)
(* POSIX is a process group that terminatePosixProcessGroup kills          *)
(* (src/runtime/process-tree.ts).                                          *)
(*                                                                         *)
(* PiClient and KimiClient extend this module.  The clients are closures   *)
(* with one coroutine: an event runs its handlers, and no other event is   *)
(* delivered until the coroutine waits again (Quiet in the clients).       *)
(***************************************************************************)
EXTENDS Naturals, Sequences

CONSTANTS
  MaxTimerDelay,   \* MAX_TIMER_DELAY_MS, in ticks
  Timeouts         \* the timeoutMs a call may have, in ticks; 0 stands for none

ASSUME TimerAssumption == MaxTimerDelay \in Nat \ {0} /\ Timeouts \subseteq Nat

VARIABLES
  run,    \* the variables of the client's closure
  agent,  \* the process it started, with its promises
  host    \* the signals of the caller and the session, and the deadline

vars == <<run, agent, host>>

Reasons == {"cancelled", "timed_out", "session_shutdown"}
Statuses == {"completed", "failed", "cancelled", "timed_out"}
NoReason == "none"
Promises == {"none", "pending", "resolved", "rejected"}

Min2(i, j) == IF i < j THEN i ELSE j
Monus(i, j) == IF i < j THEN 0 ELSE i - j

StatusOfReason(reason) == IF reason = "timed_out" THEN "timed_out" ELSE "cancelled"

-----------------------------------------------------------------------------
(* The deadline: a timer longer than Node can count is armed in pieces.     *)
(* left is remainingMs; waited is what has really passed, which no code     *)
(* reads.  A timer may be a tick early.                                     *)
Deadline == [timer : {"off", "armed", "settled"}, left : Nat, waited : Nat, due : Nat]

NoDeadline == [timer |-> "off", left |-> 0, waited |-> 0, due |-> 0]

Arm(timeout) ==
  IF timeout = 0 THEN NoDeadline
  ELSE [timer |-> "armed", left |-> timeout, waited |-> 0, due |-> timeout]

Delay(d) == Min2(d.left, MaxTimerDelay)
Elapses(d) == {Monus(Delay(d), 1), Delay(d)}

TimerRuns(d, elapsed) ==
  LET left == Monus(d.left, elapsed) IN
  [d EXCEPT !.left = left, !.waited = @ + elapsed,
            !.timer = IF left = 0 THEN "settled" ELSE "armed"]

Expired(d) == d.timer = "settled" /\ d.left = 0

(* What was left of a deadline that is cancelled is of no further use.      *)
CancelDeadline(d) == IF d.timer = "armed" THEN NoDeadline ELSE d

-----------------------------------------------------------------------------
(* The signals.  A listener is taken off when the run ends.                 *)
Host == [caller : BOOLEAN, shutdown : BOOLEAN, listening : BOOLEAN, deadline : Deadline]

HostInit == host \in [caller : BOOLEAN, shutdown : BOOLEAN, listening : {FALSE},
                      deadline : {NoDeadline}]

(* The signal that was aborted before anyone listened.                      *)
Aborted == IF host.shutdown THEN "session_shutdown"
           ELSE IF host.caller THEN "cancelled" ELSE NoReason

Deafened(h) == [h EXCEPT !.listening = FALSE, !.deadline = CancelDeadline(@)]

-----------------------------------------------------------------------------
(* The functions of a closure, on the pair of its variables and its agent.  *)
World(c, g) == [run |-> c, agent |-> g]
Becomes(w) == run' = w.run /\ agent' = w.agent
Here == World(run, agent)

(* The agent.  made: the spawn succeeded.  clean: the root exited with 0.   *)
(* exited: Node has reported the exit of the root (POSIX).                  *)
(* term: the promise of terminate(reason), with asked its reason.  On POSIX  *)
(* closed is the end of the root and of its output, and every kill in       *)
(* progress has its place in kills.                                         *)
Killers == {"timer", "failure", "cleanup"}
Agent == [made : BOOLEAN, exited : BOOLEAN, ready : Promises, gone : BOOLEAN, clean : BOOLEAN,
          closed : Promises \cup Reasons \cup {"root_exit"},
          asked : Reasons \cup {NoReason}, term : Promises, condemned : BOOLEAN,
          kills : [Killers -> {"idle", "grace", "waiting", "done", "failed"}]]

NoAgent == [made |-> FALSE, exited |-> FALSE, ready |-> "none", gone |-> FALSE, clean |-> FALSE,
            closed |-> "none", asked |-> NoReason, term |-> "none",
            condemned |-> FALSE, kills |-> [k \in Killers |-> "idle"]]

Started(windows) ==
  [NoAgent EXCEPT !.made = TRUE, !.closed = "pending",
                  !.ready = IF windows THEN "pending" ELSE "none"]

IsClosed(g) == g.closed \notin {"none", "pending"}
HasExit(g) == IsClosed(g) /\ g.closed # "rejected"

(* terminate(reason): the first call writes the stop frame, later ones      *)
(* return its promise.                                                      *)
Terminate(g, reason) ==
  IF g.asked # NoReason THEN g ELSE [g EXCEPT !.asked = reason, !.term = "pending"]

(* terminatePosixProcessGroup: SIGTERM at once, up to a second of polling,  *)
(* SIGKILL.  A group that is gone is not signalled; a call may be refused,   *)
(* which only the cleanup looks at.                                         *)
Kill(g, killer) == IF g.kills[killer] \in {"idle", "grace"}
                   THEN [g EXCEPT !.kills[killer] = "waiting"] ELSE g

(* On POSIX a run that is cancelled has some time to end by itself, and the *)
(* timer of that is cleared when the run ends.                              *)
GiveGrace(g) == [g EXCEPT !.kills["timer"] = "grace"]
ClearGrace(g) == IF g.kills["timer"] = "grace" THEN [g EXCEPT !.kills["timer"] = "idle"] ELSE g

Poll(killer) ==
  /\ agent.kills[killer] = "waiting"
  /\ \/ agent' = [agent EXCEPT !.kills[killer] = "done", !.condemned = @ \/ ~agent.gone]
     \/ /\ ~agent.gone
        /\ agent' = [agent EXCEPT !.kills[killer] = "failed"]
  /\ UNCHANGED <<run, host>>

GraceEnds ==
  /\ agent.kills["timer"] = "grace"
  /\ agent' = Kill(agent, "timer")
  /\ UNCHANGED <<run, host>>

(* The target and everything it started are gone.                           *)
Vanish ==
  /\ agent.made /\ ~agent.gone
  /\ agent' = [agent EXCEPT !.gone = TRUE, !.condemned = FALSE]
  /\ UNCHANGED <<run, host>>

(* The stop frame was written, or was not needed any more; or the pipe      *)
(* refused it.                                                              *)
TerminateSettles ==
  /\ agent.term = "pending"
  /\ \E end \in {"resolved", "rejected"} : agent' = [agent EXCEPT !.term = end]
  /\ UNCHANGED <<run, host>>

(* How closed may settle: a completion presupposes a target that ran and is *)
(* gone, and is the exit of the root or the reason that was asked for.      *)
Endings(windows) ==
  IF windows
  THEN (IF agent.ready = "resolved" /\ agent.gone
        THEN {"root_exit", agent.asked} \ {NoReason} ELSE {}) \cup {"rejected"}
  ELSE IF agent.exited THEN {"resolved"} ELSE {}

(* The system refused to signal the group of the agent. *)
Refused == \E killer \in Killers : agent.kills[killer] = "failed"

(* A call of the system returns, a process that was told to end does, and   *)
(* what has ended is reported.  Nothing is promised of an agent that nobody *)
(* told to end.                                                             *)
AgentFairness ==
  WF_vars(\/ TerminateSettles \/ GraceEnds
          \/ (agent.asked # NoReason \/ agent.condemned) /\ Vanish
          \/ \E killer \in Killers : Poll(killer))

(* A run does not time out before its time, in however many pieces the timer *)
(* was armed.                                                               *)
NeverEarly ==
  run.reason = "timed_out" =>
    host.deadline.due > 0 /\ host.deadline.waited >= host.deadline.due

AgentTypeOK == agent \in Agent /\ host \in Host
=============================================================================
