----------------------------- MODULE ClientProofs -----------------------------
(***************************************************************************)
(* Theorems about the adapter clients, for any timeouts and length of a     *)
(* timer, on both platforms, whatever Pi writes.  The invariants are about  *)
(* the record of the closure (c), its agent (g) and its signals (h), so     *)
(* that the functions of the closure can be reasoned about as functions.    *)
(***************************************************************************)
EXTENDS Clients, EvidenceGates, QueueLemmas, FiniteSetTheorems

-----------------------------------------------------------------------------
(* The deadline has counted what has passed, and has not lost any of it.    *)
Clocked(d) ==
  /\ d \in Deadline
  /\ d.timer # "off" => d.due > 0 /\ d.left + d.waited = d.due
  /\ d.timer = "settled" => d.left = 0

(* Nobody listens before the run has begun or once it is over, and a run    *)
(* has timed out only with its deadline behind it.                          *)
Attended(h, reason, begun, over) ==
  /\ h \in Host /\ Clocked(h.deadline)
  /\ ~begun => ~h.listening /\ h.deadline = NoDeadline
  /\ over => ~h.listening /\ h.deadline.timer # "armed"
  /\ reason = "timed_out" => h.deadline.timer = "settled"

Agrees(status, reason) ==
  status \in {"cancelled", "timed_out"} =>
    reason # NoReason /\ (status = "timed_out" <=> reason = "timed_out")

(* The promises of an agent mean the same to both clients.                  *)
Promised(g, windows) ==
  /\ g \in Agent
  /\ g.made => g.closed # "none"
  /\ windows => g.closed # "resolved"
  /\ ~windows => g.closed \in {"none", "pending", "resolved"}
  /\ windows /\ HasExit(g) => g.gone /\ g.closed \in {"root_exit", g.asked} \ {NoReason}

-----------------------------------------------------------------------------
(* Pi *)

PiBefore == {"start", "spawning"}
PiOver == {"cleanup", "draining", "done"}

(* What the flags of a run that is not over say of its agent.               *)
PiWorks(c, g) ==
  /\ c.stage \in PiBefore => g = NoAgent /\ c.reason = NoReason /\ ~c.internal
  /\ ~g.made => g.closed = "none"
  /\ c.stage \notin PiBefore \cup {"done"} => g.made
  /\ c.stage \notin PiOver => c.status = "failed" /\ ~c.fallback /\ g.kills["cleanup"] = "idle"
  /\ c.stage # "done" => c.telemetry = NoTelemetry
  /\ c.stage \in {"prompt", "settling", "flowing", "closing"} => c.invoked
  /\ c.stage \in {"flowing", "closing"} => c.windows
  /\ c.flow # "none" => c.reason # NoReason

(* What it knows of the exit, and why it has asked for it.                  *)
PiKnows(c, g) ==
  /\ c.exit # "none" => c.windows /\ c.exit = g.closed /\ HasExit(g)
  /\ c.drained => c.exit # "none"
  /\ g.asked \in {NoReason, "cancelled", c.reason}
  /\ g.asked # NoReason => \/ c.reason # NoReason \/ c.internal
                           \/ c.stage \in PiOver /\ c.status # "completed"

(* What its status rests on.                                                *)
PiStands(c, g) ==
  /\ c.status = "completed" =>
       /\ c.reason = NoReason /\ c.invoked /\ ~c.fallback
       /\ c.windows => c.exit = "root_exit" /\ g.clean
       /\ ~c.windows => /\ g.kills["cleanup"] \in {"waiting", "done", "failed"}
                        /\ c.stage # "cleanup" => g.kills["cleanup"] = "done"
  /\ Agrees(c.status, c.reason)

PiConcluded(c, g) ==
  /\ c.status # "failed" => ~c.internal
  /\ c.status = "completed" => /\ c.who = "match" /\ c.telemetry.known /\ ~c.telemetry.fallback
                               /\ ~c.windows => g.closed = "resolved"
  /\ c.status \in {"cancelled", "timed_out"} /\ c.windows /\ g.made => HasExit(g)
  /\ c.telemetry.drained => c.drained /\ c.telemetry.completion = c.exit
  /\ c.windows /\ g.made => IsClosed(g)

PiSound(c, g) ==
  /\ c \in Run /\ Promised(g, c.windows)
  /\ PiWorks(c, g) /\ PiKnows(c, g) /\ PiStands(c, g)
  /\ c.stage = "done" => PiConcluded(c, g)

PiInv ==
  /\ PiSound(run, agent)
  /\ Attended(host, run.reason, run.stage \notin PiBefore, run.stage \in PiOver)

-----------------------------------------------------------------------------
(* Kimi *)

KimiBefore == {"begin", "helper"}
KimiOver == {"leaving", "reaping", "unplugging", "done"}

KimiWorks(c, g) ==
  /\ c.stage \in KimiBefore => g = NoAgent
  /\ c.stage = "begin" => c.reason = NoReason
  /\ c.stage \notin KimiBefore \cup {"done"} => g.closed # "none"
  /\ c.stage \in RequestNames \ {"initialize"} \/ c.reply = "ok" => g.made
  /\ c.submitted => g.made /\ c.connection # "none"
  /\ c.stage \notin KimiOver =>
       /\ c.status = "failed" /\ g.kills["cleanup"] = "idle"
       /\ g.asked # NoReason => c.reason # NoReason
  /\ c.stage = "prompt" => c.submitted

KimiStands(c, g) ==
  /\ c.status = "completed" =>
       /\ c.reason = NoReason /\ c.submitted /\ g.asked = NoReason
       /\ ~c.windows => /\ g.kills["cleanup"] \in {"waiting", "done", "failed"}
                        /\ c.stage # "leaving" => g.kills["cleanup"] = "done"
  /\ Agrees(c.status, c.reason)
  /\ c.stage = "unplugging" => c.windows /\ HasExit(g)
  /\ c.drained => c.windows /\ HasExit(g)

KimiConcluded(c, g) ==
  /\ c.status = "completed" =>
       /\ IsClosed(g)
       /\ c.windows => g.closed = "root_exit" /\ g.clean /\ c.connection = "closed"
  /\ c.status \in {"cancelled", "timed_out"} /\ c.windows /\ g.made => HasExit(g)

KimiSound(c, g) ==
  /\ c \in KimiRun /\ Promised(g, c.windows)
  /\ KimiWorks(c, g) /\ KimiStands(c, g)
  /\ c.stage = "done" => KimiConcluded(c, g)

KimiInv ==
  /\ KimiSound(run, agent)
  /\ Attended(host, run.reason, run.stage # "begin", run.stage \in KimiOver)

ClientsInv == \/ run.client = "pi" /\ PiInv
              \/ run.client = "kimi" /\ KimiInv

-----------------------------------------------------------------------------
(* The deadline *)

(* A timer that has run, in whatever pieces, has counted what passed.       *)
LEMMA TimerCounts ==
  ASSUME NEW d, Clocked(d), d.timer = "armed", NEW elapsed \in Elapses(d)
  PROVE  /\ Clocked(TimerRuns(d, elapsed)) /\ TimerRuns(d, elapsed).timer # "off"
         /\ Expired(TimerRuns(d, elapsed)) <=> TimerRuns(d, elapsed).timer = "settled"
<1>1. d \in Deadline /\ d.left \in Nat /\ d.waited \in Nat /\ d.due \in Nat
      /\ d.due > 0 /\ d.left + d.waited = d.due
  BY DEF Clocked, Deadline
<1>2. elapsed \in Nat /\ elapsed <= d.left
  BY <1>1, TimerAssumption DEF Elapses, Delay, Min2, Monus
<1> DEFINE left == Monus(d.left, elapsed)
           timer == IF left = 0 THEN "settled" ELSE "armed"
<1>3. left \in Nat /\ left + (d.waited + elapsed) = d.due
  BY <1>1, <1>2 DEF Monus
<1> HIDE DEF left
<1>4. TimerRuns(d, elapsed) = [d EXCEPT !.left = left, !.waited = @ + elapsed, !.timer = timer]
  BY DEF TimerRuns, left
<1> DEFINE e == TimerRuns(d, elapsed)
<1>7. e = [timer |-> timer, left |-> left, waited |-> d.waited + elapsed, due |-> d.due]
  BY <1>1, <1>4, Zenon DEF Deadline
<1>8. timer \in {"armed", "settled"} /\ d.waited + elapsed \in Nat
  BY <1>1, <1>2
<1>5. /\ e \in [timer : {"off", "armed", "settled"}, left : Nat, waited : Nat, due : Nat]
      /\ e.timer = timer /\ e.left = left /\ e.waited = d.waited + elapsed /\ e.due = d.due
  BY <1>1, <1>3, <1>7, <1>8
<1> HIDE DEF e
<1>6. Clocked(e) /\ e.timer # "off" /\ (Expired(e) <=> e.timer = "settled")
  BY <1>1, <1>3, <1>5 DEF Clocked, Expired, Deadline
<1> QED BY <1>6 DEF e

LEMMA ArmedAnew ==
  ASSUME NEW timeout \in Timeouts
  PROVE  Clocked(Arm(timeout))
  BY TimerAssumption DEF Arm, NoDeadline, Clocked, Deadline

LEMMA NoneIsClocked == Clocked(NoDeadline) /\ NoDeadline.timer = "off"
  BY DEF NoDeadline, Clocked, Deadline

(* A signal is heard, the timer runs, and in the end nobody listens.        *)
LEMMA Signals ==
  ASSUME NEW h, NEW reason, NEW begun \in BOOLEAN, NEW over \in BOOLEAN,
         Attended(h, reason, begun, over)
  PROVE  /\ Attended([h EXCEPT !.caller = TRUE], reason, begun, over)
         /\ Attended([h EXCEPT !.shutdown = TRUE], reason, begun, over)
         /\ \A other : (other = "timed_out" => reason = other) => Attended(h, other, begun, over)
         /\ Attended(h, reason, TRUE, over) /\ Attended(h, reason, begun, FALSE)
         /\ \A on \in BOOLEAN : Attended(Deafened(h), reason, begun, on)
<1> DEFINE x == Deafened(h)
           d == CancelDeadline(h.deadline)
<1>1. Clocked(d) /\ d.timer # "armed" /\ (h.deadline.timer # "armed" => d = h.deadline)
  BY NoneIsClocked DEF Attended, CancelDeadline
<1>2. x = [h EXCEPT !.listening = FALSE, !.deadline = d]
  BY DEF Deafened
<1> HIDE DEF d, x
<1>3. x \in Host /\ ~x.listening /\ x.deadline = d
  BY <1>1, <1>2, Zenon DEF Attended, Host, Clocked
<1>6. NoDeadline.timer # "armed"
  BY NoneIsClocked
<1>7. \A on \in BOOLEAN : Attended(x, reason, begun, on)
  BY <1>1, <1>3, <1>6 DEF Attended
<1>4. \A other : (other = "timed_out" => reason = other) => Attended(h, other, begun, over)
  BY DEF Attended
<1>5. /\ Attended([h EXCEPT !.caller = TRUE], reason, begun, over)
      /\ Attended([h EXCEPT !.shutdown = TRUE], reason, begun, over)
      /\ Attended(h, reason, TRUE, over) /\ Attended(h, reason, begun, FALSE)
  BY Zenon DEF Attended, Host
<1> QED BY <1>4, <1>5, <1>7, Zenon DEF x

LEMMA TimerSignals ==
  ASSUME NEW h, NEW reason, Attended(h, reason, TRUE, FALSE), h.deadline.timer = "armed",
         NEW elapsed \in Elapses(h.deadline), NEW other,
         other = "timed_out" => reason = other \/ Expired(TimerRuns(h.deadline, elapsed))
  PROVE  Attended([h EXCEPT !.deadline = TimerRuns(h.deadline, elapsed)], other, TRUE, FALSE)
<1> DEFINE d == TimerRuns(h.deadline, elapsed)
<1>1. Clocked(d) /\ (Expired(d) <=> d.timer = "settled")
  BY TimerCounts DEF Attended
<1>2. reason # "timed_out"
  BY DEF Attended
<1> HIDE DEF d
<1>3. Attended([h EXCEPT !.deadline = d], other, TRUE, FALSE)
  BY <1>1, <1>2 DEF Attended, Host, Clocked, d
<1> QED BY <1>3, Zenon DEF d

LEMMA Listens ==
  ASSUME NEW h \in Host, NEW timeout \in Timeouts, NEW reason, reason # "timed_out"
  PROVE  Attended([h EXCEPT !.listening = TRUE, !.deadline = Arm(timeout)], reason, TRUE, FALSE)
<1> DEFINE d == Arm(timeout)
<1>1. Clocked(d)
  BY ArmedAnew
<1> HIDE DEF d
<1>2. Attended([h EXCEPT !.listening = TRUE, !.deadline = d], reason, TRUE, FALSE)
  BY <1>1, Zenon DEF Attended, Host, Clocked
<1> QED BY <1>2, Zenon DEF d

LEMMA TimedOutLate ==
  ASSUME NEW begun, NEW over, Attended(host, run.reason, begun, over)
  PROVE  NeverEarly
  BY DEF Attended, Clocked, Deadline, Host, NeverEarly

-----------------------------------------------------------------------------
(* What a step may do to an agent that the run has not ended: the system    *)
(* carries out what was begun.                                              *)
Carried(g, h) ==
  /\ h \in Agent /\ h.made = g.made /\ h.closed = g.closed /\ h.clean = g.clean
  /\ g.gone => h.gone
  /\ \/ h.kills["cleanup"] = g.kills["cleanup"]
     \/ g.kills["cleanup"] = "waiting" /\ h.kills["cleanup"] \in {"done", "failed"}

KillStates == {"idle", "grace", "waiting", "done", "failed"}
Ends == Promises \cup Reasons \cup {"root_exit"}

LEMMA AgentFields ==
  ASSUME NEW g \in Agent
  PROVE  /\ g.made \in BOOLEAN /\ g.gone \in BOOLEAN /\ g.clean \in BOOLEAN /\ g.exited \in BOOLEAN
         /\ g.condemned \in BOOLEAN /\ g.ready \in Promises /\ g.term \in Promises
         /\ g.closed \in Ends /\ g.asked \in Reasons \cup {NoReason}
         /\ g.kills \in [Killers -> KillStates] /\ \A k \in Killers : g.kills[k] \in KillStates
  BY DEF Agent, Ends, KillStates

(* A kill, or a place among the kills taken or given back, and the word that *)
(* ends the agent.                                                          *)
LEMMA AgentCalls ==
  ASSUME NEW g \in Agent
  PROVE  /\ \A k \in Killers, x \in KillStates :
              LET h == [g EXCEPT !.kills[k] = x] IN
              /\ h \in Agent /\ h.made = g.made /\ h.closed = g.closed /\ h.clean = g.clean
              /\ h.gone = g.gone /\ h.asked = g.asked
              /\ h.kills = [g.kills EXCEPT ![k] = x]
         /\ \A reason \in Reasons :
              LET h == Terminate(g, reason) IN
              /\ Carried(g, h) /\ h.gone = g.gone /\ h.kills = g.kills
              /\ h.asked = IF g.asked = NoReason THEN reason ELSE g.asked
<1>1. ASSUME NEW k \in Killers, NEW x \in KillStates
      PROVE  LET h == [g EXCEPT !.kills[k] = x] IN
             /\ h \in Agent /\ h.made = g.made /\ h.closed = g.closed /\ h.clean = g.clean
             /\ h.gone = g.gone /\ h.asked = g.asked
             /\ h.kills = [g.kills EXCEPT ![k] = x]
  <2> DEFINE ks == [g.kills EXCEPT ![k] = x]
  <2>1. ks \in [Killers -> KillStates]
    BY AgentFields
  <2>2. [g EXCEPT !.kills[k] = x] = [g EXCEPT !.kills = ks]
    BY DEF Agent
  <2> HIDE DEF ks
  <2>3. LET h == [g EXCEPT !.kills = ks] IN
        /\ h \in Agent /\ h.made = g.made /\ h.closed = g.closed /\ h.clean = g.clean
        /\ h.gone = g.gone /\ h.asked = g.asked /\ h.kills = ks
    BY <2>1 DEF Agent, KillStates
  <2> QED BY <2>2, <2>3 DEF ks
<1>2. ASSUME NEW reason \in Reasons
      PROVE  LET h == Terminate(g, reason) IN
             /\ Carried(g, h) /\ h.gone = g.gone /\ h.kills = g.kills
             /\ h.asked = IF g.asked = NoReason THEN reason ELSE g.asked
  <2> DEFINE h == Terminate(g, reason)
  <2>1. CASE g.asked # NoReason
    BY <2>1 DEF Terminate, Carried
  <2>2. CASE g.asked = NoReason
    <3>1. h = [g EXCEPT !.asked = reason, !.term = "pending"]
      BY <2>2 DEF Terminate
    <3> HIDE DEF h
    <3>2. /\ h \in Agent /\ h.made = g.made /\ h.closed = g.closed /\ h.clean = g.clean
          /\ h.gone = g.gone /\ h.kills = g.kills /\ h.asked = reason
      BY <1>2, <3>1, Zenon DEF Agent, Promises
    <3>3. Carried(g, h) /\ h.gone = g.gone /\ h.kills = g.kills
          /\ h.asked = IF g.asked = NoReason THEN reason ELSE g.asked
      BY <2>2, <3>2 DEF Carried
    <3> QED BY <3>3 DEF h
  <2> QED BY <2>1, <2>2
<1> QED BY <1>1, <1>2

LEMMA Killing ==
  ASSUME NEW g \in Agent, NEW k \in Killers
  PROVE  /\ Kill(g, k) \in Agent /\ Kill(g, k).asked = g.asked
         /\ k # "cleanup" => Carried(g, Kill(g, k))
         /\ LET h == Kill(g, k) IN
            /\ h.made = g.made /\ h.closed = g.closed /\ h.clean = g.clean /\ h.gone = g.gone
            /\ h.kills = [g.kills EXCEPT ![k] = IF g.kills[k] \in {"idle", "grace"} THEN "waiting" ELSE @]
<1> DEFINE h == Kill(g, k)
           x == IF g.kills[k] \in {"idle", "grace"} THEN "waiting" ELSE g.kills[k]
<1>1. x \in KillStates
  BY AgentFields DEF KillStates
<1>2. g = [g EXCEPT !.kills[k] = g.kills[k]]
  BY DEF Agent
<1>3. h = [g EXCEPT !.kills[k] = x]
  BY <1>2 DEF Kill
<1>4. [g.kills EXCEPT ![k] = IF g.kills[k] \in {"idle", "grace"} THEN "waiting" ELSE @]
        = [g.kills EXCEPT ![k] = x]
  BY AgentFields
<1> HIDE DEF h, x
<1>5. /\ h \in Agent /\ h.made = g.made /\ h.closed = g.closed /\ h.clean = g.clean
      /\ h.gone = g.gone /\ h.asked = g.asked /\ h.kills = [g.kills EXCEPT ![k] = x]
  BY <1>1, <1>3, AgentCalls
<1>6. k # "cleanup" => h.kills["cleanup"] = g.kills["cleanup"]
  BY <1>5, AgentFields DEF Killers
<1> QED BY <1>4, <1>5, <1>6 DEF h, Carried

(* The steps of the system (terminatePosixProcessGroup, terminate, ready).  *)
SystemActs ==
  \/ Vanish \/ TerminateSettles \/ GraceEnds \/ \E killer \in Killers : Poll(killer)
  \/ ReadySettles \/ KimiReadySettles

LEMMA SystemCarries ==
  ASSUME agent \in Agent, SystemActs
  PROVE  Carried(agent, agent') /\ agent'.asked = agent.asked /\ UNCHANGED <<run, host>> /\ agent # NoAgent
<1>4. NoAgent.made = FALSE /\ NoAgent.term = "none" /\ NoAgent.ready = "none"
  BY DEF NoAgent
<1>5. CASE Vanish
  BY <1>4, <1>5, Zenon DEF Vanish, Carried, Agent
<1>6. CASE TerminateSettles
  BY <1>4, <1>6 DEF TerminateSettles, Carried, Agent, Promises
<1>1. CASE ReadySettles \/ KimiReadySettles
  BY <1>1, <1>4 DEF ReadySettles, KimiReadySettles, Carried, Agent, Promises
<1>2. CASE GraceEnds
  <2>1. agent # NoAgent
    BY <1>2 DEF GraceEnds, NoAgent, Killers
  <2> QED BY <1>2, <2>1, Killing, Zenon DEF GraceEnds, Killers
<1>3. ASSUME NEW k \in Killers, Poll(k)
      PROVE  Carried(agent, agent') /\ agent'.asked = agent.asked /\ UNCHANGED <<run, host>> /\ agent # NoAgent
  <2>1. agent # NoAgent /\ UNCHANGED <<run, host>> /\ agent.kills[k] = "waiting"
    BY <1>3, SMTT(20) DEF Poll, NoAgent
  <2>2. PICK x \in {"done", "failed"}, y \in BOOLEAN :
          agent' = [agent EXCEPT !.kills[k] = x, !.condemned = y]
    <3>1. CASE agent' = [agent EXCEPT !.kills[k] = "done", !.condemned = @ \/ ~agent.gone]
      BY <3>1, AgentFields, Zenon
    <3>2. CASE agent' = [agent EXCEPT !.kills[k] = "failed"]
      <4>1. agent' = [agent EXCEPT !.kills[k] = "failed", !.condemned = agent.condemned]
        BY <3>2, Zenon DEF Agent
      <4> QED BY <4>1, AgentFields, Zenon
    <3> QED BY <1>3, <3>1, <3>2, Zenon DEF Poll
  <2>3. PICK h : h = [agent EXCEPT !.kills[k] = x]
    BY Zenon
  <2>4. agent' = [h EXCEPT !.condemned = y]
    BY <2>2, <2>3
  <2>5. /\ h \in Agent /\ h.made = agent.made /\ h.closed = agent.closed /\ h.clean = agent.clean
        /\ h.gone = agent.gone /\ h.asked = agent.asked /\ h.kills = [agent.kills EXCEPT ![k] = x]
    <3>1. x \in KillStates
      BY DEF KillStates
    <3>2. LET f == [agent EXCEPT !.kills[k] = x] IN
          /\ f \in Agent /\ f.made = agent.made /\ f.closed = agent.closed /\ f.clean = agent.clean
          /\ f.gone = agent.gone /\ f.asked = agent.asked /\ f.kills = [agent.kills EXCEPT ![k] = x]
      BY <3>1, AgentCalls
    <3> QED BY <2>3, <3>2
  <2>6. /\ agent' \in Agent /\ agent'.made = h.made /\ agent'.closed = h.closed /\ agent'.clean = h.clean
        /\ agent'.gone = h.gone /\ agent'.asked = h.asked /\ agent'.kills = h.kills
    BY <2>4, <2>5 DEF Agent
  <2>7. \/ agent'.kills["cleanup"] = agent.kills["cleanup"]
        \/ k = "cleanup" /\ agent'.kills["cleanup"] = x
    BY <2>5, <2>6, AgentFields DEF Killers
  <2> QED BY <2>1, <2>5, <2>6, <2>7 DEF Carried
<1> QED BY <1>1, <1>2, <1>3, <1>5, <1>6 DEF SystemActs

-----------------------------------------------------------------------------
(* Pi: the functions of the closure *)

(* The fields the invariant reads, but for those a cancellation or a failure *)
(* changes; and these.                                                      *)
SameCourse(c, d) ==
  /\ d.stage = c.stage /\ d.windows = c.windows /\ d.exit = c.exit /\ d.drained = c.drained
  /\ d.invoked = c.invoked /\ d.fallback = c.fallback /\ d.status = c.status
  /\ d.telemetry = c.telemetry

SameRun(c, d) ==
  SameCourse(c, d) /\ d.reason = c.reason /\ d.internal = c.internal /\ d.flow = c.flow

(* What the handlers may do: give a first reason, fail, and ask the agent to *)
(* end for that.                                                            *)
PiMoves(c, g, d, h) ==
  /\ d \in Run /\ SameCourse(c, d) /\ Carried(g, h)
  /\ d.reason = c.reason \/ c.reason = NoReason
  /\ c.internal => d.internal
  /\ d.flow # "none" => d.reason # NoReason
  /\ \/ h.asked = g.asked
     \/ /\ g.asked = NoReason /\ h.asked \in {"cancelled", d.reason}
        /\ d.reason # NoReason \/ d.internal

LEMMA PiKeeps ==
  ASSUME NEW c, NEW g, PiSound(c, g), c.stage \notin PiBefore, NEW d, NEW h, PiMoves(c, g, d, h),
         c.stage \in PiOver => d.reason = c.reason,
         c.stage = "done" => d.who = c.who /\ d.internal = c.internal /\ h.asked = g.asked
  PROVE  PiSound(d, h)
<1>1. /\ c \in Run /\ d \in Run /\ h \in Agent /\ g \in Agent
      /\ g.asked \in Reasons \cup {NoReason} /\ NoReason \notin Reasons /\ g.closed \in Ends
      /\ SameCourse(c, d) /\ Carried(g, h) /\ c.stage \notin PiBefore
  <2>1. c \in Run /\ g \in Agent /\ d \in Run /\ h \in Agent /\ SameCourse(c, d) /\ Carried(g, h)
    BY DEF PiSound, Promised, PiMoves, Carried
  <2>2. NoReason \notin Reasons
    BY DEF NoReason, Reasons
  <2> QED BY <2>1, <2>2, AgentFields
<1>2. HasExit(h) <=> HasExit(g)
  BY <1>1 DEF HasExit, IsClosed, Carried
<1>3. Promised(h, d.windows)
  BY <1>1, <1>2 DEF PiSound, Promised, PiMoves, Carried, SameCourse
<1>4. PiWorks(d, h)
  BY <1>1 DEF PiSound, PiWorks, PiMoves, Carried, SameCourse, PiOver
<1>5. PiKnows(d, h)
  BY <1>1, <1>2 DEF PiSound, PiKnows, PiMoves, Carried, SameCourse
<1>6. PiStands(d, h)
  <2>1. d.status = "completed" => c.stage \in PiOver
    BY <1>1 DEF PiSound, PiWorks, SameCourse
  <2>2. Agrees(d.status, d.reason)
    BY <1>1 DEF PiSound, PiStands, Agrees, PiMoves, SameCourse, PiWorks
  <2> QED BY <1>1, <2>1, <2>2 DEF PiSound, PiStands, Carried, SameCourse
<1>7. d.stage = "done" => PiConcluded(d, h)
  BY <1>1, <1>2 DEF PiSound, PiConcluded, Carried, SameCourse, IsClosed
<1> QED BY <1>1, <1>3, <1>4, <1>5, <1>6, <1>7 DEF PiSound

(* The promises a run may be waiting for. *)
LEMMA PiPromises ==
  ASSUME NEW c \in Run
  PROVE  /\ RejectPending(c) \in Run /\ SameRun(c, RejectPending(c)) /\ RejectPending(c).who = c.who
         /\ \A end \in {"ok", "error"} :
              LET d == FinishCompletion(c, end) IN d \in Run /\ SameRun(c, d) /\ d.who = c.who
         /\ \A done \in BOOLEAN :
              LET d == [c EXCEPT !.decoderDone = done] IN d \in Run /\ SameRun(c, d) /\ d.who = c.who
<1>1. RejectPending(c) \in Run /\ SameRun(c, RejectPending(c)) /\ RejectPending(c).who = c.who
  BY DEF RejectPending, Run, SameRun, SameCourse
<1>2. ASSUME NEW end \in {"ok", "error"}
      PROVE  LET d == FinishCompletion(c, end) IN d \in Run /\ SameRun(c, d) /\ d.who = c.who
  BY DEF FinishCompletion, Run, SameRun, SameCourse
<1>3. ASSUME NEW done \in BOOLEAN
      PROVE  LET d == [c EXCEPT !.decoderDone = done] IN d \in Run /\ SameRun(c, d) /\ d.who = c.who
  BY DEF Run, SameRun, SameCourse
<1> QED BY <1>1, <1>2, <1>3

(* The fields a failure and a cancellation set. *)
Failing(c) == [c EXCEPT !.internal = TRUE]
Cancelled(c, reason, flow) == [c EXCEPT !.reason = reason, !.flow = flow]

LEMMA FailingIs ==
  ASSUME NEW c \in Run
  PROVE  /\ Failing(c) \in Run /\ SameCourse(c, Failing(c)) /\ Failing(c).reason = c.reason
         /\ Failing(c).flow = c.flow /\ Failing(c).internal /\ Failing(c).who = c.who
  BY Zenon DEF Failing, Run, SameCourse

LEMMA CancelledIs ==
  ASSUME NEW c \in Run, NEW reason \in Reasons, NEW flow \in {"term", "resolved"}
  PROVE  LET d == Cancelled(c, reason, flow) IN
         /\ d \in Run /\ SameCourse(c, d) /\ d.reason = reason /\ d.flow = flow
         /\ d.internal = c.internal /\ d.who = c.who
  BY Zenon DEF Cancelled, Run, SameCourse

LEMMA LatchIs ==
  ASSUME NEW c \in Run, NEW g \in Agent, c.flow # "none" => c.reason # NoReason
  PROVE  LET w == LatchInternalFailure(World(c, g)) IN
         /\ PiMoves(c, g, w.run, w.agent) /\ w.run.internal
         /\ w.run.reason = c.reason /\ w.run.flow = c.flow /\ w.run.who = c.who
         /\ w = World(w.run, w.agent)
         /\ c.exit # "none" /\ c.windows => w.agent.asked = g.asked
         /\ w.agent.kills["cleanup"] = g.kills["cleanup"]
<1> DEFINE i == Failing(c)
           d == FinishCompletion(RejectPending(i), "error")
           h == IF c.windows THEN (IF c.exit # "none" THEN g ELSE Terminate(g, "cancelled"))
                ELSE Kill(g, "failure")
           w == LatchInternalFailure(World(c, g))
<1>1. i \in Run /\ SameCourse(c, i) /\ i.reason = c.reason /\ i.flow = c.flow /\ i.internal /\ i.who = c.who
  BY FailingIs
<1> HIDE DEF i
<1>2. RejectPending(i) \in Run /\ SameRun(i, RejectPending(i)) /\ RejectPending(i).who = i.who
  BY <1>1, PiPromises
<1>3. d \in Run /\ SameRun(RejectPending(i), d) /\ d.who = i.who
  BY <1>2, PiPromises
<1>4. SameCourse(c, d) /\ d.reason = c.reason /\ d.flow = c.flow /\ d.internal /\ d.who = c.who
  BY <1>1, <1>2, <1>3, Zenon DEF SameRun, SameCourse
<1>5. Carried(g, h) /\ h.kills["cleanup"] = g.kills["cleanup"] /\ h.asked \in {g.asked, "cancelled"}
      /\ (h.asked # g.asked => g.asked = NoReason)
      /\ (c.exit # "none" /\ c.windows => h.asked = g.asked)
  <2>1. Carried(g, g)
    BY DEF Carried
  <2>2. Carried(g, Terminate(g, "cancelled")) /\ Terminate(g, "cancelled").kills = g.kills
        /\ Terminate(g, "cancelled").asked = IF g.asked = NoReason THEN "cancelled" ELSE g.asked
    BY AgentCalls DEF Reasons
  <2>3. Carried(g, Kill(g, "failure")) /\ Kill(g, "failure").asked = g.asked
        /\ Kill(g, "failure").kills["cleanup"] = g.kills["cleanup"]
    <3>1. "failure" \in Killers /\ "cleanup" \in Killers /\ "failure" # "cleanup"
      BY DEF Killers
    <3>2. /\ Kill(g, "failure").asked = g.asked /\ Carried(g, Kill(g, "failure"))
          /\ Kill(g, "failure").kills = [g.kills EXCEPT !["failure"] =
                IF g.kills["failure"] \in {"idle", "grace"} THEN "waiting" ELSE @]
      BY <3>1, Killing
    <3> QED BY <3>1, <3>2, AgentFields
  <2> QED BY <2>1, <2>2, <2>3
<1>6. CASE c.internal
  BY <1>6, AgentFields DEF LatchInternalFailure, World, PiMoves, SameCourse, Carried
<1>7. CASE ~c.internal
  <2>1. d = FinishCompletion(RejectPending([c EXCEPT !.internal = TRUE]), "error")
    BY DEF i, Failing
  <2>2. d.windows = c.windows /\ d.exit = c.exit
    BY <1>4 DEF SameCourse
  <2> HIDE DEF d
  <2>3. w = World(d, h)
    BY <1>7, <2>1, <2>2, Zenon DEF LatchInternalFailure, StartOwnedClosure, World
  <2> HIDE DEF h, w
  <2>4. w.run = d /\ w.agent = h
    BY <2>3 DEF World
  <2>5. PiMoves(c, g, d, h)
    BY <1>3, <1>4, <1>5 DEF PiMoves, d
  <2> QED BY <1>4, <1>5, <2>3, <2>4, <2>5 DEF w
<1> QED BY <1>6, <1>7

LEMMA CancelIs ==
  ASSUME NEW c \in Run, NEW g \in Agent, NEW reason \in Reasons,
         c.flow # "none" => c.reason # NoReason
  PROVE  LET w == CancelRun(World(c, g), reason) IN
         /\ PiMoves(c, g, w.run, w.agent)
         /\ w.run.reason = (IF c.reason = NoReason THEN reason ELSE c.reason)
<1> DEFINE f == IF c.windows THEN (IF c.exit # "none" THEN "resolved" ELSE "term") ELSE "resolved"
           d == Cancelled(c, reason, f)
           h == IF c.windows THEN (IF c.exit # "none" THEN g ELSE Terminate(g, reason))
                ELSE GiveGrace(g)
           w == CancelRun(World(c, g), reason)
<1>1. CASE c.reason # NoReason
  BY <1>1, AgentFields DEF CancelRun, World, PiMoves, SameCourse, Carried
<1>2. CASE c.reason = NoReason
  <2>1. /\ d \in Run /\ SameCourse(c, d) /\ d.reason = reason /\ d.flow = f
        /\ d.internal = c.internal
    <3>1. f \in {"term", "resolved"}
      OBVIOUS
    <3> HIDE DEF f
    <3>2. d \in Run /\ SameCourse(c, d) /\ d.reason = reason /\ d.flow = f /\ d.internal = c.internal
      BY <3>1, CancelledIs
    <3> QED BY <3>1, <3>2
  <2>2. Carried(g, h) /\ h.asked \in {g.asked, reason} /\ (h.asked # g.asked => g.asked = NoReason)
    <3>1. Carried(g, g)
      BY DEF Carried
    <3>2. Carried(g, Terminate(g, reason))
          /\ Terminate(g, reason).asked = IF g.asked = NoReason THEN reason ELSE g.asked
      BY AgentCalls
    <3>3. Carried(g, GiveGrace(g)) /\ GiveGrace(g).asked = g.asked
      <4>1. "timer" \in Killers /\ "cleanup" \in Killers /\ "grace" \in KillStates
        BY DEF Killers, KillStates
      <4>2. LET e == [g EXCEPT !.kills["timer"] = "grace"] IN
            /\ e \in Agent /\ e.made = g.made /\ e.closed = g.closed /\ e.clean = g.clean
            /\ e.gone = g.gone /\ e.asked = g.asked /\ e.kills = [g.kills EXCEPT !["timer"] = "grace"]
        BY <4>1, AgentCalls
      <4>3. [g.kills EXCEPT !["timer"] = "grace"]["cleanup"] = g.kills["cleanup"]
        BY <4>1, AgentFields
      <4> QED BY <4>2, <4>3 DEF Carried, GiveGrace
    <3> QED BY <3>1, <3>2, <3>3
  <2>3. w = World(d, h)
    <3>1. CASE c.windows
      BY <1>2, <3>1, Zenon DEF CancelRun, StartOwnedClosure, FlowOf, World, Run, Cancelled
    <3>2. CASE ~c.windows
      BY <1>2, <3>2 DEF CancelRun, World, Run, Cancelled
    <3> QED BY <3>1, <3>2
  <2> HIDE DEF w, h, d, f
  <2>4. w.run = d /\ w.agent = h
    BY <2>3 DEF World
  <2>5. NoReason \notin Reasons
    BY DEF NoReason, Reasons
  <2>6. PiMoves(c, g, d, h)
    BY <1>2, <2>1, <2>2, <2>5 DEF PiMoves
  <2> QED BY <1>2, <2>1, <2>4, <2>6 DEF w
<1> QED BY <1>1, <1>2

(* A record of Pi, and a chunk of them, change promises and what is known of *)
(* the assistant only (handleRecord).                                       *)
LEMMA RecordIs ==
  ASSUME NEW c \in Run, NEW record \in Records
  PROVE  HandleRecord(c, record) \in Run /\ SameRun(c, HandleRecord(c, record))
<1>1. CASE record \in [type : {"response"}, says : {"ok", "refused", "mismatch"}]
  BY <1>1 DEF HandleRecord, Run, SameRun, SameCourse
<1>2. CASE record \in [type : {"message_end"}, who : Identities \ {"unseen"}, error : BOOLEAN]
  <2> DEFINE who == Recognise(record.who, c.who)
  <2>1. who \in Identities /\ record.error \in BOOLEAN /\ record.type = "message_end"
    BY <1>2 DEF Recognise, Identities, Run
  <2>2. HandleRecord(c, record) = [c EXCEPT !.who = who, !.assistantError = record.error]
    BY <2>1 DEF HandleRecord
  <2> HIDE DEF who
  <2> QED BY <2>1, <2>2, ZenonT(40) DEF Run, SameRun, SameCourse
<1>3. CASE record \in [type : {"agent_end"}, who : Identities \ {"unseen"}]
  <2> DEFINE who == Recognise(record.who, c.who)
  <2>1. who \in Identities /\ record.type = "agent_end"
    BY <1>3 DEF Recognise, Identities, Run
  <2>2. HandleRecord(c, record) = [c EXCEPT !.who = who]
    BY <2>1 DEF HandleRecord
  <2> HIDE DEF who
  <2> QED BY <2>1, <2>2 DEF Run, SameRun, SameCourse
<1>4. CASE record \in [type : {"agent_settled", "other"}]
  <2>1. FinishCompletion(c, "ok") \in Run /\ SameRun(c, FinishCompletion(c, "ok")) /\ SameRun(c, c)
    BY PiPromises DEF SameRun, SameCourse
  <2> QED BY <1>4, <2>1 DEF HandleRecord
<1> QED BY <1>1, <1>2, <1>3, <1>4 DEF Records

LEMMA RecordsAre ==
  ASSUME NEW c \in Run, NEW records \in Seq(Records)
  PROVE  HandleRecords(c, records) \in Run /\ SameRun(c, HandleRecords(c, records))
<1> DEFINE N == Len(records)
           Is(f, k) == f = [i \in 0..k |-> IF i = 0 THEN c ELSE HandleRecord(f[i - 1], records[i])]
           Good(d) == d \in Run /\ SameRun(c, d)
           S == {k \in Nat : k <= N => \E f : Is(f, k) /\ Good(f[k])}
<1>1. N \in Nat /\ \A i \in 1..N : records[i] \in Records
  OBVIOUS
<1>2. 0 \in S
  <2> DEFINE f == [i \in 0..0 |-> c]
  <2>1. f = [i \in 0..0 |-> IF i = 0 THEN c ELSE HandleRecord(f[i - 1], records[i])] /\ f[0] = c
    OBVIOUS
  <2>2. Good(c)
    BY DEF SameRun, SameCourse
  <2> HIDE DEF f
  <2> QED BY <2>1, <2>2
<1>3. ASSUME NEW k \in Nat, k \in S PROVE k + 1 \in S
  <2> SUFFICES ASSUME k + 1 <= N PROVE \E f : Is(f, k + 1) /\ Good(f[k + 1])
    OBVIOUS
  <2>1. PICK f : Is(f, k) /\ Good(f[k])
    BY <1>1, <1>3
  <2> DEFINE last == HandleRecord(f[k], records[k + 1])
             h == [i \in 0..(k + 1) |-> IF i = k + 1 THEN last ELSE f[i]]
  <2>2. Good(last)
    <3>1. records[k + 1] \in Records
      BY <1>1
    <3>2. last \in Run /\ SameRun(f[k], last)
      BY <2>1, <3>1, RecordIs
    <3> QED BY <2>1, <3>2 DEF SameRun, SameCourse
  <2>3. ASSUME NEW i \in 0..(k + 1)
        PROVE  h[i] = IF i = 0 THEN c ELSE HandleRecord(h[i - 1], records[i])
    <3>1. CASE i = k + 1
      BY <3>1
    <3>2. CASE i # k + 1
      <4>1. i \in 0..k /\ h[i] = f[i]
        BY <3>2
      <4>2. i # 0 => i - 1 \in 0..k /\ h[i - 1] = f[i - 1]
        BY <4>1
      <4> QED BY <2>1, <4>1, <4>2
    <3> QED BY <3>1, <3>2
  <2>4. Is(h, k + 1) /\ h[k + 1] = last
    BY <2>3
  <2> HIDE DEF h, last
  <2> QED BY <2>2, <2>4, Zenon
<1>4. N \in S
  <2> HIDE DEF S
  <2> QED BY <1>1, <1>2, <1>3, FromZero
<1>5. PICK f : Is(f, N) /\ Good(f[N])
  BY <1>1, <1>4
<1> DEFINE a == CHOOSE g : Is(g, N)
<1>6. Is(a, N)
  BY <1>5, Zenon
<1>7. HandleRecords(c, records) = a[N]
  BY DEF HandleRecords
<1> HIDE DEF a
<1> DEFINE T == {k \in Nat : k <= N => a[k] = f[k]}
<1>8. 0 \in T
  BY <1>5, <1>6
<1>9. ASSUME NEW k \in Nat, k \in T PROVE k + 1 \in T
  <2>1. ASSUME k + 1 <= N PROVE a[k + 1] = f[k + 1]
    <3>1. k + 1 \in 0..N /\ k + 1 # 0 /\ k \in 0..N /\ (k + 1) - 1 = k /\ a[k] = f[k]
      BY <1>1, <1>9, <2>1
    <3>2. a[k + 1] = HandleRecord(a[k], records[k + 1])
      BY <1>6, <3>1
    <3>3. f[k + 1] = HandleRecord(f[k], records[k + 1])
      BY <1>5, <3>1
    <3> QED BY <3>1, <3>2, <3>3
  <2> QED BY <2>1
<1>10. a[N] = f[N]
  <2>1. N \in T
    <3> HIDE DEF T
    <3> QED BY <1>1, <1>8, <1>9, FromZero
  <2> QED BY <1>1, <2>1
<1> QED BY <1>5, <1>7, <1>10

LEMMA DecoderIs ==
  ASSUME NEW c \in Run, NEW g \in Agent, c.flow # "none" => c.reason # NoReason, NEW torn \in BOOLEAN
  PROVE  LET w == FinishDecoder(World(c, g), torn) IN
         /\ PiMoves(c, g, w.run, w.agent)
         /\ w.run.reason = c.reason /\ w.run.who = c.who
         /\ w = World(w.run, w.agent)
         /\ c.exit # "none" /\ c.windows => w.agent.asked = g.asked
         /\ w.agent.kills["cleanup"] = g.kills["cleanup"]
<1> DEFINE d == [c EXCEPT !.decoderDone = TRUE]
           w == FinishDecoder(World(c, g), torn)
<1>1. d \in Run /\ SameRun(c, d) /\ d.who = c.who
  BY PiPromises, Zenon
<1>2. PiMoves(c, g, c, g) /\ PiMoves(c, g, d, g)
  BY <1>1, AgentFields DEF PiMoves, SameRun, SameCourse, Carried
<1>3. w = IF c.decoderDone THEN World(c, g)
          ELSE IF torn /\ c.reason = NoReason THEN LatchInternalFailure(World(d, g)) ELSE World(d, g)
  <2>1. World(c, g).run = c /\ World(d, g).run.reason = c.reason
    BY <1>1, Zenon DEF World, SameRun
  <2> QED BY <2>1 DEF FinishDecoder, World
<1> HIDE DEF d, w
<1>4. CASE w = World(c, g) \/ w = World(d, g)
  BY <1>1, <1>2, <1>4 DEF World, SameRun, w
<1>5. CASE w = LatchInternalFailure(World(d, g))
  <2>1. /\ PiMoves(d, g, w.run, w.agent) /\ w.run.reason = d.reason /\ w.run.who = d.who
        /\ w = World(w.run, w.agent) /\ (d.exit # "none" /\ d.windows => w.agent.asked = g.asked)
        /\ w.agent.kills["cleanup"] = g.kills["cleanup"]
    BY <1>1, <1>5, LatchIs DEF SameRun
  <2>2. PiMoves(c, g, w.run, w.agent)
    BY <1>1, <2>1 DEF PiMoves, SameRun, SameCourse
  <2> QED BY <1>1, <2>1, <2>2 DEF SameRun, SameCourse, w
<1> QED BY <1>3, <1>4, <1>5

-----------------------------------------------------------------------------
(* Pi: the end of a run *)

(* A run that may still go either way.                                      *)
PiOpen(c, g) ==
  /\ c \in Run /\ Promised(g, c.windows) /\ g.made /\ g.kills["cleanup"] = "idle"
  /\ c.stage \notin PiBefore \cup PiOver /\ c.telemetry = NoTelemetry
  /\ c.flow # "none" => c.reason # NoReason
  /\ PiKnows(c, g)

(* What the status it leaves with rests on.                                 *)
PiEarned(c, g) ==
  /\ c.status = "completed" => /\ c.reason = NoReason /\ c.invoked /\ ~c.fallback
                               /\ c.windows => c.exit = "root_exit" /\ g.clean
  /\ Agrees(c.status, c.reason)

WithStatus(c, status) == [c EXCEPT !.status = status]

LEMMA WithStatusIs ==
  ASSUME NEW c \in Run, NEW status \in Statuses
  PROVE  LET d == WithStatus(c, status) IN
         /\ d \in Run /\ d.status = status /\ d.stage = c.stage /\ d.windows = c.windows
         /\ d.exit = c.exit /\ d.drained = c.drained /\ d.invoked = c.invoked
         /\ d.fallback = c.fallback /\ d.telemetry = c.telemetry /\ d.reason = c.reason
         /\ d.internal = c.internal /\ d.flow = c.flow /\ d.who = c.who
         /\ d.inputEnded = c.inputEnded /\ d.closedError = c.closedError /\ d.reported = c.reported
  BY DEF WithStatus, Run

LEMMA GraceIs ==
  ASSUME NEW g \in Agent
  PROVE  LET h == ClearGrace(g) IN
         /\ h \in Agent /\ h.made = g.made /\ h.closed = g.closed /\ h.clean = g.clean
         /\ h.gone = g.gone /\ h.asked = g.asked /\ h.kills["cleanup"] = g.kills["cleanup"]
<1>1. "timer" \in Killers /\ "cleanup" \in Killers /\ "timer" # "cleanup" /\ "idle" \in KillStates
  BY DEF Killers, KillStates
<1>2. LET h == [g EXCEPT !.kills["timer"] = "idle"] IN
      /\ h \in Agent /\ h.made = g.made /\ h.closed = g.closed /\ h.clean = g.clean
      /\ h.gone = g.gone /\ h.asked = g.asked /\ h.kills = [g.kills EXCEPT !["timer"] = "idle"]
  BY <1>1, AgentCalls
<1>3. [g.kills EXCEPT !["timer"] = "idle"]["cleanup"] = g.kills["cleanup"]
  BY <1>1, AgentFields
<1> QED BY <1>2, <1>3 DEF ClearGrace

LEMMA LeaveIs ==
  ASSUME NEW c, NEW g, PiOpen(c, g), PiEarned(c, g)
  PROVE  LET w == Leave(World(c, g)) IN
         PiSound(w.run, w.agent) /\ w.run.stage = "cleanup" /\ w.run.reason = c.reason
<1> DEFINE h == ClearGrace(g)
           w == Leave(World(c, g))
<1>1. c \in Run /\ g \in Agent
  BY DEF PiOpen, Promised
<1>2. /\ h \in Agent /\ h.made = g.made /\ h.closed = g.closed /\ h.clean = g.clean
      /\ h.gone = g.gone /\ h.asked = g.asked /\ h.kills["cleanup"] = "idle"
  BY <1>1, GraceIs, Zenon DEF PiOpen
<1> DEFINE d == [c EXCEPT !.stage = "cleanup"]
           unended == d.internal \/ (~d.inputEnded /\ d.exit = "none" /\ ~d.closedError)
           e == IF ~d.windows THEN Kill(h, "cleanup")
                ELSE IF d.flow = "none" /\ unended /\ d.exit = "none"
                THEN Terminate(h, "cancelled") ELSE h
           own == IF ~d.windows THEN d.ownFlow
                  ELSE IF d.flow # "none" THEN d.flow
                  ELSE IF unended THEN FlowOf(d) ELSE "resolved"
           f == [d EXCEPT !.ownFlow = own]
<1>4. /\ d \in Run /\ d.stage = "cleanup"
      /\ d.windows = c.windows /\ d.exit = c.exit /\ d.drained = c.drained /\ d.invoked = c.invoked
      /\ d.fallback = c.fallback /\ d.status = c.status /\ d.telemetry = c.telemetry
      /\ d.reason = c.reason /\ d.internal = c.internal /\ d.flow = c.flow
      /\ d.inputEnded = c.inputEnded /\ d.closedError = c.closedError
  BY <1>1 DEF Run, Stages
<1> HIDE DEF h
<1>5. w = World(f, e)
  <2>1. w = IF ~d.windows THEN World(d, Kill(h, "cleanup"))
            ELSE IF d.flow # "none" THEN World([d EXCEPT !.ownFlow = d.flow], h)
            ELSE IF unended THEN StartOwnedClosure(World([d EXCEPT !.ownFlow = FlowOf(d)], h), "cancelled")
            ELSE World([d EXCEPT !.ownFlow = "resolved"], h)
    BY DEF Leave, World, h
  <2> HIDE DEF d, w
  <2>2. d = [d EXCEPT !.ownFlow = d.ownFlow] /\ [d EXCEPT !.ownFlow = FlowOf(d)].exit = d.exit
    BY <1>4 DEF Run
  <2>3. StartOwnedClosure(World([d EXCEPT !.ownFlow = FlowOf(d)], h), "cancelled")
          = World([d EXCEPT !.ownFlow = FlowOf(d)], IF d.exit # "none" THEN h ELSE Terminate(h, "cancelled"))
    BY <2>2, Zenon DEF StartOwnedClosure, World
  <2>4. CASE ~d.windows
    BY <2>1, <2>2, <2>4
  <2>5. CASE d.windows /\ d.flow # "none"
    BY <2>1, <2>5
  <2>6. CASE d.windows /\ d.flow = "none"
    BY <2>1, <2>3, <2>6
  <2> QED BY <2>4, <2>5, <2>6
<1> HIDE DEF d
<1>6. /\ f \in Run /\ SameRun(d, f)
  <2>1. own \in {"none", "term", "resolved"}
    BY <1>4 DEF Run, FlowOf
  <2> HIDE DEF own
  <2> QED BY <1>4, <2>1 DEF Run, SameRun, SameCourse
<1>7. /\ e \in Agent /\ e.made = g.made /\ e.closed = g.closed /\ e.clean = g.clean /\ e.gone = g.gone
      /\ ~c.windows => e.asked = g.asked /\ e.kills["cleanup"] = "waiting"
      /\ \/ e.asked = g.asked
         \/ g.asked = NoReason /\ e.asked = "cancelled" /\ c.exit = "none" /\ c.windows
  <2>1. CASE ~c.windows
    <3>1. /\ Kill(h, "cleanup") \in Agent /\ Kill(h, "cleanup").asked = h.asked
          /\ LET x == Kill(h, "cleanup") IN
             /\ x.made = h.made /\ x.closed = h.closed /\ x.clean = h.clean /\ x.gone = h.gone
             /\ x.kills = [h.kills EXCEPT !["cleanup"] =
                             IF h.kills["cleanup"] \in {"idle", "grace"} THEN "waiting" ELSE @]
      BY <1>2, Killing, Zenon DEF Killers
    <3>2. Kill(h, "cleanup").kills["cleanup"] = "waiting"
      BY <1>2, <3>1, AgentFields DEF Killers
    <3> QED BY <1>2, <1>4, <2>1, <3>1, <3>2
  <2>2. CASE c.windows
    <3>1. /\ Carried(h, Terminate(h, "cancelled")) /\ Terminate(h, "cancelled").gone = h.gone
          /\ Terminate(h, "cancelled").asked = IF h.asked = NoReason THEN "cancelled" ELSE h.asked
      BY <1>2, AgentCalls DEF Reasons
    <3> QED BY <1>2, <1>4, <2>2, <3>1 DEF Carried
  <2> QED BY <2>1, <2>2
<1> HIDE DEF e, f
<1>8. /\ f.stage = "cleanup" /\ f.windows = c.windows /\ f.exit = c.exit /\ f.drained = c.drained
      /\ f.invoked = c.invoked /\ f.fallback = c.fallback /\ f.status = c.status
      /\ f.telemetry = c.telemetry /\ f.reason = c.reason /\ f.internal = c.internal /\ f.flow = c.flow
  BY <1>4, <1>6 DEF SameRun, SameCourse
<1>9. (HasExit(e) <=> HasExit(g)) /\ "cancelled" # NoReason
  BY <1>7 DEF HasExit, IsClosed, NoReason
<1>10. Promised(e, f.windows)
  BY <1>7, <1>8, <1>9 DEF PiOpen, Promised
<1>11. PiWorks(f, e)
  BY <1>7, <1>8 DEF PiOpen, PiWorks, PiBefore, PiOver
<1>12. PiKnows(f, e)
  BY <1>7, <1>8, <1>9 DEF PiOpen, PiKnows, PiEarned, PiOver, PiBefore
<1>13. PiStands(f, e)
  BY <1>7, <1>8 DEF PiStands, PiEarned
<1>14. PiSound(f, e)
  BY <1>6, <1>8, <1>10, <1>11, <1>12, <1>13 DEF PiSound
<1>15. w.run = f /\ w.agent = e
  BY <1>5 DEF World
<1> QED BY <1>8, <1>14, <1>15

LEMMA OpenStays ==
  ASSUME NEW c, NEW g, PiOpen(c, g)
  PROVE  /\ \A status \in Statuses : PiOpen(WithStatus(c, status), g)
         /\ \A d, h : PiMoves(c, g, d, h) /\ h.kills["cleanup"] = "idle" => PiOpen(d, h)
<1>1. c \in Run /\ g \in Agent
  BY DEF PiOpen, Promised
<1>2. ASSUME NEW status \in Statuses PROVE PiOpen(WithStatus(c, status), g)
  <2> DEFINE d == WithStatus(c, status)
  <2>1. /\ d \in Run /\ d.stage = c.stage /\ d.windows = c.windows
        /\ d.exit = c.exit /\ d.drained = c.drained /\ d.telemetry = c.telemetry /\ d.reason = c.reason
        /\ d.internal = c.internal /\ d.flow = c.flow
    BY <1>1, WithStatusIs
  <2> HIDE DEF d
  <2>2. PiOpen(d, g)
    BY <2>1 DEF PiOpen, PiKnows
  <2> QED BY <2>2 DEF d
<1>3. ASSUME NEW d, NEW h, PiMoves(c, g, d, h), h.kills["cleanup"] = "idle" PROVE PiOpen(d, h)
  <2>1. /\ d \in Run /\ SameCourse(c, d) /\ Carried(g, h) /\ h \in Agent
        /\ g.asked \in Reasons \cup {NoReason} /\ NoReason \notin Reasons /\ g.closed \in Ends
        /\ c.flow # "none" => c.reason # NoReason
    <3>1. d \in Run /\ SameCourse(c, d) /\ Carried(g, h) /\ h \in Agent /\ NoReason \notin Reasons
          /\ (c.flow # "none" => c.reason # NoReason)
      BY <1>3 DEF PiMoves, Carried, NoReason, Reasons, PiOpen
    <3> QED BY <1>1, <3>1, AgentFields
  <2>2. HasExit(h) <=> HasExit(g)
    BY <2>1 DEF HasExit, IsClosed, Carried
  <2>3. Promised(h, d.windows)
    BY <1>3, <2>1, <2>2 DEF PiOpen, Promised, PiMoves, Carried, SameCourse
  <2>4. PiKnows(d, h)
    BY <1>3, <2>1, <2>2 DEF PiOpen, PiKnows, PiMoves, Carried, SameCourse
  <2> QED BY <1>3, <2>1, <2>3, <2>4 DEF PiOpen, PiMoves, Carried, SameCourse
<1> QED BY <1>2, <1>3

LEMMA SucceedIs ==
  ASSUME NEW c, NEW g, PiOpen(c, g), c.invoked, ~c.fallback,
         c.reason = NoReason /\ c.windows => c.exit = "root_exit" /\ g.clean
  PROVE  LET w == Succeed(World(c, g)) IN
         PiSound(w.run, w.agent) /\ w.run.stage = "cleanup" /\ w.run.reason = c.reason
<1> DEFINE status == IF c.reason = NoReason THEN "completed" ELSE StatusOfReason(c.reason)
           d == WithStatus(c, status)
<1>1. c \in Run
  BY DEF PiOpen
<1>2. status \in Statuses /\ Agrees(status, c.reason) /\ (status = "completed" => c.reason = NoReason)
  BY DEF Statuses, Agrees, StatusOfReason
<1>3. Succeed(World(c, g)) = Leave(World(d, g))
  BY DEF Succeed, World, WithStatus
<1> HIDE DEF status
<1>4. /\ d.status = status /\ d.windows = c.windows /\ d.exit = c.exit /\ d.invoked = c.invoked
      /\ d.fallback = c.fallback /\ d.reason = c.reason
  BY <1>1, <1>2, WithStatusIs, Zenon
<1>5. PiOpen(d, g)
  BY <1>2, OpenStays
<1> HIDE DEF d
<1>6. PiEarned(d, g)
  BY <1>2, <1>4 DEF PiEarned
<1> QED BY <1>3, <1>4, <1>5, <1>6, LeaveIs

LEMMA ThrowIs ==
  ASSUME NEW c, NEW g, PiOpen(c, g)
  PROVE  LET w == Throw(World(c, g)) IN
         PiSound(w.run, w.agent) /\ w.run.stage = "cleanup" /\ w.run.reason = c.reason
<1> DEFINE b == IF c.reason # NoReason THEN World(c, g)
                ELSE IF c.windows /\ c.closedError THEN World([c EXCEPT !.reported = TRUE], g)
                ELSE LatchInternalFailure(World(c, g))
           status == IF b.run.internal \/ b.run.reported \/ c.reason = NoReason
                     THEN "failed" ELSE StatusOfReason(c.reason)
           d == WithStatus(b.run, status)
<1>1. c \in Run /\ g \in Agent /\ (c.flow # "none" => c.reason # NoReason) /\ g.kills["cleanup"] = "idle"
  BY DEF PiOpen, Promised
<1>2. Throw(World(c, g)) = Leave(World(d, b.agent))
  BY DEF Throw, World, WithStatus
<1>3. PiOpen(b.run, b.agent) /\ b.run.reason = c.reason
  <2>1. CASE b = World(c, g)
    <3> HIDE DEF b
    <3> QED BY <2>1 DEF World
  <2>2. CASE b = World([c EXCEPT !.reported = TRUE], g)
    <3> DEFINE e == [c EXCEPT !.reported = TRUE]
    <3>1. /\ e \in Run /\ e.stage = c.stage /\ e.windows = c.windows
          /\ e.exit = c.exit /\ e.drained = c.drained /\ e.telemetry = c.telemetry /\ e.reason = c.reason
          /\ e.internal = c.internal /\ e.flow = c.flow
      BY <1>1, Zenon DEF Run
    <3> HIDE DEF e
    <3>2. PiOpen(e, g)
      BY <3>1 DEF PiOpen, PiKnows
    <3> HIDE DEF b
    <3>3. b.run = e /\ b.agent = g
      BY <2>2 DEF World, e
    <3> QED BY <3>1, <3>2, <3>3
  <2>3. CASE b = LatchInternalFailure(World(c, g))
    <3> HIDE DEF b
    <3>1. PiMoves(c, g, b.run, b.agent) /\ b.run.reason = c.reason
          /\ b.agent.kills["cleanup"] = g.kills["cleanup"]
      BY <1>1, <2>3, LatchIs
    <3> QED BY <1>1, <3>1, OpenStays
  <2> QED BY <2>1, <2>2, <2>3
<1> HIDE DEF b
<1>4. status \in Statuses /\ Agrees(status, c.reason) /\ status # "completed"
  BY DEF Statuses, Agrees, StatusOfReason
<1> HIDE DEF status
<1>5. b.run \in Run
  BY <1>3 DEF PiOpen
<1>6. d.status = status /\ d.reason = c.reason
  BY <1>3, <1>4, <1>5, WithStatusIs
<1>7. PiOpen(d, b.agent)
  BY <1>3, <1>4, OpenStays
<1> HIDE DEF d
<1>8. PiEarned(d, b.agent)
  BY <1>4, <1>6 DEF PiEarned
<1> QED BY <1>2, <1>6, <1>7, <1>8, LeaveIs

-----------------------------------------------------------------------------
(* Pi: the steps of the coroutine *)

(* The commands of a run, of which the last is the prompt. *)
RpcCommands == {"set_model", "set_thinking_level", "set_auto_retry", "set_auto_compaction", "prompt"}

LEMMA CommandsAre ==
  /\ CommandNames \subseteq RpcCommands /\ "set_model" \in CommandNames
  /\ \A name \in CommandNames : \/ After(name) \in CommandNames
                                \/ After(name) = "settling" /\ name = "prompt"
<1> DEFINE p == <<"set_model", "set_thinking_level">>
           t == IF PinRetries THEN <<"set_auto_retry", "set_auto_compaction">> ELSE <<>>
           q == <<"prompt">>
<1>1. p \in Seq(RpcCommands) /\ Len(p) = 2 /\ p[1] = "set_model" /\ q \in Seq(RpcCommands) /\ Len(q) = 1 /\ q[1] = "prompt"
  BY DEF RpcCommands
<1>2. t \in Seq(RpcCommands)
  <2>1. <<"set_auto_retry", "set_auto_compaction">> \in Seq(RpcCommands)
    BY DEF RpcCommands
  <2>2. <<>> \in Seq(RpcCommands)
    OBVIOUS
  <2> QED BY <2>1, <2>2
<1>3. Commands = (p \o t) \o q
  BY DEF Commands
<1> HIDE DEF p, t, q
<1>4. /\ (p \o t) \in Seq(RpcCommands) /\ Len(p \o t) = Len(p) + Len(t)
      /\ \A i \in 1 .. Len(p) + Len(t) : (p \o t)[i] = IF i <= Len(p) THEN p[i] ELSE t[i - Len(p)]
  BY <1>1, <1>2, ConcatProperties, Zenon
<1>5. Len(t) \in Nat
  BY <1>2
<1> DEFINE r == p \o t
<1>6. r \in Seq(RpcCommands) /\ Len(r) \in Nat /\ Len(r) >= 2 /\ r[1] = "set_model"
  BY <1>1, <1>4, <1>5
<1> HIDE DEF r
<1>7. /\ (r \o q) \in Seq(RpcCommands) /\ Len(r \o q) = Len(r) + Len(q)
      /\ \A i \in 1 .. Len(r) + Len(q) : (r \o q)[i] = IF i <= Len(r) THEN r[i] ELSE q[i - Len(r)]
  BY <1>1, <1>6, ConcatProperties, Zenon
<1>8. /\ Commands \in Seq(RpcCommands) /\ Len(Commands) = Len(r) + 1
      /\ Commands[1] = "set_model" /\ Commands[Len(Commands)] = "prompt"
  BY <1>1, <1>3, <1>6, <1>7 DEF r
<1>9. DOMAIN Commands = 1..Len(Commands) /\ Len(Commands) \in Nat /\ Len(Commands) >= 3
  BY <1>6, <1>8
<1>10. CommandNames \subseteq RpcCommands /\ "set_model" \in CommandNames
  BY <1>8, <1>9 DEF CommandNames
<1>11. ASSUME NEW name \in CommandNames
       PROVE  After(name) \in CommandNames \/ (After(name) = "settling" /\ name = "prompt")
  <2> DEFINE i == CHOOSE j \in DOMAIN Commands : Commands[j] = name
  <2>1. i \in DOMAIN Commands /\ Commands[i] = name
    BY DEF CommandNames
  <2>2. After(name) = IF i = Len(Commands) THEN "settling" ELSE Commands[i + 1]
    BY DEF After
  <2> HIDE DEF i
  <2>3. CASE i = Len(Commands)
    BY <1>8, <2>1, <2>2, <2>3
  <2>4. CASE i # Len(Commands)
    <3>1. i + 1 \in DOMAIN Commands
      BY <1>9, <2>1, <2>4
    <3>2. Commands[i + 1] \in CommandNames
      BY <3>1 DEF CommandNames
    <3> QED BY <2>2, <2>4, <3>2
  <2> QED BY <2>3, <2>4
<1> QED BY <1>10, <1>11

(* The stages that wait for an answer are none of the others. *)
LEMMA StagesApart ==
  /\ CommandNames \cap ({"ready", "settling", "flowing", "closing"} \cup PiBefore \cup PiOver) = {}
  /\ \A c \in CommandNames : c \in Stages
  BY CommandsAre DEF RpcCommands, PiBefore, PiOver, Stages

(* The exit of the process, as the last await finds it. *)
Drained(c, g) ==
  LET d == IF ~c.windows THEN c
           ELSE IF HasExit(g)
           THEN [c EXCEPT !.drained = TRUE, !.exit = IF @ = "none" THEN g.closed ELSE @]
           ELSE Report([c EXCEPT !.closedError = TRUE])
      expected == IF g.asked = NoReason THEN "root_exit" ELSE g.asked IN
  IF d.exit # "none" /\ ~ValidExit(d.exit, g.clean, expected) THEN Report(d) ELSE d

LEMMA ReportIs ==
  ASSUME NEW c, NEW g, PiSound(c, g), c.stage = "draining"
  PROVE  /\ PiSound(Report(c), g) /\ Report(c).stage = "draining" /\ Report(c).status = "failed"
         /\ Report(c).reason = c.reason /\ Report(c).windows = c.windows
<1> DEFINE d == Report(c)
<1>0. c \in Run
  BY DEF PiSound
<1>1. /\ d \in Run /\ d.status = "failed" /\ d.stage = c.stage /\ d.windows = c.windows
      /\ d.exit = c.exit /\ d.drained = c.drained /\ d.invoked = c.invoked /\ d.fallback = c.fallback
      /\ d.telemetry = c.telemetry /\ d.reason = c.reason /\ d.internal = c.internal /\ d.flow = c.flow
  <2> DEFINE e == [c EXCEPT !.reported = TRUE]
  <2>1. /\ e \in Run /\ e.stage = c.stage /\ e.windows = c.windows
        /\ e.exit = c.exit /\ e.drained = c.drained /\ e.invoked = c.invoked /\ e.fallback = c.fallback
        /\ e.telemetry = c.telemetry /\ e.reason = c.reason /\ e.internal = c.internal /\ e.flow = c.flow
    BY <1>0, Zenon DEF Run
  <2>2. d = WithStatus(e, "failed")
    BY <1>0 DEF Report, WithStatus, Run
  <2>3. "failed" \in Statuses
    BY DEF Statuses
  <2> HIDE DEF d, e
  <2> QED BY <2>1, <2>2, <2>3, WithStatusIs
<1> HIDE DEF d
<1>2. PiSound(d, g)
  BY <1>1 DEF PiSound, PiWorks, PiKnows, PiStands, Agrees, PiBefore, PiOver
<1> QED BY <1>1, <1>2 DEF d

LEMMA DrainedIs ==
  ASSUME NEW c, NEW g, PiSound(c, g), c.stage = "draining", g.closed # "pending"
  PROVE  LET d == Drained(c, g) IN
         /\ PiSound(d, g) /\ d.stage = "draining" /\ d.reason = c.reason
         /\ d.windows = c.windows
         /\ d.windows /\ d.status # "failed" => HasExit(g)
<1> DEFINE a == [c EXCEPT !.drained = TRUE, !.exit = IF @ = "none" THEN g.closed ELSE @]
           b == [c EXCEPT !.closedError = TRUE]
<1>1. /\ b \in Run /\ b.status = c.status /\ b.stage = c.stage /\ b.windows = c.windows
      /\ b.exit = c.exit /\ b.drained = c.drained /\ b.invoked = c.invoked /\ b.fallback = c.fallback
      /\ b.telemetry = c.telemetry /\ b.reason = c.reason /\ b.internal = c.internal /\ b.flow = c.flow
  BY Zenon DEF PiSound, Run
<1> HIDE DEF b
<1>2. PiSound(b, g)
  BY <1>1 DEF PiSound, PiWorks, PiKnows, PiStands, Agrees, PiBefore, PiOver
<1>3. CASE c.windows /\ HasExit(g)
  <2>1. g.closed \in Reasons \cup {"root_exit", "none"} /\ (c.exit # "none" => c.exit = g.closed)
    <3>1. g \in Agent
      BY DEF PiSound, Promised
    <3>2. g.closed \in Ends /\ g.closed # "resolved"
      BY <1>3, <3>1, AgentFields DEF PiSound, Promised
    <3> QED BY <1>3, <3>2 DEF Ends, Promises, HasExit, IsClosed, PiSound, PiKnows
  <2>2. g.closed # "none"
    BY <1>3 DEF HasExit, IsClosed
  <2>3. /\ a \in Run /\ a.status = c.status /\ a.stage = c.stage /\ a.windows = c.windows
        /\ a.exit = g.closed /\ a.drained /\ a.invoked = c.invoked /\ a.fallback = c.fallback
        /\ a.telemetry = c.telemetry /\ a.reason = c.reason /\ a.internal = c.internal /\ a.flow = c.flow
    <3>1. c \in Run
      BY DEF PiSound
    <3>2. PICK x \in Reasons \cup {"root_exit", "none"} :
            x = (IF c.exit = "none" THEN g.closed ELSE c.exit) /\ x = g.closed
      BY <2>1
    <3>3. a = [c EXCEPT !.drained = TRUE, !.exit = x]
      BY <3>2
    <3> HIDE DEF a
    <3> QED BY <3>1, <3>2, <3>3, Zenon DEF Run
  <2> HIDE DEF a
  <2>4. PiSound(a, g)
    BY <1>3, <2>1, <2>2, <2>3, Zenon DEF PiSound, PiWorks, PiKnows, PiStands, Agrees, PiBefore, PiOver
  <2>5. Drained(c, g) = a \/ Drained(c, g) = Report(a)
    BY <1>3 DEF Drained, a
  <2> QED BY <1>3, <2>3, <2>4, <2>5, ReportIs, Zenon
<1>4. CASE c.windows /\ ~HasExit(g)
  <2>1. Drained(c, g) = Report(b) \/ Drained(c, g) = Report(Report(b))
    BY <1>4 DEF Drained, b
  <2>2. /\ PiSound(Report(b), g) /\ Report(b).stage = "draining" /\ Report(b).status = "failed"
        /\ Report(b).reason = c.reason /\ Report(b).windows = c.windows
    BY <1>1, <1>2, ReportIs
  <2>3. /\ PiSound(Report(Report(b)), g) /\ Report(Report(b)).stage = "draining"
        /\ Report(Report(b)).status = "failed"
        /\ Report(Report(b)).reason = c.reason /\ Report(Report(b)).windows = c.windows
    BY <2>2, ReportIs
  <2> QED BY <2>1, <2>2, <2>3
<1>5. CASE ~c.windows
  <2>1. c.exit = "none"
    BY <1>5 DEF PiSound, PiKnows
  <2>2. Drained(c, g) = c
    BY <1>5, <2>1 DEF Drained
  <2> QED BY <1>5, <2>2
<1> QED BY <1>3, <1>4, <1>5

LEMMA ConcludeIs ==
  ASSUME NEW c, NEW g, PiSound(c, g), c.stage = "draining", g.closed # "pending",
         c.windows /\ c.status # "failed" => HasExit(g)
  PROVE  LET d == Conclude(c) IN PiSound(d, g) /\ d.stage = "done" /\ d.reason = c.reason
<1> DEFINE s == IF c.internal THEN "failed" ELSE c.status
           unavailable == c.invoked /\ c.who \in {"unseen", "unknown"}
           known == [known |-> TRUE, invoked |-> c.invoked,
                     fallback |-> c.fallback \/ (~unavailable /\ c.who = "mismatch"),
                     drained |-> c.drained,
                     completion |-> IF c.drained THEN c.exit ELSE "none"]
           status == IF s = "completed" /\ (unavailable \/ c.who = "mismatch") THEN "failed" ELSE s
           t == IF unavailable /\ (s = "completed" \/ ~c.drained) THEN NoTelemetry ELSE known
           d == [c EXCEPT !.stage = "done", !.status = status, !.telemetry = t]
<1>1. c \in Run /\ g \in Agent
  BY DEF PiSound, Promised
<1>2. Conclude(c) = d
  BY DEF Conclude
<1>3. known \in Telemetry /\ NoTelemetry \in Telemetry
  BY <1>1 DEF Run, Telemetry, NoTelemetry
<1>4. /\ status \in Statuses /\ t \in Telemetry
      /\ status # "failed" => ~c.internal /\ status = c.status
      /\ status = "completed" => c.who # "mismatch" /\ ~unavailable
      /\ t = NoTelemetry \/ t = known
      /\ status = "completed" => t = known
  <2>1. c.status \in Statuses /\ "failed" \in Statuses /\ unavailable \in BOOLEAN
    BY <1>1 DEF Run, Statuses
  <2> HIDE DEF known, unavailable
  <2> QED BY <1>3, <2>1
<1>5. /\ known.known /\ known.drained = c.drained /\ known.completion = (IF c.drained THEN c.exit ELSE "none")
      /\ known.fallback = (c.fallback \/ (~unavailable /\ c.who = "mismatch"))
      /\ ~NoTelemetry.drained
  BY DEF NoTelemetry
<1> HIDE DEF status, known, t
<1>6. /\ d \in Run /\ d.status = status /\ d.stage = "done" /\ d.telemetry = t /\ d.windows = c.windows
      /\ d.exit = c.exit /\ d.drained = c.drained /\ d.invoked = c.invoked /\ d.fallback = c.fallback
      /\ d.reason = c.reason /\ d.internal = c.internal /\ d.flow = c.flow /\ d.who = c.who
  BY <1>1, <1>4, Zenon DEF Run, Stages
<1> HIDE DEF d
<1>7. d.status # "failed" => d.status = c.status /\ ~c.internal
  BY <1>4, <1>6
<1>8. PiWorks(d, g)
  BY <1>6 DEF PiSound, PiWorks, PiBefore, PiOver
<1>9. PiKnows(d, g)
  BY <1>6, <1>7 DEF PiSound, PiKnows, PiOver
<1>10. PiStands(d, g)
  BY <1>6, <1>7 DEF PiSound, PiStands, Agrees
<1>11. g.closed # "none"
  BY DEF PiSound, PiWorks, Promised, PiBefore
<1>12. d.status = "completed" => /\ d.who = "match" /\ d.telemetry.known /\ ~d.telemetry.fallback
                                 /\ ~d.windows => g.closed = "resolved"
  <2> SUFFICES ASSUME d.status = "completed"
               PROVE  /\ d.who = "match" /\ d.telemetry.known /\ ~d.telemetry.fallback
                      /\ ~d.windows => g.closed = "resolved"
    OBVIOUS
  <2>1. c.status = "completed" /\ c.who # "mismatch" /\ ~unavailable /\ t = known
    BY <1>4, <1>6
  <2>2. c.invoked /\ ~c.fallback
    BY <2>1 DEF PiSound, PiStands
  <2>3. c.who = "match"
    BY <1>1, <2>1, <2>2 DEF Run, Identities
  <2>4. ~c.windows => g.closed = "resolved"
    BY <1>11 DEF PiSound, Promised
  <2> QED BY <1>5, <1>6, <2>1, <2>2, <2>3, <2>4, Zenon
<1>13. PiConcluded(d, g)
  <2>1. d.telemetry.drained => d.drained /\ d.telemetry.completion = d.exit
    BY <1>4, <1>5, <1>6
  <2>2. IsClosed(g)
    BY <1>11 DEF IsClosed
  <2>3. d.status \in {"cancelled", "timed_out"} /\ d.windows /\ g.made => HasExit(g)
    BY <1>6, <1>7
  <2> QED BY <1>6, <1>7, <1>12, <2>1, <2>2, <2>3 DEF PiConcluded
<1>14. PiSound(d, g)
  BY <1>6, <1>8, <1>9, <1>10, <1>13 DEF PiSound
<1> QED BY <1>2, <1>6, <1>14

LEMMA OpenHere ==
  ASSUME PiInv, run.stage \notin PiBefore \cup PiOver
  PROVE  PiOpen(run, agent) /\ ~run.fallback /\ run \in Run /\ agent \in Agent
<1>1. run \in Run /\ Promised(agent, run.windows) /\ PiKnows(run, agent) /\ PiWorks(run, agent)
  BY DEF PiInv, PiSound
<1>2. agent.made /\ agent.kills["cleanup"] = "idle" /\ run.telemetry = NoTelemetry /\ ~run.fallback
      /\ (run.flow # "none" => run.reason # NoReason)
  BY <1>1 DEF PiWorks, PiBefore, PiOver
<1> QED BY <1>1, <1>2 DEF PiOpen, Promised

(* A run that leaves its try block stops listening. *)
LEMMA PiLeaves ==
  ASSUME PiInv, run.stage \notin PiBefore \cup PiOver,
         NEW c, PiOpen(c, agent), c.reason = run.reason,
         \/ Becomes(Throw(World(c, agent)))
         \/ /\ Becomes(Succeed(World(c, agent))) /\ c.invoked /\ ~c.fallback
            /\ c.reason = NoReason /\ c.windows => c.exit = "root_exit" /\ agent.clean,
         run'.stage = "cleanup" => host' = Deafened(host)
  PROVE  PiInv'
<1>1. PiSound(run', agent') /\ run'.stage = "cleanup" /\ run'.reason = run.reason
  BY ThrowIs, SucceedIs DEF Becomes
<1>2. Attended(host, run.reason, TRUE, FALSE)
  BY DEF PiInv, Attended
<1>3. Attended(host', run.reason, TRUE, TRUE)
  BY <1>1, <1>2, Signals, ZenonT(40)
<1>4. "cleanup" \notin PiBefore /\ "cleanup" \in PiOver
  BY DEF PiBefore, PiOver
<1> QED BY <1>1, <1>3, <1>4, Zenon DEF PiInv

(* A run that goes on to its next await. *)
GoesOn(c, d) ==
  /\ d \in Run /\ d.windows = c.windows /\ d.exit = c.exit /\ d.drained = c.drained
  /\ d.fallback = c.fallback /\ d.status = c.status /\ d.telemetry = c.telemetry
  /\ d.reason = c.reason /\ d.internal = c.internal /\ d.flow = c.flow
  /\ d.stage \notin PiBefore \cup PiOver
  /\ d.stage \in {"prompt", "settling", "flowing", "closing"} => d.invoked
  /\ d.stage \in {"flowing", "closing"} => c.windows

LEMMA PiGoesOn ==
  ASSUME PiInv, run.stage \notin PiBefore \cup PiOver, GoesOn(run, run'),
         UNCHANGED <<agent, host>>
  PROVE  PiInv'
<1>1. PiOpen(run, agent) /\ run \in Run /\ agent \in Agent
  BY OpenHere
<1>2. PiSound(run', agent)
  BY <1>1 DEF PiInv, PiSound, PiWorks, PiKnows, PiStands, GoesOn, Agrees, PiBefore, PiOver
<1>3. Attended(host, run.reason, TRUE, FALSE)
  BY DEF PiInv, Attended
<1>4. run'.reason = run.reason /\ run'.stage \notin PiBefore /\ run'.stage \notin PiOver
  BY DEF GoesOn
<1> QED BY <1>2, <1>3, <1>4 DEF PiInv

LEMMA SendIs ==
  ASSUME NEW c \in Run, NEW command \in CommandNames
  PROVE  GoesOn(c, Send(c, command))
<1> DEFINE d == Send(c, command)
           answer == IF c.reason = NoReason THEN "none" ELSE "rejected"
           invoked == c.invoked \/ command = "prompt"
<1>1. command \in Stages /\ command \notin {"ready", "settling", "flowing", "closing"} \cup PiBefore \cup PiOver
  BY StagesApart
<1>2. answer \in {"none", "rejected"} /\ invoked \in BOOLEAN /\ (command = "prompt" => invoked)
  BY DEF Run
<1>3. d = [c EXCEPT !.stage = command, !.invoked = invoked, !.answer = answer]
  BY DEF Send
<1> HIDE DEF answer, invoked, d
<1>4. /\ d \in Run /\ d.windows = c.windows /\ d.exit = c.exit /\ d.drained = c.drained
      /\ d.fallback = c.fallback /\ d.status = c.status /\ d.telemetry = c.telemetry
      /\ d.reason = c.reason /\ d.internal = c.internal /\ d.flow = c.flow
      /\ d.stage = command /\ d.invoked = invoked
  BY <1>1, <1>2, <1>3, Zenon DEF Run
<1>5. GoesOn(c, d)
  BY <1>1, <1>2, <1>4 DEF GoesOn
<1> QED BY <1>5 DEF d

LEMMA ReadyStep ==
  ASSUME PiInv, ResumeReady
  PROVE  PiInv'
<1>1. run.stage = "ready" /\ run.stage \notin PiBefore \cup PiOver
  BY DEF ResumeReady, PiBefore, PiOver
<1>2. PiOpen(run, agent) /\ run \in Run
  BY <1>1, OpenHere
<1>3. CASE agent.ready = "resolved" /\ run.reason = NoReason
  <2>1. run' = Send(run, "set_model") /\ agent' = agent
    BY <1>3 DEF ResumeReady, Becomes, World
  <2>2. GoesOn(run, run')
    BY <1>2, <2>1, SendIs, CommandsAre
  <2>3. host' = host
    BY <2>2 DEF ResumeReady, GoesOn, PiOver
  <2> QED BY <1>1, <2>1, <2>2, <2>3, PiGoesOn
<1>4. CASE ~(agent.ready = "resolved" /\ run.reason = NoReason)
  BY <1>1, <1>2, <1>4, PiLeaves DEF ResumeReady, Here
<1> QED BY <1>3, <1>4

LEMMA CommandStep ==
  ASSUME PiInv, ResumeCommand
  PROVE  PiInv'
<1> DEFINE next == After(run.stage)
<1>1. run.stage \in CommandNames /\ run.stage \notin PiBefore \cup PiOver
  BY StagesApart DEF ResumeCommand
<1>2. PiOpen(run, agent) /\ run \in Run
  BY <1>1, OpenHere
<1>3. CASE run.answer = "ok"
  <2>1. next \in CommandNames \/ (next = "settling" /\ run.stage = "prompt")
    BY <1>1, CommandsAre
  <2>2. run' = (IF next = "settling" THEN [run EXCEPT !.stage = next] ELSE Send(run, next)) /\ agent' = agent
    BY <1>3 DEF ResumeCommand, Becomes, World
  <2> HIDE DEF next
  <2>3. GoesOn(run, run')
    <3>1. CASE next \in CommandNames
      <4>1. next # "settling"
        BY <3>1, StagesApart
      <4> QED BY <1>2, <2>2, <3>1, <4>1, SendIs
    <3>2. CASE next = "settling" /\ run.stage = "prompt"
      <4>1. run.invoked
        BY <3>2 DEF PiInv, PiSound, PiWorks
      <4>2. run' = [run EXCEPT !.stage = "settling"]
        BY <2>2, <3>2
      <4>3. /\ run' \in Run /\ run'.windows = run.windows /\ run'.exit = run.exit /\ run'.drained = run.drained
            /\ run'.fallback = run.fallback /\ run'.status = run.status /\ run'.telemetry = run.telemetry
            /\ run'.reason = run.reason /\ run'.internal = run.internal /\ run'.flow = run.flow
            /\ run'.stage = "settling" /\ run'.invoked = run.invoked
        BY <1>2, <4>2 DEF Run, Stages
      <4> QED BY <4>1, <4>3 DEF GoesOn, PiBefore, PiOver
    <3> QED BY <2>1, <3>1, <3>2
  <2>4. host' = host
    BY <2>3 DEF ResumeCommand, GoesOn, PiOver
  <2> QED BY <1>1, <2>2, <2>3, <2>4, PiGoesOn
<1>4. CASE run.answer = "mismatch"
  <2> DEFINE c == [run EXCEPT !.fallback = TRUE]
  <2>1. Becomes(Throw(World(c, agent)))
    BY <1>4 DEF ResumeCommand
  <2>2. /\ c \in Run /\ c.stage = run.stage /\ c.windows = run.windows
        /\ c.exit = run.exit /\ c.drained = run.drained /\ c.telemetry = run.telemetry /\ c.reason = run.reason
        /\ c.internal = run.internal /\ c.flow = run.flow
    BY <1>2, Zenon DEF Run
  <2> HIDE DEF c
  <2>3. PiOpen(c, agent)
    BY <1>2, <2>2 DEF PiOpen, PiKnows
  <2>4. run'.stage = "cleanup" => host' = Deafened(host)
    BY DEF ResumeCommand
  <2> QED BY <1>1, <2>1, <2>2, <2>3, <2>4, PiLeaves
<1>5. CASE run.answer \notin {"ok", "mismatch"}
  <2>1. Becomes(Throw(World(run, agent)))
    BY <1>5 DEF ResumeCommand, Here
  <2>4. run'.stage = "cleanup" => host' = Deafened(host)
    BY DEF ResumeCommand
  <2> QED BY <1>1, <1>2, <2>1, <2>4, PiLeaves
<1> QED BY <1>3, <1>4, <1>5

LEMMA SettledStep ==
  ASSUME PiInv, ResumeSettled
  PROVE  PiInv'
<1>1. run.stage = "settling" /\ run.stage \notin PiBefore \cup PiOver
  BY DEF ResumeSettled, PiBefore, PiOver
<1>2. PiOpen(run, agent) /\ run \in Run /\ ~run.fallback /\ run.invoked
  BY <1>1, OpenHere DEF PiInv, PiSound, PiWorks
<1>3. run'.stage = "cleanup" => host' = Deafened(host)
  BY DEF ResumeSettled
<1>4. CASE run.completion = "error" \/ run.assistantError
  BY <1>1, <1>2, <1>3, <1>4, PiLeaves DEF ResumeSettled, Here
<1>5. CASE ~(run.completion = "error" \/ run.assistantError) /\ ~run.windows
  BY <1>1, <1>2, <1>3, <1>5, PiLeaves DEF ResumeSettled, Here
<1>6. CASE ~(run.completion = "error" \/ run.assistantError) /\ run.windows
  <2> DEFINE c == [run EXCEPT !.inputEnded = TRUE, !.stage = "closing"]
             d == [run EXCEPT !.stage = "flowing"]
  <2>1. (run' = c \/ run' = d) /\ agent' = agent
    BY <1>6 DEF ResumeSettled, Becomes, World
  <2>2. "closing" \in Stages /\ "flowing" \in Stages
    BY DEF Stages
  <2>3. /\ c \in Run /\ c.windows = run.windows /\ c.exit = run.exit /\ c.drained = run.drained
        /\ c.fallback = run.fallback /\ c.status = run.status /\ c.telemetry = run.telemetry
        /\ c.reason = run.reason /\ c.internal = run.internal /\ c.flow = run.flow
        /\ c.stage = "closing" /\ c.invoked = run.invoked
    BY <1>2, <2>2, Zenon DEF Run
  <2>4. /\ d \in Run /\ d.windows = run.windows /\ d.exit = run.exit /\ d.drained = run.drained
        /\ d.fallback = run.fallback /\ d.status = run.status /\ d.telemetry = run.telemetry
        /\ d.reason = run.reason /\ d.internal = run.internal /\ d.flow = run.flow
        /\ d.stage = "flowing" /\ d.invoked = run.invoked
    BY <1>2, <2>2, Zenon DEF Run
  <2> HIDE DEF c, d
  <2>5. GoesOn(run, run')
    BY <1>2, <1>6, <2>1, <2>3, <2>4, Zenon DEF GoesOn, PiBefore, PiOver
  <2>6. host' = host
    BY <2>5 DEF ResumeSettled, GoesOn, PiOver
  <2> QED BY <1>1, <2>1, <2>5, <2>6, PiGoesOn
<1> QED BY <1>4, <1>5, <1>6

LEMMA FlowingStep ==
  ASSUME PiInv, ResumeFlowing
  PROVE  PiInv'
<1>1. run.stage = "flowing" /\ run.stage \notin PiBefore \cup PiOver
  BY DEF ResumeFlowing, PiBefore, PiOver
<1>2. PiOpen(run, agent) /\ run \in Run /\ run.invoked /\ run.windows
  BY <1>1, OpenHere DEF PiInv, PiSound, PiWorks
<1>3. run'.stage = "cleanup" => host' = Deafened(host)
  BY DEF ResumeFlowing
<1>4. CASE run.flow = "term" /\ agent.term = "rejected"
  BY <1>1, <1>2, <1>3, <1>4, PiLeaves DEF ResumeFlowing, Here
<1>5. CASE ~(run.flow = "term" /\ agent.term = "rejected")
  <2> DEFINE c == [run EXCEPT !.stage = "closing"]
  <2>1. run' = c /\ agent' = agent
    BY <1>5 DEF ResumeFlowing, Becomes, World
  <2>2. "closing" \in Stages
    BY DEF Stages
  <2>3. /\ c \in Run /\ c.windows = run.windows /\ c.exit = run.exit /\ c.drained = run.drained
        /\ c.fallback = run.fallback /\ c.status = run.status /\ c.telemetry = run.telemetry
        /\ c.reason = run.reason /\ c.internal = run.internal /\ c.flow = run.flow
        /\ c.stage = "closing" /\ c.invoked = run.invoked
    BY <1>2, <2>2, Zenon DEF Run
  <2> HIDE DEF c
  <2>5. GoesOn(run, run')
    BY <1>2, <2>1, <2>3 DEF GoesOn, PiBefore, PiOver
  <2>6. host' = host
    BY <2>5 DEF ResumeFlowing, GoesOn, PiOver
  <2> QED BY <1>1, <2>1, <2>5, <2>6, PiGoesOn
<1> QED BY <1>4, <1>5

(* How an exit may end, said by its words. *)
LEMMA ExitFields ==
  ASSUME NEW g \in Agent, HasExit(g), g.closed # "resolved"
  PROVE  g.closed \in Reasons \cup {"root_exit"}
<1>1. g.closed \in Ends
  BY AgentFields
<1> QED BY <1>1 DEF Ends, Promises, HasExit, IsClosed

LEMMA ClosingStep ==
  ASSUME PiInv, ResumeClosing
  PROVE  PiInv'
<1>1. run.stage = "closing" /\ run.stage \notin PiBefore \cup PiOver
  BY DEF ResumeClosing, PiBefore, PiOver
<1>2. PiOpen(run, agent) /\ run \in Run /\ agent \in Agent /\ run.invoked /\ run.windows /\ ~run.fallback
  BY <1>1, OpenHere DEF PiInv, PiSound, PiWorks
<1>3. run'.stage = "cleanup" => host' = Deafened(host)
  BY DEF ResumeClosing
<1>4. CASE ~HasExit(agent)
  BY <1>1, <1>2, <1>3, <1>4, PiLeaves DEF ResumeClosing, Here
<1>5. CASE HasExit(agent)
  <2> DEFINE c == [run EXCEPT !.exit = agent.closed, !.drained = TRUE]
  <2>1. IF ValidExit(agent.closed, agent.clean, Expected(run)) THEN Becomes(Succeed(World(c, agent)))
        ELSE Becomes(Throw(World(c, agent)))
    BY <1>5 DEF ResumeClosing, Here
  <2>2. agent.closed \in Reasons \cup {"root_exit"}
    BY <1>2, <1>5, ExitFields DEF PiOpen, Promised
  <2>3. /\ c \in Run /\ c.stage = run.stage /\ c.windows = run.windows
        /\ c.exit = agent.closed /\ c.drained /\ c.telemetry = run.telemetry /\ c.reason = run.reason
        /\ c.internal = run.internal /\ c.flow = run.flow /\ c.invoked = run.invoked
        /\ c.fallback = run.fallback
    BY <1>2, <2>2, Zenon DEF Run
  <2> HIDE DEF c
  <2>4. agent.closed # "none"
    BY <1>5 DEF HasExit, IsClosed
  <2>5. PiOpen(c, agent)
    BY <1>2, <1>5, <2>3, <2>4, Zenon DEF PiOpen, PiKnows
  <2>6. CASE ValidExit(agent.closed, agent.clean, Expected(run))
    <3>1. run.reason = NoReason => agent.closed = "root_exit" /\ agent.clean
      BY <2>6 DEF ValidExit, Fits, Expected
    <3> QED BY <1>1, <1>2, <1>3, <2>1, <2>3, <2>5, <2>6, <3>1, PiLeaves, Zenon
  <2>7. CASE ~ValidExit(agent.closed, agent.clean, Expected(run))
    BY <1>1, <1>3, <2>1, <2>3, <2>5, <2>7, PiLeaves
  <2> QED BY <2>6, <2>7
<1> QED BY <1>4, <1>5

LEMMA CleanupStep ==
  ASSUME PiInv, ResumeCleanup
  PROVE  PiInv'
<1> DEFINE c == [run EXCEPT !.stage = "draining"]
<1>1. /\ run.stage = "cleanup" /\ run \in Run /\ agent \in Agent /\ PiSound(run, agent)
      /\ UNCHANGED <<agent, host>>
  BY DEF ResumeCleanup, PiInv, PiSound, Promised
<1>2. ~run.windows => agent.kills["cleanup"] # "waiting"
  BY <1>1, StagesApart DEF ResumeCleanup, Awaiting, PiOver
<1>3. /\ c \in Run /\ c.stage = "draining" /\ c.windows = run.windows /\ c.exit = run.exit
      /\ c.drained = run.drained /\ c.invoked = run.invoked /\ c.fallback = run.fallback
      /\ c.status = run.status /\ c.telemetry = run.telemetry /\ c.reason = run.reason
      /\ c.internal = run.internal /\ c.flow = run.flow
  BY <1>1 DEF Run, Stages
<1>4. \/ run' = c /\ (~run.windows /\ run.status = "completed" => agent.kills["cleanup"] # "failed")
      \/ run.windows /\ run' = Report(c)
      \/ run' = WithStatus(c, "failed")
  BY DEF ResumeCleanup, WithStatus
<1> HIDE DEF c
<1>5. PiSound(WithStatus(c, "failed"), agent)
  <2> DEFINE d == WithStatus(c, "failed")
  <2>1. "failed" \in Statuses
    BY DEF Statuses
  <2>2. /\ d \in Run /\ d.status = "failed" /\ d.stage = c.stage /\ d.windows = c.windows
        /\ d.exit = c.exit /\ d.drained = c.drained /\ d.invoked = c.invoked
        /\ d.fallback = c.fallback /\ d.telemetry = c.telemetry /\ d.reason = c.reason
        /\ d.internal = c.internal /\ d.flow = c.flow
    BY <1>3, <2>1, WithStatusIs
  <2> HIDE DEF d
  <2>3. PiSound(d, agent)
    BY <1>1, <1>3, <2>2 DEF PiSound, PiWorks, PiKnows, PiStands, Agrees, PiBefore, PiOver
  <2> QED BY <2>3 DEF d
<1>6. (run.windows \/ run.status # "completed" \/ agent.kills["cleanup"] # "failed") => PiSound(c, agent)
  BY <1>1, <1>2, <1>3 DEF PiSound, PiWorks, PiKnows, PiStands, Agrees, PiBefore, PiOver
<1>7. PiSound(run', agent) /\ run'.stage = "draining" /\ run'.reason = run.reason
  <2>1. CASE run' = c /\ (~run.windows /\ run.status = "completed" => agent.kills["cleanup"] # "failed")
    BY <1>3, <1>6, <2>1
  <2>2. CASE run.windows /\ run' = Report(c)
    BY <1>3, <1>6, <2>2, ReportIs
  <2>3. CASE run' = WithStatus(c, "failed")
    BY <1>3, <1>5, <2>3, WithStatusIs DEF Statuses
  <2> QED BY <1>4, <2>1, <2>2, <2>3
<1>8. Attended(host, run.reason, TRUE, TRUE)
  BY <1>1 DEF PiInv, Attended, PiBefore, PiOver
<1> QED BY <1>1, <1>7, <1>8 DEF PiInv, PiBefore, PiOver

LEMMA DrainingStep ==
  ASSUME PiInv, ResumeDraining
  PROVE  PiInv'
<1> DEFINE d == Drained(run, agent)
<1>1. run.stage = "draining" /\ run \in Run /\ agent \in Agent /\ PiSound(run, agent) /\ host' = host
  BY DEF ResumeDraining, PiInv, PiSound, Promised
<1>2. agent.closed # "pending"
  BY <1>1, StagesApart, SMTT(20) DEF ResumeDraining, Awaiting, PiOver
<1>3. PICK torn \in BOOLEAN :
        LET w == FinishDecoder(World(d, agent), torn) IN Becomes(World(Conclude(w.run), w.agent))
  BY DEF ResumeDraining, Drained
<1>4. /\ PiSound(d, agent) /\ d.stage = "draining" /\ d.reason = run.reason /\ d.windows = run.windows
      /\ d.windows /\ d.status # "failed" => HasExit(agent)
  BY <1>1, <1>2, DrainedIs
<1> HIDE DEF d
<1> DEFINE w == FinishDecoder(World(d, agent), torn)
           e == w.run
           g == w.agent
<1>5. PiMoves(d, agent, e, g) /\ e.reason = d.reason
  <2>1. d \in Run /\ (d.flow # "none" => d.reason # NoReason)
    BY <1>4 DEF PiSound, PiWorks
  <2> QED BY <1>1, <2>1, DecoderIs
<1>6. run' = Conclude(e) /\ agent' = g
  BY <1>3 DEF Becomes, World
<1> HIDE DEF e, g
<1>7. PiSound(e, g)
  BY <1>4, <1>5, PiKeeps DEF PiBefore
<1>8. /\ e.stage = "draining" /\ g.closed = agent.closed /\ e.windows = d.windows /\ e.status = d.status
      /\ HasExit(agent) => HasExit(g)
  BY <1>4, <1>5 DEF PiMoves, SameCourse, Carried, HasExit, IsClosed
<1>9. PiSound(run', agent') /\ run'.stage = "done" /\ run'.reason = run.reason
  BY <1>2, <1>4, <1>5, <1>6, <1>7, <1>8, ConcludeIs
<1>10. Attended(host, run.reason, TRUE, TRUE)
  BY <1>1 DEF PiInv, Attended, PiBefore, PiOver
<1> QED BY <1>1, <1>9, <1>10 DEF PiInv, PiBefore, PiOver

-----------------------------------------------------------------------------
(* Pi: the events *)

(* Before anything was started. *)
LEMMA PiBegins ==
  ASSUME PiInv, run.stage \in PiBefore
  PROVE  /\ run \in Run /\ agent = NoAgent /\ run.reason = NoReason /\ run.status = "failed"
         /\ ~run.internal /\ run.flow = "none" /\ run.exit = "none" /\ ~run.drained
         /\ run.telemetry = NoTelemetry /\ ~run.fallback
         /\ host \in Host /\ ~host.listening /\ host.deadline = NoDeadline
<1>1. /\ run \in Run /\ agent = NoAgent /\ run.reason = NoReason /\ run.status = "failed"
      /\ ~run.internal /\ run.telemetry = NoTelemetry /\ ~run.fallback
      /\ run.flow # "none" => run.reason # NoReason
  BY DEF PiInv, PiSound, PiWorks, PiBefore, PiOver
<1>2. ~HasExit(NoAgent)
  BY DEF HasExit, IsClosed, NoAgent
<1>3. run.exit = "none" /\ ~run.drained
  BY <1>1, <1>2 DEF PiInv, PiSound, PiKnows
<1>4. host \in Host /\ ~host.listening /\ host.deadline = NoDeadline
  BY DEF PiInv, Attended
<1> QED BY <1>1, <1>3, <1>4

LEMMA NewAgent ==
  /\ NoAgent \in Agent /\ NoAgent.closed = "none" /\ ~NoAgent.made /\ NoAgent.asked = NoReason
  /\ NoAgent.kills["cleanup"] = "idle" /\ ~HasExit(NoAgent)
  /\ \A windows, gone \in BOOLEAN :
       LET g == [Started(windows) EXCEPT !.gone = gone] IN
       /\ g \in Agent /\ g.closed = "pending" /\ g.made /\ g.asked = NoReason /\ g.kills["cleanup"] = "idle"
  /\ \A windows \in BOOLEAN :
       LET g == Started(windows) IN
       /\ g \in Agent /\ g.closed = "pending" /\ g.made /\ g.asked = NoReason /\ g.kills["cleanup"] = "idle"
<1>1. /\ NoAgent \in Agent /\ NoAgent.closed = "none" /\ ~NoAgent.made /\ NoAgent.asked = NoReason
      /\ NoAgent.kills["cleanup"] = "idle" /\ ~HasExit(NoAgent) /\ NoAgent.kills = [k \in Killers |-> "idle"]
  BY DEF NoAgent, Agent, Killers, Promises, HasExit, IsClosed, NoReason
<1>2. ASSUME NEW windows \in BOOLEAN
      PROVE  LET g == Started(windows) IN
             /\ g \in Agent /\ g.closed = "pending" /\ g.made /\ g.asked = NoReason /\ g.kills["cleanup"] = "idle"
  <2> DEFINE ready == IF windows THEN "pending" ELSE "none"
  <2>1. ready \in Promises /\ "pending" \in Promises
    BY DEF Promises
  <2>2. Started(windows) = [NoAgent EXCEPT !.made = TRUE, !.closed = "pending", !.ready = ready]
    BY DEF Started
  <2> HIDE DEF ready
  <2> QED BY <1>1, <2>1, <2>2, Zenon DEF Agent
<1>3. ASSUME NEW windows \in BOOLEAN, NEW gone \in BOOLEAN
      PROVE  LET g == [Started(windows) EXCEPT !.gone = gone] IN
             /\ g \in Agent /\ g.closed = "pending" /\ g.made /\ g.asked = NoReason /\ g.kills["cleanup"] = "idle"
  <2> DEFINE s == Started(windows)
  <2>1. s \in Agent /\ s.closed = "pending" /\ s.made /\ s.asked = NoReason /\ s.kills["cleanup"] = "idle"
    BY <1>2
  <2> HIDE DEF s
  <2>2. LET g == [s EXCEPT !.gone = gone] IN
        /\ g \in Agent /\ g.closed = "pending" /\ g.made /\ g.asked = NoReason /\ g.kills["cleanup"] = "idle"
    BY <2>1 DEF Agent
  <2> QED BY <2>2 DEF s
<1> QED BY <1>1, <1>2, <1>3

(* The agent has just been started; or there is none, and the run is over. *)
LEMMA PiStarts ==
  ASSUME PiInv, run.stage \in PiBefore, NEW d, GoesOn(run, d),
         NEW g \in Agent, g.closed = "pending", g.made, g.asked = NoReason, g.kills["cleanup"] = "idle"
  PROVE  PiSound(d, g)
<1>1. ~HasExit(g)
  BY DEF HasExit, IsClosed
<1>2. /\ run.reason = NoReason /\ run.status = "failed" /\ ~run.internal /\ run.flow = "none"
      /\ run.exit = "none" /\ ~run.drained /\ run.telemetry = NoTelemetry /\ ~run.fallback
  BY PiBegins
<1>3. Promised(g, d.windows)
  BY <1>1 DEF Promised
<1>4. PiWorks(d, g)
  BY <1>2 DEF PiWorks, GoesOn
<1>5. PiKnows(d, g)
  BY <1>2 DEF PiKnows, GoesOn
<1>6. PiStands(d, g)
  BY <1>2 DEF PiStands, GoesOn, Agrees
<1> QED BY <1>3, <1>4, <1>5, <1>6 DEF PiSound, GoesOn, PiOver

LEMMA PiEndsEarly ==
  ASSUME PiInv, run.stage \in PiBefore, NEW d \in Run,
         /\ d.stage = "done" /\ d.exit = "none" /\ ~d.drained /\ d.flow = "none" /\ ~d.internal
         /\ d.status \in {"failed", "cancelled"} /\ ~d.telemetry.drained
         /\ d.status = "cancelled" => d.reason \notin {NoReason, "timed_out"}
  PROVE  PiSound(d, NoAgent)
<1>1. Promised(NoAgent, d.windows)
  BY NewAgent DEF Promised
<1>2. PiWorks(d, NoAgent)
  BY NewAgent DEF PiWorks, PiBefore, PiOver
<1>3. PiKnows(d, NoAgent) /\ PiStands(d, NoAgent) /\ PiConcluded(d, NoAgent)
  BY NewAgent DEF PiKnows, PiStands, PiConcluded, Agrees
<1> QED BY <1>1, <1>2, <1>3 DEF PiSound

LEMMA AbortedIs == Aborted \in Reasons \cup {NoReason} /\ Aborted # "timed_out"
  BY DEF Aborted, Reasons, NoReason

LEMMA BeginStep ==
  ASSUME PiInv, Begin
  PROVE  PiInv'
<1>1. run.stage = "start" /\ run.stage \in PiBefore
  BY Zenon DEF Begin, PiBefore
<1>2. /\ run \in Run /\ agent = NoAgent /\ run.reason = NoReason /\ run.status = "failed"
      /\ ~run.internal /\ run.flow = "none" /\ run.exit = "none" /\ ~run.drained
      /\ run.telemetry = NoTelemetry /\ ~run.fallback
      /\ host \in Host /\ ~host.listening /\ host.deadline = NoDeadline
  BY <1>1, PiBegins
<1>3. ~NoTelemetry.drained
  BY DEF NoTelemetry
<1>4. \A reason : reason # "timed_out" => Attended(host, reason, TRUE, TRUE) /\ Attended(host, reason, FALSE, FALSE)
  BY <1>2, NoneIsClocked DEF Attended
<1>5. CASE /\ Aborted # NoReason
           /\ run' = [run EXCEPT !.stage = "done", !.reason = Aborted, !.status = "cancelled",
                                 !.telemetry = [NoTelemetry EXCEPT !.known = TRUE]]
           /\ UNCHANGED <<agent, host>>
  <2> DEFINE t == [NoTelemetry EXCEPT !.known = TRUE]
             reason == Aborted
  <2>1. t \in Telemetry /\ ~t.drained
    BY Zenon DEF Telemetry, NoTelemetry, Reasons
  <2>2. run' = [run EXCEPT !.stage = "done", !.reason = reason, !.status = "cancelled", !.telemetry = t]
    BY <1>5
  <2>3. reason \in Reasons \cup {NoReason} /\ reason # "timed_out" /\ reason # NoReason
    BY <1>5, AbortedIs
  <2> HIDE DEF t, reason
  <2>4. /\ run' \in Run /\ run'.stage = "done" /\ run'.exit = "none" /\ ~run'.drained /\ run'.flow = "none"
        /\ ~run'.internal /\ run'.status = "cancelled" /\ run'.telemetry = t /\ run'.reason = reason
    BY <1>2, <2>1, <2>2, <2>3, Zenon DEF Run, Stages, Statuses
  <2>5. PiSound(run', NoAgent)
    BY <1>1, <2>1, <2>3, <2>4, PiEndsEarly
  <2> QED BY <1>2, <1>4, <1>5, <2>3, <2>4, <2>5, Zenon DEF PiInv, PiBefore, PiOver
<1>6. CASE run' = [run EXCEPT !.stage = "spawning"] /\ UNCHANGED <<agent, host>>
  <2>1. /\ run' \in Run /\ run'.stage = "spawning" /\ run'.windows = run.windows /\ run'.exit = run.exit
        /\ run'.drained = run.drained /\ run'.fallback = run.fallback /\ run'.status = run.status
        /\ run'.telemetry = run.telemetry /\ run'.reason = run.reason /\ run'.internal = run.internal
        /\ run'.flow = run.flow
    BY <1>2, <1>6 DEF Run, Stages
  <2>2. PiSound(run', agent)
    BY <1>2, <1>6, <2>1, NewAgent
       DEF PiInv, PiSound, PiWorks, PiKnows, PiStands, Agrees, PiBefore, PiOver
  <2>3. Attended(host, run.reason, FALSE, FALSE)
    BY <1>2, <1>4, Zenon DEF NoReason
  <2>4. run'.stage \in PiBefore /\ run'.stage \notin PiOver /\ agent' = agent /\ host' = host
    BY <1>6, <2>1 DEF PiBefore, PiOver
  <2> QED BY <2>1, <2>2, <2>3, <2>4 DEF PiInv, Attended
<1>7. CASE /\ ~run.windows
           /\ \E timeout \in Timeouts : host' = [host EXCEPT !.listening = TRUE, !.deadline = Arm(timeout)]
           /\ run' = Send(run, "set_model")
           /\ \E exists \in BOOLEAN : agent' = [Started(FALSE) EXCEPT !.gone = ~exists]
  <2>1. GoesOn(run, run')
    BY <1>2, <1>7, SendIs, CommandsAre
  <2>2. PICK gone \in BOOLEAN : agent' = [Started(FALSE) EXCEPT !.gone = gone]
    BY <1>7, Zenon
  <2>3. /\ agent' \in Agent /\ agent'.closed = "pending" /\ agent'.made /\ agent'.asked = NoReason
        /\ agent'.kills["cleanup"] = "idle"
    BY <2>2, NewAgent, Zenon
  <2>4. PiSound(run', agent')
    BY <1>1, <2>1, <2>3, PiStarts
  <2>5. Attended(host', run.reason, TRUE, FALSE)
    <3>1. PICK timeout \in Timeouts : host' = [host EXCEPT !.listening = TRUE, !.deadline = Arm(timeout)]
      BY <1>7, Zenon
    <3>2. run.reason # "timed_out"
      BY <1>2 DEF NoReason
    <3> QED BY <1>2, <3>1, <3>2, Listens, Zenon
  <2>6. run'.stage \notin PiBefore /\ run'.stage \notin PiOver /\ run'.reason = run.reason
    BY <2>1 DEF GoesOn
  <2> QED BY <2>4, <2>5, <2>6 DEF PiInv, Attended
<1>8. CASE run' = [run EXCEPT !.stage = "done"] /\ UNCHANGED <<agent, host>>
  <2>1. /\ run' \in Run /\ run'.stage = "done" /\ run'.exit = "none" /\ ~run'.drained /\ run'.flow = "none"
        /\ ~run'.internal /\ run'.status = "failed" /\ run'.telemetry = run.telemetry
        /\ run'.reason = run.reason
    BY <1>2, <1>8 DEF Run, Stages
  <2>2. PiSound(run', NoAgent)
    BY <1>1, <1>2, <1>3, <2>1, PiEndsEarly
  <2> QED BY <1>2, <1>4, <1>8, <2>1, <2>2, Zenon DEF PiInv, PiBefore, PiOver, NoReason
<1> QED BY <1>5, <1>6, <1>7, <1>8, Zenon DEF Begin

LEMMA SpawnedStep ==
  ASSUME PiInv, Spawned
  PROVE  PiInv'
<1>1. run.stage = "spawning" /\ run.stage \in PiBefore
  BY Zenon DEF Spawned, PiBefore
<1>2. /\ run \in Run /\ agent = NoAgent /\ run.reason = NoReason /\ run.status = "failed"
      /\ ~run.internal /\ run.flow = "none" /\ run.exit = "none" /\ ~run.drained
      /\ run.telemetry = NoTelemetry /\ ~run.fallback
      /\ host \in Host /\ ~host.listening /\ host.deadline = NoDeadline
  BY <1>1, PiBegins
<1>3. CASE run' = [run EXCEPT !.stage = "done"] /\ UNCHANGED <<agent, host>>
  <2>1. /\ run' \in Run /\ run'.stage = "done" /\ run'.exit = "none" /\ ~run'.drained /\ run'.flow = "none"
        /\ ~run'.internal /\ run'.status = "failed" /\ run'.telemetry = run.telemetry
        /\ run'.reason = run.reason
    BY <1>2, <1>3 DEF Run, Stages
  <2>2. PiSound(run', NoAgent)
    BY <1>1, <1>2, <2>1, PiEndsEarly DEF NoTelemetry
  <2>3. Attended(host, run.reason, TRUE, TRUE)
    BY <1>2, NoneIsClocked DEF Attended, NoReason
  <2> QED BY <1>2, <1>3, <2>1, <2>2, <2>3, Zenon DEF PiInv, PiBefore, PiOver
<1>4. CASE /\ \E timeout \in Timeouts : host' = [host EXCEPT !.listening = TRUE, !.deadline = Arm(timeout)]
           /\ LET w == World([run EXCEPT !.stage = "ready"], Started(TRUE)) IN
              Becomes(IF Aborted = NoReason THEN w ELSE CancelRun(w, Aborted))
  <2> DEFINE c == [run EXCEPT !.stage = "ready"]
             g == Started(TRUE)
             word == Aborted
             w == CancelRun(World(c, g), word)
  <2>1. GoesOn(run, c)
    BY <1>2 DEF GoesOn, Run, Stages, PiBefore, PiOver
  <2>2. g \in Agent /\ g.closed = "pending" /\ g.made /\ g.asked = NoReason /\ g.kills["cleanup"] = "idle"
    BY NewAgent, Zenon
  <2>3. run' = (IF word = NoReason THEN c ELSE w.run) /\ agent' = (IF word = NoReason THEN g ELSE w.agent)
    BY <1>4 DEF Becomes, World
  <2>4. c.stage = "ready" /\ c \in Run /\ c.reason = NoReason /\ c.flow = "none"
    BY <1>2 DEF Run, Stages
  <2>5. word \in Reasons \cup {NoReason} /\ word # "timed_out"
    BY AbortedIs
  <2> HIDE DEF c, g, word
  <2>6. PiSound(c, g)
    BY <1>1, <2>1, <2>2, PiStarts
  <2>7. PiSound(run', agent') /\ run'.stage = "ready" /\ run'.reason # "timed_out"
    <3>1. CASE word = NoReason
      BY <2>3, <2>4, <2>6, <3>1 DEF NoReason
    <3>2. CASE word # NoReason
      <4>1. PiMoves(c, g, w.run, w.agent)
            /\ w.run.reason = (IF c.reason = NoReason THEN word ELSE c.reason)
        BY <2>2, <2>4, <2>5, <3>2, CancelIs
      <4> HIDE DEF w
      <4>2. c.stage \notin PiBefore \cup PiOver
        BY <2>4 DEF PiBefore, PiOver
      <4>3. PiSound(w.run, w.agent)
        BY <2>4, <2>6, <4>1, <4>2, PiKeeps DEF PiOver
      <4>4. w.run.stage = "ready"
        BY <2>4, <4>1 DEF PiMoves, SameCourse
      <4> QED BY <2>3, <2>4, <2>5, <3>2, <4>1, <4>3, <4>4
    <3> QED BY <3>1, <3>2
  <2>8. Attended(host', run'.reason, TRUE, FALSE)
    <3>1. PICK timeout \in Timeouts : host' = [host EXCEPT !.listening = TRUE, !.deadline = Arm(timeout)]
      BY <1>4, Zenon
    <3> QED BY <1>2, <2>7, <3>1, Listens, Zenon
  <2>9. run'.stage \notin PiBefore /\ run'.stage \notin PiOver
    BY <2>7 DEF PiBefore, PiOver
  <2> QED BY <2>7, <2>8, <2>9 DEF PiInv, Attended
<1> QED BY <1>3, <1>4, Zenon DEF Spawned

(* A handler runs in a run that is not over, or leaves the reason as it is. *)
LEMMA PiHandles ==
  ASSUME PiInv, run.stage \notin PiBefore, PiMoves(run, agent, run', agent'),
         run.stage \in PiOver => run'.reason = run.reason,
         run.stage = "done" => run'.who = run.who /\ run'.internal = run.internal
                               /\ agent'.asked = agent.asked,
         Attended(host', run'.reason, TRUE, run.stage \in PiOver)
  PROVE  PiInv'
<1>1. PiSound(run', agent')
  BY PiKeeps DEF PiInv
<1>2. run'.stage = run.stage
  BY DEF PiMoves, SameCourse
<1> QED BY <1>1, <1>2 DEF PiInv, Attended

LEMMA PiSignalled ==
  ASSUME PiInv, host.listening, NEW reason \in Reasons, Becomes(CancelRun(Here, reason)),
         run'.reason = (IF run.reason = NoReason THEN reason ELSE run.reason)
           => Attended(host', run'.reason, TRUE, FALSE)
  PROVE  PiInv'
<1>1. run.stage \notin PiBefore /\ run.stage \notin PiOver
  BY DEF PiInv, Attended
<1>2. run \in Run /\ agent \in Agent /\ (run.flow # "none" => run.reason # NoReason)
  BY DEF PiInv, PiSound, PiWorks, Promised
<1>3. PiMoves(run, agent, run', agent')
      /\ run'.reason = (IF run.reason = NoReason THEN reason ELSE run.reason)
  BY <1>2, CancelIs DEF Becomes, Here
<1>4. Attended(host', run'.reason, TRUE, run.stage \in PiOver)
  BY <1>1, <1>3 DEF Attended
<1> QED BY <1>1, <1>3, <1>4, PiHandles DEF PiOver

(* A signal that nobody listens to yet is only remembered. *)
LEMMA PiUnheard ==
  ASSUME PiInv, UNCHANGED <<run, agent>>,
         \A begun, over \in BOOLEAN :
           Attended(host, run.reason, begun, over) => Attended(host', run.reason, begun, over)
  PROVE  PiInv'
<1> DEFINE begun == run.stage \notin PiBefore
           over == run.stage \in PiOver
<1>1. begun \in BOOLEAN /\ over \in BOOLEAN /\ Attended(host, run.reason, begun, over)
  BY DEF PiInv
<1>2. Attended(host', run.reason, begun, over)
  BY <1>1, Zenon
<1> QED BY <1>2 DEF PiInv

LEMMA AbortStep ==
  ASSUME PiInv, CallerAborts \/ SessionAborts
  PROVE  PiInv'
<1>1. PICK reason \in {"cancelled", "session_shutdown"} :
        /\ host' = [host EXCEPT !.caller = TRUE] \/ host' = [host EXCEPT !.shutdown = TRUE]
        /\ Becomes(IF host.listening THEN CancelRun(Here, reason) ELSE Here)
  BY DEF CallerAborts, SessionAborts
<1>2. ASSUME NEW begun \in BOOLEAN, NEW over \in BOOLEAN, NEW other, Attended(host, other, begun, over)
      PROVE  Attended(host', other, begun, over)
  BY <1>1, <1>2, Signals, ZenonT(40)
<1>3. CASE host.listening
  <2>1. reason \in Reasons /\ reason # "timed_out"
    BY DEF Reasons
  <2>2. Attended(host, run.reason, TRUE, FALSE)
    BY <1>3 DEF PiInv, Attended
  <2>3. Attended(host, IF run.reason = NoReason THEN reason ELSE run.reason, TRUE, FALSE)
    BY <2>1, <2>2 DEF Attended
  <2>4. Attended(host', IF run.reason = NoReason THEN reason ELSE run.reason, TRUE, FALSE)
    BY <1>2, <2>3, Zenon
  <2>5. Becomes(CancelRun(Here, reason))
    BY <1>1, <1>3
  <2> QED BY <1>3, <2>1, <2>4, <2>5, PiSignalled, Zenon
<1>4. CASE ~host.listening
  <2>1. UNCHANGED <<run, agent>>
    BY <1>1, <1>4 DEF Becomes, Here, World
  <2> QED BY <1>2, <2>1, PiUnheard
<1> QED BY <1>3, <1>4

LEMMA TimerStep ==
  ASSUME PiInv, TimerFires
  PROVE  PiInv'
<1>1. PICK elapsed \in Elapses(host.deadline) :
        LET d == TimerRuns(host.deadline, elapsed) IN
        /\ host' = [host EXCEPT !.deadline = d]
        /\ Becomes(IF Expired(d) THEN CancelRun(Here, "timed_out") ELSE Here)
  BY DEF TimerFires
<1> DEFINE d == TimerRuns(host.deadline, elapsed)
<1>2. host.deadline.timer = "armed" /\ run.stage \notin PiBefore /\ run.stage \notin PiOver
  BY NoneIsClocked DEF TimerFires, PiInv, Attended
<1>3. Attended(host, run.reason, TRUE, FALSE)
  BY <1>2 DEF PiInv, Attended
<1>4. ASSUME NEW other, other = "timed_out" => run.reason = other \/ Expired(d)
      PROVE  Attended(host', other, TRUE, FALSE)
  BY <1>1, <1>2, <1>3, <1>4, TimerSignals, Zenon
<1>5. run \in Run /\ agent \in Agent /\ (run.flow # "none" => run.reason # NoReason)
  BY DEF PiInv, PiSound, PiWorks, Promised
<1>6. /\ PiMoves(run, agent, run', agent')
      /\ run'.reason = "timed_out" => run.reason = "timed_out" \/ Expired(d)
  <2> HIDE DEF d
  <2>1. CASE Expired(d)
    <3>1. Becomes(CancelRun(World(run, agent), "timed_out"))
      BY <1>1, <2>1 DEF Here, d
    <3> QED BY <1>5, <2>1, <3>1, CancelIs DEF Becomes, Reasons
  <2>2. CASE ~Expired(d)
    <3>1. UNCHANGED <<run, agent>>
      BY <1>1, <2>2 DEF Here, d, Becomes, World
    <3> QED BY <1>5, <3>1 DEF PiMoves, SameCourse, Carried
  <2> QED BY <2>1, <2>2
<1>7. Attended(host', run'.reason, TRUE, run.stage \in PiOver)
  <2>1. Attended(host', run'.reason, TRUE, FALSE)
    BY <1>4, <1>6, Zenon
  <2> QED BY <1>2, <2>1 DEF Attended
<1> QED BY <1>2, <1>6, <1>7, PiHandles DEF PiOver

(* The host stays as it is. *)
LEMMA PiReacts ==
  ASSUME PiInv, run.stage \notin PiBefore, PiMoves(run, agent, run', agent'),
         run'.reason = run.reason, host' = host,
         run.stage = "done" => run'.who = run.who /\ run'.internal = run.internal
                               /\ agent'.asked = agent.asked
  PROVE  PiInv'
<1>1. Attended(host', run'.reason, TRUE, run.stage \in PiOver)
  BY DEF PiInv, Attended
<1> QED BY <1>1, PiHandles

LEMMA Unmoved ==
  ASSUME NEW c \in Run, NEW g \in Agent, c.flow # "none" => c.reason # NoReason,
         NEW d \in Run, SameRun(c, d)
  PROVE  PiMoves(c, g, d, g)
  BY AgentFields DEF PiMoves, SameRun, SameCourse, Carried

LEMMA ReadsStep ==
  ASSUME PiInv, Reads
  PROVE  PiInv'
<1>1. run \in Run /\ agent \in Agent /\ (run.flow # "none" => run.reason # NoReason)
  BY DEF PiInv, PiSound, PiWorks, Promised
<1>2. run.stage \notin PiBefore /\ run.stage # "done" /\ host' = host
  <2>1. agent.made /\ run.stage # "done" /\ host' = host
    BY DEF Reads
  <2> QED BY <2>1, NewAgent DEF PiInv, PiSound, PiWorks
<1>3. CASE \E chunk \in {ch \in Chunks : run.invoked \/ ~Speaks(ch)} :
             Becomes(World(HandleRecords(run, chunk), agent))
  <2>1. PICK chunk \in Chunks : Becomes(World(HandleRecords(run, chunk), agent))
    BY <1>3
  <2>2. chunk \in Seq(Records)
    BY ChunkAssumption
  <2>3. run' = HandleRecords(run, chunk) /\ agent' = agent
    BY <2>1 DEF Becomes, World
  <2>4. run' \in Run /\ SameRun(run, run')
    BY <1>1, <2>2, <2>3, RecordsAre
  <2>5. PiMoves(run, agent, run', agent') /\ run'.reason = run.reason
    BY <1>1, <2>3, <2>4, Unmoved DEF SameRun
  <2> QED BY <1>2, <2>5, PiReacts
<1>4. CASE Becomes(LatchInternalFailure(Here))
  <2>1. PiMoves(run, agent, run', agent') /\ run'.reason = run.reason
    BY <1>1, <1>4, LatchIs DEF Becomes, Here
  <2> QED BY <1>2, <2>1, PiReacts
<1> QED BY <1>3, <1>4 DEF Reads

LEMMA StdoutStep ==
  ASSUME PiInv, StdoutEnds
  PROVE  PiInv'
<1>1. run \in Run /\ agent \in Agent /\ (run.flow # "none" => run.reason # NoReason)
  BY DEF PiInv, PiSound, PiWorks, Promised
<1>2. run.stage \notin PiBefore /\ run.stage # "done" /\ host' = host
  <2>1. agent.made /\ run.stage # "done" /\ host' = host
    BY DEF StdoutEnds
  <2> QED BY <2>1, NewAgent DEF PiInv, PiSound, PiWorks
<1>3. PICK torn \in BOOLEAN : Becomes(FinishDecoder(World(run, agent), torn))
  BY DEF StdoutEnds, Here
<1>4. PiMoves(run, agent, run', agent') /\ run'.reason = run.reason
  BY <1>1, <1>3, DecoderIs DEF Becomes
<1> QED BY <1>2, <1>4, PiReacts

LEMMA WriteStep ==
  ASSUME PiInv, WriteFails
  PROVE  PiInv'
<1>1. run \in Run /\ agent \in Agent /\ (run.flow # "none" => run.reason # NoReason)
  BY DEF PiInv, PiSound, PiWorks, Promised
<1>2. run.stage \notin PiBefore /\ run.stage # "done" /\ UNCHANGED <<agent, host>>
  BY StagesApart DEF WriteFails, PiOver
<1>3. run' \in Run /\ SameRun(run, run')
  BY <1>1 DEF WriteFails, Run, SameRun, SameCourse
<1>4. PiMoves(run, agent, run', agent') /\ run'.reason = run.reason
  BY <1>1, <1>2, <1>3, Unmoved DEF SameRun
<1> QED BY <1>2, <1>4, PiReacts

LEMMA SystemStep ==
  ASSUME PiInv, SystemActs
  PROVE  PiInv'
<1>1. run \in Run /\ agent \in Agent /\ (run.flow # "none" => run.reason # NoReason)
  BY DEF PiInv, PiSound, PiWorks, Promised
<1>2. /\ Carried(agent, agent') /\ agent'.asked = agent.asked /\ UNCHANGED <<run, host>>
      /\ agent # NoAgent
  BY <1>1, SystemCarries
<1>3. run.stage \notin PiBefore
  BY <1>2 DEF PiInv, PiSound, PiWorks
<1>4. PiMoves(run, agent, run', agent')
  BY <1>1, <1>2 DEF PiMoves, SameCourse
<1> QED BY <1>2, <1>3, <1>4, PiReacts

LEMMA RootStep ==
  ASSUME PiInv, RootExits
  PROVE  PiInv'
<1>1. run \in Run /\ agent \in Agent /\ (run.flow # "none" => run.reason # NoReason)
  BY DEF PiInv, PiSound, PiWorks, Promised
<1>2. agent.made /\ agent' = [agent EXCEPT !.exited = TRUE] /\ host' = host
      /\ run' = FinishCompletion(RejectPending(run), "error")
  BY DEF RootExits
<1>3. run.stage \notin PiBefore
  BY <1>2, NewAgent DEF PiInv, PiSound, PiWorks
<1>4. RejectPending(run) \in Run /\ SameRun(run, RejectPending(run)) /\ RejectPending(run).who = run.who
  BY <1>1, PiPromises
<1>5. run' \in Run /\ SameRun(RejectPending(run), run') /\ run'.who = run.who
  BY <1>2, <1>4, PiPromises, Zenon
<1>6. Carried(agent, agent') /\ agent'.asked = agent.asked
  BY <1>1, <1>2, Zenon DEF Carried, Agent
<1>7. PiMoves(run, agent, run', agent') /\ run'.reason = run.reason /\ run'.internal = run.internal
  BY <1>1, <1>4, <1>5, <1>6 DEF PiMoves, SameRun, SameCourse
<1> QED BY <1>2, <1>3, <1>5, <1>6, <1>7, PiReacts

(* What closed settles with: nothing is known of the exit before. *)
LEMMA PiOpenEnd ==
  ASSUME PiInv, agent.closed = "pending"
  PROVE  /\ run \in Run /\ agent \in Agent /\ agent.made /\ run.stage \notin PiBefore
         /\ run.exit = "none" /\ ~run.drained /\ (run.windows => run.status # "completed")
         /\ run.windows => run.stage # "done"
         /\ run.stage = "done" => run.status # "completed"
<1>1. /\ run \in Run /\ agent \in Agent /\ PiWorks(run, agent) /\ PiKnows(run, agent)
      /\ PiStands(run, agent) /\ (run.stage = "done" => PiConcluded(run, agent))
  BY DEF PiInv, PiSound, Promised
<1>2. ~HasExit(agent) /\ ~IsClosed(agent)
  BY DEF HasExit, IsClosed
<1>3. agent.made /\ run.stage \notin PiBefore
  BY <1>1, NewAgent DEF PiWorks
<1>4. run.exit = "none" /\ ~run.drained
  BY <1>1, <1>2 DEF PiKnows
<1>5. run.windows => run.status # "completed" /\ run.stage # "done"
  BY <1>1, <1>2, <1>3, <1>4 DEF PiStands, PiConcluded
<1>6. run.stage = "done" => run.status # "completed"
  BY <1>1, <1>5 DEF PiConcluded
<1> QED BY <1>1, <1>3, <1>4, <1>5, <1>6

LEMMA OutputStep ==
  ASSUME PiInv, OutputCloses
  PROVE  PiInv'
<1>1. /\ agent.closed = "pending" /\ ~run.windows /\ UNCHANGED <<run, host>>
      /\ agent' = [agent EXCEPT !.closed = "resolved"]
  BY DEF OutputCloses, Endings
<1>2. /\ run \in Run /\ agent \in Agent /\ agent.made /\ run.stage \notin PiBefore
      /\ run.exit = "none" /\ ~run.drained
  BY <1>1, PiOpenEnd
<1>3. /\ agent' \in Agent /\ agent'.made = agent.made /\ agent'.closed = "resolved"
      /\ agent'.asked = agent.asked /\ agent'.kills = agent.kills /\ agent'.clean = agent.clean
  BY <1>1, <1>2, Zenon DEF Agent, Promises
<1>4. Promised(agent', run.windows)
  BY <1>1, <1>3 DEF Promised
<1>5. PiWorks(run, agent')
  BY <1>2, <1>3 DEF PiInv, PiSound, PiWorks
<1>6. PiKnows(run, agent') /\ PiStands(run, agent')
  BY <1>1, <1>2, <1>3 DEF PiInv, PiSound, PiKnows, PiStands
<1>7. run.stage = "done" => PiConcluded(run, agent')
  BY <1>1, <1>3 DEF PiInv, PiSound, PiConcluded
<1> QED BY <1>1, <1>2, <1>4, <1>5, <1>6, <1>7 DEF PiInv, PiSound

LEMMA ClosesStep ==
  ASSUME PiInv, OwnedCloses
  PROVE  PiInv'
<1>1. agent.closed = "pending" /\ run.windows /\ host' = host
  BY DEF OwnedCloses
<1>2. /\ run \in Run /\ agent \in Agent /\ agent.made /\ run.stage \notin PiBefore
      /\ run.exit = "none" /\ ~run.drained /\ run.status # "completed" /\ run.stage # "done"
  BY <1>1, PiOpenEnd
<1>3. PICK end \in Endings(TRUE), clean \in BOOLEAN :
        /\ agent' = [agent EXCEPT !.closed = end, !.clean = clean,
                                  !.ready = IF @ = "pending" THEN "rejected" ELSE @]
        /\ run' = IF end = "rejected"
                  THEN FinishCompletion(RejectPending([run EXCEPT !.closedError = TRUE]), "error")
                  ELSE LET c == [run EXCEPT !.exit = end] IN
                       IF c.completion # "open" THEN c
                       ELSE FinishCompletion(RejectPending(c), "error")
  BY Zenon DEF OwnedCloses
<1>4. /\ end \in Reasons \cup {"root_exit", "rejected"}
      /\ end # "rejected" => agent.gone /\ end \in {"root_exit", agent.asked} \ {NoReason}
  BY <1>2, AgentFields DEF Endings, NoReason, Reasons
<1>5. /\ agent' \in Agent /\ agent'.made = agent.made /\ agent'.closed = end
      /\ agent'.asked = agent.asked /\ agent'.kills = agent.kills /\ agent'.gone = agent.gone
  <2>1. PICK ready \in Promises : ready = IF agent.ready = "pending" THEN "rejected" ELSE agent.ready
    BY <1>2, AgentFields DEF Promises
  <2>2. agent' = [agent EXCEPT !.closed = end, !.clean = clean, !.ready = ready]
    BY <1>3, <2>1
  <2>3. end \in Promises \cup Reasons \cup {"root_exit"}
    BY <1>4 DEF Promises
  <2> QED BY <1>2, <2>2, <2>3, Zenon DEF Agent
<1> DEFINE c == [run EXCEPT !.exit = end]
           b == [run EXCEPT !.closedError = TRUE]
           known == IF end = "rejected" THEN "none" ELSE end
<1>6. /\ run' \in Run /\ run'.stage = run.stage /\ run'.windows = run.windows
      /\ run'.drained = run.drained /\ run'.invoked = run.invoked /\ run'.fallback = run.fallback
      /\ run'.status = run.status /\ run'.telemetry = run.telemetry /\ run'.reason = run.reason
      /\ run'.internal = run.internal /\ run'.flow = run.flow /\ run'.exit = known
  <2>1. CASE end = "rejected"
    <3>1. b \in Run /\ SameRun(run, b)
      BY <1>2, Zenon DEF Run, SameRun, SameCourse
    <3> HIDE DEF b
    <3>2. RejectPending(b) \in Run /\ SameRun(b, RejectPending(b))
      BY <3>1, PiPromises
    <3>3. run' \in Run /\ SameRun(RejectPending(b), run')
      BY <1>3, <2>1, <3>2, PiPromises DEF b
    <3> QED BY <1>2, <2>1, <3>1, <3>2, <3>3 DEF SameRun, SameCourse
  <2>2. CASE end # "rejected"
    <3>1. /\ c \in Run /\ c.stage = run.stage /\ c.windows = run.windows
          /\ c.drained = run.drained /\ c.invoked = run.invoked /\ c.fallback = run.fallback
          /\ c.status = run.status /\ c.telemetry = run.telemetry /\ c.reason = run.reason
          /\ c.internal = run.internal /\ c.flow = run.flow /\ c.exit = end
      BY <1>2, <1>4, <2>2 DEF Run
    <3>2. run' = c \/ run' = FinishCompletion(RejectPending(c), "error")
      BY <1>3, <2>2
    <3> HIDE DEF c
    <3>3. RejectPending(c) \in Run /\ SameRun(c, RejectPending(c))
      BY <3>1, PiPromises
    <3>4. FinishCompletion(RejectPending(c), "error") \in Run
          /\ SameRun(RejectPending(c), FinishCompletion(RejectPending(c), "error"))
      BY <3>3, PiPromises
    <3> QED BY <2>2, <3>1, <3>2, <3>3, <3>4 DEF SameRun, SameCourse
  <2> QED BY <2>1, <2>2
<1>7. HasExit(agent') <=> end # "rejected"
  BY <1>4, <1>5 DEF HasExit, IsClosed, Reasons
<1>8. Promised(agent', run'.windows)
  BY <1>1, <1>2, <1>4, <1>5, <1>6, <1>7 DEF Promised, NoReason, Reasons
<1>9. PiWorks(run', agent')
  BY <1>2, <1>5, <1>6 DEF PiInv, PiSound, PiWorks
<1>10. PiKnows(run', agent') /\ PiStands(run', agent')
  BY <1>1, <1>2, <1>5, <1>6, <1>7 DEF PiInv, PiSound, PiKnows, PiStands, Agrees
<1>11. PiSound(run', agent')
  BY <1>2, <1>6, <1>8, <1>9, <1>10 DEF PiSound
<1> QED BY <1>1, <1>6, <1>11 DEF PiInv

LEMMA PiSteps ==
  ASSUME PiInv, PiNext
  PROVE  PiInv'
<1>1. ASSUME Finished PROVE PiInv'
  BY <1>1 DEF Finished, vars, PiInv
<1>2. ASSUME Surroundings \/ ReadySettles PROVE PiInv'
  BY <1>2, SystemStep DEF Surroundings, SystemActs
<1>3. ASSUME Resume PROVE PiInv'
  BY <1>3, ReadyStep, CommandStep, SettledStep, FlowingStep, ClosingStep, CleanupStep, DrainingStep
     DEF Resume
<1> QED BY <1>1, <1>2, <1>3, BeginStep, SpawnedStep, AbortStep, TimerStep, ReadsStep, StdoutStep,
           WriteStep, ClosesStep, RootStep, OutputStep DEF PiNext

-----------------------------------------------------------------------------
(* Kimi: the functions of the closure *)

(* What a handler may do: give a first reason, and ask the agent to end for *)
(* it.                                                                      *)
KimiMoves(c, g, d, h) ==
  /\ d \in KimiRun /\ Carried(g, h)
  /\ d.stage = c.stage /\ d.windows = c.windows /\ d.connection = c.connection /\ d.reply = c.reply
  /\ d.submitted = c.submitted /\ d.drained = c.drained /\ d.status = c.status
  /\ d.reason = c.reason \/ c.reason = NoReason
  /\ \/ h.asked = g.asked
     \/ g.asked = NoReason /\ d.reason # NoReason

LEMMA KimiKeeps ==
  ASSUME NEW c, NEW g, KimiSound(c, g), NEW d, NEW h, KimiMoves(c, g, d, h),
         c.stage \in KimiOver => d.reason = c.reason /\ h.asked = g.asked,
         c.stage \in KimiBefore => h = g,
         c.stage = "begin" => d.reason = c.reason
  PROVE  KimiSound(d, h)
<1>1. /\ c \in KimiRun /\ d \in KimiRun /\ h \in Agent /\ g \in Agent /\ Carried(g, h)
      /\ g.asked \in Reasons \cup {NoReason} /\ NoReason \notin Reasons /\ g.closed \in Ends
  <2>1. c \in KimiRun /\ g \in Agent /\ d \in KimiRun /\ h \in Agent /\ Carried(g, h)
    BY DEF KimiSound, Promised, KimiMoves, Carried
  <2>2. NoReason \notin Reasons
    BY DEF NoReason, Reasons
  <2> QED BY <2>1, <2>2, AgentFields
<1>2. HasExit(h) <=> HasExit(g)
  BY <1>1 DEF HasExit, IsClosed, Carried
<1>3. Promised(h, d.windows)
  BY <1>1, <1>2 DEF KimiSound, Promised, KimiMoves, Carried
<1>4. KimiWorks(d, h)
  BY <1>1 DEF KimiSound, KimiWorks, KimiMoves, Carried
<1>5. KimiStands(d, h)
  <2>1. d.status = "completed" => c.stage \in KimiOver
    BY <1>1 DEF KimiSound, KimiWorks, KimiMoves
  <2>2. Agrees(d.status, d.reason)
    BY <1>1 DEF KimiSound, KimiStands, Agrees, KimiMoves, KimiWorks
  <2> QED BY <1>1, <1>2, <2>1, <2>2 DEF KimiSound, KimiStands, KimiMoves, Carried
<1>6. d.stage = "done" => KimiConcluded(d, h)
  BY <1>1, <1>2 DEF KimiSound, KimiConcluded, KimiMoves, Carried, IsClosed
<1> QED BY <1>1, <1>3, <1>4, <1>5, <1>6 DEF KimiSound

LEMMA GiveGraceIs ==
  ASSUME NEW g \in Agent
  PROVE  Carried(g, GiveGrace(g)) /\ GiveGrace(g).asked = g.asked
<1>1. "timer" \in Killers /\ "cleanup" \in Killers /\ "grace" \in KillStates
  BY DEF Killers, KillStates
<1>2. LET e == [g EXCEPT !.kills["timer"] = "grace"] IN
      /\ e \in Agent /\ e.made = g.made /\ e.closed = g.closed /\ e.clean = g.clean
      /\ e.gone = g.gone /\ e.asked = g.asked /\ e.kills = [g.kills EXCEPT !["timer"] = "grace"]
  BY <1>1, AgentCalls
<1>3. [g.kills EXCEPT !["timer"] = "grace"]["cleanup"] = g.kills["cleanup"]
  BY <1>1, AgentFields DEF Killers
<1> QED BY <1>2, <1>3 DEF Carried, GiveGrace

LEMMA KimiCancelIs ==
  ASSUME NEW c \in KimiRun, NEW g \in Agent, NEW reason \in Reasons
  PROVE  LET w == KimiCancel(World(c, g), reason) IN
         /\ KimiMoves(c, g, w.run, w.agent) /\ (~g.made => w.agent = g)
         /\ w.run.reason = (IF c.reason = NoReason THEN reason ELSE c.reason)
         /\ w = World(w.run, w.agent)
<1> DEFINE d == [c EXCEPT !.reason = reason]
           h == IF ~g.made THEN g ELSE IF c.windows THEN Terminate(g, reason) ELSE GiveGrace(g)
           w == KimiCancel(World(c, g), reason)
<1>1. CASE c.reason # NoReason
  BY <1>1, AgentFields DEF KimiCancel, World, KimiMoves, Carried
<1>2. CASE c.reason = NoReason
  <2>1. /\ d \in KimiRun /\ d.stage = c.stage /\ d.windows = c.windows /\ d.connection = c.connection
        /\ d.reply = c.reply /\ d.submitted = c.submitted /\ d.drained = c.drained
        /\ d.status = c.status /\ d.reason = reason
    BY DEF KimiRun
  <2>2. Carried(g, h) /\ (h.asked = g.asked \/ g.asked = NoReason) /\ (~g.made => h = g)
    <3>1. Carried(g, g)
      BY DEF Carried
    <3>2. Carried(g, Terminate(g, reason))
          /\ Terminate(g, reason).asked = IF g.asked = NoReason THEN reason ELSE g.asked
      BY AgentCalls
    <3> QED BY <3>1, <3>2, GiveGraceIs
  <2>3. w = World(d, h)
    <3>1. g.made \in BOOLEAN /\ c.windows \in BOOLEAN
      BY AgentFields DEF KimiRun
    <3> QED BY <1>2, <3>1 DEF KimiCancel, World
  <2>4. reason # NoReason
    BY DEF Reasons, NoReason
  <2> HIDE DEF w, h, d
  <2>5. w.run = d /\ w.agent = h
    BY <2>3 DEF World
  <2>6. KimiMoves(c, g, d, h)
    BY <1>2, <2>1, <2>2, <2>4 DEF KimiMoves
  <2> QED BY <1>2, <2>1, <2>2, <2>3, <2>5, <2>6 DEF w
<1> QED BY <1>1, <1>2

(* A run that may still go either way. *)
KimiOpen(c, g) ==
  /\ c \in KimiRun /\ Promised(g, c.windows) /\ g.kills["cleanup"] = "idle"
  /\ g.asked # NoReason => c.reason # NoReason
  /\ c.submitted => g.made /\ c.connection # "none"
  /\ c.reply = "ok" => g.made
  /\ c.drained => c.windows /\ HasExit(g)

(* The fields that the end of the coroutine sets. *)
EndsAt(c, status, stage) == [[c EXCEPT !.status = status] EXCEPT !.stage = stage]
EndsInput(c, status, stage) == [EndsAt(c, status, stage) EXCEPT !.ended = TRUE]

LEMMA KimiFields ==
  ASSUME NEW c \in KimiRun, NEW status \in Statuses, NEW stage \in KimiStages
  PROVE  LET d == EndsAt(c, status, stage)
             e == EndsInput(c, status, stage) IN
         /\ d \in KimiRun /\ d.stage = stage /\ d.windows = c.windows /\ d.connection = c.connection
         /\ d.reply = c.reply /\ d.submitted = c.submitted /\ d.drained = c.drained
         /\ d.status = status /\ d.reason = c.reason
         /\ e \in KimiRun /\ e.stage = stage /\ e.windows = c.windows /\ e.connection = c.connection
         /\ e.reply = c.reply /\ e.submitted = c.submitted /\ e.drained = c.drained
         /\ e.status = status /\ e.reason = c.reason
<1> DEFINE b == [c EXCEPT !.status = status]
<1>1. /\ b \in KimiRun /\ b.windows = c.windows /\ b.connection = c.connection
      /\ b.reply = c.reply /\ b.submitted = c.submitted /\ b.drained = c.drained
      /\ b.status = status /\ b.reason = c.reason
  BY DEF KimiRun
<1> HIDE DEF b
<1> DEFINE d == [b EXCEPT !.stage = stage]
<1>2. /\ d \in KimiRun /\ d.stage = stage /\ d.windows = c.windows /\ d.connection = c.connection
      /\ d.reply = c.reply /\ d.submitted = c.submitted /\ d.drained = c.drained
      /\ d.status = status /\ d.reason = c.reason
  BY <1>1 DEF KimiRun
<1> HIDE DEF d
<1> DEFINE e == [d EXCEPT !.ended = TRUE]
<1>3. /\ e \in KimiRun /\ e.stage = stage /\ e.windows = c.windows /\ e.connection = c.connection
      /\ e.reply = c.reply /\ e.submitted = c.submitted /\ e.drained = c.drained
      /\ e.status = status /\ e.reason = c.reason
  BY <1>2, Zenon DEF KimiRun
<1> QED BY <1>2, <1>3 DEF b, d, EndsAt, EndsInput

LEMMA FinallyIs ==
  ASSUME NEW c, NEW g, KimiOpen(c, g), NEW outcome \in {"failed", "completed"},
         outcome = "completed" /\ c.reason = NoReason => c.submitted
  PROVE  LET w == Finally(World(c, g), outcome) IN
         KimiSound(w.run, w.agent) /\ InFinally(w.run.stage) /\ w.run.reason = c.reason
<1> DEFINE status == StatusAtEnd(c.reason, outcome)
           h == ClearGrace(g)
           word == IF c.reason = NoReason THEN "cancelled" ELSE c.reason
           At(stage) == EndsAt(c, status, stage)
           Unplugged(stage) == EndsInput(c, status, stage)
           w == Finally(World(c, g), outcome)
<1>1. c \in KimiRun /\ g \in Agent /\ c.windows \in BOOLEAN /\ g.made \in BOOLEAN
  BY AgentFields DEF KimiOpen, Promised, KimiRun
<1>2. /\ h \in Agent /\ h.made = g.made /\ h.closed = g.closed /\ h.clean = g.clean
      /\ h.gone = g.gone /\ h.asked = g.asked /\ h.kills["cleanup"] = "idle"
  BY <1>1, GraceIs DEF KimiOpen
<1>3. /\ status \in Statuses /\ Agrees(status, c.reason)
      /\ status = "completed" => c.reason = NoReason /\ c.submitted
  BY DEF StatusAtEnd, StatusOfReason, Statuses, Agrees
<1>4. word \in Reasons
  BY <1>1 DEF KimiRun, Reasons, NoReason
<1>5. /\ "done" \in KimiStages /\ "reaping" \in KimiStages /\ "leaving" \in KimiStages
  BY DEF KimiStages
<1>6. w = CASE h.closed = "none" -> World(At("done"), h)
            [] h.closed # "none" /\ c.windows ->
                 IF status = "completed" THEN World(Unplugged("reaping"), h)
                 ELSE World(At("leaving"), Terminate(h, word))
            [] OTHER -> IF h.made THEN World(At("leaving"), Kill(h, "cleanup")) ELSE World(At("reaping"), h)
  <2> DEFINE b == [c EXCEPT !.status = status]
  <2>1. b.reason = c.reason /\ b.windows = c.windows /\ b.status = status
    BY <1>1, <1>3 DEF KimiRun
  <2>2. World(c, g).run = c /\ World(c, g).agent = g
    BY DEF World
  <2> HIDE DEF h
  <2> QED BY <2>1, <2>2 DEF Finally, h, EndsAt, EndsInput
<1> HIDE DEF w, h, status, word
<1>7. PICK d, e : /\ w = World(d, e)
                  /\ \/ d = At("done") /\ e = h /\ h.closed = "none"
                     \/ /\ d = Unplugged("reaping") /\ e = h
                        /\ c.windows /\ status = "completed" /\ h.closed # "none"
                     \/ d = At("leaving") /\ e = Terminate(h, word) /\ c.windows /\ status # "completed"
                        /\ h.closed # "none"
                     \/ d = At("leaving") /\ e = Kill(h, "cleanup") /\ ~c.windows /\ h.made /\ h.closed # "none"
                     \/ d = At("reaping") /\ e = h /\ ~c.windows /\ ~h.made /\ h.closed # "none"
  <2> HIDE DEF At, Unplugged
  <2>1. h.made \in BOOLEAN
    BY <1>1, <1>2
  <2>2. CASE h.closed = "none"
    BY <1>6, <2>2
  <2>3. CASE h.closed # "none" /\ c.windows
    BY <1>6, <2>3
  <2>4. CASE h.closed # "none" /\ ~c.windows
    BY <1>6, <2>1, <2>4
  <2> QED BY <1>1, <2>2, <2>3, <2>4
<1> DEFINE Kept(x, stage) ==
             /\ x \in KimiRun /\ x.stage = stage /\ x.windows = c.windows
             /\ x.connection = c.connection /\ x.reply = c.reply /\ x.submitted = c.submitted
             /\ x.drained = c.drained /\ x.status = status /\ x.reason = c.reason
<1>8. \A stage \in KimiStages : Kept(At(stage), stage) /\ Kept(Unplugged(stage), stage)
  <2> TAKE stage \in KimiStages
  <2> DEFINE x == At(stage)
             y == Unplugged(stage)
  <2>1. /\ x \in KimiRun /\ x.stage = stage /\ x.windows = c.windows
        /\ x.connection = c.connection /\ x.reply = c.reply /\ x.submitted = c.submitted
        /\ x.drained = c.drained /\ x.status = status /\ x.reason = c.reason
        /\ y \in KimiRun /\ y.stage = stage /\ y.windows = c.windows
        /\ y.connection = c.connection /\ y.reply = c.reply /\ y.submitted = c.submitted
        /\ y.drained = c.drained /\ y.status = status /\ y.reason = c.reason
    BY <1>1, <1>3, KimiFields
  <2> HIDE DEF At, Unplugged
  <2> QED BY <2>1
<1> HIDE DEF At, Unplugged
<1>9. status = "completed" => g.made /\ g.closed # "none" /\ g.asked = NoReason /\ c.connection # "none"
  BY <1>3 DEF KimiOpen, Promised
<1> DEFINE Right(x) ==
             /\ x \in Agent /\ x.made = g.made /\ x.closed = g.closed /\ x.clean = g.clean /\ x.gone = g.gone
             /\ x.asked = g.asked \/ (g.asked = NoReason /\ status # "completed")
<1>10. Right(h)
  BY <1>2
<1>11. c.windows /\ status # "completed" => Right(Terminate(h, word))
  <2>1. /\ Carried(h, Terminate(h, word)) /\ Terminate(h, word).gone = h.gone
        /\ Terminate(h, word).asked = IF h.asked = NoReason THEN word ELSE h.asked
    BY <1>2, <1>4, AgentCalls
  <2> QED BY <1>2, <2>1 DEF Carried
<1>12. Right(Kill(h, "cleanup")) /\ Kill(h, "cleanup").kills["cleanup"] = "waiting"
  <2>1. /\ Kill(h, "cleanup") \in Agent /\ Kill(h, "cleanup").asked = h.asked
        /\ LET x == Kill(h, "cleanup") IN
           /\ x.made = h.made /\ x.closed = h.closed /\ x.clean = h.clean /\ x.gone = h.gone
           /\ x.kills = [h.kills EXCEPT !["cleanup"] =
                           IF h.kills["cleanup"] \in {"idle", "grace"} THEN "waiting" ELSE @]
    BY <1>2, Killing, Zenon DEF Killers
  <2>2. Kill(h, "cleanup").kills["cleanup"] = "waiting"
    BY <1>2, <2>1, AgentFields DEF Killers
  <2> QED BY <1>2, <2>1, <2>2
<1> HIDE DEF Right, Kept
<1>13. /\ Right(e) /\ \E stage \in {"done", "reaping", "leaving"} : Kept(d, stage)
                                    /\ (stage = "done" <=> g.closed = "none")
                                    /\ (status = "completed" /\ ~c.windows =>
                                          stage = "leaving" /\ e.kills["cleanup"] = "waiting")
  BY <1>2, <1>5, <1>7, <1>8, <1>9, <1>10, <1>11, <1>12
<1>14. PICK stage \in {"done", "reaping", "leaving"} : Kept(d, stage)
                                    /\ (stage = "done" <=> g.closed = "none")
                                    /\ (status = "completed" /\ ~c.windows =>
                                          stage = "leaving" /\ e.kills["cleanup"] = "waiting")
  BY <1>13
<1> USE DEF Right, Kept
<1>15. HasExit(e) <=> HasExit(g)
  BY <1>13 DEF HasExit, IsClosed
<1>16. Promised(e, d.windows)
  BY <1>13, <1>14, <1>15 DEF KimiOpen, Promised
<1>17. KimiWorks(d, e)
  BY <1>13, <1>14 DEF KimiOpen, KimiWorks, KimiBefore, KimiOver, RequestNames, Requests
<1>18. KimiStands(d, e)
  BY <1>3, <1>9, <1>13, <1>14, <1>15 DEF KimiOpen, KimiStands
<1>19. d.stage = "done" => KimiConcluded(d, e)
  BY <1>9, <1>13, <1>14 DEF KimiOpen, KimiConcluded, Promised
<1>20. KimiSound(d, e) /\ InFinally(d.stage) /\ d.reason = c.reason
  BY <1>14, <1>16, <1>17, <1>18, <1>19 DEF KimiSound, InFinally
<1>21. w.run = d /\ w.agent = e
  BY <1>7 DEF World
<1> QED BY <1>20, <1>21 DEF w

LEMMA RequestsAre ==
  /\ RequestNames = {"initialize", "open_session", "set_config", "prompt"}
  /\ \A request \in RequestNames \ {"prompt"} : NextRequest(request) \in RequestNames \ {"initialize"}
<1>1. /\ Len(Requests) = 4 /\ DOMAIN Requests = 1..4
      /\ Requests[1] = "initialize" /\ Requests[2] = "open_session"
      /\ Requests[3] = "set_config" /\ Requests[4] = "prompt"
  BY DEF Requests
<1> DEFINE names == {"initialize", "open_session", "set_config", "prompt"}
<1>2. \A i \in 1..4 : Requests[i] \in names
  <2>1. \A i \in 1..4 : i = 1 \/ i = 2 \/ i = 3 \/ i = 4
    OBVIOUS
  <2> QED BY <1>1, <2>1
<1>3. RequestNames = names
  <2>1. RequestNames = {Requests[i] : i \in 1..4}
    BY <1>1 DEF RequestNames
  <2>2. 1 \in 1..4 /\ 2 \in 1..4 /\ 3 \in 1..4 /\ 4 \in 1..4
    OBVIOUS
  <2>3. names \subseteq RequestNames
    BY <1>1, <2>1, <2>2
  <2> QED BY <1>2, <2>1, <2>3
<1>4. ASSUME NEW request \in RequestNames \ {"prompt"}
      PROVE  NextRequest(request) \in RequestNames \ {"initialize"}
  <2>1. \E i \in 1..3 : Requests[i] = request
    BY <1>1, <1>3
  <2> DEFINE j == CHOOSE i \in 1..3 : Requests[i] = request
  <2>2. j \in 1..3
    BY <2>1
  <2>3. NextRequest(request) = Requests[1 + j]
    BY <1>1 DEF NextRequest
  <2> HIDE DEF j
  <2>4. j = 1 \/ j = 2 \/ j = 3
    BY <2>2
  <2>5. NextRequest(request) \in {"open_session", "set_config", "prompt"}
    BY <1>1, <2>3, <2>4
  <2> QED BY <1>3, <2>5
<1> QED BY <1>3, <1>4

LEMMA AskIs ==
  ASSUME NEW c, NEW g, KimiOpen(c, g), c.status = "failed", g.closed # "none",
         NEW request \in RequestNames, request # "initialize" => g.made
  PROVE  LET d == Ask(c, request) IN
         KimiSound(d, g) /\ d.stage = request /\ d.reason = c.reason
<1> DEFINE submitted == c.submitted \/ request = "prompt"
           connection == IF c.connection = "none" THEN "open" ELSE c.connection
           reply == IF c.connection = "closed" THEN "rejected" ELSE "none"
           d == Ask(c, request)
<1>1. c \in KimiRun
  BY DEF KimiOpen
<1>2. /\ submitted \in BOOLEAN /\ connection \in {"open", "closed"} /\ reply \in {"none", "rejected"}
      /\ request \in KimiStages
      /\ submitted => g.made
      /\ request = "prompt" => submitted
  BY <1>1, RequestsAre DEF KimiOpen, KimiRun, KimiStages
<1>3. d = [c EXCEPT !.stage = request, !.submitted = submitted, !.connection = connection, !.reply = reply]
  BY DEF Ask
<1> HIDE DEF submitted, connection, reply, d
<1>4. /\ d \in KimiRun /\ d.stage = request /\ d.submitted = submitted /\ d.connection = connection
      /\ d.reply = reply /\ d.windows = c.windows /\ d.drained = c.drained /\ d.status = c.status
      /\ d.reason = c.reason
  BY <1>1, <1>2, <1>3, Zenon DEF KimiRun
<1>5. request \notin KimiBefore \cup KimiOver \cup {"unplugging"}
  BY RequestsAre DEF KimiBefore, KimiOver
<1>6. KimiWorks(d, g)
  BY <1>2, <1>4, <1>5 DEF KimiOpen, KimiWorks, KimiBefore
<1>7. KimiStands(d, g)
  BY <1>4, <1>5 DEF KimiOpen, KimiStands, Agrees
<1>8. KimiSound(d, g)
  BY <1>4, <1>5, <1>6, <1>7 DEF KimiOpen, KimiSound, KimiOver
<1> QED BY <1>4, <1>8 DEF d

-----------------------------------------------------------------------------
(* Kimi: the steps *)

LEMMA KimiOpenHere ==
  ASSUME KimiInv, run.stage \notin KimiOver
  PROVE  /\ KimiOpen(run, agent) /\ run \in KimiRun /\ agent \in Agent /\ run.status = "failed"
         /\ run.stage \notin KimiBefore => agent.closed # "none"
<1>1. run \in KimiRun /\ Promised(agent, run.windows) /\ KimiWorks(run, agent) /\ KimiStands(run, agent)
  BY DEF KimiInv, KimiSound
<1>2. agent.kills["cleanup"] = "idle" /\ run.status = "failed"
      /\ (agent.asked # NoReason => run.reason # NoReason)
  BY <1>1 DEF KimiWorks
<1>3. run.stage \notin KimiBefore => agent.closed # "none"
  BY <1>1 DEF KimiWorks, KimiOver
<1> QED BY <1>1, <1>2, <1>3 DEF KimiOpen, KimiWorks, KimiStands, Promised

(* A run falls silent exactly when it goes to its end. *)
LEMMA KimiGoesOn ==
  ASSUME KimiSound(run', agent'), NEW h, Attended(h, run'.reason, TRUE, FALSE),
         host' = IF InFinally(run'.stage) THEN Deafened(h) ELSE h,
         run'.stage # "begin", run'.stage # "unplugging"
  PROVE  KimiInv'
<1>1. CASE InFinally(run'.stage)
  <2>1. Attended(host', run'.reason, TRUE, TRUE)
    BY <1>1, Signals, Zenon
  <2>2. run'.stage \in KimiOver
    BY <1>1 DEF InFinally, KimiOver
  <2> QED BY <2>1, <2>2 DEF KimiInv, Attended
<1>2. CASE ~InFinally(run'.stage)
  <2>1. host' = h /\ run'.stage \notin KimiOver
    BY <1>2 DEF InFinally, KimiOver
  <2> QED BY <2>1 DEF KimiInv, Attended
<1> QED BY <1>1, <1>2

LEMMA KimiAttended ==
  ASSUME KimiInv, run.stage \notin KimiOver, run.stage # "begin"
  PROVE  Attended(host, run.reason, TRUE, FALSE)
  BY DEF KimiInv, Attended

(* The end of the try block, of the catch block and of the first half of    *)
(* finally.                                                                 *)
LEMMA KimiLeaves ==
  ASSUME KimiInv, run.stage \notin KimiOver, run.stage # "begin",
         NEW g, KimiOpen(run, g), NEW outcome \in {"failed", "completed"},
         outcome = "completed" /\ run.reason = NoReason => run.submitted,
         Becomes(Finally(World(run, g), outcome)), FallsSilent
  PROVE  KimiInv'
<1>1. KimiSound(run', agent') /\ InFinally(run'.stage) /\ run'.reason = run.reason
  BY FinallyIs DEF Becomes
<1>2. run'.stage # "begin" /\ run'.stage # "unplugging"
  BY <1>1 DEF InFinally
<1> QED BY <1>1, <1>2, KimiAttended, KimiGoesOn, Zenon DEF FallsSilent

LEMMA KimiAsks ==
  ASSUME KimiInv, run.stage \notin KimiOver, run.stage \notin KimiBefore,
         NEW request \in RequestNames, request # "initialize" => agent.made,
         Becomes(World(Ask(run, request), agent)), FallsSilent
  PROVE  KimiInv'
<1>1. KimiSound(Ask(run, request), agent) /\ Ask(run, request).stage = request
      /\ Ask(run, request).reason = run.reason
  BY KimiOpenHere, AskIs
<1>2. run' = Ask(run, request) /\ agent' = agent
  BY DEF Becomes, World
<1>3. run.stage # "begin" /\ run'.stage # "begin" /\ run'.stage # "unplugging"
  BY <1>1, <1>2, RequestsAre DEF KimiBefore
<1> QED BY <1>1, <1>2, <1>3, KimiAttended, KimiGoesOn, Zenon DEF FallsSilent

LEMMA HandshakeStep ==
  ASSUME KimiInv, ResumeHandshake
  PROVE  KimiInv'
<1>1. run.stage = "handshake" /\ run.stage \notin KimiOver /\ run.stage \notin KimiBefore /\ FallsSilent
  BY DEF ResumeHandshake, KimiOver, KimiBefore
<1>2. CASE agent.ready = "resolved" /\ run.reason = NoReason
  <2>1. Becomes(World(Ask(run, "initialize"), agent)) /\ "initialize" \in RequestNames
    BY <1>2, RequestsAre DEF ResumeHandshake
  <2> QED BY <1>1, <2>1, KimiAsks
<1>3. CASE ~(agent.ready = "resolved" /\ run.reason = NoReason)
  <2>1. Becomes(Finally(World(run, agent), "failed"))
    BY <1>3 DEF ResumeHandshake, KimiFail, Here
  <2> QED BY <1>1, <2>1, KimiOpenHere, KimiLeaves
<1> QED BY <1>2, <1>3

LEMMA RequestStep ==
  ASSUME KimiInv, ResumeRequest
  PROVE  KimiInv'
<1>1. /\ run.stage \in RequestNames /\ FallsSilent
      /\ run.stage \notin KimiOver /\ run.stage \notin KimiBefore /\ run.stage # "begin"
  BY RequestsAre DEF ResumeRequest, KimiOver, KimiBefore
<1>2. KimiOpen(run, agent)
  BY <1>1, KimiOpenHere
<1>3. CASE run.reply # "ok"
  <2>1. Becomes(Finally(World(run, agent), "failed"))
    BY <1>3 DEF ResumeRequest, KimiFail, Here
  <2> QED BY <1>1, <1>2, <2>1, KimiLeaves
<1>4. CASE run.reply = "ok" /\ run.stage = "prompt"
  <2>1. Becomes(Finally(World(run, agent), "completed"))
    BY <1>4 DEF ResumeRequest, Here
  <2>2. run.submitted
    BY <1>4 DEF KimiInv, KimiSound, KimiWorks
  <2> QED BY <1>1, <1>2, <2>1, <2>2, KimiLeaves
<1>5. CASE run.reply = "ok" /\ run.stage # "prompt" /\ run.stage = "set_config" /\ run.reason # NoReason
  <2>1. Becomes(Finally(World(run, agent), "completed"))
    BY <1>5 DEF ResumeRequest, Here
  <2> QED BY <1>1, <1>2, <1>5, <2>1, KimiLeaves
<1>6. CASE run.reply = "ok" /\ run.stage # "prompt" /\ ~(run.stage = "set_config" /\ run.reason # NoReason)
  <2> DEFINE next == NextRequest(run.stage)
  <2>1. Becomes(World(Ask(run, next), agent))
    BY <1>6 DEF ResumeRequest
  <2>2. next \in RequestNames
    BY <1>1, <1>6, RequestsAre
  <2>3. agent.made
    BY <1>2, <1>6 DEF KimiOpen
  <2> HIDE DEF next
  <2> QED BY <1>1, <2>1, <2>2, <2>3, KimiAsks
<1> QED BY <1>3, <1>4, <1>5, <1>6

(* The stages behind Finally change the stage, the status and what is known *)
(* of the exit only, and nobody listens any more.                           *)
LEMMA KimiEnds ==
  ASSUME KimiInv, run.stage \in KimiOver, UNCHANGED <<agent, host>>,
         NEW stage \in {"reaping", "unplugging", "done"}, NEW status \in Statuses, NEW drained \in BOOLEAN,
         run' = [[run EXCEPT !.stage = stage, !.status = status] EXCEPT !.drained = drained],
         status \in {run.status, "failed"},
         agent.closed # "none" \/ stage = "done",
         stage = "unplugging" => run.windows /\ HasExit(agent),
         drained => run.drained \/ (run.windows /\ HasExit(agent)),
         status = "completed" /\ ~run.windows => agent.kills["cleanup"] = "done",
         stage = "done" /\ status = "completed" =>
           IsClosed(agent) /\ (run.windows => agent.closed = "root_exit" /\ agent.clean
                                              /\ run.connection = "closed"),
         stage = "done" /\ status # "failed" /\ run.windows /\ agent.made => HasExit(agent)
  PROVE  KimiInv'
<1>1. /\ run \in KimiRun /\ Promised(agent, run.windows) /\ KimiWorks(run, agent)
      /\ KimiStands(run, agent)
  BY DEF KimiInv, KimiSound
<1> DEFINE b == [run EXCEPT !.stage = stage, !.status = status]
<1>2. /\ b \in KimiRun /\ b.stage = stage /\ b.windows = run.windows /\ b.connection = run.connection
      /\ b.reply = run.reply /\ b.submitted = run.submitted /\ b.status = status
      /\ b.reason = run.reason
  BY <1>1, Zenon DEF KimiRun, KimiStages
<1> HIDE DEF b
<1>3. /\ run' \in KimiRun /\ run'.stage = stage /\ run'.windows = run.windows
      /\ run'.connection = run.connection /\ run'.reply = run.reply /\ run'.submitted = run.submitted
      /\ run'.status = status /\ run'.reason = run.reason /\ run'.drained = drained
  BY <1>2, Zenon DEF KimiRun, b
<1>4. stage \in KimiOver /\ stage \notin KimiBefore \cup RequestNames /\ stage # "leaving"
  BY RequestsAre DEF KimiOver, KimiBefore
<1>5. KimiWorks(run', agent')
  BY <1>1, <1>3, <1>4 DEF KimiWorks, KimiBefore
<1>6. KimiStands(run', agent')
  BY <1>1, <1>3, <1>4 DEF KimiStands, Agrees
<1>7. stage = "done" => KimiConcluded(run', agent')
  BY <1>3 DEF KimiConcluded
<1>8. Attended(host, run.reason, TRUE, TRUE)
  BY DEF KimiInv, Attended, KimiOver
<1>9. run'.stage # "begin"
  BY <1>3
<1> QED BY <1>1, <1>3, <1>4, <1>5, <1>6, <1>7, <1>8, <1>9 DEF KimiInv, KimiSound, Attended

LEMMA EndingStep ==
  ASSUME KimiInv, ResumeLeaving \/ ResumeReaping \/ CloseTimesOut \/ ResumeUnplugging
  PROVE  KimiInv'
<1>1. /\ run \in KimiRun /\ Promised(agent, run.windows) /\ KimiWorks(run, agent)
      /\ KimiStands(run, agent) /\ run.status \in Statuses /\ "failed" \in Statuses
      /\ run.windows \in BOOLEAN /\ run.drained \in BOOLEAN
  BY DEF KimiInv, KimiSound, KimiRun, Statuses
<1>2. \A stage, status :
        [run EXCEPT !.stage = stage, !.status = status]
          = [[run EXCEPT !.stage = stage, !.status = status] EXCEPT !.drained = run.drained]
  BY <1>1, Zenon DEF KimiRun
<1>3. \A stage : [run EXCEPT !.stage = stage] = [run EXCEPT !.stage = stage, !.status = run.status]
  BY <1>1, Zenon DEF KimiRun
<1>4. CASE ResumeLeaving
  <2> DEFINE failed == IF run.windows THEN agent.term = "rejected" ELSE agent.kills["cleanup"] = "failed"
             stage == IF failed THEN "done" ELSE "reaping"
             status == IF failed /\ (run.windows \/ run.status = "completed") THEN "failed" ELSE run.status
  <2>1. run.stage = "leaving" /\ run.stage \in KimiOver /\ UNCHANGED <<agent, host>>
    BY <1>4 DEF ResumeLeaving, KimiOver
  <2>2. ~run.windows => agent.kills["cleanup"] # "waiting"
    BY <1>1, <1>4, <2>1, RequestsAre DEF ResumeLeaving, Waits
  <2>3. run' = [run EXCEPT !.stage = stage, !.status = status]
    BY <1>1, <1>4 DEF ResumeLeaving
  <2>4. agent.closed # "none"
    BY <1>1, <2>1 DEF KimiWorks, KimiBefore
  <2>5. status = "completed" /\ ~run.windows => agent.kills["cleanup"] = "done"
    BY <1>1, <2>2 DEF KimiStands
  <2>6. stage = "done" => status # "completed"
    BY <1>1
  <2>7. stage = "done" /\ status # "failed" => ~run.windows
    BY <1>1
  <2>8. /\ stage \in {"reaping", "unplugging", "done"} /\ stage # "unplugging"
        /\ status \in {run.status, "failed"} /\ status \in Statuses
    BY <1>1, SMTT(20)
  <2> HIDE DEF failed, stage, status
  <2>9. run' = [[run EXCEPT !.stage = stage, !.status = status] EXCEPT !.drained = run.drained]
    BY <1>2, <2>3, Zenon
  <2>10. run.drained \in BOOLEAN
    BY <1>1
  <2> QED BY <2>1, <2>4, <2>5, <2>6, <2>7, <2>8, <2>9, <2>10, KimiEnds, Zenon
<1>5. CASE ResumeReaping
  <2>1. run.stage = "reaping" /\ run.stage \in KimiOver /\ UNCHANGED <<agent, host>>
    BY <1>5 DEF ResumeReaping, KimiOver
  <2>2. IsClosed(agent)
    BY <1>1, <1>5, <2>1, RequestsAre DEF ResumeReaping, Waits, KimiWorks, KimiBefore, IsClosed
  <2>3. run.status = "completed" /\ ~run.windows => agent.kills["cleanup"] = "done"
    BY <1>1, <2>1 DEF KimiStands
  <2>4. CASE ~run.windows
    <3>1. run' = [[run EXCEPT !.stage = "done", !.status = run.status] EXCEPT !.drained = run.drained]
      BY <1>2, <1>3, <1>5, <2>4, Zenon DEF ResumeReaping
    <3> QED BY <1>1, <2>1, <2>2, <2>3, <2>4, <3>1, KimiEnds, Zenon
  <2>5. CASE run.windows /\ HasExit(agent)
    <3>1. run' = [[run EXCEPT !.stage = "unplugging", !.status = run.status] EXCEPT !.drained = TRUE]
      <4>1. run' = [run EXCEPT !.stage = "unplugging", !.drained = TRUE]
        BY <1>5, <2>5 DEF ResumeReaping
      <4> QED BY <1>3, <4>1, Zenon
    <3>2. agent.closed # "none"
      BY <2>2 DEF IsClosed
    <3> QED BY <1>1, <2>1, <2>3, <2>5, <3>1, <3>2, KimiEnds, Zenon
  <2>6. CASE run.windows /\ ~HasExit(agent)
    <3>1. run' = [[run EXCEPT !.stage = "done", !.status = "failed"] EXCEPT !.drained = run.drained]
      BY <1>2, <1>5, <2>6, Zenon DEF ResumeReaping
    <3> QED BY <1>1, <2>1, <3>1, KimiEnds, Zenon
  <2> QED BY <1>1, <2>4, <2>5, <2>6
<1>6. CASE CloseTimesOut
  <2>1. run.stage = "reaping" /\ run.stage \in KimiOver /\ UNCHANGED <<agent, host>>
    BY <1>6, SMTT(20) DEF CloseTimesOut, KimiOver
  <2>2. run' = [[run EXCEPT !.stage = "done", !.status = "failed"] EXCEPT !.drained = run.drained]
    BY <1>2, <1>6, Zenon DEF CloseTimesOut
  <2> QED BY <1>1, <2>1, <2>2, KimiEnds, Zenon
<1>7. CASE ResumeUnplugging
  <2> DEFINE status == IF run.status = "completed" /\ (agent.closed # "root_exit" \/ ~agent.clean)
                       THEN "failed" ELSE run.status
  <2>1. run.stage = "unplugging" /\ run.stage \in KimiOver /\ UNCHANGED <<agent, host>>
    BY <1>7 DEF ResumeUnplugging, KimiOver
  <2>2. run.windows /\ HasExit(agent) /\ IsClosed(agent)
    BY <1>1, <2>1 DEF KimiStands, HasExit
  <2>3. run.connection # "open"
    BY <1>7, <2>1, RequestsAre DEF ResumeUnplugging, Waits
  <2>4. run.status = "completed" => run.connection = "closed"
    BY <1>1, <2>3, SMTT(20) DEF KimiStands, KimiWorks, KimiRun
  <2>5. run' = [[run EXCEPT !.stage = "done", !.status = status] EXCEPT !.drained = run.drained]
    <3>1. run' = [run EXCEPT !.stage = "done", !.status = status]
      BY <1>7 DEF ResumeUnplugging
    <3> QED BY <1>2, <3>1, Zenon
  <2>6. status \in {run.status, "failed"} /\ status \in Statuses
        /\ (status = "completed" => run.status = "completed" /\ agent.closed = "root_exit" /\ agent.clean)
    BY <1>1, <2>1
  <2> HIDE DEF status
  <2> QED BY <1>1, <2>1, <2>2, <2>4, <2>5, <2>6, KimiEnds, Zenon
<1> QED BY <1>4, <1>5, <1>6, <1>7

LEMMA KimiChild ==
  ASSUME NEW made \in BOOLEAN, NEW gone \in BOOLEAN
  PROVE  LET child == [Started(FALSE) EXCEPT !.made = made, !.gone = gone] IN
         /\ child \in Agent /\ child.made = made /\ child.closed = "pending" /\ child.asked = NoReason
         /\ child.kills["cleanup"] = "idle"
<1>1. /\ Started(FALSE) \in Agent /\ Started(FALSE).closed = "pending"
      /\ Started(FALSE).asked = NoReason /\ Started(FALSE).kills["cleanup"] = "idle"
  BY Zenon DEF Started, NoAgent, Agent, Promises, Killers
<1> QED BY <1>1, Zenon DEF Agent

(* A run that has found its agent knows no more of it than before. *)
LEMMA KimiFinds ==
  ASSUME NEW c, KimiOpen(c, NoAgent), NEW g \in Agent, g.closed = "pending", g.asked = NoReason,
         g.kills["cleanup"] = "idle"
  PROVE  KimiOpen(c, g)
<1>1. ~NoAgent.made /\ ~HasExit(NoAgent) /\ ~HasExit(g)
  BY DEF NoAgent, HasExit, IsClosed
<1> QED BY <1>1 DEF KimiOpen, Promised

(* The call itself, once its listeners stand. *)
LEMMA KimiBegins ==
  ASSUME NEW c, KimiOpen(c, NoAgent), c.status = "failed", NEW w,
         \/ w = Finally(World(c, NoAgent), "failed")
         \/ c.reason = NoReason /\ w = World([c EXCEPT !.stage = "helper"], NoAgent)
         \/ ~c.windows /\ w \in ChildStarts(World(c, NoAgent))
  PROVE  /\ KimiSound(w.run, w.agent) /\ w.run.reason = c.reason
         /\ w.run.stage # "begin" /\ w.run.stage # "unplugging"
<1>1. \A g : KimiOpen(c, g) =>
        LET x == Finally(World(c, g), "failed") IN
        /\ KimiSound(x.run, x.agent) /\ x.run.reason = c.reason
        /\ x.run.stage # "begin" /\ x.run.stage # "unplugging"
  <2> TAKE g
  <2> HAVE KimiOpen(c, g)
  <2> DEFINE x == Finally(World(c, g), "failed")
  <2>1. KimiSound(x.run, x.agent) /\ InFinally(x.run.stage) /\ x.run.reason = c.reason
    BY FinallyIs
  <2> HIDE DEF x
  <2>2. x.run.stage # "begin" /\ x.run.stage # "unplugging"
    BY <2>1 DEF InFinally
  <2> QED BY <2>1, <2>2 DEF x
<1>2. CASE c.reason = NoReason /\ w = World([c EXCEPT !.stage = "helper"], NoAgent)
  <2>1. w.run = [c EXCEPT !.stage = "helper"] /\ w.agent = NoAgent
    BY <1>2 DEF World
  <2>2. /\ w.run \in KimiRun /\ w.run.stage = "helper" /\ w.run.windows = c.windows
        /\ w.run.reason = c.reason /\ w.run.connection = c.connection /\ w.run.reply = c.reply
        /\ w.run.submitted = c.submitted /\ w.run.drained = c.drained /\ w.run.status = c.status
    BY <2>1 DEF KimiOpen, KimiRun, KimiStages
  <2>3. "helper" \notin RequestNames /\ "helper" \in KimiBefore /\ "helper" \notin KimiOver
    BY RequestsAre DEF KimiBefore, KimiOver
  <2>4. KimiWorks(w.run, w.agent)
    BY <2>1, <2>2, <2>3 DEF KimiOpen, KimiWorks
  <2>5. KimiStands(w.run, w.agent)
    BY <2>1, <2>2 DEF KimiOpen, KimiStands, Agrees
  <2> QED BY <2>1, <2>2, <2>4, <2>5 DEF KimiOpen, KimiSound
<1>3. CASE ~c.windows /\ w \in ChildStarts(World(c, NoAgent))
  <2>1. CASE w = Finally(World(c, NoAgent), "failed")
    BY <1>1, <2>1
  <2>2. CASE w # Finally(World(c, NoAgent), "failed")
    <3>1. PICK exists \in BOOLEAN :
            LET child == [Started(FALSE) EXCEPT !.made = exists, !.gone = ~exists] IN
            w = IF c.reason = NoReason THEN World(Ask(c, "initialize"), child)
                ELSE Finally(World(c, child), "failed")
      BY <1>3, <2>2, Zenon DEF ChildStarts, World
    <3>2. PICK gone \in BOOLEAN : gone = ~exists
      BY Zenon
    <3>3. PICK g : /\ g = [Started(FALSE) EXCEPT !.made = exists, !.gone = gone]
                   /\ w = IF c.reason = NoReason THEN World(Ask(c, "initialize"), g)
                          ELSE Finally(World(c, g), "failed")
      BY <3>1, <3>2
    <3>4. g \in Agent /\ g.closed = "pending" /\ g.asked = NoReason /\ g.kills["cleanup"] = "idle"
      BY <3>3, KimiChild, Zenon
    <3>5. KimiOpen(c, g)
      BY <3>4, KimiFinds
    <3>6. CASE c.reason # NoReason
      BY <1>1, <3>3, <3>5, <3>6
    <3>7. CASE c.reason = NoReason
      <4>1. "initialize" \in RequestNames
        BY RequestsAre
      <4>2. KimiSound(Ask(c, "initialize"), g) /\ Ask(c, "initialize").stage = "initialize"
            /\ Ask(c, "initialize").reason = c.reason
        BY <3>4, <3>5, <4>1, AskIs
      <4>3. w.run = Ask(c, "initialize") /\ w.agent = g
        BY <3>3, <3>7 DEF World
      <4> QED BY <4>2, <4>3
    <3> QED BY <3>6, <3>7
  <2> QED BY <2>1, <2>2
<1> QED BY <1>1, <1>2, <1>3

LEMMA KimiBeginStep ==
  ASSUME KimiInv, KimiBegin
  PROVE  KimiInv'
<1>1. run.stage = "begin" /\ run.stage \notin KimiOver /\ run.stage \in KimiBefore
  BY DEF KimiBegin, KimiOver, KimiBefore
<1>2. /\ KimiOpen(run, agent) /\ run \in KimiRun /\ agent = NoAgent /\ run.reason = NoReason
      /\ run.status = "failed" /\ NoAgent \in Agent /\ host \in Host
  BY <1>1, KimiOpenHere DEF KimiInv, KimiSound, KimiWorks, Attended
<1> DEFINE word == Aborted
           b == IF word = NoReason THEN Here ELSE KimiCancel(Here, word)
<1>3. word \in Reasons \cup {NoReason} /\ word # "timed_out"
  BY AbortedIs
<1>4. PICK w : /\ Becomes(w)
               /\ w \in CASE ~run.windows -> ChildStarts(b)
                          [] run.windows /\ b.run.reason = NoReason ->
                               {World([b.run EXCEPT !.stage = "helper"], b.agent)}
                          [] OTHER -> {Finally(b, "failed")}
  BY DEF KimiBegin
<1> HIDE DEF word
<1>5. /\ b = World(b.run, NoAgent) /\ KimiOpen(b.run, NoAgent) /\ b.run.status = "failed"
      /\ b.run.windows = run.windows /\ b.run.reason # "timed_out"
  <2>1. CASE word = NoReason
    <3>1. b.run = run /\ b.agent = agent
      BY <2>1 DEF Here, World
    <3> QED BY <1>2, <2>1, <3>1 DEF Here, NoReason
  <2>2. CASE word # NoReason
    <3> DEFINE x == KimiCancel(World(run, NoAgent), word)
    <3>1. ~NoAgent.made /\ ~HasExit(NoAgent) /\ NoAgent.asked = NoReason /\ NoAgent.closed = "none"
          /\ NoAgent.kills["cleanup"] = "idle"
      BY DEF NoAgent, HasExit, IsClosed, Killers
    <3>2. /\ KimiMoves(run, NoAgent, x.run, x.agent) /\ x.agent = NoAgent
          /\ x.run.reason = (IF run.reason = NoReason THEN word ELSE run.reason)
          /\ x = World(x.run, x.agent)
      BY <1>2, <1>3, <2>2, <3>1, KimiCancelIs
    <3>3. b = x
      BY <1>2, <2>2 DEF Here
    <3> HIDE DEF x, b
    <3>4. KimiOpen(x.run, NoAgent)
      BY <1>2, <3>1, <3>2 DEF KimiMoves, KimiOpen, Promised
    <3> QED BY <1>2, <1>3, <3>2, <3>3, <3>4 DEF KimiMoves
  <2> QED BY <2>1, <2>2
<1> HIDE DEF b
<1>6. \/ w = Finally(World(b.run, NoAgent), "failed")
      \/ b.run.reason = NoReason /\ w = World([b.run EXCEPT !.stage = "helper"], NoAgent)
      \/ ~b.run.windows /\ w \in ChildStarts(World(b.run, NoAgent))
  <2>1. b.agent = NoAgent
    BY <1>5 DEF World
  <2>2. run.windows \in BOOLEAN
    BY <1>2 DEF KimiRun
  <2>3. CASE ~run.windows
    BY <1>4, <1>5, <2>3
  <2>4. CASE run.windows /\ b.run.reason = NoReason
    BY <1>4, <1>5, <2>1, <2>4
  <2>5. CASE run.windows /\ b.run.reason # NoReason
    BY <1>4, <1>5, <2>5
  <2> QED BY <2>2, <2>3, <2>4, <2>5
<1>7. /\ KimiSound(w.run, w.agent) /\ w.run.reason = b.run.reason
      /\ w.run.stage # "begin" /\ w.run.stage # "unplugging"
  BY <1>5, <1>6, KimiBegins
<1>8. KimiSound(run', agent') /\ run'.reason # "timed_out" /\ run'.stage # "begin"
      /\ run'.stage # "unplugging"
  BY <1>4, <1>5, <1>7 DEF Becomes
<1>9. PICK timeout \in Timeouts :
        LET h == [host EXCEPT !.listening = TRUE, !.deadline = Arm(timeout)] IN
        host' = IF InFinally(run'.stage) THEN Deafened(h) ELSE h
  BY Zenon DEF KimiBegin
<1> DEFINE h == [host EXCEPT !.listening = TRUE, !.deadline = Arm(timeout)]
<1>10. Attended(h, run'.reason, TRUE, FALSE)
  BY <1>2, <1>8, Listens, Zenon
<1>11. host' = IF InFinally(run'.stage) THEN Deafened(h) ELSE h
  BY <1>9
<1> HIDE DEF h
<1> QED BY <1>8, <1>10, <1>11, KimiGoesOn, Zenon

LEMMA HelperStep ==
  ASSUME KimiInv, HelperStarts \/ HelperFails
  PROVE  KimiInv'
<1>1. run.stage = "helper" /\ run.stage \notin KimiOver /\ run.stage # "begin" /\ FallsSilent
  BY Zenon DEF HelperStarts, HelperFails, KimiOver
<1>2. /\ KimiOpen(run, agent) /\ run \in KimiRun /\ agent = NoAgent /\ run.status = "failed"
  BY <1>1, KimiOpenHere DEF KimiInv, KimiSound, KimiWorks, KimiBefore
<1> DEFINE g == Started(TRUE)
<1>3. g \in Agent /\ g.closed = "pending" /\ g.made /\ g.asked = NoReason /\ g.kills["cleanup"] = "idle"
  BY NewAgent, Zenon
<1>4. KimiOpen(run, g)
  BY <1>2, <1>3, KimiFinds, Zenon
<1>5. CASE HelperFails
  <2>1. Becomes(Finally(World(run, agent), "failed"))
    BY <1>5 DEF HelperFails, KimiFail, Here
  <2> QED BY <1>1, <1>2, <2>1, KimiLeaves
<1>6. CASE HelperStarts /\ run.reason # NoReason
  <2>1. Becomes(Finally(World(run, g), "failed"))
    BY <1>6, Zenon DEF HelperStarts
  <2> HIDE DEF g
  <2> QED BY <1>1, <1>4, <2>1, KimiLeaves
<1>7. CASE HelperStarts /\ run.reason = NoReason
  <2>1. run' = [run EXCEPT !.stage = "handshake"] /\ agent' = g
    BY <1>7 DEF HelperStarts, Becomes, World
  <2> HIDE DEF g
  <2>2. /\ run' \in KimiRun /\ run'.stage = "handshake" /\ run'.windows = run.windows
        /\ run'.reason = run.reason /\ run'.connection = run.connection /\ run'.reply = run.reply
        /\ run'.submitted = run.submitted /\ run'.drained = run.drained /\ run'.status = run.status
    BY <1>2, <2>1 DEF KimiRun, KimiStages
  <2>3. "handshake" \notin RequestNames /\ "handshake" \notin KimiBefore /\ "handshake" \notin KimiOver
    BY RequestsAre DEF KimiBefore, KimiOver
  <2>4. KimiWorks(run', agent')
    BY <1>2, <1>3, <1>4, <2>1, <2>2, <2>3 DEF KimiOpen, KimiWorks
  <2>5. KimiStands(run', agent')
    BY <1>2, <1>4, <2>1, <2>2 DEF KimiOpen, KimiStands, Agrees
  <2>6. KimiSound(run', agent')
    BY <1>4, <2>1, <2>2, <2>4, <2>5 DEF KimiOpen, KimiSound
  <2> QED BY <1>1, <2>2, <2>6, KimiAttended, KimiGoesOn, Zenon DEF FallsSilent
<1> QED BY <1>5, <1>6, <1>7

(* A cancellation of a run that is not over. *)
LEMMA KimiSignalled ==
  ASSUME KimiInv, run.stage \notin KimiOver, run.stage # "begin", NEW reason \in Reasons,
         Becomes(KimiCancel(Here, reason)),
         Attended(host', IF run.reason = NoReason THEN reason ELSE run.reason, TRUE, FALSE)
  PROVE  KimiInv'
<1>1. run \in KimiRun /\ agent \in Agent /\ KimiSound(run, agent)
  BY KimiOpenHere DEF KimiInv
<1>2. /\ KimiMoves(run, agent, run', agent') /\ (~agent.made => agent' = agent)
      /\ run'.reason = (IF run.reason = NoReason THEN reason ELSE run.reason)
  BY <1>1, KimiCancelIs DEF Becomes, Here
<1>3. run.stage \in KimiBefore => agent' = agent
  BY <1>1, <1>2, NewAgent DEF KimiSound, KimiWorks
<1>4. KimiSound(run', agent')
  BY <1>1, <1>2, <1>3, KimiKeeps
<1>5. run'.stage = run.stage
  BY <1>2 DEF KimiMoves
<1> QED BY <1>2, <1>4, <1>5 DEF KimiInv, Attended

(* A signal that nobody listens to is only remembered. *)
LEMMA KimiUnheard ==
  ASSUME KimiInv, UNCHANGED <<run, agent>>,
         \A begun, over \in BOOLEAN :
           Attended(host, run.reason, begun, over) => Attended(host', run.reason, begun, over)
  PROVE  KimiInv'
<1> DEFINE begun == run.stage # "begin"
           over == run.stage \in KimiOver
<1>1. begun \in BOOLEAN /\ over \in BOOLEAN /\ Attended(host, run.reason, begun, over)
  BY DEF KimiInv
<1>2. Attended(host', run.reason, begun, over)
  BY <1>1, Zenon
<1> QED BY <1>2 DEF KimiInv

LEMMA KimiAbortStep ==
  ASSUME KimiInv, KimiCallerAborts \/ KimiSessionAborts
  PROVE  KimiInv'
<1>1. PICK reason \in {"cancelled", "session_shutdown"} :
        /\ host' = [host EXCEPT !.caller = TRUE] \/ host' = [host EXCEPT !.shutdown = TRUE]
        /\ Becomes(IF host.listening THEN KimiCancel(Here, reason) ELSE Here)
  BY DEF KimiCallerAborts, KimiSessionAborts, KimiSignal
<1>2. ASSUME NEW begun \in BOOLEAN, NEW over \in BOOLEAN, NEW other, Attended(host, other, begun, over)
      PROVE  Attended(host', other, begun, over)
  BY <1>1, <1>2, Signals, Zenon
<1>3. CASE host.listening
  <2>1. reason \in Reasons /\ reason # "timed_out"
    BY DEF Reasons
  <2>2. Attended(host, run.reason, TRUE, FALSE) /\ run.stage \notin KimiOver /\ run.stage # "begin"
    BY <1>3 DEF KimiInv, Attended
  <2>3. Attended(host, IF run.reason = NoReason THEN reason ELSE run.reason, TRUE, FALSE)
    BY <2>1, <2>2 DEF Attended
  <2>4. Attended(host', IF run.reason = NoReason THEN reason ELSE run.reason, TRUE, FALSE)
    BY <1>2, <2>3, Zenon
  <2>5. Becomes(KimiCancel(Here, reason))
    BY <1>1, <1>3
  <2> QED BY <2>1, <2>2, <2>4, <2>5, KimiSignalled, Zenon
<1>4. CASE ~host.listening
  <2>1. UNCHANGED <<run, agent>>
    BY <1>1, <1>4 DEF Becomes, Here, World
  <2> QED BY <1>2, <2>1, KimiUnheard
<1> QED BY <1>3, <1>4

LEMMA KimiTimerStep ==
  ASSUME KimiInv, KimiTimerFires
  PROVE  KimiInv'
<1>1. PICK elapsed \in Elapses(host.deadline) :
        LET d == TimerRuns(host.deadline, elapsed) IN
        /\ host' = [host EXCEPT !.deadline = d]
        /\ Becomes(IF Expired(d) THEN KimiCancel(Here, "timed_out") ELSE Here)
  BY DEF KimiTimerFires, KimiSignal
<1> DEFINE d == TimerRuns(host.deadline, elapsed)
<1>2. host.deadline.timer = "armed" /\ run.stage # "begin" /\ run.stage \notin KimiOver
  BY NoneIsClocked DEF KimiTimerFires, KimiInv, Attended
<1>3. Attended(host, run.reason, TRUE, FALSE)
  BY <1>2 DEF KimiInv, Attended
<1>4. ASSUME NEW other, other = "timed_out" => run.reason = other \/ Expired(d)
      PROVE  Attended(host', other, TRUE, FALSE)
  BY <1>1, <1>2, <1>3, <1>4, TimerSignals, Zenon
<1>5. CASE Expired(d)
  <2>1. Becomes(KimiCancel(Here, "timed_out")) /\ "timed_out" \in Reasons
    BY <1>1, <1>5 DEF Reasons
  <2>2. Attended(host', IF run.reason = NoReason THEN "timed_out" ELSE run.reason, TRUE, FALSE)
    BY <1>4, <1>5, Zenon
  <2> HIDE DEF d
  <2> QED BY <1>2, <2>1, <2>2, KimiSignalled, Zenon
<1>6. CASE ~Expired(d)
  <2>1. UNCHANGED <<run, agent>>
    BY <1>1, <1>6 DEF Here, Becomes, World
  <2>2. Attended(host', run.reason, TRUE, FALSE)
    BY <1>4, Zenon
  <2> HIDE DEF d
  <2> QED BY <1>2, <2>1, <2>2 DEF KimiInv, Attended
<1> QED BY <1>5, <1>6

(* The agent and the system act: the host stays as it is. *)
LEMMA KimiSystemStep ==
  ASSUME KimiInv, SystemActs
  PROVE  KimiInv'
<1>1. run \in KimiRun /\ agent \in Agent /\ KimiSound(run, agent)
  BY DEF KimiInv, KimiSound, Promised
<1>2. /\ Carried(agent, agent') /\ agent'.asked = agent.asked /\ UNCHANGED <<run, host>>
      /\ agent # NoAgent
  BY <1>1, SystemCarries
<1>3. run.stage \notin KimiBefore
  BY <1>1, <1>2 DEF KimiSound, KimiWorks
<1>4. run.stage # "begin"
  BY <1>3 DEF KimiBefore
<1>5. KimiMoves(run, agent, run', agent')
  BY <1>1, <1>2 DEF KimiMoves
<1>6. KimiSound(run', agent')
  BY <1>1, <1>2, <1>3, <1>4, <1>5, KimiKeeps
<1> QED BY <1>2, <1>6 DEF KimiInv

LEMMA AnswersStep ==
  ASSUME KimiInv, Answers
  PROVE  KimiInv'
<1>1. PICK reply \in {"ok", "refused"} : run' = [run EXCEPT !.reply = reply]
  BY DEF Answers
<1>2. agent.made /\ UNCHANGED <<agent, host>> /\ run \in KimiRun
  BY DEF Answers, KimiInv, KimiSound
<1>3. /\ run' \in KimiRun /\ run'.stage = run.stage /\ run'.windows = run.windows
      /\ run'.reason = run.reason /\ run'.connection = run.connection
      /\ run'.submitted = run.submitted /\ run'.drained = run.drained /\ run'.status = run.status
  BY <1>1, <1>2 DEF KimiRun
<1>4. KimiWorks(run', agent') /\ KimiStands(run', agent')
  BY <1>2, <1>3 DEF KimiInv, KimiSound, KimiWorks, KimiStands
<1>5. run'.stage = "done" => KimiConcluded(run', agent')
  BY <1>2, <1>3 DEF KimiInv, KimiSound, KimiConcluded
<1> QED BY <1>2, <1>3, <1>4, <1>5 DEF KimiInv, KimiSound

LEMMA DisconnectsStep ==
  ASSUME KimiInv, ConnectionCloses
  PROVE  KimiInv'
<1> DEFINE reply == IF run.reply = "none" THEN "rejected" ELSE run.reply
<1>1. run' = [run EXCEPT !.connection = "closed", !.reply = reply]
  BY DEF ConnectionCloses
<1>2. run.connection = "open" /\ UNCHANGED <<agent, host>> /\ run \in KimiRun
  BY DEF ConnectionCloses, KimiInv, KimiSound
<1>3. reply \in {"none", "ok", "refused", "rejected"} /\ (reply = "ok" => run.reply = "ok")
  BY <1>2 DEF KimiRun
<1> HIDE DEF reply
<1>4. /\ run' \in KimiRun /\ run'.stage = run.stage /\ run'.windows = run.windows
      /\ run'.reason = run.reason /\ run'.connection = "closed" /\ run'.reply = reply
      /\ run'.submitted = run.submitted /\ run'.drained = run.drained /\ run'.status = run.status
  BY <1>1, <1>2, <1>3, Zenon DEF KimiRun
<1>5. KimiWorks(run', agent') /\ KimiStands(run', agent')
  BY <1>2, <1>3, <1>4 DEF KimiInv, KimiSound, KimiWorks, KimiStands
<1>6. run'.stage = "done" => KimiConcluded(run', agent')
  BY <1>2, <1>4 DEF KimiInv, KimiSound, KimiConcluded
<1> QED BY <1>2, <1>4, <1>5, <1>6 DEF KimiInv, KimiSound

(* What closed settles with: nothing is known of the exit before. *)
LEMMA KimiClosesStep ==
  ASSUME KimiInv, ChildCloses
  PROVE  KimiInv'
<1>1. agent.closed = "pending" /\ UNCHANGED <<run, host>>
  BY DEF ChildCloses
<1>2. /\ run \in KimiRun /\ agent \in Agent /\ run.windows \in BOOLEAN
      /\ Promised(agent, run.windows) /\ KimiWorks(run, agent) /\ KimiStands(run, agent)
      /\ run.stage = "done" => KimiConcluded(run, agent)
  BY DEF KimiInv, KimiSound, KimiRun, Promised
<1>3. PICK end \in IF run.windows THEN Endings(TRUE) ELSE {"resolved"}, clean \in BOOLEAN :
        agent' = [agent EXCEPT !.closed = end, !.clean = clean,
                               !.ready = IF @ = "pending" THEN "rejected" ELSE @]
  BY Zenon DEF ChildCloses
<1>4. /\ run.windows => /\ end \in Reasons \cup {"root_exit", "rejected"}
                        /\ end # "rejected" => agent.gone /\ end \in {"root_exit", agent.asked} \ {NoReason}
      /\ ~run.windows => end = "resolved"
  BY <1>2, <1>3, AgentFields DEF Endings, NoReason, Reasons
<1>5. /\ agent' \in Agent /\ agent'.made = agent.made /\ agent'.closed = end
      /\ agent'.asked = agent.asked /\ agent'.kills = agent.kills /\ agent'.gone = agent.gone
  <2>1. PICK ready \in Promises : ready = IF agent.ready = "pending" THEN "rejected" ELSE agent.ready
    BY <1>2, AgentFields DEF Promises
  <2>2. agent' = [agent EXCEPT !.closed = end, !.clean = clean, !.ready = ready]
    BY <1>3, <2>1
  <2>3. end \in Promises \cup Reasons \cup {"root_exit"}
    BY <1>2, <1>4 DEF Promises
  <2> QED BY <1>2, <2>2, <2>3, Zenon DEF Agent
<1>6. end \notin {"none", "pending"} /\ (end = "resolved" => ~run.windows)
  BY <1>2, <1>4 DEF Reasons
<1>7. Promised(agent', run.windows)
  BY <1>2, <1>4, <1>5, <1>6 DEF Promised, HasExit
<1>8. ~HasExit(agent) /\ ~IsClosed(agent)
  BY <1>1 DEF HasExit, IsClosed
<1>9. run.stage \notin KimiBefore
  BY <1>1, <1>2, NewAgent DEF KimiWorks
<1>10. KimiWorks(run, agent')
  BY <1>2, <1>5, <1>6, <1>9 DEF KimiWorks
<1>11. KimiStands(run, agent')
  BY <1>2, <1>5, <1>8 DEF KimiStands
<1>12. run.stage = "done" => KimiConcluded(run, agent')
  BY <1>2, <1>5, <1>8 DEF KimiConcluded
<1> QED BY <1>1, <1>2, <1>7, <1>10, <1>11, <1>12 DEF KimiInv, KimiSound

LEMMA KimiSteps ==
  ASSUME KimiInv, KimiNext
  PROVE  KimiInv'
<1>1. ASSUME KimiFinished PROVE KimiInv'
  BY <1>1 DEF KimiFinished, vars, KimiInv
<1>2. ASSUME Vanish \/ TerminateSettles \/ GraceEnds \/ (\E killer \in Killers : Poll(killer))
             \/ KimiReadySettles
      PROVE  KimiInv'
  BY <1>2, KimiSystemStep DEF SystemActs
<1>3. ASSUME KimiResume PROVE KimiInv'
  BY <1>3, HandshakeStep, RequestStep, EndingStep DEF KimiResume
<1>4. ASSUME KimiEvent PROVE KimiInv'
  BY <1>2, <1>4, HelperStep, KimiAbortStep, KimiTimerStep, AnswersStep, DisconnectsStep,
     KimiClosesStep, EndingStep DEF KimiEvent
<1> QED BY <1>1, <1>3, <1>4, KimiBeginStep DEF KimiNext

-----------------------------------------------------------------------------
(* Both clients *)

LEMMA ClientsBegin ==
  ASSUME ClientsInit
  PROVE  ClientsInv
<1>1. Attended(host, NoReason, FALSE, FALSE)
  BY NoneIsClocked, Zenon DEF ClientsInit, PiInit, KimiInit, HostInit, Attended, Host, Clocked, NoReason
<1>2. CASE PiInit
  <2>1. PICK windows \in BOOLEAN :
          run = [client |-> "pi", stage |-> "start", windows |-> windows, reason |-> NoReason,
                 answer |-> "none", completion |-> "open", internal |-> FALSE,
                 flow |-> "none", ownFlow |-> "none", exit |-> "none",
                 closedError |-> FALSE, reported |-> FALSE, inputEnded |-> FALSE,
                 decoderDone |-> FALSE, who |-> "unseen", assistantError |-> FALSE,
                 invoked |-> FALSE, fallback |-> FALSE, drained |-> FALSE,
                 status |-> "failed", telemetry |-> NoTelemetry]
    BY <1>2, ChunkAssumption, Zenon DEF PiInit
  <2>2. NoTelemetry \in Telemetry
    BY DEF NoTelemetry, Telemetry
  <2>3. run \in Run
    BY <2>1, <2>2 DEF Run, Stages, Identities, Statuses
  <2>4. agent = NoAgent
    BY <1>2 DEF PiInit
  <2>5. PiSound(run, agent)
    BY <2>1, <2>3, <2>4, NewAgent
       DEF PiSound, Promised, PiWorks, PiKnows, PiStands, Agrees, PiBefore, PiOver, NoReason
  <2>6. run.stage \in PiBefore /\ run.stage \notin PiOver /\ run.reason = NoReason /\ run.client = "pi"
    BY <2>1 DEF PiBefore, PiOver
  <2> QED BY <1>1, <2>5, <2>6 DEF ClientsInv, PiInv, Attended
<1>3. CASE KimiInit
  <2>1. PICK windows \in BOOLEAN :
          run = [client |-> "kimi", stage |-> "begin", windows |-> windows, reason |-> NoReason,
                 connection |-> "none", reply |-> "none", submitted |-> FALSE,
                 ended |-> FALSE, drained |-> FALSE, status |-> "failed"]
    BY <1>3, KimiAssumption, Zenon DEF KimiInit
  <2>2. run \in KimiRun
    BY <2>1 DEF KimiRun, KimiStages, Statuses
  <2>3. agent = NoAgent
    BY <1>3 DEF KimiInit
  <2>4. KimiSound(run, agent)
    BY <2>1, <2>2, <2>3, NewAgent, RequestsAre
       DEF KimiSound, Promised, KimiWorks, KimiStands, Agrees, KimiBefore, KimiOver, NoReason
  <2>5. run.stage = "begin" /\ run.stage \notin KimiOver /\ run.reason = NoReason /\ run.client = "kimi"
    BY <2>1 DEF KimiOver
  <2> QED BY <1>1, <2>4, <2>5 DEF ClientsInv, KimiInv, Attended
<1> QED BY <1>2, <1>3 DEF ClientsInit

LEMMA ClientsStep ==
  ASSUME ClientsInv, [ClientsNext]_vars
  PROVE  ClientsInv'
<1>1. CASE UNCHANGED vars
  BY <1>1 DEF vars, ClientsInv, PiInv, KimiInv
<1>2. CASE run.client = "pi" /\ PiNext
  <2>1. PiInv
    BY <1>2 DEF ClientsInv
  <2>2. PiInv'
    BY <1>2, <2>1, PiSteps
  <2>3. run'.client = "pi"
    BY <2>2 DEF PiInv, PiSound, Run
  <2> QED BY <2>2, <2>3 DEF ClientsInv
<1>3. CASE run.client = "kimi" /\ KimiNext
  <2>1. KimiInv
    BY <1>3 DEF ClientsInv
  <2>2. KimiInv'
    BY <1>3, <2>1, KimiSteps
  <2>3. run'.client = "kimi"
    BY <2>2 DEF KimiInv, KimiSound, KimiRun
  <2> QED BY <2>2, <2>3 DEF ClientsInv
<1> QED BY <1>1, <1>2, <1>3 DEF ClientsNext

LEMMA PiIsHonest ==
  ASSUME PiInv
  PROVE  PiStatusAgrees /\ PiDrainIsReal /\ NeverEarly /\ PiTypeOK
<1>1. /\ run \in Run /\ agent \in Agent /\ host \in Host /\ Promised(agent, run.windows)
      /\ PiWorks(run, agent) /\ PiKnows(run, agent) /\ PiStands(run, agent)
      /\ run.stage = "done" => PiConcluded(run, agent)
      /\ run.windows \in BOOLEAN
  BY DEF PiInv, PiSound, Promised, Attended, Run
<1>2. NeverEarly
  BY TimedOutLate DEF PiInv
<1>3. run.exit # "none" => agent.gone
  BY <1>1 DEF PiKnows, Promised
<1>4. CASE run.stage # "done"
  BY <1>1, <1>2, <1>4 DEF PiStatusAgrees, PiDrainIsReal, PiTypeOK, AgentTypeOK, PiWorks, NoTelemetry
<1>5. CASE run.stage = "done"
  <2>1. run.status = "completed" =>
          /\ run.reason = NoReason /\ ~run.internal /\ run.who = "match"
          /\ run.invoked /\ run.telemetry.known /\ ~run.telemetry.fallback
          /\ run.windows => /\ agent.closed = "root_exit" /\ agent.clean
                            /\ agent.gone /\ agent.asked = NoReason
          /\ ~run.windows => agent.closed = "resolved" /\ agent.kills["cleanup"] = "done"
    <3> SUFFICES ASSUME run.status = "completed"
                 PROVE  /\ run.reason = NoReason /\ ~run.internal /\ run.who = "match"
                        /\ run.invoked /\ run.telemetry.known /\ ~run.telemetry.fallback
                        /\ run.windows => /\ agent.closed = "root_exit" /\ agent.clean
                                          /\ agent.gone /\ agent.asked = NoReason
                        /\ ~run.windows => agent.closed = "resolved" /\ agent.kills["cleanup"] = "done"
      OBVIOUS
    <3>1. run.reason = NoReason /\ run.invoked /\ ~run.internal /\ run.who = "match"
          /\ run.telemetry.known /\ ~run.telemetry.fallback
      BY <1>1, <1>5 DEF PiStands, PiConcluded
    <3>2. agent.asked = NoReason
      BY <1>1, <3>1 DEF PiKnows
    <3>3. run.windows => agent.closed = "root_exit" /\ agent.clean /\ agent.gone
      BY <1>1, <1>3 DEF PiStands, PiKnows
    <3>4. ~run.windows => agent.closed = "resolved" /\ agent.kills["cleanup"] = "done"
      BY <1>1, <1>5 DEF PiStands, PiConcluded
    <3> QED BY <3>1, <3>2, <3>3, <3>4
  <2>2. run.status \in {"cancelled", "timed_out"} =>
          /\ run.reason # NoReason /\ (run.status = "timed_out" <=> run.reason = "timed_out")
          /\ ~run.internal /\ ((run.windows /\ agent.made) => HasExit(agent))
    BY <1>1, <1>5 DEF PiStands, PiConcluded, Agrees
  <2>3. PiStatusAgrees
    BY <2>1, <2>2 DEF PiStatusAgrees
  <2>4. run.telemetry.drained =>
          /\ agent.gone /\ run.telemetry.completion = agent.closed
          /\ run.telemetry.completion \in {"root_exit", run.reason, "cancelled"}
    <3> SUFFICES ASSUME run.telemetry.drained
                 PROVE  /\ agent.gone /\ run.telemetry.completion = agent.closed
                        /\ run.telemetry.completion \in {"root_exit", run.reason, "cancelled"}
      OBVIOUS
    <3>1. run.exit # "none" /\ run.telemetry.completion = run.exit
      BY <1>1, <1>5 DEF PiConcluded, PiKnows
    <3>2. agent.closed = run.exit /\ agent.closed \in {"root_exit", agent.asked} \ {NoReason}
      BY <1>1, <3>1 DEF PiKnows, Promised
    <3> QED BY <1>1, <1>3, <3>1, <3>2 DEF PiKnows
  <2>5. PiDrainIsReal
    BY <1>1, <1>5, <2>4 DEF PiDrainIsReal, PiConcluded
  <2> QED BY <1>1, <1>2, <2>3, <2>5 DEF PiTypeOK, AgentTypeOK
<1> QED BY <1>4, <1>5

LEMMA KimiIsHonest ==
  ASSUME KimiInv
  PROVE  KimiStatusAgrees /\ KimiDrainIsReal /\ NeverEarly /\ KimiTypeOK
<1>1. /\ run \in KimiRun /\ agent \in Agent /\ host \in Host /\ Promised(agent, run.windows)
      /\ KimiWorks(run, agent) /\ KimiStands(run, agent)
      /\ run.stage = "done" => KimiConcluded(run, agent)
      /\ run.windows \in BOOLEAN
  BY DEF KimiInv, KimiSound, Promised, Attended, KimiRun
<1>2. NeverEarly
  BY TimedOutLate DEF KimiInv
<1>3. KimiDrainIsReal
  BY <1>1 DEF KimiDrainIsReal, KimiStands, Promised
<1>4. ASSUME run.stage = "done", run.status = "completed"
      PROVE  /\ run.reason = NoReason /\ run.submitted /\ IsClosed(agent)
             /\ IF run.windows
                THEN /\ agent.closed = "root_exit" /\ agent.clean /\ agent.gone
                     /\ agent.asked = NoReason /\ run.connection = "closed"
                ELSE agent.kills["cleanup"] = "done"
  <2>1. run.windows => agent.closed = "root_exit" /\ agent.clean /\ run.connection = "closed"
    BY <1>1, <1>4 DEF KimiConcluded
  <2>2. run.windows => agent.gone
    BY <1>1, <2>1 DEF Promised, HasExit, IsClosed
  <2> QED BY <1>1, <1>4, <2>1, <2>2 DEF KimiStands, KimiConcluded
<1>5. ASSUME run.stage = "done", run.status \in {"cancelled", "timed_out"}
      PROVE  /\ run.reason # NoReason /\ (run.status = "timed_out" <=> run.reason = "timed_out")
             /\ run.windows /\ agent.made => HasExit(agent)
             /\ ~agent.made => ~run.submitted
  BY <1>1, <1>5 DEF KimiStands, KimiConcluded, KimiWorks, Agrees
<1>6. KimiStatusAgrees
  BY <1>4, <1>5 DEF KimiStatusAgrees
<1> QED BY <1>1, <1>2, <1>3, <1>6 DEF KimiTypeOK, AgentTypeOK

(* The invariant of the two clients, from their first state and over every  *)
(* step of runPiRpc and runKimiAcp, of the signals and of the agent.        *)
THEOREM ClientsInvariant == ClientsSpec => []ClientsInv
<1>1. ClientsInit => ClientsInv
  BY ClientsBegin
<1>2. ClientsInv /\ [ClientsNext]_vars => ClientsInv'
  BY ClientsStep
<1> QED BY <1>1, <1>2, PTL DEF ClientsSpec

(* The variables of both closures keep their types. *)
THEOREM ClientsTypeCorrect == ClientsSpec => [](IF run.client = "pi" THEN PiTypeOK ELSE KimiTypeOK)
<1>1. ClientsInv => IF run.client = "pi" THEN PiTypeOK ELSE KimiTypeOK
  BY PiIsHonest, KimiIsHonest DEF ClientsInv
<1> QED BY <1>1, ClientsInvariant, PTL

(* The status, the drained exit and the time-out of a result say what       *)
(* happened, whichever client ran, on both platforms, whatever the agent    *)
(* wrote, whenever the caller, the session or the deadline interrupted it.  *)
THEOREM RunsAreHonest == ClientsSpec => []RunIsHonest
<1>1. ClientsInv => RunIsHonest
  BY PiIsHonest, KimiIsHonest DEF ClientsInv, RunIsHonest
<1> QED BY <1>1, ClientsInvariant, PTL

LEMMA MaxIs ==
  ASSUME NEW x \in SUBSET Nat, NEW m \in x, \A y \in x : y <= m
  PROVE  Max(x) = m
<1>1. Max(x) \in x /\ \A y \in x : Max(x) >= y
  BY Zenon DEF Max
<1>2. \A z \in x : z >= m => z = m
  OBVIOUS
<1> QED BY <1>1, <1>2, Zenon

(* The retries counted after each event.                                    *)
RetriesTrace(s, n, a) ==
  /\ a[0] = NoRetries /\ \A i \in 1..n : a[i] = CountRetry(a[i - 1], s[i])
  /\ FoldLeft(CountRetry, NoRetries, s) = a[n]

LEMMA RetriesTraceExists ==
  ASSUME NEW s, NEW n \in Nat, DOMAIN s = 1..n
  PROVE  \E a : RetriesTrace(s, n, a)
<1> DEFINE Folds(k, f) ==
      \A x \in SUBSET (1..k) : f[x] = IF x = {} THEN NoRetries ELSE CountRetry(f[x \ {Max(x)}], s[Max(x)])
           S == {k \in Nat : \E f : Folds(k, f)}
<1>1. 0 \in S
  <2> DEFINE f == [x \in SUBSET (1..0) |-> NoRetries]
  <2>1. \A x \in SUBSET (1..0) : x = {}
    OBVIOUS
  <2>2. Folds(0, f)
    BY <2>1
  <2> QED BY <2>2
<1>2. ASSUME NEW k \in Nat, k \in S PROVE k + 1 \in S
  <2>1. PICK f : Folds(k, f)
    BY <1>2, Zenon
  <2> DEFINE g == [x \in SUBSET (1..(k + 1)) |->
                     IF k + 1 \in x THEN CountRetry(f[x \ {k + 1}], s[k + 1]) ELSE f[x]]
  <2>2. ASSUME NEW x \in SUBSET (1..(k + 1)), k + 1 \in x
        PROVE  g[x] = IF x = {} THEN NoRetries ELSE CountRetry(g[x \ {Max(x)}], s[Max(x)])
    <3>1. /\ x \ {k + 1} \in SUBSET (1..k) /\ x \ {k + 1} \in SUBSET (1..(k + 1))
          /\ Max(x) = k + 1
      BY <2>2, MaxIs
    <3>2. g[x \ {k + 1}] = f[x \ {k + 1}]
      BY <3>1
    <3>3. g[x] = CountRetry(f[x \ {k + 1}], s[k + 1])
      BY <2>2
    <3> HIDE DEF g
    <3> QED BY <2>2, <3>1, <3>2, <3>3
  <2>3. ASSUME NEW x \in SUBSET (1..(k + 1)), k + 1 \notin x
        PROVE  g[x] = IF x = {} THEN NoRetries ELSE CountRetry(g[x \ {Max(x)}], s[Max(x)])
    <3>1. x \in SUBSET (1..k) /\ g[x] = f[x]
      BY <2>3
    <3>2. /\ k + 1 \notin x \ {Max(x)} /\ x \ {Max(x)} \in SUBSET (1..(k + 1))
          /\ g[x \ {Max(x)}] = f[x \ {Max(x)}]
      BY <2>3, Zenon
    <3>3. f[x] = IF x = {} THEN NoRetries ELSE CountRetry(f[x \ {Max(x)}], s[Max(x)])
      BY <2>1, <3>1
    <3> HIDE DEF g, Folds
    <3> QED BY <3>1, <3>2, <3>3
  <2> HIDE DEF g
  <2>4. Folds(k + 1, g)
    BY <2>2, <2>3, Zenon
  <2>5. k + 1 \in Nat
    OBVIOUS
  <2> HIDE DEF Folds
  <2> QED BY <2>4, <2>5
<1> HIDE DEF S
<1>3. n \in S
  BY <1>1, <1>2, FromZero
<1> DEFINE iter == CHOOSE f : f = [x \in SUBSET (1..n) |->
                                     IF x = {} THEN NoRetries ELSE CountRetry(f[x \ {Max(x)}], s[Max(x)])]
<1>4. Folds(n, iter)
  <2>1. PICK f : Folds(n, f)
    BY <1>3, Zenon DEF S
  <2> DEFINE g == [x \in SUBSET (1..n) |-> f[x]]
  <2>2. \A x \in SUBSET (1..n) : g[x] = IF x = {} THEN NoRetries ELSE CountRetry(g[x \ {Max(x)}], s[Max(x)])
    <3>1. \A x \in SUBSET (1..n) : g[x] = f[x] /\ g[x \ {Max(x)}] = f[x \ {Max(x)}]
      BY Zenon
    <3> HIDE DEF g
    <3> QED BY <2>1, <3>1, Zenon
  <2>3. g = [x \in SUBSET (1..n) |-> IF x = {} THEN NoRetries ELSE CountRetry(g[x \ {Max(x)}], s[Max(x)])]
    BY <2>2, Zenon
  <2>4. iter = [x \in SUBSET (1..n) |-> IF x = {} THEN NoRetries ELSE CountRetry(iter[x \ {Max(x)}], s[Max(x)])]
    <3> HIDE DEF g
    <3> QED BY <2>3, Zenon
  <2> HIDE DEF iter
  <2> QED BY <2>4, Zenon
<1>5. FoldLeft(CountRetry, NoRetries, s) = iter[1..n]
  BY DEF FoldLeft, MapThenFoldSet
<1> HIDE DEF iter
<1> DEFINE a == [i \in 0..n |-> iter[1..i]]
<1>6. a[0] = NoRetries
  <2>1. 1..0 = {} /\ {} \in SUBSET (1..n) /\ 0 \in 0..n
    OBVIOUS
  <2> QED BY <1>4, <2>1, Zenon
<1>7. ASSUME NEW i \in 1..n PROVE a[i] = CountRetry(a[i - 1], s[i])
  <2>1. /\ 1..i \in SUBSET (1..n) /\ 1..i # {} /\ Max(1..i) = i /\ (1..i) \ {i} = 1..(i - 1)
        /\ i - 1 \in 0..n
    BY MaxIs
  <2>2. a[i] = iter[1..i] /\ a[i - 1] = iter[1..(i - 1)]
    BY <2>1
  <2> HIDE DEF a
  <2> QED BY <1>4, <2>1, <2>2, Zenon
<1>8. FoldLeft(CountRetry, NoRetries, s) = a[n]
  BY <1>5
<1> HIDE DEF a
<1>9. RetriesTrace(s, n, a)
  BY <1>6, <1>7, <1>8 DEF RetriesTrace
<1> QED BY <1>9
-----------------------------------------------------------------------------
(* Retries *)

(* The events of a type among the first k.                                  *)
OfType(events, type, k) == {i \in 1..k : events[i].type = type}
Said(events, k) == OfType(events, "auto_retry_start", k) \cup OfType(events, "auto_retry_end", k)
Named(events, k) == {events[i].attempt : i \in Said(events, k)} \ {Absent}

LEMMA OfTypeGrows ==
  ASSUME NEW events, NEW type, NEW k \in Nat
  PROVE  /\ OfType(events, type, 0) = {}
         /\ IsFiniteSet(OfType(events, type, k)) /\ Cardinality(OfType(events, type, k)) \in Nat
         /\ events[k + 1].type = type =>
              /\ OfType(events, type, k + 1) = OfType(events, type, k) \cup {k + 1}
              /\ Cardinality(OfType(events, type, k + 1)) = Cardinality(OfType(events, type, k)) + 1
         /\ events[k + 1].type # type => OfType(events, type, k + 1) = OfType(events, type, k)
<1>1. OfType(events, type, 0) = {} /\ OfType(events, type, k) \in SUBSET (1..k) /\ k + 1 \notin OfType(events, type, k)
  BY DEF OfType
<1>2. IsFiniteSet(OfType(events, type, k)) /\ Cardinality(OfType(events, type, k)) \in Nat
  <2>1. IsFiniteSet(1..k)
    BY FS_Interval
  <2> QED BY <1>1, <2>1, FS_Subset, FS_CardinalityType
<1>3. events[k + 1].type = type => OfType(events, type, k + 1) = OfType(events, type, k) \cup {k + 1}
  BY DEF OfType
<1>4. events[k + 1].type # type => OfType(events, type, k + 1) = OfType(events, type, k)
  BY DEF OfType
<1> QED BY <1>1, <1>2, <1>3, <1>4, FS_AddElement

RetryRecord ==
  [attempts : SUBSET RetryAttempts, anonymous : Nat, active : RetryAttempts \cup {Absent, "anonymous"},
   willRetry : Nat, compactions : Nat, unbalanced : BOOLEAN]

(* What is counted of the first k events.                                   *)
CountedTo(r, events, k) ==
  /\ r \in RetryRecord /\ IsFiniteSet(r.attempts)
  /\ r.attempts = Named(events, k)
  /\ r.willRetry = Cardinality(OfType(events, "agent_end", k))
  /\ r.compactions = Cardinality(OfType(events, "compaction_end", k))
  /\ k > 0 \/ r.active # Absent =>
       r.attempts # {} \/ r.anonymous > 0 \/ r.willRetry > 0 \/ r.compactions > 0

LEMMA RetryEventsAre ==
  ASSUME NEW event \in RetryEvents
  PROVE  /\ event.type \in {"auto_retry_start", "auto_retry_end", "agent_end", "compaction_end"}
         /\ event.type \in {"auto_retry_start", "auto_retry_end"} => event.attempt \in RetryAttempts \cup {Absent}
BY DEF RetryEvents

LEMMA NamedGrows ==
  ASSUME NEW events, NEW k \in Nat
  PROVE  Named(events, k + 1) =
           IF events[k + 1].type \in {"auto_retry_start", "auto_retry_end"} /\ events[k + 1].attempt # Absent
           THEN Named(events, k) \cup {events[k + 1].attempt} ELSE Named(events, k)
<1>1. Said(events, k + 1) =
        IF events[k + 1].type \in {"auto_retry_start", "auto_retry_end"}
        THEN Said(events, k) \cup {k + 1} ELSE Said(events, k)
  <2>1. k + 1 \in 1..(k + 1) /\ 1..(k + 1) = (1..k) \cup {k + 1}
    OBVIOUS
  <2>2. Said(events, k + 1) = {i \in 1..(k + 1) : events[i].type \in {"auto_retry_start", "auto_retry_end"}}
    BY DEF Said, OfType
  <2>3. Said(events, k) = {i \in 1..k : events[i].type \in {"auto_retry_start", "auto_retry_end"}}
    BY DEF Said, OfType
  <2> QED BY <2>1, <2>2, <2>3, Zenon
<1> QED BY <1>1 DEF Named

LEMMA RetryStep ==
  ASSUME NEW events, NEW k \in Nat, NEW r, CountedTo(r, events, k), events[k + 1] \in RetryEvents
  PROVE  CountedTo(CountRetry(r, events[k + 1]), events, k + 1)
<1> DEFINE event == events[k + 1]
           next == CountRetry(r, event)
<1>1. /\ r \in RetryRecord /\ IsFiniteSet(r.attempts) /\ r.attempts = Named(events, k)
      /\ r.willRetry = Cardinality(OfType(events, "agent_end", k))
      /\ r.compactions = Cardinality(OfType(events, "compaction_end", k))
      /\ r.active # Absent => r.attempts # {} \/ r.anonymous > 0 \/ r.willRetry > 0 \/ r.compactions > 0
  BY DEF CountedTo
<1>2. /\ event.type \in {"auto_retry_start", "auto_retry_end", "agent_end", "compaction_end"}
      /\ event.type \in {"auto_retry_start", "auto_retry_end"} => event.attempt \in RetryAttempts \cup {Absent}
  BY RetryEventsAre
<1>3. /\ next.willRetry = IF event.type = "agent_end" THEN r.willRetry + 1 ELSE r.willRetry
      /\ next.compactions = IF event.type = "compaction_end" THEN r.compactions + 1 ELSE r.compactions
      /\ next.attempts = IF event.type \in {"auto_retry_start", "auto_retry_end"} /\ event.attempt # Absent
                         THEN r.attempts \cup {event.attempt} ELSE r.attempts
      /\ next \in RetryRecord
      /\ next.attempts # {} \/ next.anonymous > 0 \/ next.willRetry > 0 \/ next.compactions > 0
  <2> HIDE DEF event
  <2>1. CASE event.type = "agent_end"
    BY <1>1, <2>1 DEF CountRetry, RetryRecord
  <2>2. CASE event.type = "compaction_end"
    BY <1>1, <2>2 DEF CountRetry, RetryRecord
  <2>3. event.attempt \in RetryAttempts => r.attempts \cup {event.attempt} \in SUBSET RetryAttempts
    BY <1>1 DEF RetryRecord
  <2>4. r.anonymous \in Nat /\ r.anonymous + 1 \in Nat /\ r.anonymous + 1 > 0
    BY <1>1 DEF RetryRecord
  <2>5. CASE event.type = "auto_retry_start" /\ event.attempt = Absent
    <3>1. next = [r EXCEPT !.anonymous = @ + 1, !.active = "anonymous"]
      BY <2>5 DEF CountRetry
    <3> QED BY <1>1, <2>4, <2>5, <3>1, Zenon DEF RetryRecord
  <2>6. CASE event.type = "auto_retry_start" /\ event.attempt # Absent
    <3>1. next = [r EXCEPT !.attempts = @ \cup {event.attempt}, !.active = event.attempt]
      BY <2>6 DEF CountRetry
    <3> QED BY <1>1, <1>2, <2>3, <2>6, <3>1, Zenon DEF RetryRecord
  <2>7. CASE event.type = "auto_retry_end" /\ event.attempt = Absent /\ r.active = Absent
    <3>1. next = [r EXCEPT !.anonymous = @ + 1, !.unbalanced = TRUE]
      BY <2>7 DEF CountRetry
    <3> QED BY <1>1, <2>4, <2>7, <3>1, Zenon DEF RetryRecord
  <2>8. CASE event.type = "auto_retry_end" /\ event.attempt = Absent /\ r.active # Absent
    <3>1. next = [r EXCEPT !.active = Absent]
      BY <2>8 DEF CountRetry
    <3> QED BY <1>1, <2>4, <2>8, <3>1 DEF RetryRecord
  <2>9. CASE event.type = "auto_retry_end" /\ event.attempt # Absent /\ event.attempt \notin r.attempts
    <3>1. next = [r EXCEPT !.attempts = @ \cup {event.attempt}, !.unbalanced = TRUE]
      BY <2>9 DEF CountRetry
    <3> QED BY <1>1, <1>2, <2>3, <2>9, <3>1, Zenon DEF RetryRecord
  <2>10. CASE event.type = "auto_retry_end" /\ event.attempt # Absent /\ event.attempt \in r.attempts
    <3>1. next = [r EXCEPT !.active = IF @ = event.attempt THEN Absent ELSE @]
      BY <2>10 DEF CountRetry
    <3>2. r.attempts \cup {event.attempt} = r.attempts
      BY <2>10
    <3> QED BY <1>1, <2>10, <3>1, <3>2 DEF RetryRecord
  <2> QED BY <1>2, <2>1, <2>2, <2>5, <2>6, <2>7, <2>8, <2>9, <2>10
<1> HIDE DEF next
<1>4. IsFiniteSet(next.attempts) /\ next.attempts = Named(events, k + 1)
  <2>1. Named(events, k + 1) =
          IF event.type \in {"auto_retry_start", "auto_retry_end"} /\ event.attempt # Absent
          THEN Named(events, k) \cup {event.attempt} ELSE Named(events, k)
    BY NamedGrows, Zenon
  <2>2. IsFiniteSet(r.attempts \cup {event.attempt})
    BY <1>1, FS_AddElement
  <2> HIDE DEF event
  <2> QED BY <1>1, <1>3, <2>1, <2>2
<1>5. /\ next.willRetry = Cardinality(OfType(events, "agent_end", k + 1))
      /\ next.compactions = Cardinality(OfType(events, "compaction_end", k + 1))
  BY <1>1, <1>3, OfTypeGrows
<1>6. CountedTo(next, events, k + 1)
  BY <1>3, <1>4, <1>5 DEF CountedTo
<1> QED BY <1>6 DEF next

(* Every retry of a run that begins ends at once, and none is of an attempt *)
(* that was made before.                                                    *)
InTurn(events, n) ==
  /\ \A i \in OfType(events, "auto_retry_start", n) :
       /\ i + 1 \in OfType(events, "auto_retry_end", n) /\ events[i + 1].attempt = events[i].attempt
       /\ \A j \in OfType(events, "auto_retry_start", n) \ {i} :
            events[i].attempt # Absent => events[j].attempt # events[i].attempt
  /\ \A i \in OfType(events, "auto_retry_end", n) : i - 1 \in OfType(events, "auto_retry_start", n)

TurnedTo(r, events, k) ==
  /\ r.unbalanced = FALSE
  /\ r.active = IF k \notin OfType(events, "auto_retry_start", k) THEN Absent
                ELSE IF events[k].attempt = Absent THEN "anonymous" ELSE events[k].attempt
  /\ Cardinality(r.attempts) + r.anonymous = Cardinality(OfType(events, "auto_retry_start", k))

LEMMA TurnStep ==
  ASSUME NEW events, NEW n \in Nat, NEW k \in Nat, k + 1 <= n, InTurn(events, n),
         \A i \in 1..n : events[i] \in RetryEvents,
         NEW r, CountedTo(r, events, k), TurnedTo(r, events, k)
  PROVE  TurnedTo(CountRetry(r, events[k + 1]), events, k + 1)
<1> DEFINE event == events[k + 1]
           next == CountRetry(r, event)
           starts == OfType(events, "auto_retry_start", n)
           ends == OfType(events, "auto_retry_end", n)
<1>1. /\ r \in RetryRecord /\ IsFiniteSet(r.attempts) /\ r.attempts = Named(events, k)
      /\ Cardinality(r.attempts) \in Nat /\ r.unbalanced = FALSE
      /\ Cardinality(r.attempts) + r.anonymous = Cardinality(OfType(events, "auto_retry_start", k))
  BY FS_CardinalityType DEF CountedTo, TurnedTo
<1>2. /\ event.type \in {"auto_retry_start", "auto_retry_end", "agent_end", "compaction_end"}
      /\ event.type \in {"auto_retry_start", "auto_retry_end"} => event.attempt \in RetryAttempts \cup {Absent}
      /\ k + 1 \in 1..n
  BY RetryEventsAre
<1>3. /\ k \in OfType(events, "auto_retry_start", k) <=> k \in starts
      /\ k + 1 \in OfType(events, "auto_retry_start", k + 1) <=> event.type = "auto_retry_start"
      /\ k + 1 \in starts <=> event.type = "auto_retry_start"
      /\ k + 1 \in ends <=> event.type = "auto_retry_end"
  BY <1>2 DEF OfType
<1>4. /\ k \in starts => event.type = "auto_retry_end" /\ event.attempt = events[k].attempt
      /\ event.type = "auto_retry_end" => k \in starts
  BY <1>3 DEF InTurn
<1>5. r.active = IF k \notin starts THEN Absent
                 ELSE IF events[k].attempt = Absent THEN "anonymous" ELSE events[k].attempt
  BY <1>3 DEF TurnedTo
<1>6. CASE event.type \in {"agent_end", "compaction_end"}
  <2>1. /\ next.unbalanced = FALSE /\ next.active = r.active /\ next.attempts = r.attempts
        /\ next.anonymous = r.anonymous
    BY <1>1, <1>6 DEF CountRetry, RetryRecord
  <2>2. next.active = Absent /\ OfType(events, "auto_retry_start", k + 1) = OfType(events, "auto_retry_start", k)
    BY <1>4, <1>5, <1>6, <2>1, OfTypeGrows
  <2> HIDE DEF next
  <2>3. TurnedTo(next, events, k + 1)
    BY <1>1, <1>3, <1>6, <2>1, <2>2 DEF TurnedTo
  <2> QED BY <2>3 DEF next
<1>7. CASE event.type = "auto_retry_end"
  <2>1. k \in starts /\ event.attempt = events[k].attempt /\ k \in Said(events, k)
    BY <1>3, <1>4, <1>7 DEF Said
  <2>2. event.attempt # Absent => event.attempt \in r.attempts
    BY <1>1, <2>1 DEF Named
  <2>3. /\ next.unbalanced = FALSE /\ next.active = Absent /\ next.attempts = r.attempts
        /\ next.anonymous = r.anonymous
    BY <1>1, <1>5, <1>7, <2>1, <2>2 DEF CountRetry, RetryRecord, Absent
  <2>4. OfType(events, "auto_retry_start", k + 1) = OfType(events, "auto_retry_start", k)
    BY <1>7, OfTypeGrows
  <2> HIDE DEF next
  <2>5. TurnedTo(next, events, k + 1)
    BY <1>1, <1>3, <1>7, <2>3, <2>4 DEF TurnedTo
  <2> QED BY <2>5 DEF next
<1>8. CASE event.type = "auto_retry_start"
  <2>1. event.attempt # Absent => event.attempt \notin r.attempts
    <3> SUFFICES ASSUME event.attempt # Absent, NEW i \in Said(events, k), events[i].attempt = event.attempt
                 PROVE  FALSE
      BY <1>1 DEF Named
    <3>1. i \in 1..k /\ i \in 1..n /\ events[i].type \in {"auto_retry_start", "auto_retry_end"}
      BY <1>2 DEF Said, OfType
    <3>2. i \in starts \/ i \in ends
      BY <3>1 DEF OfType
    <3>3. i \notin starts
      BY <1>3, <1>8, <3>1 DEF InTurn
    <3>4. i - 1 \in starts /\ i - 1 # k + 1
      BY <3>1, <3>2, <3>3 DEF InTurn
    <3>5. events[(i - 1) + 1].attempt = events[i - 1].attempt
      BY <3>4 DEF InTurn
    <3>6. (i - 1) + 1 = i
      BY <3>1
    <3>7. events[i - 1].attempt # event.attempt
      BY <1>3, <1>8, <3>4 DEF InTurn
    <3> QED BY <3>5, <3>6, <3>7
  <2>2. /\ next.unbalanced = FALSE
        /\ next.active = IF event.attempt = Absent THEN "anonymous" ELSE event.attempt
        /\ next.attempts = IF event.attempt = Absent THEN r.attempts ELSE r.attempts \cup {event.attempt}
        /\ next.anonymous = IF event.attempt = Absent THEN r.anonymous + 1 ELSE r.anonymous
    BY <1>1, <1>8 DEF CountRetry, RetryRecord
  <2>3. Cardinality(next.attempts) =
          IF event.attempt = Absent THEN Cardinality(r.attempts) ELSE Cardinality(r.attempts) + 1
    <3>1. event.attempt # Absent =>
            Cardinality(r.attempts \cup {event.attempt}) = Cardinality(r.attempts) + 1
      BY <1>1, <2>1, FS_AddElement, Zenon
    <3> QED BY <2>2, <3>1
  <2>4. Cardinality(OfType(events, "auto_retry_start", k + 1)) = Cardinality(OfType(events, "auto_retry_start", k)) + 1
    BY <1>8, OfTypeGrows
  <2>5. r.anonymous \in Nat
    BY <1>1 DEF RetryRecord
  <2> HIDE DEF next
  <2>6. TurnedTo(next, events, k + 1)
    BY <1>1, <1>3, <1>8, <2>2, <2>3, <2>4, <2>5 DEF TurnedTo
  <2> QED BY <2>6 DEF next
<1> QED BY <1>2, <1>6, <1>7, <1>8

LEMMA RetriesAreCounted ==
  ASSUME NEW events \in Seq(RetryEvents)
  PROVE  /\ CountedTo(Retries(events), events, Len(events))
         /\ InTurn(events, Len(events)) => TurnedTo(Retries(events), events, Len(events))
<1> DEFINE n == Len(events)
<1>1. n \in Nat /\ DOMAIN events = 1..n /\ \A i \in 1..n : events[i] \in RetryEvents
  OBVIOUS
<1> HIDE DEF n
<1>2. PICK a : RetriesTrace(events, n, a)
  BY <1>1, RetriesTraceExists
<1>3. \A k \in Nat : k < n => a[k + 1] = CountRetry(a[k], events[k + 1]) /\ events[k + 1] \in RetryEvents
  <2> SUFFICES ASSUME NEW k \in Nat, k < n
               PROVE  a[k + 1] = CountRetry(a[k], events[k + 1]) /\ events[k + 1] \in RetryEvents
    OBVIOUS
  <2>1. k + 1 \in 1..n /\ (k + 1) - 1 = k
    BY <1>1
  <2> QED BY <1>1, <1>2, <2>1 DEF RetriesTrace
<1>4. CountedTo(NoRetries, events, 0) /\ TurnedTo(NoRetries, events, 0)
  <2>1. /\ OfType(events, "auto_retry_start", 0) = {} /\ OfType(events, "auto_retry_end", 0) = {}
        /\ OfType(events, "agent_end", 0) = {} /\ OfType(events, "compaction_end", 0) = {}
    BY OfTypeGrows
  <2>2. Named(events, 0) = {}
    BY <2>1 DEF Named, Said
  <2>3. /\ NoRetries \in RetryRecord /\ NoRetries.attempts = {} /\ NoRetries.anonymous = 0
        /\ NoRetries.active = Absent /\ NoRetries.willRetry = 0 /\ NoRetries.compactions = 0
        /\ NoRetries.unbalanced = FALSE
    BY DEF NoRetries, RetryRecord
  <2>4. IsFiniteSet({}) /\ Cardinality({}) = 0
    BY FS_EmptySet
  <2>5. CountedTo(NoRetries, events, 0)
    BY <2>1, <2>2, <2>3, <2>4, Zenon DEF CountedTo
  <2>6. NoRetries.active = IF 0 \notin OfType(events, "auto_retry_start", 0) THEN Absent
                           ELSE IF events[0].attempt = Absent THEN "anonymous" ELSE events[0].attempt
    BY <2>1, <2>3
  <2>7. Cardinality(NoRetries.attempts) + NoRetries.anonymous = Cardinality(OfType(events, "auto_retry_start", 0))
    <3>1. Cardinality(NoRetries.attempts) = 0 /\ Cardinality(OfType(events, "auto_retry_start", 0)) = 0
      BY <2>1, <2>3, <2>4, Zenon
    <3> QED BY <2>3, <3>1
  <2> QED BY <2>3, <2>5, <2>6, <2>7 DEF TurnedTo
<1> DEFINE S == {k \in Nat : k <= n => /\ CountedTo(a[k], events, k)
                                       /\ InTurn(events, n) => TurnedTo(a[k], events, k)}
<1>5. 0 \in S
  BY <1>2, <1>4 DEF RetriesTrace
<1>6. ASSUME NEW k \in Nat, k \in S PROVE k + 1 \in S
  <2> SUFFICES ASSUME k + 1 <= n
               PROVE  /\ CountedTo(a[k + 1], events, k + 1)
                      /\ InTurn(events, n) => TurnedTo(a[k + 1], events, k + 1)
    OBVIOUS
  <2>1. k < n /\ CountedTo(a[k], events, k) /\ (InTurn(events, n) => TurnedTo(a[k], events, k))
    BY <1>1, <1>6
  <2> HIDE DEF S
  <2>2. /\ a[k + 1] = CountRetry(a[k], events[k + 1]) /\ events[k + 1] \in RetryEvents
    BY <1>3, <2>1
  <2>3. CountedTo(a[k + 1], events, k + 1)
    BY <2>1, <2>2, RetryStep
  <2>4. InTurn(events, n) => TurnedTo(a[k + 1], events, k + 1)
    BY <1>1, <2>1, <2>2, TurnStep
  <2> QED BY <2>3, <2>4
<1> HIDE DEF S
<1>7. n \in S
  BY <1>1, <1>5, <1>6, FromZero
<1> QED BY <1>1, <1>2, <1>7 DEF RetriesTrace, S, n, Retries

LEMMA RetriesAreFaithful ==
  ASSUME stream.kind = "retry" => stream.seen \in Seq(RetryEvents)
  PROVE  RetriesFaithful
<1> SUFFICES ASSUME stream.kind = "retry" PROVE RetriesFaithful
  BY DEF RetriesFaithful
<1> DEFINE events == stream.seen
           n == Len(events)
           r == Retries(events)
           starts == OfType(events, "auto_retry_start", n)
           ends == OfType(events, "auto_retry_end", n)
<1>1. events \in Seq(RetryEvents) /\ n \in Nat /\ DOMAIN events = 1..n /\ (events = <<>> <=> n = 0)
  OBVIOUS
<1> HIDE DEF events, n
<1>2. CountedTo(r, events, n) /\ (InTurn(events, n) => TurnedTo(r, events, n))
  BY <1>1, RetriesAreCounted DEF n
<1> HIDE DEF r
<1>3. \A type : {i \in DOMAIN events : events[i].type = type} = OfType(events, type, n)
  BY <1>1 DEF OfType
<1>4. /\ r.attempts = Named(events, n) /\ Cardinality(r.attempts) \in Nat /\ IsFiniteSet(r.attempts)
      /\ r.willRetry = Cardinality(OfType(events, "agent_end", n))
      /\ r.compactions = Cardinality(OfType(events, "compaction_end", n))
      /\ r.anonymous \in Nat /\ r.willRetry \in Nat /\ r.compactions \in Nat
  BY <1>2, FS_CardinalityType DEF CountedTo, RetryRecord
<1>5. RetryCount(r) = 0 <=> events = <<>>
  <2>1. RetryCount(r) = 0 <=> /\ Cardinality(r.attempts) = 0 /\ r.anonymous = 0
                              /\ r.willRetry = 0 /\ r.compactions = 0
    BY <1>4 DEF RetryCount
  <2>2. Cardinality(r.attempts) = 0 <=> r.attempts = {}
    BY <1>4, FS_EmptySet
  <2>3. n > 0 => r.attempts # {} \/ r.anonymous > 0 \/ r.willRetry > 0 \/ r.compactions > 0
    BY <1>2 DEF CountedTo
  <2>4. n = 0 => r = NoRetries
    <3>1. n = 0 => \E a : a[0] = NoRetries /\ r = a[0]
      BY <1>1, RetriesTraceExists, Zenon DEF RetriesTrace, r, Retries
    <3> QED BY <3>1
  <2>5. NoRetries.attempts = {} /\ NoRetries.anonymous = 0 /\ NoRetries.willRetry = 0 /\ NoRetries.compactions = 0
    BY DEF NoRetries
  <2> QED BY <1>1, <1>4, <2>1, <2>2, <2>3, <2>4, <2>5
<1>6. /\ RetryCount(r) >= Cardinality(Named(events, n))
      /\ RetryCount(r) >= Cardinality(OfType(events, "agent_end", n)) + Cardinality(OfType(events, "compaction_end", n))
  BY <1>4 DEF RetryCount
<1>7. InTurn(events, n) =>
        /\ ~Unbalanced(r)
        /\ RetryCount(r) - Cardinality(OfType(events, "compaction_end", n))
             \in {Cardinality(starts), Cardinality(OfType(events, "agent_end", n))}
  <2> SUFFICES ASSUME InTurn(events, n)
               PROVE  /\ ~Unbalanced(r)
                      /\ RetryCount(r) - r.compactions \in {Cardinality(starts), r.willRetry}
    BY <1>4
  <2>1. n \notin starts
    BY <1>1 DEF InTurn, OfType
  <2>2. ~Unbalanced(r) /\ Cardinality(r.attempts) + r.anonymous = Cardinality(starts)
    BY <1>2, <2>1 DEF TurnedTo, Unbalanced
  <2> QED BY <1>4, <2>2 DEF RetryCount
<1>8. {events[i].attempt : i \in starts \cup ends} \ {Absent} = Named(events, n)
  BY DEF Named, Said
<1> HIDE DEF starts, ends
<1>9. RetriesFaithful <=>
        LET ofType(type) == {i \in DOMAIN events : events[i].type = type}
            inTurn == InTurn(events, n)
        IN /\ RetryCount(r) = 0 <=> events = <<>>
           /\ RetryCount(r) >= Cardinality(Named(events, n))
           /\ RetryCount(r) >= Cardinality(ofType("agent_end")) + Cardinality(ofType("compaction_end"))
           /\ inTurn => /\ ~Unbalanced(r)
                        /\ RetryCount(r) - Cardinality(ofType("compaction_end"))
                             \in {Cardinality(starts), Cardinality(ofType("agent_end"))}
  BY <1>3, <1>8, Zenon DEF RetriesFaithful, InTurn, events, r, starts, ends
<1> QED BY <1>3, <1>5, <1>6, <1>7, <1>9, Zenon

Pick(keep, picked, x) == IF x \in keep THEN Append(picked, x) ELSE picked

(* What is picked of each beginning of a sequence.                          *)
PickTrace(keep, s, n, a) ==
  /\ a[0] = <<>> /\ \A i \in 1..n : a[i] = Pick(keep, a[i - 1], s[i])
  /\ Only(s, keep) = a[n]

LEMMA PickTraceExists ==
  ASSUME NEW keep, NEW s, NEW n \in Nat, DOMAIN s = 1..n
  PROVE  \E a : PickTrace(keep, s, n, a)
<1> DEFINE Folds(k, f) ==
      \A x \in SUBSET (1..k) : f[x] = IF x = {} THEN <<>> ELSE Pick(keep, f[x \ {Max(x)}], s[Max(x)])
           S == {k \in Nat : \E f : Folds(k, f)}
<1>1. 0 \in S
  <2> DEFINE f == [x \in SUBSET (1..0) |-> <<>>]
  <2>1. \A x \in SUBSET (1..0) : x = {}
    OBVIOUS
  <2>2. Folds(0, f)
    BY <2>1
  <2> QED BY <2>2, Zenon
<1>2. ASSUME NEW k \in Nat, k \in S PROVE k + 1 \in S
  <2>1. PICK f : Folds(k, f)
    BY <1>2, Zenon
  <2> DEFINE g == [x \in SUBSET (1..(k + 1)) |->
                     IF k + 1 \in x THEN Pick(keep, f[x \ {k + 1}], s[k + 1]) ELSE f[x]]
  <2>2. ASSUME NEW x \in SUBSET (1..(k + 1)), k + 1 \in x
        PROVE  g[x] = IF x = {} THEN <<>> ELSE Pick(keep, g[x \ {Max(x)}], s[Max(x)])
    <3>1. /\ x \ {k + 1} \in SUBSET (1..k) /\ x \ {k + 1} \in SUBSET (1..(k + 1))
          /\ Max(x) = k + 1
      BY <2>2, MaxIs
    <3>2. g[x \ {k + 1}] = f[x \ {k + 1}]
      BY <3>1
    <3>3. g[x] = Pick(keep, f[x \ {k + 1}], s[k + 1])
      BY <2>2
    <3> HIDE DEF g
    <3> QED BY <2>2, <3>1, <3>2, <3>3
  <2>3. ASSUME NEW x \in SUBSET (1..(k + 1)), k + 1 \notin x
        PROVE  g[x] = IF x = {} THEN <<>> ELSE Pick(keep, g[x \ {Max(x)}], s[Max(x)])
    <3>1. x \in SUBSET (1..k) /\ g[x] = f[x]
      BY <2>3
    <3>2. /\ k + 1 \notin x \ {Max(x)} /\ x \ {Max(x)} \in SUBSET (1..(k + 1))
          /\ g[x \ {Max(x)}] = f[x \ {Max(x)}]
      BY <2>3, Zenon
    <3>3. f[x] = IF x = {} THEN <<>> ELSE Pick(keep, f[x \ {Max(x)}], s[Max(x)])
      BY <2>1, <3>1
    <3> HIDE DEF g, Folds
    <3> QED BY <3>1, <3>2, <3>3
  <2> HIDE DEF g
  <2>4. Folds(k + 1, g)
    BY <2>2, <2>3, Zenon
  <2>5. k + 1 \in Nat
    OBVIOUS
  <2> HIDE DEF Folds
  <2> QED BY <2>4, <2>5
<1> HIDE DEF S
<1>3. n \in S
  BY <1>1, <1>2, FromZero
<1> DEFINE iter == CHOOSE f : f = [x \in SUBSET (1..n) |->
                                     IF x = {} THEN <<>> ELSE Pick(keep, f[x \ {Max(x)}], s[Max(x)])]
<1>4. Folds(n, iter)
  <2>1. PICK f : Folds(n, f)
    BY <1>3, Zenon DEF S
  <2> DEFINE g == [x \in SUBSET (1..n) |-> f[x]]
  <2>2. \A x \in SUBSET (1..n) : g[x] = IF x = {} THEN <<>> ELSE Pick(keep, g[x \ {Max(x)}], s[Max(x)])
    <3>1. \A x \in SUBSET (1..n) : g[x] = f[x] /\ g[x \ {Max(x)}] = f[x \ {Max(x)}]
      BY Zenon
    <3> HIDE DEF g
    <3> QED BY <2>1, <3>1, Zenon
  <2>3. g = [x \in SUBSET (1..n) |-> IF x = {} THEN <<>> ELSE Pick(keep, g[x \ {Max(x)}], s[Max(x)])]
    BY <2>2, Zenon
  <2>4. iter = [x \in SUBSET (1..n) |-> IF x = {} THEN <<>> ELSE Pick(keep, iter[x \ {Max(x)}], s[Max(x)])]
    <3> HIDE DEF g
    <3> QED BY <2>3, Zenon
  <2> HIDE DEF iter
  <2> QED BY <2>4, Zenon
<1>5. Only(s, keep) = iter[1..n]
  BY DEF Pick, Only, FoldLeft, MapThenFoldSet
<1> HIDE DEF iter
<1> DEFINE a == [i \in 0..n |-> iter[1..i]]
<1>6. a[0] = <<>>
  <2>1. 1..0 = {} /\ {} \in SUBSET (1..n) /\ 0 \in 0..n
    OBVIOUS
  <2> QED BY <1>4, <2>1, Zenon
<1>7. ASSUME NEW i \in 1..n PROVE a[i] = Pick(keep, a[i - 1], s[i])
  <2>1. /\ 1..i \in SUBSET (1..n) /\ 1..i # {} /\ Max(1..i) = i /\ (1..i) \ {i} = 1..(i - 1)
        /\ i - 1 \in 0..n
    BY MaxIs
  <2>2. a[i] = iter[1..i] /\ a[i - 1] = iter[1..(i - 1)]
    BY <2>1
  <2> HIDE DEF a
  <2> QED BY <1>4, <2>1, <2>2, Zenon
<1>8. Only(s, keep) = a[n]
  BY <1>5
<1> HIDE DEF a
<1>9. PickTrace(keep, s, n, a)
  BY <1>6, <1>7, <1>8 DEF PickTrace
<1> QED BY <1>9
(* Where the picked elements stood: the indices increase, and none of an    *)
(* element to be picked is left out.                                        *)
Places(s, keep, n, r, at) ==
  /\ at \in [1..Len(r) -> 1..n]
  /\ \A i \in 1..Len(r) : r[i] = s[at[i]] /\ s[at[i]] \in keep
  /\ \A i, j \in 1..Len(r) : i < j => at[i] < at[j]
  /\ \A m \in 1..n : s[m] \in keep => \E i \in 1..Len(r) : at[i] = m

LEMMA OnlyKeeps ==
  ASSUME NEW T, NEW s \in Seq(T), NEW keep
  PROVE  Only(s, keep) \in Seq(T) /\ \E at : Places(s, keep, Len(s), Only(s, keep), at)
<1> DEFINE n == Len(s)
<1>1. n \in Nat /\ DOMAIN s = 1..n /\ \A i \in 1..n : s[i] \in T
  OBVIOUS
<1> HIDE DEF n
<1>2. PICK a : PickTrace(keep, s, n, a)
  BY <1>1, PickTraceExists
<1>3. /\ a[0] = <<>> /\ \A i \in 1..n : a[i] = Pick(keep, a[i - 1], s[i])
      /\ Only(s, keep) = a[n]
  BY <1>2 DEF PickTrace
<1> DEFINE S == {k \in Nat : k <= n => a[k] \in Seq(T) /\ \E at : Places(s, keep, k, a[k], at)}
<1>4. 0 \in S
  <2>1. Len(<<>>) = 0 /\ <<>> \in Seq(T)
    OBVIOUS
  <2>2. Places(s, keep, 0, <<>>, [i \in 1..0 |-> i])
    BY <2>1 DEF Places
  <2> QED BY <1>3, <2>1, <2>2, Zenon
<1>5. ASSUME NEW k \in Nat, k \in S PROVE k + 1 \in S
  <2> SUFFICES ASSUME k + 1 <= n
               PROVE  a[k + 1] \in Seq(T) /\ \E at : Places(s, keep, k + 1, a[k + 1], at)
    OBVIOUS
  <2>1. k <= n /\ k + 1 \in 1..n /\ (k + 1) - 1 = k
    BY <1>1
  <2>2. a[k + 1] = IF s[k + 1] \in keep THEN Append(a[k], s[k + 1]) ELSE a[k]
    BY <1>3, <2>1 DEF Pick
  <2>3. PICK at : Places(s, keep, k, a[k], at)
    BY <1>5, <2>1
  <2>4. a[k] \in Seq(T) /\ s[k + 1] \in T
    BY <1>1, <1>5, <2>1
  <2>5. CASE s[k + 1] \notin keep
    <3>1. a[k + 1] = a[k]
      BY <2>2, <2>5
    <3>2. Places(s, keep, k + 1, a[k], at)
      <4>1. at \in [1..Len(a[k]) -> 1..(k + 1)]
        BY <2>3, <2>4 DEF Places
      <4>2. \A m \in 1..(k + 1) : s[m] \in keep => m \in 1..k
        BY <2>5
      <4> QED BY <2>3, <4>1, <4>2 DEF Places
    <3> QED BY <2>4, <3>1, <3>2
  <2>6. CASE s[k + 1] \in keep
    <3> DEFINE r == Append(a[k], s[k + 1])
               l == Len(a[k])
               more == [i \in 1..(l + 1) |-> IF i = l + 1 THEN k + 1 ELSE at[i]]
    <3>1. a[k + 1] = r /\ r \in Seq(T) /\ l \in Nat /\ Len(r) = l + 1 /\ r[l + 1] = s[k + 1]
          /\ \A i \in 1..l : r[i] = a[k][i]
      BY <2>2, <2>4, <2>6
    <3> HIDE DEF r, l
    <3>2. /\ at \in [1..l -> 1..k] /\ \A i \in 1..l : a[k][i] = s[at[i]] /\ s[at[i]] \in keep
          /\ \A i, j \in 1..l : i < j => at[i] < at[j]
          /\ \A m \in 1..k : s[m] \in keep => \E i \in 1..l : at[i] = m
      BY <2>3 DEF Places, l
    <3>3. /\ more \in [1..(l + 1) -> 1..(k + 1)] /\ more[l + 1] = k + 1
          /\ \A i \in 1..l : i \in 1..(l + 1) /\ more[i] = at[i] /\ at[i] \in 1..k
      BY <3>1, <3>2
    <3> HIDE DEF more
    <3>4. \A i \in 1..(l + 1) : i = l + 1 \/ i \in 1..l
      BY <3>1
    <3>5. \A i \in 1..Len(r) : r[i] = s[more[i]] /\ s[more[i]] \in keep
      BY <2>6, <3>1, <3>2, <3>3, <3>4
    <3>6. ASSUME NEW i \in 1..Len(r), NEW j \in 1..Len(r), i < j PROVE more[i] < more[j]
      <4>1. i \in 1..l
        BY <3>1, <3>6
      <4>2. CASE j = l + 1
        BY <3>1, <3>3, <4>1, <4>2
      <4>3. CASE j \in 1..l
        BY <3>2, <3>3, <3>6, <4>1, <4>3
      <4> QED BY <3>1, <3>4, <4>2, <4>3
    <3>7. ASSUME NEW m \in 1..(k + 1), s[m] \in keep PROVE \E i \in 1..Len(r) : more[i] = m
      <4>1. CASE m = k + 1
        BY <3>1, <3>3, <4>1
      <4>2. CASE m \in 1..k
        <5>1. PICK i \in 1..l : at[i] = m
          BY <3>2, <3>7, <4>2
        <5> QED BY <3>1, <3>3, <5>1
      <4> QED BY <4>1, <4>2
    <3>8. Places(s, keep, k + 1, r, more)
      BY <3>1, <3>3, <3>5, <3>6, <3>7 DEF Places
    <3> QED BY <3>1, <3>8
  <2> QED BY <2>5, <2>6
<1> HIDE DEF S
<1>6. n \in S
  BY <1>1, <1>4, <1>5, FromZero
<1> QED BY <1>1, <1>3, <1>6 DEF S, n

(* A sequence of which everything is picked.                                *)
LEMMA OnlyAll ==
  ASSUME NEW T, NEW s \in Seq(T), NEW keep, \A i \in 1..Len(s) : s[i] \in keep
  PROVE  Only(s, keep) = s
<1>1. PICK a : PickTrace(keep, s, Len(s), a)
  <2>1. Len(s) \in Nat /\ DOMAIN s = 1..Len(s)
    OBVIOUS
  <2> QED BY <2>1, PickTraceExists, Zenon
<1>2. /\ a[0] = <<>> /\ \A i \in 1..Len(s) : a[i] = Pick(keep, a[i - 1], s[i])
      /\ Only(s, keep) = a[Len(s)]
  BY <1>1 DEF PickTrace
<1> DEFINE S == {k \in Nat : k <= Len(s) => a[k] = SubSeq(s, 1, k)}
<1>3. 0 \in S
  <2>1. SubSeq(s, 1, 0) = <<>>
    OBVIOUS
  <2> QED BY <1>2, <2>1, Zenon
<1>4. ASSUME NEW k \in Nat, k \in S PROVE k + 1 \in S
  <2> SUFFICES ASSUME k + 1 <= Len(s) PROVE a[k + 1] = SubSeq(s, 1, k + 1)
    OBVIOUS
  <2>1. k + 1 \in 1..Len(s) /\ (k + 1) - 1 = k /\ a[k] = SubSeq(s, 1, k) /\ s[k + 1] \in keep
    BY <1>4
  <2>2. a[k + 1] = Append(SubSeq(s, 1, k), s[k + 1])
    BY <1>2, <2>1, Zenon DEF Pick
  <2>3. Append(SubSeq(s, 1, k), s[k + 1]) = SubSeq(s, 1, k + 1)
    BY <2>1
  <2> QED BY <2>2, <2>3
<1> HIDE DEF S
<1>5. Len(s) \in S
  BY <1>3, <1>4, FromZero
<1>6. SubSeq(s, 1, Len(s)) = s
  OBVIOUS
<1> QED BY <1>2, <1>5, <1>6 DEF S

(* A call after each of the updates that waited for it.                     *)
LateTrace(first, s, n, a) ==
  /\ a[0] = first /\ \A i \in 1..n : a[i] = LateUpdate(a[i - 1], s[i])
  /\ FoldLeft(LateUpdate, first, s) = a[n]

LEMMA LateTraceExists ==
  ASSUME NEW first, NEW s, NEW n \in Nat, DOMAIN s = 1..n
  PROVE  \E a : LateTrace(first, s, n, a)
<1> DEFINE Folds(k, f) ==
      \A x \in SUBSET (1..k) : f[x] = IF x = {} THEN first ELSE LateUpdate(f[x \ {Max(x)}], s[Max(x)])
           S == {k \in Nat : \E f : Folds(k, f)}
<1>1. 0 \in S
  <2> DEFINE f == [x \in SUBSET (1..0) |-> first]
  <2>1. \A x \in SUBSET (1..0) : x = {}
    OBVIOUS
  <2>2. Folds(0, f)
    BY <2>1
  <2> QED BY <2>2, Zenon
<1>2. ASSUME NEW k \in Nat, k \in S PROVE k + 1 \in S
  <2>1. PICK f : Folds(k, f)
    BY <1>2, Zenon
  <2> DEFINE g == [x \in SUBSET (1..(k + 1)) |->
                     IF k + 1 \in x THEN LateUpdate(f[x \ {k + 1}], s[k + 1]) ELSE f[x]]
  <2>2. ASSUME NEW x \in SUBSET (1..(k + 1)), k + 1 \in x
        PROVE  g[x] = IF x = {} THEN first ELSE LateUpdate(g[x \ {Max(x)}], s[Max(x)])
    <3>1. /\ x \ {k + 1} \in SUBSET (1..k) /\ x \ {k + 1} \in SUBSET (1..(k + 1))
          /\ Max(x) = k + 1
      BY <2>2, MaxIs
    <3>2. g[x \ {k + 1}] = f[x \ {k + 1}]
      BY <3>1
    <3>3. g[x] = LateUpdate(f[x \ {k + 1}], s[k + 1])
      BY <2>2
    <3> HIDE DEF g
    <3> QED BY <2>2, <3>1, <3>2, <3>3
  <2>3. ASSUME NEW x \in SUBSET (1..(k + 1)), k + 1 \notin x
        PROVE  g[x] = IF x = {} THEN first ELSE LateUpdate(g[x \ {Max(x)}], s[Max(x)])
    <3>1. x \in SUBSET (1..k) /\ g[x] = f[x]
      BY <2>3
    <3>2. /\ k + 1 \notin x \ {Max(x)} /\ x \ {Max(x)} \in SUBSET (1..(k + 1))
          /\ g[x \ {Max(x)}] = f[x \ {Max(x)}]
      BY <2>3, Zenon
    <3>3. f[x] = IF x = {} THEN first ELSE LateUpdate(f[x \ {Max(x)}], s[Max(x)])
      BY <2>1, <3>1, Zenon
    <3> HIDE DEF g, Folds
    <3> QED BY <3>1, <3>2, <3>3
  <2> HIDE DEF g
  <2>4. Folds(k + 1, g)
    BY <2>2, <2>3, Zenon
  <2>5. k + 1 \in Nat
    OBVIOUS
  <2> HIDE DEF Folds
  <2> QED BY <2>4, <2>5
<1> HIDE DEF S
<1>3. n \in S
  BY <1>1, <1>2, FromZero
<1> DEFINE iter == CHOOSE f : f = [x \in SUBSET (1..n) |->
                                     IF x = {} THEN first ELSE LateUpdate(f[x \ {Max(x)}], s[Max(x)])]
<1>4. Folds(n, iter)
  <2>1. PICK f : Folds(n, f)
    BY <1>3, Zenon DEF S
  <2> DEFINE g == [x \in SUBSET (1..n) |-> f[x]]
  <2>2. \A x \in SUBSET (1..n) : g[x] = IF x = {} THEN first ELSE LateUpdate(g[x \ {Max(x)}], s[Max(x)])
    <3>1. \A x \in SUBSET (1..n) : g[x] = f[x] /\ g[x \ {Max(x)}] = f[x \ {Max(x)}]
      BY Zenon
    <3> HIDE DEF g
    <3> QED BY <2>1, <3>1, Zenon
  <2>3. g = [x \in SUBSET (1..n) |-> IF x = {} THEN first ELSE LateUpdate(g[x \ {Max(x)}], s[Max(x)])]
    BY <2>2, Zenon
  <2>4. iter = [x \in SUBSET (1..n) |-> IF x = {} THEN first ELSE LateUpdate(iter[x \ {Max(x)}], s[Max(x)])]
    <3> HIDE DEF g
    <3> QED BY <2>3, Zenon
  <2> HIDE DEF iter
  <2> QED BY <2>4, Zenon
<1>5. FoldLeft(LateUpdate, first, s) = iter[1..n]
  BY DEF FoldLeft, MapThenFoldSet
<1> HIDE DEF iter
<1> DEFINE a == [i \in 0..n |-> iter[1..i]]
<1>6. a[0] = first
  <2>1. 1..0 = {} /\ {} \in SUBSET (1..n) /\ 0 \in 0..n
    OBVIOUS
  <2> QED BY <1>4, <2>1, Zenon
<1>7. ASSUME NEW i \in 1..n PROVE a[i] = LateUpdate(a[i - 1], s[i])
  <2>1. /\ 1..i \in SUBSET (1..n) /\ 1..i # {} /\ Max(1..i) = i /\ (1..i) \ {i} = 1..(i - 1)
        /\ i - 1 \in 0..n
    BY MaxIs
  <2>2. a[i] = iter[1..i] /\ a[i - 1] = iter[1..(i - 1)]
    BY <2>1
  <2> HIDE DEF a
  <2> QED BY <1>4, <2>1, <2>2, Zenon
<1>8. FoldLeft(LateUpdate, first, s) = a[n]
  BY <1>5
<1> HIDE DEF a
<1>9. LateTrace(first, s, n, a)
  BY <1>6, <1>7, <1>8 DEF LateTrace
<1> QED BY <1>9
(* The calls after each event.                                              *)
EventTrace(base, s, n, a) ==
  /\ a[0] = base /\ \A i \in 1..n : a[i] = FoldEvent(a[i - 1], s[i])
  /\ FoldLeft(FoldEvent, base, s) = a[n]

LEMMA EventTraceExists ==
  ASSUME NEW base, NEW s, NEW n \in Nat, DOMAIN s = 1..n
  PROVE  \E a : EventTrace(base, s, n, a)
<1> DEFINE Folds(k, f) ==
      \A x \in SUBSET (1..k) : f[x] = IF x = {} THEN base ELSE FoldEvent(f[x \ {Max(x)}], s[Max(x)])
           S == {k \in Nat : \E f : Folds(k, f)}
<1>1. 0 \in S
  <2> DEFINE f == [x \in SUBSET (1..0) |-> base]
  <2>1. \A x \in SUBSET (1..0) : x = {}
    OBVIOUS
  <2>2. Folds(0, f)
    BY <2>1
  <2> QED BY <2>2, Zenon
<1>2. ASSUME NEW k \in Nat, k \in S PROVE k + 1 \in S
  <2>1. PICK f : Folds(k, f)
    BY <1>2, Zenon
  <2> DEFINE g == [x \in SUBSET (1..(k + 1)) |->
                     IF k + 1 \in x THEN FoldEvent(f[x \ {k + 1}], s[k + 1]) ELSE f[x]]
  <2>2. ASSUME NEW x \in SUBSET (1..(k + 1)), k + 1 \in x
        PROVE  g[x] = IF x = {} THEN base ELSE FoldEvent(g[x \ {Max(x)}], s[Max(x)])
    <3>1. /\ x \ {k + 1} \in SUBSET (1..k) /\ x \ {k + 1} \in SUBSET (1..(k + 1))
          /\ Max(x) = k + 1
      BY <2>2, MaxIs
    <3>2. g[x \ {k + 1}] = f[x \ {k + 1}]
      BY <3>1
    <3>3. g[x] = FoldEvent(f[x \ {k + 1}], s[k + 1])
      BY <2>2
    <3> HIDE DEF g
    <3> QED BY <2>2, <3>1, <3>2, <3>3
  <2>3. ASSUME NEW x \in SUBSET (1..(k + 1)), k + 1 \notin x
        PROVE  g[x] = IF x = {} THEN base ELSE FoldEvent(g[x \ {Max(x)}], s[Max(x)])
    <3>1. x \in SUBSET (1..k) /\ g[x] = f[x]
      BY <2>3
    <3>2. /\ k + 1 \notin x \ {Max(x)} /\ x \ {Max(x)} \in SUBSET (1..(k + 1))
          /\ g[x \ {Max(x)}] = f[x \ {Max(x)}]
      BY <2>3, Zenon
    <3>3. f[x] = IF x = {} THEN base ELSE FoldEvent(f[x \ {Max(x)}], s[Max(x)])
      BY <2>1, <3>1, Zenon
    <3> HIDE DEF g, Folds
    <3> QED BY <3>1, <3>2, <3>3
  <2> HIDE DEF g
  <2>4. Folds(k + 1, g)
    BY <2>2, <2>3, Zenon
  <2>5. k + 1 \in Nat
    OBVIOUS
  <2> HIDE DEF Folds
  <2> QED BY <2>4, <2>5
<1> HIDE DEF S
<1>3. n \in S
  BY <1>1, <1>2, FromZero
<1> DEFINE iter == CHOOSE f : f = [x \in SUBSET (1..n) |->
                                     IF x = {} THEN base ELSE FoldEvent(f[x \ {Max(x)}], s[Max(x)])]
<1>4. Folds(n, iter)
  <2>1. PICK f : Folds(n, f)
    BY <1>3, Zenon DEF S
  <2> DEFINE g == [x \in SUBSET (1..n) |-> f[x]]
  <2>2. \A x \in SUBSET (1..n) : g[x] = IF x = {} THEN base ELSE FoldEvent(g[x \ {Max(x)}], s[Max(x)])
    <3>1. \A x \in SUBSET (1..n) : g[x] = f[x] /\ g[x \ {Max(x)}] = f[x \ {Max(x)}]
      BY Zenon
    <3> HIDE DEF g
    <3> QED BY <2>1, <3>1, Zenon
  <2>3. g = [x \in SUBSET (1..n) |-> IF x = {} THEN base ELSE FoldEvent(g[x \ {Max(x)}], s[Max(x)])]
    BY <2>2, Zenon
  <2>4. iter = [x \in SUBSET (1..n) |-> IF x = {} THEN base ELSE FoldEvent(iter[x \ {Max(x)}], s[Max(x)])]
    <3> HIDE DEF g
    <3> QED BY <2>3, Zenon
  <2> HIDE DEF iter
  <2> QED BY <2>4, Zenon
<1>5. FoldLeft(FoldEvent, base, s) = iter[1..n]
  BY DEF FoldLeft, MapThenFoldSet
<1> HIDE DEF iter
<1> DEFINE a == [i \in 0..n |-> iter[1..i]]
<1>6. a[0] = base
  <2>1. 1..0 = {} /\ {} \in SUBSET (1..n) /\ 0 \in 0..n
    OBVIOUS
  <2> QED BY <1>4, <2>1, Zenon
<1>7. ASSUME NEW i \in 1..n PROVE a[i] = FoldEvent(a[i - 1], s[i])
  <2>1. /\ 1..i \in SUBSET (1..n) /\ 1..i # {} /\ Max(1..i) = i /\ (1..i) \ {i} = 1..(i - 1)
        /\ i - 1 \in 0..n
    BY MaxIs
  <2>2. a[i] = iter[1..i] /\ a[i - 1] = iter[1..(i - 1)]
    BY <2>1
  <2> HIDE DEF a
  <2> QED BY <1>4, <2>1, <2>2, Zenon
<1>8. FoldLeft(FoldEvent, base, s) = a[n]
  BY <1>5
<1> HIDE DEF a
<1>9. EventTrace(base, s, n, a)
  BY <1>6, <1>7, <1>8 DEF EventTrace
<1> QED BY <1>9
-----------------------------------------------------------------------------
(* The commands of the agent *)

Sources == {"none", "initial", "update"}
Sourced(P) == [source : Sources,
               value : {Absent} \cup {patch[name] : patch \in P, name \in Fields}]
Folded(P) == [seenInitial : BOOLEAN, pending : Seq(P), rawAtFirst : BOOLEAN, field : [Fields -> Sourced(P)]]

Applied(g, f, patch, source, P) ==
  /\ g \in Folded(P) /\ g.seenInitial = f.seenInitial /\ g.pending = f.pending
  /\ \A name \in Fields :
       g.field[name] = IF patch[name] = Absent THEN f.field[name] ELSE [source |-> source, value |-> patch[name]]

LEMMA ApplyIs ==
  ASSUME NEW P, NEW f, NEW patch, NEW source, f \in Folded(P), patch \in P, source \in Sources
  PROVE  Applied(ApplyPatch(f, patch, source), f, patch, source, P)
<1> DEFINE field == [name \in Fields |->
                       IF patch[name] = Absent THEN f.field[name]
                       ELSE [source |-> source, value |-> patch[name]]]
<1>1. ApplyPatch(f, patch, source) = [f EXCEPT !.field = field]
  BY DEF ApplyPatch
<1>2. field \in [Fields -> Sourced(P)]
  <2>1. f.field \in [Fields -> Sourced(P)]
    BY DEF Folded
  <2>2. \A name \in Fields : [source |-> source, value |-> patch[name]] \in Sourced(P)
    BY DEF Sourced
  <2> QED BY <2>1, <2>2
<1>3. \A name \in Fields :
        field[name] = IF patch[name] = Absent THEN f.field[name] ELSE [source |-> source, value |-> patch[name]]
  OBVIOUS
<1> HIDE DEF field
<1>4. [f EXCEPT !.field = field] \in Folded(P) /\ [f EXCEPT !.field = field].seenInitial = f.seenInitial
      /\ [f EXCEPT !.field = field].pending = f.pending /\ [f EXCEPT !.field = field].field = field
  BY <1>2 DEF Folded
<1> QED BY <1>1, <1>3, <1>4 DEF Applied

(* What the updates that waited for a call make of it: of every field the   *)
(* last value that one of them gives.                                       *)
LateTo(f, first, pending, k) ==
  /\ f.seenInitial = first.seenInitial /\ f.pending = first.pending
  /\ \A name \in Fields :
       /\ (\A j \in 1..k : pending[j][name] = Absent) => f.field[name] = first.field[name]
       /\ \A j \in 1..k :
            pending[j][name] # Absent /\ (\A m \in 1..k : m > j => pending[m][name] = Absent) =>
              f.field[name] = [source |-> "update", value |-> pending[j][name]]

LEMMA LateResult ==
  ASSUME NEW P, NEW first \in Folded(P), NEW pending \in Seq(P)
  PROVE  /\ FoldLeft(LateUpdate, first, pending) \in Folded(P)
         /\ LateTo(FoldLeft(LateUpdate, first, pending), first, pending, Len(pending))
<1> DEFINE n == Len(pending)
<1>1. n \in Nat /\ DOMAIN pending = 1..n /\ \A i \in 1..n : pending[i] \in P
  OBVIOUS
<1> HIDE DEF n
<1>2. PICK a : LateTrace(first, pending, n, a)
  BY <1>1, LateTraceExists, Zenon
<1>3. /\ a[0] = first /\ \A i \in 1..n : a[i] = LateUpdate(a[i - 1], pending[i])
      /\ FoldLeft(LateUpdate, first, pending) = a[n]
  BY <1>2 DEF LateTrace
<1> DEFINE S == {k \in Nat : k <= n => a[k] \in Folded(P) /\ LateTo(a[k], first, pending, k)}
<1>4. 0 \in S
  <2>1. LateTo(first, first, pending, 0)
    BY DEF LateTo
  <2> QED BY <1>3, <2>1
<1>5. ASSUME NEW k \in Nat, k \in S PROVE k + 1 \in S
  <2> SUFFICES ASSUME k + 1 <= n PROVE a[k + 1] \in Folded(P) /\ LateTo(a[k + 1], first, pending, k + 1)
    OBVIOUS
  <2>1. k <= n /\ k + 1 \in 1..n /\ (k + 1) - 1 = k
    BY <1>1
  <2>2. a[k] \in Folded(P) /\ LateTo(a[k], first, pending, k) /\ pending[k + 1] \in P
    BY <1>1, <1>5, <2>1
  <2>3. a[k + 1] = ApplyPatch(a[k], pending[k + 1], "update")
    BY <1>3, <2>1, Zenon DEF LateUpdate
  <2> HIDE DEF S
  <2>4. /\ a[k + 1] \in Folded(P) /\ a[k + 1].seenInitial = first.seenInitial /\ a[k + 1].pending = first.pending
        /\ \A name \in Fields :
             a[k + 1].field[name] = IF pending[k + 1][name] = Absent THEN a[k].field[name]
                                    ELSE [source |-> "update", value |-> pending[k + 1][name]]
    <3>1. a[k].seenInitial = first.seenInitial /\ a[k].pending = first.pending
      BY <2>2 DEF LateTo
    <3>2. a[k] \in Folded(P) /\ pending[k + 1] \in P
      BY <2>2
    <3>3. Applied(a[k + 1], a[k], pending[k + 1], "update", P)
      <4>1. "update" \in Sources
        BY DEF Sources
      <4> QED BY ONLY <2>3, <3>2, <4>1, ApplyIs
    <3> QED BY <3>1, <3>3 DEF Applied
  <2>5. 1..(k + 1) = (1..k) \cup {k + 1} /\ \A j \in 1..k : k + 1 > j
    OBVIOUS
  <2>6. ASSUME NEW name \in Fields, \A j \in 1..(k + 1) : pending[j][name] = Absent
        PROVE  a[k + 1].field[name] = first.field[name]
    <3>1. pending[k + 1][name] = Absent /\ \A j \in 1..k : pending[j][name] = Absent
      BY <2>5, <2>6
    <3> QED BY <2>2, <2>4, <3>1, Zenon DEF LateTo
  <2>7. ASSUME NEW name \in Fields, NEW j \in 1..(k + 1), pending[j][name] # Absent,
               \A m \in 1..(k + 1) : m > j => pending[m][name] = Absent
        PROVE  a[k + 1].field[name] = [source |-> "update", value |-> pending[j][name]]
    <3>1. CASE j = k + 1
      BY <2>4, <2>7, <3>1
    <3>2. CASE j \in 1..k
      <4>1. pending[k + 1][name] = Absent /\ \A m \in 1..k : m > j => pending[m][name] = Absent
        BY <2>5, <2>7, <3>2
      <4>2. a[k].field[name] = [source |-> "update", value |-> pending[j][name]]
        BY <2>2, <2>7, <3>2, <4>1 DEF LateTo
      <4> QED BY <2>4, <4>1, <4>2, Zenon
    <3> QED BY <2>5, <3>1, <3>2
  <2>8. LateTo(a[k + 1], first, pending, k + 1)
    BY <2>4, <2>6, <2>7 DEF LateTo
  <2> QED BY <2>4, <2>8
<1> HIDE DEF S
<1>6. n \in S
  BY <1>1, <1>4, <1>5, FromZero
<1> QED BY <1>1, <1>3, <1>6 DEF S, n

-----------------------------------------------------------------------------
(* The events of one call among the first k, and what they come to *)

SaysNow(events, id, name, i) ==
  events[i].id = id /\ events[i].type = "tool_call_update" /\ events[i].patch[name] # Absent
SaysTo(events, id, name, k) == {i \in 1..k : SaysNow(events, id, name, i)}
StartsTo(events, id, k) == {i \in 1..k : events[i].id = id /\ events[i].type = "tool_call"}

LEMMA LeastIs ==
  ASSUME NEW S \in SUBSET Nat, NEW m \in S
  PROVE  /\ Least(S) \in S /\ \A j \in S : Least(S) <= j
         /\ (\A j \in S : m <= j) => Least(S) = m
<1>1. Least(S) \in S /\ \A j \in S : Least(S) <= j
  BY LeastNumber, Zenon DEF Least
<1>2. (\A j \in S : m <= j) => Least(S) = m
  <2>1. \A z \in S : z <= m /\ m <= z => z = m
    OBVIOUS
  <2> QED BY <1>1, <2>1, Zenon
<1> QED BY <1>1, <1>2

LEMMA GreatestIs ==
  ASSUME NEW S \in SUBSET Nat, NEW m \in S, \A j \in S : m >= j
  PROVE  Greatest(S) = m
<1>1. Greatest(S) \in S /\ \A j \in S : Greatest(S) >= j
  BY Zenon DEF Greatest
<1>2. \A z \in S : z >= m /\ m >= z => z = m
  OBVIOUS
<1> QED BY <1>1, <1>2, Zenon

LEMMA SaysGrows ==
  ASSUME NEW events, NEW id, NEW name, NEW k \in Nat
  PROVE  /\ SaysTo(events, id, name, 0) = {}
         /\ SaysNow(events, id, name, k + 1) =>
              /\ SaysTo(events, id, name, k + 1) # {}
              /\ Greatest(SaysTo(events, id, name, k + 1)) = k + 1
         /\ ~SaysNow(events, id, name, k + 1) =>
              SaysTo(events, id, name, k + 1) = SaysTo(events, id, name, k)
<1> DEFINE new == SaysNow(events, id, name, k + 1)
<1>1. SaysTo(events, id, name, 0) = {}
  BY DEF SaysTo
<1>2. ~new => SaysTo(events, id, name, k + 1) = SaysTo(events, id, name, k)
  <2>1. \A i \in 1..(k + 1) : i \in 1..k \/ i = k + 1
    OBVIOUS
  <2>2. 1..k \subseteq 1..(k + 1)
    OBVIOUS
  <2> QED BY <2>1, <2>2 DEF SaysTo
<1>3. new => k + 1 \in SaysTo(events, id, name, k + 1)
  BY DEF SaysTo
<1>4. /\ SaysTo(events, id, name, k + 1) \in SUBSET Nat
      /\ \A j \in SaysTo(events, id, name, k + 1) : k + 1 >= j
  BY DEF SaysTo
<1> QED BY <1>1, <1>2, <1>3, <1>4, GreatestIs

LEMMA StartsGrow ==
  ASSUME NEW events, NEW id, NEW k \in Nat
  PROVE  /\ StartsTo(events, id, 0) = {} /\ StartsTo(events, id, k) \in SUBSET (1..k)
         /\ IF events[k + 1].id = id /\ events[k + 1].type = "tool_call"
            THEN StartsTo(events, id, k + 1) = StartsTo(events, id, k) \cup {k + 1}
            ELSE StartsTo(events, id, k + 1) = StartsTo(events, id, k)
         /\ StartsTo(events, id, k) # {} =>
              /\ Least(StartsTo(events, id, k)) \in 1..k
              /\ Least(StartsTo(events, id, k + 1)) = Least(StartsTo(events, id, k))
         /\ StartsTo(events, id, k) = {} /\ StartsTo(events, id, k + 1) # {} =>
              Least(StartsTo(events, id, k + 1)) = k + 1
<1>1. StartsTo(events, id, 0) = {} /\ StartsTo(events, id, k) \in SUBSET (1..k)
  BY DEF StartsTo
<1>2. IF events[k + 1].id = id /\ events[k + 1].type = "tool_call"
      THEN StartsTo(events, id, k + 1) = StartsTo(events, id, k) \cup {k + 1}
      ELSE StartsTo(events, id, k + 1) = StartsTo(events, id, k)
  <2>1. \A i : i \in 1..(k + 1) <=> i \in 1..k \/ i = k + 1
    OBVIOUS
  <2> QED BY <2>1 DEF StartsTo
<1>3. ASSUME StartsTo(events, id, k) # {}
      PROVE  /\ Least(StartsTo(events, id, k)) \in 1..k
             /\ Least(StartsTo(events, id, k + 1)) = Least(StartsTo(events, id, k))
  <2> DEFINE l == Least(StartsTo(events, id, k))
  <2>1. StartsTo(events, id, k) \in SUBSET Nat
    BY <1>1
  <2>2. l \in StartsTo(events, id, k) /\ \A j \in StartsTo(events, id, k) : l <= j
    BY <1>3, <2>1, LeastIs
  <2> HIDE DEF l
  <2>3. l \in 1..k /\ l <= k + 1
    BY <1>1, <2>2
  <2>4. StartsTo(events, id, k + 1) \in SUBSET Nat /\ l \in StartsTo(events, id, k + 1)
    BY <1>2, <2>1, <2>2
  <2>5. \A j \in StartsTo(events, id, k + 1) : l <= j
    BY <1>2, <2>2, <2>3
  <2>6. Least(StartsTo(events, id, k + 1)) = l
    BY <2>4, <2>5, LeastIs
  <2> QED BY <2>3, <2>6 DEF l
<1>4. ASSUME StartsTo(events, id, k) = {}, StartsTo(events, id, k + 1) # {}
      PROVE  Least(StartsTo(events, id, k + 1)) = k + 1
  <2>1. StartsTo(events, id, k + 1) = {k + 1}
    BY <1>2, <1>4
  <2> HIDE <1>4
  <2> QED BY <2>1, LeastIs
<1> QED BY <1>1, <1>2, <1>3, <1>4

(* What a call is after the first k events: before it has begun, the        *)
(* updates wait; then each field is what the last update said of it, or     *)
(* else what the call itself did.                                           *)
WaitsFor(pending, events, id, k) ==
  \A name \in Fields :
    IF SaysTo(events, id, name, k) = {} THEN \A j \in DOMAIN pending : pending[j][name] = Absent
    ELSE \E j \in DOMAIN pending :
           /\ pending[j][name] # Absent
           /\ pending[j][name] = events[Greatest(SaysTo(events, id, name, k))].patch[name]
           /\ \A m \in DOMAIN pending : m > j => pending[m][name] = Absent

FieldTo(events, id, name, k) ==
  IF SaysTo(events, id, name, k) # {}
  THEN [source |-> "update", value |-> events[Greatest(SaysTo(events, id, name, k))].patch[name]]
  ELSE LET value == events[Least(StartsTo(events, id, k))].patch[name] IN
       [source |-> IF value = Absent THEN "none" ELSE "initial", value |-> value]

CallTo(call, P, events, id, k) ==
  /\ call \in Folded(P)
  /\ call.seenInitial <=> StartsTo(events, id, k) # {}
  /\ ~call.seenInitial => call.field = Unfolded.field /\ WaitsFor(call.pending, events, id, k)
  /\ call.seenInitial => \A name \in Fields : call.field[name] = FieldTo(events, id, name, k)

LEMMA UnfoldedIs ==
  ASSUME NEW P, NEW events, NEW id
  PROVE  CallTo(Unfolded, P, events, id, 0)
<1>1. Unfolded \in Folded(P) /\ Unfolded.seenInitial = FALSE /\ Unfolded.pending = <<>>
  <2>1. <<>> \in Seq(P) /\ [source |-> "none", value |-> Absent] \in Sourced(P)
    BY DEF Sourced, Sources
  <2> QED BY <2>1 DEF Unfolded, Folded
<1>2. StartsTo(events, id, 0) = {} /\ \A name : SaysTo(events, id, name, 0) = {}
  <2>1. \A name : SaysTo(events, id, name, 0) = {}
    BY SaysGrows
  <2> QED BY <2>1, StartsGrow
<1>3. DOMAIN Unfolded.pending = {}
  BY <1>1
<1>4. WaitsFor(Unfolded.pending, events, id, 0)
  BY <1>2, <1>3 DEF WaitsFor
<1> QED BY <1>1, <1>2, <1>4 DEF CallTo

(* An event of another call.                                                *)
LEMMA OtherCall ==
  ASSUME NEW P, NEW events, NEW id, NEW k \in Nat, NEW call, CallTo(call, P, events, id, k),
         events[k + 1].id # id
  PROVE  CallTo(call, P, events, id, k + 1)
<1>1. StartsTo(events, id, k + 1) = StartsTo(events, id, k)
  BY StartsGrow
<1>2. ASSUME NEW name PROVE SaysTo(events, id, name, k + 1) = SaysTo(events, id, name, k)
  <2>1. ~SaysNow(events, id, name, k + 1)
    BY DEF SaysNow
  <2> QED BY <2>1, SaysGrows
<1>3. WaitsFor(call.pending, events, id, k) => WaitsFor(call.pending, events, id, k + 1)
  BY <1>2 DEF WaitsFor
<1>4. \A name : FieldTo(events, id, name, k + 1) = FieldTo(events, id, name, k)
  BY <1>1, <1>2 DEF FieldTo
<1> QED BY <1>1, <1>3, <1>4 DEF CallTo

(* A call that has begun already.                                           *)
LEMMA BegunCall ==
  ASSUME NEW P, NEW events, NEW id, NEW k \in Nat, NEW call, CallTo(call, P, events, id, k),
         call.seenInitial, events[k + 1].id = id, events[k + 1].type \in {"tool_call", "tool_call_update"},
         events[k + 1].patch \in P
  PROVE  CallTo(FoldCall(call, events[k + 1]), P, events, id, k + 1)
<1> DEFINE event == events[k + 1]
           next == FoldCall(call, event)
<1>1. /\ call \in Folded(P) /\ StartsTo(events, id, k) # {}
      /\ \A name \in Fields : call.field[name] = FieldTo(events, id, name, k)
  BY DEF CallTo
<1>2. /\ StartsTo(events, id, k + 1) # {}
      /\ Least(StartsTo(events, id, k + 1)) = Least(StartsTo(events, id, k))
  BY <1>1, StartsGrow
<1>3. CASE event.type = "tool_call"
  <2>1. next = call
    BY <1>3 DEF FoldCall
  <2>2. ASSUME NEW name PROVE SaysTo(events, id, name, k + 1) = SaysTo(events, id, name, k)
    <3>1. ~SaysNow(events, id, name, k + 1)
      BY <1>3 DEF SaysNow
    <3> QED BY <3>1, SaysGrows
  <2>3. \A name : FieldTo(events, id, name, k + 1) = FieldTo(events, id, name, k)
    BY <1>2, <2>2 DEF FieldTo
  <2> HIDE DEF next
  <2>4. CallTo(next, P, events, id, k + 1)
    BY <1>1, <1>2, <2>1, <2>3 DEF CallTo
  <2> QED BY <2>4 DEF next
<1>4. CASE event.type = "tool_call_update"
  <2>1. next = ApplyPatch(call, event.patch, "update")
    BY <1>4 DEF FoldCall, LateUpdate
  <2> HIDE DEF next
  <2>2. /\ next \in Folded(P) /\ next.seenInitial = call.seenInitial
        /\ \A name \in Fields : next.field[name] = IF event.patch[name] = Absent THEN call.field[name]
                                                   ELSE [source |-> "update", value |-> event.patch[name]]
    <3>1. "update" \in Sources /\ event.patch \in P
      BY DEF Sources
    <3>2. Applied(next, call, event.patch, "update", P)
      <4> HIDE DEF event
      <4> QED BY ONLY <1>1, <2>1, <3>1, ApplyIs
    <3> QED BY <3>2 DEF Applied
  <2>3. ASSUME NEW name \in Fields PROVE next.field[name] = FieldTo(events, id, name, k + 1)
    <3>1. CASE event.patch[name] = Absent
      <4>1. SaysTo(events, id, name, k + 1) = SaysTo(events, id, name, k)
        <5>1. ~SaysNow(events, id, name, k + 1)
          BY <3>1 DEF SaysNow
        <5> QED BY <5>1, SaysGrows
      <4>2. FieldTo(events, id, name, k + 1) = FieldTo(events, id, name, k)
        BY <1>2, <4>1 DEF FieldTo
      <4> QED BY <1>1, <2>2, <3>1, <4>2, Zenon
    <3>2. CASE event.patch[name] # Absent
      <4>1. /\ SaysTo(events, id, name, k + 1) # {}
            /\ Greatest(SaysTo(events, id, name, k + 1)) = k + 1
        <5>1. SaysNow(events, id, name, k + 1)
          BY <1>4, <3>2 DEF SaysNow
        <5> QED BY <5>1, SaysGrows
      <4> QED BY <2>2, <3>2, <4>1 DEF FieldTo
    <3> QED BY <3>1, <3>2
  <2>4. CallTo(next, P, events, id, k + 1)
    BY <1>1, <1>2, <2>2, <2>3 DEF CallTo
  <2> QED BY <2>4 DEF next
<1> QED BY <1>3, <1>4

(* An update that comes before its call.                                    *)
LEMMA EarlyUpdate ==
  ASSUME NEW P, NEW events, NEW id, NEW k \in Nat, NEW call, CallTo(call, P, events, id, k),
         ~call.seenInitial, events[k + 1].id = id, events[k + 1].type = "tool_call_update",
         events[k + 1].patch \in P
  PROVE  CallTo(FoldCall(call, events[k + 1]), P, events, id, k + 1)
<1> DEFINE patch == events[k + 1].patch
           next == FoldCall(call, events[k + 1])
           pending == Append(call.pending, patch)
           l == Len(call.pending)
<1>1. /\ call \in Folded(P) /\ StartsTo(events, id, k) = {} /\ call.field = Unfolded.field
      /\ WaitsFor(call.pending, events, id, k) /\ call.pending \in Seq(P) /\ l \in Nat
      /\ DOMAIN call.pending = 1..l
  BY DEF CallTo, Folded
<1>2. next = [call EXCEPT !.pending = pending]
  BY DEF FoldCall
<1>3. /\ pending \in Seq(P) /\ DOMAIN pending = 1..(l + 1) /\ pending[l + 1] = patch
      /\ \A j \in 1..l : pending[j] = call.pending[j] /\ j \in 1..(l + 1) /\ l + 1 > j
      /\ \A j \in 1..(l + 1) : j \in 1..l \/ j = l + 1
      /\ l + 1 \in 1..(l + 1)
  BY <1>1
<1> HIDE DEF pending, l, next
<1>4. next \in Folded(P) /\ ~next.seenInitial /\ next.pending = pending /\ next.field = call.field
  <2>1. /\ [call EXCEPT !.pending = pending] \in Folded(P)
        /\ [call EXCEPT !.pending = pending].seenInitial = call.seenInitial
        /\ [call EXCEPT !.pending = pending].pending = pending
        /\ [call EXCEPT !.pending = pending].field = call.field
    BY <1>1, <1>3 DEF Folded
  <2> QED BY <1>2, <2>1
<1>5. StartsTo(events, id, k + 1) = {}
  <2>1. ~(events[k + 1].id = id /\ events[k + 1].type = "tool_call")
    OBVIOUS
  <2>2. StartsTo(events, id, k + 1) = StartsTo(events, id, k)
    BY <2>1, StartsGrow
  <2> QED BY <1>1, <2>2
<1>6. ASSUME NEW name \in Fields, patch[name] = Absent
      PROVE  IF SaysTo(events, id, name, k + 1) = {} THEN \A j \in 1..(l + 1) : pending[j][name] = Absent
             ELSE \E j \in 1..(l + 1) :
                    /\ pending[j][name] # Absent
                    /\ pending[j][name] = events[Greatest(SaysTo(events, id, name, k + 1))].patch[name]
                    /\ \A m \in 1..(l + 1) : m > j => pending[m][name] = Absent
  <2>1. SaysTo(events, id, name, k + 1) = SaysTo(events, id, name, k)
    <3>1. ~SaysNow(events, id, name, k + 1)
      BY <1>6 DEF SaysNow
    <3> QED BY <3>1, SaysGrows
  <2>2. CASE SaysTo(events, id, name, k) = {}
    <3>1. \A j \in 1..l : call.pending[j][name] = Absent
      BY <1>1, <2>2 DEF WaitsFor
    <3> QED BY <1>3, <1>6, <2>1, <2>2, <3>1
  <2>3. CASE SaysTo(events, id, name, k) # {}
    <3>1. PICK j \in 1..l :
            /\ call.pending[j][name] # Absent
            /\ call.pending[j][name] = events[Greatest(SaysTo(events, id, name, k))].patch[name]
            /\ \A m \in 1..l : m > j => call.pending[m][name] = Absent
      BY <1>1, <2>3 DEF WaitsFor
    <3>2. \A m \in 1..(l + 1) : m > j => pending[m][name] = Absent
      BY <1>3, <1>6, <3>1
    <3>3. j \in 1..(l + 1) /\ pending[j] = call.pending[j]
      BY <1>3
    <3> QED BY <2>1, <2>3, <3>1, <3>2, <3>3
  <2> QED BY <2>2, <2>3
<1>7. ASSUME NEW name \in Fields, patch[name] # Absent
      PROVE  /\ SaysTo(events, id, name, k + 1) # {}
             /\ pending[l + 1][name] = events[Greatest(SaysTo(events, id, name, k + 1))].patch[name]
  <2>1. SaysNow(events, id, name, k + 1)
    BY <1>7 DEF SaysNow
  <2>2. SaysTo(events, id, name, k + 1) # {} /\ Greatest(SaysTo(events, id, name, k + 1)) = k + 1
    BY <2>1, SaysGrows, Zenon
  <2> QED BY <1>3, <2>2
<1>8. \A m \in 1..(l + 1) : ~(m > l + 1)
  BY <1>1
<1>9. WaitsFor(pending, events, id, k + 1)
  BY <1>3, <1>6, <1>7, <1>8 DEF WaitsFor
<1>10. CallTo(next, P, events, id, k + 1)
  BY <1>1, <1>4, <1>5, <1>9 DEF CallTo
<1> QED BY <1>10 DEF next

(* A call that begins.                                                      *)
LEMMA BeginningCall ==
  ASSUME NEW P, NEW events, NEW id, NEW k \in Nat, NEW call, CallTo(call, P, events, id, k),
         ~call.seenInitial, events[k + 1].id = id, events[k + 1].type = "tool_call",
         events[k + 1].patch \in P
  PROVE  CallTo(FoldCall(call, events[k + 1]), P, events, id, k + 1)
<1> DEFINE event == events[k + 1]
           begun == [call EXCEPT !.seenInitial = TRUE, !.pending = <<>>]
           first == ApplyPatch(begun, event.patch, "initial")
           marked == [first EXCEPT !.rawAtFirst = first.field["rawInput"].value = "command"]
           next == FoldCall(call, event)
<1>1. /\ call \in Folded(P) /\ StartsTo(events, id, k) = {} /\ call.field = Unfolded.field
      /\ WaitsFor(call.pending, events, id, k) /\ call.pending \in Seq(P)
  BY DEF CallTo, Folded
<1>2. next = FoldLeft(LateUpdate, marked, call.pending)
  BY DEF FoldCall
<1>3. begun \in Folded(P) /\ begun.seenInitial = TRUE /\ begun.field = Unfolded.field
  <2>1. <<>> \in Seq(P)
    OBVIOUS
  <2> QED BY <1>1, <2>1, Zenon DEF Folded
<1>4. /\ first \in Folded(P) /\ first.seenInitial = TRUE
      /\ \A name \in Fields : first.field[name] =
           IF event.patch[name] = Absent THEN Unfolded.field[name]
           ELSE [source |-> "initial", value |-> event.patch[name]]
  <2>1. "initial" \in Sources /\ event.patch \in P
    BY DEF Sources
  <2>2. Applied(first, begun, event.patch, "initial", P)
    <3> HIDE DEF begun, event
    <3> QED BY ONLY <1>3, <2>1, ApplyIs
  <2> HIDE DEF begun, first
  <2> QED BY <1>3, <2>2 DEF Applied
<1>5. marked \in Folded(P) /\ marked.seenInitial = TRUE /\ marked.field = first.field
  <2> HIDE DEF first
  <2>1. (first.field["rawInput"].value = "command") \in BOOLEAN
    OBVIOUS
  <2> QED BY <1>4, <2>1, Zenon DEF Folded
<1> HIDE DEF marked, next, first
<1>6. /\ next \in Folded(P) /\ next.seenInitial = TRUE
      /\ LateTo(next, marked, call.pending, Len(call.pending))
  <2>1. next \in Folded(P) /\ LateTo(next, marked, call.pending, Len(call.pending))
    BY <1>1, <1>2, <1>5, LateResult
  <2> QED BY <1>5, <2>1 DEF LateTo
<1>7. StartsTo(events, id, k + 1) # {} /\ Least(StartsTo(events, id, k + 1)) = k + 1
  <2>1. StartsTo(events, id, k + 1) = StartsTo(events, id, k) \cup {k + 1}
    BY StartsGrow, SMTT(20)
  <2>2. StartsTo(events, id, k + 1) # {}
    BY <2>1
  <2> QED BY <1>1, <2>2, StartsGrow, Zenon
<1>8. DOMAIN call.pending = 1..Len(call.pending)
  BY <1>1
<1>9. ASSUME NEW name \in Fields PROVE next.field[name] = FieldTo(events, id, name, k + 1)
  <2>1. SaysTo(events, id, name, k + 1) = SaysTo(events, id, name, k)
    <3>1. ~SaysNow(events, id, name, k + 1)
      BY DEF SaysNow
    <3> QED BY <3>1, SaysGrows
  <2>2. CASE SaysTo(events, id, name, k) = {}
    <3>1. next.field[name] = first.field[name]
      BY <1>1, <1>5, <1>6, <1>8, <2>2 DEF WaitsFor, LateTo
    <3>2. Unfolded.field[name] = [source |-> "none", value |-> Absent]
      BY DEF Unfolded
    <3>3. FieldTo(events, id, name, k + 1) =
            [source |-> IF event.patch[name] = Absent THEN "none" ELSE "initial", value |-> event.patch[name]]
      BY <1>7, <2>1, <2>2 DEF FieldTo
    <3> QED BY <1>4, <3>1, <3>2, <3>3, Zenon
  <2>3. CASE SaysTo(events, id, name, k) # {}
    <3>1. PICK j \in DOMAIN call.pending :
            /\ call.pending[j][name] # Absent
            /\ call.pending[j][name] = events[Greatest(SaysTo(events, id, name, k))].patch[name]
            /\ \A m \in DOMAIN call.pending : m > j => call.pending[m][name] = Absent
      BY <1>1, <2>3 DEF WaitsFor
    <3>2. next.field[name] = [source |-> "update", value |-> call.pending[j][name]]
      BY <1>6, <1>8, <3>1, SMTT(20) DEF LateTo
    <3> QED BY <2>1, <2>3, <3>1, <3>2 DEF FieldTo
  <2> QED BY <2>2, <2>3
<1>10. CallTo(next, P, events, id, k + 1)
  BY <1>6, <1>7, <1>9 DEF CallTo
<1> QED BY <1>10 DEF next

-----------------------------------------------------------------------------
(* An enumeration of a set by increasing rank; there is only one.           *)
Sorted(order, n, ids, rank) ==
  /\ \A i \in 1..n : order[i] \in ids
  /\ \A x \in ids : \E i \in 1..n : order[i] = x
  /\ \A i, j \in 1..n : i < j => rank[order[i]] < rank[order[j]]

Ranked(ids, rank) == \A x \in ids : rank[x] \in Nat
AgreeTo(a, b, n, k) == \A i \in 1..k : i <= n /\ a[i] = b[i]

LEMMA SortedNext ==
  ASSUME NEW ids, NEW rank, Ranked(ids, rank), NEW m \in Nat, NEW n \in Nat,
         NEW a, NEW b, Sorted(a, m, ids, rank), Sorted(b, n, ids, rank),
         NEW k \in Nat, k + 1 <= m, AgreeTo(a, b, n, k)
  PROVE  k + 1 <= n /\ a[k + 1] = b[k + 1]
<1>1. k + 1 \in 1..m /\ a[k + 1] \in ids /\ rank[a[k + 1]] \in Nat
  BY DEF Sorted, Ranked
<1>2. PICK j \in 1..n : b[j] = a[k + 1]
  BY <1>1 DEF Sorted
<1>3. j \notin 1..k
  <2> SUFFICES ASSUME j \in 1..k PROVE FALSE
    OBVIOUS
  <2>1. a[j] = a[k + 1] /\ j \in 1..m /\ j < k + 1
    BY <1>1, <1>2 DEF AgreeTo
  <2> QED BY <1>1, <2>1 DEF Sorted
<1>4. j >= k + 1 /\ k + 1 \in 1..n
  BY <1>3
<1>5. b[k + 1] \in ids /\ rank[b[k + 1]] \in Nat
  BY <1>4 DEF Sorted, Ranked
<1>6. PICK i \in 1..m : a[i] = b[k + 1]
  BY <1>5 DEF Sorted
<1>7. i \notin 1..k
  <2> SUFFICES ASSUME i \in 1..k PROVE FALSE
    OBVIOUS
  <2>1. b[i] = b[k + 1] /\ i \in 1..n /\ i < k + 1
    BY <1>4, <1>6 DEF AgreeTo
  <2> QED BY <1>4, <1>5, <2>1 DEF Sorted
<1>8. CASE j = k + 1
  BY <1>2, <1>4, <1>8
<1>9. CASE j > k + 1
  <2>1. rank[b[k + 1]] < rank[b[j]]
    BY <1>4, <1>9 DEF Sorted
  <2>2. i = k + 1 \/ i > k + 1
    BY <1>7
  <2>3. i > k + 1 => rank[a[k + 1]] < rank[a[i]]
    BY <1>1 DEF Sorted
  <2> QED BY <1>1, <1>2, <1>5, <1>6, <2>1, <2>2, <2>3
<1> QED BY <1>4, <1>8, <1>9

LEMMA SortedOnce ==
  ASSUME NEW ids, NEW rank, Ranked(ids, rank), NEW m \in Nat, NEW n \in Nat,
         NEW a, NEW b, Sorted(a, m, ids, rank), Sorted(b, n, ids, rank)
  PROVE  m = n /\ \A i \in 1..m : a[i] = b[i]
<1> DEFINE S == {k \in Nat : \A i \in 1..k : /\ i <= m => i <= n /\ a[i] = b[i]
                                             /\ i <= n => i <= m /\ a[i] = b[i]}
<1>1. 0 \in S
  OBVIOUS
<1>2. ASSUME NEW k \in Nat, k \in S PROVE k + 1 \in S
  <2>1. \A i \in 1..k : (i <= m => i <= n /\ a[i] = b[i]) /\ (i <= n => i <= m /\ a[i] = b[i])
    BY <1>2
  <2>2. k + 1 <= m => k + 1 <= n /\ a[k + 1] = b[k + 1]
    <3>1. k + 1 <= m => AgreeTo(a, b, n, k)
      BY <2>1 DEF AgreeTo
    <3>2. k \in Nat
      OBVIOUS
    <3> HIDE DEF S
    <3> QED BY <3>1, <3>2, SortedNext
  <2>3. k + 1 <= n => k + 1 <= m /\ a[k + 1] = b[k + 1]
    <3>1. k + 1 <= n => AgreeTo(b, a, m, k)
      BY <2>1 DEF AgreeTo
    <3>2. k \in Nat
      OBVIOUS
    <3> HIDE DEF S
    <3>3. k + 1 <= n => k + 1 <= m /\ b[k + 1] = a[k + 1]
      BY <3>1, <3>2, SortedNext
    <3> QED BY <3>3
  <2>4. \A i \in 1..(k + 1) : i \in 1..k \/ i = k + 1
    OBVIOUS
  <2> QED BY <2>1, <2>2, <2>3, <2>4
<1> HIDE DEF S
<1>3. m \in S /\ n \in S
  BY <1>1, <1>2, FromZero
<1>4. \A i \in 1..m : i <= n /\ a[i] = b[i]
  BY <1>3 DEF S
<1>5. \A i \in 1..n : i <= m
  BY <1>3 DEF S
<1>6. m = n
  <2>1. m = 0 \/ m \in 1..m
    OBVIOUS
  <2>2. n = 0 \/ n \in 1..n
    OBVIOUS
  <2>3. m <= n
    BY <1>4, <2>1
  <2>4. n <= m
    BY <1>5, <2>2
  <2> QED BY <2>3, <2>4
<1> QED BY <1>4, <1>6

LEMMA SortedMore ==
  ASSUME NEW T, NEW a \in Seq(T), NEW ids, NEW rank, NEW next, Sorted(a, Len(a), ids, rank),
         NEW x, x \in T, \A y \in ids : next[y] = rank[y] /\ next[y] < next[x]
  PROVE  /\ Append(a, x) \in Seq(T)
         /\ Sorted(Append(a, x), Len(Append(a, x)), ids \cup {x}, next)
<1> DEFINE n == Len(a)
           b == Append(a, x)
<1>1. n \in Nat /\ b \in Seq(T) /\ Len(b) = n + 1 /\ b[n + 1] = x /\ \A i \in 1..n : b[i] = a[i]
  OBVIOUS
<1>2. \A i \in 1..(n + 1) : i \in 1..n \/ i = n + 1
  OBVIOUS
<1>3. Sorted(a, n, ids, rank) /\ n + 1 \in 1..(n + 1) /\ \A i \in 1..n : i \in 1..(n + 1)
  OBVIOUS
<1> HIDE DEF n, b
<1>4. \A i \in 1..(n + 1) : b[i] \in ids \cup {x}
  BY <1>1, <1>2, <1>3 DEF Sorted
<1>5. ASSUME NEW y \in ids \cup {x} PROVE \E i \in 1..(n + 1) : b[i] = y
  <2>1. CASE y = x
    BY <1>1, <1>3, <2>1
  <2>2. CASE y \in ids
    <3>1. PICK i \in 1..n : a[i] = y
      BY <1>3, <2>2 DEF Sorted
    <3> QED BY <1>1, <1>3, <3>1
  <2> QED BY <2>1, <2>2
<1>6. ASSUME NEW i \in 1..(n + 1), NEW j \in 1..(n + 1), i < j PROVE next[b[i]] < next[b[j]]
  <2>1. i \in 1..n
    BY <1>1, <1>6
  <2>2. b[i] = a[i] /\ a[i] \in ids
    BY <1>1, <1>3, <2>1 DEF Sorted
  <2>3. CASE j = n + 1
    BY <1>1, <2>2, <2>3
  <2>4. CASE j \in 1..n
    <3>1. rank[a[i]] < rank[a[j]] /\ a[j] \in ids /\ b[j] = a[j]
      BY <1>1, <1>3, <1>6, <2>1, <2>4 DEF Sorted
    <3> QED BY <2>2, <3>1
  <2> QED BY <1>2, <2>3, <2>4
<1>7. Sorted(b, n + 1, ids \cup {x}, next)
  BY <1>4, <1>5, <1>6, Zenon DEF Sorted
<1> QED BY <1>1, <1>7 DEF b

LEMMA SortedCount ==
  ASSUME NEW ids, NEW rank, Ranked(ids, rank), NEW n \in Nat, NEW a, Sorted(a, n, ids, rank)
  PROVE  IsFiniteSet(ids) /\ Cardinality(ids) = n
<1> DEFINE f == [i \in 1..n |-> a[i]]
<1>1. f \in [1..n -> ids] /\ \A x \in ids : \E i \in 1..n : f[i] = x
  BY DEF Sorted
<1>2. ASSUME NEW i \in 1..n, NEW j \in 1..n, f[i] = f[j] PROVE i = j
  <2>1. a[i] = a[j] /\ a[i] \in ids /\ rank[a[i]] \in Nat
    BY <1>2 DEF Sorted, Ranked
  <2>2. ~(i < j) /\ ~(j < i)
    BY <2>1 DEF Sorted
  <2> QED BY <2>2
<1> HIDE DEF f
<1>3. f \in Bijection(1..n, ids)
  BY <1>1, <1>2 DEF Bijection, Injection, Surjection, IsInjective
<1>4. ExistsBijection(1..n, ids)
  BY <1>3 DEF ExistsBijection
<1>5. IsFiniteSet(1..n) /\ Cardinality(1..n) = n
  BY FS_Interval
<1> QED BY <1>4, <1>5, FS_Bijection

LEMMA SequenceOf ==
  ASSUME NEW S, NEW n \in Nat, NEW f \in [1..n -> S]
  PROVE  f \in Seq(S) /\ Len(f) = n
OBVIOUS

(* The order that the reference chooses.                                    *)
LEMMA InOrderIs ==
  ASSUME NEW events, NEW ids, NEW rank, Ranked(ids, rank),
         \A x \in ids : rank[x] = Least(Starts(events, x)),
         NEW n \in Nat, NEW a, Sorted(a, n, ids, rank)
  PROVE  /\ DOMAIN InOrder(events, ids) = 1..n /\ Len(InOrder(events, ids)) = n
         /\ \A i \in 1..n : InOrder(events, ids)[i] = a[i]
<1> DEFINE Ordered(order) == \A i, j \in 1..n :
             i < j => Least(Starts(events, order[i])) < Least(Starts(events, order[j]))
           c == CHOOSE order \in [1..n -> ids] : Ordered(order)
           f == [i \in 1..n |-> a[i]]
<1>1. Cardinality(ids) = n /\ IsFiniteSet(ids)
  BY SortedCount
<1>2. InOrder(events, ids) = c
  BY <1>1 DEF InOrder
<1>3. f \in [1..n -> ids] /\ Ordered(f)
  BY DEF Sorted
<1>4. c \in [1..n -> ids] /\ Ordered(c)
  <2>1. \E order \in [1..n -> ids] : Ordered(order)
    BY <1>3, Zenon
  <2> HIDE DEF Ordered, f
  <2> QED BY <2>1
<1> HIDE DEF c
<1>5. \A i \in 1..n : c[i] \in ids
  BY <1>4
<1>6. \A i, j \in 1..n : i < j => rank[c[i]] < rank[c[j]]
  BY <1>4, <1>5
<1>7. \A i, j \in 1..n : c[i] = c[j] => i = j
  <2> SUFFICES ASSUME NEW i \in 1..n, NEW j \in 1..n, c[i] = c[j] PROVE i = j
    OBVIOUS
  <2>1. ~(i < j) /\ ~(j < i)
    BY <1>5, <1>6 DEF Ranked
  <2> QED BY <2>1
<1>8. c \in Injection(1..n, ids)
  BY <1>4, <1>7 DEF Injection, IsInjective
<1>9. Cardinality(1..n) = n
  BY FS_Interval
<1>10. c \in Surjection(1..n, ids)
  BY <1>1, <1>8, <1>9, FS_Injection
<1>11. Sorted(c, n, ids, rank)
  BY <1>5, <1>6, <1>10 DEF Sorted, Surjection
<1>12. \A i \in 1..n : c[i] = a[i]
  BY <1>11, SortedOnce
<1>13. DOMAIN c = 1..n /\ Len(c) = n
  BY <1>4, SequenceOf
<1> QED BY <1>2, <1>12, <1>13

-----------------------------------------------------------------------------
(* All the calls after the first k events: the order they began in is that  *)
(* of their first events.                                                   *)
Begun(events, k) == {id \in Ids : StartsTo(events, id, k) # {}}
Ranks(events, k) == [id \in Ids |-> Least(StartsTo(events, id, k))]

Traced(s, P, events, k) ==
  /\ s \in [calls : [Ids -> Folded(P)], order : Seq(Ids)]
  /\ \A id \in Ids : CallTo(s.calls[id], P, events, id, k)
  /\ Sorted(s.order, Len(s.order), Begun(events, k), Ranks(events, k))

Calls(P) == [type : {"tool_call", "tool_call_update"}, id : Ids, patch : P]

LEMMA RanksAre ==
  ASSUME NEW events, NEW k \in Nat, NEW id \in Ids
  PROVE  /\ id \in Begun(events, k) =>
              /\ id \in Begun(events, k + 1) /\ Ranks(events, k)[id] \in 1..k
              /\ Ranks(events, k + 1)[id] = Ranks(events, k)[id]
         /\ id \notin Begun(events, k) /\ id \in Begun(events, k + 1) =>
              Ranks(events, k + 1)[id] = k + 1
         /\ id \in Begun(events, k + 1) <=>
              id \in Begun(events, k) \/ (events[k + 1].id = id /\ events[k + 1].type = "tool_call")
<1>1. /\ Ranks(events, k)[id] = Least(StartsTo(events, id, k))
      /\ Ranks(events, k + 1)[id] = Least(StartsTo(events, id, k + 1))
      /\ id \in Begun(events, k) <=> StartsTo(events, id, k) # {}
      /\ id \in Begun(events, k + 1) <=> StartsTo(events, id, k + 1) # {}
  BY DEF Ranks, Begun
<1>2. CASE events[k + 1].id = id /\ events[k + 1].type = "tool_call"
  <2>1. StartsTo(events, id, k + 1) = StartsTo(events, id, k) \cup {k + 1}
    BY <1>2, StartsGrow
  <2>2. StartsTo(events, id, k + 1) # {}
    BY <2>1
  <2> QED BY <1>1, <1>2, <2>2, StartsGrow
<1>3. CASE ~(events[k + 1].id = id /\ events[k + 1].type = "tool_call")
  <2>1. StartsTo(events, id, k + 1) = StartsTo(events, id, k)
    BY <1>3, StartsGrow
  <2> QED BY <1>1, <1>3, <2>1, StartsGrow
<1> QED BY <1>2, <1>3

LEMMA NobodyBegan ==
  ASSUME NEW P, NEW events
  PROVE  Traced([calls |-> [id \in Ids |-> Unfolded], order |-> <<>>], P, events, 0)
<1> DEFINE s == [calls |-> [id \in Ids |-> Unfolded], order |-> <<>>]
<1>1. \A id \in Ids : CallTo(Unfolded, P, events, id, 0)
  BY UnfoldedIs
<1>2. CASE Ids = {}
  <2>1. Begun(events, 0) = {}
    BY <1>2 DEF Begun
  <2>2. s \in [calls : [Ids -> Folded(P)], order : Seq(Ids)] /\ Len(s.order) = 0
    BY <1>2
  <2> QED BY <1>2, <2>1, <2>2 DEF Traced, Sorted
<1>3. CASE Ids # {}
  <2>1. Unfolded \in Folded(P)
    BY <1>1, <1>3 DEF CallTo
  <2>2. Begun(events, 0) = {}
    BY StartsGrow DEF Begun
  <2>3. s \in [calls : [Ids -> Folded(P)], order : Seq(Ids)] /\ Len(s.order) = 0
        /\ \A id \in Ids : s.calls[id] = Unfolded
    BY <2>1
  <2> HIDE DEF s
  <2>4. Traced(s, P, events, 0)
    BY <1>1, <2>2, <2>3 DEF Traced, Sorted
  <2> QED BY <2>4 DEF s
<1> QED BY <1>2, <1>3

LEMMA EventIsTraced ==
  ASSUME NEW P, NEW events, NEW k \in Nat, NEW s, Traced(s, P, events, k), events[k + 1] \in Calls(P)
  PROVE  Traced(FoldEvent(s, events[k + 1]), P, events, k + 1)
<1> DEFINE event == events[k + 1]
           id == event.id
           old == s.calls[id]
           call == FoldCall(old, event)
           t == FoldEvent(s, event)
           begins == call.seenInitial /\ ~old.seenInitial
           order == IF begins THEN Append(s.order, id) ELSE s.order
<1>1. /\ id \in Ids /\ event.type \in {"tool_call", "tool_call_update"} /\ event.patch \in P
  BY DEF Calls
<1>2. /\ s \in [calls : [Ids -> Folded(P)], order : Seq(Ids)]
      /\ \A x \in Ids : CallTo(s.calls[x], P, events, x, k)
      /\ Sorted(s.order, Len(s.order), Begun(events, k), Ranks(events, k))
  BY DEF Traced
<1>3. CallTo(old, P, events, id, k)
  BY <1>1, <1>2
<1>4. CallTo(call, P, events, id, k + 1)
  <2>1. CASE old.seenInitial
    BY <1>1, <1>3, <2>1, BegunCall
  <2>2. CASE ~old.seenInitial /\ event.type = "tool_call_update"
    BY <1>1, <1>3, <2>2, EarlyUpdate
  <2>3. CASE ~old.seenInitial /\ event.type = "tool_call"
    BY <1>1, <1>3, <2>3, BeginningCall
  <2> QED BY <1>1, <2>1, <2>2, <2>3
<1>5. t = [s EXCEPT !.calls[id] = call, !.order = order]
  BY SMTT(20) DEF FoldEvent
<1>6. begins <=> id \in Begun(events, k + 1) /\ id \notin Begun(events, k)
  BY <1>1, <1>3, <1>4 DEF CallTo, Begun
<1>7. call \in Folded(P)
  BY <1>4, SMTT(20) DEF CallTo
<1>8. order \in Seq(Ids) /\ Sorted(order, Len(order), Begun(events, k + 1), Ranks(events, k + 1))
  <2>1. CASE begins
    <3>1. Begun(events, k + 1) = Begun(events, k) \cup {id}
      <4>1. \A x \in Ids : x \in Begun(events, k + 1) <=> x \in Begun(events, k) \/ x = id
        BY <1>1, <1>6, <2>1, RanksAre
      <4> QED BY <1>1, <4>1 DEF Begun
    <3>2. \A y \in Begun(events, k) : /\ Ranks(events, k + 1)[y] = Ranks(events, k)[y]
                                      /\ Ranks(events, k + 1)[y] < Ranks(events, k + 1)[id]
      <4>1. Ranks(events, k + 1)[id] = k + 1
        BY <1>1, <1>6, <2>1, RanksAre
      <4>2. \A y \in Begun(events, k) : y \in Ids
        BY DEF Begun
      <4>3. \A y \in Begun(events, k) : Ranks(events, k + 1)[y] = Ranks(events, k)[y] /\ Ranks(events, k)[y] \in 1..k
        BY <4>2, RanksAre
      <4> QED BY <4>1, <4>3
    <3>3. order = Append(s.order, id) /\ s.order \in Seq(Ids)
      BY <1>2, <2>1
    <3> HIDE DEF order, id
    <3> QED BY <1>1, <1>2, <3>1, <3>2, <3>3, SortedMore
  <2>2. CASE ~begins
    <3>1. order = s.order
      BY <2>2
    <3>2. \A x \in Ids : x \in Begun(events, k + 1) <=> x \in Begun(events, k)
      BY <1>6, <2>2, RanksAre
    <3>3. Begun(events, k + 1) = Begun(events, k)
      BY <3>2 DEF Begun
    <3>4. \A y \in Begun(events, k) : Ranks(events, k + 1)[y] = Ranks(events, k)[y]
      <4>1. \A y \in Begun(events, k) : y \in Ids
        BY DEF Begun
      <4> QED BY <4>1, RanksAre
    <3> HIDE DEF order
    <3>5. s.order \in Seq(Ids)
      BY <1>2
    <3>6. Sorted(s.order, Len(s.order), Begun(events, k), Ranks(events, k + 1))
      BY <1>2, <3>4 DEF Sorted
    <3> QED BY <3>1, <3>3, <3>5, <3>6
  <2> QED BY <2>1, <2>2
<1> HIDE DEF call, order, begins
<1>9. /\ t \in [calls : [Ids -> Folded(P)], order : Seq(Ids)] /\ t.order = order
      /\ t.calls[id] = call /\ \A x \in Ids : x # id => t.calls[x] = s.calls[x]
  <2> HIDE DEF t, id
  <2> QED BY <1>1, <1>2, <1>5, <1>7, <1>8, Zenon
<1>10. \A x \in Ids : CallTo(t.calls[x], P, events, x, k + 1)
  <2>1. \A x \in Ids : x # id => CallTo(s.calls[x], P, events, x, k + 1)
    BY <1>2, OtherCall
  <2> HIDE DEF t
  <2> QED BY <1>4, <1>9, <2>1
<1> HIDE DEF t
<1>11. Traced(t, P, events, k + 1)
  BY <1>8, <1>9, <1>10 DEF Traced
<1> QED BY <1>11 DEF t

LEMMA EventsAreTraced ==
  ASSUME NEW P, NEW events \in Seq(Calls(P))
  PROVE  Traced(FoldLeft(FoldEvent, [calls |-> [id \in Ids |-> Unfolded], order |-> <<>>], events),
                P, events, Len(events))
<1> DEFINE n == Len(events)
           base == [calls |-> [id \in Ids |-> Unfolded], order |-> <<>>]
<1>1. n \in Nat /\ DOMAIN events = 1..n /\ \A i \in 1..n : events[i] \in Calls(P)
  OBVIOUS
<1>2. Traced(base, P, events, 0)
  BY NobodyBegan
<1> HIDE DEF n, base
<1>3. PICK a : EventTrace(base, events, n, a)
  BY <1>1, EventTraceExists, Zenon
<1>4. /\ a[0] = base /\ \A i \in 1..n : a[i] = FoldEvent(a[i - 1], events[i])
      /\ FoldLeft(FoldEvent, base, events) = a[n]
  BY <1>3 DEF EventTrace
<1> DEFINE S == {k \in Nat : k <= n => Traced(a[k], P, events, k)}
<1>5. 0 \in S
  BY <1>2, <1>4
<1>6. ASSUME NEW k \in Nat, k \in S PROVE k + 1 \in S
  <2> SUFFICES ASSUME k + 1 <= n PROVE Traced(a[k + 1], P, events, k + 1)
    OBVIOUS
  <2>1. k + 1 \in 1..n /\ (k + 1) - 1 = k /\ Traced(a[k], P, events, k)
    BY <1>1, <1>6
  <2>2. a[k + 1] = FoldEvent(a[k], events[k + 1]) /\ events[k + 1] \in Calls(P)
    BY <1>1, <1>4, <2>1
  <2> HIDE DEF S
  <2> QED BY <2>1, <2>2, EventIsTraced
<1> HIDE DEF S
<1>7. n \in S
  BY <1>1, <1>5, <1>6, FromZero
<1>8. Traced(FoldLeft(FoldEvent, base, events), P, events, n)
  BY <1>1, <1>4, <1>7 DEF S
<1> QED BY <1>8 DEF n, base

-----------------------------------------------------------------------------
(* What is observed of the commands is what the events say of them.         *)
Ranking(events) == Ranks(events, Len(events))

LEMMA WholeStream ==
  ASSUME NEW E, NEW events \in Seq(E), NEW id
  PROVE  /\ Starts(events, id) = StartsTo(events, id, Len(events))
         /\ \A name : Says(events, id, name, "tool_call_update") = SaysTo(events, id, name, Len(events))
<1>1. DOMAIN events = 1..Len(events)
  OBVIOUS
<1> QED BY <1>1 DEF Starts, StartsTo, Says, SaysTo, SaysNow

LEMMA RankingIs ==
  ASSUME NEW E, NEW events \in Seq(E), NEW id \in Ids, Starts(events, id) # {}
  PROVE  /\ Ranking(events)[id] = Least(Starts(events, id)) /\ Ranking(events)[id] \in Nat
         /\ id \in Begun(events, Len(events))
<1>1. Starts(events, id) = StartsTo(events, id, Len(events)) /\ Len(events) \in Nat
  BY WholeStream
<1>2. Ranking(events)[id] = Least(StartsTo(events, id, Len(events)))
  BY DEF Ranking, Ranks
<1>3. Least(StartsTo(events, id, Len(events))) \in 1..Len(events)
  BY <1>1, StartsGrow
<1> QED BY <1>1, <1>2, <1>3 DEF Begun

(* The calls of interest, in the order they were recorded.                  *)
CallsOf(events) == FoldLeft(FoldEvent, [calls |-> [id \in Ids |-> Unfolded], order |-> <<>>], events)
Executing(s) == Only(s.order, {id \in Ids : s.calls[id].field["kind"].value = "execute"})

LEMMA FieldsAre ==
  ASSUME NEW P, NEW events \in Seq(Calls(P)), NEW id \in Ids, Starts(events, id) # {}, NEW name \in Fields
  PROVE  /\ CallsOf(events).calls[id].field[name].value = FinalValue(events, id, name)
         /\ CallsOf(events).calls[id].field[name].source = "update" <=> Late(events, id, name)
<1> DEFINE n == Len(events)
           call == CallsOf(events).calls[id]
<1>1. Traced(CallsOf(events), P, events, n)
  BY EventsAreTraced DEF CallsOf
<1>2. CallTo(call, P, events, id, n)
  BY <1>1 DEF Traced
<1>3. /\ Starts(events, id) = StartsTo(events, id, n)
      /\ Says(events, id, name, "tool_call_update") = SaysTo(events, id, name, n)
  BY WholeStream
<1> HIDE DEF call, n
<1>4. call.field[name] = FieldTo(events, id, name, n)
  BY <1>2, <1>3 DEF CallTo
<1>5. FieldTo(events, id, name, n).value = FinalValue(events, id, name)
  BY <1>3 DEF FieldTo, FinalValue
<1>6. FieldTo(events, id, name, n).source = "update" <=> Late(events, id, name)
  BY <1>3 DEF FieldTo, Late
<1> QED BY <1>4, <1>5, <1>6 DEF call

LEMMA ExecutingIs ==
  ASSUME NEW P, NEW events \in Seq(Calls(P))
  PROVE  /\ Executing(CallsOf(events)) \in Seq(Ids)
         /\ Sorted(Executing(CallsOf(events)), Len(Executing(CallsOf(events))), Executed(events), Ranking(events))
         /\ Ranked(Executed(events), Ranking(events))
         /\ \A id \in Executed(events) : Ranking(events)[id] = Least(Starts(events, id))
<1> DEFINE n == Len(events)
           s == CallsOf(events)
           keep == {id \in Ids : s.calls[id].field["kind"].value = "execute"}
           r == Executing(s)
<1>1. Traced(s, P, events, n) /\ s.order \in Seq(Ids)
  <2>1. Traced(s, P, events, n)
    BY EventsAreTraced DEF CallsOf
  <2> HIDE DEF s
  <2> QED BY <2>1 DEF Traced
<1>2. PICK at : Places(s.order, keep, Len(s.order), r, at)
  <2> HIDE DEF s, keep
  <2>1. Only(s.order, keep) \in Seq(Ids) /\ \E at : Places(s.order, keep, Len(s.order), Only(s.order, keep), at)
    BY <1>1, OnlyKeeps
  <2> QED BY <2>1, Zenon DEF Executing, keep
<1>3. r \in Seq(Ids)
  <2> HIDE DEF s, keep
  <2>1. Only(s.order, keep) \in Seq(Ids)
    BY <1>1, OnlyKeeps
  <2> QED BY <2>1 DEF Executing, keep
<1>4. \A id \in Ids : id \in Begun(events, n) <=> Starts(events, id) # {}
  BY WholeStream DEF Begun
<1>5. \A id \in Ids : id \in Begun(events, n) =>
        s.calls[id].field["kind"].value = FinalValue(events, id, "kind")
  <2>1. "kind" \in Fields
    BY DEF Fields
  <2> QED BY <1>4, <2>1, FieldsAre
<1>6. \A id \in Ids : id \in Executed(events) <=> id \in Begun(events, n) /\ id \in keep
  <2> HIDE DEF s, n
  <2> QED BY <1>4, <1>5 DEF Executed
<1>7. Sorted(s.order, Len(s.order), Begun(events, n), Ranking(events))
  BY <1>1 DEF Traced, Ranking
<1> HIDE DEF s, n, keep, r
<1>8. /\ at \in [1..Len(r) -> 1..Len(s.order)]
      /\ \A i \in 1..Len(r) : r[i] = s.order[at[i]] /\ s.order[at[i]] \in keep
      /\ \A i, j \in 1..Len(r) : i < j => at[i] < at[j]
      /\ \A m \in 1..Len(s.order) : s.order[m] \in keep => \E i \in 1..Len(r) : at[i] = m
  BY <1>2 DEF Places
<1>9. \A i \in 1..Len(s.order) : s.order[i] \in Ids
  BY <1>1
<1>10. \A i \in 1..Len(r) : r[i] \in Executed(events)
  BY <1>6, <1>7, <1>8, <1>9, Zenon DEF Sorted
<1>11. ASSUME NEW id \in Executed(events) PROVE \E i \in 1..Len(r) : r[i] = id
  <2>1. id \in Ids /\ id \in Begun(events, n) /\ id \in keep
    BY <1>6 DEF Executed
  <2>2. PICK m \in 1..Len(s.order) : s.order[m] = id
    BY <1>7, <2>1 DEF Sorted
  <2>3. PICK i \in 1..Len(r) : at[i] = m
    BY <1>8, <2>1, <2>2
  <2> QED BY <1>8, <2>2, <2>3
<1>12. ASSUME NEW i \in 1..Len(r), NEW j \in 1..Len(r), i < j
       PROVE  Ranking(events)[r[i]] < Ranking(events)[r[j]]
  <2>1. at[i] \in 1..Len(s.order) /\ at[j] \in 1..Len(s.order) /\ at[i] < at[j]
    BY <1>8, <1>12
  <2>2. r[i] = s.order[at[i]] /\ r[j] = s.order[at[j]]
    BY <1>8
  <2> QED BY <1>7, <2>1, <2>2, Zenon DEF Sorted
<1>13. Sorted(r, Len(r), Executed(events), Ranking(events))
  BY <1>10, <1>11, <1>12 DEF Sorted
<1>14. \A id \in Executed(events) : id \in Ids /\ Starts(events, id) # {}
  BY DEF Executed
<1>15. \A id \in Executed(events) : Ranking(events)[id] \in Nat /\ Ranking(events)[id] = Least(Starts(events, id))
  BY <1>14, RankingIs
<1> QED BY <1>3, <1>13, <1>15 DEF Ranked, r, s

Observed(events, observation, id) ==
  /\ observation.command = CommandOf(events, id)
  /\ observation.source = "raw_input" => ~Late(events, id, "kind") /\ ~Late(events, id, "rawInput")
  /\ observation.source = "late_update" => \E name \in Fields : Late(events, id, name)

LEMMA ObservationIs ==
  ASSUME NEW P, NEW events \in Seq(Calls(P)), NEW id \in Ids, Starts(events, id) # {}
  PROVE  Observed(events, ObservationFor(CallsOf(events).calls[id]), id)
<1> DEFINE call == CallsOf(events).calls[id]
           raw == FinalValue(events, id, "rawInput")
           title == FinalValue(events, id, "title")
<1>1. "kind" \in Fields /\ "rawInput" \in Fields /\ "title" \in Fields
  BY DEF Fields
<1>2. /\ call.field["rawInput"].value = raw /\ call.field["title"].value = title
      /\ \A name \in Fields : call.field[name].source = "update" <=> Late(events, id, name)
  BY <1>1, FieldsAre
<1> HIDE DEF call
<1>3. CASE raw = "command"
  <2>1. ObservationFor(call) = Observation(IF Late(events, id, "kind") \/ Late(events, id, "rawInput")
                                           THEN "late_update" ELSE "raw_input", "command", "raw_input")
    BY <1>1, <1>2, <1>3 DEF ObservationFor
  <2>2. CommandOf(events, id) = "command"
    BY <1>3 DEF CommandOf
  <2> HIDE DEF raw, title
  <2> QED BY <1>1, <2>1, <2>2 DEF Observation, Observed, call
<1>4. CASE raw # "command" /\ IsText(title)
  <2>1. \E source \in {"late_update", "title_fallback"} :
          /\ ObservationFor(call) = Observation(source, title, "title")
          /\ source = "late_update" => \E name \in Fields : Late(events, id, name)
    BY <1>1, <1>2, <1>4 DEF ObservationFor
  <2>2. CommandOf(events, id) = title
    BY <1>4 DEF CommandOf
  <2> HIDE DEF raw, title
  <2> QED BY <2>1, <2>2 DEF Observation, Observed, call
<1>5. CASE raw # "command" /\ ~IsText(title)
  <2>1. ObservationFor(call) = Observation("unextractable", Absent, Absent)
    BY <1>2, <1>5 DEF ObservationFor
  <2>2. CommandOf(events, id) = Absent
    BY <1>5 DEF CommandOf
  <2> HIDE DEF raw, title
  <2> QED BY <2>1, <2>2 DEF Observation, Observed, call
<1> QED BY <1>3, <1>4, <1>5

(* There is an observation for each call that executes.                     *)
LEMMA ObservedCalls ==
  ASSUME NEW P, NEW events \in Seq(Calls(P)), NEW observed, observed = ExtractCommandObservations(events),
         NEW ids, ids = InOrder(events, Executed(events))
  PROVE  /\ DOMAIN ids = 1..Len(ids) /\ Len(ids) \in Nat
         /\ observed = [i \in 1..Len(ids) |-> ObservationFor(CallsOf(events).calls[ids[i]])]
         /\ Len(observed) = Len(ids)
         /\ \A i \in 1..Len(ids) : ids[i] \in Ids /\ Starts(events, ids[i]) # {}
<1> DEFINE s == CallsOf(events)
           r == Executing(s)
           n == Len(r)
<1>1. /\ r \in Seq(Ids) /\ Sorted(r, n, Executed(events), Ranking(events))
      /\ Ranked(Executed(events), Ranking(events))
      /\ \A id \in Executed(events) : Ranking(events)[id] = Least(Starts(events, id))
  BY ExecutingIs, SMTT(20)
<1>2. observed = [i \in DOMAIN r |-> ObservationFor(s.calls[r[i]])]
  BY DEF ExtractCommandObservations, CallsOf, Executing
<1>3. n \in Nat /\ DOMAIN r = 1..n
  BY <1>1
<1> HIDE DEF r, s, n
<1>4. DOMAIN ids = 1..n /\ Len(ids) = n /\ \A i \in 1..n : ids[i] = r[i]
  BY <1>1, <1>3, InOrderIs
<1>5. \A i \in 1..n : r[i] \in Ids /\ Starts(events, r[i]) # {}
  BY <1>1 DEF Sorted, Executed
<1>6. observed = [i \in 1..n |-> ObservationFor(s.calls[ids[i]])]
  BY <1>2, <1>3, <1>4
<1>7. Len(observed) = n
  <2>1. observed \in [1..n -> {ObservationFor(s.calls[ids[i]]) : i \in 1..n}]
    BY <1>6
  <2> QED BY <1>3, <2>1, SequenceOf
<1> QED BY <1>3, <1>4, <1>5, <1>6, <1>7 DEF s

LEMMA ObservationsAre ==
  ASSUME NEW P, NEW events \in Seq(Calls(P)), NEW observed, observed = ExtractCommandObservations(events),
         NEW ids, ids = InOrder(events, Executed(events))
  PROVE  /\ DOMAIN observed = 1..Len(ids) /\ Len(observed) = Len(ids)
         /\ \A i \in 1..Len(ids) : Observed(events, observed[i], ids[i])
<1>1. /\ observed = [i \in 1..Len(ids) |-> ObservationFor(CallsOf(events).calls[ids[i]])]
      /\ Len(observed) = Len(ids)
      /\ \A i \in 1..Len(ids) : ids[i] \in Ids /\ Starts(events, ids[i]) # {}
  BY ObservedCalls
<1>2. \A i \in 1..Len(ids) : Observed(events, ObservationFor(CallsOf(events).calls[ids[i]]), ids[i])
  BY <1>1, ObservationIs
<1> QED BY <1>1, <1>2

LEMMA ObservationsAreFaithful ==
  ASSUME stream.kind = "acp" => stream.seen \in Seq(Calls(Patches))
  PROVE  ObservationsFaithful
<1> DEFINE events == stream.seen
           observed == ExtractCommandObservations(events)
           ids == InOrder(events, Executed(events))
<1> SUFFICES ASSUME stream.kind = "acp"
             PROVE  /\ Len(observed) = Len(ids)
                    /\ \A i \in DOMAIN observed : Observed(events, observed[i], ids[i])
  BY DEF ObservationsFaithful, Observed
<1>1. events \in Seq(Calls(Patches))
  OBVIOUS
<1> HIDE DEF events
<1> QED BY <1>1, ObservationsAre
(* The lifecycles after each event.                                         *)
LifecycleTrace(base, s, n, a) ==
  /\ a[0] = base /\ \A i \in 1..n : a[i] = FoldLifecycle(a[i - 1], s[i])
  /\ FoldLeft(FoldLifecycle, base, s) = a[n]

LEMMA LifecycleTraceExists ==
  ASSUME NEW base, NEW s, NEW n \in Nat, DOMAIN s = 1..n
  PROVE  \E a : LifecycleTrace(base, s, n, a)
<1> DEFINE Folds(k, f) ==
      \A x \in SUBSET (1..k) : f[x] = IF x = {} THEN base ELSE FoldLifecycle(f[x \ {Max(x)}], s[Max(x)])
           S == {k \in Nat : \E f : Folds(k, f)}
<1>1. 0 \in S
  <2> DEFINE f == [x \in SUBSET (1..0) |-> base]
  <2>1. \A x \in SUBSET (1..0) : x = {}
    OBVIOUS
  <2>2. Folds(0, f)
    BY <2>1
  <2> QED BY <2>2, Zenon
<1>2. ASSUME NEW k \in Nat, k \in S PROVE k + 1 \in S
  <2>1. PICK f : Folds(k, f)
    BY <1>2, Zenon
  <2> DEFINE g == [x \in SUBSET (1..(k + 1)) |->
                     IF k + 1 \in x THEN FoldLifecycle(f[x \ {k + 1}], s[k + 1]) ELSE f[x]]
  <2>2. ASSUME NEW x \in SUBSET (1..(k + 1)), k + 1 \in x
        PROVE  g[x] = IF x = {} THEN base ELSE FoldLifecycle(g[x \ {Max(x)}], s[Max(x)])
    <3>1. /\ x \ {k + 1} \in SUBSET (1..k) /\ x \ {k + 1} \in SUBSET (1..(k + 1))
          /\ Max(x) = k + 1
      BY <2>2, MaxIs
    <3>2. g[x \ {k + 1}] = f[x \ {k + 1}]
      BY <3>1
    <3>3. g[x] = FoldLifecycle(f[x \ {k + 1}], s[k + 1])
      BY <2>2
    <3> HIDE DEF g
    <3> QED BY <2>2, <3>1, <3>2, <3>3
  <2>3. ASSUME NEW x \in SUBSET (1..(k + 1)), k + 1 \notin x
        PROVE  g[x] = IF x = {} THEN base ELSE FoldLifecycle(g[x \ {Max(x)}], s[Max(x)])
    <3>1. x \in SUBSET (1..k) /\ g[x] = f[x]
      BY <2>3
    <3>2. /\ k + 1 \notin x \ {Max(x)} /\ x \ {Max(x)} \in SUBSET (1..(k + 1))
          /\ g[x \ {Max(x)}] = f[x \ {Max(x)}]
      BY <2>3, Zenon
    <3>3. f[x] = IF x = {} THEN base ELSE FoldLifecycle(f[x \ {Max(x)}], s[Max(x)])
      BY <2>1, <3>1, Zenon
    <3> HIDE DEF g, Folds
    <3> QED BY <3>1, <3>2, <3>3
  <2> HIDE DEF g
  <2>4. Folds(k + 1, g)
    BY <2>2, <2>3, Zenon
  <2>5. k + 1 \in Nat
    OBVIOUS
  <2> HIDE DEF Folds
  <2> QED BY <2>4, <2>5
<1> HIDE DEF S
<1>3. n \in S
  BY <1>1, <1>2, FromZero
<1> DEFINE iter == CHOOSE f : f = [x \in SUBSET (1..n) |->
                                     IF x = {} THEN base ELSE FoldLifecycle(f[x \ {Max(x)}], s[Max(x)])]
<1>4. Folds(n, iter)
  <2>1. PICK f : Folds(n, f)
    BY <1>3, Zenon DEF S
  <2> DEFINE g == [x \in SUBSET (1..n) |-> f[x]]
  <2>2. \A x \in SUBSET (1..n) : g[x] = IF x = {} THEN base ELSE FoldLifecycle(g[x \ {Max(x)}], s[Max(x)])
    <3>1. \A x \in SUBSET (1..n) : g[x] = f[x] /\ g[x \ {Max(x)}] = f[x \ {Max(x)}]
      BY Zenon
    <3> HIDE DEF g
    <3> QED BY <2>1, <3>1, Zenon
  <2>3. g = [x \in SUBSET (1..n) |-> IF x = {} THEN base ELSE FoldLifecycle(g[x \ {Max(x)}], s[Max(x)])]
    BY <2>2, Zenon
  <2>4. iter = [x \in SUBSET (1..n) |-> IF x = {} THEN base ELSE FoldLifecycle(iter[x \ {Max(x)}], s[Max(x)])]
    <3> HIDE DEF g
    <3> QED BY <2>3, Zenon
  <2> HIDE DEF iter
  <2> QED BY <2>4, Zenon
<1>5. FoldLeft(FoldLifecycle, base, s) = iter[1..n]
  BY DEF FoldLeft, MapThenFoldSet
<1> HIDE DEF iter
<1> DEFINE a == [i \in 0..n |-> iter[1..i]]
<1>6. a[0] = base
  <2>1. 1..0 = {} /\ {} \in SUBSET (1..n) /\ 0 \in 0..n
    OBVIOUS
  <2> QED BY <1>4, <2>1, Zenon
<1>7. ASSUME NEW i \in 1..n PROVE a[i] = FoldLifecycle(a[i - 1], s[i])
  <2>1. /\ 1..i \in SUBSET (1..n) /\ 1..i # {} /\ Max(1..i) = i /\ (1..i) \ {i} = 1..(i - 1)
        /\ i - 1 \in 0..n
    BY MaxIs
  <2>2. a[i] = iter[1..i] /\ a[i - 1] = iter[1..(i - 1)]
    BY <2>1
  <2> HIDE DEF a
  <2> QED BY <1>4, <2>1, <2>2, Zenon
<1>8. FoldLeft(FoldLifecycle, base, s) = a[n]
  BY <1>5
<1> HIDE DEF a
<1>9. LifecycleTrace(base, s, n, a)
  BY <1>6, <1>7, <1>8 DEF LifecycleTrace
<1> QED BY <1>9
-----------------------------------------------------------------------------
(* What the events say of one tool of Pi: when it began, when it ended, and *)
(* which of its ends came after its beginning.                              *)
ResultsTo(events, id, k) == {i \in 1..k : events[i].id = id /\ events[i].type = "tool_result"}
AfterStart(events, id, k) ==
  {r \in ResultsTo(events, id, k) : \E i \in StartsTo(events, id, k) : i < r}
FirstOf(events, id, k) == events[Least(StartsTo(events, id, k))]

PiPatches == [kind : {"execute", "write", "read", "search"}, title : {"bash", "write", "read"},
              rawInput : {"command", "useless"}]
PiCalls == [type : {"tool_call"}, id : Ids, patch : PiPatches]
PiResults == [type : {"tool_result"}, id : Ids, title : {"bash", "read"}, isError : {Absent, "true", "false"}]

Lives == [started : BOOLEAN, included : BOOLEAN, early : BOOLEAN, twice : BOOLEAN, results : Seq(PiResults),
          raw : {Absent, "command", "useless"}, title : {Absent, "bash", "write", "read"}]

(* The branch of FoldLifecycle for the tool of the event.                   *)
NextLife(life, event) ==
  CASE event.type = "tool_result" ->
         IF life.started THEN [life EXCEPT !.results = Append(@, event)]
         ELSE [life EXCEPT !.early = TRUE]
    [] event.type = "tool_call" /\ life.started -> [life EXCEPT !.twice = TRUE]
    [] OTHER -> [life EXCEPT !.started = TRUE,
                   !.included = (event.type = "tool_call" /\ ~life.started) /\ event.patch["kind"] = "execute",
                   !.raw = event.patch["rawInput"], !.title = event.patch["title"]]

Collected(results, events, late) ==
  /\ Len(results) = 0 <=> late = {}
  /\ Len(results) = 1 <=> \E r : late = {r}
  /\ \A i \in 1..Len(results) : \E r \in late : results[i] = events[r]

StartedBy(life, first) ==
  /\ life.raw = first.patch["rawInput"] /\ life.title = first.patch["title"]

LifeTo(life, events, id, k) ==
  /\ life \in Lives
  /\ life.started <=> StartsTo(events, id, k) # {}
  /\ life.started => StartedBy(life, FirstOf(events, id, k))
  /\ life.twice <=> \E i, j \in StartsTo(events, id, k) : i # j
  /\ life.early <=> \E r \in ResultsTo(events, id, k) : \A i \in StartsTo(events, id, k) : r < i
  /\ Collected(life.results, events, AfterStart(events, id, k))

LEMMA ResultsGrow ==
  ASSUME NEW events, NEW id, NEW k \in Nat
  PROVE  /\ ResultsTo(events, id, 0) = {} /\ ResultsTo(events, id, k) \in SUBSET (1..k)
         /\ IF events[k + 1].id = id /\ events[k + 1].type = "tool_result"
            THEN ResultsTo(events, id, k + 1) = ResultsTo(events, id, k) \cup {k + 1}
            ELSE ResultsTo(events, id, k + 1) = ResultsTo(events, id, k)
<1>1. ResultsTo(events, id, 0) = {} /\ ResultsTo(events, id, k) \in SUBSET (1..k)
  BY DEF ResultsTo
<1>2. \A i : i \in 1..(k + 1) <=> i \in 1..k \/ i = k + 1
  OBVIOUS
<1> QED BY <1>1, <1>2 DEF ResultsTo

(* A tool of which nothing has been seen.                                   *)
LEMMA UnstartedIs ==
  ASSUME NEW events, NEW id
  PROVE  LifeTo(Unstarted, events, id, 0)
<1>1. StartsTo(events, id, 0) = {} /\ ResultsTo(events, id, 0) = {}
  BY StartsGrow, ResultsGrow
<1>2. AfterStart(events, id, 0) = {}
  BY <1>1 DEF AfterStart
<1>3. Unstarted \in Lives /\ ~Unstarted.started /\ ~Unstarted.early /\ ~Unstarted.twice /\ Unstarted.results = <<>>
  <2>1. <<>> \in Seq(PiResults)
    OBVIOUS
  <2> QED BY <2>1 DEF Unstarted, Lives
<1>4. Len(<<>>) = 0
  OBVIOUS
<1>5. Collected(Unstarted.results, events, {})
  BY <1>3, <1>4 DEF Collected
<1> QED BY <1>1, <1>2, <1>3, <1>5, Zenon DEF LifeTo

(* An event of another tool.                                                *)
LEMMA OtherTool ==
  ASSUME NEW events, NEW id, NEW k \in Nat, NEW life, LifeTo(life, events, id, k), events[k + 1].id # id
  PROVE  LifeTo(life, events, id, k + 1)
<1>1. StartsTo(events, id, k + 1) = StartsTo(events, id, k)
  BY StartsGrow
<1>2. ResultsTo(events, id, k + 1) = ResultsTo(events, id, k)
  BY ResultsGrow
<1>3. AfterStart(events, id, k + 1) = AfterStart(events, id, k)
  BY <1>1, <1>2 DEF AfterStart
<1>4. FirstOf(events, id, k + 1) = FirstOf(events, id, k)
  BY <1>1 DEF FirstOf
<1> QED BY <1>1, <1>2, <1>3, <1>4 DEF LifeTo

(* A tool that ends.                                                        *)
LEMMA ToolEnds ==
  ASSUME NEW events, NEW id, NEW k \in Nat, NEW life, LifeTo(life, events, id, k),
         events[k + 1] \in PiResults, events[k + 1].id = id
  PROVE  LifeTo(NextLife(life, events[k + 1]), events, id, k + 1)
<1> DEFINE event == events[k + 1]
           next == NextLife(life, event)
           starts == StartsTo(events, id, k)
           late == AfterStart(events, id, k)
<1>1. event.type = "tool_result"
  BY DEF PiResults
<1>2. life \in Lives /\ life.results \in Seq(PiResults)
  BY DEF LifeTo, Lives
<1>3. StartsTo(events, id, k + 1) = starts /\ starts \in SUBSET (1..k)
  <2>1. ~(events[k + 1].id = id /\ events[k + 1].type = "tool_call")
    BY <1>1
  <2> QED BY <2>1, StartsGrow
<1>4. ResultsTo(events, id, k + 1) = ResultsTo(events, id, k) \cup {k + 1}
  <2>1. events[k + 1].id = id /\ events[k + 1].type = "tool_result" /\ k \in Nat
    BY <1>1
  <2> QED BY ONLY <2>1, ResultsGrow, Zenon
<1>5. FirstOf(events, id, k + 1) = FirstOf(events, id, k)
  BY <1>3 DEF FirstOf
<1>6. /\ life.started <=> starts # {}
      /\ life.started => StartedBy(life, FirstOf(events, id, k))
      /\ life.twice <=> \E i, j \in starts : i # j
      /\ life.early <=> \E r \in ResultsTo(events, id, k) : \A i \in starts : r < i
      /\ Collected(life.results, events, late)
  BY DEF LifeTo
<1>7. late \in SUBSET (1..k)
  BY ResultsGrow DEF AfterStart
<1>8. CASE life.started
  <2>1. next = [life EXCEPT !.results = Append(life.results, event)]
    BY <1>1, <1>8 DEF NextLife
  <2>2. AfterStart(events, id, k + 1) = late \cup {k + 1}
    <3>1. \E i \in starts : i < k + 1
      BY <1>3, <1>6, <1>8
    <3> QED BY <1>3, <1>4, <3>1 DEF AfterStart
  <2> HIDE DEF next, event, starts, late
  <2>3. /\ next \in Lives /\ next.started = life.started /\ next.twice = life.twice /\ next.early = life.early
        /\ next.raw = life.raw /\ next.title = life.title /\ next.results = Append(life.results, event)
    <3>1. Append(life.results, event) \in Seq(PiResults)
      BY <1>2 DEF event
    <3> QED BY <1>2, <2>1, <3>1, Zenon DEF Lives
  <2>4. \A r \in ResultsTo(events, id, k + 1) : (\A i \in starts : r < i) => r \in ResultsTo(events, id, k)
    <3>1. ~(\A i \in starts : k + 1 < i)
      <4>1. PICK i \in starts : TRUE
        BY <1>6, <1>8
      <4>2. i \in 1..k /\ ~(k + 1 < i)
        BY <1>3
      <4> QED BY <4>2
    <3> QED BY <1>4, <3>1
  <2>5. life.early <=> \E r \in ResultsTo(events, id, k + 1) : \A i \in starts : r < i
    BY <1>4, <1>6, <2>4
  <2>6. Collected(next.results, events, late \cup {k + 1})
    <3> DEFINE n == Len(life.results)
               more == Append(life.results, event)
    <3>1. n \in Nat /\ Len(more) = n + 1 /\ more[n + 1] = event /\ \A i \in 1..n : more[i] = life.results[i]
      BY <1>2
    <3> HIDE DEF n, more
    <3>2. late \cup {k + 1} # {} /\ Len(more) # 0
      BY <3>1
    <3>3. Len(more) = 1 <=> \E r : late \cup {k + 1} = {r}
      <4>1. n = 0 <=> late = {}
        BY <1>6 DEF Collected, n
      <4>2. k + 1 \notin late
        BY <1>7
      <4>3. late = {} <=> \E r : late \cup {k + 1} = {r}
        BY <4>2
      <4>4. Len(more) = 1 <=> n = 0
        BY <3>1
      <4> QED BY <4>1, <4>3, <4>4
    <3>4. \A i \in 1..Len(more) : \E r \in late \cup {k + 1} : more[i] = events[r]
      <4>1. \A i \in 1..n : \E r \in late : life.results[i] = events[r]
        BY <1>6 DEF Collected, n
      <4>2. \A i \in 1..(n + 1) : i \in 1..n \/ i = n + 1
        BY <3>1
      <4> QED BY <3>1, <4>1, <4>2 DEF event
    <3>5. Collected(more, events, late \cup {k + 1})
      BY <3>2, <3>3, <3>4, Zenon DEF Collected
    <3> QED BY <2>3, <3>5 DEF more
  <2>7. life.started => StartedBy(next, FirstOf(events, id, k))
    BY <1>6, <2>3 DEF StartedBy
  <2>8. LifeTo(next, events, id, k + 1)
    BY <1>3, <1>5, <1>6, <2>2, <2>3, <2>5, <2>6, <2>7, Zenon DEF LifeTo
  <2> QED BY <2>8 DEF next, event
<1>9. CASE ~life.started
  <2>1. next = [life EXCEPT !.early = TRUE]
    BY <1>1, <1>9 DEF NextLife
  <2>2. AfterStart(events, id, k + 1) = late /\ starts = {}
    BY <1>3, <1>6, <1>9 DEF AfterStart
  <2> HIDE DEF next, event, starts, late
  <2>3. /\ next \in Lives /\ next.started = life.started /\ next.twice = life.twice /\ next.early = TRUE
        /\ next.results = life.results
    BY <1>2, <2>1, Zenon DEF Lives
  <2>4. \E r \in ResultsTo(events, id, k + 1) : \A i \in starts : r < i
    BY <1>4, <2>2
  <2>5. LifeTo(next, events, id, k + 1)
    BY <1>3, <1>6, <1>9, <2>2, <2>3, <2>4 DEF LifeTo
  <2> QED BY <2>5 DEF next, event
<1> QED BY <1>8, <1>9

(* A tool that begins.                                                      *)
LEMMA ToolBegins ==
  ASSUME NEW events, NEW id, NEW k \in Nat, NEW life, LifeTo(life, events, id, k),
         events[k + 1] \in PiCalls, events[k + 1].id = id
  PROVE  LifeTo(NextLife(life, events[k + 1]), events, id, k + 1)
<1> DEFINE event == events[k + 1]
           next == NextLife(life, event)
           starts == StartsTo(events, id, k)
           results == ResultsTo(events, id, k)
           late == AfterStart(events, id, k)
<1>1. event.type = "tool_call" /\ event.patch \in PiPatches
  BY DEF PiCalls
<1>2. life \in Lives
  BY DEF LifeTo
<1>3. StartsTo(events, id, k + 1) = starts \cup {k + 1} /\ starts \in SUBSET (1..k)
  <2>1. StartsTo(events, id, k + 1) = starts \cup {k + 1}
    BY <1>1, StartsGrow
  <2> QED BY <2>1, StartsGrow
<1>4. ResultsTo(events, id, k + 1) = results /\ results \in SUBSET (1..k)
  BY <1>1, ResultsGrow
<1>5. AfterStart(events, id, k + 1) = late
  <2>1. \A r \in results : ~(k + 1 < r)
    BY <1>4
  <2> QED BY <1>3, <1>4, <2>1 DEF AfterStart
<1>6. /\ life.started <=> starts # {}
      /\ life.started => StartedBy(life, FirstOf(events, id, k))
      /\ life.twice <=> \E i, j \in starts : i # j
      /\ life.early <=> \E r \in results : \A i \in starts : r < i
      /\ Collected(life.results, events, late)
  BY DEF LifeTo
<1>7. life.early <=> \E r \in results : \A i \in starts \cup {k + 1} : r < i
  <2>1. \A r \in results : r < k + 1
    BY <1>4
  <2> QED BY <1>6, <2>1
<1>8. CASE life.started
  <2>1. next = [life EXCEPT !.twice = TRUE]
    BY <1>1, <1>8 DEF NextLife
  <2>2. \E i, j \in starts \cup {k + 1} : i # j
    <3>1. PICK i \in starts : TRUE
      BY <1>6, <1>8
    <3>2. i # k + 1
      BY <1>3
    <3> QED BY <3>1, <3>2
  <2>3. FirstOf(events, id, k + 1) = FirstOf(events, id, k)
    BY <1>6, <1>8, StartsGrow DEF FirstOf
  <2> HIDE DEF next, event, starts, late, results
  <2>4. /\ next \in Lives /\ next.started = life.started /\ next.twice = TRUE /\ next.early = life.early
        /\ next.raw = life.raw /\ next.title = life.title /\ next.results = life.results
    BY <1>2, <2>1, Zenon DEF Lives
  <2>5. StartedBy(next, FirstOf(events, id, k))
    BY <1>6, <1>8, <2>4 DEF StartedBy
  <2>6. LifeTo(next, events, id, k + 1)
    BY <1>3, <1>4, <1>5, <1>6, <1>7, <1>8, <2>2, <2>3, <2>4, <2>5, Zenon DEF LifeTo
  <2> QED BY <2>6 DEF next, event
<1>9. CASE ~life.started
  <2>1. next = [life EXCEPT !.started = TRUE, !.included = event.patch["kind"] = "execute",
                  !.raw = event.patch["rawInput"], !.title = event.patch["title"]]
    BY <1>1, <1>9, Zenon DEF NextLife
  <2>2. starts = {} /\ starts \cup {k + 1} # {}
    BY <1>6, <1>9
  <2>3. FirstOf(events, id, k + 1) = event
    <3>1. StartsTo(events, id, k) = {} /\ StartsTo(events, id, k + 1) # {}
      BY <1>3, <2>2
    <3>2. Least(StartsTo(events, id, k + 1)) = k + 1
      BY <3>1, StartsGrow, SMTT(20)
    <3> QED BY <3>2 DEF FirstOf
  <2>4. ~(\E i, j \in starts : i # j) /\ ~(\E i, j \in starts \cup {k + 1} : i # j)
    BY <2>2
  <2> HIDE DEF next, event, starts, late, results
  <2>5. /\ next \in Lives /\ next.started = TRUE /\ next.twice = life.twice /\ next.early = life.early
        /\ next.raw = event.patch["rawInput"] /\ next.title = event.patch["title"] /\ next.results = life.results
    <3>1. /\ event.patch["rawInput"] \in {"command", "useless"} /\ event.patch["title"] \in {"bash", "write", "read"}
          /\ (event.patch["kind"] = "execute") \in BOOLEAN
      BY <1>1 DEF PiPatches
    <3> QED BY <1>2, <2>1, <3>1, Zenon DEF Lives
  <2>6. StartedBy(next, event)
    BY <2>5 DEF StartedBy
  <2>7. LifeTo(next, events, id, k + 1)
    BY <1>3, <1>4, <1>5, <1>6, <1>7, <2>2, <2>3, <2>4, <2>5, <2>6, Zenon DEF LifeTo
  <2> QED BY <2>7 DEF next, event
<1> QED BY <1>8, <1>9
-----------------------------------------------------------------------------
(* All the tools after the first k events.                                  *)
Included(events, k) == {id \in Begun(events, k) : FirstOf(events, id, k).patch["kind"] = "execute"}

Lived(s, events, k) ==
  /\ s \in [calls : [Ids -> Lives], order : Seq(Ids)]
  /\ \A id \in Ids : LifeTo(s.calls[id], events, id, k)
  /\ Sorted(s.order, Len(s.order), Included(events, k), Ranks(events, k))

PiEntries == PiCalls \cup PiResults

LEMMA NobodyLived ==
  ASSUME NEW events
  PROVE  Lived([calls |-> [id \in Ids |-> Unstarted], order |-> <<>>], events, 0)
<1> DEFINE s == [calls |-> [id \in Ids |-> Unstarted], order |-> <<>>]
<1>1. \A id \in Ids : LifeTo(Unstarted, events, id, 0)
  BY UnstartedIs
<1>2. Begun(events, 0) = {}
  BY StartsGrow DEF Begun
<1>3. Included(events, 0) = {}
  BY <1>2 DEF Included
<1>4. Unstarted \in Lives
  <2>1. <<>> \in Seq(PiResults)
    OBVIOUS
  <2> QED BY <2>1 DEF Unstarted, Lives
<1>5. /\ s \in [calls : [Ids -> Lives], order : Seq(Ids)] /\ Len(s.order) = 0
      /\ \A id \in Ids : s.calls[id] = Unstarted
  BY <1>4
<1> HIDE DEF s
<1>6. Lived(s, events, 0)
  BY <1>1, <1>3, <1>5 DEF Lived, Sorted
<1> QED BY <1>6 DEF s

LEMMA FirstStays ==
  ASSUME NEW events, NEW k \in Nat, NEW id \in Ids, id \in Begun(events, k)
  PROVE  FirstOf(events, id, k + 1) = FirstOf(events, id, k)
<1>1. Least(StartsTo(events, id, k + 1)) = Least(StartsTo(events, id, k))
  BY StartsGrow DEF Begun
<1> QED BY <1>1 DEF FirstOf

LEMMA ToolIsLived ==
  ASSUME NEW events, NEW k \in Nat, NEW s, Lived(s, events, k), events[k + 1] \in PiEntries
  PROVE  Lived(FoldLifecycle(s, events[k + 1]), events, k + 1)
<1> DEFINE event == events[k + 1]
           id == event.id
           old == s.calls[id]
           life == NextLife(old, event)
           t == FoldLifecycle(s, event)
           adds == (event.type = "tool_call" /\ ~old.started) /\ event.patch["kind"] = "execute"
           order == IF adds THEN Append(s.order, id) ELSE s.order
<1>1. id \in Ids /\ (event.type = "tool_call" <=> event \in PiCalls) /\ event \in PiCalls \cup PiResults
  BY DEF PiEntries, PiCalls, PiResults
<1>2. /\ s \in [calls : [Ids -> Lives], order : Seq(Ids)]
      /\ \A x \in Ids : LifeTo(s.calls[x], events, x, k)
      /\ Sorted(s.order, Len(s.order), Included(events, k), Ranks(events, k))
  BY DEF Lived
<1>3. LifeTo(old, events, id, k)
  BY <1>1, <1>2
<1>4. LifeTo(life, events, id, k + 1)
  <2>1. CASE event \in PiCalls
    BY <1>3, <2>1, ToolBegins
  <2>2. CASE event \in PiResults
    BY <1>3, <2>2, ToolEnds
  <2> QED BY <1>1, <2>1, <2>2
<1>5. t = [calls |-> [s.calls EXCEPT ![id] = life], order |-> order]
  BY DEF FoldLifecycle, NextLife
<1>6. old.started <=> id \in Begun(events, k)
  BY <1>1, <1>3 DEF LifeTo, Begun
<1>7. life \in Lives
  BY <1>4 DEF LifeTo
<1>8. \A x \in Ids : x \in Begun(events, k + 1) <=> x \in Begun(events, k) \/ (x = id /\ event.type = "tool_call")
  BY RanksAre
<1>9. id \in Begun(events, k + 1) /\ id \notin Begun(events, k) => FirstOf(events, id, k + 1) = event
  <2>1. id \in Begun(events, k + 1) /\ id \notin Begun(events, k) =>
          Least(StartsTo(events, id, k + 1)) = k + 1
    BY <1>1, StartsGrow, Zenon DEF Begun
  <2> QED BY <2>1 DEF FirstOf
<1>10. \A x \in Ids : x \in Included(events, k + 1) <=> x \in Included(events, k) \/ (x = id /\ adds)
  <2> SUFFICES ASSUME NEW x \in Ids
               PROVE  x \in Included(events, k + 1) <=> x \in Included(events, k) \/ (x = id /\ adds)
    OBVIOUS
  <2>1. CASE x \in Begun(events, k)
    <3>1. FirstOf(events, x, k + 1) = FirstOf(events, x, k) /\ x \in Begun(events, k + 1)
      BY <1>8, <2>1, FirstStays
    <3>2. ~(x = id /\ adds)
      BY <1>6, <2>1
    <3> HIDE DEF adds, id
    <3> QED BY <2>1, <3>1, <3>2 DEF Included
  <2>2. CASE x \notin Begun(events, k) /\ x = id /\ event.type = "tool_call"
    <3>1. x \in Begun(events, k + 1) /\ FirstOf(events, x, k + 1) = event
      BY <1>8, <1>9, <2>2
    <3>2. adds <=> event.patch["kind"] = "execute"
      BY <1>6, <2>2
    <3> HIDE DEF adds, id
    <3> QED BY <2>2, <3>1, <3>2 DEF Included
  <2>3. CASE x \notin Begun(events, k) /\ ~(x = id /\ event.type = "tool_call")
    BY <1>8, <2>3 DEF Included
  <2> QED BY <2>1, <2>2, <2>3
<1>11. \A x \in Included(events, k) : x \in Ids /\ x \in Begun(events, k)
  BY DEF Included, Begun
<1>12. \A y \in Included(events, k) : Ranks(events, k + 1)[y] = Ranks(events, k)[y] /\ Ranks(events, k)[y] \in 1..k
  BY <1>11, RanksAre
<1>13. order \in Seq(Ids) /\ Sorted(order, Len(order), Included(events, k + 1), Ranks(events, k + 1))
  <2>1. CASE adds
    <3>1. Included(events, k + 1) = Included(events, k) \cup {id}
      <4>1. \A x \in Included(events, k + 1) : x \in Ids
        BY DEF Included, Begun
      <4> QED BY <1>1, <1>10, <1>11, <2>1, <4>1
    <3>2. \A y \in Included(events, k) : /\ Ranks(events, k + 1)[y] = Ranks(events, k)[y]
                                         /\ Ranks(events, k + 1)[y] < Ranks(events, k + 1)[id]
      <4>1. Ranks(events, k + 1)[id] = k + 1
        BY <1>1, <1>6, <1>8, <2>1, RanksAre
      <4> QED BY <1>12, <4>1
    <3>3. order = Append(s.order, id) /\ s.order \in Seq(Ids)
      BY <1>2, <2>1
    <3> HIDE DEF order, id
    <3>4. /\ Append(s.order, id) \in Seq(Ids)
          /\ Sorted(Append(s.order, id), Len(Append(s.order, id)), Included(events, k) \cup {id},
                    Ranks(events, k + 1))
      BY ONLY <1>1, <1>2, <3>2, <3>3, SortedMore, Zenon
    <3> QED BY <3>1, <3>3, <3>4, Zenon
  <2>2. CASE ~adds
    <3>1. order = s.order
      BY <2>2
    <3>2. Included(events, k + 1) = Included(events, k)
      <4>1. \A x \in Included(events, k + 1) : x \in Ids
        BY DEF Included, Begun
      <4> QED BY <1>10, <1>11, <2>2, <4>1
    <3> HIDE DEF order
    <3>3. s.order \in Seq(Ids)
      BY <1>2
    <3>4. Sorted(s.order, Len(s.order), Included(events, k), Ranks(events, k + 1))
      BY <1>2, <1>12, Zenon DEF Sorted
    <3> QED BY <3>1, <3>2, <3>3, <3>4
  <2> QED BY <2>1, <2>2
<1> HIDE DEF life, order, adds
<1>14. /\ t \in [calls : [Ids -> Lives], order : Seq(Ids)] /\ t.order = order
       /\ t.calls[id] = life /\ \A x \in Ids : x # id => t.calls[x] = s.calls[x]
  <2> HIDE DEF t, id
  <2> QED BY <1>1, <1>2, <1>5, <1>7, <1>13
<1>15. \A x \in Ids : LifeTo(t.calls[x], events, x, k + 1)
  <2>1. \A x \in Ids : x # id => LifeTo(s.calls[x], events, x, k + 1)
    BY <1>2, OtherTool
  <2> HIDE DEF t
  <2> QED BY <1>4, <1>14, <2>1
<1> HIDE DEF t
<1>16. Lived(t, events, k + 1)
  BY <1>13, <1>14, <1>15 DEF Lived
<1> QED BY <1>16 DEF t

LivesOf(events) == FoldLeft(FoldLifecycle, [calls |-> [id \in Ids |-> Unstarted], order |-> <<>>], events)

LEMMA ToolsAreLived ==
  ASSUME NEW events \in Seq(PiEntries)
  PROVE  Lived(LivesOf(events), events, Len(events))
<1> DEFINE n == Len(events)
           base == [calls |-> [id \in Ids |-> Unstarted], order |-> <<>>]
<1>1. n \in Nat /\ DOMAIN events = 1..n /\ \A i \in 1..n : events[i] \in PiEntries
  OBVIOUS
<1>2. Lived(base, events, 0)
  BY NobodyLived
<1> HIDE DEF n, base
<1>3. PICK a : LifecycleTrace(base, events, n, a)
  BY <1>1, LifecycleTraceExists, Zenon
<1>4. /\ a[0] = base /\ \A i \in 1..n : a[i] = FoldLifecycle(a[i - 1], events[i])
      /\ FoldLeft(FoldLifecycle, base, events) = a[n]
  BY <1>3 DEF LifecycleTrace
<1> DEFINE S == {k \in Nat : k <= n => Lived(a[k], events, k)}
<1>5. 0 \in S
  BY <1>2, <1>4
<1>6. ASSUME NEW k \in Nat, k \in S PROVE k + 1 \in S
  <2> SUFFICES ASSUME k + 1 <= n PROVE Lived(a[k + 1], events, k + 1)
    OBVIOUS
  <2>1. k + 1 \in 1..n /\ (k + 1) - 1 = k /\ Lived(a[k], events, k)
    BY <1>1, <1>6
  <2>2. a[k + 1] = FoldLifecycle(a[k], events[k + 1]) /\ events[k + 1] \in PiEntries
    BY <1>1, <1>4, <2>1
  <2> HIDE DEF S
  <2> QED BY <2>1, <2>2, ToolIsLived
<1> HIDE DEF S
<1>7. n \in S
  BY <1>1, <1>5, <1>6, FromZero
<1>8. Lived(FoldLeft(FoldLifecycle, base, events), events, n)
  BY <1>1, <1>4, <1>7 DEF S
<1> QED BY <1>8 DEF n, base, LivesOf

-----------------------------------------------------------------------------
(* How a command ended is what the events say of it.                        *)
Single(S) == \E i : S = {i}

LEMMA SingleIs ==
  ASSUME NEW S, S # {}
  PROVE  Single(S) <=> ~(\E i, j \in S : i # j)
<1>1. ASSUME Single(S), NEW i \in S, NEW j \in S PROVE i = j
  <2>1. PICK x : S = {x}
    BY <1>1 DEF Single
  <2> QED BY <1>1, <2>1
<1>2. ASSUME ~(\E i, j \in S : i # j) PROVE Single(S)
  <2>1. PICK x : x \in S
    OBVIOUS
  <2>2. S = {x}
    BY <1>2, <2>1
  <2> QED BY <2>2 DEF Single
<1> QED BY <1>1, <1>2

LEMMA OneStart ==
  ASSUME NEW E, NEW events \in Seq(E), NEW r \in SUBSET DOMAIN events
  PROVE  Cardinality(r) = 1 <=> Single(r)
<1>1. IsFiniteSet(1..Len(events)) /\ DOMAIN events = 1..Len(events)
  BY FS_Interval
<1>2. IsFiniteSet(r)
  BY <1>1, FS_Subset
<1> QED BY <1>2, FS_Singleton, Zenon DEF Single

EndsOf(events, id) == {i \in DOMAIN events : events[i].id = id /\ events[i].type = "tool_result"}
Once(events, id) == Cardinality(Starts(events, id)) = 1 /\ Cardinality(EndsOf(events, id)) = 1
EndedSo(events, id, outcome) ==
  /\ outcome \in {"success", "error"} =>
       /\ Once(events, id)
       /\ \E s \in Starts(events, id), r \in EndsOf(events, id) :
            s < r /\ events[r].title = events[s].patch["title"]
                  /\ events[r].isError = IF outcome = "error" THEN "true" ELSE "false"
  /\ outcome = "missing" <=> EndsOf(events, id) = {} /\ Cardinality(Starts(events, id)) = 1

LEMMA OutcomeIs ==
  ASSUME NEW events \in Seq(PiEntries), NEW id \in Ids, Starts(events, id) # {},
         NEW life, LifeTo(life, events, id, Len(events))
  PROVE  EndedSo(events, id, OutcomeFor(life))
<1> DEFINE n == Len(events)
           starts == Starts(events, id)
           ends == EndsOf(events, id)
           late == AfterStart(events, id, n)
<1>1. n \in Nat /\ DOMAIN events = 1..n /\ \A i \in 1..n : events[i] \in PiEntries
  OBVIOUS
<1>2. /\ starts = StartsTo(events, id, n) /\ ends = ResultsTo(events, id, n)
      /\ starts \in SUBSET (1..n) /\ ends \in SUBSET (1..n)
  <2>1. ends = ResultsTo(events, id, n) /\ ends \in SUBSET (1..n)
    BY <1>1 DEF EndsOf, ResultsTo
  <2>2. starts = StartsTo(events, id, n)
    BY WholeStream
  <2>3. starts \in SUBSET (1..n)
    BY <1>1 DEF Starts
  <2> QED BY <2>1, <2>2, <2>3
<1>3. late = {r \in ends : \E i \in starts : i < r}
  BY <1>2 DEF AfterStart
<1>4. \A i \in starts, r \in ends : i # r
  BY <1>2 DEF Starts, EndsOf
<1> HIDE DEF n, late
<1>5. /\ life \in Lives /\ life.started /\ StartedBy(life, FirstOf(events, id, n))
      /\ life.twice <=> \E i, j \in starts : i # j
      /\ life.early <=> \E r \in ends : \A i \in starts : r < i
      /\ Collected(life.results, events, late)
  BY <1>2 DEF LifeTo, n, late
<1>6. Cardinality(starts) = 1 <=> ~life.twice
  <2>1. starts \in SUBSET DOMAIN events /\ starts # {}
    BY DEF Starts
  <2> HIDE DEF starts
  <2>2. Cardinality(starts) = 1 <=> Single(starts)
    BY <2>1, OneStart
  <2>3. Single(starts) <=> ~(\E i, j \in starts : i # j)
    BY <2>1, SingleIs
  <2> QED BY <1>5, <2>2, <2>3
<1>7. Cardinality(ends) = 1 <=> Single(ends)
  <2>1. ends \in SUBSET DOMAIN events
    BY DEF EndsOf
  <2> HIDE DEF ends
  <2> QED BY <2>1, OneStart
<1> HIDE DEF starts, ends
<1>8. ASSUME ~life.early, ~life.twice PROVE late = ends
  <2>1. PICK i \in starts : TRUE
    BY DEF starts
  <2>2. \A j \in starts : j = i
    BY <1>5, <1>8, <2>1
  <2>3. ASSUME NEW r \in ends PROVE i < r
    <3>1. ~(r < i)
      BY <1>5, <1>8, <2>2
    <3>2. r \in Int /\ i \in Int /\ i # r
      BY <1>2, <1>4, <2>1
    <3> QED BY <3>1, <3>2
  <2> QED BY <1>3, <2>1, <2>3
<1>9. life.results \in Seq(PiResults) /\ (life.results = <<>> <=> Len(life.results) = 0) /\ Len(life.results) \in Nat
  BY <1>5 DEF Lives
<1>10. /\ Len(life.results) = 0 <=> late = {}
       /\ Len(life.results) = 1 <=> \E r : late = {r}
       /\ \A i \in 1..Len(life.results) : \E r \in late : life.results[i] = events[r]
  BY <1>5, Zenon DEF Collected
<1>11. OutcomeFor(life) = "missing" <=> ends = {} /\ Cardinality(starts) = 1
  <2>1. OutcomeFor(life) = "missing" <=> ~life.early /\ ~life.twice /\ life.results = <<>>
    BY DEF OutcomeFor
  <2>2. ends = {} => ~life.early
    BY <1>5
  <2> QED BY <1>6, <1>8, <1>9, <1>10, <2>1, <2>2
<1>12. ASSUME OutcomeFor(life) \in {"success", "error"}
       PROVE  /\ Once(events, id)
              /\ \E s \in starts, r \in ends :
                   s < r /\ events[r].title = events[s].patch["title"]
                         /\ events[r].isError = IF OutcomeFor(life) = "error" THEN "true" ELSE "false"
  <2>1. /\ ~life.early /\ ~life.twice /\ life.results # <<>> /\ ~(Len(life.results) > 1)
        /\ life.results[1].title = life.title /\ life.results[1].isError # Absent
        /\ OutcomeFor(life) = "error" <=> life.results[1].isError = "true"
    <3>1. ~life.early /\ ~life.twice
      BY <1>12 DEF OutcomeFor
    <3>2. life.results # <<>>
      BY <1>12, <3>1 DEF OutcomeFor
    <3>3. OutcomeFor(life) = IF Len(life.results) > 1 \/ life.results[1].title # life.title
                                \/ life.results[1].isError = Absent THEN "unknown"
                             ELSE IF life.results[1].isError = "true" THEN "error" ELSE "success"
      BY <3>1, <3>2 DEF OutcomeFor
    <3>4. ~(Len(life.results) > 1) /\ life.results[1].title = life.title /\ life.results[1].isError # Absent
      BY <1>12, <3>3
    <3>5. OutcomeFor(life) = "error" <=> life.results[1].isError = "true"
      BY <3>3, <3>4
    <3> QED BY <3>1, <3>2, <3>4, <3>5
  <2>2. Len(life.results) = 1
    <3>1. Len(life.results) # 0 /\ ~(Len(life.results) > 1) /\ Len(life.results) \in Nat
      BY <1>9, <2>1
    <3> DEFINE l == Len(life.results)
    <3>2. l # 0 /\ ~(l > 1) /\ l \in Nat
      BY <3>1
    <3> HIDE DEF l
    <3>3. l = 1
      BY <3>2
    <3> QED BY <3>3 DEF l
  <2>3. late = ends
    BY <1>8, <2>1
  <2>4. PICK r : ends = {r}
    BY <1>10, <2>2, <2>3, Zenon
  <2>5. life.results[1] = events[r] /\ 1 \in 1..Len(life.results)
    BY <1>10, <2>2, <2>3, <2>4
  <2>6. life.results[1] \in PiResults
    BY <1>9, <2>5
  <2>7. Once(events, id)
    <3>1. Single(ends)
      BY <2>4 DEF Single
    <3> QED BY <1>6, <1>7, <2>1, <3>1 DEF Once, starts, ends
  <2>8. PICK s \in starts : s < r
    BY <1>3, <2>3, <2>4, Zenon
  <2>9. Least(starts) = s
    <3>1. \A j \in starts : j = s
      BY <1>5, <2>1
    <3>2. starts \in SUBSET Nat
      BY <1>2
    <3>3. \A j \in starts : s <= j
      BY <3>1, <3>2
    <3> QED BY <2>8, <3>2, <3>3, LeastIs
  <2>10. life.title = events[s].patch["title"]
    BY <1>2, <1>5, <2>9 DEF StartedBy, FirstOf
  <2>11. events[r].isError = IF OutcomeFor(life) = "error" THEN "true" ELSE "false"
    BY <2>1, <2>5, <2>6, <1>12 DEF PiResults
  <2> QED BY <2>1, <2>4, <2>5, <2>7, <2>8, <2>10, <2>11
<1> QED BY <1>11, <1>12 DEF EndedSo, starts, ends
-----------------------------------------------------------------------------
(* Only the tools that begin: the events that the other reader is given.    *)
Beginning(events) == {e \in ToSet(events) : e.type = "tool_call"}

LEMMA InSet ==
  ASSUME NEW E, NEW s \in Seq(E), NEW i \in 1..Len(s)
  PROVE  s[i] \in ToSet(s)
BY DEF ToSet

LEMMA PiPatchIs ==
  ASSUME NEW patch \in PiPatches, NEW name \in Fields
  PROVE  patch[name] # Absent
<1>1. CASE name = "kind"
  BY <1>1 DEF PiPatches, Absent
<1>2. CASE name = "title"
  BY <1>2 DEF PiPatches, Absent
<1>3. CASE name = "rawInput"
  BY <1>3 DEF PiPatches, Absent
<1> QED BY <1>1, <1>2, <1>3 DEF Fields

(* The two readers start every command at the same event.                   *)
LEMMA SameStarts ==
  ASSUME NEW events \in Seq(PiEntries), NEW sub, sub = Only(events, Beginning(events))
  PROVE  /\ sub \in Seq(Calls(PiPatches))
         /\ \A id \in Ids : Starts(sub, id) # {} <=> Starts(events, id) # {}
         /\ \A id \in Ids : Starts(sub, id) # {} =>
              sub[Least(Starts(sub, id))] = events[Least(Starts(events, id))]
         /\ \A x, y \in Ids : Starts(sub, x) # {} /\ Starts(sub, y) # {} =>
              (Least(Starts(events, x)) < Least(Starts(events, y)) =>
                 Least(Starts(sub, x)) < Least(Starts(sub, y)))
<1> DEFINE n == Len(events)
           m == Len(sub)
           keep == Beginning(events)
<1>1. n \in Nat /\ DOMAIN events = 1..n /\ \A i \in 1..n : events[i] \in PiEntries
  OBVIOUS
<1>2. sub \in Seq(PiEntries) /\ \E at : Places(events, keep, n, sub, at)
  BY OnlyKeeps
<1>3. PICK at : Places(events, keep, n, sub, at)
  BY <1>2
<1>4. m \in Nat /\ DOMAIN sub = 1..m
  BY <1>2
<1>5. \A i \in 1..n : events[i] \in keep <=> events[i].type = "tool_call"
  BY InSet DEF Beginning
<1> HIDE DEF n, m, keep
<1>6. /\ at \in [1..m -> 1..n]
      /\ \A i \in 1..m : sub[i] = events[at[i]] /\ events[at[i]] \in keep
      /\ \A i, j \in 1..m : i < j => at[i] < at[j]
      /\ \A k \in 1..n : events[k] \in keep => \E i \in 1..m : at[i] = k
  BY <1>3 DEF Places, m
<1>7. \A i \in 1..m : at[i] \in 1..n /\ sub[i] = events[at[i]] /\ sub[i].type = "tool_call"
  BY <1>5, <1>6
<1>8. sub \in Seq(Calls(PiPatches))
  <2>1. \A i \in 1..m : sub[i] \in Calls(PiPatches)
    BY <1>1, <1>7 DEF PiEntries, PiCalls, PiResults, Calls
  <2> QED BY <1>2, <2>1 DEF m
<1>9. \A id : Starts(sub, id) = {i \in 1..m : events[at[i]].id = id}
  BY <1>4, <1>7 DEF Starts
<1>10. \A id : Starts(events, id) = {k \in 1..n : events[k].id = id /\ events[k].type = "tool_call"}
  BY <1>1 DEF Starts
<1>11. \A id, i : i \in Starts(sub, id) => i \in 1..m /\ at[i] \in Starts(events, id)
  BY <1>7, <1>9, <1>10
<1>12. \A id, k : k \in Starts(events, id) => \E i \in Starts(sub, id) : at[i] = k
  BY <1>5, <1>6, <1>9, <1>10
<1>13. \A id : Starts(sub, id) \in SUBSET Nat /\ Starts(events, id) \in SUBSET Nat
  BY <1>9, <1>10
<1>14. \A id : Starts(sub, id) # {} <=> Starts(events, id) # {}
  BY <1>11, <1>12
<1>15. ASSUME NEW id, Starts(sub, id) # {}
       PROVE  Least(Starts(sub, id)) \in 1..m /\ at[Least(Starts(sub, id))] = Least(Starts(events, id))
  <2> DEFINE l == Least(Starts(sub, id))
  <2>1. l \in Starts(sub, id) /\ \A j \in Starts(sub, id) : l <= j
    <3>1. PICK x \in Starts(sub, id) : TRUE
      BY <1>15
    <3> QED BY <1>13, <3>1, LeastIs
  <2> HIDE DEF l
  <2>2. l \in 1..m /\ at[l] \in Starts(events, id)
    BY <1>11, <2>1
  <2>3. ASSUME NEW k \in Starts(events, id) PROVE at[l] <= k
    <3>1. PICK i \in Starts(sub, id) : at[i] = k
      BY <1>12
    <3>2. l <= i /\ i \in 1..m
      BY <1>11, <2>1
    <3>3. l = i \/ l < i
      BY <2>2, <3>2
    <3>4. at[l] = at[i] \/ at[l] < at[i]
      BY <1>6, <2>2, <3>2, <3>3
    <3>5. at[l] \in Nat /\ at[i] \in Nat
      BY <1>7, <2>2, <3>2
    <3> QED BY <3>1, <3>4, <3>5
  <2>4. Least(Starts(events, id)) = at[l]
    BY <1>13, <2>2, <2>3, LeastIs
  <2> QED BY <2>2, <2>4 DEF l
<1>16. \A id : Starts(sub, id) # {} => sub[Least(Starts(sub, id))] = events[Least(Starts(events, id))]
  BY <1>7, <1>15
<1>17. ASSUME NEW x, NEW y, Starts(sub, x) # {}, Starts(sub, y) # {},
              Least(Starts(events, x)) < Least(Starts(events, y))
       PROVE  Least(Starts(sub, x)) < Least(Starts(sub, y))
  <2> DEFINE i == Least(Starts(sub, x))
             j == Least(Starts(sub, y))
  <2>1. i \in 1..m /\ j \in 1..m /\ at[i] < at[j]
    BY <1>15, <1>17
  <2> HIDE DEF i, j
  <2>2. at[i] \in 1..n /\ at[j] \in 1..n
    BY <1>7, <2>1
  <2>3. ~(j < i) /\ i # j
    BY <1>6, <2>1, <2>2
  <2>4. i < j
    BY <2>1, <2>3
  <2> QED BY <2>4 DEF i, j
<1> QED BY <1>8, <1>14, <1>16, <1>17

(* Both readers see the same commands.                                      *)
Command(life) == IF life.raw = "command" THEN "command" ELSE life.title

LEMMA CommandIs ==
  ASSUME NEW events \in Seq(PiEntries), NEW sub, sub = Only(events, Beginning(events)),
         NEW id \in Ids, Starts(events, id) # {}, NEW life, LifeTo(life, events, id, Len(events))
  PROVE  CommandOf(sub, id) = Command(life) /\ CommandOf(sub, id) # Absent
<1> DEFINE first == events[Least(Starts(events, id))]
<1>1. Starts(events, id) = StartsTo(events, id, Len(events))
  BY WholeStream
<1>2. life.raw = first.patch["rawInput"] /\ life.title = first.patch["title"]
  BY <1>1 DEF LifeTo, StartedBy, FirstOf
<1>3. sub \in Seq(Calls(PiPatches)) /\ Starts(sub, id) # {} /\ sub[Least(Starts(sub, id))] = first
  BY SameStarts
<1>4. Least(Starts(sub, id)) \in 1..Len(sub)
  <2>1. PICK x \in Starts(sub, id) : TRUE
    BY <1>3
  <2>2. Starts(sub, id) \in SUBSET (1..Len(sub))
    BY <1>3 DEF Starts
  <2> QED BY <2>1, <2>2, LeastIs
<1>5. first \in Calls(PiPatches)
  BY <1>3, <1>4
<1> HIDE DEF first
<1>6. first.patch \in PiPatches
  BY <1>5 DEF Calls
<1>7. \A name : Says(sub, id, name, "tool_call_update") = {}
  <2>1. \A i \in 1..Len(sub) : sub[i].type = "tool_call"
    <3>1. PICK at : Places(events, Beginning(events), Len(events), sub, at)
      BY OnlyKeeps
    <3>2. \A i \in 1..Len(sub) : sub[i] \in Beginning(events)
      BY <3>1 DEF Places
    <3> QED BY <3>2 DEF Beginning
  <2>2. DOMAIN sub = 1..Len(sub)
    BY <1>3
  <2> QED BY <2>1, <2>2 DEF Says
<1>8. \A name : FinalValue(sub, id, name) = first.patch[name]
  BY <1>3, <1>7 DEF FinalValue
<1>9. first.patch["title"] \in {"bash", "write", "read"}
  BY <1>6 DEF PiPatches
<1>10. IsText(first.patch["title"])
  BY <1>9 DEF IsText, Absent
<1> QED BY <1>2, <1>8, <1>9, <1>10 DEF CommandOf, Command, Absent

LEMMA SameCommands ==
  ASSUME NEW events \in Seq(PiEntries)
  PROVE  LET observed == CommandsFromObservations(
                           ExtractCommandObservations(Only(events, Beginning(events))), "compatibility")
             lives == ExtractLifecycles(events)
         IN  observed = [i \in DOMAIN lives |-> lives[i].command]
<1> DEFINE n == Len(events)
           s == LivesOf(events)
           m == Len(s.order)
           sub == Only(events, Beginning(events))
           ids == InOrder(sub, Executed(sub))
           observations == ExtractCommandObservations(sub)
           lives == ExtractLifecycles(events)
<1>1. Lived(s, events, n)
  BY ToolsAreLived
<1>2. /\ sub \in Seq(Calls(PiPatches))
      /\ \A id \in Ids : Starts(sub, id) # {} <=> Starts(events, id) # {}
      /\ \A id \in Ids : Starts(sub, id) # {} =>
           sub[Least(Starts(sub, id))] = events[Least(Starts(events, id))]
      /\ \A x, y \in Ids : Starts(sub, x) # {} /\ Starts(sub, y) # {} =>
           (Least(Starts(events, x)) < Least(Starts(events, y)) =>
              Least(Starts(sub, x)) < Least(Starts(sub, y)))
  <2> HIDE DEF sub
  <2>1. sub = Only(events, Beginning(events))
    BY DEF sub
  <2> QED BY <2>1, SameStarts
<1>3. \A id \in Ids : Starts(events, id) = StartsTo(events, id, n)
  BY WholeStream
<1>4. /\ DOMAIN s.order = 1..m /\ m \in Nat /\ s.order \in Seq(Ids)
      /\ \A id \in Ids : LifeTo(s.calls[id], events, id, n)
      /\ Sorted(s.order, m, Included(events, n), Ranks(events, n))
  <2> HIDE DEF s, n
  <2> QED BY <1>1 DEF Lived
<1>5. lives = [i \in 1..m |-> [id |-> s.order[i], outcome |-> OutcomeFor(s.calls[s.order[i]]),
                               command |-> Command(s.calls[s.order[i]])]]
  BY <1>4 DEF ExtractLifecycles, LivesOf, Command
<1>6. \A id \in Ids : Starts(sub, id) # {} => FinalValue(sub, id, "kind") = events[Least(Starts(events, id))].patch["kind"]
  <2> SUFFICES ASSUME NEW id \in Ids, Starts(sub, id) # {}
               PROVE  FinalValue(sub, id, "kind") = events[Least(Starts(events, id))].patch["kind"]
    OBVIOUS
  <2>1. Says(sub, id, "kind", "tool_call_update") = {}
    <3>1. PICK at : Places(events, Beginning(events), Len(events), sub, at)
      BY OnlyKeeps
    <3> HIDE DEF sub
    <3>2. \A i \in 1..Len(sub) : sub[i] \in Beginning(events)
      BY <3>1 DEF Places
    <3>3. \A i \in 1..Len(sub) : sub[i].type = "tool_call"
      BY <3>2 DEF Beginning
    <3>4. DOMAIN sub = 1..Len(sub)
      BY <1>2
    <3> QED BY <3>3, <3>4 DEF Says
  <2> HIDE DEF sub
  <2> QED BY <1>2, <2>1 DEF FinalValue
<1> HIDE DEF n, s, m, sub, lives
<1>7. \A id \in Ids : id \in Included(events, n) <=> id \in Executed(sub)
  <2> SUFFICES ASSUME NEW id \in Ids PROVE id \in Included(events, n) <=> id \in Executed(sub)
    OBVIOUS
  <2>1. id \in Begun(events, n) <=> Starts(sub, id) # {}
    BY <1>2, <1>3 DEF Begun
  <2>2. FirstOf(events, id, n) = events[Least(Starts(events, id))]
    BY <1>3 DEF FirstOf
  <2> QED BY <1>6, <2>1, <2>2 DEF Included, Executed
<1>8. \A id \in Executed(sub) : id \in Ids /\ Starts(sub, id) # {}
  BY DEF Executed
<1>9. \A id \in Included(events, n) : id \in Ids
  BY DEF Included, Begun
<1>10. \A id \in Executed(sub) : /\ Ranking(sub)[id] = Least(Starts(sub, id)) /\ Ranking(sub)[id] \in Nat
                                 /\ Ranks(events, n)[id] = Least(Starts(events, id))
  <2>1. \A id \in Executed(sub) : Ranking(sub)[id] = Least(Starts(sub, id)) /\ Ranking(sub)[id] \in Nat
    BY <1>2, <1>8, RankingIs
  <2>2. \A id \in Executed(sub) : Ranks(events, n)[id] = Least(Starts(events, id))
    BY <1>3, <1>8 DEF Ranks
  <2> QED BY <2>1, <2>2
<1>11. Sorted(s.order, m, Executed(sub), Ranking(sub))
  <2>1. Executed(sub) = Included(events, n)
    BY <1>7, <1>8, <1>9, Zenon
  <2>2. \A i \in 1..m : s.order[i] \in Executed(sub)
    BY <1>4, <2>1 DEF Sorted
  <2>3. \A x \in Executed(sub) : \E i \in 1..m : s.order[i] = x
    BY <1>4, <2>1 DEF Sorted
  <2>4. \A i, j \in 1..m : i < j => Ranks(events, n)[s.order[i]] < Ranks(events, n)[s.order[j]]
    BY <1>4 DEF Sorted
  <2>5. ASSUME NEW i \in 1..m, NEW j \in 1..m, i < j PROVE Ranking(sub)[s.order[i]] < Ranking(sub)[s.order[j]]
    <3>1. Least(Starts(events, s.order[i])) < Least(Starts(events, s.order[j]))
      BY <1>10, <2>2, <2>4, <2>5
    <3>2. Least(Starts(sub, s.order[i])) < Least(Starts(sub, s.order[j]))
      BY <1>2, <1>8, <2>2, <3>1
    <3> QED BY <1>10, <2>2, <3>2
  <2> QED BY <2>2, <2>3, <2>5 DEF Sorted
<1>12. Len(ids) = m /\ \A i \in 1..m : ids[i] = s.order[i]
  <2>1. Ranked(Executed(sub), Ranking(sub))
    BY <1>10 DEF Ranked
  <2>2. \A id \in Executed(sub) : Ranking(sub)[id] = Least(Starts(sub, id))
    BY <1>10
  <2> QED BY <1>4, <1>11, <2>1, <2>2, InOrderIs
<1>13. /\ DOMAIN observations = 1..Len(ids) /\ Len(observations) = Len(ids)
       /\ \A i \in 1..Len(ids) : Observed(sub, observations[i], ids[i])
  <2> HIDE DEF observations, ids
  <2>1. observations = ExtractCommandObservations(sub) /\ ids = InOrder(sub, Executed(sub))
    BY DEF observations, ids
  <2> QED BY <1>2, <2>1, ObservationsAre
<1> HIDE DEF ids
<1>14. \A i \in 1..m : s.order[i] \in Ids /\ Starts(events, s.order[i]) # {}
  BY <1>2, <1>8, <1>11 DEF Sorted
<1>15. \A i \in 1..m : /\ CommandOf(sub, s.order[i]) = Command(s.calls[s.order[i]])
                       /\ CommandOf(sub, s.order[i]) # Absent
  <2>1. sub = Only(events, Beginning(events))
    BY DEF sub
  <2>2. \A i \in 1..m : LifeTo(s.calls[s.order[i]], events, s.order[i], Len(events))
    BY <1>4, <1>14 DEF n
  <2> QED BY <1>14, <2>1, <2>2, CommandIs
<1>16. \A i \in 1..m : observations[i].command = Command(s.calls[s.order[i]]) /\ observations[i].command # Absent
  BY <1>12, <1>13, <1>15 DEF Observed
<1>17. observations = [i \in 1..m |-> observations[i]]
  <2>1. observations = [i \in DOMAIN observations |-> observations[i]]
    BY DEF ExtractCommandObservations
  <2> HIDE DEF observations
  <2> QED BY ONLY <1>12, <1>13, <2>1, SMTT(20)
<1> HIDE DEF observations
<1>18. observations \in Seq({observations[i] : i \in 1..m}) /\ Len(observations) = m /\ DOMAIN observations = 1..m
  <2>1. observations \in [1..m -> {observations[i] : i \in 1..m}]
    BY <1>17
  <2> QED BY <1>4, <1>12, <1>13, <2>1, SequenceOf
<1> DEFINE kept == {o \in ToSet(observations) :
                      o.command # Absent /\ ("compatibility" = "compatibility" \/ o.origin = "raw_input")}
<1>19. Only(observations, kept) = observations
  <2>1. \A i \in 1..Len(observations) : observations[i] \in kept
    BY <1>16, <1>18, InSet
  <2> HIDE DEF kept
  <2> QED BY <1>18, <2>1, OnlyAll
<1>20. CommandsFromObservations(observations, "compatibility") = [i \in 1..m |-> observations[i].command]
  BY <1>18, <1>19, Zenon DEF CommandsFromObservations
<1>21. [i \in DOMAIN lives |-> lives[i].command] = [i \in 1..m |-> Command(s.calls[s.order[i]])]
  BY <1>5
<1>22. CommandsFromObservations(observations, "compatibility") = [i \in DOMAIN lives |-> lives[i].command]
  BY <1>16, <1>20, <1>21
<1> QED BY <1>22 DEF observations, sub, lives
-----------------------------------------------------------------------------
(* What the adapter makes of the events of Pi.                              *)
LEMMA EntryIs ==
  ASSUME NEW event \in PiEvents(Ids), event.type \in {"tool_execution_start", "tool_execution_end"}
  PROVE  MapToolEvent(event) \in PiEntries
<1>1. CASE event.type = "tool_execution_start"
  <2>1. /\ event \in [type : {"tool_execution_start"}, id : Ids, tool : {"bash", "write", "read"},
                      args : {"command", "useless"}]
    BY <1>1 DEF PiEvents
  <2>2. KindOf(event.tool) \in {"execute", "write", "read", "search"}
    BY DEF KindOf
  <2>3. [kind |-> KindOf(event.tool), title |-> event.tool, rawInput |-> event.args] \in PiPatches
    BY <2>1, <2>2 DEF PiPatches
  <2>4. MapToolEvent(event) \in PiCalls
    BY <1>1, <2>1, <2>3 DEF MapToolEvent, PiCalls
  <2> QED BY <2>4 DEF PiEntries
<1>2. CASE event.type = "tool_execution_end"
  <2>1. event \in [type : {"tool_execution_end"}, id : Ids, tool : {"bash", "read"},
                   isError : {Absent, "true", "false"}]
    BY <1>2 DEF PiEvents
  <2>2. MapToolEvent(event) \in PiResults
    BY <1>2, <2>1 DEF MapToolEvent, PiResults
  <2> QED BY <2>2 DEF PiEntries
<1> QED BY <1>1, <1>2

LEMMA EntriesAre ==
  ASSUME NEW seen \in Seq(PiEvents(Ids))
  PROVE  AdapterEvents(seen) \in Seq(PiEntries)
<1> DEFINE keep == {e \in ToSet(seen) : e.type \in {"tool_execution_start", "tool_execution_end"}}
           tools == Only(seen, keep)
<1>1. tools \in Seq(PiEvents(Ids)) /\ \E at : Places(seen, keep, Len(seen), tools, at)
  <2> HIDE DEF keep
  <2> QED BY OnlyKeeps, Zenon
<1>2. PICK at : Places(seen, keep, Len(seen), tools, at)
  BY <1>1, Zenon
<1>3. AdapterEvents(seen) = [i \in DOMAIN tools |-> MapToolEvent(tools[i])]
  BY DEF AdapterEvents
<1> HIDE DEF tools
<1>4. \A i \in 1..Len(tools) : tools[i].type \in {"tool_execution_start", "tool_execution_end"}
  BY <1>2 DEF Places
<1>5. Len(tools) \in Nat /\ DOMAIN tools = 1..Len(tools) /\ \A i \in 1..Len(tools) : tools[i] \in PiEvents(Ids)
  BY <1>1
<1>6. \A i \in 1..Len(tools) : MapToolEvent(tools[i]) \in PiEntries
  BY <1>4, <1>5, EntryIs
<1>7. AdapterEvents(seen) \in [1..Len(tools) -> PiEntries]
  BY <1>3, <1>5, <1>6
<1> QED BY <1>5, <1>7, SequenceOf

(* A command that was seen was begun by a call that a review may not make.  *)
LEMMA SeenIsRefused ==
  ASSUME NEW events \in Seq(PiEntries), ExtractLifecycles(events) # <<>>
  PROVE  ReviewPolicyViolations(events) # <<>>
<1> DEFINE n == Len(events)
           s == LivesOf(events)
           keep == {e \in ToSet(events) : e.type = "tool_call" /\ e.patch["kind"] \in {"execute", "write"}}
<1>1. Lived(s, events, n)
  BY ToolsAreLived
<1>2. s.order # <<>>
  BY DEF ExtractLifecycles, LivesOf
<1> HIDE DEF s
<1>3. s.order \in Seq(Ids) /\ Sorted(s.order, Len(s.order), Included(events, n), Ranks(events, n))
  BY <1>1 DEF Lived
<1>4. PICK id : id \in Included(events, n)
  <2>1. 1 \in 1..Len(s.order)
    BY <1>2, <1>3
  <2> QED BY <1>3, <2>1 DEF Sorted
<1> DEFINE l == Least(StartsTo(events, id, n))
<1>5. l \in StartsTo(events, id, n)
  <2>1. StartsTo(events, id, n) \in SUBSET Nat /\ StartsTo(events, id, n) # {}
    BY <1>4 DEF Included, Begun, StartsTo
  <2>2. PICK x \in StartsTo(events, id, n) : TRUE
    BY <2>1
  <2> QED BY <2>1, <2>2, LeastIs
<1>6. events[l].patch["kind"] = "execute"
  BY <1>4 DEF Included, FirstOf
<1> HIDE DEF l
<1>7. l \in 1..Len(events) /\ events[l].type = "tool_call"
  BY <1>5 DEF StartsTo
<1>8. events[l] \in keep
  <2>1. events[l] \in ToSet(events)
    BY <1>7, InSet
  <2> QED BY <1>6, <1>7, <2>1
<1> HIDE DEF keep
<1>9. Only(events, keep) \in Seq(PiEntries) /\ \E at : Places(events, keep, Len(events), Only(events, keep), at)
  BY OnlyKeeps
<1>10. \E i \in 1..Len(Only(events, keep)) : TRUE
  BY <1>7, <1>8, <1>9 DEF Places
<1>11. Only(events, keep) # <<>>
  BY <1>9, <1>10
<1> QED BY <1>11 DEF ReviewPolicyViolations, keep

LEMMA LivesAre ==
  ASSUME NEW events \in Seq(PiEntries), NEW i \in DOMAIN ExtractLifecycles(events)
  PROVE  LET life == ExtractLifecycles(events)[i] IN EndedSo(events, life.id, life.outcome)
<1> DEFINE s == LivesOf(events)
           n == Len(events)
<1>1. Lived(s, events, n)
  BY ToolsAreLived
<1>2. /\ i \in DOMAIN s.order /\ ExtractLifecycles(events)[i].id = s.order[i]
      /\ ExtractLifecycles(events)[i].outcome = OutcomeFor(s.calls[s.order[i]])
  <2>1. ExtractLifecycles(events) =
          [j \in DOMAIN s.order |->
             [id |-> s.order[j], outcome |-> OutcomeFor(s.calls[s.order[j]]),
              command |-> Command(s.calls[s.order[j]])]]
    BY DEF ExtractLifecycles, LivesOf, Command
  <2> HIDE DEF s
  <2> QED BY <2>1
<1> HIDE DEF s
<1>3. /\ s.order \in Seq(Ids) /\ \A id \in Ids : LifeTo(s.calls[id], events, id, n)
      /\ Sorted(s.order, Len(s.order), Included(events, n), Ranks(events, n))
  BY <1>1 DEF Lived
<1>4. s.order[i] \in Ids /\ s.order[i] \in Included(events, n)
  <2>1. i \in 1..Len(s.order)
    BY <1>2, <1>3
  <2> QED BY <1>3, <2>1 DEF Sorted
<1>5. Starts(events, s.order[i]) # {}
  <2>1. StartsTo(events, s.order[i], n) # {}
    BY <1>4 DEF Included, Begun
  <2> QED BY <2>1, WholeStream
<1>6. LifeTo(s.calls[s.order[i]], events, s.order[i], Len(events))
  BY <1>3, <1>4
<1>7. EndedSo(events, s.order[i], OutcomeFor(s.calls[s.order[i]]))
  BY <1>4, <1>5, <1>6, OutcomeIs
<1> QED BY <1>2, <1>7

LEMMA LifecyclesAreFaithful ==
  ASSUME stream.kind = "pi" => stream.seen \in Seq(PiEvents(Ids))
  PROVE  LifecyclesFaithful
<1> SUFFICES ASSUME stream.kind = "pi" PROVE LifecyclesFaithful
  BY Zenon DEF LifecyclesFaithful
<1> DEFINE events == AdapterEvents(stream.seen)
           lives == ExtractLifecycles(events)
           observed == CommandsFromObservations(
                         ExtractCommandObservations(Only(events, Beginning(events))), "compatibility")
<1>1. events \in Seq(PiEntries)
  BY EntriesAre
<1>2. observed = [i \in DOMAIN lives |-> lives[i].command]
  <2> HIDE DEF events
  <2> QED BY <1>1, SameCommands
<1>3. \A i \in DOMAIN lives : EndedSo(events, lives[i].id, lives[i].outcome)
  <2> HIDE DEF events
  <2> QED BY <1>1, LivesAre
<1>4. lives # <<>> => ReviewPolicyViolations(events) # <<>>
  <2> HIDE DEF events
  <2> QED BY <1>1, SeenIsRefused
<1> HIDE DEF events, lives
<1> QED BY <1>2, <1>3, <1>4, Zenon DEF LifecyclesFaithful, EndedSo, Once, EndsOf, Beginning, events, lives

-----------------------------------------------------------------------------
(* A stream holds events of its own kind.                                   *)
Streamed == /\ stream.kind \in Kinds /\ stream.seen \in Seq(EventsOf(stream.kind, Ids))
            /\ DOMAIN stream = {"kind", "seen", "left"}

LEMMA StreamBegins == EventsInit => Streamed
<1> SUFFICES ASSUME EventsInit PROVE Streamed
  OBVIOUS
<1>1. stream \in Beginnings
  BY DEF EventsInit
<1>2. stream.kind \in Kinds /\ stream.seen \in Seq(EventsOf(stream.kind, Ids))
  BY <1>1, BeginningsAssumption
<1>3. DOMAIN stream = {"kind", "seen", "left"}
  BY <1>1, TaskEventsAssumption
<1> QED BY <1>2, <1>3 DEF Streamed

LEMMA ComingIsKnown ==
  ASSUME NEW kind, NEW event \in EventsOf(kind, Coming)
  PROVE  event \in EventsOf(kind, Ids)
<1>1. Coming \subseteq Ids
  BY TaskEventsAssumption
<1>2. CASE kind = "acp"
  <2>1. event \in AcpEvents(Coming)
    BY <1>2 DEF EventsOf
  <2>2. event \in AcpEvents(Ids)
    BY <1>1, <2>1 DEF AcpEvents
  <2> QED BY <1>2, <2>2 DEF EventsOf
<1>3. CASE kind = "pi"
  <2>1. event \in PiEvents(Coming)
    BY <1>3 DEF EventsOf
  <2>2. event \in PiEvents(Ids)
    BY <1>1, <2>1 DEF PiEvents
  <2> QED BY <1>3, <2>2 DEF EventsOf
<1>4. CASE kind # "acp" /\ kind # "pi"
  BY <1>4 DEF EventsOf
<1> QED BY <1>2, <1>3, <1>4

LEMMA StreamGoesOn == Streamed /\ [Observe]_stream => Streamed'
<1> SUFFICES ASSUME Streamed, [Observe]_stream PROVE Streamed'
  OBVIOUS
<1>1. CASE UNCHANGED stream
  BY <1>1 DEF Streamed
<1>2. CASE Observe
  <2>1. PICK event \in EventsOf(stream.kind, Coming) :
          stream' = [stream EXCEPT !.seen = Append(@, event), !.left = @ - 1]
    BY <1>2, Zenon DEF Observe
  <2>2. stream'.kind = stream.kind /\ stream'.seen = Append(stream.seen, event)
        /\ DOMAIN stream' = {"kind", "seen", "left"}
    BY <2>1 DEF Streamed
  <2>3. event \in EventsOf(stream.kind, Ids)
    BY ComingIsKnown
  <2>4. Append(stream.seen, event) \in Seq(EventsOf(stream.kind, Ids))
    BY <2>3 DEF Streamed
  <2> QED BY <2>2, <2>4 DEF Streamed
<1> QED BY <1>1, <1>2

LEMMA StreamIsRead == Streamed => EventsFaithful
<1> SUFFICES ASSUME Streamed PROVE EventsFaithful
  OBVIOUS
<1>1. ObservationsFaithful
  <2>1. stream.kind = "acp" => stream.seen \in Seq(Calls(Patches))
    <3>1. AcpEvents(Ids) = Calls(Patches)
      BY DEF AcpEvents, Calls
    <3> QED BY <3>1 DEF Streamed, EventsOf
  <2> QED BY <2>1, ObservationsAreFaithful
<1>2. LifecyclesFaithful
  <2>1. stream.kind = "pi" => stream.seen \in Seq(PiEvents(Ids))
    BY DEF Streamed, EventsOf
  <2> QED BY <2>1, LifecyclesAreFaithful
<1>3. RetriesFaithful
  <2>1. stream.kind = "retry" => stream.seen \in Seq(RetryEvents)
    BY DEF Streamed, EventsOf
  <2> QED BY <2>1, RetriesAreFaithful
<1> QED BY <1>1, <1>2, <1>3 DEF EventsFaithful

(* Whatever events come, and however long the stream: the commands are      *)
(* those of the calls that execute, in the order the calls began and under  *)
(* their last name; both readers of a run of Pi see the same commands, and  *)
(* one that is said to have succeeded began once, ended once, afterwards    *)
(* and without an error; a review in which a command was seen is refused;   *)
(* and no sign of a retry goes uncounted.                                   *)
THEOREM EventsAreFaithful == EventsSpec => []EventsFaithful
<1>1. EventsSpec => []Streamed
  BY StreamBegins, StreamGoesOn, PTL DEF EventsSpec
<1> QED BY <1>1, StreamIsRead, PTL

-----------------------------------------------------------------------------
(* The gates: evidence is described once, by what it says of the run and of *)
(* the commands of its events, and each gate is read off that description.  *)

(* What the checks come to, and that each is a verdict.                     *)
DelegateChecks == {"onlyExpectedFileChanged", "requiredCommandObserved", "resultFileObserved", "resultFileValid"}
ReviewChecks == {"knownDefectFound", "workspaceUnchanged"}
CommonChecks == {"actualModelMatches", "executionTelemetryValid", "ownedProcessDrained"}

ChecksSay(checks, end, commands, retries, more) ==
  /\ DOMAIN checks = CommonChecks \cup more
                       \cup IF end.task = "review" THEN ReviewChecks ELSE DelegateChecks
  /\ \A key \in DOMAIN checks : checks[key] \in {"true", "false"}
  /\ checks["ownedProcessDrained"] = Verdict(end.telemetry.drained)
  /\ end.task # "review" => checks["requiredCommandObserved"] = Verdict(commands.required)
  /\ AllTrue(checks) <=> /\ end.model = "frozen" /\ end.telemetry.drained /\ end.good /\ (more # {} => end.isolated)
                         /\ TelemetryIsValid(end.telemetry, retries)
                         /\ IF end.task = "review" THEN ~end.changed ELSE commands.required

LEMMA VerdictIs ==
  ASSUME NEW b \in BOOLEAN
  PROVE  Verdict(b) \in {"true", "false"} /\ (Verdict(b) = "true" <=> b)
BY DEF Verdict

Joins(h, f, g) ==
  /\ DOMAIN h = DOMAIN f \cup DOMAIN g
  /\ \A x \in DOMAIN f : h[x] = f[x]
  /\ \A x \in DOMAIN g \ DOMAIN f : h[x] = g[x]

LEMMA JoinIs ==
  ASSUME NEW f, NEW g
  PROVE  Joins(Spread(f, g), f, g)
BY DEF Spread, Joins

LEMMA KimiChecksSay ==
  ASSUME NEW end, NEW commands, NEW retries, end.changed \in BOOLEAN, end.good \in BOOLEAN,
         end.telemetry.drained \in BOOLEAN, commands.required \in BOOLEAN
  PROVE  ChecksSay(KimiChecks(end, commands, retries), end, commands, retries, {})
<1> DEFINE c == KimiChecks(end, commands, retries)
           common == [actualModelMatches |-> Verdict(end.model = "frozen"),
                      ownedProcessDrained |-> Verdict(end.telemetry.drained),
                      executionTelemetryValid |-> Verdict(TelemetryIsValid(end.telemetry, retries))]
           review == [workspaceUnchanged |-> Verdict(~end.changed), knownDefectFound |-> Verdict(end.good)]
           delegate == [resultFileValid |-> Verdict(end.good), resultFileObserved |-> Verdict(end.good),
                        onlyExpectedFileChanged |-> Verdict(end.good),
                        requiredCommandObserved |-> Verdict(commands.required)]
           own == IF end.task = "review" THEN review ELSE delegate
<1>1. c = Spread(common, own)
  BY DEF KimiChecks
<1>2. /\ DOMAIN common = CommonChecks
      /\ common["actualModelMatches"] = Verdict(end.model = "frozen")
      /\ common["ownedProcessDrained"] = Verdict(end.telemetry.drained)
      /\ common["executionTelemetryValid"] = Verdict(TelemetryIsValid(end.telemetry, retries))
  BY DEF CommonChecks
<1>3. /\ DOMAIN review = ReviewChecks /\ review["workspaceUnchanged"] = Verdict(~end.changed)
      /\ review["knownDefectFound"] = Verdict(end.good)
  BY DEF ReviewChecks
<1>4. /\ DOMAIN delegate = DelegateChecks
      /\ \A key \in DelegateChecks :
           delegate[key] = Verdict(IF key = "requiredCommandObserved" THEN commands.required ELSE end.good)
  BY DEF DelegateChecks
<1>5. TelemetryIsValid(end.telemetry, retries) \in BOOLEAN
  BY DEF TelemetryIsValid
<1> HIDE DEF c, common, review, delegate
<1>6. CASE end.task = "review"
  <2>1. own = review
    BY <1>6
  <2> HIDE DEF own
  <2>2. /\ DOMAIN c = CommonChecks \cup ReviewChecks
        /\ \A key \in CommonChecks : c[key] = common[key]
        /\ \A key \in ReviewChecks \ CommonChecks : c[key] = review[key]
    <3>1. Joins(c, common, review)
      BY <1>1, <2>1, JoinIs
    <3> QED BY <1>2, <1>3, <3>1 DEF Joins
  <2>3. /\ c["actualModelMatches"] = Verdict(end.model = "frozen")
        /\ c["ownedProcessDrained"] = Verdict(end.telemetry.drained)
        /\ c["executionTelemetryValid"] = Verdict(TelemetryIsValid(end.telemetry, retries))
        /\ c["workspaceUnchanged"] = Verdict(~end.changed) /\ c["knownDefectFound"] = Verdict(end.good)
    BY <1>2, <1>3, <2>2 DEF CommonChecks, ReviewChecks
  <2>4. DOMAIN c = {"actualModelMatches", "executionTelemetryValid", "ownedProcessDrained",
                    "knownDefectFound", "workspaceUnchanged"}
    BY <2>2 DEF CommonChecks, ReviewChecks
  <2>5. \A key \in DOMAIN c : c[key] \in {"true", "false"}
    BY <1>5, <2>3, <2>4, VerdictIs, Zenon
  <2>6. AllTrue(c) <=> /\ end.model = "frozen" /\ end.telemetry.drained /\ end.good /\ ~end.changed
                       /\ TelemetryIsValid(end.telemetry, retries)
    BY <1>5, <2>3, <2>4, VerdictIs, Zenon DEF AllTrue
  <2> QED BY <1>6, <2>2, <2>3, <2>5, <2>6 DEF ChecksSay, c
<1>7. CASE end.task # "review"
  <2>1. own = delegate
    BY <1>7
  <2> HIDE DEF own
  <2>2. /\ DOMAIN c = CommonChecks \cup DelegateChecks
        /\ \A key \in CommonChecks : c[key] = common[key]
        /\ \A key \in DelegateChecks \ CommonChecks : c[key] = delegate[key]
    <3>1. Joins(c, common, delegate)
      BY <1>1, <2>1, JoinIs
    <3> QED BY <1>2, <1>4, <3>1 DEF Joins
  <2>3. /\ c["actualModelMatches"] = Verdict(end.model = "frozen")
        /\ c["ownedProcessDrained"] = Verdict(end.telemetry.drained)
        /\ c["executionTelemetryValid"] = Verdict(TelemetryIsValid(end.telemetry, retries))
    BY <1>2, <2>2 DEF CommonChecks
  <2>4. /\ c["requiredCommandObserved"] = Verdict(commands.required)
        /\ c["onlyExpectedFileChanged"] = Verdict(end.good) /\ c["resultFileObserved"] = Verdict(end.good)
        /\ c["resultFileValid"] = Verdict(end.good)
    BY <1>4, <2>2 DEF CommonChecks, DelegateChecks
  <2>5. DOMAIN c = {"actualModelMatches", "executionTelemetryValid", "ownedProcessDrained",
                    "onlyExpectedFileChanged", "requiredCommandObserved", "resultFileObserved", "resultFileValid"}
    BY <2>2 DEF CommonChecks, DelegateChecks
  <2>6. \A key \in DOMAIN c : c[key] \in {"true", "false"}
    BY <1>5, <2>3, <2>4, <2>5, VerdictIs, Zenon
  <2>7. AllTrue(c) <=> /\ end.model = "frozen" /\ end.telemetry.drained /\ end.good /\ commands.required
                       /\ TelemetryIsValid(end.telemetry, retries)
    BY <1>5, <2>3, <2>4, <2>5, VerdictIs, Zenon DEF AllTrue
  <2> QED BY <1>7, <2>2, <2>3, <2>4, <2>6, <2>7 DEF ChecksSay, c
<1> QED BY <1>6, <1>7

LEMMA PiChecksSay ==
  ASSUME NEW end, NEW commands, NEW retries, end.changed \in BOOLEAN, end.good \in BOOLEAN,
         end.telemetry.drained \in BOOLEAN, commands.required \in BOOLEAN, end.isolated \in BOOLEAN
  PROVE  ChecksSay(PiChecks(end, commands, retries), end, commands, retries, {"environmentIsolated"})
<1> DEFINE c == PiChecks(end, commands, retries)
           k == KimiChecks(end, commands, retries)
           own == [environmentIsolated |-> Verdict(end.isolated)]
<1>1. c = Spread(k, own)
  BY DEF PiChecks
<1>2. ChecksSay(k, end, commands, retries, {})
  BY KimiChecksSay
<1>3. DOMAIN own = {"environmentIsolated"} /\ own["environmentIsolated"] = Verdict(end.isolated)
  OBVIOUS
<1> HIDE DEF c, k, own
<1>4. "environmentIsolated" \notin DOMAIN k
  BY <1>2 DEF ChecksSay, CommonChecks, ReviewChecks, DelegateChecks
<1>5. /\ DOMAIN c = DOMAIN k \cup {"environmentIsolated"}
      /\ \A key \in DOMAIN k : c[key] = k[key]
      /\ c["environmentIsolated"] = Verdict(end.isolated)
  <2>1. Joins(c, k, own)
    BY <1>1, JoinIs
  <2> QED BY <1>3, <1>4, <2>1 DEF Joins
<1>6. AllTrue(c) <=> AllTrue(k) /\ end.isolated
  BY <1>5, VerdictIs DEF AllTrue
<1>7. \A key \in DOMAIN c : c[key] \in {"true", "false"}
  BY <1>2, <1>5, VerdictIs DEF ChecksSay
<1>8. /\ "ownedProcessDrained" \in DOMAIN k
      /\ end.task # "review" => "requiredCommandObserved" \in DOMAIN k
  BY <1>2 DEF ChecksSay, CommonChecks, ReviewChecks, DelegateChecks
<1>9. /\ c["ownedProcessDrained"] = Verdict(end.telemetry.drained)
      /\ end.task # "review" => c["requiredCommandObserved"] = Verdict(commands.required)
  BY <1>2, <1>5, <1>8 DEF ChecksSay
<1>10. DOMAIN c = CommonChecks \cup {"environmentIsolated"}
                    \cup IF end.task = "review" THEN ReviewChecks ELSE DelegateChecks
  BY <1>2, <1>5 DEF ChecksSay
<1>11. AllTrue(c) <=> /\ end.model = "frozen" /\ end.telemetry.drained /\ end.good /\ end.isolated
                      /\ TelemetryIsValid(end.telemetry, retries)
                      /\ IF end.task = "review" THEN ~end.changed ELSE commands.required
  BY <1>2, <1>6 DEF ChecksSay
<1> QED BY <1>7, <1>9, <1>10, <1>11 DEF ChecksSay, c

(* What a run that was not interrupted leaves to be written down.           *)
Bounded(b) ==
  /\ b.task \in {"review", "delegate"} /\ b.status \in {"completed", "failed"}
  /\ b.changed \in BOOLEAN /\ b.good \in BOOLEAN /\ b.isolated \in BOOLEAN
  /\ \A name \in {"known", "invoked", "fallback", "drained"} : b.telemetry[name] \in BOOLEAN
  /\ ~b.telemetry.known => ~b.telemetry.invoked /\ ~b.telemetry.fallback

Writes(e, b, status, commands, retries, checks) ==
  /\ e.runtime = b.runtime /\ e.task = b.task /\ e.status = status /\ e.model = b.model
  /\ e.telemetry = b.telemetry /\ e.retries = IF b.telemetry.known THEN retries ELSE 0
  /\ e.credentialEnv = CredentialEnv(b) /\ e.frozen = b.frozen /\ e.checks = checks
  /\ e.file = IF b.good THEN "valid" ELSE "other"
  /\ e.commands = commands
  /\ e.passed \in BOOLEAN /\ (e.passed <=> status = "completed" /\ AllTrue(checks))
  /\ e.failureReason # "infrastructure_failure" /\ (e.failureReason = "null" <=> e.passed)

DelegateFields == {"commandCount", "resultFile"}

LEMMA KimiWrites ==
  ASSUME NEW b, NEW status, NEW commands, NEW retries, NEW e, e = KimiEvidence(b, status, commands, retries)
  PROVE  /\ Writes(e, b, status, commands, retries, KimiChecks(b, commands, retries))
         /\ e.has = IF b.task = "review" THEN {} ELSE DelegateFields \cup {"commandObservations"}
         /\ ~e.passed => e.failureReason = IF status = "completed" THEN "acceptance_failed"
                                           ELSE "adapter_auth_or_model_unavailable"
<1> DEFINE checks == KimiChecks(b, commands, retries)
           passed == status = "completed" /\ AllTrue(checks)
           reason == CASE passed -> "null"
                       [] ~passed /\ status = "completed" -> "acceptance_failed"
                       [] OTHER -> "adapter_auth_or_model_unavailable"
           w == Evidence(b, status, commands, retries, checks, passed, reason)
<1>1. e = IF b.task = "review" THEN w ELSE [w EXCEPT !.has = @ \cup {"commandObservations"}]
  BY DEF KimiEvidence
<1>2. /\ passed => reason = "null"
      /\ ~passed => reason = IF status = "completed" THEN "acceptance_failed"
                             ELSE "adapter_auth_or_model_unavailable"
  <2> HIDE DEF checks
  <2> QED OBVIOUS
<1>3. passed \in BOOLEAN /\ (passed <=> status = "completed" /\ AllTrue(checks))
  <2> HIDE DEF checks
  <2> QED BY DEF AllTrue
<1> HIDE DEF checks, passed, reason
<1>4. /\ w = [runtime |-> b.runtime, task |-> b.task, status |-> status, passed |-> passed,
              failureReason |-> reason, model |-> b.model, telemetry |-> b.telemetry,
              retries |-> IF b.telemetry.known THEN retries ELSE 0,
              credentialEnv |-> CredentialEnv(b), frozen |-> b.frozen, checks |-> checks,
              file |-> IF b.good THEN "valid" ELSE "other", commands |-> commands,
              has |-> IF b.task = "review" THEN {} ELSE DelegateFields]
  BY DEF Evidence, DelegateFields
<1> HIDE DEF w
<1>5. /\ e.has = IF b.task = "review" THEN {} ELSE DelegateFields \cup {"commandObservations"}
      /\ e.runtime = b.runtime /\ e.task = b.task /\ e.status = status /\ e.passed = passed
      /\ e.failureReason = reason /\ e.model = b.model /\ e.telemetry = b.telemetry
      /\ e.retries = (IF b.telemetry.known THEN retries ELSE 0)
      /\ e.credentialEnv = CredentialEnv(b) /\ e.frozen = b.frozen /\ e.checks = checks
      /\ e.file = (IF b.good THEN "valid" ELSE "other")
      /\ e.commands = commands
  <2>1. CASE b.task = "review"
    <3>1. e = w
      BY <1>1, <2>1
    <3> QED BY ONLY <2>1, <3>1, <1>4
  <2>2. CASE b.task # "review"
    <3>1. e = [w EXCEPT !.has = @ \cup {"commandObservations"}]
      BY <1>1, <2>2
    <3> QED BY ONLY <2>2, <3>1, <1>4
  <2> QED BY <2>1, <2>2
<1> QED BY <1>2, <1>3, <1>5 DEF Writes, checks

LEMMA PiWrites ==
  ASSUME NEW b, NEW status, NEW commands, NEW retries, NEW e, e = PiEvidence(b, status, commands, retries)
  PROVE  /\ Writes(e, b, status, commands, retries, PiChecks(b, commands, retries))
         /\ e.has = {"provider", "credentialEnv", "configSha256"}
                      \cup IF b.task = "review" THEN {} ELSE DelegateFields \cup {"writeCommandObservations"}
         /\ ~e.passed => \/ e.failureReason \in {"missing_credential", "account_quota_exceeded"}
                         \/ e.failureReason = IF status = "completed" THEN "acceptance_failed"
                                              ELSE "adapter_failure"
<1> DEFINE checks == PiChecks(b, commands, retries)
           passed == status = "completed" /\ AllTrue(checks)
           reason == CASE passed -> "null"
                       [] ~passed /\ b.diagnosed = "credential" -> "missing_credential"
                       [] ~passed /\ b.diagnosed = "quota" -> "account_quota_exceeded"
                       [] OTHER -> IF status = "completed" THEN "acceptance_failed" ELSE "adapter_failure"
           w == Evidence(b, status, commands, retries, checks, passed, reason)
           own == {"provider", "credentialEnv", "configSha256"}
           more == IF b.task = "review" THEN {} ELSE {"writeCommandObservations"}
<1>1. e = [w EXCEPT !.has = @ \cup own \cup more]
  BY DEF PiEvidence
<1>2. /\ passed => reason = "null"
      /\ ~passed => \/ reason \in {"missing_credential", "account_quota_exceeded"}
                    \/ reason = IF status = "completed" THEN "acceptance_failed" ELSE "adapter_failure"
  <2> HIDE DEF checks
  <2> QED OBVIOUS
<1>3. passed \in BOOLEAN /\ (passed <=> status = "completed" /\ AllTrue(checks))
  <2> HIDE DEF checks
  <2> QED BY DEF AllTrue
<1> HIDE DEF checks, passed, reason
<1>4. /\ w = [runtime |-> b.runtime, task |-> b.task, status |-> status, passed |-> passed,
              failureReason |-> reason, model |-> b.model, telemetry |-> b.telemetry,
              retries |-> IF b.telemetry.known THEN retries ELSE 0,
              credentialEnv |-> CredentialEnv(b), frozen |-> b.frozen, checks |-> checks,
              file |-> IF b.good THEN "valid" ELSE "other", commands |-> commands,
              has |-> IF b.task = "review" THEN {} ELSE DelegateFields]
  BY DEF Evidence, DelegateFields
<1> HIDE DEF w, own, more
<1>5. /\ e.has = (IF b.task = "review" THEN {} ELSE DelegateFields) \cup own \cup more
      /\ e.runtime = b.runtime /\ e.task = b.task /\ e.status = status /\ e.passed = passed
      /\ e.failureReason = reason /\ e.model = b.model /\ e.telemetry = b.telemetry
      /\ e.retries = (IF b.telemetry.known THEN retries ELSE 0)
      /\ e.credentialEnv = CredentialEnv(b) /\ e.frozen = b.frozen /\ e.checks = checks
      /\ e.file = (IF b.good THEN "valid" ELSE "other")
      /\ e.commands = commands
  BY ONLY <1>1, <1>4
<1>6. e.has = {"provider", "credentialEnv", "configSha256"}
                \cup IF b.task = "review" THEN {} ELSE DelegateFields \cup {"writeCommandObservations"}
  BY <1>5 DEF own, more
<1> QED BY <1>2, <1>3, <1>5, <1>6 DEF Writes, checks

(* The commands a smoke test of Kimi and one of Pi report.                  *)
Titled == {"title_fallback", "unextractable"}

KimiReport(c) ==
  /\ c.required \in BOOLEAN /\ Len(c.list) \in Nat
  /\ \A i \in DOMAIN c.list : c.list[i].source \in Titled => c.list[i].match = "other"
  /\ Cardinality({i \in DOMAIN c.list : c.list[i].source \notin Titled}) = c.count
  /\ c.required <=> Matching(c.list, "exact") # {}

SucceededOnce(list, match) ==
  /\ Cardinality(Matching(list, match)) = 1
  /\ \A i \in Matching(list, match) : list[i].outcome = "success"

PiReport(c) ==
  /\ c.required \in BOOLEAN /\ Len(c.list) \in Nat
  /\ \A i \in DOMAIN c.list : c.list[i].source = "title_fallback" => c.list[i].match = "other"
  /\ Cardinality({i \in DOMAIN c.list : c.list[i].source # "unextractable"}) = c.count
  /\ c.required <=> SucceededOnce(c.list, "exact") /\ SucceededOnce(c.list, "status_exact")

(* What the checks of both have in common with the contract.                *)
LEMMA ChecksFit ==
  ASSUME NEW e, NEW b, NEW status, NEW c, NEW retries, NEW checks, NEW more, Bounded(b),
         ChecksSay(checks, b, c, retries, more), Writes(e, b, status, c, retries, checks),
         b.runtime = "pi" => more = {"environmentIsolated"}, b.runtime = "kimi" => more = {},
         b.runtime \in {"pi", "kimi"}
  PROVE  /\ ExactBooleanChecks(e)
         /\ e.checks["ownedProcessDrained"] = Verdict(e.telemetry.drained)
         /\ e.passed => e.status = "completed" /\ e.telemetry.drained /\ AllTrue(e.checks)
         /\ DOMAIN e.checks = CurrentEvidenceCheckKeys(e.runtime, e.task)
         /\ e.task # "review" => e.checks["requiredCommandObserved"] = Verdict(e.commands.required)
<1>1. e.checks = checks /\ e.runtime = b.runtime /\ e.task = b.task /\ e.telemetry = b.telemetry /\ e.commands = c
  BY DEF Writes
<1>2. DOMAIN checks = CurrentEvidenceCheckKeys(b.runtime, b.task)
  <2>1. DOMAIN checks = CommonChecks \cup more \cup IF b.task = "review" THEN ReviewChecks ELSE DelegateChecks
    BY DEF ChecksSay
  <2>2. more = IF b.runtime = "pi" THEN {"environmentIsolated"} ELSE {}
    OBVIOUS
  <2> QED BY ONLY <2>1, <2>2 DEF CurrentEvidenceCheckKeys, CommonChecks, ReviewChecks, DelegateChecks
<1>3. ExactBooleanChecks(e)
  BY <1>1, <1>2 DEF ExactBooleanChecks, ChecksSay
<1>4. /\ checks["ownedProcessDrained"] = Verdict(b.telemetry.drained)
      /\ b.task # "review" => checks["requiredCommandObserved"] = Verdict(c.required)
  BY DEF ChecksSay
<1>5. e.passed => e.status = "completed" /\ e.telemetry.drained /\ AllTrue(e.checks)
  <2>1. AllTrue(checks) => b.telemetry.drained
    BY DEF ChecksSay
  <2>2. e.passed <=> e.status = "completed" /\ AllTrue(checks)
    BY DEF Writes
  <2> QED BY <1>1, <2>1, <2>2
<1> QED BY <1>1, <1>2, <1>3, <1>4, <1>5

LEMMA VerdictsAgree ==
  ASSUME NEW a \in BOOLEAN, NEW b \in BOOLEAN
  PROVE  Verdict(a) = Verdict(b) <=> (a <=> b)
BY DEF Verdict

LEMMA KimiContract ==
  ASSUME NEW e, NEW b, NEW status, NEW c, NEW retries, Bounded(b), b.runtime = "kimi",
         ChecksSay(KimiChecks(b, c, retries), b, c, retries, {}), b.task = "delegate" => KimiReport(c),
         e = KimiEvidence(b, status, c, retries)
  PROVE  ContractHolds(e) <=> (b.task = "delegate" => Len(c.list) <= MaxObservations)
<1> DEFINE checks == KimiChecks(b, c, retries)
<1>1. /\ Writes(e, b, status, c, retries, checks)
      /\ e.has = IF b.task = "review" THEN {} ELSE DelegateFields \cup {"commandObservations"}
      /\ ~e.passed => e.failureReason = IF status = "completed" THEN "acceptance_failed"
                                        ELSE "adapter_auth_or_model_unavailable"
  BY KimiWrites
<1> HIDE DEF checks
<1>2. /\ e.runtime = "kimi" /\ e.task = b.task /\ e.commands = c /\ e.status = status /\ e.checks = checks
      /\ e.failureReason # "infrastructure_failure" /\ (e.passed <=> status = "completed" /\ AllTrue(checks))
      /\ e.file = IF b.good THEN "valid" ELSE "other"
  BY <1>1 DEF Writes
<1>3. /\ ExactBooleanChecks(e)
      /\ e.checks["ownedProcessDrained"] = Verdict(e.telemetry.drained)
      /\ e.passed => e.status = "completed" /\ e.telemetry.drained /\ AllTrue(e.checks)
      /\ e.task # "review" => e.checks["requiredCommandObserved"] = Verdict(e.commands.required)
  <2>1. ChecksSay(checks, b, c, retries, {})
    BY DEF checks
  <2> QED BY <1>1, <2>1, ChecksFit
<1>4. ~e.passed => ReasonFits(e)
  BY <1>1, <1>2 DEF ReasonFits
<1>5. CASE b.task = "review"
  <2>1. e.has = {}
    BY <1>1, <1>5
  <2> QED BY ONLY <1>2, <1>3, <1>4, <1>5, <2>1 DEF ContractHolds
<1>6. CASE b.task = "delegate"
  <2>1. e.has = {"commandCount", "resultFile", "commandObservations"}
    BY <1>1, <1>6 DEF DelegateFields
  <2>2. e.passed => e.file = "valid"
    <3>1. AllTrue(checks) => b.good
      BY DEF ChecksSay, checks
    <3> QED BY <1>2, <3>1
  <2>3. KimiReport(c)
    BY <1>6
  <2>4. Verdict(Matching(c.list, "exact") # {}) = Verdict(c.required)
    BY <2>3, VerdictsAgree DEF KimiReport
  <2>5. KimiDiagnosticsHold(e) <=> Len(c.list) <= MaxObservations
    <3>1. e.commands.list = c.list /\ e.commands.count = c.count /\ e.commands.required = c.required
      BY <1>2
    <3>2. e.checks["requiredCommandObserved"] = Verdict(Matching(c.list, "exact") # {})
      BY <1>2, <1>3, <1>6, <2>4, <3>1
    <3> QED BY ONLY <2>1, <2>3, <3>1, <3>2 DEF KimiDiagnosticsHold, KimiReport, Titled
  <2>6. DelegateFieldsHold(e) <=> Len(c.list) <= MaxObservations
    BY <1>2, <2>1, <2>2, <2>5 DEF DelegateFieldsHold
  <2> QED BY ONLY <1>2, <1>3, <1>4, <1>6, <2>6 DEF ContractHolds
<1> QED BY <1>5, <1>6 DEF Bounded

LEMMA PiContract ==
  ASSUME NEW e, NEW b, NEW status, NEW c, NEW retries, Bounded(b), b.runtime = "pi",
         ChecksSay(PiChecks(b, c, retries), b, c, retries, {"environmentIsolated"}),
         b.task = "delegate" => PiReport(c), Len(c.list) <= MaxObservations,
         e = PiEvidence(b, status, c, retries)
  PROVE  ContractHolds(e)
<1> DEFINE checks == PiChecks(b, c, retries)
<1>1. /\ Writes(e, b, status, c, retries, checks)
      /\ e.has = {"provider", "credentialEnv", "configSha256"}
                   \cup IF b.task = "review" THEN {} ELSE DelegateFields \cup {"writeCommandObservations"}
      /\ ~e.passed => \/ e.failureReason \in {"missing_credential", "account_quota_exceeded"}
                      \/ e.failureReason = IF status = "completed" THEN "acceptance_failed"
                                           ELSE "adapter_failure"
  BY PiWrites
<1> HIDE DEF checks
<1>2. /\ e.runtime = "pi" /\ e.task = b.task /\ e.commands = c /\ e.status = status /\ e.checks = checks
      /\ e.failureReason # "infrastructure_failure" /\ (e.passed <=> status = "completed" /\ AllTrue(checks))
      /\ e.file = IF b.good THEN "valid" ELSE "other"
  BY <1>1 DEF Writes
<1>3. /\ ExactBooleanChecks(e)
      /\ e.checks["ownedProcessDrained"] = Verdict(e.telemetry.drained)
      /\ e.passed => e.status = "completed" /\ e.telemetry.drained /\ AllTrue(e.checks)
      /\ e.task # "review" => e.checks["requiredCommandObserved"] = Verdict(e.commands.required)
  <2>1. ChecksSay(checks, b, c, retries, {"environmentIsolated"})
    BY DEF checks
  <2> QED BY <1>1, <2>1, ChecksFit
<1>4. ~e.passed => ReasonFits(e)
  BY <1>1, <1>2 DEF ReasonFits
<1>5. CASE b.task = "review"
  <2>1. e.has = {"provider", "credentialEnv", "configSha256"}
    BY <1>1, <1>5
  <2> QED BY ONLY <1>2, <1>3, <1>4, <1>5, <2>1 DEF ContractHolds
<1>6. CASE b.task = "delegate"
  <2>1. e.has = {"provider", "credentialEnv", "configSha256", "commandCount", "resultFile",
                 "writeCommandObservations"}
    BY <1>1, <1>6 DEF DelegateFields
  <2>2. AllTrue(checks) => b.good /\ c.required
    BY <1>6 DEF ChecksSay, checks
  <2>3. PiReport(c)
    BY <1>6
  <2> DEFINE once(match) == SucceededOnce(c.list, match)
  <2>4. PiDiagnosticsHold(e)
    <3>1. e.commands.list = c.list /\ e.commands.count = c.count /\ e.commands.required = c.required
      BY <1>2
    <3>2. e.checks["requiredCommandObserved"] = Verdict(c.required)
      BY <1>2, <1>3, <1>6, <3>1
    <3>3. (once("exact") /\ once("status_exact")) \in BOOLEAN
      BY DEF SucceededOnce
    <3>4. e.checks["requiredCommandObserved"] = Verdict(once("exact") /\ once("status_exact"))
      <4>1. c.required \in BOOLEAN /\ (c.required <=> once("exact") /\ once("status_exact"))
        BY <2>3 DEF PiReport
      <4> QED BY <3>2, <3>3, <4>1, VerdictsAgree
    <3>5. e.passed => once("exact") /\ once("status_exact") /\ e.checks["requiredCommandObserved"] = "true"
      <4>1. e.passed => c.required
        BY <1>2, <2>2
      <4> QED BY <2>3, <3>2, <4>1, VerdictIs DEF PiReport
    <3> QED BY ONLY <2>1, <2>3, <3>1, <3>4, <3>5, Len(c.list) <= MaxObservations
            DEF PiDiagnosticsHold, PiReport, SucceededOnce
  <2>5. DelegateFieldsHold(e)
    BY <1>2, <2>1, <2>2, <2>4 DEF DelegateFieldsHold
  <2> QED BY ONLY <1>2, <1>3, <1>4, <1>6, <2>5 DEF ContractHolds
<1> QED BY <1>5, <1>6 DEF Bounded

(* What the adapter and the service have made of a run.                     *)
BoundTo(b, end) ==
  /\ Bounded(b) /\ b.runtime = end.runtime /\ b.task = end.task /\ b.how = end.how
  /\ b.frozen = end.frozen /\ b.changed = end.changed /\ b.good = end.good
  /\ b.status = "completed" /\ b.model = "frozen"
       <=> end.how = "ran" /\ end.status = "completed" /\ end.model = "frozen"
  /\ end.how = "ran" /\ end.model = "frozen" => b.telemetry = end.telemetry /\ b.isolated = end.isolated

LEMMA RunIs ==
  ASSUME NEW kind, NEW end \in PossibleRuns(kind)
  PROVE  /\ Bounded(end) /\ end.runtime \in {"pi", "kimi"} /\ end.how \in {"ran", "unlaunched", "threw"}
         /\ end.runtime = "kimi" <=> kind = "acp"
         /\ DOMAIN end.telemetry = {"known", "invoked", "fallback", "drained"}
         /\ end.telemetry \in [known : BOOLEAN, invoked : BOOLEAN, fallback : BOOLEAN, drained : BOOLEAN]
         /\ DOMAIN end = {"runtime", "task", "how", "status", "model", "telemetry", "diagnosed",
                          "isolated", "frozen", "changed", "good"}
<1>1. end \in Ended /\ (end.telemetry.known \/ end.telemetry = Unknown) /\ (end.runtime = "kimi" <=> kind = "acp")
  BY DEF PossibleRuns
<1>2. end.telemetry \in [known : BOOLEAN, invoked : BOOLEAN, fallback : BOOLEAN, drained : BOOLEAN]
  BY <1>1 DEF Ended
<1>3. /\ end.task \in {"review", "delegate"} /\ end.status \in {"completed", "failed"}
      /\ end.changed \in BOOLEAN /\ end.good \in BOOLEAN /\ end.isolated \in BOOLEAN
      /\ end.runtime \in {"pi", "kimi"} /\ end.how \in {"ran", "unlaunched", "threw"}
      /\ DOMAIN end = {"runtime", "task", "how", "status", "model", "telemetry", "diagnosed",
                       "isolated", "frozen", "changed", "good"}
  BY <1>1 DEF Ended
<1>4. /\ \A name \in {"known", "invoked", "fallback", "drained"} : end.telemetry[name] \in BOOLEAN
      /\ DOMAIN end.telemetry = {"known", "invoked", "fallback", "drained"}
  BY <1>2
<1>5. ~end.telemetry.known => ~end.telemetry.invoked /\ ~end.telemetry.fallback
  <2>1. CASE end.telemetry = Unknown
    BY <2>1 DEF Unknown
  <2> QED BY <1>1, <2>1
<1> QED BY <1>1, <1>2, <1>3, <1>4, <1>5 DEF Bounded

LEMMA BoundIs ==
  ASSUME NEW kind, NEW end \in PossibleRuns(kind), end.how # "threw"
  PROVE  BoundTo(BindModel(Launch(end)), end)
<1> DEFINE l == Launch(end)
           b == BindModel(l)
<1> SUFFICES BoundTo(b, end)
  OBVIOUS
<1>1. /\ Bounded(end) /\ end.runtime \in {"pi", "kimi"} /\ end.how \in {"ran", "unlaunched"}
      /\ DOMAIN end.telemetry = {"known", "invoked", "fallback", "drained"}
      /\ DOMAIN end = {"runtime", "task", "how", "status", "model", "telemetry", "diagnosed",
                       "isolated", "frozen", "changed", "good"}
  BY RunIs
<1>2. /\ Bounded(l) /\ l.runtime = end.runtime /\ l.task = end.task /\ l.how = end.how
      /\ l.frozen = end.frozen /\ l.changed = end.changed /\ l.good = end.good
      /\ DOMAIN l = DOMAIN end /\ DOMAIN l.telemetry = {"known", "invoked", "fallback", "drained"}
      /\ end.how = "unlaunched" => l.status = "failed"
      /\ end.how = "ran" => l = end
  <2>1. CASE end.how = "ran"
    <3>1. l = end
      BY <2>1 DEF Launch
    <3> QED BY <1>1, <2>1, <3>1
  <2>2. CASE end.how = "unlaunched"
    <3>1. l = [end EXCEPT !.status = "failed", !.model = "none", !.telemetry = Unknown, !.isolated = FALSE]
      BY <2>2 DEF Launch
    <3>2. /\ l.runtime = end.runtime /\ l.task = end.task /\ l.how = end.how
          /\ l.frozen = end.frozen /\ l.changed = end.changed /\ l.good = end.good
          /\ l.status = "failed" /\ l.telemetry = Unknown /\ l.isolated = FALSE /\ DOMAIN l = DOMAIN end
      BY ONLY <1>1, <3>1
    <3>3. Unknown \in [known : BOOLEAN, invoked : BOOLEAN, fallback : BOOLEAN, drained : BOOLEAN]
      BY DEF Unknown
    <3>4. \A name \in {"known", "invoked", "fallback", "drained"} : Unknown[name] \in BOOLEAN
      BY <3>3
    <3>5. ~Unknown.invoked /\ ~Unknown.fallback
      BY DEF Unknown
    <3>6. l.isolated \in BOOLEAN
      BY <3>2, Zenon
    <3>7. Bounded(l)
      BY ONLY <1>1, <3>2, <3>4, <3>5, <3>6 DEF Bounded
    <3> QED BY <2>2, <3>2, <3>7 DEF Unknown
  <2> QED BY <1>1, <2>1, <2>2
<1> HIDE DEF l
<1>3. CASE l.runtime # "pi" \/ l.model = "frozen"
  <2>1. b = l
    BY <1>3 DEF BindModel
  <2> HIDE DEF b
  <2>2. l.status = "completed" /\ l.model = "frozen" <=> end.how = "ran" /\ end.status = "completed" /\ end.model = "frozen"
    BY <1>1, <1>2
  <2>3. end.how = "ran" => l.telemetry = end.telemetry /\ l.isolated = end.isolated
    BY <1>2
  <2> QED BY <1>2, <2>1, <2>2, <2>3 DEF BoundTo
<1>4. CASE l.runtime = "pi" /\ l.model # "frozen"
  <2> DEFINE f == l.telemetry.fallback \/ (l.model # "none" /\ l.telemetry.known)
  <2>1. b = [l EXCEPT !.status = "failed",
                      !.telemetry.fallback = @ \/ (l.model # "none" /\ l.telemetry.known)]
    BY <1>4 DEF BindModel
  <2>2. b = [l EXCEPT !.status = "failed", !.telemetry = [l.telemetry EXCEPT !.fallback = f]]
    BY <1>2, <2>1
  <2>3. f \in BOOLEAN /\ (~l.telemetry.known => ~f)
    BY <1>2 DEF Bounded
  <2> HIDE DEF b, f
  <2>4. /\ b.runtime = l.runtime /\ b.task = l.task /\ b.how = l.how
        /\ b.frozen = l.frozen /\ b.changed = l.changed /\ b.good = l.good /\ b.isolated = l.isolated
        /\ b.status = "failed" /\ b.telemetry = [l.telemetry EXCEPT !.fallback = f]
    BY ONLY <1>1, <1>2, <2>2
  <2>5. /\ b.telemetry["known"] = l.telemetry["known"] /\ b.telemetry["invoked"] = l.telemetry["invoked"]
        /\ b.telemetry["drained"] = l.telemetry["drained"] /\ b.telemetry["fallback"] = f
    BY ONLY <1>2, <2>4
  <2>6. Bounded(b)
    BY <1>2, <2>3, <2>4, <2>5 DEF Bounded
  <2>7. ~(end.how = "ran" /\ end.model = "frozen")
    BY <1>2, <1>4
  <2> QED BY <1>2, <2>4, <2>6, <2>7 DEF BoundTo
<1> QED BY <1>3, <1>4

LEMMA TaskStatusIs ==
  ASSUME NEW b, NEW violations, Bounded(b)
  PROVE  TaskStatus(b, violations) = "completed"
           <=> b.status = "completed" /\ (b.task = "review" => ~b.changed /\ violations = <<>>)
<1>1. CASE b.task = "review" /\ b.changed
  BY <1>1 DEF TaskStatus
<1>2. CASE b.task = "review" /\ ~b.changed /\ violations # <<>>
  <2>1. TaskStatus(b, violations) = "failed"
    BY <1>2 DEF TaskStatus
  <2> QED BY <1>2, <2>1
<1>3. CASE b.task # "review" \/ (~b.changed /\ violations = <<>>)
  <2>1. TaskStatus(b, violations) = b.status
    BY <1>3 DEF TaskStatus
  <2> QED BY <1>3, <2>1
<1> QED BY <1>1, <1>2, <1>3 DEF Bounded

(* The evidence says passed exactly if the run went well.                   *)
LEMMA PassesIfWell ==
  ASSUME NEW kind, NEW end \in PossibleRuns(kind), NEW b, BoundTo(b, end), NEW events, NEW text, NEW retries,
         NEW c, NEW checks, NEW more, NEW violations, NEW e,
         Writes(e, b, TaskStatus(b, violations), c, retries, checks),
         ChecksSay(checks, b, c, retries, more),
         b.runtime = "pi" => more = {"environmentIsolated"} /\ violations = ReviewPolicyViolations(events),
         b.runtime = "kimi" => more = {} /\ violations = <<>>,
         b.task = "delegate" => (c.required <=> RequiredCommandsRan(end.runtime, events, text))
  PROVE  /\ e.passed <=> WentWell(end, events, text, retries)
         /\ e.passed => /\ PassedIsSound(e) /\ e.model = "frozen" /\ e.telemetry.drained
                        /\ ExactTelemetry(e) /\ b.status = "completed"
<1> DEFINE v == ReviewPolicyViolations(events)
           r == RequiredCommandsRan(end.runtime, events, text)
           t == end.telemetry
<1>1. /\ Bounded(end) /\ end.runtime \in {"pi", "kimi"}
      /\ t \in [known : BOOLEAN, invoked : BOOLEAN, fallback : BOOLEAN, drained : BOOLEAN]
      /\ \A name \in {"known", "invoked", "fallback", "drained"} : t[name] \in BOOLEAN
  BY RunIs DEF Bounded
<1>2. t = [known |-> TRUE, invoked |-> TRUE, fallback |-> FALSE, drained |-> TRUE]
        <=> t.known /\ t.invoked /\ ~t.fallback /\ t.drained
  <2> DEFINE u == [known |-> TRUE, invoked |-> TRUE, fallback |-> FALSE, drained |-> TRUE]
  <2>1. u.known /\ u.invoked /\ ~u.fallback /\ u.drained
    OBVIOUS
  <2>2. t.known /\ t.invoked /\ ~t.fallback /\ t.drained => t = u
    BY <1>1, Zenon
  <2> HIDE DEF u, t
  <2> QED BY <2>1, <2>2 DEF u
<1> HIDE DEF v, r, t
<1>3. /\ b.runtime = end.runtime /\ b.task = end.task /\ b.task \in {"review", "delegate"} /\ b.changed = end.changed
      /\ b.good = end.good /\ Bounded(b)
      /\ b.status = "completed" /\ b.model = "frozen"
           <=> end.how = "ran" /\ end.status = "completed" /\ end.model = "frozen"
      /\ end.how = "ran" /\ end.model = "frozen" => b.telemetry = t /\ b.isolated = end.isolated
  BY DEF BoundTo, Bounded, t
<1>4. e.passed <=> TaskStatus(b, violations) = "completed" /\ AllTrue(checks)
  BY DEF Writes
<1>5. TaskStatus(b, violations) = "completed"
        <=> b.status = "completed" /\ (b.task = "review" => ~b.changed /\ violations = <<>>)
  BY <1>3, TaskStatusIs
<1>6. AllTrue(checks) <=>
        /\ b.model = "frozen" /\ b.telemetry.drained /\ b.good /\ (more # {} => b.isolated)
        /\ b.telemetry.known /\ b.telemetry.invoked /\ retries = 0 /\ ~b.telemetry.fallback
        /\ IF b.task = "review" THEN ~b.changed ELSE c.required
  BY DEF ChecksSay, TelemetryIsValid
<1>7. WentWell(end, events, text, retries) <=>
        /\ end.how = "ran" /\ end.status = "completed" /\ end.model = "frozen" /\ end.good
        /\ t.known /\ t.invoked /\ ~t.fallback /\ t.drained /\ retries = 0
        /\ end.runtime = "pi" => end.isolated
        /\ IF end.task = "delegate" THEN r ELSE ~end.changed /\ (end.runtime = "pi" => v = <<>>)
  BY <1>2 DEF WentWell, v, r, t
<1>8. /\ b.runtime = "pi" => more # {} /\ violations = v
      /\ b.runtime = "kimi" => more = {} /\ violations = <<>>
      /\ b.task = "delegate" => (c.required <=> r)
  BY DEF v, r
<1>9. e.passed <=> WentWell(end, events, text, retries)
  <2>1. CASE end.how = "ran" /\ end.model = "frozen"
    BY ONLY <1>1, <1>3, <1>4, <1>5, <1>6, <1>7, <1>8, <2>1
  <2>2. CASE ~(end.how = "ran" /\ end.model = "frozen")
    BY ONLY <1>3, <1>4, <1>5, <1>6, <1>7, <2>2
  <2> QED BY <2>1, <2>2
<1>10. ASSUME e.passed
       PROVE  /\ PassedIsSound(e) /\ e.model = "frozen" /\ e.telemetry.drained
              /\ ExactTelemetry(e) /\ b.status = "completed"
  <2>1. /\ e.runtime = b.runtime /\ e.task = b.task /\ e.status = "completed" /\ e.model = b.model
        /\ e.telemetry = b.telemetry /\ e.retries = retries /\ e.checks = checks
    BY <1>4, <1>6, <1>10 DEF Writes
  <2>2. ExactTelemetry(e) /\ e.telemetry.drained /\ e.model = "frozen" /\ b.status = "completed"
    BY <1>4, <1>5, <1>6, <1>10, <2>1 DEF ExactTelemetry
  <2>3. AllRequiredChecksPassed(e.runtime, e.task, e.checks)
    <3>1. DOMAIN checks = CommonChecks \cup more \cup IF b.task = "review" THEN ReviewChecks ELSE DelegateChecks
      BY DEF ChecksSay
    <3>2. more = IF b.runtime = "kimi" THEN {} ELSE {"environmentIsolated"}
      BY <1>1, <1>3
    <3> QED BY ONLY <1>4, <1>10, <2>1, <3>1, <3>2
            DEF AllRequiredChecksPassed, CommonChecks, ReviewChecks, DelegateChecks
  <2> QED BY <2>1, <2>2, <2>3 DEF PassedIsSound
<1> QED BY <1>9, <1>10

(* Everybody has the same opinion of evidence that is about infrastructure. *)
LEMMA InfrastructureAgrees ==
  ASSUME NEW kind, NEW end \in PossibleRuns(kind), NEW events, NEW text, NEW retries,
         RunSmoke(end, events, text, retries) = InfrastructureEvidence(end)
  PROVE  GatesAgreeOn(end, events, text, retries)
<1> DEFINE e == InfrastructureEvidence(end)
           well == WentWell(end, events, text, retries)
<1>1. /\ e.runtime = end.runtime /\ e.task = end.task /\ e.status = "failed" /\ e.passed = FALSE
      /\ e.failureReason = "infrastructure_failure" /\ e.model = "none" /\ e.telemetry = Unknown
      /\ e.retries = 0 /\ e.checks = [ownedProcessDrained |-> "unknown"]
      /\ e.has = IF end.runtime = "pi" THEN {"provider"} ELSE {}
  BY DEF InfrastructureEvidence
<1>2. e.runtime \in {"pi", "kimi"}
  BY <1>1, RunIs
<1> HIDE DEF e, well
<1>3. Publish(e, end) = e
  BY <1>1 DEF Publish
<1>4. ~Unrecordable(end, e)
  BY <1>1 DEF Unrecordable
<1>5. ~Unknown.known /\ ~Unknown.invoked /\ ~Unknown.fallback /\ ~Unknown.drained
  BY DEF Unknown
<1>6. ContractHolds(e)
  BY ONLY <1>1, <1>5 DEF ContractHolds
<1>7. LedgerAccepts(e)
  <2>1. TelemetryNormal(e)
    BY ONLY <1>1, <1>5 DEF TelemetryNormal
  <2>2. CredentialFits(e) /\ FailureReasonNormal(e) /\ ("provider" \in e.has <=> e.runtime = "pi")
    BY ONLY <1>1 DEF CredentialFits, FailureReasonNormal
  <2>3. ~e.passed /\ e.model # "unsafe"
    BY ONLY <1>1
  <2> QED BY ONLY <1>6, <2>1, <2>2, <2>3 DEF LedgerAccepts
<1>8. VerifierAccepts(e)
  BY ONLY <1>1, <1>2, <1>6 DEF VerifierAccepts
<1>9. ~IndexAccepts(e)
  BY <1>1 DEF IndexAccepts
<1>10. RunSmoke(end, events, text, retries) = e
  BY DEF e
<1> QED BY ONLY <1>1, <1>3, <1>4, <1>7, <1>8, <1>9, <1>10
        DEF GatesAgreeOn, well

(* What is to be shown of evidence that is not, in one place.               *)
Judged(end, e, well) ==
  /\ e.failureReason # "infrastructure_failure" /\ (e.passed <=> well)
  /\ e.passed => PassedIsSound(e)
  /\ LedgerAccepts(e) <=> ~Unrecordable(end, e)
  /\ LedgerAccepts(e) /\ (end.runtime = "pi" => end.frozen) => VerifierAccepts(e)
  /\ e.passed /\ LedgerAccepts(e) => IndexAccepts(e)

LEMMA JudgedAgree ==
  ASSUME NEW end, NEW events, NEW text, NEW retries,
         Judged(end, RunSmoke(end, events, text, retries), WentWell(end, events, text, retries))
  PROVE  GatesAgreeOn(end, events, text, retries)
<1> DEFINE e == RunSmoke(end, events, text, retries)
           well == WentWell(end, events, text, retries)
<1>1. Judged(end, e, well)
  OBVIOUS
<1> HIDE DEF e, well
<1>2. Publish(e, end) = e
  BY <1>1 DEF Publish, Judged
<1>3. IndexAccepts(e) => e.passed
  BY DEF IndexAccepts
<1> QED BY ONLY <1>1, <1>2, <1>3 DEF GatesAgreeOn, Judged, e, well

LEMMA ContractIsAccepted ==
  ASSUME NEW e, ContractHolds(e), e.failureReason # "infrastructure_failure", e.passed,
         DOMAIN e.checks = CurrentEvidenceCheckKeys(e.runtime, e.task)
  PROVE  AllTrue(e.checks) /\ e.status = "completed"
BY DEF ContractHolds

(* A failure: what the ledger wants of one.                                 *)
LEMMA KimiJudged ==
  ASSUME NEW kind, NEW end \in PossibleRuns(kind), end.runtime = "kimi", end.how # "threw",
         NEW events, NEW text, NEW retries,
         end.task = "delegate" =>
           /\ KimiReport(KimiCommands(events, text))
           /\ KimiCommands(events, text).required <=> RequiredCommandsRan("kimi", events, text)
  PROVE  GatesAgreeOn(end, events, text, retries)
<1> DEFINE b == BindModel(Launch(end))
           c == IF end.task = "review" THEN NoCommands ELSE KimiCommands(events, text)
           status == TaskStatus(b, <<>>)
           e == KimiEvidence(b, status, c, retries)
           well == WentWell(end, events, text, retries)
           checks == KimiChecks(b, c, retries)
<1>1. BoundTo(b, end)
  BY BoundIs
<1>2. b.runtime = "kimi" /\ b.task = end.task /\ Bounded(b) /\ b.task \in {"review", "delegate"}
  BY <1>1 DEF BoundTo, Bounded
<1>3. RunSmoke(end, events, text, retries) = e
  <2>1. RunSmoke(end, events, text, retries) = RunKimiSmoke(b, events, text, retries)
    BY <1>2 DEF RunSmoke
  <2> HIDE DEF b
  <2> QED BY <1>2, <2>1 DEF RunKimiSmoke
<1> HIDE DEF b
<1>4. c.required \in BOOLEAN /\ (b.task = "delegate" => KimiReport(c))
  <2>1. CASE end.task = "review"
    BY <1>2, <2>1 DEF NoCommands
  <2>2. CASE end.task # "review"
    BY <1>2, <2>2 DEF KimiReport
  <2> QED BY <2>1, <2>2
<1>5. b.task = "delegate" => (c.required <=> RequiredCommandsRan(end.runtime, events, text))
  BY <1>2
<1> HIDE DEF c
<1>6. ChecksSay(checks, b, c, retries, {})
  BY <1>2, <1>4, KimiChecksSay DEF Bounded
<1>7. /\ Writes(e, b, status, c, retries, checks)
      /\ e.has = IF b.task = "review" THEN {} ELSE DelegateFields \cup {"commandObservations"}
      /\ ~e.passed => e.failureReason = IF status = "completed" THEN "acceptance_failed"
                                        ELSE "adapter_auth_or_model_unavailable"
  BY KimiWrites, Zenon
<1>8. ContractHolds(e) <=> (b.task = "delegate" => Len(c.list) <= MaxObservations)
  BY <1>2, <1>4, <1>6, KimiContract
<1> HIDE DEF e
<1>9. /\ e.passed <=> well
      /\ e.passed => PassedIsSound(e) /\ e.model = "frozen" /\ e.telemetry.drained /\ ExactTelemetry(e)
  <2>1. b.runtime = "pi" => {} = {"environmentIsolated"} /\ <<>> = ReviewPolicyViolations(events)
    BY <1>2
  <2> HIDE DEF checks
  <2>2. Writes(e, b, TaskStatus(b, <<>>), c, retries, checks)
    BY <1>7
  <2> QED BY <1>1, <1>5, <1>6, <2>1, <2>2, PassesIfWell
<1> HIDE DEF checks, status, well
<1>10. /\ e.runtime = "kimi" /\ e.task = end.task /\ e.failureReason # "infrastructure_failure"
       /\ e.failureReason = "null" <=> e.passed
       /\ e.model = b.model /\ e.telemetry = b.telemetry /\ e.retries = (IF b.telemetry.known THEN retries ELSE 0)
       /\ e.commands = c /\ e.passed \in BOOLEAN /\ (e.passed => e.status = "completed")
  <2>1. Writes(e, b, status, c, retries, checks)
    BY <1>7
  <2> QED BY ONLY <1>2, <2>1 DEF Writes
<1>11. /\ e.has \cap {"provider", "configSha256", "credentialEnv"} = {}
  BY <1>7 DEF DelegateFields
<1>12. TelemetryNormal(e) /\ FailureReasonNormal(e) /\ CredentialFits(e)
  <2>1. TelemetryNormal(e)
    BY ONLY <1>2, <1>9, <1>10 DEF TelemetryNormal, Bounded
  <2> QED BY ONLY <1>10, <1>11, <2>1 DEF FailureReasonNormal, CredentialFits
<1>13. LedgerAccepts(e) <=> ContractHolds(e) /\ (~e.passed => e.model # "unsafe")
  BY ONLY <1>9, <1>10, <1>11, <1>12 DEF LedgerAccepts
<1>14. Unrecordable(end, e) <=> \/ ~e.passed /\ e.model = "unsafe"
                                \/ end.task = "delegate" /\ Len(c.list) > MaxObservations
  BY ONLY <1>10, end.runtime = "kimi" DEF Unrecordable
<1>15. end.task = "delegate" => Len(c.list) \in Nat /\ MaxObservations \in Nat
  BY <1>2, <1>4, GatesAssumption DEF KimiReport
<1>16. LedgerAccepts(e) <=> ~Unrecordable(end, e)
  BY ONLY <1>2, <1>8, <1>13, <1>14, <1>15
<1>17. ContractHolds(e) => VerifierAccepts(e)
  BY ONLY <1>9, <1>10, <1>11 DEF VerifierAccepts
<1>18. e.passed /\ ContractHolds(e) => IndexAccepts(e)
  <2> SUFFICES ASSUME e.passed, ContractHolds(e) PROVE IndexAccepts(e)
    OBVIOUS
  <2>1. ExactBooleanChecks(e) /\ AllTrue(e.checks)
    BY ONLY <1>10, e.passed, ContractHolds(e) DEF ContractHolds
  <2> QED BY ONLY <1>9, <1>10, <1>11, <2>1, e.passed, ContractHolds(e) DEF IndexAccepts, ExactBooleanChecks
<1>19. Judged(end, e, well)
  BY ONLY <1>9, <1>10, <1>13, <1>16, <1>17, <1>18 DEF Judged
<1>20. RunSmoke(end, events, text, retries) = e
  BY <1>3 DEF e, c, status
<1> QED BY <1>19, <1>20, JudgedAgree DEF well

LEMMA PiJudged ==
  ASSUME NEW kind, NEW end \in PossibleRuns(kind), end.runtime = "pi", end.how # "threw",
         NEW events, NEW text, NEW retries,
         end.task = "delegate" =>
           /\ PiReport(PiCommands(events, text))
           /\ PiCommands(events, text).required <=> RequiredCommandsRan("pi", events, text)
  PROVE  GatesAgreeOn(end, events, text, retries)
<1> DEFINE b == BindModel(Launch(end))
           c == IF end.task = "review" THEN NoCommands ELSE PiCommands(events, text)
           violations == ReviewPolicyViolations(events)
           status == TaskStatus(b, violations)
           e == PiEvidence(b, status, c, retries)
           well == WentWell(end, events, text, retries)
           checks == PiChecks(b, c, retries)
<1>1. BoundTo(b, end)
  BY BoundIs
<1>2. b.runtime = "pi" /\ b.task = end.task /\ Bounded(b) /\ b.task \in {"review", "delegate"}
  BY <1>1 DEF BoundTo, Bounded
<1>3. RunSmoke(end, events, text, retries) =
        IF Len(c.list) > MaxObservations THEN InfrastructureEvidence(b) ELSE e
  <2>1. RunSmoke(end, events, text, retries) = RunPiSmoke(b, events, text, retries)
    BY <1>2 DEF RunSmoke
  <2> HIDE DEF b
  <2> QED BY <1>2, <2>1 DEF RunPiSmoke
<1> HIDE DEF b
<1>4. c.required \in BOOLEAN /\ (b.task = "delegate" => PiReport(c)) /\ Len(c.list) \in Nat
  <2>1. CASE end.task = "review"
    BY <1>2, <2>1 DEF NoCommands
  <2>2. CASE end.task # "review"
    BY <1>2, <2>2 DEF PiReport
  <2> QED BY <2>1, <2>2
<1>5. b.task = "delegate" => (c.required <=> RequiredCommandsRan(end.runtime, events, text))
  BY <1>2
<1> HIDE DEF c
<1>6. CASE Len(c.list) > MaxObservations
  <2>1. InfrastructureEvidence(b) = InfrastructureEvidence(end)
    BY <1>2 DEF InfrastructureEvidence
  <2> QED BY <1>3, <1>6, <2>1, InfrastructureAgrees
<1>7. CASE ~(Len(c.list) > MaxObservations)
  <2>1. Len(c.list) <= MaxObservations
    BY <1>4, <1>7, GatesAssumption
  <2>2. ChecksSay(checks, b, c, retries, {"environmentIsolated"})
    BY <1>2, <1>4, PiChecksSay DEF Bounded
  <2>3. /\ Writes(e, b, status, c, retries, checks)
        /\ e.has = {"provider", "credentialEnv", "configSha256"}
                     \cup IF b.task = "review" THEN {} ELSE DelegateFields \cup {"writeCommandObservations"}
    BY PiWrites
  <2>4. ContractHolds(e)
    BY <1>2, <1>4, <2>1, <2>2, PiContract
  <2> HIDE DEF e
  <2>5. /\ e.passed <=> well
        /\ e.passed => PassedIsSound(e) /\ e.model = "frozen" /\ e.telemetry.drained /\ ExactTelemetry(e)
    <3>1. b.runtime = "kimi" => {"environmentIsolated"} = {} /\ violations = <<>>
      BY <1>2
    <3> HIDE DEF checks
    <3>2. Writes(e, b, TaskStatus(b, violations), c, retries, checks)
      BY <2>3
    <3> QED BY <1>1, <1>5, <2>2, <3>1, <3>2, PassesIfWell
  <2> HIDE DEF checks, status, well, violations
  <2>6. /\ e.runtime = "pi" /\ e.task = end.task /\ e.failureReason # "infrastructure_failure"
        /\ e.failureReason = "null" <=> e.passed
        /\ e.model = b.model /\ e.telemetry = b.telemetry /\ e.retries = (IF b.telemetry.known THEN retries ELSE 0)
        /\ e.commands = c /\ e.passed \in BOOLEAN /\ (e.passed => e.status = "completed")
        /\ e.credentialEnv = CredentialEnv(b) /\ e.frozen = b.frozen
    <3>1. Writes(e, b, status, c, retries, checks)
      BY <2>3
    <3> QED BY ONLY <1>2, <3>1 DEF Writes
  <2>7. {"provider", "credentialEnv", "configSha256"} \subseteq e.has
    BY <2>3
  <2>8. /\ e.credentialEnv = "expected" <=> end.how # "unlaunched"
        /\ e.frozen = end.frozen
        /\ e.passed => e.credentialEnv = "expected"
    <3>1. b.how = end.how /\ b.frozen = end.frozen
      BY <1>1 DEF BoundTo
    <3>2. e.credentialEnv = "expected" <=> end.how # "unlaunched"
      BY <2>6, <3>1 DEF CredentialEnv
    <3>3. well => end.how = "ran"
      BY DEF WentWell, well
    <3> QED BY <2>5, <2>6, <3>1, <3>2, <3>3
  <2>9. TelemetryNormal(e) /\ FailureReasonNormal(e)
    <3>1. TelemetryNormal(e)
      BY ONLY <1>2, <2>5, <2>6 DEF TelemetryNormal, Bounded
    <3> QED BY ONLY <2>6, <3>1 DEF FailureReasonNormal
  <2>10. CredentialFits(e) <=> end.how # "unlaunched"
    BY ONLY <2>6, <2>7, <2>8 DEF CredentialFits
  <2>11. LedgerAccepts(e) <=> /\ ~e.passed => e.model # "unsafe"
                              /\ e.passed => end.frozen
                              /\ end.how # "unlaunched"
    BY ONLY <2>4, <2>5, <2>6, <2>7, <2>8, <2>9, <2>10 DEF LedgerAccepts
  <2>12. Unrecordable(end, e) <=> \/ ~e.passed /\ e.model = "unsafe"
                                  \/ e.passed /\ ~end.frozen
                                  \/ end.how = "unlaunched"
    BY ONLY <2>6, end.runtime = "pi" DEF Unrecordable
  <2>13. LedgerAccepts(e) <=> ~Unrecordable(end, e)
    BY ONLY <2>11, <2>12
  <2>14. LedgerAccepts(e) /\ end.frozen => VerifierAccepts(e)
    BY ONLY <2>4, <2>5, <2>6, <2>7, <2>8, <2>11 DEF VerifierAccepts
  <2>15. e.passed => IndexAccepts(e)
    <3> SUFFICES ASSUME e.passed PROVE IndexAccepts(e)
      OBVIOUS
    <3>1. ExactBooleanChecks(e) /\ AllTrue(e.checks)
      BY ONLY <2>4, <2>6, e.passed DEF ContractHolds
    <3> QED BY ONLY <2>4, <2>5, <2>6, <2>7, <2>8, <3>1, e.passed DEF IndexAccepts, ExactBooleanChecks
  <2>16. Judged(end, e, well)
    BY ONLY <2>5, <2>6, <2>13, <2>14, <2>15, end.runtime = "pi" DEF Judged
  <2>17. RunSmoke(end, events, text, retries) = e
    BY <1>3, <1>7 DEF e, status, violations
  <2> QED BY <2>16, <2>17, JudgedAgree DEF well
<1> QED BY <1>6, <1>7

LEMMA RunsAgree ==
  ASSUME NEW kind, NEW end \in PossibleRuns(kind), NEW events, NEW text, NEW retries,
         kind = "acp" => /\ KimiReport(KimiCommands(events, text))
                         /\ KimiCommands(events, text).required <=> RequiredCommandsRan("kimi", events, text),
         kind # "acp" => /\ PiReport(PiCommands(events, text))
                         /\ PiCommands(events, text).required <=> RequiredCommandsRan("pi", events, text)
  PROVE  GatesAgreeOn(end, events, text, retries)
<1>1. end.runtime \in {"pi", "kimi"} /\ (end.runtime = "kimi" <=> kind = "acp")
  BY RunIs
<1>2. CASE end.how = "threw"
  <2>1. RunSmoke(end, events, text, retries) = InfrastructureEvidence(end)
    BY <1>2 DEF RunSmoke
  <2> QED BY <2>1, InfrastructureAgrees
<1>3. CASE end.how # "threw" /\ end.runtime = "kimi"
  BY <1>1, <1>3, KimiJudged
<1>4. CASE end.how # "threw" /\ end.runtime = "pi"
  BY <1>1, <1>4, PiJudged
<1> QED BY <1>1, <1>2, <1>3, <1>4

(* A selection is as long as there are places it selects.                   *)
LEMMA OnlyCounts ==
  ASSUME NEW T, NEW s \in Seq(T), NEW keep
  PROVE  Len(Only(s, keep)) = Cardinality({i \in 1..Len(s) : s[i] \in keep})
<1> DEFINE r == Only(s, keep)
           places == {i \in 1..Len(s) : s[i] \in keep}
           rank == [i \in 1..Len(s) |-> i]
<1>1. r \in Seq(T) /\ \E at : Places(s, keep, Len(s), r, at)
  BY OnlyKeeps
<1>2. PICK at : Places(s, keep, Len(s), r, at)
  BY <1>1
<1> HIDE DEF r
<1>3. /\ at \in [1..Len(r) -> 1..Len(s)]
      /\ \A i \in 1..Len(r) : s[at[i]] \in keep
      /\ \A i, j \in 1..Len(r) : i < j => at[i] < at[j]
      /\ \A m \in 1..Len(s) : s[m] \in keep => \E i \in 1..Len(r) : at[i] = m
  BY <1>2 DEF Places
<1>4. Len(r) \in Nat /\ Len(s) \in Nat
  BY <1>1
<1>5. Sorted(at, Len(r), places, rank)
  <2>1. \A i \in 1..Len(r) : at[i] \in places /\ rank[at[i]] = at[i]
    BY <1>3
  <2>2. \A x \in places : \E i \in 1..Len(r) : at[i] = x
    BY <1>3
  <2> QED BY <1>3, <2>1, <2>2 DEF Sorted
<1>6. Ranked(places, rank)
  BY <1>4 DEF Ranked
<1> HIDE DEF places, rank
<1>7. Cardinality(places) = Len(r)
  BY <1>4, <1>5, <1>6, SortedCount
<1> QED BY <1>7 DEF r, places

(* Where an observation says it has its command from.                       *)
Originated(o, raw) ==
  /\ o.origin \in {"raw_input", "title", Absent}
  /\ o.origin = "raw_input" <=> raw = "command"
  /\ o.origin = "raw_input" => o.source \in {"late_update", "raw_input"} /\ o.command = "command"
  /\ o.origin = Absent => o.source = "unextractable" /\ o.command = Absent

LEMMA OriginIs ==
  ASSUME NEW P, NEW events \in Seq(Calls(P)), NEW id \in Ids, Starts(events, id) # {}
  PROVE  Originated(ObservationFor(CallsOf(events).calls[id]), FinalValue(events, id, "rawInput"))
<1> DEFINE call == CallsOf(events).calls[id]
           raw == FinalValue(events, id, "rawInput")
           o == ObservationFor(call)
<1>1. call.field["rawInput"].value = raw
  <2>1. "rawInput" \in Fields
    BY DEF Fields
  <2> QED BY <2>1, FieldsAre
<1> HIDE DEF call, raw
<1>2. CASE raw = "command"
  <2>1. \E source \in {"late_update", "raw_input"} : o = Observation(source, "command", "raw_input")
    BY <1>1, <1>2 DEF ObservationFor
  <2> HIDE DEF o
  <2> QED BY <1>2, <2>1 DEF Observation, Originated, Absent, o, call, raw
<1>3. CASE raw # "command" /\ IsText(call.field["title"].value)
  <2>1. \E source, title : o = Observation(source, title, "title")
    BY <1>1, <1>3 DEF ObservationFor
  <2> HIDE DEF o
  <2> QED BY <1>3, <2>1 DEF Observation, Originated, Absent, o, call, raw
<1>4. CASE raw # "command" /\ ~IsText(call.field["title"].value)
  <2>1. o = Observation("unextractable", Absent, Absent)
    BY <1>1, <1>4 DEF ObservationFor
  <2> HIDE DEF o
  <2> QED BY <1>4, <2>1 DEF Observation, Originated, Absent, o, call, raw
<1> QED BY <1>2, <1>3, <1>4

LEMMA KimiReports ==
  ASSUME NEW P, NEW events \in Seq(Calls(P)), NEW text
  PROVE  /\ KimiReport(KimiCommands(events, text))
         /\ KimiCommands(events, text).required <=> RequiredCommandsRan("kimi", events, text)
<1> DEFINE observed == ExtractCommandObservations(events)
           ids == InOrder(events, Executed(events))
           n == Len(ids)
           c == KimiCommands(events, text)
           raw(i) == FinalValue(events, ids[i], "rawInput")
           list == Sanitize(observed, text)
           kept == {o \in ToSet(observed) :
                      o.command # Absent /\ ("raw_only" = "compatibility" \/ o.origin = "raw_input")}
<1>1. /\ DOMAIN ids = 1..n /\ n \in Nat
      /\ observed = [i \in 1..n |-> ObservationFor(CallsOf(events).calls[ids[i]])]
      /\ Len(observed) = n
      /\ \A i \in 1..n : ids[i] \in Ids /\ Starts(events, ids[i]) # {}
  BY ObservedCalls
<1>2. /\ c.count = Len(CommandsFromObservations(observed, "raw_only")) /\ c.list = list
      /\ c.required = \E i \in DOMAIN observed : observed[i].origin = "raw_input" /\ text[i] = "status"
  BY DEF KimiCommands
<1>3. CommandsFromObservations(observed, "raw_only") =
        [i \in DOMAIN Only(observed, kept) |-> Only(observed, kept)[i].command]
  BY DEF CommandsFromObservations
<1>4. RequiredCommandsRan("kimi", events, text) <=>
        \E i \in DOMAIN ids : /\ CommandOf(events, ids[i]) = "command"
                              /\ text[i] = "status" /\ raw(i) = "command"
  BY DEF RequiredCommandsRan
<1>5. \A i \in 1..n : Originated(ObservationFor(CallsOf(events).calls[ids[i]]), raw(i))
  BY <1>1, OriginIs
<1>6. \A i \in 1..n : raw(i) = "command" => CommandOf(events, ids[i]) = "command"
  BY DEF CommandOf
<1> HIDE DEF observed, ids, n, c, raw
<1>7. DOMAIN observed = 1..n /\ \A i \in 1..n : Originated(observed[i], raw(i))
  BY <1>1, <1>5
<1>8. /\ DOMAIN list = 1..n
      /\ \A i \in 1..n :
           list[i] = IF observed[i].origin = "title" THEN [source |-> "title_fallback", match |-> "other"]
                     ELSE [source |-> observed[i].source,
                           match |-> IF observed[i].command # Absent /\ text[i] = "status" THEN "exact" ELSE "other"]
  BY <1>7 DEF Sanitize
<1>9. \A i \in 1..n :
        /\ list[i].source \in Titled => list[i].match = "other"
        /\ list[i].source \notin Titled <=> observed[i].origin = "raw_input"
        /\ list[i].match = "exact" <=> observed[i].origin = "raw_input" /\ text[i] = "status"
  <2> SUFFICES ASSUME NEW i \in 1..n
               PROVE  /\ list[i].source \in Titled => list[i].match = "other"
                      /\ list[i].source \notin Titled <=> observed[i].origin = "raw_input"
                      /\ list[i].match = "exact" <=> observed[i].origin = "raw_input" /\ text[i] = "status"
    OBVIOUS
  <2>1. Originated(observed[i], raw(i))
    BY <1>7
  <2>2. list[i] = IF observed[i].origin = "title" THEN [source |-> "title_fallback", match |-> "other"]
                  ELSE [source |-> observed[i].source,
                        match |-> IF observed[i].command # Absent /\ text[i] = "status" THEN "exact" ELSE "other"]
    BY <1>8
  <2> HIDE DEF list
  <2> DEFINE o == observed[i]
             l == list[i]
  <2>3. CASE o.origin = "title"
    BY ONLY <2>2, <2>3 DEF Titled
  <2>4. CASE o.origin = "raw_input"
    <3>1. l.source = o.source /\ l.match = IF text[i] = "status" THEN "exact" ELSE "other"
      BY <2>1, <2>2, <2>4 DEF Originated, Absent
    <3>2. o.source \in {"late_update", "raw_input"}
      BY <2>1, <2>4 DEF Originated
    <3> QED BY ONLY <2>4, <3>1, <3>2 DEF Titled
  <2>5. CASE o.origin = Absent
    <3>1. l.source = "unextractable" /\ l.match = "other" /\ o.origin # "raw_input"
      BY <2>1, <2>2, <2>5 DEF Originated, Absent
    <3> QED BY ONLY <3>1 DEF Titled
  <2> QED BY <2>1, <2>3, <2>4, <2>5 DEF Originated
<1> HIDE DEF list
<1>10. Len(list) = n
  <2>1. list = [i \in 1..n |-> list[i]]
    BY <1>7 DEF list, Sanitize
  <2>2. list \in [1..n -> {list[i] : i \in 1..n}]
    BY <2>1
  <2> QED BY <1>1, <2>2, SequenceOf DEF n
<1>11. c.required \in BOOLEAN /\ (c.required <=> Matching(c.list, "exact") # {})
  <2>1. c.required <=> \E i \in 1..n : observed[i].origin = "raw_input" /\ text[i] = "status"
    BY <1>2, <1>7
  <2>2. c.required \in BOOLEAN
    BY <1>2
  <2> QED BY <1>2, <1>8, <1>9, <2>1, <2>2 DEF Matching
<1>12. Cardinality({i \in DOMAIN c.list : c.list[i].source \notin Titled}) = c.count
  <2>1. observed \in Seq({observed[i] : i \in 1..n})
    <3>1. observed \in [1..n -> {observed[i] : i \in 1..n}]
      BY <1>1
    <3> QED BY <1>1, <3>1, SequenceOf DEF n
  <2>2. \A i \in 1..n : observed[i] \in kept <=> observed[i].origin = "raw_input"
    <3> SUFFICES ASSUME NEW i \in 1..n PROVE observed[i] \in kept <=> observed[i].origin = "raw_input"
      OBVIOUS
    <3>1. observed[i] \in ToSet(observed)
      BY <1>1, <2>1, InSet
    <3>2. observed[i].origin = "raw_input" => observed[i].command # Absent
      BY <1>7 DEF Originated, Absent
    <3> QED BY <3>1, <3>2
  <2> HIDE DEF kept
  <2>3. Len(Only(observed, kept)) = Cardinality({i \in 1..n : observed[i] \in kept})
    BY <1>1, <2>1, OnlyCounts
  <2>4. {i \in 1..n : observed[i] \in kept} = {i \in DOMAIN c.list : c.list[i].source \notin Titled}
    BY <1>2, <1>8, <1>9, <2>2
  <2>5. c.count = Len(Only(observed, kept))
    <3>1. Only(observed, kept) \in Seq({observed[i] : i \in 1..n})
      BY <2>1, OnlyKeeps
    <3> DEFINE r == Only(observed, kept)
               f == [i \in DOMAIN r |-> r[i].command]
    <3>2. Len(r) \in Nat /\ DOMAIN r = 1..Len(r)
      BY <3>1
    <3> HIDE DEF r
    <3>3. f \in [1..Len(r) -> {r[i].command : i \in 1..Len(r)}]
      BY <3>2
    <3>4. Len(f) = Len(r)
      BY <3>2, <3>3, SequenceOf
    <3>5. c.count = Len(f)
      BY <1>2, <1>3 DEF r
    <3> QED BY <3>4, <3>5 DEF r
  <2> QED BY <2>3, <2>4, <2>5, Zenon
<1>13. \A i \in DOMAIN c.list : c.list[i].source \in Titled => c.list[i].match = "other"
  BY <1>2, <1>8, <1>9
<1>14. c.required <=> RequiredCommandsRan("kimi", events, text)
  <2>1. c.required <=> \E i \in 1..n : observed[i].origin = "raw_input" /\ text[i] = "status"
    BY <1>2, <1>7
  <2>2. \A i \in 1..n : observed[i].origin = "raw_input" <=> raw(i) = "command"
    BY <1>7 DEF Originated
  <2>3. DOMAIN ids = 1..n
    BY <1>1
  <2> QED BY <1>4, <1>6, <2>1, <2>2, <2>3
<1> QED BY <1>1, <1>2, <1>10, <1>11, <1>12, <1>13, <1>14 DEF KimiReport, c

(* Success, exactly.                                                        *)
EndedWell(events, id) ==
  LET first == Least(Starts(events, id)) IN
  /\ Cardinality(Starts(events, id)) = 1
  /\ \E r \in EndsOf(events, id) : /\ EndsOf(events, id) = {r} /\ r > first
                                   /\ events[r].isError = "false"
                                   /\ events[r].title = events[first].patch["title"]

LEMMA SuccessIs ==
  ASSUME NEW events \in Seq(PiEntries), NEW id \in Ids, Starts(events, id) # {},
         NEW life, LifeTo(life, events, id, Len(events))
  PROVE  OutcomeFor(life) = "success" <=> EndedWell(events, id)
<1> DEFINE n == Len(events)
           starts == Starts(events, id)
           ends == EndsOf(events, id)
           late == AfterStart(events, id, n)
           first == Least(starts)
<1>1. n \in Nat /\ DOMAIN events = 1..n /\ \A i \in 1..n : events[i] \in PiEntries
  OBVIOUS
<1>2. /\ starts = StartsTo(events, id, n) /\ ends = ResultsTo(events, id, n)
      /\ starts \in SUBSET (1..n) /\ ends \in SUBSET (1..n)
  <2>1. ends = ResultsTo(events, id, n) /\ ends \in SUBSET (1..n)
    BY <1>1 DEF EndsOf, ResultsTo
  <2>2. starts = StartsTo(events, id, n)
    BY WholeStream
  <2>3. starts \in SUBSET (1..n)
    BY <1>1 DEF Starts
  <2> QED BY <2>1, <2>2, <2>3
<1>3. late = {r \in ends : \E i \in starts : i < r}
  BY <1>2 DEF AfterStart
<1>4. EndedSo(events, id, OutcomeFor(life))
  BY OutcomeIs
<1>5. Cardinality(starts) = 1 <=> Single(starts)
  <2>1. starts \in SUBSET DOMAIN events
    BY DEF Starts
  <2> HIDE DEF starts
  <2> QED BY <2>1, OneStart
<1>6. Cardinality(ends) = 1 <=> Single(ends)
  <2>1. ends \in SUBSET DOMAIN events
    BY DEF EndsOf
  <2> HIDE DEF ends
  <2> QED BY <2>1, OneStart
<1>7. /\ life \in Lives /\ life.started /\ StartedBy(life, FirstOf(events, id, n))
      /\ life.twice <=> \E i, j \in starts : i # j
      /\ life.early <=> \E r \in ends : \A i \in starts : r < i
      /\ Collected(life.results, events, late)
  <2> HIDE DEF n, late, starts, ends
  <2>1. starts # {} /\ LifeTo(life, events, id, n)
    BY DEF n, starts
  <2> QED BY <1>2, <2>1 DEF LifeTo, late
<1> HIDE DEF n, late, starts, ends, first
<1>8. ASSUME NEW s, starts = {s} PROVE first = s
  <2>1. starts \in SUBSET Nat /\ s \in starts /\ \A j \in starts : s <= j
    BY <1>2, <1>8
  <2> QED BY <2>1, LeastIs DEF first
<1>9. ASSUME OutcomeFor(life) = "success" PROVE EndedWell(events, id)
  <2>1. Cardinality(starts) = 1 /\ Cardinality(ends) = 1
    BY <1>4, <1>9 DEF EndedSo, Once, starts, ends
  <2>2. PICK s \in starts, r \in ends :
          s < r /\ events[r].title = events[s].patch["title"] /\ events[r].isError = "false"
    BY <1>4, <1>9 DEF EndedSo, starts, ends
  <2>3. starts = {s} /\ ends = {r}
    <3>1. Single(starts) /\ Single(ends)
      BY <1>5, <1>6, <2>1
    <3> QED BY <2>2, <3>1 DEF Single
  <2>4. first = s
    BY <1>8, <2>3
  <2>5. s \in Nat /\ r \in Nat /\ r > s
    BY <1>2, <2>2
  <2> QED BY <2>1, <2>2, <2>3, <2>4, <2>5 DEF EndedWell, first, starts, ends
<1>10. ASSUME EndedWell(events, id) PROVE OutcomeFor(life) = "success"
  <2>1. /\ Cardinality(starts) = 1
        /\ \E r \in ends : /\ ends = {r} /\ r > first /\ events[r].isError = "false"
                           /\ events[r].title = events[first].patch["title"]
    BY <1>10 DEF EndedWell, first, starts, ends
  <2>2. PICK r \in ends : /\ ends = {r} /\ r > first /\ events[r].isError = "false"
                          /\ events[r].title = events[first].patch["title"]
    BY <2>1
  <2>3. PICK s : starts = {s}
    BY <1>5, <2>1, Zenon DEF Single
  <2>4. first = s /\ s \in Nat /\ r \in Nat
    <3>1. first = s
      BY <1>8, <2>3
    <3>2. s \in starts /\ r \in ends
      BY <2>2, <2>3
    <3>3. s \in 1..n /\ r \in 1..n
      BY ONLY <1>2, <3>2
    <3> HIDE DEF n, first
    <3> QED BY <1>1, <3>1, <3>3
  <2>5. ~life.twice
    BY <1>7, <2>3
  <2>6. ~life.early
    BY <1>7, <2>2, <2>3, <2>4
  <2>7. late = {r}
    BY <1>3, <2>2, <2>3, <2>4
  <2>8. Len(life.results) = 1 /\ life.results \in Seq(PiResults)
    BY <1>7, <2>7, Zenon DEF Collected, Lives
  <2>9. life.results[1] = events[r] /\ life.results # <<>>
    <3>1. 1 \in 1..Len(life.results)
      BY <2>8
    <3> QED BY <1>7, <2>7, <2>8, <3>1 DEF Collected
  <2>10. life.title = events[first].patch["title"]
    BY <1>2, <1>7 DEF StartedBy, FirstOf, first
  <2>11. OutcomeFor(life) = IF Len(life.results) > 1 \/ life.results[1].title # life.title
                               \/ life.results[1].isError = Absent THEN "unknown"
                            ELSE IF life.results[1].isError = "true" THEN "error" ELSE "success"
    BY <2>5, <2>6, <2>9 DEF OutcomeFor
  <2> QED BY <2>2, <2>8, <2>9, <2>10, <2>11 DEF Absent
<1> QED BY <1>9, <1>10

(* The calls of Pi that execute, read from the events themselves, and the   *)
(* lifecycles that are made of them.                                        *)
LEMMA LivedCalls ==
  ASSUME NEW events \in Seq(PiEntries), NEW lives, lives = ExtractLifecycles(events),
         NEW ids, ids = InOrder(events, Executed(events))
  PROVE  /\ DOMAIN ids = 1..Len(ids) /\ Len(ids) \in Nat /\ DOMAIN lives = 1..Len(ids)
         /\ \A i \in 1..Len(ids) :
              LET first == events[Least(Starts(events, ids[i]))] IN
              /\ IsRaw(lives[i]) <=> first.patch["rawInput"] = "command"
              /\ lives[i].outcome = "success" <=> EndedWell(events, ids[i])
<1> DEFINE n == Len(events)
           s == LivesOf(events)
           m == Len(s.order)
           rank == Ranks(events, n)
<1>1. Lived(s, events, n)
  BY ToolsAreLived
<1>2. \A id \in Ids : Starts(events, id) = StartsTo(events, id, n)
  BY WholeStream
<1>3. /\ DOMAIN s.order = 1..m /\ m \in Nat /\ s.order \in Seq(Ids)
      /\ \A id \in Ids : LifeTo(s.calls[id], events, id, n)
      /\ Sorted(s.order, m, Included(events, n), rank)
  <2> HIDE DEF s, n
  <2> QED BY <1>1 DEF Lived
<1>4. lives = [i \in 1..m |-> [id |-> s.order[i], outcome |-> OutcomeFor(s.calls[s.order[i]]),
                               command |-> Command(s.calls[s.order[i]])]]
  BY <1>3 DEF ExtractLifecycles, LivesOf, Command
<1>5. \A id \in Ids : FinalValue(events, id, "kind") = events[Least(Starts(events, id))].patch["kind"]
  <2>1. \A i \in DOMAIN events : events[i].type # "tool_call_update"
    BY DEF PiEntries, PiCalls, PiResults
  <2>2. \A id : Says(events, id, "kind", "tool_call_update") = {}
    BY <2>1 DEF Says
  <2> QED BY <2>2 DEF FinalValue
<1> HIDE DEF n, s, m, rank
<1>6. Executed(events) = Included(events, n)
  <2>1. \A id \in Ids : /\ id \in Begun(events, n) <=> Starts(events, id) # {}
                        /\ FirstOf(events, id, n) = events[Least(Starts(events, id))]
    BY <1>2 DEF Begun, FirstOf
  <2>2. \A id \in Ids : id \in Executed(events) <=> id \in Included(events, n)
    BY <1>5, <2>1 DEF Executed, Included
  <2>3. Executed(events) \subseteq Ids /\ Included(events, n) \subseteq Ids
    BY DEF Executed, Included, Begun
  <2> QED BY <2>2, <2>3, Zenon
<1>7. \A id \in Executed(events) : id \in Ids /\ Starts(events, id) # {}
  BY DEF Executed
<1>8. Ranked(Executed(events), rank) /\ \A id \in Executed(events) : rank[id] = Least(Starts(events, id))
  <2>1. \A id \in Executed(events) : Ranking(events)[id] = Least(Starts(events, id)) /\ Ranking(events)[id] \in Nat
    BY <1>7, RankingIs
  <2>2. Ranking(events) = rank
    BY DEF Ranking, rank, n
  <2> QED BY <2>1, <2>2 DEF Ranked
<1>9. DOMAIN ids = 1..m /\ Len(ids) = m /\ \A i \in 1..m : ids[i] = s.order[i]
  BY <1>3, <1>6, <1>8, InOrderIs
<1>10. \A i \in 1..m : s.order[i] \in Ids /\ Starts(events, s.order[i]) # {}
  BY <1>3, <1>6, <1>7, Zenon DEF Sorted
<1>11. ASSUME NEW i \in 1..m
       PROVE  /\ IsRaw(lives[i]) <=> events[Least(Starts(events, ids[i]))].patch["rawInput"] = "command"
              /\ lives[i].outcome = "success" <=> EndedWell(events, ids[i])
  <2> DEFINE id == s.order[i]
             life == s.calls[id]
  <2>1. id \in Ids /\ Starts(events, id) # {} /\ LifeTo(life, events, id, n) /\ ids[i] = id
    BY <1>3, <1>9, <1>10
  <2>2. lives[i].outcome = OutcomeFor(life) /\ lives[i].command = Command(life)
    BY <1>4
  <2> HIDE DEF id, life
  <2>3. life.raw = events[Least(Starts(events, id))].patch["rawInput"] /\ life \in Lives
    BY <1>2, <2>1 DEF LifeTo, StartedBy, FirstOf
  <2>4. Command(life) = "command" <=> life.raw = "command"
    <3>1. life.title # "command"
      BY <2>3 DEF Lives, Absent
    <3> QED BY <3>1 DEF Command
  <2>5. OutcomeFor(life) = "success" <=> EndedWell(events, id)
    BY <2>1, SuccessIs DEF n
  <2> QED BY <2>1, <2>2, <2>3, <2>4, <2>5 DEF IsRaw
<1> QED BY <1>3, <1>4, <1>9, <1>11

(* A list of the sanitized lifecycles says of a command what the events say. *)
Succeeding(S, outcome) == Cardinality(S) = 1 /\ \A i \in S : outcome[i] = "success"
OnlyOneDidWell(S, well) == \E i \in S : S = {i} /\ well[i] = "well"

LEMMA OneSucceeded ==
  ASSUME NEW n \in Nat, NEW S \in SUBSET (1..n), NEW outcome, NEW well,
         \A i \in 1..n : outcome[i] = "success" <=> well[i] = "well"
  PROVE  Succeeding(S, outcome) <=> OnlyOneDidWell(S, well)
<1>1. IsFiniteSet(S)
  <2>1. IsFiniteSet(1..n)
    BY FS_Interval
  <2> QED BY <2>1, FS_Subset, Zenon
<1>2. Cardinality(S) = 1 <=> \E i : S = {i}
  BY <1>1, FS_Singleton, Zenon
<1> QED BY <1>2, Zenon DEF Succeeding, OnlyOneDidWell

(* The calls of a command, and whether it was called once and did well.     *)
SaidBy(events, text, command) ==
  LET ids == InOrder(events, Executed(events)) IN
  {i \in DOMAIN ids : /\ text[i] = command
                      /\ events[Least(Starts(events, ids[i]))].patch["rawInput"] = "command"}
RanOnce(events, text, command) ==
  LET ids == InOrder(events, Executed(events)) IN
  \E i \in SaidBy(events, text, command) :
    SaidBy(events, text, command) = {i} /\ EndedWell(events, ids[i])

LEMMA RequiredIs ==
  ASSUME NEW events, NEW text
  PROVE  RequiredCommandsRan("pi", events, text)
           <=> RanOnce(events, text, "write") /\ RanOnce(events, text, "status")
<1> DEFINE ids == InOrder(events, Executed(events))
           said(command) ==
             {i \in DOMAIN ids : /\ text[i] = command
                                 /\ events[Least(Starts(events, ids[i]))].patch["rawInput"] = "command"}
           once(command) ==
             \E i \in said(command) :
               /\ said(command) = {i}
               /\ Cardinality(Starts(events, ids[i])) = 1
               /\ \E r \in EndsOf(events, ids[i]) :
                    /\ EndsOf(events, ids[i]) = {r} /\ r > Least(Starts(events, ids[i]))
                    /\ events[r].isError = "false"
                    /\ events[r].title = events[Least(Starts(events, ids[i]))].patch["title"]
<1>1. RequiredCommandsRan("pi", events, text) <=> once("write") /\ once("status")
  BY DEF RequiredCommandsRan, EndsOf
<1>2. \A command : once(command) <=> RanOnce(events, text, command)
  <2> SUFFICES ASSUME NEW command PROVE once(command) <=> RanOnce(events, text, command)
    OBVIOUS
  <2>1. said(command) = SaidBy(events, text, command)
    BY DEF SaidBy
  <2> DEFINE S == said(command)
  <2> HIDE DEF said
  <2> QED BY <2>1 DEF RanOnce, EndedWell
<1> HIDE DEF once
<1> QED BY <1>1, <1>2

LEMMA PiReports ==
  ASSUME NEW events \in Seq(PiEntries), NEW text
  PROVE  /\ PiReport(PiCommands(events, text))
         /\ PiCommands(events, text).required <=> RequiredCommandsRan("pi", events, text)
<1> DEFINE lives == ExtractLifecycles(events)
           ids == InOrder(events, Executed(events))
           n == Len(ids)
           c == PiCommands(events, text)
           calls == {e \in ToSet(events) : e.type # "tool_result"}
           observed == ExtractCommandObservations(Only(events, calls))
           list == SanitizeWrites(lives, text)
           raw(i) == events[Least(Starts(events, ids[i]))].patch["rawInput"]
           said(command) == {i \in 1..n : text[i] = command /\ raw(i) = "command"}
           well == [i \in 1..n |-> IF EndedWell(events, ids[i]) THEN "well" ELSE "ill"]
           outcome == [i \in 1..n |-> lives[i].outcome]
           succeeded(command) ==
             /\ Cardinality(said(command)) = 1
             /\ \A i \in said(command) : outcome[i] = "success"
<1>1. /\ DOMAIN ids = 1..n /\ n \in Nat /\ DOMAIN lives = 1..n
      /\ \A i \in 1..n : /\ IsRaw(lives[i]) <=> raw(i) = "command"
                         /\ lives[i].outcome = "success" <=> EndedWell(events, ids[i])
  BY LivedCalls
<1>2. /\ c.count = Len(CommandsFromObservations(observed, "compatibility")) /\ c.list = list
      /\ c.required = (/\ ExactLifecycleSucceeded(lives, text, "write")
                       /\ ExactLifecycleSucceeded(lives, text, "status"))
  BY DEF PiCommands
<1>3. CommandsFromObservations(observed, "compatibility") = [i \in 1..n |-> lives[i].command]
  <2>1. \A e \in ToSet(events) : e.type # "tool_result" <=> e.type = "tool_call"
    <3>1. \A e \in ToSet(events) : e \in PiEntries
      BY DEF ToSet
    <3> QED BY <3>1 DEF PiEntries, PiCalls, PiResults
  <2>2. calls = Beginning(events)
    BY <2>1 DEF Beginning
  <2> QED BY <1>1, <2>2, SameCommands, Zenon
<1>4. /\ DOMAIN list = 1..n
      /\ \A i \in 1..n :
           list[i] = [source |-> IF IsRaw(lives[i]) THEN "raw_input" ELSE "title_fallback",
                      match |-> IF IsRaw(lives[i]) THEN MatchOf(text[i]) ELSE "other",
                      outcome |-> lives[i].outcome]
  BY <1>1 DEF SanitizeWrites
<1>5. \A command : succeeded(command)
        <=> \E i \in said(command) : said(command) = {i} /\ EndedWell(events, ids[i])
  <2> SUFFICES ASSUME NEW command
               PROVE  succeeded(command) <=> \E i \in said(command) : said(command) = {i} /\ EndedWell(events, ids[i])
    BY Zenon
  <2> DEFINE S == said(command)
  <2>1. \A i \in 1..n : outcome[i] = "success" <=> well[i] = "well"
    BY <1>1
  <2>2. \A i \in S : well[i] = "well" <=> EndedWell(events, ids[i])
    OBVIOUS
  <2>3. S \in SUBSET (1..n)
    OBVIOUS
  <2>4. n \in Nat
    BY <1>1
  <2>5. succeeded(command) <=> Succeeding(S, outcome)
    BY DEF Succeeding
  <2> HIDE DEF S, outcome, well, n
  <2>6. Succeeding(S, outcome) <=> OnlyOneDidWell(S, well)
    BY ONLY <2>1, <2>3, <2>4, OneSucceeded, Zenon
  <2>7. OnlyOneDidWell(S, well) <=> \E i \in S : S = {i} /\ EndedWell(events, ids[i])
    BY ONLY <2>2 DEF OnlyOneDidWell
  <2> QED BY ONLY <2>5, <2>6, <2>7 DEF S
<1>6. \A command : ExactLifecycleSucceeded(lives, text, command) <=> succeeded(command)
  <2> SUFFICES ASSUME NEW command PROVE ExactLifecycleSucceeded(lives, text, command) <=> succeeded(command)
    BY Zenon
  <2>1. {i \in DOMAIN lives : IsRaw(lives[i]) /\ text[i] = command} = said(command)
    BY <1>1
  <2>2. \A i \in said(command) : outcome[i] = lives[i].outcome
    OBVIOUS
  <2> HIDE DEF said, outcome
  <2> QED BY <2>1, <2>2, Zenon DEF ExactLifecycleSucceeded
<1>7. RequiredCommandsRan("pi", events, text) <=>
        /\ \E i \in said("write") : said("write") = {i} /\ EndedWell(events, ids[i])
        /\ \E i \in said("status") : said("status") = {i} /\ EndedWell(events, ids[i])
  <2>1. \A command : SaidBy(events, text, command) = said(command)
    BY <1>1 DEF SaidBy
  <2>2. \A command : RanOnce(events, text, command)
                      <=> \E i \in said(command) : said(command) = {i} /\ EndedWell(events, ids[i])
    BY <2>1, Zenon DEF RanOnce
  <2> QED BY <2>2, RequiredIs, Zenon
<1> HIDE DEF lives, ids, n, c, observed, outcome, well, succeeded
<1>8. c.required <=> RequiredCommandsRan("pi", events, text)
  BY ONLY <1>2, <1>5, <1>6, <1>7, Zenon
<1>9. c.required \in BOOLEAN /\ (c.required <=> succeeded("write") /\ succeeded("status"))
  BY ONLY <1>2, <1>6, Zenon DEF ExactLifecycleSucceeded
<1>10. \A i \in 1..n : /\ list[i].source = IF raw(i) = "command" THEN "raw_input" ELSE "title_fallback"
                       /\ list[i].match = IF raw(i) = "command" THEN MatchOf(text[i]) ELSE "other"
                       /\ list[i].outcome = outcome[i]
  BY <1>1, <1>4 DEF outcome
<1>11. Matching(list, "exact") = said("write") /\ Matching(list, "status_exact") = said("status")
  <2>1. \A i \in 1..n : /\ MatchOf(text[i]) = "exact" <=> text[i] = "write"
                        /\ MatchOf(text[i]) = "status_exact" <=> text[i] = "status"
    BY DEF MatchOf
  <2> HIDE DEF list, raw
  <2> QED BY <1>4, <1>10, <2>1 DEF Matching
<1> HIDE DEF list
<1>12. c.required <=> SucceededOnce(c.list, "exact") /\ SucceededOnce(c.list, "status_exact")
  <2>1. SucceededOnce(list, "exact") <=> succeeded("write")
    <3>1. \A i \in said("write") : list[i].outcome = outcome[i]
      BY <1>10
    <3> HIDE DEF said
    <3> QED BY <1>11, <3>1 DEF SucceededOnce, succeeded
  <2>2. SucceededOnce(list, "status_exact") <=> succeeded("status")
    <3>1. \A i \in said("status") : list[i].outcome = outcome[i]
      BY <1>10
    <3> HIDE DEF said
    <3> QED BY <1>11, <3>1 DEF SucceededOnce, succeeded
  <2> QED BY <1>2, <1>9, <2>1, <2>2
<1>13. Cardinality({i \in DOMAIN c.list : c.list[i].source # "unextractable"}) = c.count
  <2>1. {i \in DOMAIN c.list : c.list[i].source # "unextractable"} = 1..n
    BY <1>2, <1>4, <1>10
  <2>2. Cardinality(1..n) = n
    BY <1>1, FS_Interval
  <2> DEFINE f == [i \in 1..n |-> lives[i].command]
  <2>3. f \in [1..n -> {lives[i].command : i \in 1..n}]
    OBVIOUS
  <2>4. Len(f) = n
    BY <1>1, <2>3, SequenceOf
  <2>5. c.count = Len(f)
    BY <1>2, <1>3, Zenon
  <2> QED BY <2>1, <2>2, <2>4, <2>5, Zenon
<1>14. \A i \in DOMAIN c.list : c.list[i].source = "title_fallback" => c.list[i].match = "other"
  BY <1>2, <1>4, <1>10
<1>15. Len(list) = n
  <2>1. list = [i \in 1..n |-> list[i]]
    BY <1>1 DEF list, SanitizeWrites
  <2>2. list \in [1..n -> {list[i] : i \in 1..n}]
    BY <2>1
  <2> QED BY <1>1, <2>2, SequenceOf
<1> QED BY <1>1, <1>2, <1>8, <1>9, <1>12, <1>13, <1>14, <1>15 DEF PiReport, c

LEMMA GatesOfStream == Streamed => GatesAgree
<1> SUFFICES ASSUME Streamed, NEW end \in PossibleRuns(stream.kind), NEW text
             PROVE  GatesAgreeOn(end, CASE stream.kind = "pi" -> AdapterEvents(stream.seen)
                                        [] stream.kind = "acp" -> stream.seen [] OTHER -> <<>>, text,
                                 IF stream.kind = "retry" THEN RetryCount(Retries(stream.seen)) ELSE 0)
  BY DEF GatesAgree
<1> DEFINE events == CASE stream.kind = "pi" -> AdapterEvents(stream.seen)
                       [] stream.kind = "acp" -> stream.seen [] OTHER -> <<>>
           retries == IF stream.kind = "retry" THEN RetryCount(Retries(stream.seen)) ELSE 0
<1>1. CASE stream.kind = "acp"
  <2>1. AcpEvents(Ids) = Calls(Patches)
    BY DEF AcpEvents, Calls
  <2>2. events = stream.seen /\ stream.seen \in Seq(Calls(Patches))
    BY <1>1, <2>1 DEF Streamed, EventsOf
  <2> HIDE DEF events, retries
  <2>3. /\ KimiReport(KimiCommands(events, text))
        /\ KimiCommands(events, text).required <=> RequiredCommandsRan("kimi", events, text)
    BY <2>2, KimiReports
  <2>4. GatesAgreeOn(end, events, text, retries)
    BY <1>1, <2>3, RunsAgree
  <2> QED BY <2>4 DEF events, retries
<1>2. CASE stream.kind # "acp"
  <2>1. events \in Seq(PiEntries)
    <3>1. CASE stream.kind = "pi"
      <4>1. stream.seen \in Seq(PiEvents(Ids))
        BY <3>1 DEF Streamed, EventsOf
      <4> QED BY <3>1, <4>1, EntriesAre
    <3>2. CASE stream.kind # "pi"
      <4>1. events = <<>>
        BY <1>2, <3>2
      <4>2. <<>> \in Seq(PiEntries)
        OBVIOUS
      <4> QED BY ONLY <4>1, <4>2, Zenon
    <3> QED BY <3>1, <3>2
  <2> HIDE DEF events, retries
  <2>2. /\ PiReport(PiCommands(events, text))
        /\ PiCommands(events, text).required <=> RequiredCommandsRan("pi", events, text)
    BY <2>1, PiReports
  <2>3. GatesAgreeOn(end, events, text, retries)
    BY <1>2, <2>2, RunsAgree
  <2> QED BY <2>3 DEF events, retries
<1> QED BY <1>1, <1>2

(* Whatever a run did and whatever its events are: the case passes exactly  *)
(* if the run went well and its events have the commands asked for; the     *)
(* ledger records what the smoke test writes, but for the cases that are    *)
(* named; the verifier takes what is recorded; and the index takes what     *)
(* passed, and only that.                                                   *)
THEOREM GatesAlwaysAgree == EventsSpec => []GatesAgree
<1>1. EventsSpec => []Streamed
  BY StreamBegins, StreamGoesOn, PTL DEF EventsSpec
<1> QED BY <1>1, GatesOfStream, PTL
=============================================================================
