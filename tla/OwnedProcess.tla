----------------------------- MODULE OwnedProcess -----------------------------
(***************************************************************************)
(* The Node side of an owned process                                       *)
(* (src/runtime/windows-owned-agent-process.ts): one object that turns the *)
(* events of a helper child and of its pipes into two promises, ready and  *)
(* closed, and a terminate() the adapters may call once.                   *)
(*                                                                         *)
(* A step is one event of the Node loop with the microtasks it queues; the *)
(* handlers are functions of the closure's variables, the record w.  The   *)
(* helper at the other end is the one of HelperWire; with MaxRogue > 0 it   *)
(* may write anything.  Secondary failure codes and the helper's stage are *)
(* diagnostics and are left out.                                           *)
(***************************************************************************)
EXTENDS HelperWire, FiniteSets

CONSTANTS
  StdStreams,  \* stdin, stdout, stderr
  AskReasons,  \* reasons the caller may terminate with
  MaxRogue     \* frames a rogue helper writes; 0 for the helper of HelperWire

ASSUME AskAssumption == AskReasons \subseteq OrdinaryReasons
ASSUME StreamsAssumption == IsFiniteSet(StdStreams)

VARIABLES
  w,          \* the closure of spawnWindowsOwnedAgentProcessWithDependencies
  inbox,      \* frames in the pipe towards the helper
  configured, \* the helper has read its configuration
  delivered   \* how many of frames the wrapper's socket has delivered

vars == <<wireVars, w, inbox, configured, delivered>>

NoTerminal == [kind |-> "none"]
FailureCodes == {"spawn_failed", "control_failed", "protocol_failed", "helper_reported_failure",
                 "helper_exit_failed", "stdio_failed", "termination_failed"}
OutFrames == {"config", "ProtocolError"} \cup AskReasons

Wrapper ==
  [failure : FailureCodes \cup {"none"}, ready : {"pending", "resolved", "rejected"},
   readySeen : BOOLEAN,
   terminal : {NoTerminal, ErrorFrame} \cup {ExitFrame(r) : r \in Reasons},
   decoder : {"ok", "partial", "failed"}, controlEnded : BOOLEAN, controlClosed : BOOLEAN,
   controlBroken : BOOLEAN, open : SUBSET StdStreams,
   processClosed : BOOLEAN, rescueAttempted : BOOLEAN, protocolStopAttempted : BOOLEAN,
   configWritten : BOOLEAN, returned : BOOLEAN, expected : AskReasons \cup {"none"},
   termination : {"none", "pending", "resolved", "rejected"},
   closed : {"pending", "rejected"} \cup Reasons, writes : Seq(OutFrames)]

TypeOK ==
  /\ w \in Wrapper
  /\ inbox \in Seq(OutFrames) /\ configured \in BOOLEAN
  /\ delivered \in 0..Len(frames)
  /\ stop \in Reasons /\ drained \in BOOLEAN
  /\ status \in {"runs", "zero", "failed", "killed"}

Init ==
  /\ WireInit
  /\ inbox = <<>> /\ configured = FALSE /\ delivered = 0
  /\ w = [failure |-> "none", ready |-> "pending", readySeen |-> FALSE,
          terminal |-> NoTerminal, decoder |-> "ok", controlEnded |-> FALSE,
          controlClosed |-> FALSE, controlBroken |-> FALSE, open |-> StdStreams,
          processClosed |-> FALSE, rescueAttempted |-> FALSE,
          protocolStopAttempted |-> FALSE, configWritten |-> FALSE, returned |-> FALSE,
          expected |-> "none", termination |-> "none", closed |-> "pending",
          writes |-> <<"config">>]

-----------------------------------------------------------------------------
(* The functions of the closure *)

\* Mutant: a failure takes back a ready that has already been announced.
RecordFailureUnready(x, code) ==
  IF x.failure # "none" THEN x ELSE [x EXCEPT !.failure = code, !.ready = "rejected"]

RecordFailure(x, code) ==
  IF x.failure # "none" THEN x
  ELSE [x EXCEPT !.failure = code, !.ready = IF @ = "pending" THEN "rejected" ELSE @]

RescueWithRetainedHandle(x) == [x EXCEPT !.rescueAttempted = TRUE]

\* Mutant: the stop frame is queued even when nobody can read it.
StopWithoutLooking(x) ==
  IF x.protocolStopAttempted THEN x
  ELSE [x EXCEPT !.protocolStopAttempted = TRUE, !.writes = Append(@, "ProtocolError")]

RequestPrivateProtocolStop(x) ==
  IF x.protocolStopAttempted THEN x
  ELSE LET y == [x EXCEPT !.protocolStopAttempted = TRUE] IN
       IF x.terminal # NoTerminal \/ ~x.configWritten \/ x.controlEnded \/ x.controlClosed
         THEN RescueWithRetainedHandle(y)
         ELSE [y EXCEPT !.writes = Append(@, "ProtocolError")]

\* Mutant: a failure is recorded and nothing is stopped.
FailOnly(x, code) == RecordFailure(x, code)

FailAndClean(x, code) ==
  LET y == RecordFailure(x, code) IN
  IF code = "control_failed" /\ (x.controlEnded \/ x.controlClosed)
    THEN RescueWithRetainedHandle(y)
    ELSE RequestPrivateProtocolStop(y)

FailUnless(x, condition, code) == IF condition THEN x ELSE RecordFailure(x, code)

\* Mutant: the promise settles as soon as the process and its pipe are closed.
EverythingClosedButStdio(x) == x.processClosed /\ x.controlClosed

EverythingClosed(x) == x.processClosed /\ x.controlClosed /\ x.open = {}

(* trySettle; a mismatched status of a reported error is a diagnostic only. *)
TrySettle(x) ==
  LET y == FailUnless(
             FailUnless(
               FailUnless(x, x.controlEnded, "control_failed"),
               x.terminal # NoTerminal, "helper_exit_failed"),
             status # "killed" /\ (x.terminal.kind = "EXIT" => status = "zero"),
             "helper_exit_failed")
  IN  IF x.closed # "pending" \/ ~EverythingClosed(x) THEN x
      ELSE [y EXCEPT !.closed = IF y.failure # "none" THEN "rejected" ELSE y.terminal.reason]

Expected(x, frame) == frame.reason \in {"NoneOrRootExit", x.expected}

\* Mutant: a second READY or terminal frame is ignored.
OnFrameTolerant(x, frame) ==
  CASE x.terminal # NoTerminal -> x
    [] x.terminal = NoTerminal /\ frame.kind = "ERROR" ->
         RecordFailure([x EXCEPT !.terminal = frame], "helper_reported_failure")
    [] x.terminal = NoTerminal /\ frame.kind = "READY" ->
         [x EXCEPT !.readySeen = TRUE, !.ready = IF @ = "pending" THEN "resolved" ELSE @]
    [] x.terminal = NoTerminal /\ frame.kind = "EXIT" ->
         IF x.readySeen THEN [x EXCEPT !.terminal = frame] ELSE FailAndClean(x, "protocol_failed")

OnFrame(x, frame) ==
  CASE x.terminal # NoTerminal -> FailAndClean(x, "protocol_failed")
    [] x.terminal = NoTerminal /\ frame.kind = "ERROR" ->
         RecordFailure([x EXCEPT !.terminal = frame], "helper_reported_failure")
    [] x.terminal = NoTerminal /\ frame.kind = "READY" ->
         IF x.readySeen THEN FailAndClean(x, "protocol_failed")
         ELSE [x EXCEPT !.readySeen = TRUE, !.ready = IF @ = "pending" THEN "resolved" ELSE @]
    [] x.terminal = NoTerminal /\ frame.kind = "EXIT" ->
         IF ~x.readySeen THEN FailAndClean(x, "protocol_failed")
         ELSE IF Expected(x, frame) THEN [x EXCEPT !.terminal = frame]
         ELSE RescueWithRetainedHandle(RecordFailure(x, "protocol_failed"))

-----------------------------------------------------------------------------
(* Events of the control socket *)

Malformed == [kind |-> "BAD"]
Readable == ~w.controlEnded /\ ~w.controlBroken

ControlData ==
  /\ Readable /\ delivered < Len(frames)
  /\ delivered' = delivered + 1
  /\ LET frame == frames[delivered + 1] IN
     /\ frame # Malformed
     /\ w' = IF w.decoder = "failed" THEN FailAndClean(w, "protocol_failed")
             ELSE IF frame = TornFrame THEN [w EXCEPT !.decoder = "partial"]
             ELSE OnFrame(w, frame)
  /\ UNCHANGED <<wireVars, inbox, configured>>

(* The decoder throws: the frames before the bad one in its chunk are lost. *)
ControlDataMalformed ==
  /\ Readable
  /\ \E n \in (delivered + 1)..Len(frames) : frames[n] = Malformed /\ delivered' = n
  /\ w' = FailAndClean([w EXCEPT !.decoder = "failed"], "protocol_failed")
  /\ UNCHANGED <<wireVars, inbox, configured>>

ControlEnd ==
  /\ Readable /\ delivered = Len(frames) /\ (HasEnded \/ Verdict)
  /\ LET x == FailUnless([w EXCEPT !.controlEnded = TRUE], w.decoder = "ok", "protocol_failed")
     IN  w' = TrySettle(IF x.terminal = NoTerminal THEN FailAndClean(x, "control_failed") ELSE x)
  /\ UNCHANGED <<wireVars, inbox, configured, delivered>>

ControlClose ==
  /\ w.controlEnded \/ w.controlBroken
  /\ ~w.controlClosed
  /\ LET x == [w EXCEPT !.controlClosed = TRUE]
     IN  w' = TrySettle(IF x.terminal = NoTerminal THEN FailAndClean(x, "control_failed") ELSE x)
  /\ UNCHANGED <<wireVars, inbox, configured, delivered>>

(* A failing read or write of the socket; it delivers nothing more.         *)
ControlError ==
  /\ ~w.controlBroken /\ ~w.controlClosed
  /\ w' = RescueWithRetainedHandle(RecordFailure([w EXCEPT !.controlBroken = TRUE], "control_failed"))
  /\ UNCHANGED <<wireVars, inbox, configured, delivered>>

-----------------------------------------------------------------------------
(* Completion of the write at the head of writeTail, with what its waiter   *)
(* does: the spawning function, terminate() or requestPrivateProtocolStop.  *)

WriteSucceeds ==
  /\ w.writes # <<>> /\ Readable
  /\ inbox' = Append(inbox, Head(w.writes))
  /\ LET x == [w EXCEPT !.writes = Tail(@)] IN
     w' = CASE Head(w.writes) = "config" -> [x EXCEPT !.configWritten = TRUE, !.returned = TRUE]
            [] Head(w.writes) = "ProtocolError" -> x
            [] Head(w.writes) \in AskReasons -> [x EXCEPT !.termination = "resolved"]
  /\ UNCHANGED <<wireVars, configured, delivered>>

\* Mutant: a TERMINATE that could not be written is reported and that is all.
WriteFailsQuietly ==
  /\ w.writes # <<>>
  /\ LET x == [w EXCEPT !.writes = Tail(@)] IN
     w' = CASE Head(w.writes) = "config" ->
                 [FailAndClean(x, "control_failed") EXCEPT !.returned = TRUE]
            [] Head(w.writes) = "ProtocolError" -> RescueWithRetainedHandle(x)
            [] Head(w.writes) \in AskReasons -> [x EXCEPT !.termination = "rejected"]
  /\ UNCHANGED <<wireVars, inbox, configured, delivered>>

WriteFails ==
  /\ w.writes # <<>>
  /\ LET x == [w EXCEPT !.writes = Tail(@)] IN
     w' = CASE Head(w.writes) = "config" ->
                 [FailAndClean(x, "control_failed") EXCEPT !.returned = TRUE]
            [] Head(w.writes) = "ProtocolError" -> RescueWithRetainedHandle(x)
            [] Head(w.writes) \in AskReasons ->
                 [FailAndClean(x, "termination_failed") EXCEPT !.termination = "rejected"]
  /\ UNCHANGED <<wireVars, inbox, configured, delivered>>

-----------------------------------------------------------------------------
(* Events of the child and of its standard streams *)

StdClose(s) ==
  /\ s \in w.open
  /\ w' = TrySettle([w EXCEPT !.open = @ \ {s}])
  /\ UNCHANGED <<wireVars, inbox, configured, delivered>>

StdError ==
  /\ w.open # {}
  /\ w' = FailAndClean(w, "stdio_failed")
  /\ UNCHANGED <<wireVars, inbox, configured, delivered>>

(* The helper could not be started after all. *)
SpawnFails ==
  /\ ~HasEnded /\ frames = <<>> /\ ~configured
  /\ status' = "killed"
  /\ w' = FailAndClean(w, "spawn_failed")
  /\ UNCHANGED <<frames, stop, drained, inbox, configured, delivered>>

(* Node emits close when the process has exited and its last stream closes, *)
(* before the other listeners of that stream hear of it.                    *)
ChildClose ==
  /\ HasEnded /\ ~w.processClosed
  /\ Cardinality(w.open) + (IF w.controlClosed THEN 0 ELSE 1) <= 1
  /\ w' = TrySettle(FailUnless([w EXCEPT !.processClosed = TRUE],
                               w.terminal # NoTerminal, "helper_exit_failed"))
  /\ UNCHANGED <<wireVars, inbox, configured, delivered>>

(* terminate(): the caller has the object once the configuration is written *)
(* or has failed; later calls return the first promise.                     *)
Terminate(reason) ==
  /\ w.returned /\ w.termination = "none"
  /\ w' = IF w.terminal # NoTerminal \/ w.processClosed \/ w.failure # "none"
            THEN [w EXCEPT !.termination = "resolved"]
            ELSE [w EXCEPT !.termination = "pending", !.expected = reason,
                           !.writes = Append(@, reason)]
  /\ UNCHANGED <<wireVars, inbox, configured, delivered>>

-----------------------------------------------------------------------------
(* The helper (external: JobHelper implements it) *)

Sound == MaxRogue = 0
HelperVars == <<inbox, configured, delivered, w>>

(* A stop read after the drain may find the helper decided. *)
HelperReads ==
  /\ ~HasEnded /\ inbox # <<>>
  /\ inbox' = Tail(inbox)
  /\ configured' = (configured \/ Head(inbox) = "config")
  /\ IF Head(inbox) = "config" \/ stop # "NoneOrRootExit" THEN UNCHANGED wireVars
     ELSE Latch(Head(inbox)) \/ ((drained \/ Verdict) /\ UNCHANGED wireVars)
  /\ UNCHANGED <<delivered, w>>

HelperSeesEof ==
  /\ inbox = <<>> /\ (w.controlClosed \/ w.controlBroken)
  /\ Latch("SessionShutdown")
  /\ UNCHANGED HelperVars

HelperActs ==
  /\ Sound /\ UNCHANGED HelperVars
  /\ \/ configured /\ stop = "NoneOrRootExit" /\ WriteReady
     \/ WriteExit \/ WriteError \/ Leave

TargetDrains == configured /\ Drain /\ UNCHANGED HelperVars

HelperKilled == Killed /\ UNCHANGED HelperVars

RogueActs ==
  /\ ~Sound /\ ~HasEnded /\ UNCHANGED HelperVars
  /\ \/ /\ Len(frames) < MaxRogue /\ ~w.controlEnded
        /\ \E frame \in {ReadyFrame, ErrorFrame, Malformed}
                          \cup {ExitFrame(r) : r \in {"NoneOrRootExit"} \cup AskReasons} : Writes(frame)
     \/ status' \in {"zero", "failed"} /\ UNCHANGED <<frames, stop, drained>>

(* Whichever helper it is: the one of HelperWire, or one that writes        *)
(* anything.                                                                *)
HelperWrites == UNCHANGED HelperVars /\ (HelperActs \/ RogueActs)

-----------------------------------------------------------------------------

SocketEvent == ControlData \/ ControlDataMalformed \/ ControlEnd \/ ControlClose
WriteEvent == WriteSucceeds \/ WriteFails
StreamEvent == \E s \in StdStreams : StdClose(s)
HelperMoves == HelperReads \/ HelperSeesEof

(* What the helper owes: it ends once stopped, drained or condemned. *)
HelperEnds == (stop # "NoneOrRootExit" \/ drained \/ Verdict) /\ HelperActs
KillTakesEffect == w.rescueAttempted /\ HelperKilled

(* Nothing of the helper is left to report an event. *)
Over == EverythingClosed(w) /\ UNCHANGED vars

Next == \/ SocketEvent \/ ControlError \/ WriteEvent \/ StreamEvent \/ StdError
        \/ SpawnFails \/ ChildClose \/ (\E reason \in AskReasons : Terminate(reason))
        \/ HelperMoves \/ HelperWrites \/ TargetDrains \/ HelperKilled
        \/ Over

Spec == Init /\ [][Next]_vars

(* The event loop and the helper make progress (JobHelper: parent loss, a   *)
(* stop and the drain of the target end the helper); the streams of a       *)
(* helper that is gone close; nothing obliges the target to end, the caller *)
(* to terminate or anything to fail.                                        *)
OwnedFairness ==
  /\ WF_vars(SocketEvent) /\ WF_vars(WriteEvent) /\ WF_vars(HelperMoves)
  /\ WF_vars(HelperEnds) /\ WF_vars(KillTakesEffect) /\ WF_vars(ChildClose)
  /\ WF_vars(HasEnded /\ StreamEvent)

FairSpec == Spec /\ OwnedFairness

-----------------------------------------------------------------------------
(* Safety *)

HasClosed == w.closed # "pending"
Completed == w.closed \notin {"pending", "rejected"}

(* Whatever the helper writes, closed resolves only on READY followed by    *)
(* one EXIT the caller can have asked for, and nothing else.                *)
CompletionIsProven ==
  Completed => /\ frames = <<ReadyFrame, ExitFrame(w.closed)>> /\ delivered = 2
               /\ w.ready = "resolved" /\ status = "zero" /\ w.open = {}
               /\ w.closed \in {"NoneOrRootExit", w.expected}

(* No failure is merely noted: once one is recorded the helper has decided  *)
(* or ended, is being killed, or has a stop taken, in its pipe or on the    *)
(* way to it, whatever else has failed since.                              *)
FailureIsCleanedUp ==
  w.failure # "none" =>
    \/ w.rescueAttempted \/ HasEnded \/ Verdict \/ drained
    \/ stop # "NoneOrRootExit"
    \/ \E i \in DOMAIN w.writes : w.writes[i] # "config"
    \/ \E i \in DOMAIN inbox : inbox[i] # "config"

(* The helper never reads a frame before its configuration, also when the   *)
(* write of the configuration fails and later writes would still go through. *)
NothingBeforeConfig == inbox # <<>> /\ ~configured => inbox[1] = "config"

-----------------------------------------------------------------------------
(* Refinement and liveness *)

Agent == INSTANCE OwnedAgent WITH
  ready <- w.ready, closed <- w.closed, asked <- w.expected, gone <- drained

(* To an adapter the wrapper and its helper are one owned agent. *)
ImplementsAgent == Agent!Spec


(* A recorded failure, a termination asked for and the loss of the helper   *)
(* all end with closed settled: no await of closed hangs.                   *)
ClosedSettles ==
  w.failure # "none" \/ w.termination # "none" \/ HasEnded ~> HasClosed
=============================================================================
