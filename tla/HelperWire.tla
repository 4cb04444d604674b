------------------------------ MODULE HelperWire ------------------------------
(***************************************************************************)
(* The Job helper as the process that started it can see it: the frames it *)
(* writes to the control pipe, the first stop it takes, whether the target *)
(* is drained, and the status it ends with.  JobHelper implements this     *)
(* module; OwnedProcess stands at the other end of the pipe.               *)
(***************************************************************************)
EXTENDS LifecycleMachine, Naturals, Sequences

VARIABLES
  frames,   \* everything written to the pipe so far
  stop,     \* the first stop reason taken
  drained,  \* the target and its descendants are gone
  status    \* "runs", or how the helper ended

wireVars == <<frames, stop, drained, status>>

ReadyFrame == [kind |-> "READY"]
ExitFrame(reason) == [kind |-> "EXIT", reason |-> reason]
ErrorFrame == [kind |-> "ERROR"]
(* What is left in the pipe of a frame whose writer was killed. *)
TornFrame == [kind |-> "TORN"]

HasEnded == status # "runs"
Verdict == Len(frames) > 0 /\ frames[Len(frames)].kind \in {"EXIT", "ERROR"}

WireInit == frames = <<>> /\ stop = "NoneOrRootExit" /\ drained = FALSE /\ status = "runs"

Writes(frame) == frames' = Append(frames, frame) /\ UNCHANGED <<stop, drained, status>>

WriteReady == ~HasEnded /\ frames = <<>> /\ Writes(ReadyFrame)

(* EXIT is written of a drained target, with the stop taken; a protocol     *)
(* error is not reported as an exit.                                       *)
WriteExit ==
  /\ ~HasEnded /\ frames = <<ReadyFrame>> /\ drained
  /\ stop # "ProtocolError"
  /\ Writes(ExitFrame(stop))

WriteError == ~HasEnded /\ frames \in {<<>>, <<ReadyFrame>>} /\ Writes(ErrorFrame)

Latch(reason) ==
  /\ ~HasEnded /\ ~Verdict /\ stop = "NoneOrRootExit" /\ stop' = reason
  /\ UNCHANGED <<frames, drained, status>>

Drain == ~drained /\ drained' = TRUE /\ UNCHANGED <<frames, stop, status>>

(* Status 0 is the status of a helper that has written EXIT. *)
Leave ==
  /\ ~HasEnded
  /\ status' \in {"failed"} \cup (IF Verdict /\ frames[Len(frames)] # ErrorFrame THEN {"zero"} ELSE {})
  /\ UNCHANGED <<frames, stop, drained>>

(* A kill may cut a frame short. *)
Killed ==
  /\ ~HasEnded /\ status' = "killed"
  /\ frames' \in {frames} \cup (IF Verdict THEN {} ELSE {Append(frames, TornFrame)})
  /\ UNCHANGED <<stop, drained>>

WireNext == \/ WriteReady \/ WriteExit \/ WriteError \/ Drain \/ Leave \/ Killed
            \/ \E reason \in TerminateReasons : Latch(reason)

WireSpec == WireInit /\ [][WireNext]_wireVars
=============================================================================
