-------------------------- MODULE LifecycleMachine --------------------------
(***************************************************************************)
(* The immutable lifecycle value of the Windows Job helper                 *)
(* (native/windows-job-helper/src/LifecycleMachine.cs).  A machine is a    *)
(* record; Apply, ApplyFailure give the SET of machines a call may return: *)
(* one machine, or none when the code throws LifecycleViolationException.  *)
(***************************************************************************)

States == {"Configured", "JobReady", "Creating", "CreatedAssigned", "Running",
           "Terminating", "Terminated", "Terminal"}

Owners == {"None", "Launcher", "ControlReader", "RootWaiter", "JobWaiter"}

(* ControlReason: the ordinary reasons a parent may name, and ProtocolError *)
OrdinaryReasons == {"Cancelled", "TimedOut", "SessionShutdown"}
TerminateReasons == OrdinaryReasons \cup {"ProtocolError"}
Reasons == {"NoneOrRootExit"} \cup TerminateReasons

LaunchPreparationStages ==
  {"StdioDuplicateFailed", "AttributeListInitFailed", "HandleListAttributeFailed",
   "JobListAttributeFailed", "CommandLineInvalid"}
UnrecoverableCleanupStages == {"TerminateJobFailed", "QueryJobFailed"}
NativeFailureStages ==
  LaunchPreparationStages \cup UnrecoverableCleanupStages \cup
  {"JobCreateFailed", "JobConfigFailed", "ResumeFailed", "ControlChannelFailed",
   "HelperInternal", "WaitFailed"}
Stages ==
  NativeFailureStages \cup
  {"None", "ProtocolInvalid", "CancelledBeforeReady", "CreateFailed"}

Machine ==
  [state : States, owner : Owners, stopReason : Reasons, failureStage : Stages,
   terminal : {"None", "Exit", "Error"}, wasResumed : BOOLEAN,
   readyWasPublished : BOOLEAN, rootWasCompleted : BOOLEAN, jobWasZero : BOOLEAN,
   maySealErrorBeforeJobZero : BOOLEAN]

Initial ==
  [state |-> "Configured", owner |-> "None", stopReason |-> "NoneOrRootExit",
   failureStage |-> "None", terminal |-> "None", wasResumed |-> FALSE,
   readyWasPublished |-> FALSE, rootWasCompleted |-> FALSE, jobWasZero |-> FALSE,
   maySealErrorBeforeJobZero |-> FALSE]

-----------------------------------------------------------------------------
(* Events *)

TransportFailures == {"ControlEof", "ProtocolError"}
StopEvents ==
  {"TerminateCancelled", "TerminateTimedOut", "TerminateSessionShutdown"}
    \cup TransportFailures
LauncherEvents == {"JobPrepared", "BeginCreate", "CreateSucceeded", "CreateFailed",
                   "ResumeSucceeded", "ReadyPublished"}
SealEvents == {"SealExit", "SealError"}

(* RequireActor: each event belongs to one actor. *)
RightfulActor(event) ==
  CASE event \in LauncherEvents   -> "Launcher"
    [] event \in StopEvents       -> "ControlReader"
    [] event = "RootCompleted"    -> "RootWaiter"
    [] event = "JobZero"          -> "CleanupOwner"
    [] event \in SealEvents       -> "TerminalWriter"

(* RequireFailureActor: so does each native failure. *)
RightfulFailureActor(stage) ==
  CASE stage = "WaitFailed"                                  -> "RootWaiter"
    [] stage \in UnrecoverableCleanupStages \cup {"HelperInternal"} -> "CleanupOwner"
    [] OTHER                                                 -> "Launcher"

HasFailed(m) == m.failureStage # "None"
HasDisposition(m) == m.stopReason # "NoneOrRootExit" \/ HasFailed(m)

IsBeforeReadyCreation(m) ==
  m.state \in {"Configured", "JobReady", "Creating", "CreatedAssigned"}

-----------------------------------------------------------------------------
(* A stop request or a transport failure seen by the control reader. *)

StopReasonOf(event) ==
  CASE event = "TerminateCancelled"                          -> "Cancelled"
    [] event = "TerminateTimedOut"                           -> "TimedOut"
    [] event \in {"TerminateSessionShutdown", "ControlEof"}  -> "SessionShutdown"
    [] event = "ProtocolError"                               -> "ProtocolError"

StopStageOf(m, event) ==
  CASE event = "ControlEof"      -> "ControlChannelFailed"
    [] event = "ProtocolError"   -> "ProtocolInvalid"
    [] OTHER -> IF IsBeforeReadyCreation(m) THEN "CancelledBeforeReady" ELSE "None"

\* Mutant: an ordinary stop is applied to a drain that has already completed.
StopIsInertUnlessDisposed(m, event) ==
  \/ m.state = "Creating" /\ HasDisposition(m)
  \/ HasFailed(m)
  \/ event \notin TransportFailures /\ HasDisposition(m)

(* The early returns of Apply for a stop: an earlier disposition is kept. *)
StopIsInert(m, event) ==
  \/ m.state = "Creating" /\ HasDisposition(m)
  \/ HasFailed(m)
  \/ event \notin TransportFailures /\ (m.state = "Terminated" \/ HasDisposition(m))

ApplyStop(m, event) ==
  LET reason  == IF m.stopReason = "NoneOrRootExit" THEN StopReasonOf(event)
                                                    ELSE m.stopReason
      stage   == StopStageOf(m, event)
      latched == [m EXCEPT !.stopReason = reason, !.failureStage = stage]
  IN  CASE m.state \in {"Configured", "JobReady"} ->
             {[latched EXCEPT !.state = "Terminated", !.owner = "ControlReader"]}
        [] m.state = "Creating" -> {latched}
        [] m.state \in {"CreatedAssigned", "Running", "Terminating"} ->
             {[latched EXCEPT !.state = "Terminating",
                              !.owner = IF @ = "None" THEN "ControlReader" ELSE @]}
        [] m.state = "Terminated" /\ stage # "None" -> {latched}
        [] OTHER -> {}

-----------------------------------------------------------------------------
(* The root has been reaped, or the Job counts no active process. *)
RecordCompletion(m, root, jobZero, owner) ==
  LET nextRoot == m.rootWasCompleted \/ root
      nextZero == m.jobWasZero \/ jobZero
  IN  [m EXCEPT !.state = IF nextZero /\ (nextRoot \/ HasFailed(m))
                            THEN "Terminated" ELSE "Terminating",
                !.owner = IF @ = "None" THEN owner ELSE @,
                !.rootWasCompleted = nextRoot,
                !.jobWasZero = nextZero]

\* Mutant: the pending stop is forgotten when CreateProcessW returns.
AfterCreateForgetsStop(m) == [m EXCEPT !.state = "CreatedAssigned"]

(* A stop latched while CreateProcessW ran sends the new process to cleanup. *)
AfterCreate(m) ==
  IF HasDisposition(m) THEN [m EXCEPT !.state = "Terminating", !.owner = "Launcher"]
                       ELSE [m EXCEPT !.state = "CreatedAssigned"]

(* READY is the barrier every terminal frame of a resumed target waits for. *)
ReadyBarrierPassed(m) == ~m.wasResumed \/ m.readyWasPublished

Transition(m, event) ==
  CASE m.state = "Configured" /\ event = "JobPrepared" ->
         {[m EXCEPT !.state = "JobReady"]}
    [] m.state = "JobReady" /\ event = "BeginCreate" ->
         {[m EXCEPT !.state = "Creating"]}
    [] m.state = "Creating" /\ event = "CreateSucceeded" ->
         {AfterCreate(m)}
    [] m.state = "Creating" /\ event = "CreateFailed" ->
         {[m EXCEPT !.state = "Terminated", !.owner = "Launcher",
                    !.failureStage = IF @ = "None" THEN "CreateFailed" ELSE @]}
    [] m.state = "CreatedAssigned" /\ event = "ResumeSucceeded" ->
         {[m EXCEPT !.state = "Running", !.wasResumed = TRUE]}
    [] /\ event = "ReadyPublished" /\ ~m.readyWasPublished
       /\ \/ m.state = "Running"
          \/ m.state \in {"Terminating", "Terminated"} /\ m.wasResumed ->
         {[m EXCEPT !.readyWasPublished = TRUE]}
    [] m.state \in {"Running", "Terminating"} /\ event = "RootCompleted" ->
         {RecordCompletion(m, TRUE, FALSE, "RootWaiter")}
    [] m.state \in {"Running", "Terminating"} /\ event = "JobZero" ->
         {RecordCompletion(m, FALSE, TRUE, "JobWaiter")}
    [] m.state = "Terminated" /\ event = "RootCompleted" ->
         {[m EXCEPT !.rootWasCompleted = TRUE]}
    [] m.state = "Terminated" /\ event = "JobZero" ->
         {[m EXCEPT !.jobWasZero = TRUE]}
    [] /\ m.state = "Terminating" /\ event = "SealError"
       /\ m.maySealErrorBeforeJobZero /\ HasFailed(m) /\ ReadyBarrierPassed(m) ->
         {[m EXCEPT !.state = "Terminal", !.terminal = "Error"]}
    [] /\ m.state = "Terminated" /\ event = "SealExit"
       /\ ~HasFailed(m) /\ m.readyWasPublished
       /\ (m.rootWasCompleted /\ m.jobWasZero) \/ ~m.wasResumed ->
         {[m EXCEPT !.state = "Terminal", !.terminal = "Exit"]}
    [] /\ m.state = "Terminated" /\ event = "SealError"
       /\ HasFailed(m) /\ ReadyBarrierPassed(m) ->
         {[m EXCEPT !.state = "Terminal", !.terminal = "Error"]}
    [] OTHER -> {}

(* LifecycleMachine.Apply *)
Apply(m, actor, event) ==
  CASE m.state = "Terminal" ->
         IF event \in SealEvents
              => /\ actor = "TerminalWriter"
                 /\ m.terminal = IF event = "SealExit" THEN "Exit" ELSE "Error"
           THEN {m} ELSE {}
    [] m.state # "Terminal" /\ actor # RightfulActor(event) -> {}
    [] m.state # "Terminal" /\ actor = RightfulActor(event) ->
         CASE event \in StopEvents ->
                IF StopIsInert(m, event) THEN {m} ELSE ApplyStop(m, event)
           [] event = "RootCompleted" /\ m.rootWasCompleted -> {m}
           [] event = "JobZero" /\ m.jobWasZero -> {m}
           [] OTHER -> Transition(m, event)

-----------------------------------------------------------------------------
(* A first native failure, by the state it finds and the actor that met it. *)
FirstFailure(m, actor, stage) ==
  LET drained == IF m.jobWasZero THEN "Terminated" ELSE "Terminating"
      failed  == [m EXCEPT !.failureStage = stage]
  IN
  CASE m.state = "Terminated" /\ actor = "CleanupOwner" /\ stage = "HelperInternal" ->
         {failed}
    [] \/ m.state = "Configured" /\ stage \in {"JobCreateFailed", "JobConfigFailed"}
       \/ m.state = "JobReady" /\ stage \in LaunchPreparationStages ->
         {[failed EXCEPT !.state = "Terminated", !.owner = "Launcher"]}
    [] \/ m.state = "CreatedAssigned" /\ stage = "ResumeFailed"
       \/ m.state = "Running" /\ stage = "ControlChannelFailed" ->
         {[failed EXCEPT !.state = "Terminating", !.owner = "Launcher"]}
    [] m.state = "Running" /\ stage = "WaitFailed" ->
         {[failed EXCEPT !.state = "Terminating", !.owner = "RootWaiter"]}
    [] m.state = "Terminating" /\ stage = "ControlChannelFailed" -> {failed}
    [] m.state = "Terminating" /\ stage = "WaitFailed" ->
         {[failed EXCEPT !.state = drained]}
    [] m.state = "Terminating" /\ actor = "CleanupOwner" ->
         {[failed EXCEPT !.state = drained,
                         !.maySealErrorBeforeJobZero = stage \in UnrecoverableCleanupStages]}
    [] OTHER -> {}

(* A failure after the first: only an unrecoverable cleanup is remembered. *)
LaterFailure(m, actor, stage) ==
  IF m.state = "Terminating" /\ actor = "CleanupOwner" /\ stage \in UnrecoverableCleanupStages
    THEN [m EXCEPT !.maySealErrorBeforeJobZero = TRUE]
    ELSE m

(* LifecycleMachine.ApplyFailure *)
ApplyFailure(m, actor, stage) ==
  CASE m.state = "Terminal" -> {m}
    [] m.state # "Terminal" /\ \/ stage \notin NativeFailureStages
                               \/ actor # RightfulFailureActor(stage) -> {}
    [] /\ m.state # "Terminal"
       /\ stage \in NativeFailureStages /\ actor = RightfulFailureActor(stage) ->
         IF HasFailed(m) THEN {LaterFailure(m, actor, stage)}
                         ELSE FirstFailure(m, actor, stage)
=============================================================================
