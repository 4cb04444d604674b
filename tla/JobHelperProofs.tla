--------------------------- MODULE JobHelperProofs ---------------------------
(***************************************************************************)
(* Theorems about the Job helper, for every number of frames, descendants  *)
(* and stop reasons.  The inductive invariant IInv is what the code relies *)
(* on without saying it: where each thread may be while the target has not *)
(* been created, and what each reserved or written frame rests on.         *)
(***************************************************************************)
EXTENDS JobHelper, SequenceTheorems, TLAPS

-----------------------------------------------------------------------------
(* The lifecycle machine: Coherent is kept by every call, whichever thread  *)
(* makes it, and each kind of call changes only what its lemma says.        *)

BeforeCleanup == {"Configured", "JobReady", "Creating", "CreatedAssigned", "Running"}

Coherent(m) ==
  /\ m \in Machine
  /\ (m.state \in BeforeCleanup) <=> (m.owner = "None")
  /\ m.state \in BeforeCleanup \ {"Creating"} => ~HasDisposition(m)
  /\ m.state \in BeforeCleanup \ {"Running"} => ~m.wasResumed
  /\ m.state = "Creating" /\ HasDisposition(m) => HasFailed(m)
  /\ m.state = "Running" => m.wasResumed
  /\ m.readyWasPublished => m.wasResumed
  /\ m.jobWasZero \/ m.rootWasCompleted => m.state \notin BeforeCleanup
  /\ m.state = "Terminated" => HasFailed(m) \/ (m.rootWasCompleted /\ m.jobWasZero)
  /\ m.state = "Terminal" <=> m.terminal # "None"
  /\ m.terminal = "Exit" => /\ ~HasFailed(m) /\ m.readyWasPublished
                            /\ m.rootWasCompleted /\ m.jobWasZero
  /\ m.terminal = "Error" => HasFailed(m) /\ ReadyBarrierPassed(m)
  /\ m.failureStage = "CancelledBeforeReady" => ~m.wasResumed
  /\ m.stopReason = "ProtocolError" => HasFailed(m)

(* The fields no stop request and no failure touches. *)
SameProgress(m, n) ==
  /\ n.wasResumed = m.wasResumed /\ n.readyWasPublished = m.readyWasPublished
  /\ n.rootWasCompleted = m.rootWasCompleted /\ n.jobWasZero = m.jobWasZero
  /\ n.terminal = m.terminal

(* A disposition and a cleanup owner, once there, are there to stay. *)
KeepsDisposition(m, n) ==
  /\ m.stopReason # "NoneOrRootExit" => n.stopReason = m.stopReason
  /\ HasFailed(m) => n.failureStage = m.failureStage
  /\ m.owner # "None" => n.owner = m.owner

-----------------------------------------------------------------------------

(* The machine LifecycleMachine.Initial returns is coherent.                *)
LEMMA InitialCoherent == Coherent(Initial)
  BY DEF Coherent, Initial, Machine, States, Owners, Reasons, TerminateReasons,
         OrdinaryReasons, Stages, NativeFailureStages, LaunchPreparationStages,
         UnrecoverableCleanupStages, HasDisposition, HasFailed, BeforeCleanup,
         ReadyBarrierPassed

(* A stop request latches the first disposition and moves a machine that   *)
(* has not completed towards cleanup; a sealed machine ignores it.         *)
LEMMA StopEffect ==
  ASSUME NEW m, Coherent(m), NEW event \in StopEvents,
         NEW n \in Apply(m, "ControlReader", event)
  PROVE  /\ Coherent(n) /\ SameProgress(m, n) /\ KeepsDisposition(m, n)
         /\ \/ n.state = m.state
            \/ m.state \in {"Configured", "JobReady"} /\ n.state = "Terminated"
            \/ m.state \in {"CreatedAssigned", "Running"} /\ n.state = "Terminating"
         /\ m.state = "Terminal" => n = m
         /\ event \in TransportFailures => m.state = "Terminal" \/ HasFailed(n)
<1>1. CASE m.state = "Terminal"
  BY <1>1 DEF Apply, SealEvents, StopEvents, TransportFailures, SameProgress, KeepsDisposition
<1>2. CASE m.state # "Terminal" /\ StopIsInert(m, event)
  BY <1>2 DEF Apply, RightfulActor, LauncherEvents, StopEvents, TransportFailures,
              SameProgress, KeepsDisposition, StopIsInert, Coherent
<1>3. CASE m.state # "Terminal" /\ ~StopIsInert(m, event)
  <2>1. n \in ApplyStop(m, event)
    BY <1>3 DEF Apply, RightfulActor, LauncherEvents, StopEvents, TransportFailures
  <2> DEFINE reason == IF m.stopReason = "NoneOrRootExit" THEN StopReasonOf(event)
                                                          ELSE m.stopReason
             stage == StopStageOf(m, event)
  <2>2. /\ StopReasonOf(event) \in Reasons \ {"NoneOrRootExit"}
        /\ stage \in Stages
        /\ event \in TransportFailures => stage # "None"
        /\ StopReasonOf(event) = "ProtocolError" => stage # "None"
        /\ stage = "CancelledBeforeReady" => IsBeforeReadyCreation(m)
        /\ IsBeforeReadyCreation(m) => stage # "None"
    BY DEF StopReasonOf, StopStageOf, StopEvents, TransportFailures, Reasons,
           TerminateReasons, OrdinaryReasons, Stages, NativeFailureStages
  <2>3. m \in Machine /\ ~HasFailed(m)
    BY <1>3 DEF StopIsInert, Coherent
  <2>4. CASE m.state \in {"Configured", "JobReady"}
    BY <2>1, <2>2, <2>3, <2>4
    DEF ApplyStop, Coherent, Machine, States, Owners, SameProgress, KeepsDisposition,
        HasFailed, HasDisposition, BeforeCleanup, ReadyBarrierPassed, IsBeforeReadyCreation
  <2>5. CASE m.state = "Creating"
    BY <2>1, <2>2, <2>3, <2>5
    DEF ApplyStop, Coherent, Machine, States, Owners, SameProgress, KeepsDisposition,
        HasFailed, HasDisposition, BeforeCleanup, ReadyBarrierPassed, IsBeforeReadyCreation
  <2> DEFINE k == [m EXCEPT !.stopReason = reason, !.failureStage = stage,
                            !.state = "Terminating",
                            !.owner = IF @ = "None" THEN "ControlReader" ELSE @]
  <2>6. CASE m.state \in {"CreatedAssigned", "Running", "Terminating"}
    <3>1. n = k
      BY <2>1, <2>6 DEF ApplyStop
    <3>2. /\ k \in Machine /\ SameProgress(m, k) /\ k.state = "Terminating"
          /\ k.stopReason = reason /\ k.failureStage = stage /\ k.owner # "None"
          /\ m.owner # "None" => k.owner = m.owner
      BY <2>2, <2>3 DEF Machine, States, Owners, SameProgress, Reasons
    <3>3. m.stopReason = "ProtocolError" => HasFailed(m)
      BY DEF Coherent
    <3> HIDE DEF k, reason, stage
    <3>4. reason = "ProtocolError" => stage # "None"
      BY <2>2, <2>3, <3>3 DEF reason, stage
    <3>5. m.wasResumed => stage # "CancelledBeforeReady"
      BY <2>2, <2>6 DEF Coherent, BeforeCleanup, IsBeforeReadyCreation
    <3>6. Coherent(k)
      BY <2>6, <3>2, <3>4, <3>5
      DEF Coherent, SameProgress, HasFailed, HasDisposition, BeforeCleanup
    <3>7. m.stopReason # "NoneOrRootExit" => reason = m.stopReason
      BY DEF reason
    <3>8. event \in TransportFailures => HasFailed(k)
      BY <2>2, <3>2 DEF HasFailed, stage
    <3> QED BY <2>3, <2>6, <3>1, <3>2, <3>6, <3>7, <3>8 DEF KeepsDisposition
  <2>7. CASE m.state = "Terminated"
    BY <2>1, <2>2, <2>3, <2>7
    DEF ApplyStop, Coherent, Machine, States, Owners, SameProgress, KeepsDisposition,
        HasFailed, HasDisposition, BeforeCleanup, ReadyBarrierPassed, IsBeforeReadyCreation
  <2> QED BY <1>3, <2>3, <2>4, <2>5, <2>6, <2>7 DEF Machine, States
<1> QED BY <1>1, <1>2, <1>3

-----------------------------------------------------------------------------
(* A native failure latches the first disposition; a failure that comes    *)
(* second changes at most the permission to seal before job-zero.          *)
LEMMA FailureEffect ==
  ASSUME NEW m, Coherent(m), NEW actor, NEW stage, NEW n \in ApplyFailure(m, actor, stage)
  PROVE  /\ Coherent(n) /\ SameProgress(m, n) /\ KeepsDisposition(m, n)
         /\ n.stopReason = m.stopReason
         /\ \/ n.state = m.state
            \/ m.state \in {"Configured", "JobReady"} /\ n.state = "Terminated"
            \/ m.state \in {"CreatedAssigned", "Running"} /\ n.state = "Terminating"
            \/ m.state = "Terminating" /\ n.state = "Terminated" /\ m.jobWasZero
         /\ m.state = "Terminal" => n = m
         /\ m.state # "Terminal" => HasFailed(n)
<1> USE DEF Coherent, Machine, States, Owners, SameProgress, KeepsDisposition, HasFailed,
            HasDisposition, BeforeCleanup, ReadyBarrierPassed
<1>1. CASE m.state = "Terminal"
  BY <1>1 DEF ApplyFailure
<1>2. CASE m.state # "Terminal" /\ HasFailed(m)
  <2>1. n = LaterFailure(m, actor, stage)
    BY <1>2 DEF ApplyFailure
  <2> QED BY <1>2, <2>1 DEF LaterFailure
<1>3. CASE m.state # "Terminal" /\ ~HasFailed(m)
  <2>1. /\ n \in FirstFailure(m, actor, stage)
        /\ stage \in Stages \ {"None", "CancelledBeforeReady"}
    BY <1>3
    DEF ApplyFailure, Stages, NativeFailureStages, LaunchPreparationStages,
        UnrecoverableCleanupStages
  <2>2. CASE m.state \in {"Configured", "JobReady"}
    <3>1. n = [m EXCEPT !.failureStage = stage, !.state = "Terminated", !.owner = "Launcher"]
      BY <2>1, <2>2 DEF FirstFailure
    <3> QED BY <1>3, <2>1, <2>2, <3>1
  <2>3. CASE m.state \in {"CreatedAssigned", "Running"}
    <3>1. PICK by \in {"Launcher", "RootWaiter"} :
            n = [m EXCEPT !.failureStage = stage, !.state = "Terminating", !.owner = by]
      BY <2>1, <2>3 DEF FirstFailure
    <3> QED BY <1>3, <2>1, <2>3, <3>1
  <2>4. CASE m.state = "Terminating"
    <3>1. \/ n = [m EXCEPT !.failureStage = stage]
          \/ n = [m EXCEPT !.failureStage = stage,
                          !.state = IF m.jobWasZero THEN "Terminated" ELSE "Terminating"]
          \/ n = [m EXCEPT !.failureStage = stage,
                          !.state = IF m.jobWasZero THEN "Terminated" ELSE "Terminating",
                          !.maySealErrorBeforeJobZero = stage \in UnrecoverableCleanupStages]
      BY <2>1, <2>4 DEF FirstFailure
    <3>2. CASE n = [m EXCEPT !.failureStage = stage]
      BY <1>3, <2>1, <2>4, <3>2
    <3>3. CASE n.state = IF m.jobWasZero THEN "Terminated" ELSE "Terminating"
      <4>1. /\ n \in Machine /\ n.failureStage = stage
            /\ n.owner = m.owner /\ n.stopReason = m.stopReason /\ SameProgress(m, n)
        <5>1. (stage \in UnrecoverableCleanupStages) \in BOOLEAN
          BY DEF UnrecoverableCleanupStages
        <5> QED BY <2>1, <2>4, <3>1, <5>1
      <4> QED BY <1>3, <2>1, <2>4, <3>3, <4>1
    <3> QED BY <2>4, <3>1, <3>2, <3>3
  <2>5. CASE m.state = "Terminated"
    BY <1>3, <2>1, <2>5 DEF FirstFailure
  <2>6. m.state # "Creating"
    BY <2>1 DEF FirstFailure
  <2> QED BY <1>3, <2>2, <2>3, <2>4, <2>5, <2>6
<1> QED BY <1>1, <1>2, <1>3

(* The root's completion and job-zero are recorded for good; together, or  *)
(* with a failure, they end the drain.                                     *)
LEMMA CompletionEffect ==
  ASSUME NEW m, Coherent(m), NEW actor, NEW event \in {"RootCompleted", "JobZero"},
         NEW n \in Apply(m, actor, event)
  PROVE  /\ Coherent(n) /\ KeepsDisposition(m, n)
         /\ n.stopReason = m.stopReason /\ n.failureStage = m.failureStage
         /\ n.terminal = m.terminal /\ n.wasResumed = m.wasResumed
         /\ n.readyWasPublished = m.readyWasPublished
         /\ event = "JobZero" => n.rootWasCompleted = m.rootWasCompleted
         /\ event = "RootCompleted" => n.jobWasZero = m.jobWasZero
         /\ \/ n.state = m.state
            \/ m.state \in {"Running", "Terminating"} /\ n.state \in {"Terminating", "Terminated"}
         /\ m.state = "Terminal" => n = m
         /\ m.state # "Terminal" =>
              IF event = "RootCompleted" THEN n.rootWasCompleted ELSE n.jobWasZero
<1> USE DEF Coherent, Machine, States, Owners, KeepsDisposition, HasFailed,
            HasDisposition, BeforeCleanup, ReadyBarrierPassed
<1>1. CASE m.state = "Terminal"
  BY <1>1 DEF Apply, SealEvents
<1>2. CASE m.state # "Terminal"
  <2>1. \/ n = m /\ (IF event = "RootCompleted" THEN m.rootWasCompleted ELSE m.jobWasZero)
        \/ n \in Transition(m, event)
    BY <1>2 DEF Apply, StopEvents, TransportFailures
  <2>2. CASE m.state \in {"Running", "Terminating"} /\ n \in Transition(m, event)
    <3>1. CASE event = "RootCompleted"
      <4>1. n = RecordCompletion(m, TRUE, FALSE, "RootWaiter")
        BY <2>1, <2>2, <3>1 DEF Transition
      <4> QED BY <2>2, <3>1, <4>1 DEF RecordCompletion
    <3>2. CASE event = "JobZero"
      <4>1. n = RecordCompletion(m, FALSE, TRUE, "JobWaiter")
        BY <2>1, <2>2, <3>2 DEF Transition
      <4> QED BY <2>2, <3>2, <4>1 DEF RecordCompletion
    <3> QED BY <3>1, <3>2
  <2>3. CASE m.state = "Terminated" /\ n \in Transition(m, event)
    <3>1. n = IF event = "RootCompleted" THEN [m EXCEPT !.rootWasCompleted = TRUE]
                                         ELSE [m EXCEPT !.jobWasZero = TRUE]
      BY <2>1, <2>3 DEF Transition
    <3> QED BY <2>3, <3>1
  <2>4. CASE m.state \notin {"Running", "Terminating", "Terminated"}
    BY <1>2, <2>1, <2>4 DEF Transition
  <2>5. CASE n = m /\ (IF event = "RootCompleted" THEN m.rootWasCompleted ELSE m.jobWasZero)
    BY <1>2, <2>5
  <2> QED BY <2>1, <2>2, <2>3, <2>4, <2>5
<1> QED BY <1>1, <1>2

(* A step of the launch: where it may start, and all that it changes.       *)
LEMMA LauncherEffect ==
  ASSUME NEW m, Coherent(m), m.state # "Terminal", NEW event \in LauncherEvents,
         NEW n \in Apply(m, "Launcher", event)
  PROVE  /\ Coherent(n) /\ KeepsDisposition(m, n)
         /\ n.stopReason = m.stopReason /\ n.terminal = m.terminal
         /\ n.rootWasCompleted = m.rootWasCompleted /\ n.jobWasZero = m.jobWasZero
         /\ IF event = "ResumeSucceeded" THEN n.wasResumed ELSE n.wasResumed = m.wasResumed
         /\ IF event = "ReadyPublished" THEN n.readyWasPublished
                                        ELSE n.readyWasPublished = m.readyWasPublished
         /\ event # "CreateFailed" => n.failureStage = m.failureStage
         /\ event = "JobPrepared" => m.state = "Configured" /\ n.state = "JobReady"
         /\ event = "BeginCreate" => m.state = "JobReady" /\ n.state = "Creating"
         /\ event = "CreateSucceeded" =>
              m.state = "Creating" /\ n.state \in {"CreatedAssigned", "Terminating"}
         /\ event = "CreateFailed" =>
              m.state = "Creating" /\ n.state = "Terminated" /\ HasFailed(n)
         /\ event = "ResumeSucceeded" => m.state = "CreatedAssigned" /\ n.state = "Running"
         /\ event = "ReadyPublished" =>
              m.wasResumed /\ ~m.readyWasPublished /\ n.state = m.state
<1> USE DEF Coherent, Machine, States, Owners, KeepsDisposition, HasFailed,
            HasDisposition, BeforeCleanup, ReadyBarrierPassed, LauncherEvents
<1>1. n \in Transition(m, event)
  BY DEF Apply, RightfulActor, StopEvents, TransportFailures
<1>2. CASE event = "JobPrepared"
  <2>1. m.state = "Configured" /\ n = [m EXCEPT !.state = "JobReady"]
    BY <1>1, <1>2 DEF Transition
  <2> QED BY <1>2, <2>1
<1>3. CASE event = "BeginCreate"
  <2>1. m.state = "JobReady" /\ n = [m EXCEPT !.state = "Creating"]
    BY <1>1, <1>3 DEF Transition
  <2> QED BY <1>3, <2>1
<1>4. CASE event = "CreateSucceeded"
  <2>1. m.state = "Creating" /\ n = AfterCreate(m)
    BY <1>1, <1>4 DEF Transition
  <2> QED BY <1>4, <2>1 DEF AfterCreate
<1>5. CASE event = "CreateFailed"
  <2>1. /\ m.state = "Creating"
        /\ n = [m EXCEPT !.state = "Terminated", !.owner = "Launcher",
                         !.failureStage = IF @ = "None" THEN "CreateFailed" ELSE @]
    BY <1>1, <1>5 DEF Transition
  <2> QED BY <1>5, <2>1 DEF Stages
<1>6. CASE event = "ResumeSucceeded"
  <2>1. m.state = "CreatedAssigned" /\ n = [m EXCEPT !.state = "Running", !.wasResumed = TRUE]
    BY <1>1, <1>6 DEF Transition
  <2> QED BY <1>6, <2>1
<1>7. CASE event = "ReadyPublished"
  <2>1. /\ m.wasResumed /\ ~m.readyWasPublished
        /\ n = [m EXCEPT !.readyWasPublished = TRUE]
    BY <1>1, <1>7 DEF Transition
  <2> QED BY <1>7, <2>1
<1> QED BY <1>2, <1>3, <1>4, <1>5, <1>6, <1>7

(* Sealing decides the terminal frame: EXIT only for a drained target that  *)
(* was announced and has not failed, ERROR only for one that has failed.    *)
LEMMA SealEffect ==
  ASSUME NEW m, Coherent(m), NEW event \in SealEvents,
         NEW n \in Apply(m, "TerminalWriter", event)
  PROVE  /\ Coherent(n)
         /\ n = [m EXCEPT !.state = "Terminal",
                          !.terminal = IF event = "SealExit" THEN "Exit" ELSE "Error"]
<1> USE DEF Coherent, Machine, States, Owners, HasFailed,
            HasDisposition, BeforeCleanup, ReadyBarrierPassed, SealEvents
<1> DEFINE k == [m EXCEPT !.state = "Terminal",
                          !.terminal = IF event = "SealExit" THEN "Exit" ELSE "Error"]
<1>1. CASE m.state = "Terminal"
  <2>1. n = m /\ m.terminal = IF event = "SealExit" THEN "Exit" ELSE "Error"
    BY <1>1 DEF Apply
  <2>2. m = k
    BY <1>1, <2>1
  <2> QED BY <2>1, <2>2
<1>2. CASE m.state # "Terminal"
  <2>1. n \in Transition(m, event)
    BY <1>2 DEF Apply, RightfulActor, LauncherEvents, StopEvents, TransportFailures
  <2>2. CASE event = "SealExit"
    <3>1. /\ n = k /\ m.state = "Terminated" /\ ~HasFailed(m) /\ m.readyWasPublished
          /\ (m.rootWasCompleted /\ m.jobWasZero) \/ ~m.wasResumed
      BY <2>1, <2>2 DEF Transition
    <3> QED BY <2>2, <3>1
  <2>3. CASE event = "SealError"
    <3>1. /\ n = k /\ m.state \in {"Terminating", "Terminated"}
          /\ HasFailed(m) /\ ReadyBarrierPassed(m)
      BY <2>1, <2>3 DEF Transition
    <3> QED BY <2>3, <3>1
  <2> QED BY <2>2, <2>3
<1> QED BY <1>1, <1>2

-----------------------------------------------------------------------------
(* Acceptance: calls that never meet LifecycleViolationException *)

(* Whatever state the other threads have left the lifecycle in, it accepts  *)
(* a stop request or a transport failure of the reader.                     *)
LEMMA StopAccepted ==
  ASSUME NEW m, Coherent(m), NEW event \in StopEvents
  PROVE  Apply(m, "ControlReader", event) # {}
<1>1. CASE m.state = "Terminal"
  BY <1>1 DEF Apply, SealEvents, StopEvents, TransportFailures
<1>a. RightfulActor(event) = "ControlReader"
  BY DEF RightfulActor, LauncherEvents, StopEvents, TransportFailures, SealEvents
<1>b. m.state # "Terminal" =>
        Apply(m, "ControlReader", event) = IF StopIsInert(m, event) THEN {m} ELSE ApplyStop(m, event)
  <2>1. event # "RootCompleted" /\ event # "JobZero"
    BY DEF StopEvents, TransportFailures
  <2> QED BY <1>a, <2>1 DEF Apply
<1>2. CASE m.state # "Terminal" /\ StopIsInert(m, event)
  BY <1>2, <1>b
<1>3. CASE m.state # "Terminal" /\ ~StopIsInert(m, event)
  <2>1. Apply(m, "ControlReader", event) = ApplyStop(m, event)
    BY <1>3, <1>b
  <2>2. m.state = "Terminated" => StopStageOf(m, event) # "None"
    BY <1>3 DEF StopIsInert, StopStageOf, TransportFailures
  <2>3. m.state \in States \ {"Terminal"}
    BY <1>3 DEF Coherent, Machine
  <2> QED BY <2>1, <2>2, <2>3 DEF ApplyStop, States
<1> QED BY <1>1, <1>2, <1>3

(* Once a root has been started its completion and job-zero are accepted.   *)
LEMMA CompletionAccepted ==
  ASSUME NEW m, m.state \in {"Running", "Terminating", "Terminated", "Terminal"}
  PROVE  /\ Apply(m, "RootWaiter", "RootCompleted") # {}
         /\ Apply(m, "CleanupOwner", "JobZero") # {}
  BY DEF Apply, SealEvents, RightfulActor, LauncherEvents, StopEvents, TransportFailures, Transition

(* A failed wait is accepted while the root's completion is not recorded.   *)
LEMMA WaitFailureAccepted ==
  ASSUME NEW m, Coherent(m), ~m.rootWasCompleted,
         m.state \in {"Running", "Terminating", "Terminated", "Terminal"}
  PROVE  ApplyFailure(m, "RootWaiter", "WaitFailed") # {}
<1>1. RightfulFailureActor("WaitFailed") = "RootWaiter" /\ "WaitFailed" \in NativeFailureStages
  BY DEF RightfulFailureActor, NativeFailureStages, UnrecoverableCleanupStages
<1>2. m.state \in {"Running", "Terminating"} => FirstFailure(m, "RootWaiter", "WaitFailed") # {}
  BY DEF FirstFailure, LaunchPreparationStages
<1>3. m.state = "Terminated" => HasFailed(m)
  BY DEF Coherent
<1> QED BY <1>1, <1>2, <1>3 DEF ApplyFailure

(* A failure of the cleanup owner is accepted once cleanup has begun: until *)
(* job-zero one that gives up on the Job, at any time one that does not.    *)
LEMMA CleanupFailureAccepted ==
  ASSUME NEW m, Coherent(m), m.state \in {"Terminating", "Terminated", "Terminal"}
  PROVE  /\ ~m.jobWasZero =>
              \A stage \in UnrecoverableCleanupStages : ApplyFailure(m, "CleanupOwner", stage) # {}
         /\ ApplyFailure(m, "CleanupOwner", "HelperInternal") # {}
  BY DEF ApplyFailure, FirstFailure, NativeFailureStages, RightfulFailureActor, Coherent,
         UnrecoverableCleanupStages

(* What the launcher reports of CreateProcessW, ResumeThread and READY.     *)
LEMMA LauncherAccepted ==
  ASSUME NEW m
  PROVE  /\ m.state = "Creating" => /\ Apply(m, "Launcher", "CreateSucceeded") # {}
                                    /\ Apply(m, "Launcher", "CreateFailed") # {}
         /\ m.state = "Running" => ApplyFailure(m, "Launcher", "ControlChannelFailed") # {}
         /\ m.state = "Running" /\ ~m.readyWasPublished => Apply(m, "Launcher", "ReadyPublished") # {}
<1>0. \A event \in LauncherEvents : event \notin StopEvents \cup SealEvents \cup {"RootCompleted", "JobZero"}
  BY DEF LauncherEvents, StopEvents, TransportFailures, SealEvents
<1>a. \A event \in LauncherEvents : RightfulActor(event) = "Launcher"
  BY <1>0 DEF RightfulActor
<1>1. \A event \in LauncherEvents : m.state # "Terminal" =>
        Apply(m, "Launcher", event) = Transition(m, event)
  BY <1>0, <1>a DEF Apply
<1>2. m.state = "Creating" => /\ Apply(m, "Launcher", "CreateSucceeded") = {AfterCreate(m)}
                              /\ Apply(m, "Launcher", "CreateFailed") # {}
  BY <1>1 DEF Transition, LauncherEvents
<1>3. m.state = "Running" /\ ~m.readyWasPublished => Apply(m, "Launcher", "ReadyPublished") # {}
  BY <1>1 DEF Transition, LauncherEvents
<1>4. /\ RightfulFailureActor("ControlChannelFailed") = "Launcher"
      /\ "ControlChannelFailed" \in NativeFailureStages
  BY DEF RightfulFailureActor, NativeFailureStages, UnrecoverableCleanupStages
<1>5. m.state = "Running" => FirstFailure(m, "Launcher", "ControlChannelFailed") # {}
  BY DEF FirstFailure, LaunchPreparationStages
<1>6. m.state = "Running" => ApplyFailure(m, "Launcher", "ControlChannelFailed") # {}
  BY <1>4, <1>5 DEF ApplyFailure
<1> QED BY <1>2, <1>3, <1>6

-----------------------------------------------------------------------------
(* The threads *)

LaunchPcs == {"config", "buffered", "prepare", "create", "creating", "publish",
              "assigned", "resume"}
AfterSealPcs == {"write", "shutdown", "dispose", "reap", "done", "killed"}

(* The values: types, a coherent lifecycle, no reader that is about to     *)
(* report an event it has not decoded and no writer without a frame.       *)
Typed ==
  /\ TypeOK
  /\ Coherent(lc)
  /\ pc \in {"config", "buffered"} => rpc = "off"
  /\ rpc \in {"apply", "fail"} => rbuf # <<>>
  /\ pc = "write" => terminal \in TerminalFrames
  /\ lc.state = "Terminal" => pc \in AfterSealPcs

(* Launching: before ResumeThread no thread but the coordinator and the    *)
(* reader runs, and nothing has been recorded about the target.            *)
Launching ==
  /\ pc \in LaunchPcs => wpc = "off" /\ ~lc.jobWasZero /\ ~lc.rootWasCompleted /\ ~doomed
  /\ pc \in {"config", "buffered", "prepare", "create", "creating"} => root = "none" /\ ~hasProcess
  /\ pc \in {"publish", "assigned", "resume"} => root = "suspended"
  /\ pc \in {"config", "buffered", "prepare"} => lc.state \in {"Configured", "Terminated"}
  /\ pc = "create" => lc.state \in {"JobReady", "Terminated"}
  /\ pc \in {"create", "creating"} => job = "open"

(* The target: its process is published before anybody waits for it, and   *)
(* a coordinator without one has a failure to report.                      *)
Owned ==
  /\ root = "none" => kids = 0
  /\ pc \in {"assigned", "resume", "ready", "wait", "terminate", "query", "zero",
             "after", "poll"} => hasProcess
  /\ pc \in {"spawn", "drain"} /\ ~hasProcess => root = "none" /\ HasFailed(lc)
  /\ root = "running" \/ kids > 0 => lc.wasResumed
  /\ root # "none" => job = "open" \/ doomed
  /\ pc \in {"reap", "done", "killed"} => job # "open"

(* The drain: what the lifecycle has recorded, or is about to, is so.      *)
Drained ==
  /\ RecordedDrainIsReal
  /\ pc = "zero" => JobEmpty
  /\ wpc = "completed" => root = "exited"
  /\ pc = "exitcode" => HasFailed(lc) \/ lc.rootWasCompleted
  /\ pc = "seal" => HasFailed(lc) \/ exitKnown

(* The frames: READY is on the wire when it is recorded, a reserved frame  *)
(* states the sealed lifecycle, and at most that one follows READY.        *)
BaseWire == IF lc.readyWasPublished THEN <<ReadyFrame>> ELSE <<>>

Framed ==
  /\ terminal # NoFrame <=> lc.state = "Terminal"
  /\ terminal \in ExitFrames =>
       /\ lc.terminal = "Exit" /\ terminal.codeKnown /\ terminal.reason # "ProtocolError"
       /\ terminal.reason = lc.stopReason
  /\ terminal \in ErrorFrames =>
       /\ lc.terminal = "Error"
       /\ terminal.reason = lc.stopReason /\ terminal.stage = lc.failureStage
       /\ terminal.win32 \in {"None", terminal.stage}
  /\ win32 \in {"None", lc.failureStage}
  /\ \/ wire = BaseWire
     \/ /\ terminal # NoFrame /\ wire = Append(BaseWire, terminal)
        /\ pc \in {"shutdown", "dispose", "reap", "done", "killed"}
  /\ pc \in {"shutdown", "dispose", "reap", "done"} /\ ~failed =>
       terminal \in ExitFrames /\ wire = Append(BaseWire, terminal)

(* The calls: where the lifecycle is when each thread comes to call it.    *)
CleanupStates == {"Running", "Terminating", "Terminated"}

Admissible ==
  /\ pc \in {"creating", "publish"} => lc.state = "Creating"
  /\ pc \in {"assigned", "resume"} => lc.state \in {"CreatedAssigned", "Terminating"}
  /\ pc = "ready" => lc.state = "Running" /\ ~lc.readyWasPublished
  /\ pc \in {"ready", "spawn"} => wpc = "off"
  /\ pc \in {"spawn", "drain"} /\ ~hasProcess => lc.state = "Terminated"
  /\ hasProcess /\ pc \in {"spawn", "drain", "wait", "terminate", "query", "zero", "after", "poll"} =>
       lc.state \in CleanupStates
  /\ pc \in {"terminate", "query", "zero", "poll"} => lc.state # "Running" /\ ~lc.jobWasZero
  /\ wpc # "off" => lc.state \in CleanupStates \cup {"Terminal"}
  /\ wpc \in {"off", "wait", "completed", "failed"} => ~lc.rootWasCompleted

IInv == Typed /\ Launching /\ Owned /\ Drained /\ Framed /\ Admissible

-----------------------------------------------------------------------------
(* The values *)

(* An accepted chunk of TERMINATE frames decodes to stop events.            *)
LEMMA DecodedEvents ==
  ASSUME NEW frames \in Seq(InFrames), AllTerminates(frames)
  PROVE  /\ TerminateEvents(frames) \in Seq(StopEvents)
         /\ Len(TerminateEvents(frames)) = Len(frames)
<1>1. \A i \in DOMAIN frames : TerminateEvent(frames[i]) \in StopEvents
  BY ReasonsAssumption
  DEF AllTerminates, TerminateEvent, StopEvents, TransportFailures, TerminateReasons, OrdinaryReasons
<1>2. DOMAIN frames = 1..Len(frames) /\ Len(frames) \in Nat
  OBVIOUS
<1> QED BY <1>1, <1>2 DEF TerminateEvents

(* A read consumes a prefix of the pipe.                                    *)
LEMMA Chunks ==
  ASSUME TypeOK, NEW n \in 1..Len(inbox)
  PROVE  /\ SubSeq(inbox, n + 1, Len(inbox)) \in Seq(InFrames)
         /\ Chunk(n) \in Seq(InFrames) /\ Len(Chunk(n)) = n
         /\ Tail(Chunk(n)) \in Seq(InFrames)
  BY DEF TypeOK, Chunk

(* What every call on the lifecycle preserves, in the form the steps use.   *)
LEMMA Calls ==
  ASSUME Coherent(lc)
  PROVE  /\ lc \in Machine
         /\ \A event \in StopEvents : \A n \in Apply(lc, "ControlReader", event) :
              /\ Coherent(n) /\ n \in Machine
              /\ lc.state = "Terminal" <=> n.state = "Terminal"
         /\ \A actor, stage : \A n \in ApplyFailure(lc, actor, stage) :
              /\ Coherent(n) /\ n \in Machine
              /\ lc.state = "Terminal" <=> n.state = "Terminal"
         /\ \A actor : \A event \in {"RootCompleted", "JobZero"} :
              \A n \in Apply(lc, actor, event) :
                /\ Coherent(n) /\ n \in Machine
                /\ lc.state = "Terminal" <=> n.state = "Terminal"
         /\ lc.state # "Terminal" =>
              \A event \in LauncherEvents : \A n \in Apply(lc, "Launcher", event) :
                Coherent(n) /\ n \in Machine /\ n.state # "Terminal"
         /\ \A event \in SealEvents : \A n \in Apply(lc, "TerminalWriter", event) :
              Coherent(n) /\ n \in Machine
<1>1. \A m : Coherent(m) => m \in Machine
  BY DEF Coherent
<1>2. \A event \in StopEvents : \A n \in Apply(lc, "ControlReader", event) :
        Coherent(n) /\ (lc.state = "Terminal" <=> n.state = "Terminal")
  BY StopEffect
<1>3. \A actor, stage : \A n \in ApplyFailure(lc, actor, stage) :
        Coherent(n) /\ (lc.state = "Terminal" <=> n.state = "Terminal")
  BY FailureEffect
<1>4. \A actor : \A event \in {"RootCompleted", "JobZero"} :
        \A n \in Apply(lc, actor, event) :
          Coherent(n) /\ (lc.state = "Terminal" <=> n.state = "Terminal")
  BY CompletionEffect
<1>5. lc.state # "Terminal" =>
        \A event \in LauncherEvents : \A n \in Apply(lc, "Launcher", event) :
          Coherent(n) /\ n.state # "Terminal"
  <2>1. \A m : Coherent(m) => (m.state = "Terminal" <=> m.terminal # "None")
    BY DEF Coherent
  <2>2. lc.state # "Terminal" =>
          \A event \in LauncherEvents : \A n \in Apply(lc, "Launcher", event) :
            Coherent(n) /\ n.terminal = lc.terminal
    <3> SUFFICES ASSUME lc.state # "Terminal", NEW event \in LauncherEvents,
                        NEW n \in Apply(lc, "Launcher", event)
                 PROVE  Coherent(n) /\ n.terminal = lc.terminal
      OBVIOUS
    <3> QED BY LauncherEffect
  <2> QED BY <2>1, <2>2
<1>6. \A event \in SealEvents : \A n \in Apply(lc, "TerminalWriter", event) : Coherent(n)
  BY SealEffect
<1> QED BY <1>1, <1>2, <1>3, <1>4, <1>5, <1>6

(* Each step keeps the types.                                               *)
LEMMA TypedStep == Typed /\ [Next]_vars => Typed'
<1> SUFFICES ASSUME Typed, [Next]_vars PROVE Typed'
  OBVIOUS
<1> USE DEF Typed, TypeOK, vars, session, coord, reader, pipe, kernel, Goto, Returns, Launcher,
            CleanupJobZero, MainPcs, AfterSealPcs
<1>1. CASE ReadLaunchConfig
  <2>1. PICK n \in 1..Len(inbox) :
          /\ inbox' = SubSeq(inbox, n + 1, Len(inbox))
          /\ \/ /\ AllTerminates(Tail(Chunk(n)))
                /\ rbuf' = TerminateEvents(Tail(Chunk(n)))
                /\ pc' = "buffered" /\ UNCHANGED session
             \/ /\ lc' \in Apply(lc, "ControlReader", "ProtocolError")
                /\ pc' = "drain" /\ UNCHANGED <<rbuf, win32, hasProcess, exitKnown, disposed>>
    BY <1>1 DEF ReadLaunchConfig
  <2>2. inbox' \in Seq(InFrames) /\ rbuf' \in Seq(StopEvents)
    BY <2>1, Chunks, DecodedEvents
  <2>3. Coherent(lc') /\ lc' \in Machine /\ (lc'.state = "Terminal" <=> lc.state = "Terminal")
    BY <2>1, Calls DEF StopEvents, TransportFailures
  <2>4. UNCHANGED <<terminateAttempted, terminal, failed, changed, rpc, wpc, sent, parentOpen,
                    wire, kernel, win32, hasProcess, exitKnown, disposed>> /\ rpc' = rpc
    BY <1>1, <2>1 DEF ReadLaunchConfig
  <2>5. pc = "config" /\ pc' \in {"buffered", "drain"}
    BY <1>1, <2>1 DEF ReadLaunchConfig
  <2> QED BY <2>2, <2>3, <2>4, <2>5
<1>2. CASE ReadLaunchConfigEof
  BY <1>2, Calls DEF ReadLaunchConfigEof, NoLaunchConfig, StopEvents, TransportFailures
<1>3. CASE StartReader
  <2>1. CASE rbuf # <<>>
    <3>1. Head(rbuf) \in StopEvents /\ Tail(rbuf) \in Seq(StopEvents)
      BY <2>1
    <3>2. changed' \in BOOLEAN
      BY <1>3, <2>1, Zenon DEF StartReader
    <3>3. /\ lc' \in Apply(lc, "ControlReader", Head(rbuf)) /\ rbuf' = Tail(rbuf)
          /\ pc = "buffered"
          /\ UNCHANGED <<pc, rpc, win32, hasProcess, exitKnown, disposed, terminateAttempted,
                         terminal, failed, wpc, pipe, kernel>>
      BY <1>3, <2>1 DEF StartReader
    <3>4. Coherent(lc') /\ lc' \in Machine /\ (lc'.state = "Terminal" <=> lc.state = "Terminal")
      BY <3>1, <3>3, Calls
    <3> QED BY <3>1, <3>2, <3>3, <3>4
  <2>2. CASE rbuf = <<>>
    BY <1>3, <2>2 DEF StartReader
  <2> QED BY <2>1, <2>2
<1>4. CASE LaunchAbandoned
  BY <1>4 DEF LaunchAbandoned
<1>5. CASE PrepareJob
  BY <1>5, Calls DEF PrepareJob, RecordFirstWin32Code, Stages, NativeFailureStages, LauncherEvents
<1>6. CASE BeginCreate
  BY <1>6, Calls DEF BeginCreate, LauncherEvents
<1>7. CASE CreateProcess
  BY <1>7 DEF CreateProcess
<1>8. CASE CreateProcessFails
  BY <1>8, Calls DEF CreateProcessFails, RecordFirstWin32Code, Stages, LauncherEvents
<1>9. CASE PublishProcess
  BY <1>9, Calls DEF PublishProcess, LauncherEvents
<1>10. CASE CheckAssigned
  BY <1>10 DEF CheckAssigned
<1>11. CASE ResumeRoot
  BY <1>11, Calls DEF ResumeRoot, RecordFirstWin32Code, Stages, NativeFailureStages, LauncherEvents
<1>12. CASE PublishReady
  <2>1. /\ Coherent(lc') /\ lc' \in Machine /\ lc'.state # "Terminal"
        /\ pc' = "spawn"
    BY <1>12, Calls DEF PublishReady, LauncherEvents, AfterSealPcs
  <2>2. wire' \in Seq(TerminalFrames \cup {ReadyFrame})
    BY <1>12 DEF PublishReady
  <2> QED BY <1>12, <2>1, <2>2 DEF PublishReady
<1>13. CASE StartRootWaiter
  BY <1>13 DEF StartRootWaiter
<1>14. CASE DrainWithoutProcess
  BY <1>14, Calls DEF DrainWithoutProcess
<1>15. CASE DrainDecide
  BY <1>15 DEF DrainDecide
<1>16. CASE WaitForChange
  <2>1. changed' \in BOOLEAN
    BY <1>16, Zenon DEF WaitForChange
  <2> QED BY <1>16, <2>1 DEF WaitForChange
<1>17. CASE TerminateOwnedJob
  BY <1>17 DEF TerminateOwnedJob
<1>18. CASE TerminateOwnedJobFails
  BY <1>18, Calls DEF TerminateOwnedJobFails, CleanupFails, RecordFirstWin32Code, Stages, NativeFailureStages, UnrecoverableCleanupStages
<1>19. CASE QueryActiveProcesses
  BY <1>19 DEF QueryActiveProcesses
<1>20. CASE QueryActiveProcessesFails
  BY <1>20, Calls DEF QueryActiveProcessesFails, CleanupFails, RecordFirstWin32Code, Stages, NativeFailureStages, UnrecoverableCleanupStages
<1>21. CASE RecordJobZero
  BY <1>21, Calls DEF RecordJobZero
<1>22. CASE AfterZero
  BY <1>22 DEF AfterZero
<1>23. CASE PollInterval
  <2>1. changed' \in BOOLEAN
    BY <1>23, Zenon DEF PollInterval
  <2> QED BY <1>23, <2>1 DEF PollInterval
<1>24. CASE ReadRootExitCode
  <2>1. exitKnown' \in BOOLEAN
    BY <1>24 DEF ReadRootExitCode, Machine
  <2> QED BY <1>24, <2>1 DEF ReadRootExitCode
<1>25. CASE ReadRootExitCodeFails
  BY <1>25, Calls DEF ReadRootExitCodeFails, CleanupFails, RecordFirstWin32Code, Stages, NativeFailureStages
<1>26. CASE TryReserveTerminal
  <2>3. UNCHANGED <<win32, hasProcess, exitKnown, disposed, terminateAttempted, changed, reader,
                    wpc, pipe, kernel>>
    BY <1>26 DEF TryReserveTerminal
  <2>1. CASE lc' \in SealOutcome
    <3>1. Coherent(lc') /\ lc' \in Machine
      BY <2>1, Calls DEF SealOutcome, SealEvent, SealEvents
    <3>2. lc.failureStage \in Stages /\ lc.stopReason \in Reasons
      BY DEF Machine
    <3>3. /\ ErrorFrame(lc.failureStage, lc.stopReason, win32) \in TerminalFrames
          /\ ExitFrame(lc.stopReason, exitKnown) \in TerminalFrames
      BY <3>2 DEF TerminalFrames, ExitFrames, ErrorFrames
    <3>4. SealOutcome # {} /\ pc' = "write" /\ terminal' \in TerminalFrames /\ failed' = failed
      BY <1>26, <2>1, <3>3 DEF TryReserveTerminal
    <3> QED BY <2>3, <3>1, <3>4
  <2>2. CASE lc' = lc /\ SealOutcome = {}
    <3>1. failed' \in BOOLEAN /\ pc' = "shutdown" /\ terminal' = terminal
      BY <1>26, <2>2, Zenon DEF TryReserveTerminal
    <3> QED BY <2>2, <2>3, <3>1
  <2> QED BY <1>26, <2>1, <2>2 DEF TryReserveTerminal
<1>27. CASE WriteTerminal
  <2>1. failed' \in BOOLEAN
    <3>1. (failed \/ terminal.kind = "ERROR") \in BOOLEAN
      OBVIOUS
    <3> QED BY <1>27, <3>1, Zenon DEF WriteTerminal
  <2>2. wire' \in Seq(TerminalFrames \cup {ReadyFrame})
    <3>1. wire' \in {wire, Append(wire, terminal)}
      BY <1>27, Zenon DEF WriteTerminal
    <3>2. terminal \in TerminalFrames \cup {ReadyFrame}
      BY <1>27 DEF WriteTerminal
    <3> HIDE DEF Typed, TypeOK
    <3>3. wire \in Seq(TerminalFrames \cup {ReadyFrame})
      BY DEF Typed, TypeOK
    <3> QED BY <3>1, <3>2, <3>3
  <2>3. /\ pc' = "shutdown"
        /\ UNCHANGED <<session, terminateAttempted, terminal, changed, reader, wpc, inbox, sent,
                       parentOpen, kernel>>
    BY <1>27 DEF WriteTerminal
  <2> QED BY <2>1, <2>2, <2>3
<1>28. CASE ShutdownAfterTerminal
  <2>1. failed' \in BOOLEAN
    BY <1>28, Zenon DEF ShutdownAfterTerminal
  <2> QED BY <1>28, <2>1 DEF ShutdownAfterTerminal
<1>29. CASE Dispose
  <2>1. disposed' \in BOOLEAN /\ hasProcess' \in BOOLEAN /\ doomed' \in BOOLEAN
    BY <1>29, Zenon DEF Dispose
  <2> QED BY <1>29, <2>1 DEF Dispose
<1>30. CASE ReapRoot
  BY <1>30 DEF ReapRoot
<1>31. CASE ReadChunk
  <2>1. PICK n \in 1..Len(inbox) :
          /\ inbox' = SubSeq(inbox, n + 1, Len(inbox))
          /\ \/ AllTerminates(Chunk(n)) /\ rpc' = "apply" /\ rbuf' = TerminateEvents(Chunk(n))
             \/ rpc' = "fail" /\ rbuf' = <<"ProtocolError">>
    BY <1>31 DEF ReadChunk
  <2>2. /\ inbox' \in Seq(InFrames)
        /\ rbuf' \in Seq(StopEvents) /\ rbuf' # <<>> /\ rpc' \in {"apply", "fail"}
    <3>1. inbox' \in Seq(InFrames) /\ rpc' \in {"apply", "fail"}
      BY <2>1, Chunks
    <3>2. CASE AllTerminates(Chunk(n)) /\ rbuf' = TerminateEvents(Chunk(n))
      <4>1. Chunk(n) \in Seq(InFrames) /\ Len(Chunk(n)) = n
        BY Chunks
      <4>2. rbuf' \in Seq(StopEvents) /\ Len(rbuf') = n
        BY <3>2, <4>1, DecodedEvents
      <4> QED BY <3>1, <4>2
    <3>3. CASE rbuf' = <<"ProtocolError">>
      BY <3>1, <3>3 DEF StopEvents, TransportFailures
    <3> QED BY <2>1, <3>2, <3>3
  <2> QED BY <1>31, <2>2 DEF ReadChunk, ReaderMay
<1>32. CASE ReadEnds
  BY <1>32 DEF ReadEnds, ReaderMay, StopEvents, TransportFailures
<1>33. CASE ReportEvent
  BY <1>33, Calls DEF ReportEvent, ReaderMay
<1>34. CASE SignalChange
  BY <1>34 DEF SignalChange, ReaderMay
<1>35. CASE RootWaitReturns
  BY <1>35 DEF RootWaitReturns
<1>36. CASE ReportRoot
  BY <1>36, Calls DEF ReportRoot, RecordFirstWin32Code, Stages, NativeFailureStages
<1>37. CASE SignalRoot
  BY <1>37 DEF SignalRoot
<1>38. CASE KernelKillsRoot
  BY <1>38 DEF KernelKillsRoot
<1>39. CASE KidExits
  BY <1>39, KidsAssumption DEF KidExits
<1>40. CASE ParentWrites
  BY <1>40, FramesAssumption DEF ParentWrites
<1>41. CASE ParentCloses
  <2>1. parentOpen' \in BOOLEAN
    BY <1>41, Zenon DEF ParentCloses
  <2> QED BY <1>41, <2>1 DEF ParentCloses
<1>42. CASE Spawn
  BY <1>42, KidsAssumption DEF Spawn
<1>43. CASE RootExits
  BY <1>43 DEF RootExits
<1>44. CASE ReadLaunchConfigIoFails
  BY <1>44, Calls DEF ReadLaunchConfigIoFails, NoLaunchConfig, StopEvents, TransportFailures
<1>45. CASE RootWaitFails
  BY <1>45 DEF RootWaitFails
<1>46. CASE HelperKilled
  BY <1>46 DEF HelperKilled
<1>47. CASE UNCHANGED vars
  BY <1>47
<1> QED
  BY <1>1, <1>2, <1>3, <1>4, <1>5, <1>6, <1>7, <1>8, <1>9, <1>10, <1>11, <1>12, <1>13, <1>14, <1>15, <1>16, <1>17, <1>18, <1>19, <1>20, <1>21, <1>22, <1>23, <1>24, <1>25, <1>26, <1>27, <1>28, <1>29, <1>30, <1>31, <1>32, <1>33, <1>34, <1>35, <1>36, <1>37, <1>38, <1>39, <1>40, <1>41, <1>42, <1>43, <1>44, <1>45, <1>46, <1>47
  DEF Next, Coordinator, Launch, Drain, Finish, ControlReader, RootWaiter, KernelKills, Parent,
      Target, Fault, Ended, ReadEof, ReadIoFails, KernelKillsKid

-----------------------------------------------------------------------------
(* The launch, the ownership of the target and the drain *)

(* Each step keeps Launching: the reader may latch a stop at any time, the  *)
(* coordinator finds it at its next step.                                   *)
LEMMA LaunchingStep == Typed /\ Launching /\ [Next]_vars => Launching'
<1> SUFFICES ASSUME Typed, Launching, [Next]_vars PROVE Launching'
  OBVIOUS
<1>0. TypeOK /\ Coherent(lc) /\ lc \in Machine /\ (lc.state = "Terminal" => pc \in AfterSealPcs)
  BY DEF Typed, TypeOK
<1> USE <1>0 DEF Launching, LaunchPcs, AfterSealPcs, vars, session, coord, reader, pipe, kernel, Goto,
            Returns, Launcher, CleanupJobZero
<1>1. CASE ReadLaunchConfig \/ ReadLaunchConfigEof \/ ReadLaunchConfigIoFails
  BY <1>1 DEF ReadLaunchConfig, ReadLaunchConfigEof, NoLaunchConfig, ReadLaunchConfigIoFails
<1>2. CASE StartReader
  <2>1. CASE rbuf # <<>>
    <3>1. Head(rbuf) \in StopEvents
      BY <2>1 DEF TypeOK
    <3>2. lc' \in Apply(lc, "ControlReader", Head(rbuf)) /\ pc' = pc
      BY <1>2, <2>1 DEF StartReader
    <3>3. SameProgress(lc, lc') /\ lc'.state \in {lc.state, "Terminated", "Terminating"}
          /\ (lc'.state = "Terminating" => lc.state \in {"CreatedAssigned", "Running", "Terminating"})
      BY <3>1, <3>2, StopEffect
    <3> QED BY <1>2, <3>2, <3>3 DEF StartReader, SameProgress
  <2>2. CASE rbuf = <<>>
    BY <1>2, <2>2 DEF StartReader
  <2> QED BY <2>1, <2>2
<1>3. CASE LaunchAbandoned \/ CheckAssigned \/ CreateProcess
  BY <1>3 DEF LaunchAbandoned, CheckAssigned, CreateProcess
<1>4. CASE PrepareJob
  BY <1>4, LauncherEffect DEF PrepareJob, LauncherEvents
<1>5. CASE BeginCreate
  BY <1>5, LauncherEffect DEF BeginCreate, LauncherEvents
<1>6. CASE CreateProcessFails
  BY <1>6 DEF CreateProcessFails
<1>7. CASE PublishProcess
  BY <1>7, LauncherEffect DEF PublishProcess, LauncherEvents
<1>8. CASE ResumeRoot
  BY <1>8 DEF ResumeRoot
<1>9. CASE PublishReady \/ StartRootWaiter
  BY <1>9 DEF PublishReady, StartRootWaiter
<1>10. CASE DrainWithoutProcess \/ DrainDecide \/ WaitForChange \/ TerminateOwnedJob \/
TerminateOwnedJobFails \/ QueryActiveProcesses \/ QueryActiveProcessesFails \/ RecordJobZero
\/ AfterZero \/ PollInterval
  BY <1>10
  DEF DrainWithoutProcess, DrainDecide, WaitForChange, TerminateOwnedJob,
  TerminateOwnedJobFails, CleanupFails, QueryActiveProcesses, QueryActiveProcessesFails,
  RecordJobZero, AfterZero, PollInterval
<1>11. CASE ReadRootExitCode \/ ReadRootExitCodeFails \/ TryReserveTerminal \/ WriteTerminal
\/ ShutdownAfterTerminal \/ Dispose \/ ReapRoot
  BY <1>11
  DEF ReadRootExitCode, ReadRootExitCodeFails, CleanupFails, TryReserveTerminal,
  WriteTerminal, ShutdownAfterTerminal, Dispose, ReapRoot
<1>12. CASE ReadChunk \/ ReadEnds \/ SignalChange
  BY <1>12 DEF ReadChunk, ReadEnds, SignalChange
<1>13. CASE ReportEvent
  <2>1. CASE disposed
    BY <1>13, <2>1 DEF ReportEvent
  <2>2. CASE ~disposed
    <3>1. Head(rbuf) \in StopEvents
      BY <1>13 DEF ReportEvent, Typed, TypeOK
    <3>2. lc' \in Apply(lc, "ControlReader", Head(rbuf)) /\ pc' = pc
      BY <1>13, <2>2 DEF ReportEvent
    <3>3. SameProgress(lc, lc') /\ lc'.state \in {lc.state, "Terminated", "Terminating"}
          /\ (lc'.state = "Terminating" => lc.state \in {"CreatedAssigned", "Running", "Terminating"})
      BY <3>1, <3>2, StopEffect
    <3> QED BY <1>13, <3>2, <3>3 DEF ReportEvent, SameProgress
  <2> QED BY <2>1, <2>2
<1>14. CASE RootWaitReturns \/ RootWaitFails \/ SignalRoot \/ ReportRoot
  BY <1>14 DEF RootWaitReturns, RootWaitFails, SignalRoot, ReportRoot
<1>15. CASE KernelKillsRoot \/ KidExits \/ Spawn \/ RootExits
  BY <1>15 DEF KernelKillsRoot, KidExits, Spawn, RootExits
<1>16. CASE ParentWrites \/ ParentCloses \/ HelperKilled
  BY <1>16 DEF ParentWrites, ParentCloses, HelperKilled
<1>17. CASE UNCHANGED vars
  BY <1>17
<1> QED
  BY <1>1, <1>2, <1>3, <1>4, <1>5, <1>6, <1>7, <1>8, <1>9, <1>10, <1>11, <1>12, <1>13, <1>14,
  <1>15, <1>16, <1>17
  DEF Next, Coordinator, Launch, Drain, Finish, ControlReader, RootWaiter, KernelKills, Parent,
      Target, Fault, Ended, ReadEof, ReadIoFails, KernelKillsKid

(* Each step keeps Owned: a coordinator that gives up without a process has *)
(* latched a failure.                                                       *)
LEMMA OwnedStep == Typed /\ Launching /\ Owned /\ [Next]_vars => Owned'
<1> SUFFICES ASSUME Typed, Launching, Owned, [Next]_vars PROVE Owned'
  OBVIOUS
<1>0. TypeOK /\ Coherent(lc) /\ lc \in Machine /\ (lc.state = "Terminal" => pc \in AfterSealPcs)
  BY DEF Typed, TypeOK
<1>h. \A m, n : KeepsDisposition(m, n) /\ HasFailed(m) => HasFailed(n)
  BY DEF KeepsDisposition, HasFailed
<1> USE <1>0, <1>h DEF Owned, LaunchPcs, AfterSealPcs, vars, session, coord, reader, pipe, kernel,
            Goto, Returns, Launcher, CleanupJobZero
<1>1. CASE ReadLaunchConfig
  <2>1. CASE pc' = "buffered"
    BY <1>1, <2>1 DEF ReadLaunchConfig, Launching
  <2>2. CASE pc' # "buffered"
    <3>1. HasFailed(lc') /\ SameProgress(lc, lc')
      BY <1>1, <2>2, StopEffect DEF ReadLaunchConfig, StopEvents, TransportFailures
    <3> QED BY <1>1, <3>1 DEF ReadLaunchConfig, Launching, SameProgress
  <2> QED BY <1>1, <2>1, <2>2 DEF ReadLaunchConfig
<1>2. CASE ReadLaunchConfigEof \/ ReadLaunchConfigIoFails
  <2>1. HasFailed(lc') /\ SameProgress(lc, lc')
    BY <1>2, StopEffect
    DEF ReadLaunchConfigEof, ReadLaunchConfigIoFails, NoLaunchConfig, StopEvents, TransportFailures
  <2> QED BY <1>2, <2>1
  DEF ReadLaunchConfigEof, ReadLaunchConfigIoFails, NoLaunchConfig, Launching, SameProgress
<1>3. CASE StartReader
  <2>1. CASE rbuf # <<>>
    <3>1. Head(rbuf) \in StopEvents
      BY <2>1 DEF TypeOK
    <3>2. SameProgress(lc, lc') /\ pc' = pc
      BY <1>3, <2>1, <3>1, StopEffect DEF StartReader
    <3> QED BY <1>3, <3>2 DEF StartReader, SameProgress
  <2>2. CASE rbuf = <<>>
    BY <1>3, <2>2 DEF StartReader
  <2> QED BY <2>1, <2>2
<1>4. CASE LaunchAbandoned
  BY <1>4 DEF LaunchAbandoned, Launching, Coherent
<1>5. CASE CheckAssigned \/ CreateProcess
  BY <1>5 DEF CheckAssigned, CreateProcess, Launching
<1>6. CASE PrepareJob \/ BeginCreate
  <2>1. /\ pc' \in {"create", "creating"} \/ (pc' = "spawn" /\ HasFailed(lc'))
        /\ job' \in {job, "open"} /\ UNCHANGED <<root, kids, doomed, hasProcess>>
    BY <1>6, FailureEffect DEF PrepareJob, BeginCreate
  <2> QED BY <1>6, <2>1 DEF PrepareJob, BeginCreate, Launching
<1>7. CASE CreateProcessFails
  BY <1>7, LauncherEffect DEF CreateProcessFails, LauncherEvents, Launching
<1>8. CASE PublishProcess
  BY <1>8, LauncherEffect DEF PublishProcess, LauncherEvents
<1>9. CASE ResumeRoot
  <2>1. CASE Launcher("ResumeSucceeded") /\ root' = "running" /\ pc' = "ready"
    BY <1>9, <2>1, LauncherEffect DEF ResumeRoot, LauncherEvents, Launching
  <2>2. CASE pc' = "spawn" /\ root' = root
    BY <1>9, <2>2 DEF ResumeRoot, Launching, Coherent, BeforeCleanup
  <2> QED BY <1>9, <2>1, <2>2 DEF ResumeRoot
<1>10. CASE PublishReady
  BY <1>10, LauncherEffect, FailureEffect DEF PublishReady, LauncherEvents, SameProgress
<1>11. CASE StartRootWaiter \/ DrainDecide \/ WaitForChange \/ TerminateOwnedJob \/
QueryActiveProcesses \/ AfterZero \/ PollInterval
  BY <1>11
  DEF StartRootWaiter, DrainDecide, WaitForChange, TerminateOwnedJob, QueryActiveProcesses,
  AfterZero, PollInterval
<1>12. CASE DrainWithoutProcess \/ RecordJobZero
  BY <1>12, CompletionEffect DEF DrainWithoutProcess, RecordJobZero
<1>13. CASE TerminateOwnedJobFails \/ QueryActiveProcessesFails \/ ReadRootExitCodeFails
  BY <1>13, FailureEffect
  DEF TerminateOwnedJobFails, CleanupFails, QueryActiveProcessesFails, ReadRootExitCodeFails,
  SameProgress
<1>14. CASE ReadRootExitCode \/ WriteTerminal \/ ShutdownAfterTerminal \/ Dispose \/ ReapRoot
  BY <1>14 DEF ReadRootExitCode, WriteTerminal, ShutdownAfterTerminal, Dispose, ReapRoot
<1>15. CASE TryReserveTerminal
  <2>1. CASE lc' \in Apply(lc, "TerminalWriter", SealEvent)
    <3>1. SealEvent \in SealEvents
      BY DEF SealEvent, SealEvents
    <3>2. lc' = [lc EXCEPT !.state = "Terminal",
                           !.terminal = IF SealEvent = "SealExit" THEN "Exit" ELSE "Error"]
      BY <2>1, <3>1, SealEffect
    <3>3. lc'.wasResumed = lc.wasResumed
      BY <3>2 DEF Machine
    <3> QED BY <1>15, <3>3 DEF TryReserveTerminal
  <2> QED BY <1>15, <2>1 DEF TryReserveTerminal, SealOutcome
<1>16. CASE ReadChunk \/ ReadEnds \/ SignalChange
  BY <1>16 DEF ReadChunk, ReadEnds, SignalChange
<1>17. CASE ReportEvent
  <2>1. CASE disposed
    BY <1>17, <2>1 DEF ReportEvent
  <2>2. CASE ~disposed
    <3>1. Head(rbuf) \in StopEvents
      BY <1>17 DEF ReportEvent, Typed, TypeOK
    <3>2. SameProgress(lc, lc') /\ KeepsDisposition(lc, lc')
      BY <1>17, <2>2, <3>1, StopEffect DEF ReportEvent
    <3> QED BY <1>17, <3>2 DEF ReportEvent, SameProgress
  <2> QED BY <2>1, <2>2
<1>18. CASE ReportRoot
  <2>1. /\ lc'.wasResumed = lc.wasResumed
        /\ HasFailed(lc) => HasFailed(lc')
    BY <1>18, CompletionEffect, FailureEffect DEF ReportRoot, SameProgress
  <2> QED BY <1>18, <2>1 DEF ReportRoot
<1>19. CASE RootWaitReturns \/ RootWaitFails \/ SignalRoot
  BY <1>19 DEF RootWaitReturns, RootWaitFails, SignalRoot
<1>20. CASE KernelKillsRoot \/ RootExits
  BY <1>20 DEF KernelKillsRoot, RootExits, RootAlive
<1>21. CASE KidExits \/ Spawn
  BY <1>21, KidsAssumption DEF KidExits, Spawn, TypeOK
<1>22. CASE ParentWrites \/ ParentCloses \/ HelperKilled
  BY <1>22 DEF ParentWrites, ParentCloses, HelperKilled
<1>23. CASE UNCHANGED vars
  BY <1>23
<1> QED
  BY <1>1, <1>2, <1>3, <1>4, <1>5, <1>6, <1>7, <1>8, <1>9, <1>10, <1>11, <1>12, <1>13, <1>14,
  <1>15, <1>16, <1>17, <1>18, <1>19, <1>20, <1>21, <1>22, <1>23
  DEF Next, Coordinator, Launch, Drain, Finish, ControlReader, RootWaiter, KernelKills, Parent,
      Target, Fault, Ended, ReadEof, ReadIoFails, KernelKillsKid

(* Each step keeps Drained: nothing the lifecycle has recorded about the    *)
(* target can be undone by the kernel, for a drained Job starts nothing.    *)
LEMMA DrainedStep == Typed /\ Launching /\ Owned /\ Drained /\ [Next]_vars => Drained'
<1> SUFFICES ASSUME Typed, Launching, Owned, Drained, [Next]_vars PROVE Drained'
  OBVIOUS
<1>0. /\ TypeOK /\ Coherent(lc) /\ lc \in Machine /\ (lc.state = "Terminal" => pc \in AfterSealPcs)
      /\ kids \in Nat
  BY KidsAssumption DEF Typed, TypeOK
<1>h. \A m, n : KeepsDisposition(m, n) /\ HasFailed(m) => HasFailed(n)
  BY DEF KeepsDisposition, HasFailed
<1> USE <1>0, <1>h DEF Drained, RecordedDrainIsReal, JobEmpty, RootAlive, LaunchPcs, AfterSealPcs,
            vars, session, coord, reader, pipe, kernel, Goto, Returns, Launcher, CleanupJobZero
<1>1. CASE ReadLaunchConfig \/ ReadLaunchConfigEof \/ ReadLaunchConfigIoFails
  <2>1. /\ pc' \in {"buffered", "drain"} /\ UNCHANGED <<kernel, wpc>>
        /\ lc' = lc \/ SameProgress(lc, lc')
    BY <1>1, StopEffect
    DEF ReadLaunchConfig, ReadLaunchConfigEof, ReadLaunchConfigIoFails, NoLaunchConfig, StopEvents,
        TransportFailures
  <2> QED BY <2>1 DEF SameProgress
<1>2. CASE StartReader
  <2>1. CASE rbuf # <<>>
    <3>1. Head(rbuf) \in StopEvents
      BY <2>1 DEF TypeOK
    <3>2. SameProgress(lc, lc') /\ pc' = pc /\ pc = "buffered"
      BY <1>2, <2>1, <3>1, StopEffect DEF StartReader
    <3> QED BY <1>2, <3>2 DEF StartReader, SameProgress
  <2>2. CASE rbuf = <<>>
    BY <1>2, <2>2 DEF StartReader
  <2> QED BY <2>1, <2>2
<1>3. CASE LaunchAbandoned \/ CheckAssigned \/ CreateProcess
  BY <1>3 DEF LaunchAbandoned, CheckAssigned, CreateProcess, Launching
<1>4. CASE PrepareJob \/ BeginCreate \/ CreateProcessFails \/ PublishProcess
  <2>1. /\ pc' \in {"create", "creating", "spawn", "assigned"} /\ UNCHANGED <<root, kids, wpc>>
        /\ lc'.rootWasCompleted = lc.rootWasCompleted /\ lc'.jobWasZero = lc.jobWasZero
    BY <1>4, LauncherEffect, FailureEffect
    DEF PrepareJob, BeginCreate, CreateProcessFails, PublishProcess, LauncherEvents, SameProgress
  <2> QED BY <2>1
<1>5. CASE ResumeRoot
  BY <1>5, LauncherEffect, FailureEffect
  DEF ResumeRoot, LauncherEvents, SameProgress, Launching
<1>6. CASE PublishReady
  <2>1. /\ pc' = "spawn" /\ UNCHANGED <<root, kids, wpc>>
        /\ lc'.rootWasCompleted = lc.rootWasCompleted /\ lc'.jobWasZero = lc.jobWasZero
    BY <1>6, LauncherEffect, FailureEffect DEF PublishReady, LauncherEvents, SameProgress
  <2> QED BY <2>1
<1>7. CASE StartRootWaiter \/ DrainDecide \/ WaitForChange \/ TerminateOwnedJob \/
QueryActiveProcesses \/ AfterZero \/ PollInterval
  BY <1>7
  DEF StartRootWaiter, DrainDecide, WaitForChange, TerminateOwnedJob, QueryActiveProcesses,
  AfterZero, PollInterval
<1>8. CASE DrainWithoutProcess
  <2>1. HasFailed(lc') /\ JobEmpty
    BY <1>8, CompletionEffect DEF DrainWithoutProcess, Owned
  <2>3. lc'.rootWasCompleted = lc.rootWasCompleted
    BY <1>8, CompletionEffect DEF DrainWithoutProcess
  <2> QED BY <1>8, <2>1, <2>3 DEF DrainWithoutProcess
<1>9. CASE RecordJobZero
  <2>1. lc'.rootWasCompleted = lc.rootWasCompleted
    BY <1>9, CompletionEffect DEF RecordJobZero
  <2> QED BY <1>9, <2>1 DEF RecordJobZero
<1>10. CASE TerminateOwnedJobFails \/ QueryActiveProcessesFails \/ ReadRootExitCodeFails
  <2>1. /\ pc' = "seal" /\ HasFailed(lc') /\ SameProgress(lc, lc') /\ UNCHANGED <<root, kids, wpc>>
    BY <1>10, FailureEffect
    DEF TerminateOwnedJobFails, QueryActiveProcessesFails, ReadRootExitCodeFails, CleanupFails
  <2> QED BY <2>1 DEF SameProgress
<1>11. CASE ReadRootExitCode \/ WriteTerminal \/ ShutdownAfterTerminal \/ Dispose \/ ReapRoot
  BY <1>11 DEF ReadRootExitCode, WriteTerminal, ShutdownAfterTerminal, Dispose, ReapRoot
<1>12. CASE TryReserveTerminal
  <2>1. CASE lc' \in Apply(lc, "TerminalWriter", SealEvent)
    <3>1. SealEvent \in SealEvents
      BY DEF SealEvent, SealEvents
    <3>2. lc' = [lc EXCEPT !.state = "Terminal",
                           !.terminal = IF SealEvent = "SealExit" THEN "Exit" ELSE "Error"]
      BY <2>1, <3>1, SealEffect
    <3>3. lc'.rootWasCompleted = lc.rootWasCompleted /\ lc'.jobWasZero = lc.jobWasZero
      BY <3>2 DEF Machine
    <3> QED BY <1>12, <3>3 DEF TryReserveTerminal
  <2>2. CASE lc' = lc
    BY <1>12, <2>2 DEF TryReserveTerminal
  <2> QED BY <1>12, <2>1, <2>2 DEF TryReserveTerminal, SealOutcome
<1>13. CASE ReadChunk \/ ReadEnds \/ SignalChange
  BY <1>13 DEF ReadChunk, ReadEnds, SignalChange
<1>14. CASE ReportEvent
  <2>1. CASE disposed
    BY <1>14, <2>1 DEF ReportEvent
  <2>2. CASE ~disposed
    <3>1. Head(rbuf) \in StopEvents
      BY <1>14 DEF ReportEvent, Typed, TypeOK
    <3>2. SameProgress(lc, lc') /\ KeepsDisposition(lc, lc')
      BY <1>14, <2>2, <3>1, StopEffect DEF ReportEvent
    <3> QED BY <1>14, <3>2 DEF ReportEvent, SameProgress
  <2> QED BY <2>1, <2>2
<1>15. CASE ReportRoot
  <2>1. CASE wpc = "completed" /\ ~disposed
    <3>1. lc'.jobWasZero = lc.jobWasZero /\ (HasFailed(lc) => HasFailed(lc'))
      BY <1>15, <2>1, CompletionEffect DEF ReportRoot
    <3>2. lc.rootWasCompleted => lc'.rootWasCompleted
      BY <1>15, <2>1, CompletionEffect DEF ReportRoot
    <3> QED BY <1>15, <2>1, <3>1, <3>2 DEF ReportRoot
  <2>2. CASE wpc = "failed" /\ ~disposed
    <3>1. SameProgress(lc, lc') /\ (HasFailed(lc) => HasFailed(lc'))
      BY <1>15, <2>2, FailureEffect DEF ReportRoot
    <3> QED BY <1>15, <2>2, <3>1 DEF ReportRoot, SameProgress
  <2>3. CASE disposed
    BY <1>15, <2>3 DEF ReportRoot
  <2> QED BY <1>15, <2>1, <2>2, <2>3 DEF ReportRoot
<1>16. CASE RootWaitReturns \/ RootWaitFails \/ SignalRoot
  BY <1>16 DEF RootWaitReturns, RootWaitFails, SignalRoot
<1>17. CASE KernelKillsRoot \/ RootExits
  BY <1>17 DEF KernelKillsRoot, RootExits
<1>18. CASE KidExits \/ Spawn
  BY <1>18 DEF KidExits, Spawn
<1>19. CASE ParentWrites \/ ParentCloses \/ HelperKilled
  BY <1>19 DEF ParentWrites, ParentCloses, HelperKilled
<1>20. CASE UNCHANGED vars
  BY <1>20
<1> QED
  BY <1>1, <1>2, <1>3, <1>4, <1>5, <1>6, <1>7, <1>8, <1>9, <1>10, <1>11, <1>12, <1>13, <1>14,
  <1>15, <1>16, <1>17, <1>18, <1>19, <1>20
  DEF Next, Coordinator, Launch, Drain, Finish, ControlReader, RootWaiter, KernelKills, Parent,
      Target, Fault, Ended, ReadEof, ReadIoFails, KernelKillsKid

-----------------------------------------------------------------------------
(* The frames *)

(* A step of the helper keeps the first disposition, leaves a sealed        *)
(* lifecycle alone, publishes READY only in PublishReady and seals only in  *)
(* TryReserveTerminal.                                                      *)
LEMMA LifecycleStep ==
  ASSUME Typed, [Next]_vars
  PROVE  /\ KeepsDisposition(lc, lc')
         /\ lc.state = "Terminal" => lc' = lc
         /\ PublishReady \/ lc'.readyWasPublished = lc.readyWasPublished
         /\ TryReserveTerminal \/ (lc'.state = "Terminal" => lc.state = "Terminal")
<1>0. /\ TypeOK /\ Coherent(lc) /\ (lc.state = "Terminal" => pc \in AfterSealPcs)
      /\ KeepsDisposition(lc, lc)
  BY DEF Typed, KeepsDisposition
<1>k. \A n : Coherent(n) => (n.state = "Terminal" <=> n.terminal # "None")
  BY DEF Coherent
<1> USE <1>0, <1>k DEF AfterSealPcs, Goto, Returns, Launcher, CleanupJobZero, SameProgress, session
<1>1. CASE ReadLaunchConfig
  <2>1. lc' = lc \/ lc' \in Apply(lc, "ControlReader", "ProtocolError")
    BY <1>1 DEF ReadLaunchConfig
  <2> QED BY <2>1, StopEffect DEF StopEvents, TransportFailures
<1>2. CASE ReadLaunchConfigEof \/ ReadLaunchConfigIoFails
  BY <1>2, StopEffect
  DEF ReadLaunchConfigEof, NoLaunchConfig, ReadLaunchConfigIoFails, StopEvents,
  TransportFailures
<1>3. CASE StartReader
  <2>1. lc' = lc \/ (rbuf # <<>> /\ lc' \in Apply(lc, "ControlReader", Head(rbuf)))
    BY <1>3 DEF StartReader
  <2>2. rbuf # <<>> => Head(rbuf) \in StopEvents
    BY DEF TypeOK
  <2> QED BY <2>1, <2>2, StopEffect
<1>4. CASE LaunchAbandoned \/ CheckAssigned \/ CreateProcess
  BY <1>4 DEF LaunchAbandoned, CheckAssigned, CreateProcess
<1>5. CASE PrepareJob \/ BeginCreate
  BY <1>5, LauncherEffect, FailureEffect DEF PrepareJob, BeginCreate, LauncherEvents
<1>6. CASE CreateProcessFails \/ PublishProcess
  BY <1>6, LauncherEffect DEF CreateProcessFails, PublishProcess, LauncherEvents
<1>7. CASE ResumeRoot
  BY <1>7, LauncherEffect, FailureEffect DEF ResumeRoot, LauncherEvents
<1>8. CASE PublishReady
  BY <1>8, LauncherEffect, FailureEffect DEF PublishReady, LauncherEvents
<1>9. CASE StartRootWaiter \/ DrainDecide \/ WaitForChange \/ TerminateOwnedJob \/
QueryActiveProcesses \/ AfterZero \/ PollInterval
  BY <1>9
  DEF StartRootWaiter, DrainDecide, WaitForChange, TerminateOwnedJob, QueryActiveProcesses,
  AfterZero, PollInterval
<1>10. CASE DrainWithoutProcess \/ RecordJobZero
  BY <1>10, CompletionEffect DEF DrainWithoutProcess, RecordJobZero
<1>11. CASE TerminateOwnedJobFails \/ QueryActiveProcessesFails \/ ReadRootExitCodeFails
  BY <1>11, FailureEffect
  DEF TerminateOwnedJobFails, CleanupFails, QueryActiveProcessesFails, ReadRootExitCodeFails
<1>12. CASE ReadRootExitCode \/ WriteTerminal \/ ShutdownAfterTerminal \/ Dispose \/ ReapRoot
  BY <1>12 DEF ReadRootExitCode, WriteTerminal, ShutdownAfterTerminal, Dispose, ReapRoot
<1>13. CASE TryReserveTerminal
  <2>1. CASE lc' \in Apply(lc, "TerminalWriter", SealEvent)
    <3>1. SealEvent \in SealEvents
      BY DEF SealEvent, SealEvents
    <3>2. lc' = [lc EXCEPT !.state = "Terminal",
                           !.terminal = IF SealEvent = "SealExit" THEN "Exit" ELSE "Error"]
      BY <2>1, <3>1, SealEffect
    <3> QED BY <1>13, <3>2 DEF TryReserveTerminal, KeepsDisposition, TypeOK, Machine, HasFailed
  <2>2. CASE lc' = lc
    BY <1>13, <2>2
  <2> QED BY <1>13, <2>1, <2>2 DEF TryReserveTerminal, SealOutcome
<1>14. CASE ReadChunk \/ ReadEnds \/ SignalChange
  BY <1>14 DEF ReadChunk, ReadEnds, SignalChange
<1>15. CASE ReportEvent
  <2>1. lc' = lc \/ lc' \in Apply(lc, "ControlReader", Head(rbuf))
    BY <1>15 DEF ReportEvent
  <2>2. Head(rbuf) \in StopEvents
    BY <1>15 DEF ReportEvent, Typed, TypeOK
  <2> QED BY <2>1, <2>2, StopEffect
<1>16. CASE ReportRoot
  BY <1>16, CompletionEffect, FailureEffect DEF ReportRoot
<1>17. CASE RootWaitReturns \/ RootWaitFails \/ SignalRoot
  BY <1>17 DEF RootWaitReturns, RootWaitFails, SignalRoot
<1>18. CASE KernelKillsRoot \/ RootExits \/ KidExits \/ Spawn
  BY <1>18 DEF KernelKillsRoot, RootExits, KidExits, Spawn
<1>19. CASE ParentWrites \/ ParentCloses \/ HelperKilled
  BY <1>19 DEF ParentWrites, ParentCloses, HelperKilled
<1>20. CASE UNCHANGED vars
  BY <1>20 DEF vars, session
<1> QED
  BY <1>1, <1>2, <1>3, <1>4, <1>5, <1>6, <1>7, <1>8, <1>9, <1>10, <1>11, <1>12, <1>13, <1>14,
  <1>15, <1>16, <1>17, <1>18, <1>19, <1>20
  DEF Next, Coordinator, Launch, Drain, Finish, ControlReader, RootWaiter, KernelKills, Parent,
      Target, Fault, Ended, ReadEof, ReadIoFails, KernelKillsKid

AfterWritePcs == {"shutdown", "dispose", "reap", "done", "killed"}

(* Only three actions touch the frames; every other step leaves them alone  *)
(* and moves no thread across the write of the terminal frame.              *)
LEMMA FrameStep ==
  ASSUME [Next]_vars
  PROVE  /\ win32' \in {win32, lc'.failureStage}
         /\ \/ TryReserveTerminal \/ PublishReady \/ WriteTerminal
            \/ /\ UNCHANGED <<terminal, wire>>
               /\ pc \in AfterWritePcs => pc' \in AfterWritePcs
               /\ pc' \in AfterWritePcs \ {"killed"} => pc \in AfterWritePcs
               /\ pc' \in AfterWritePcs \ {"killed"} /\ ~failed' => pc # "killed" /\ ~failed
<1> USE DEF AfterWritePcs, Goto, session, coord, reader, pipe, RecordFirstWin32Code
<1>1. CASE ReadLaunchConfig \/ ReadLaunchConfigEof \/ ReadLaunchConfigIoFails \/ StartReader
  BY <1>1
  DEF ReadLaunchConfig, ReadLaunchConfigEof, NoLaunchConfig, ReadLaunchConfigIoFails,
  StartReader
<1>2. CASE LaunchAbandoned \/ CheckAssigned \/ CreateProcess
  BY <1>2 DEF LaunchAbandoned, CheckAssigned, CreateProcess
<1>3. CASE PrepareJob \/ BeginCreate \/ CreateProcessFails \/ PublishProcess \/ ResumeRoot
  BY <1>3 DEF PrepareJob, BeginCreate, CreateProcessFails, PublishProcess, ResumeRoot
<1>4. CASE PublishReady
  BY <1>4 DEF PublishReady
<1>5. CASE StartRootWaiter \/ DrainDecide \/ WaitForChange \/ TerminateOwnedJob \/
QueryActiveProcesses \/ AfterZero \/ PollInterval
  BY <1>5
  DEF StartRootWaiter, DrainDecide, WaitForChange, TerminateOwnedJob, QueryActiveProcesses,
  AfterZero, PollInterval
<1>6. CASE DrainWithoutProcess \/ RecordJobZero
  BY <1>6 DEF DrainWithoutProcess, RecordJobZero
<1>7. CASE TerminateOwnedJobFails \/ QueryActiveProcessesFails \/ ReadRootExitCodeFails
  BY <1>7
  DEF TerminateOwnedJobFails, CleanupFails, QueryActiveProcessesFails, ReadRootExitCodeFails
<1>8. CASE ReadRootExitCode \/ Dispose \/ ReapRoot
  BY <1>8 DEF ReadRootExitCode, Dispose, ReapRoot
<1>9. CASE ShutdownAfterTerminal
  <2>1. failed' \in {failed, TRUE}
    BY <1>9 DEF ShutdownAfterTerminal
  <2>2. ~failed' => ~failed
    BY <2>1, Zenon
  <2> QED BY <1>9, <2>2 DEF ShutdownAfterTerminal
<1>10. CASE WriteTerminal \/ TryReserveTerminal
  BY <1>10 DEF WriteTerminal, TryReserveTerminal
<1>11. CASE ReadChunk \/ ReadEnds \/ SignalChange \/ ReportEvent
  BY <1>11 DEF ReadChunk, ReadEnds, SignalChange, ReportEvent, ReaderMay
<1>12. CASE ReportRoot \/ RootWaitReturns \/ RootWaitFails \/ SignalRoot
  BY <1>12 DEF ReportRoot, RootWaitReturns, RootWaitFails, SignalRoot
<1>13. CASE KernelKillsRoot \/ RootExits \/ KidExits \/ Spawn
  BY <1>13 DEF KernelKillsRoot, RootExits, KidExits, Spawn
<1>14. CASE ParentWrites \/ ParentCloses \/ HelperKilled
  BY <1>14 DEF ParentWrites, ParentCloses, HelperKilled, HelperRuns
<1>15. CASE UNCHANGED vars
  BY <1>15 DEF vars
<1> QED
  BY <1>1, <1>2, <1>3, <1>4, <1>5, <1>6, <1>7, <1>8, <1>9, <1>10, <1>11, <1>12, <1>13, <1>14,
  <1>15
  DEF Next, Coordinator, Launch, Drain, Finish, ControlReader, RootWaiter, KernelKills, Parent,
      Target, Fault, Ended, ReadEof, ReadIoFails, KernelKillsKid

(* EXIT, ERROR and no frame at all are three different things.              *)
LEMMA FramesApart ==
  /\ \A t \in ExitFrames : t.kind = "EXIT" /\ t # NoFrame /\ t \notin ErrorFrames
  /\ \A t \in ErrorFrames : t.kind = "ERROR" /\ t # NoFrame /\ t \notin ExitFrames
  /\ NoFrame \notin TerminalFrames
<1>1. \A t \in ExitFrames : t.kind = "EXIT"
  BY DEF ExitFrames, ExitFrame
<1>2. \A t \in ErrorFrames : t.kind = "ERROR"
  BY DEF ErrorFrames, ErrorFrame
<1>3. NoFrame.kind = "none"
  BY DEF NoFrame
<1> QED BY <1>1, <1>2, <1>3 DEF TerminalFrames

(* Each step keeps Framed: the frame reserved at the seal is the frame that *)
(* is written, after READY and once.                                        *)
LEMMA FramedStep == Typed /\ Drained /\ Framed /\ Typed' /\ [Next]_vars => Framed'
<1> SUFFICES ASSUME Typed, Drained, Framed, Typed', [Next]_vars PROVE Framed'
  OBVIOUS
<1>0. /\ TypeOK /\ Coherent(lc) /\ Coherent(lc') /\ TypeOK'
      /\ lc.state = "Terminal" => pc \in AfterSealPcs
      /\ lc'.state = "Terminal" => pc' \in AfterSealPcs
  BY DEF Typed
<1>1. win32' \in {"None", lc'.failureStage}
  <2>1. win32' \in {win32, lc'.failureStage} /\ win32 \in {"None", lc.failureStage}
    BY FrameStep DEF Framed
  <2>2. HasFailed(lc) => lc'.failureStage = lc.failureStage
    BY LifecycleStep DEF KeepsDisposition
  <2> QED BY <2>1, <2>2 DEF HasFailed
<1>2. CASE TryReserveTerminal
  <2>1. pc = "seal" /\ lc.state # "Terminal" /\ terminal = NoFrame /\ wire = BaseWire /\ wire' = wire
    BY <1>0, <1>2 DEF TryReserveTerminal, Framed, AfterSealPcs, pipe
  <2>2. CASE SealOutcome = {}
    <3>1. lc' = lc /\ terminal' = terminal /\ pc' = "shutdown" /\ failed' = TRUE
      BY <1>2, <2>2, Zenon DEF TryReserveTerminal, Returns
    <3>2. failed'
      BY <3>1
    <3> QED BY <1>1, <2>1, <3>1, <3>2, FramesApart DEF Framed, BaseWire, TerminalFrames
  <2>3. CASE SealOutcome # {}
    <3>1. lc' \in Apply(lc, "TerminalWriter", SealEvent) /\ pc' = "write"
      BY <1>2, <2>3 DEF TryReserveTerminal, Returns, SealOutcome
    <3>2. SealEvent \in SealEvents
      BY DEF SealEvent, SealEvents
    <3>3. lc' = [lc EXCEPT !.state = "Terminal",
                           !.terminal = IF SealEvent = "SealExit" THEN "Exit" ELSE "Error"]
      BY <1>0, <3>1, <3>2, SealEffect
    <3>4. /\ lc'.state = "Terminal" /\ lc'.readyWasPublished = lc.readyWasPublished
          /\ lc'.terminal = IF HasFailed(lc) THEN "Error" ELSE "Exit"
          /\ lc'.stopReason = lc.stopReason /\ lc'.failureStage = lc.failureStage
      BY <1>0, <3>3 DEF SealEvent, TypeOK, Machine
    <3>5. terminal' = IF HasFailed(lc) THEN ErrorFrame(lc.failureStage, lc.stopReason, win32)
                                       ELSE ExitFrame(lc.stopReason, exitKnown)
      BY <1>2, <2>3 DEF TryReserveTerminal
    <3>6. lc.failureStage \in Stages /\ lc.stopReason \in Reasons /\ win32 \in Stages /\ exitKnown \in BOOLEAN
      BY <1>0 DEF TypeOK, Machine
    <3>7. CASE HasFailed(lc)
      <4>1. /\ terminal' \in ErrorFrames
            /\ terminal'.reason = lc.stopReason /\ terminal'.stage = lc.failureStage
            /\ terminal'.win32 = win32
        BY <3>5, <3>6, <3>7 DEF ErrorFrames, ErrorFrame
      <4> QED BY <1>1, <2>1, <3>1, <3>4, <3>7, <4>1, FramesApart DEF Framed, BaseWire
    <3>8. CASE ~HasFailed(lc)
      <4>1. /\ terminal' \in ExitFrames
            /\ terminal'.reason = lc.stopReason /\ terminal'.codeKnown = exitKnown
        BY <3>5, <3>6, <3>8 DEF ExitFrames, ExitFrame
      <4>2. exitKnown /\ lc.stopReason # "ProtocolError"
        BY <1>0, <2>1, <3>8 DEF Drained, Coherent
      <4> QED BY <1>1, <2>1, <3>1, <3>4, <3>8, <4>1, <4>2, FramesApart DEF Framed, BaseWire
    <3> QED BY <3>7, <3>8
  <2> QED BY <2>2, <2>3
<1>3. CASE PublishReady
  <2>1. /\ pc = "ready" /\ pc' = "spawn" /\ lc.state # "Terminal" /\ terminal = NoFrame
        /\ wire = BaseWire /\ terminal' = terminal
    BY <1>0, <1>3 DEF PublishReady, Framed, AfterSealPcs, Goto
  <2>2. lc'.state # "Terminal"
    BY <1>0, <2>1 DEF AfterSealPcs
  <2>3. CASE wire' = Append(wire, ReadyFrame) /\ Launcher("ReadyPublished")
    <3>1. ~lc.readyWasPublished /\ lc'.readyWasPublished
      BY <1>0, <2>1, <2>3, LauncherEffect DEF LauncherEvents, Launcher, Returns
    <3> QED BY <1>1, <2>1, <2>2, <2>3, <3>1, FramesApart DEF Framed, BaseWire, TerminalFrames
  <2>4. CASE wire' = wire /\ lc' \in ApplyFailure(lc, "Launcher", "ControlChannelFailed")
    <3>1. lc'.readyWasPublished = lc.readyWasPublished
      BY <1>0, <2>4, FailureEffect DEF SameProgress
    <3> QED BY <1>1, <2>1, <2>2, <2>4, <3>1, FramesApart DEF Framed, BaseWire, TerminalFrames
  <2> QED BY <1>3, <2>3, <2>4 DEF PublishReady, Returns
<1>4. CASE WriteTerminal
  <2>1. /\ pc = "write" /\ pc' = "shutdown" /\ lc' = lc /\ terminal' = terminal
        /\ terminal \in TerminalFrames /\ wire = BaseWire
    BY <1>4 DEF WriteTerminal, Goto, Framed, Typed, session
  <2>2. CASE wire' = Append(wire, terminal) /\ failed' \in {TRUE, failed \/ terminal.kind = "ERROR"}
    <3>1. ~failed' => terminal.kind # "ERROR"
      BY <2>2, Zenon
    <3> QED BY <1>1, <2>1, <2>2, <3>1, FramesApart DEF Framed, BaseWire, TerminalFrames
  <2>3. CASE wire' = wire /\ failed' = TRUE
    <3>1. failed'
      BY <2>3
    <3> QED BY <1>1, <2>1, <2>3, <3>1 DEF Framed, BaseWire
  <2> QED BY <1>4, <2>2, <2>3, Zenon DEF WriteTerminal
<1>5. CASE ~(TryReserveTerminal \/ PublishReady \/ WriteTerminal)
  <2>1. /\ UNCHANGED <<terminal, wire>>
        /\ pc \in AfterWritePcs => pc' \in AfterWritePcs
        /\ pc' \in AfterWritePcs \ {"killed"} => pc \in AfterWritePcs
        /\ pc' \in AfterWritePcs \ {"killed"} /\ ~failed' => pc # "killed" /\ ~failed
    BY <1>5, FrameStep
  <2>2. /\ lc.state = "Terminal" => lc' = lc
        /\ lc'.state = "Terminal" <=> lc.state = "Terminal"
        /\ lc'.readyWasPublished = lc.readyWasPublished
    BY <1>5, LifecycleStep
  <2> QED BY <1>1, <2>1, <2>2, FramesApart DEF Framed, BaseWire, AfterWritePcs
<1> QED BY <1>2, <1>3, <1>4, <1>5

-----------------------------------------------------------------------------
(* The calls *)

(* A coherent machine that has failed is past its launch, or still inside   *)
(* CreateProcessW.                                                          *)
LEMMA FailedIsPastLaunch ==
  ASSUME NEW m, Coherent(m), HasDisposition(m)
  PROVE  m.state \notin {"Configured", "JobReady", "CreatedAssigned", "Running"}
  BY DEF Coherent, BeforeCleanup

(* Each step keeps Admissible: whatever the reader or the waiter does to    *)
(* the lifecycle between two steps of the coordinator, the state it finds   *)
(* is one it expects.                                                       *)
LEMMA AdmissibleStep ==
  Typed /\ Launching /\ Owned /\ Drained /\ Admissible /\ [Next]_vars => Admissible'
<1> SUFFICES ASSUME Typed, Launching, Owned, Drained, Admissible, [Next]_vars PROVE Admissible'
  OBVIOUS
<1>0. TypeOK /\ Coherent(lc) /\ (lc.state = "Terminal" => pc \in AfterSealPcs)
  BY DEF Typed
<1>s. lc.state \in States
  BY <1>0 DEF TypeOK, Machine
<1> USE <1>0 DEF Admissible, CleanupStates, AfterSealPcs, vars, session, coord, reader, pipe, kernel,
            Goto, Returns, Launcher, CleanupJobZero
<1>1. CASE ReadLaunchConfig
  <2>0. pc = "config" /\ UNCHANGED <<wpc, hasProcess>>
    BY <1>1 DEF ReadLaunchConfig
  <2>1. CASE pc' = "buffered"
    BY <1>1, <2>0, <2>1 DEF ReadLaunchConfig, Launching, LaunchPcs
  <2>2. CASE pc' # "buffered"
    <3>1. lc' \in Apply(lc, "ControlReader", "ProtocolError") /\ pc' = "drain"
      BY <1>1, <2>2 DEF ReadLaunchConfig
    <3>2. /\ Coherent(lc') /\ HasFailed(lc') /\ SameProgress(lc, lc')
          /\ lc'.state \in {lc.state, "Terminated"}
      BY <2>0, <3>1, StopEffect DEF StopEvents, TransportFailures, Launching
    <3>3. lc'.state = "Terminated"
      BY <2>0, <3>2, FailedIsPastLaunch DEF Launching, HasDisposition
    <3> QED BY <2>0, <3>1, <3>2, <3>3 DEF Launching, LaunchPcs, SameProgress
  <2> QED BY <2>1, <2>2
<1>2. CASE ReadLaunchConfigEof \/ ReadLaunchConfigIoFails
  <2>1. /\ lc' \in Apply(lc, "ControlReader", "ControlEof")
        /\ pc = "config" /\ pc' = "drain" /\ UNCHANGED <<wpc, hasProcess>>
    BY <1>2 DEF ReadLaunchConfigEof, ReadLaunchConfigIoFails, NoLaunchConfig
  <2>2. /\ Coherent(lc') /\ HasFailed(lc') /\ SameProgress(lc, lc')
        /\ lc'.state \in {lc.state, "Terminated"}
    BY <2>1, StopEffect DEF StopEvents, TransportFailures, Launching
  <2>3. lc'.state = "Terminated"
    BY <2>1, <2>2, FailedIsPastLaunch DEF Launching, HasDisposition
  <2> QED BY <2>1, <2>2, <2>3 DEF Launching, LaunchPcs, SameProgress
<1>3. CASE StartReader
  <2>1. CASE rbuf # <<>>
    <3>1. Head(rbuf) \in StopEvents
      BY <2>1 DEF TypeOK
    <3>2. SameProgress(lc, lc') /\ pc' = pc /\ pc = "buffered" /\ wpc' = wpc
      BY <1>3, <2>1, <3>1, StopEffect DEF StartReader
    <3> QED BY <3>2 DEF SameProgress, Launching, LaunchPcs
  <2>2. CASE rbuf = <<>>
    BY <1>3, <2>2 DEF StartReader, Launching, LaunchPcs
  <2> QED BY <2>1, <2>2
<1>4. CASE LaunchAbandoned
  BY <1>4 DEF LaunchAbandoned, Launching, LaunchPcs, Owned
<1>5. CASE CheckAssigned \/ CreateProcess
  BY <1>5 DEF CheckAssigned, CreateProcess, Launching, LaunchPcs
<1>6. CASE PrepareJob
  <2>1. /\ pc = "prepare" /\ lc.state = "Configured" /\ UNCHANGED <<wpc, hasProcess>>
        /\ \/ pc' = "create" /\ lc' \in Apply(lc, "Launcher", "JobPrepared")
           \/ pc' = "spawn" /\ \E stage : lc' \in ApplyFailure(lc, "Launcher", stage)
    BY <1>6 DEF PrepareJob
  <2>2. lc'.rootWasCompleted = lc.rootWasCompleted /\ Coherent(lc') /\ (pc' = "spawn" => HasFailed(lc'))
    BY <2>1, LauncherEffect, FailureEffect DEF LauncherEvents, SameProgress
  <2>3. pc' = "spawn" => lc'.state \in {"Configured", "Terminated"}
    BY <2>1, FailureEffect
  <2>4. pc' = "spawn" => lc'.state = "Terminated"
    BY <2>2, <2>3, FailedIsPastLaunch DEF HasDisposition
  <2> QED BY <2>1, <2>2, <2>4 DEF Launching, LaunchPcs
<1>7. CASE BeginCreate
  <2>1. /\ pc = "create" /\ lc.state = "JobReady" /\ UNCHANGED <<wpc, hasProcess>>
        /\ \/ pc' = "creating" /\ lc' \in Apply(lc, "Launcher", "BeginCreate")
           \/ pc' = "spawn" /\ \E stage : lc' \in ApplyFailure(lc, "Launcher", stage)
    BY <1>7 DEF BeginCreate
  <2>2. lc'.rootWasCompleted = lc.rootWasCompleted /\ Coherent(lc') /\ (pc' = "spawn" => HasFailed(lc'))
    BY <2>1, LauncherEffect, FailureEffect DEF LauncherEvents, SameProgress
  <2>3. /\ pc' = "spawn" => lc'.state \in {"JobReady", "Terminated"}
        /\ pc' = "creating" => lc'.state = "Creating"
    BY <2>1, LauncherEffect, FailureEffect DEF LauncherEvents
  <2>4. pc' = "spawn" => lc'.state = "Terminated"
    BY <2>2, <2>3, FailedIsPastLaunch DEF HasDisposition
  <2> QED BY <2>1, <2>2, <2>3, <2>4 DEF Launching, LaunchPcs
<1>8. CASE CreateProcessFails \/ PublishProcess
  BY <1>8, LauncherEffect DEF CreateProcessFails, PublishProcess, LauncherEvents, Launching, LaunchPcs
<1>9. CASE ResumeRoot
  <2>1. /\ pc = "resume" /\ lc.state = "CreatedAssigned" /\ UNCHANGED <<wpc, hasProcess>>
        /\ \/ pc' = "ready" /\ lc' \in Apply(lc, "Launcher", "ResumeSucceeded")
           \/ pc' = "spawn" /\ lc' \in ApplyFailure(lc, "Launcher", "ResumeFailed")
    BY <1>9 DEF ResumeRoot
  <2>2. ~lc.readyWasPublished /\ hasProcess
    BY <2>1 DEF Coherent, BeforeCleanup, Owned
  <2>3. CASE pc' = "ready" /\ lc' \in Apply(lc, "Launcher", "ResumeSucceeded")
    BY <2>1, <2>2, <2>3, LauncherEffect DEF LauncherEvents, Launching, LaunchPcs
  <2>4. CASE pc' = "spawn" /\ lc' \in ApplyFailure(lc, "Launcher", "ResumeFailed")
    <3>1. Coherent(lc') /\ HasFailed(lc') /\ lc'.state \in {"CreatedAssigned", "Terminating"}
          /\ SameProgress(lc, lc')
      BY <2>1, <2>4, FailureEffect
    <3>2. lc'.state = "Terminating"
      BY <3>1, FailedIsPastLaunch DEF HasDisposition
    <3> QED BY <2>1, <2>2, <2>4, <3>1, <3>2 DEF Launching, LaunchPcs, SameProgress
  <2> QED BY <2>1, <2>3, <2>4
<1>10. CASE PublishReady
  <2>1. /\ pc = "ready" /\ pc' = "spawn" /\ UNCHANGED <<wpc, hasProcess>>
        /\ \/ lc' \in Apply(lc, "Launcher", "ReadyPublished")
           \/ lc' \in ApplyFailure(lc, "Launcher", "ControlChannelFailed")
    BY <1>10 DEF PublishReady
  <2>2. lc'.rootWasCompleted = lc.rootWasCompleted /\ lc'.state \in {"Running", "Terminating"}
    BY <2>1, LauncherEffect, FailureEffect DEF LauncherEvents, SameProgress
  <2> QED BY <2>1, <2>2 DEF Owned
<1>11. CASE StartRootWaiter
  BY <1>11 DEF StartRootWaiter
<1>12. CASE DrainWithoutProcess
  BY <1>12, CompletionEffect DEF DrainWithoutProcess
<1>13. CASE DrainDecide
  <2>1. pc' \in {"terminate", "query"} => ~lc.jobWasZero /\ lc.state # "Running"
    BY <1>13 DEF DrainDecide, RequiresTermination, Coherent, BeforeCleanup
  <2>2. pc' \in {"exitcode", "wait", "terminate", "query"} /\ UNCHANGED <<lc, wpc, hasProcess>>
    BY <1>13 DEF DrainDecide
  <2> QED BY <1>13, <2>1, <2>2 DEF DrainDecide
<1>14. CASE WaitForChange \/ TerminateOwnedJob \/ QueryActiveProcesses \/ AfterZero \/ PollInterval
  BY <1>14 DEF WaitForChange, TerminateOwnedJob, QueryActiveProcesses, AfterZero, PollInterval, Owned
<1>15. CASE RecordJobZero
  BY <1>15, CompletionEffect DEF RecordJobZero
<1>16. CASE TerminateOwnedJobFails \/ QueryActiveProcessesFails \/ ReadRootExitCodeFails
  <2>1. /\ pc' = "seal" /\ UNCHANGED <<wpc, hasProcess>> /\ SameProgress(lc, lc')
        /\ \/ lc'.state = lc.state
           \/ lc.state \in {"Configured", "JobReady"} /\ lc'.state = "Terminated"
           \/ lc.state \in {"CreatedAssigned", "Running"} /\ lc'.state = "Terminating"
           \/ lc.state = "Terminating" /\ lc'.state = "Terminated"
    BY <1>16, FailureEffect
    DEF TerminateOwnedJobFails, QueryActiveProcessesFails, ReadRootExitCodeFails, CleanupFails
  <2> QED BY <2>1 DEF SameProgress
<1>17. CASE ReadRootExitCode \/ WriteTerminal \/ ShutdownAfterTerminal \/ Dispose \/ ReapRoot
  BY <1>17 DEF ReadRootExitCode, WriteTerminal, ShutdownAfterTerminal, Dispose, ReapRoot
<1>18. CASE TryReserveTerminal
  <2>1. pc' \in {"write", "shutdown"} /\ UNCHANGED <<wpc, hasProcess>>
        /\ (lc' = lc \/ lc' \in Apply(lc, "TerminalWriter", SealEvent))
    BY <1>18 DEF TryReserveTerminal, SealOutcome
  <2>2. SealEvent \in SealEvents
    BY DEF SealEvent, SealEvents
  <2>3. lc' = lc \/ lc' = [lc EXCEPT !.state = "Terminal",
                                    !.terminal = IF SealEvent = "SealExit" THEN "Exit" ELSE "Error"]
    BY <2>1, <2>2, SealEffect
  <2>4. lc' = lc \/ (lc'.state = "Terminal" /\ lc'.rootWasCompleted = lc.rootWasCompleted)
    BY <2>3 DEF TypeOK, Machine
  <2> QED BY <2>1, <2>4
<1>19. CASE ReadChunk \/ ReadEnds \/ SignalChange
  BY <1>19 DEF ReadChunk, ReadEnds, SignalChange
<1>20. CASE ReportEvent
  <2>1. CASE disposed
    BY <1>20, <2>1 DEF ReportEvent
  <2>2. CASE ~disposed
    <3>1. Head(rbuf) \in StopEvents
      BY <1>20 DEF ReportEvent, Typed, TypeOK
    <3>2. UNCHANGED <<pc, wpc, hasProcess>> /\ pc # "ready"
          /\ lc' \in Apply(lc, "ControlReader", Head(rbuf))
      BY <1>20, <2>2 DEF ReportEvent, GateFree
    <3>3. /\ SameProgress(lc, lc')
          /\ \/ lc'.state = lc.state
             \/ lc.state \in {"Configured", "JobReady"} /\ lc'.state = "Terminated"
             \/ lc.state \in {"CreatedAssigned", "Running"} /\ lc'.state = "Terminating"
      BY <3>1, <3>2, StopEffect
    <3> QED BY <3>2, <3>3 DEF SameProgress
  <2> QED BY <2>1, <2>2
<1>21. CASE ReportRoot
  <2>1. CASE disposed
    BY <1>21, <2>1 DEF ReportRoot
  <2>2. CASE ~disposed
    <3>1. /\ UNCHANGED <<pc, hasProcess>> /\ wpc' = "set" /\ wpc # "off"
          /\ \/ lc' \in Apply(lc, "RootWaiter", "RootCompleted")
             \/ lc' \in ApplyFailure(lc, "RootWaiter", "WaitFailed")
      BY <1>21, <2>2 DEF ReportRoot
    <3>2. /\ lc'.jobWasZero = lc.jobWasZero
          /\ \/ lc'.state = lc.state
             \/ lc.state = "Running" /\ lc'.state \in {"Terminating", "Terminated"}
             \/ lc.state = "Terminating" /\ lc'.state = "Terminated"
      BY <3>1, CompletionEffect, FailureEffect DEF SameProgress
    <3>3. pc \notin {"creating", "publish", "assigned", "resume", "ready"}
      BY <3>1 DEF Launching, LaunchPcs
    <3> QED BY <3>1, <3>2, <3>3
  <2> QED BY <2>1, <2>2
<1>22. CASE RootWaitReturns \/ RootWaitFails \/ SignalRoot
  BY <1>22 DEF RootWaitReturns, RootWaitFails, SignalRoot
<1>23. CASE KernelKillsRoot \/ RootExits \/ KidExits \/ Spawn
  BY <1>23 DEF KernelKillsRoot, RootExits, KidExits, Spawn
<1>24. CASE ParentWrites \/ ParentCloses \/ HelperKilled
  BY <1>24 DEF ParentWrites, ParentCloses, HelperKilled
<1>25. CASE UNCHANGED vars
  BY <1>25
<1> QED
  BY <1>1, <1>2, <1>3, <1>4, <1>5, <1>6, <1>7, <1>8, <1>9, <1>10, <1>11, <1>12, <1>13, <1>14,
  <1>15, <1>16, <1>17, <1>18, <1>19, <1>20, <1>21, <1>22, <1>23, <1>24, <1>25
  DEF Next, Coordinator, Launch, Drain, Finish, ControlReader, RootWaiter, KernelKills, Parent,
      Target, Fault, Ended, ReadEof, ReadIoFails, KernelKillsKid

-----------------------------------------------------------------------------
(* The theorems *)

(* The initial state satisfies the inductive invariant.                     *)
LEMMA InitIInv == Init => IInv
<1> SUFFICES ASSUME Init PROVE IInv
  OBVIOUS
<1>1. lc = Initial /\ Coherent(lc) /\ lc \in Machine
  BY InitialCoherent DEF Init, Coherent
<1>2. Typed
  <2>1. /\ hasProcess \in BOOLEAN /\ exitKnown \in BOOLEAN /\ disposed \in BOOLEAN
        /\ terminateAttempted \in BOOLEAN /\ changed \in BOOLEAN /\ failed \in BOOLEAN
        /\ parentOpen \in BOOLEAN /\ doomed \in BOOLEAN
    BY Zenon DEF Init
  <2>2. /\ rbuf \in Seq(StopEvents) /\ inbox \in Seq(InFrames)
        /\ wire \in Seq(TerminalFrames \cup {ReadyFrame})
    BY DEF Init
  <2>3. sent \in 0..MaxFrames /\ kids \in 0..MaxKids
    BY FramesAssumption, KidsAssumption DEF Init
  <2> QED BY <1>1, <2>1, <2>2, <2>3 DEF Typed, TypeOK, Init, MainPcs, Stages, Initial
<1>3. Launching /\ Owned
  BY <1>1 DEF Launching, Owned, LaunchPcs, Init, Initial
<1>4. Drained
  BY <1>1 DEF Drained, RecordedDrainIsReal, Init, Initial
<1>5. Framed
  BY <1>1, FramesApart DEF Framed, BaseWire, Init, Initial, TerminalFrames
<1>6. Admissible
  BY <1>1 DEF Admissible, Init, Initial
<1> QED BY <1>2, <1>3, <1>4, <1>5, <1>6 DEF IInv

(* Every step preserves it.                                                 *)
LEMMA StepIInv == IInv /\ [Next]_vars => IInv'
  BY TypedStep, LaunchingStep, OwnedStep, DrainedStep, FramedStep, AdmissibleStep DEF IInv

(* So it holds in every reachable state.                                    *)
THEOREM Invariant == Spec => []IInv
  BY InitIInv, StepIInv, PTL DEF Spec

(* Every value the helper keeps stays within its type. *)
THEOREM TypeCorrect == Spec => []TypeOK
<1>1. IInv => TypeOK
  BY DEF IInv, Typed
<1> QED BY Invariant, <1>1, PTL

(* What the lifecycle records of the drain is true of the kernel, however   *)
(* many descendants the target has (RecordJobZero, WaitForRoot).            *)
THEOREM DrainIsReal == Spec => []RecordedDrainIsReal
<1>1. IInv => RecordedDrainIsReal
  BY DEF IInv, Drained
<1> QED BY Invariant, <1>1, PTL

(* No process of the target outlives the helper: KILL_ON_JOB_CLOSE reaches  *)
(* whatever is left, on every way out of RunCore and when it is killed.     *)
THEOREM OwnershipHolds == Spec => []NoOrphan
<1>1. IInv => NoOrphan
  BY DEF IInv, Typed, TypeOK, Owned, NoOrphan, HelperRuns, JobEmpty, RootAlive
<1> QED BY Invariant, <1>1, PTL

(* An EXIT frame is earned: the Job is empty, READY precedes it and its     *)
(* exit code was read (TryReserveTerminal, WriteTerminal).                  *)
THEOREM ExitFramesAreEarned == Spec => []ExitIsEarned
<1>1. IInv => ExitIsEarned
  <2> SUFFICES ASSUME IInv, NEW i \in DOMAIN wire, wire[i].kind = "EXIT"
               PROVE  /\ JobEmpty /\ wire[i].codeKnown
                      /\ i = 2 /\ wire[1] = ReadyFrame
                      /\ wire[i].reason # "ProtocolError"
    BY DEF ExitIsEarned
  <2>1. BaseWire \in {<<>>, <<ReadyFrame>>} /\ ReadyFrame.kind = "READY"
    BY DEF BaseWire, ReadyFrame
  <2>2. wire # BaseWire
    BY <2>1
  <2>3. terminal \in TerminalFrames /\ wire = Append(BaseWire, terminal)
    BY <2>2 DEF IInv, Framed, Typed, TypeOK
  <2>4. wire[i] = terminal /\ (BaseWire = <<ReadyFrame>> => i = 2 /\ wire[1] = ReadyFrame)
    <3>1. CASE BaseWire = <<>>
      <4>1. wire = <<terminal>>
        BY <2>3, <3>1
      <4> QED BY <3>1, <4>1
    <3>2. CASE BaseWire = <<ReadyFrame>>
      <4>1. \A a, b : /\ Append(<<a>>, b)[1] = a /\ Append(<<a>>, b)[2] = b
                      /\ DOMAIN Append(<<a>>, b) = {1, 2}
        OBVIOUS
      <4>2. i \in {1, 2} /\ wire[1] = ReadyFrame /\ wire[2] = terminal
        BY <2>3, <3>2, <4>1
      <4> QED BY <2>1, <4>2
    <3> QED BY <2>1, <3>1, <3>2
  <2>5. terminal \in ExitFrames
    BY <2>3, <2>4, FramesApart DEF TerminalFrames
  <2>6. lc.terminal = "Exit" /\ terminal.codeKnown /\ terminal.reason # "ProtocolError"
    BY <2>5 DEF IInv, Framed
  <2>7. lc.readyWasPublished /\ lc.jobWasZero
    BY <2>6 DEF IInv, Typed, Coherent
  <2> QED BY <2>4, <2>6, <2>7 DEF BaseWire, IInv, Drained, RecordedDrainIsReal
<1> QED BY Invariant, <1>1, PTL

(* ReportEvent, ReportRoot, PublishProcess, PublishReady and DrainOwnedJob   *)
(* meet no LifecycleViolationException: each call they are about to make    *)
(* under the gate is accepted, whatever the other threads did before.  The  *)
(* seal of the terminal frame (TryReserveTerminal) is not among these calls *)
(* and can be refused (LifecycleMachine.cs:440).                            *)
THEOREM CallsAreLegal == Spec => []NoLifecycleViolation
<1>1. IInv => NoLifecycleViolation
  <2> SUFFICES ASSUME IInv, HelperRuns PROVE NoLifecycleViolation
    BY DEF NoLifecycleViolation
  <2>0. TypeOK /\ Coherent(lc) /\ Admissible /\ lc.state \in States
    BY DEF IInv, Typed, TypeOK, Machine
  <2>1. rpc \in {"apply", "fail"} => Apply(lc, "ControlReader", Head(rbuf)) # {}
    <3>1. rpc \in {"apply", "fail"} => Head(rbuf) \in StopEvents
      BY DEF IInv, Typed, TypeOK
    <3> QED BY <2>0, <3>1, StopAccepted
  <2>2. /\ wpc = "completed" => Apply(lc, "RootWaiter", "RootCompleted") # {}
        /\ wpc = "failed" => ApplyFailure(lc, "RootWaiter", "WaitFailed") # {}
    BY <2>0, CompletionAccepted, WaitFailureAccepted DEF Admissible, CleanupStates
  <2>3. /\ pc = "creating" => /\ Apply(lc, "Launcher", "CreateSucceeded") # {}
                              /\ Apply(lc, "Launcher", "CreateFailed") # {}
        /\ pc = "publish" => Apply(lc, "Launcher", "CreateSucceeded") # {}
        /\ pc = "ready" => /\ Apply(lc, "Launcher", "ReadyPublished") # {}
                           /\ ApplyFailure(lc, "Launcher", "ControlChannelFailed") # {}
    BY <2>0, LauncherAccepted DEF Admissible
  <2>4. /\ pc \in {"terminate", "query", "zero"} =>
             lc.state \in {"Terminating", "Terminated"} /\ ~lc.jobWasZero
        /\ pc = "drain" /\ ~hasProcess => lc.state = "Terminated"
    BY <2>0 DEF Admissible, CleanupStates, IInv, Owned
  <2>5. pc \in {"terminate", "query"} =>
          \A stage \in UnrecoverableCleanupStages : ApplyFailure(lc, "CleanupOwner", stage) # {}
    BY <2>0, <2>4, CleanupFailureAccepted
  <2>6. pc = "zero" \/ (pc = "drain" /\ ~hasProcess) => Apply(lc, "CleanupOwner", "JobZero") # {}
    BY <2>4, CompletionAccepted
  <2>7. lc.rootWasCompleted => lc.state \in {"Terminating", "Terminated", "Terminal"}
    BY <2>0 DEF Coherent, BeforeCleanup, States
  <2>8. pc = "exitcode" /\ lc.rootWasCompleted =>
          ApplyFailure(lc, "CleanupOwner", "HelperInternal") # {}
    BY <2>0, <2>7, CleanupFailureAccepted
  <2> QED BY <2>1, <2>2, <2>3, <2>5, <2>6, <2>8 DEF NoLifecycleViolation
<1> QED BY Invariant, <1>1, PTL

(* Helper exit code 0 means that EXIT was written and nothing is left.      *)
THEOREM SuccessIsExit == Spec => []SuccessMeansExit
<1>1. IInv => SuccessMeansExit
  <2> SUFFICES ASSUME IInv, pc = "done", ~failed
               PROVE  JobEmpty /\ wire # <<>> /\ wire[Len(wire)] \in ExitFrames
    BY DEF SuccessMeansExit
  <2>1. terminal \in ExitFrames /\ wire = Append(BaseWire, terminal)
    BY DEF IInv, Framed
  <2>2. lc.jobWasZero
    BY <2>1 DEF IInv, Framed, Typed, Coherent
  <2>3. wire # <<>> /\ wire[Len(wire)] = terminal
    BY <2>1 DEF BaseWire
  <2> QED BY <2>1, <2>2, <2>3 DEF IInv, Drained, RecordedDrainIsReal
<1> QED BY Invariant, <1>1, PTL

(* A reserved frame states the disposition the lifecycle ends with.         *)
THEOREM TerminalIsFaithful == Spec => []TerminalStatesDisposition
<1>1. IInv => TerminalStatesDisposition
  <2> SUFFICES ASSUME IInv PROVE TerminalStatesDisposition
    OBVIOUS
  <2>1. terminal # NoFrame => terminal \in ExitFrames \cup ErrorFrames
    BY DEF IInv, Typed, TypeOK, TerminalFrames
  <2> QED BY <2>1, FramesApart
      DEF IInv, Framed, Typed, Coherent, TerminalStatesDisposition
<1> QED BY Invariant, <1>1, PTL

(* "Cancelled before ready" is never said of a target that ran.             *)
THEOREM CancelledNeverRan == Spec => []CancelledBeforeReadyNeverRan
<1>1. IInv => CancelledBeforeReadyNeverRan
  BY DEF IInv, Typed, Coherent, Owned, CancelledBeforeReadyNeverRan
<1> QED BY Invariant, <1>1, PTL

(* The first stop reason, failure and cleanup owner are never replaced.     *)
THEOREM FirstDisposition == Spec => FirstDispositionWins
<1>1. IInv /\ [Next]_vars => [KeepsDisposition(lc, lc')]_vars
  BY LifecycleStep DEF IInv
<1>2. KeepsDisposition(lc, lc') =>
        /\ lc.stopReason # "NoneOrRootExit" => lc'.stopReason = lc.stopReason
        /\ HasFailed(lc) => lc'.failureStage = lc.failureStage
        /\ lc.owner # "None" => lc'.owner = lc.owner
  BY DEF KeepsDisposition
<1> QED BY Invariant, <1>1, <1>2, PTL DEF FirstDispositionWins, Spec

(* READY at most once and first, one terminal frame at most, none before    *)
(* READY once the target has run (ReadyPublished, TryReserveTerminal).      *)
THEOREM WireOrder == Spec => []WireIsWellFormed
<1>1. IInv => WireIsWellFormed
  <2> SUFFICES ASSUME IInv PROVE WireIsWellFormed
    OBVIOUS
  <2>1. \A a, b : /\ Append(<<a>>, b)[1] = a /\ Append(<<a>>, b)[2] = b
                  /\ Len(Append(<<a>>, b)) = 2
    OBVIOUS
  <2>2. \A b : Append(<<>>, b)[1] = b /\ Len(Append(<<>>, b)) = 1
    OBVIOUS
  <2>3. CASE wire = BaseWire
    BY <2>3 DEF WireIsWellFormed, BaseWire
  <2>4. CASE wire # BaseWire
    <3>1. terminal \in TerminalFrames /\ wire = Append(BaseWire, terminal)
      BY <2>4 DEF IInv, Framed, Typed, TypeOK
    <3>2. CASE lc.readyWasPublished
      <4>1. wire[1] = ReadyFrame /\ wire[2] = terminal /\ Len(wire) = 2
        BY <2>1, <3>1, <3>2 DEF BaseWire
      <4> QED BY <3>1, <4>1 DEF WireIsWellFormed
    <3>3. CASE ~lc.readyWasPublished
      <4>1. wire[1] = terminal /\ Len(wire) = 1
        BY <2>2, <3>1, <3>3 DEF BaseWire
      <4>2. terminal \in ErrorFrames
        BY <3>1, <3>3 DEF IInv, Framed, Typed, Coherent, TerminalFrames
      <4>3. ~lc.wasResumed
        BY <3>3, <4>2 DEF IInv, Framed, Typed, Coherent, ReadyBarrierPassed
      <4>4. root # "running"
        BY <4>3 DEF IInv, Owned
      <4> QED BY <4>1, <4>2, <4>3, <4>4 DEF WireIsWellFormed
    <3> QED BY <3>2, <3>3
  <2> QED BY <2>3, <2>4
<1> QED BY Invariant, <1>1, PTL

(* Only ResumeRoot makes the root run, and it finds no disposition latched. *)
LEMMA RootStep ==
  ASSUME Coherent(lc), [Next]_vars, root # "running", root' = "running"
  PROVE  ~HasDisposition(lc)
<1> USE DEF kernel, RootAlive
<1>1. CASE ReadLaunchConfig \/ ReadLaunchConfigEof \/ ReadLaunchConfigIoFails \/ StartReader
  BY <1>1
  DEF ReadLaunchConfig, ReadLaunchConfigEof, NoLaunchConfig, ReadLaunchConfigIoFails,
  StartReader
<1>2. CASE LaunchAbandoned \/ CheckAssigned \/ CreateProcess
  BY <1>2 DEF LaunchAbandoned, CheckAssigned, CreateProcess
<1>3. CASE PrepareJob \/ BeginCreate \/ CreateProcessFails \/ PublishProcess \/ PublishReady
  BY <1>3 DEF PrepareJob, BeginCreate, CreateProcessFails, PublishProcess, PublishReady
<1>4. CASE ResumeRoot
  BY <1>4 DEF ResumeRoot, Coherent, BeforeCleanup
<1>5. CASE StartRootWaiter \/ DrainDecide \/ WaitForChange \/ TerminateOwnedJob \/
QueryActiveProcesses \/ AfterZero \/ PollInterval
  BY <1>5
  DEF StartRootWaiter, DrainDecide, WaitForChange, TerminateOwnedJob, QueryActiveProcesses,
  AfterZero, PollInterval
<1>6. CASE DrainWithoutProcess \/ RecordJobZero
  BY <1>6 DEF DrainWithoutProcess, RecordJobZero
<1>7. CASE TerminateOwnedJobFails \/ QueryActiveProcessesFails \/ ReadRootExitCodeFails
  BY <1>7
  DEF TerminateOwnedJobFails, CleanupFails, QueryActiveProcessesFails, ReadRootExitCodeFails
<1>8. CASE ReadRootExitCode \/ Dispose \/ ReapRoot \/ ShutdownAfterTerminal \/ WriteTerminal
\/ TryReserveTerminal
  BY <1>8
  DEF ReadRootExitCode, Dispose, ReapRoot, ShutdownAfterTerminal, WriteTerminal,
  TryReserveTerminal
<1>9. CASE ReadChunk \/ ReadEnds \/ SignalChange \/ ReportEvent
  BY <1>9 DEF ReadChunk, ReadEnds, SignalChange, ReportEvent
<1>10. CASE ReportRoot \/ RootWaitReturns \/ RootWaitFails \/ SignalRoot
  BY <1>10 DEF ReportRoot, RootWaitReturns, RootWaitFails, SignalRoot
<1>11. CASE KernelKillsRoot \/ RootExits \/ KidExits \/ Spawn
  BY <1>11 DEF KernelKillsRoot, RootExits, KidExits, Spawn
<1>12. CASE ParentWrites \/ ParentCloses \/ HelperKilled
  BY <1>12 DEF ParentWrites, ParentCloses, HelperKilled
<1>13. CASE UNCHANGED vars
  BY <1>13 DEF vars
<1> QED
  BY <1>1, <1>2, <1>3, <1>4, <1>5, <1>6, <1>7, <1>8, <1>9, <1>10, <1>11, <1>12, <1>13
  DEF Next, Coordinator, Launch, Drain, Finish, ControlReader, RootWaiter, KernelKills, Parent,
      Target, Fault, Ended, ReadEof, ReadIoFails, KernelKillsKid

(* A stop latched before ResumeThread keeps the target from ever running    *)
(* (ApplyStop, CreateSucceeded, ResumeAndPublishReady).                     *)
THEOREM LatchedStopHolds == Spec => LatchedStopNeverResumes
<1>1. IInv /\ [Next]_vars => (HasDisposition(lc) /\ root # "running" => root' # "running")
  BY RootStep DEF IInv, Typed
<1> QED BY Invariant, <1>1, PTL DEF LatchedStopNeverResumes, Spec

-----------------------------------------------------------------------------
(* The refinements *)

(* Apart from the twelve actions named here a step leaves the target and    *)
(* the wire alone, and no step goes on in a helper that has ended.          *)
LEMMA QuietStep ==
  ASSUME Typed, [Next]_vars
  PROVE  \/ CreateProcess \/ ResumeRoot \/ PublishReady \/ WriteTerminal \/ TerminateOwnedJob
         \/ Dispose \/ ReapRoot \/ KernelKillsRoot \/ KidExits \/ Spawn \/ RootExits \/ HelperKilled
         \/ /\ UNCHANGED <<wire, root, kids, doomed>>
            /\ lc'.wasResumed = lc.wasResumed
            /\ HelperRuns /\ HelperRuns'
         \/ UNCHANGED <<lc, pc, failed, wire, root, kids, doomed>>
<1>0. TypeOK /\ Coherent(lc)
  BY DEF Typed
<1> DEFINE Quiet == /\ UNCHANGED <<wire, root, kids, doomed>>
                    /\ lc'.wasResumed = lc.wasResumed
                    /\ HelperRuns /\ HelperRuns'
           Idle == UNCHANGED <<lc, pc, failed, wire, root, kids, doomed>>
<1> USE DEF Goto, Returns, Launcher, CleanupJobZero, session, coord, reader, pipe, kernel, HelperRuns
<1>1. CASE ReadLaunchConfig \/ ReadLaunchConfigEof \/ ReadLaunchConfigIoFails
  <2>1. /\ pc = "config" /\ pc' \in {"buffered", "drain"}
        /\ UNCHANGED <<wire, root, kids, doomed>>
        /\ \/ lc' = lc
           \/ \E event \in StopEvents : lc' \in Apply(lc, "ControlReader", event)
    BY <1>1
    DEF ReadLaunchConfig, ReadLaunchConfigEof, NoLaunchConfig, ReadLaunchConfigIoFails, StopEvents,
        TransportFailures
  <2> QED BY <1>0, <2>1, StopEffect DEF SameProgress
<1>2. CASE StartReader
  <2>1. /\ pc = "buffered" /\ pc' \in {"buffered", "prepare"}
        /\ UNCHANGED <<wire, root, kids, doomed>>
        /\ lc' = lc \/ (rbuf # <<>> /\ lc' \in Apply(lc, "ControlReader", Head(rbuf)))
    BY <1>2 DEF StartReader
  <2>2. rbuf # <<>> => Head(rbuf) \in StopEvents
    BY <1>0 DEF TypeOK
  <2> QED BY <1>0, <2>1, <2>2, StopEffect DEF SameProgress
<1>3. CASE LaunchAbandoned \/ CheckAssigned
  BY <1>3 DEF LaunchAbandoned, CheckAssigned
<1>4. CASE PrepareJob \/ BeginCreate \/ CreateProcessFails \/ PublishProcess
  <2>1. /\ pc \in {"prepare", "create", "creating", "publish"}
        /\ pc' \in {"create", "creating", "spawn", "assigned"}
        /\ UNCHANGED <<wire, root, kids, doomed>>
        /\ \/ \E event \in LauncherEvents \ {"ResumeSucceeded"} : lc' \in Apply(lc, "Launcher", event)
           \/ \E stage : lc' \in ApplyFailure(lc, "Launcher", stage)
    BY <1>4 DEF PrepareJob, BeginCreate, CreateProcessFails, PublishProcess, LauncherEvents
  <2>2. lc.state # "Terminal"
    BY <2>1 DEF Typed, AfterSealPcs
  <2> QED BY <1>0, <2>1, <2>2, LauncherEffect, FailureEffect DEF SameProgress
<1>5. CASE StartRootWaiter \/ DrainDecide \/ WaitForChange \/ QueryActiveProcesses \/ AfterZero
             \/ PollInterval
  BY <1>5
  DEF StartRootWaiter, DrainDecide, WaitForChange, QueryActiveProcesses, AfterZero, PollInterval
<1>6. CASE DrainWithoutProcess \/ RecordJobZero
  BY <1>0, <1>6, CompletionEffect DEF DrainWithoutProcess, RecordJobZero
<1>7. CASE TerminateOwnedJobFails \/ QueryActiveProcessesFails \/ ReadRootExitCodeFails
  BY <1>0, <1>7, FailureEffect
  DEF TerminateOwnedJobFails, CleanupFails, QueryActiveProcessesFails, ReadRootExitCodeFails,
      SameProgress
<1>8. CASE ReadRootExitCode \/ ShutdownAfterTerminal
  BY <1>8 DEF ReadRootExitCode, ShutdownAfterTerminal
<1>9. CASE TryReserveTerminal
  <2>1. /\ pc = "seal" /\ pc' \in {"write", "shutdown"} /\ UNCHANGED <<wire, root, kids, doomed>>
        /\ lc' = lc \/ lc' \in Apply(lc, "TerminalWriter", SealEvent)
    BY <1>9 DEF TryReserveTerminal, SealOutcome
  <2>2. SealEvent \in SealEvents
    BY DEF SealEvent, SealEvents
  <2>3. lc' = lc \/ lc' = [lc EXCEPT !.state = "Terminal",
                                    !.terminal = IF SealEvent = "SealExit" THEN "Exit" ELSE "Error"]
    BY <1>0, <2>1, <2>2, SealEffect
  <2>4. lc'.wasResumed = lc.wasResumed
    BY <1>0, <2>3 DEF TypeOK, Machine
  <2> QED BY <2>1, <2>4
<1>10. CASE ReadChunk \/ ReadEnds \/ SignalChange
  BY <1>10 DEF ReadChunk, ReadEnds, SignalChange
<1>11. CASE ReportEvent
  <2>1. /\ HelperRuns /\ pc' = pc /\ UNCHANGED <<wire, root, kids, doomed>>
        /\ lc' = lc \/ lc' \in Apply(lc, "ControlReader", Head(rbuf))
    BY <1>11 DEF ReportEvent, ReaderMay
  <2>2. Head(rbuf) \in StopEvents
    BY <1>0, <1>11 DEF ReportEvent, Typed, TypeOK
  <2> QED BY <1>0, <2>1, <2>2, StopEffect DEF SameProgress
<1>12. CASE ReportRoot
  <2>1. /\ HelperRuns /\ pc' = pc /\ UNCHANGED <<wire, root, kids, doomed>>
        /\ \/ lc' = lc
           \/ lc' \in Apply(lc, "RootWaiter", "RootCompleted")
           \/ lc' \in ApplyFailure(lc, "RootWaiter", "WaitFailed")
    BY <1>12 DEF ReportRoot
  <2> QED BY <1>0, <2>1, CompletionEffect, FailureEffect DEF SameProgress
<1>13. CASE RootWaitReturns \/ RootWaitFails \/ SignalRoot
  BY <1>13 DEF RootWaitReturns, RootWaitFails, SignalRoot
<1>14. CASE ParentWrites \/ ParentCloses
  BY <1>14 DEF ParentWrites, ParentCloses
<1>15. CASE UNCHANGED vars
  BY <1>15 DEF vars
<1> QED
  BY <1>1, <1>2, <1>3, <1>4, <1>5, <1>6, <1>7, <1>8, <1>9, <1>10, <1>11, <1>12, <1>13, <1>14, <1>15
  DEF Next, Coordinator, Launch, Drain, Finish, ControlReader, RootWaiter, KernelKills, Parent,
      Target, Fault, Ended, ReadEof, ReadIoFails, KernelKillsKid

(* What the parent reads of a longer wire is what it has read and one frame *)
(* more.                                                                    *)
LEMMA MappedAppend ==
  ASSUME NEW S, NEW w \in Seq(S), NEW f \in S
  PROVE  [i \in DOMAIN Append(w, f) |-> FrameOnWire(Append(w, f)[i])]
           = Append([i \in DOMAIN w |-> FrameOnWire(w[i])], FrameOnWire(f))
<1> DEFINE g(x) == FrameOnWire(x)
<1> HIDE DEF g
<1>1. [i \in DOMAIN Append(w, f) |-> g(Append(w, f)[i])]
        = Append([i \in DOMAIN w |-> g(w[i])], g(f))
  OBVIOUS
<1> QED BY <1>1 DEF g

(* What IInv says of the frames the parent can read.                        *)
LEMMA FramesRead ==
  ASSUME IInv
  PROVE  /\ wire = BaseWire =>
              FramesOnWire = IF lc.readyWasPublished THEN <<Wire!ReadyFrame>> ELSE <<>>
         /\ wire # BaseWire =>
              FramesOnWire = Append(IF lc.readyWasPublished THEN <<Wire!ReadyFrame>> ELSE <<>>,
                                    FrameOnWire(terminal))
<1>1. [i \in DOMAIN BaseWire |-> FrameOnWire(BaseWire[i])]
        = IF lc.readyWasPublished THEN <<Wire!ReadyFrame>> ELSE <<>>
  BY DEF BaseWire, FrameOnWire, ReadyFrame, Wire!ReadyFrame
<1>2. wire # BaseWire => wire = Append(BaseWire, terminal) /\ terminal \in TerminalFrames
  BY DEF IInv, Framed, Typed, TypeOK
<1>3. BaseWire \in Seq(TerminalFrames \cup {ReadyFrame})
  <2>1. <<>> \in Seq(TerminalFrames \cup {ReadyFrame})
    OBVIOUS
  <2>2. <<ReadyFrame>> \in Seq(TerminalFrames \cup {ReadyFrame})
    OBVIOUS
  <2> QED BY <2>1, <2>2 DEF BaseWire
<1>4. wire # BaseWire =>
        FramesOnWire = Append([i \in DOMAIN BaseWire |-> FrameOnWire(BaseWire[i])], FrameOnWire(terminal))
  BY <1>2, <1>3, MappedAppend DEF FramesOnWire
<1> QED BY <1>1, <1>4 DEF FramesOnWire

(* What a step that only moves threads shows the parent: nothing, or the    *)
(* first stop the lifecycle has taken, before any verdict.                  *)
LEMMA QuietOnWire ==
  ASSUME IInv, IInv', [Next]_vars, UNCHANGED <<wire, root, kids>>, HelperRuns, HelperRuns'
  PROVE  [Wire!WireNext]_(Wire!wireVars)
<1>1. FramesOnWire' = FramesOnWire /\ TargetGone' = TargetGone /\ HelperStatus' = "runs"
      /\ HelperStatus = "runs"
  BY DEF FramesOnWire, TargetGone, JobEmpty, RootAlive, HelperStatus
<1>2. CASE lc'.stopReason = lc.stopReason
  BY <1>1, <1>2 DEF Wire!wireVars
<1>3. CASE lc'.stopReason # lc.stopReason
  <2>1. lc.stopReason = "NoneOrRootExit" /\ lc.state # "Terminal"
    BY <1>3, LifecycleStep DEF IInv, KeepsDisposition
  <2>2. lc'.stopReason \in TerminateReasons
    BY <1>3, <2>1 DEF IInv, Typed, TypeOK, Machine, Reasons
  <2>3. wire = BaseWire
    BY <2>1 DEF IInv, Framed
  <2>4. FramesOnWire = <<>> \/ FramesOnWire = <<Wire!ReadyFrame>>
    BY <2>3, FramesRead
  <2>5. ~Wire!Verdict
    BY <2>4 DEF Wire!Verdict, Wire!ReadyFrame
  <2>6. PICK reason \in TerminateReasons : lc'.stopReason = reason
    BY <2>2
  <2>7. Wire!Latch(reason)
    BY <1>1, <2>1, <2>5, <2>6 DEF Wire!Latch, Wire!HasEnded
  <2>8. Wire!TerminateReasons = TerminateReasons
    BY DEF Wire!TerminateReasons, Wire!OrdinaryReasons, TerminateReasons, OrdinaryReasons
  <2> QED BY <2>7, <2>8 DEF Wire!WireNext
<1> QED BY <1>2, <1>3

(* Seen from its parent the helper is what HelperWire describes: READY      *)
(* first, EXIT of a drained target only and with the stop that was taken,   *)
(* at most one verdict, and status 0 after EXIT only.                       *)
THEOREM ImplementsWire == Spec => WireContract
<1>1. Init => Wire!WireInit
  <2> SUFFICES ASSUME Init PROVE Wire!WireInit
    OBVIOUS
  <2>1. FramesOnWire = <<>>
    BY DEF Init, FramesOnWire
  <2>2. lc.stopReason = "NoneOrRootExit" /\ ~TargetGone /\ HelperStatus = "runs"
    BY DEF Init, Initial, TargetGone, HelperStatus, HelperRuns
  <2> QED BY <2>1, <2>2 DEF Wire!WireInit
<1>2. IInv /\ IInv' /\ [Next]_vars => [Wire!WireNext]_(Wire!wireVars)
  <2> SUFFICES ASSUME IInv, IInv', [Next]_vars PROVE [Wire!WireNext]_(Wire!wireVars)
    OBVIOUS
  <2>0. TypeOK /\ Coherent(lc) /\ Framed /\ Admissible /\ kids \in Nat
        /\ (lc.state = "Terminal" => pc \in AfterSealPcs)
    BY KidsAssumption DEF IInv, Typed, TypeOK
  <2> USE DEF Goto, session, coord, reader, pipe, kernel
  <2>1. CASE CreateProcess \/ ResumeRoot \/ Spawn \/ TerminateOwnedJob
    <3>1. \/ UNCHANGED wire /\ HelperRuns /\ HelperRuns' /\ lc'.stopReason = lc.stopReason
          \/ Spawn
      BY <2>0, <2>1, LauncherEffect, FailureEffect
      DEF CreateProcess, ResumeRoot, TerminateOwnedJob, HelperRuns, Returns, Launcher, LauncherEvents
    <3>2. UNCHANGED wire /\ lc'.stopReason = lc.stopReason /\ HelperStatus' = HelperStatus
      BY <3>1 DEF Spawn, HelperStatus, HelperRuns
    <3>3. TargetGone' = TargetGone
      BY <2>0, <2>1
      DEF CreateProcess, ResumeRoot, Spawn, TerminateOwnedJob, TargetGone, JobEmpty, RootAlive, IInv,
          Launching, LaunchPcs
    <3>4. FramesOnWire' = FramesOnWire
      BY <3>2 DEF FramesOnWire
    <3> QED BY <3>2, <3>3, <3>4 DEF Wire!wireVars
  <2>2. CASE PublishReady
    <3>1. lc.state = "Running" /\ ~lc.readyWasPublished /\ pc = "ready" /\ pc' = "spawn"
          /\ UNCHANGED <<root, kids>>
      BY <2>0, <2>2 DEF PublishReady, Admissible
    <3>2. wire = BaseWire /\ wire = <<>> /\ FramesOnWire = <<>>
      <4>1. wire = BaseWire /\ wire = <<>>
        BY <2>0, <3>1 DEF Framed, BaseWire
      <4> QED BY <4>1 DEF FramesOnWire
    <3>3. HelperStatus = "runs" /\ HelperStatus' = "runs" /\ TargetGone' = TargetGone
      BY <3>1 DEF HelperStatus, HelperRuns, TargetGone, JobEmpty, RootAlive
    <3>4. lc'.stopReason = lc.stopReason
      BY <2>0, <2>2, <3>1, LauncherEffect, FailureEffect
      DEF PublishReady, Returns, Launcher, LauncherEvents
    <3>5. CASE wire' = wire
      <4>1. FramesOnWire' = FramesOnWire
        BY <3>5 DEF FramesOnWire
      <4> QED BY <3>3, <3>4, <4>1 DEF Wire!wireVars
    <3>6. CASE wire' = Append(wire, ReadyFrame)
      <4>1. FramesOnWire' = Append(FramesOnWire, FrameOnWire(ReadyFrame))
        BY <2>0, <3>6, MappedAppend DEF FramesOnWire, TypeOK
      <4>2. FrameOnWire(ReadyFrame) = Wire!ReadyFrame
        BY DEF FrameOnWire, ReadyFrame, Wire!ReadyFrame
      <4>3. Wire!WriteReady
        BY <3>2, <3>3, <3>4, <4>1, <4>2 DEF Wire!WriteReady, Wire!Writes, Wire!HasEnded
      <4> QED BY <4>3 DEF Wire!WireNext
    <3> QED BY <2>2, <3>5, <3>6 DEF PublishReady
  <2>3. CASE WriteTerminal
    <3>1. /\ pc = "write" /\ pc' = "shutdown" /\ lc' = lc /\ UNCHANGED <<root, kids>>
          /\ wire' = wire \/ wire' = Append(wire, terminal)
          /\ terminal \in TerminalFrames /\ wire = BaseWire
      BY <2>3 DEF WriteTerminal, IInv, Typed, Framed
    <3>2. HelperStatus = "runs" /\ HelperStatus' = "runs" /\ TargetGone' = TargetGone
      BY <3>1 DEF HelperStatus, HelperRuns, TargetGone, JobEmpty, RootAlive
    <3>3. FramesOnWire = IF lc.readyWasPublished THEN <<Wire!ReadyFrame>> ELSE <<>>
      BY <3>1, FramesRead
    <3>4. CASE wire' = wire
      <4>1. FramesOnWire' = FramesOnWire
        BY <3>4 DEF FramesOnWire
      <4> QED BY <3>1, <3>2, <4>1 DEF Wire!wireVars
    <3>5. CASE wire' = Append(wire, terminal)
      <4>1. FramesOnWire' = Append(FramesOnWire, FrameOnWire(terminal))
        BY <2>0, <3>1, <3>5, MappedAppend DEF FramesOnWire, TypeOK
      <4>2. CASE terminal \in ExitFrames
        <5>1. /\ lc.terminal = "Exit" /\ terminal.reason = lc.stopReason
              /\ terminal.reason # "ProtocolError" /\ terminal.kind = "EXIT"
          BY <2>0, <4>2, FramesApart DEF Framed
        <5>2. lc.readyWasPublished /\ lc.rootWasCompleted /\ lc.jobWasZero
          BY <2>0, <5>1 DEF Coherent
        <5>3. TargetGone
          BY <5>2 DEF TargetGone, IInv, Drained, RecordedDrainIsReal
        <5>4. FrameOnWire(terminal) = Wire!ExitFrame(lc.stopReason)
          BY <5>1 DEF FrameOnWire, Wire!ExitFrame
        <5>5. Wire!WriteExit
          BY <3>1, <3>2, <3>3, <4>1, <5>1, <5>2, <5>3, <5>4
          DEF Wire!WriteExit, Wire!Writes, Wire!HasEnded
        <5> QED BY <5>5 DEF Wire!WireNext
      <4>3. CASE terminal \in ErrorFrames
        <5>1. FrameOnWire(terminal) = Wire!ErrorFrame
          BY <4>3, FramesApart DEF FrameOnWire, Wire!ErrorFrame
        <5>2. Wire!WriteError
          BY <3>1, <3>2, <3>3, <4>1, <5>1 DEF Wire!WriteError, Wire!Writes, Wire!HasEnded
        <5> QED BY <5>2 DEF Wire!WireNext
      <4> QED BY <3>1, <4>2, <4>3 DEF TerminalFrames
    <3> QED BY <3>1, <3>4, <3>5
  <2>4. CASE Dispose \/ ReapRoot
    <3>1. /\ pc \in {"dispose", "reap"} /\ pc' \in {"reap", "done"}
          /\ UNCHANGED <<lc, wire, terminal, root, kids>>
      BY <2>4 DEF Dispose, ReapRoot
    <3>2. FramesOnWire' = FramesOnWire /\ TargetGone' = TargetGone /\ HelperStatus = "runs"
      BY <3>1 DEF FramesOnWire, TargetGone, JobEmpty, RootAlive, HelperStatus, HelperRuns
    <3>3. CASE pc' = "reap"
      <4>1. HelperStatus' = "runs"
        BY <3>3 DEF HelperStatus, HelperRuns
      <4> QED BY <3>1, <3>2, <4>1 DEF Wire!wireVars
    <3>4. CASE pc' = "done"
      <4>1. HelperStatus' = IF failed' THEN "failed" ELSE "zero"
        BY <3>4 DEF HelperStatus, HelperRuns
      <4>2. ~failed' => Wire!Verdict /\ FramesOnWire[Len(FramesOnWire)] # Wire!ErrorFrame
        <5> SUFFICES ASSUME ~failed'
                     PROVE  Wire!Verdict /\ FramesOnWire[Len(FramesOnWire)] # Wire!ErrorFrame
          OBVIOUS
        <5>1. terminal \in ExitFrames /\ wire # BaseWire
          <6>1. terminal' \in ExitFrames /\ wire' = Append(BaseWire', terminal')
            BY <3>4 DEF IInv, Framed
          <6>2. BaseWire' = BaseWire /\ terminal' = terminal /\ wire' = wire
            BY <3>1 DEF BaseWire
          <6> QED BY <6>1, <6>2 DEF BaseWire
        <5>2. terminal.kind = "EXIT" /\ FrameOnWire(terminal).kind = "EXIT"
          BY <5>1, FramesApart DEF FrameOnWire
        <5>3. FramesOnWire = Append(IF lc.readyWasPublished THEN <<Wire!ReadyFrame>> ELSE <<>>,
                                    FrameOnWire(terminal))
          BY <5>1, FramesRead
        <5>4. Len(FramesOnWire) > 0 /\ FramesOnWire[Len(FramesOnWire)] = FrameOnWire(terminal)
          BY <5>3
        <5> QED BY <5>2, <5>4 DEF Wire!Verdict, Wire!ErrorFrame
      <4>3. Wire!Leave
        BY <3>1, <3>2, <4>1, <4>2 DEF Wire!Leave, Wire!HasEnded
      <4> QED BY <4>3 DEF Wire!WireNext
    <3> QED BY <3>1, <3>3, <3>4
  <2>5. CASE KernelKillsRoot \/ KidExits \/ RootExits
    <3>1. UNCHANGED <<lc, pc, failed, wire>> /\ ~TargetGone
      BY <2>5 DEF KernelKillsRoot, KidExits, RootExits, TargetGone, JobEmpty, RootAlive
    <3>2. FramesOnWire' = FramesOnWire /\ HelperStatus' = HelperStatus
      BY <3>1 DEF FramesOnWire, HelperStatus, HelperRuns
    <3>3. CASE TargetGone'
      <4>1. Wire!Drain
        BY <3>1, <3>2, <3>3 DEF Wire!Drain
      <4> QED BY <4>1 DEF Wire!WireNext
    <3>4. CASE ~TargetGone'
      <4>1. TargetGone' = TargetGone
        BY <3>1, <3>4 DEF TargetGone
      <4> QED BY <3>1, <3>2, <4>1 DEF Wire!wireVars
    <3> QED BY <3>3, <3>4
  <2>6. CASE HelperKilled
    <3>1. UNCHANGED <<lc, wire, root, kids>> /\ HelperRuns /\ pc' = "killed"
      BY <2>6 DEF HelperKilled
    <3>2. FramesOnWire' = FramesOnWire /\ TargetGone' = TargetGone
          /\ HelperStatus = "runs" /\ HelperStatus' = "killed"
      BY <3>1 DEF FramesOnWire, TargetGone, JobEmpty, RootAlive, HelperStatus, HelperRuns
    <3>3. Wire!Killed
      BY <3>1, <3>2 DEF Wire!Killed, Wire!HasEnded
    <3> QED BY <3>3 DEF Wire!WireNext
  <2>7. CASE UNCHANGED <<wire, root, kids, doomed>> /\ HelperRuns /\ HelperRuns'
    BY <2>7, QuietOnWire
  <2>8. CASE UNCHANGED <<lc, pc, failed, wire, root, kids, doomed>>
    <3>1. UNCHANGED <<FramesOnWire, TargetGone, HelperStatus>>
      BY <2>8 DEF FramesOnWire, TargetGone, JobEmpty, RootAlive, HelperStatus, HelperRuns
    <3> QED BY <2>8, <3>1 DEF Wire!wireVars
  <2>9. Typed
    BY DEF IInv
  <2> QED BY <2>1, <2>2, <2>3, <2>4, <2>5, <2>6, <2>7, <2>8, <2>9, QuietStep
<1> QED BY <1>1, <1>2, Invariant, PTL DEF Spec, WireContract, Wire!WireSpec

(* What IInv says of the reports: READY is on the wire when the lifecycle   *)
(* has recorded it, and the verdict is that of the frame that follows.      *)
LEMMA ReportsRead ==
  IInv => /\ Reported({ReadyFrame}) <=> lc.readyWasPublished
          /\ ReportedVerdict = IF wire = BaseWire THEN "none"
                               ELSE IF terminal \in ExitFrames THEN "exit" ELSE "error"
<1> SUFFICES ASSUME IInv
             PROVE  /\ Reported({ReadyFrame}) <=> lc.readyWasPublished
                    /\ ReportedVerdict = IF wire = BaseWire THEN "none"
                                         ELSE IF terminal \in ExitFrames THEN "exit" ELSE "error"
  OBVIOUS
<1>1. \A t \in TerminalFrames : t # ReadyFrame
  BY FramesApart DEF TerminalFrames, ReadyFrame
<1>2. ReadyFrame \notin ExitFrames /\ ReadyFrame \notin ErrorFrames
  BY FramesApart DEF ReadyFrame
<1>3. \A t \in TerminalFrames : (t \in ErrorFrames <=> t \notin ExitFrames)
  BY FramesApart DEF TerminalFrames
<1>4. CASE wire = BaseWire
  <2>1. \A F : Reported(F) <=> lc.readyWasPublished /\ ReadyFrame \in F
    BY <1>4 DEF Reported, BaseWire
  <2> QED BY <1>2, <1>4, <2>1 DEF ReportedVerdict
<1>5. CASE wire # BaseWire
  <2>1. wire = Append(BaseWire, terminal) /\ terminal \in TerminalFrames
    BY <1>5 DEF IInv, Framed, Typed, TypeOK
  <2>2. \A a, b : /\ Append(<<a>>, b)[1] = a /\ Append(<<a>>, b)[2] = b
                  /\ DOMAIN Append(<<a>>, b) = {1, 2}
    OBVIOUS
  <2>3. \A b : Append(<<>>, b)[1] = b /\ DOMAIN Append(<<>>, b) = {1}
    OBVIOUS
  <2>4. \A F : Reported(F) <=> (lc.readyWasPublished /\ ReadyFrame \in F) \/ terminal \in F
    <3>1. CASE lc.readyWasPublished
      <4>1. DOMAIN wire = {1, 2} /\ wire[1] = ReadyFrame /\ wire[2] = terminal
        BY <2>1, <2>2, <3>1 DEF BaseWire
      <4> QED BY <3>1, <4>1 DEF Reported
    <3>2. CASE ~lc.readyWasPublished
      <4>1. DOMAIN wire = {1} /\ wire[1] = terminal
        BY <2>1, <2>3, <3>2 DEF BaseWire
      <4> QED BY <3>2, <4>1 DEF Reported
    <3> QED BY <3>1, <3>2
  <2>5. (Reported(ExitFrames) <=> terminal \in ExitFrames) /\ (Reported(ErrorFrames) <=> terminal \in ErrorFrames)
    BY <1>2, <2>4
  <2>6. Reported({ReadyFrame}) <=> lc.readyWasPublished
    BY <1>1, <2>1, <2>4
  <2> QED BY <1>3, <1>5, <2>1, <2>5, <2>6 DEF ReportedVerdict
<1> QED BY <1>4, <1>5

(* The helper is the owner OwnedTarget describes: it never runs a condemned *)
(* target, announces one that has run, reports EXIT of an empty tree only   *)
(* and once, and condemns what is left when it goes (JobSession.cs,         *)
(* SessionCoordinator.cs).                                                  *)
THEOREM ImplementsOwnedTarget == Spec => Contract!Spec
<1>1. Init => Contract!Init
  <2> SUFFICES ASSUME Init PROVE Contract!Init
    OBVIOUS
  <2>1. \A F : ~Reported(F)
    BY DEF Init, Reported
  <2>2. TargetTree = "absent" /\ ReportedVerdict = "none" /\ Ownership = "present"
    BY <2>1 DEF Init, TargetTree, ReportedVerdict, Ownership, HelperRuns
  <2>3. ~lc.wasResumed /\ lc.wasResumed = FALSE
    BY DEF Init, Initial
  <2>4. doomed = FALSE /\ Reported({ReadyFrame}) = FALSE
    BY DEF Init, Reported
  <2> QED BY <2>2, <2>3, <2>4 DEF Contract!Init
<1>2. IInv /\ IInv' /\ [Next]_vars => [Contract!Next]_(Contract!vars)
  <2> SUFFICES ASSUME IInv, IInv', [Next]_vars PROVE [Contract!Next]_(Contract!vars)
    OBVIOUS
  <2>0. /\ TypeOK /\ Coherent(lc) /\ Framed /\ Admissible /\ Owned /\ Launching /\ kids \in Nat
        /\ lc.state = "Terminal" => pc \in AfterSealPcs
        /\ Typed
    BY KidsAssumption DEF IInv, Typed, TypeOK
  <2>v. /\ Reported({ReadyFrame}) <=> lc.readyWasPublished
        /\ ReportedVerdict = IF wire = BaseWire THEN "none"
                             ELSE IF terminal \in ExitFrames THEN "exit" ELSE "error"
    BY ReportsRead
  <2>w. /\ Reported({ReadyFrame})' <=> lc.readyWasPublished'
        /\ ReportedVerdict' = IF wire' = BaseWire' THEN "none"
                              ELSE IF terminal' \in ExitFrames' THEN "exit" ELSE "error"
    <3>1. IInv' => (/\ Reported({ReadyFrame}) <=> lc.readyWasPublished
                    /\ ReportedVerdict = IF wire = BaseWire THEN "none"
                                         ELSE IF terminal \in ExitFrames THEN "exit" ELSE "error")'
      BY ReportsRead, PTL
    <3> QED BY <3>1
  <2>u. wire' = wire => Reported({ReadyFrame})' = Reported({ReadyFrame}) /\ ReportedVerdict' = ReportedVerdict
    BY DEF Reported, ReportedVerdict
  <2> USE DEF Goto, session, coord, reader, pipe, kernel
  <2>1. CASE CreateProcess
    <3>1. /\ root = "none" /\ root' = "suspended" /\ UNCHANGED <<lc, wire, doomed>> /\ ~doomed
          /\ lc.state = "Creating" /\ pc = "creating" /\ pc' = "publish"
      BY <2>0, <2>1 DEF CreateProcess, Launching, LaunchPcs, Admissible
    <3>2. ~lc.wasResumed /\ wire = BaseWire
      BY <2>0, <3>1 DEF Coherent, BeforeCleanup, Framed
    <3>3. TargetTree = "absent" /\ TargetTree' = "held"
      BY <3>1, <3>2 DEF TargetTree, JobEmpty, RootAlive
    <3>4. Ownership = "present" /\ Ownership' = "present" /\ ReportedVerdict = "none"
      BY <2>v, <3>1, <3>2 DEF Ownership, HelperRuns
    <3>5. Contract!Create
      BY <2>u, <3>1, <3>3, <3>4 DEF Contract!Create, Contract!OwnerActs
    <3> QED BY <3>5 DEF Contract!Next
  <2>2. CASE ResumeRoot
    <3>1. /\ pc = "resume" /\ pc' \in {"ready", "spawn"} /\ UNCHANGED <<wire, doomed, kids>>
          /\ lc.state = "CreatedAssigned" /\ root = "suspended" /\ ~doomed
      BY <2>0, <2>2 DEF ResumeRoot, Launching, LaunchPcs
    <3>2. ~lc.wasResumed /\ wire = BaseWire
      BY <2>0, <3>1 DEF Coherent, BeforeCleanup, Framed
    <3>3. Ownership = "present" /\ Ownership' = "present" /\ ReportedVerdict = "none"
      BY <2>v, <3>1, <3>2 DEF Ownership, HelperRuns
    <3>4. TargetTree = "held"
      BY <3>1, <3>2 DEF TargetTree, JobEmpty, RootAlive
    <3>5. CASE Launcher("ResumeSucceeded") /\ root' = "running"
      <4>1. lc'.wasResumed
        BY <2>0, <3>1, <3>5, LauncherEffect DEF Launcher, Returns, LauncherEvents
      <4>2. lc'.wasResumed = TRUE
        BY <4>1 DEF IInv, Typed, TypeOK, Machine
      <4>3. TargetTree' = "alive"
        BY <3>5, <4>1 DEF TargetTree, JobEmpty, RootAlive
      <4>4. Contract!Run
        BY <2>u, <3>1, <3>3, <3>4, <4>2, <4>3 DEF Contract!Run, Contract!OwnerActs
      <4> QED BY <4>4 DEF Contract!Next
    <3>6. CASE lc' \in ApplyFailure(lc, "Launcher", "ResumeFailed") /\ root' = root
      <4>1. lc'.wasResumed = lc.wasResumed
        BY <2>0, <3>6, FailureEffect DEF SameProgress
      <4>2. TargetTree' = TargetTree
        BY <3>1, <3>6, <4>1 DEF TargetTree, JobEmpty, RootAlive
      <4> QED BY <2>u, <3>1, <3>3, <4>1, <4>2 DEF Contract!vars
    <3> QED BY <2>2, <3>5, <3>6 DEF ResumeRoot, Returns
  <2>3. CASE PublishReady
    <3>1. /\ lc.state = "Running" /\ ~lc.readyWasPublished /\ lc.wasResumed
          /\ pc = "ready" /\ pc' = "spawn" /\ UNCHANGED <<root, kids, doomed, terminal>>
      BY <2>0, <2>3 DEF PublishReady, Admissible, Coherent
    <3>2. wire = BaseWire /\ terminal = NoFrame
      BY <2>0, <3>1 DEF Framed
    <3>3. Ownership = "present" /\ Ownership' = "present" /\ ReportedVerdict = "none"
      BY <2>v, <3>1, <3>2 DEF Ownership, HelperRuns
    <3>4. lc'.wasResumed = lc.wasResumed
      BY <2>0, <2>3, <3>1, LauncherEffect, FailureEffect
      DEF PublishReady, Returns, Launcher, LauncherEvents, SameProgress
    <3>5. TargetTree' = TargetTree
      BY <3>1, <3>4 DEF TargetTree, JobEmpty, RootAlive
    <3>6. CASE wire' = wire
      BY <2>u, <3>1, <3>3, <3>4, <3>5, <3>6 DEF Contract!vars
    <3>7. CASE wire' = Append(wire, ReadyFrame) /\ Launcher("ReadyPublished")
      <4>1. lc'.readyWasPublished
        BY <2>0, <3>1, <3>7, LauncherEffect DEF Launcher, Returns, LauncherEvents
      <4>2. terminal' = NoFrame
        BY <3>1, <3>2
      <4>3. wire' = BaseWire'
        BY <4>2 DEF IInv, Framed
      <4>4. ReportedVerdict' = "none" /\ Reported({ReadyFrame})' /\ ~Reported({ReadyFrame})
        BY <2>v, <2>w, <3>1, <4>1, <4>3
      <4>5. Reported({ReadyFrame})' = TRUE
        BY <4>4 DEF Reported
      <4>6. Contract!Announce
        BY <3>1, <3>3, <3>4, <3>5, <4>4, <4>5 DEF Contract!Announce, Contract!OwnerActs
      <4> QED BY <4>6 DEF Contract!Next
    <3> QED BY <2>3, <3>6, <3>7 DEF PublishReady
  <2>4. CASE WriteTerminal
    <3>1. /\ pc = "write" /\ pc' = "shutdown" /\ UNCHANGED <<lc, root, kids, doomed, terminal>>
          /\ wire' = wire \/ wire' = Append(wire, terminal)
          /\ terminal \in TerminalFrames /\ wire = BaseWire
      BY <2>4 DEF WriteTerminal, IInv, Typed, Framed
    <3>2. /\ Ownership = "present" /\ Ownership' = "present" /\ ReportedVerdict = "none"
          /\ TargetTree' = TargetTree
      BY <2>v, <3>1 DEF Ownership, HelperRuns, TargetTree, JobEmpty, RootAlive
    <3>3. CASE wire' = wire
      BY <2>u, <3>1, <3>2, <3>3 DEF Contract!vars
    <3>4. CASE wire' = Append(wire, terminal)
      <4>1. BaseWire' = BaseWire /\ wire' # BaseWire
        <5>1. \A a, b : Append(<<a>>, b) # <<a>> /\ Append(<<>>, b) # <<>>
          OBVIOUS
        <5>2. Append(BaseWire, terminal) # BaseWire
          BY <5>1 DEF BaseWire
        <5> QED BY <3>1, <3>4, <5>2 DEF BaseWire
      <4>2. ReportedVerdict' = IF terminal \in ExitFrames THEN "exit" ELSE "error"
        BY <2>w, <3>1, <4>1 DEF ExitFrames, ExitFrame
      <4>3. Reported({ReadyFrame})' = Reported({ReadyFrame})
        BY <2>v, <2>w, <3>1 DEF Reported
      <4>4. CASE terminal \in ExitFrames
        <5>1. lc.readyWasPublished /\ lc.rootWasCompleted /\ lc.jobWasZero
          BY <2>0, <4>4 DEF Framed, Coherent
        <5>2. TargetTree = "empty"
          BY <5>1 DEF TargetTree, IInv, Drained, RecordedDrainIsReal
        <5>3. Contract!ReportExit
          BY <2>v, <3>1, <3>2, <4>2, <4>3, <4>4, <5>1, <5>2
          DEF Contract!ReportExit, Contract!OwnerActs
        <5> QED BY <5>3 DEF Contract!Next
      <4>5. CASE terminal \notin ExitFrames
        <5>1. ReadyBarrierPassed(lc)
          BY <2>0, <3>1, <4>5 DEF Framed, Coherent, TerminalFrames
        <5>2. Contract!ReportError
          BY <2>v, <3>1, <3>2, <4>2, <4>3, <4>5, <5>1
          DEF Contract!ReportError, Contract!OwnerActs, ReadyBarrierPassed
        <5> QED BY <5>2 DEF Contract!Next
      <4> QED BY <4>4, <4>5
    <3> QED BY <3>1, <3>3, <3>4
  <2>5. CASE TerminateOwnedJob
    <3>1. /\ pc = "terminate" /\ pc' = "query" /\ doomed' = TRUE /\ UNCHANGED <<lc, wire, root, kids>>
      BY <2>5 DEF TerminateOwnedJob
    <3>2. TargetTree' = TargetTree /\ Ownership = "present" /\ Ownership' = "present"
      BY <3>1 DEF Ownership, HelperRuns, TargetTree, JobEmpty, RootAlive
    <3>3. Contract!Condemn
      BY <2>u, <3>1, <3>2 DEF Contract!Condemn, Contract!OwnerActs
    <3> QED BY <3>3 DEF Contract!Next
  <2>6. CASE Dispose \/ ReapRoot \/ HelperKilled
    <3>1. /\ HelperRuns /\ pc' \in {"reap", "done", "killed"} /\ UNCHANGED <<lc, wire, root, kids>>
      BY <2>6 DEF Dispose, ReapRoot, HelperKilled, HelperRuns
    <3>2. doomed' \in {doomed, TRUE}
      <4>1. doomed' = doomed \/ doomed' = (doomed \/ job = "open")
        BY <2>6 DEF Dispose, ReapRoot, HelperKilled
      <4>2. doomed \in BOOLEAN
        BY <2>0 DEF TypeOK
      <4> QED BY <4>1, <4>2, Zenon
    <3>3. TargetTree' = TargetTree /\ Ownership = "present"
      BY <3>1 DEF Ownership, TargetTree, JobEmpty, RootAlive
    <3>4. root # "none" => doomed'
      <4>1. root' # "none" => doomed'
        BY <3>1 DEF IInv, Owned
      <4> QED BY <3>1, <4>1
    <3>5. CASE pc' = "reap"
      <4>1. Ownership' = "present"
        BY <3>5 DEF Ownership, HelperRuns
      <4>2. CASE doomed' = doomed
        BY <2>u, <3>1, <3>3, <4>1, <4>2 DEF Contract!vars
      <4>3. CASE doomed' = TRUE
        <5>1. Contract!Condemn
          BY <2>u, <3>1, <3>3, <4>1, <4>3 DEF Contract!Condemn, Contract!OwnerActs
        <5> QED BY <5>1 DEF Contract!Next
      <4> QED BY <3>2, <4>2, <4>3
    <3>6. CASE pc' # "reap"
      <4>1. Ownership' = "gone"
        BY <3>1, <3>6 DEF Ownership, HelperRuns
      <4>2. TargetTree \in {"held", "alive"} => doomed'
        BY <3>4 DEF TargetTree
      <4>3. Contract!Leave
        BY <2>u, <3>1, <3>2, <3>3, <4>1, <4>2 DEF Contract!Leave, Contract!OwnerActs
      <4> QED BY <4>3 DEF Contract!Next
    <3> QED BY <3>5, <3>6
  <2>7. CASE KernelKillsRoot \/ KidExits \/ RootExits
    <3>1. /\ UNCHANGED <<lc, pc, wire, doomed>> /\ ~JobEmpty
          /\ root # "none" /\ root' # "none"
      BY <2>0, <2>7 DEF KernelKillsRoot, KidExits, RootExits, JobEmpty, RootAlive, Owned
    <3>2. Ownership' = Ownership
      BY <3>1 DEF Ownership, HelperRuns
    <3>3. CASE ~JobEmpty'
      <4>1. TargetTree' = TargetTree
        BY <3>1, <3>3 DEF TargetTree
      <4> QED BY <2>u, <3>1, <3>2, <4>1 DEF Contract!vars
    <3>4. CASE JobEmpty'
      <4>1. TargetTree' = "empty"
        BY <3>1, <3>4 DEF TargetTree
      <4>2. lc.wasResumed \/ doomed
        BY <2>0, <2>7 DEF KernelKillsRoot, KidExits, RootExits, Owned
      <4>3. TargetTree = "alive" \/ (TargetTree = "held" /\ doomed)
        BY <3>1, <4>2 DEF TargetTree
      <4>4. Contract!TreeEnds
        BY <2>u, <3>1, <3>2, <4>1, <4>3 DEF Contract!TreeEnds
      <4> QED BY <4>4 DEF Contract!Next
    <3> QED BY <3>3, <3>4
  <2>8. CASE Spawn
    <3>1. /\ UNCHANGED <<lc, pc, wire, doomed, root>> /\ root # "none" /\ ~JobEmpty /\ ~JobEmpty'
      BY <2>0, <2>8 DEF Spawn, JobEmpty, RootAlive, Owned
    <3>2. TargetTree' = TargetTree /\ Ownership' = Ownership
      BY <3>1 DEF TargetTree, Ownership, HelperRuns
    <3> QED BY <2>u, <3>1, <3>2 DEF Contract!vars
  <2>9. CASE /\ UNCHANGED <<wire, root, kids, doomed>> /\ lc'.wasResumed = lc.wasResumed
             /\ HelperRuns /\ HelperRuns'
    <3>1. TargetTree' = TargetTree /\ Ownership' = Ownership
      BY <2>9 DEF TargetTree, Ownership, JobEmpty, RootAlive
    <3> QED BY <2>9, <2>u, <3>1 DEF Contract!vars
  <2>10. CASE UNCHANGED <<lc, pc, failed, wire, root, kids, doomed>>
    <3>1. TargetTree' = TargetTree /\ Ownership' = Ownership
      BY <2>10 DEF TargetTree, Ownership, JobEmpty, RootAlive, HelperRuns
    <3> QED BY <2>10, <2>u, <3>1 DEF Contract!vars
  <2> QED BY <2>0, <2>1, <2>2, <2>3, <2>4, <2>5, <2>6, <2>7, <2>8, <2>9, <2>10, QuietStep
<1> QED BY <1>1, <1>2, Invariant, PTL DEF Spec, Contract!Spec

=============================================================================
