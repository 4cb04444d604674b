------------------------------ MODULE JobHelper ------------------------------
(***************************************************************************)
(* The Windows Job helper process: one target program, started suspended   *)
(* inside a Job object and owned until the Job counts no active process.   *)
(*                                                                         *)
(* Three threads share a lifecycle machine under the gate of JobSession:   *)
(*   - the coordinator (SessionCoordinator.RunCore), program counter pc;   *)
(*   - the control reader (ControlChannel.ReadLoop), rpc;                  *)
(*   - the root waiter (SessionCoordinator.WaitForRoot), wpc.              *)
(* Outside the helper: the parent at the other end of the control pipe,    *)
(* the kernel that runs and kills the processes of the Job, and whoever    *)
(* may kill the helper itself.                                             *)
(*                                                                         *)
(* A step is what runs while the gate is held, or one system call.  The    *)
(* gate spans two steps only in ResumeAndPublishReady, where READY is      *)
(* written under it.                                                       *)
(***************************************************************************)
EXTENDS LifecycleMachine, Naturals, Sequences

CONSTANTS
  MaxFrames,    \* frames the parent ever writes to the control pipe
  MaxKids,      \* live descendants of the root the Job ever holds
  SentReasons   \* reasons the parent puts in TERMINATE frames

ASSUME FramesAssumption == MaxFrames \in Nat
ASSUME KidsAssumption == MaxKids \in Nat
ASSUME ReasonsAssumption == SentReasons \subseteq TerminateReasons

VARIABLES
  \* JobSession, guarded by the gate
  lc,           \* the lifecycle machine
  win32,        \* the stage whose Win32 code was recorded, or "None"
  hasProcess,   \* the root's process handle has been published
  exitKnown,    \* the root's exit code has been read
  disposed,
  \* SessionCoordinator
  pc,
  terminateAttempted,
  changed,      \* the AutoResetEvent
  terminal,     \* the reserved terminal snapshot, or NoFrame
  failed,       \* RunCore returns 1
  \* the other two threads
  rpc, rbuf,    \* rbuf: events the reader has decoded and not yet reported
  wpc,
  \* the control pipe
  inbox, sent, parentOpen, wire,
  \* the kernel: the Job handle and the processes of the Job
  job, root, kids, doomed

session == <<lc, win32, hasProcess, exitKnown, disposed>>
coord   == <<pc, terminateAttempted, terminal, failed>>
reader  == <<rpc, rbuf>>
pipe    == <<inbox, sent, parentOpen, wire>>
kernel  == <<job, root, kids, doomed>>
vars    == <<session, coord, changed, reader, wpc, pipe, kernel>>

-----------------------------------------------------------------------------
(* Frames *)

InFrames == {"config", "malformed"} \cup SentReasons

ReadyFrame == [kind |-> "READY"]
ExitFrame(reason, codeKnown) ==
  [kind |-> "EXIT", reason |-> reason, codeKnown |-> codeKnown]
ErrorFrame(stage, reason, code) ==
  [kind |-> "ERROR", stage |-> stage, reason |-> reason, win32 |-> code]
NoFrame == [kind |-> "none"]

ExitFrames  == {ExitFrame(r, k) : r \in Reasons, k \in BOOLEAN}
ErrorFrames == {ErrorFrame(s, r, c) : s \in Stages, r \in Reasons, c \in Stages}
TerminalFrames == ExitFrames \cup ErrorFrames

(* OnTerminate: the lifecycle event of a TERMINATE frame. *)
TerminateEvent(reason) ==
  CASE reason = "Cancelled"       -> "TerminateCancelled"
    [] reason = "TimedOut"        -> "TerminateTimedOut"
    [] reason = "SessionShutdown" -> "TerminateSessionShutdown"
    [] reason = "ProtocolError"   -> "ProtocolError"

TerminateEvents(frames) == [i \in DOMAIN frames |-> TerminateEvent(frames[i])]

(* The decoder rejects a whole chunk for one bad or misplaced frame. *)
AllTerminates(frames) == \A i \in DOMAIN frames : frames[i] \in SentReasons

Chunk(n) == SubSeq(inbox, 1, n)
AtEof == inbox = <<>> /\ ~parentOpen

-----------------------------------------------------------------------------
(* State *)

MainPcs == {"config", "buffered", "prepare", "create", "creating", "publish",
            "assigned", "resume", "ready", "spawn", "drain", "wait", "terminate",
            "query", "zero", "after", "poll", "exitcode", "seal", "write",
            "shutdown", "dispose", "reap", "done", "killed"}

TypeOK ==
  /\ lc \in Machine
  /\ win32 \in Stages
  /\ hasProcess \in BOOLEAN /\ exitKnown \in BOOLEAN /\ disposed \in BOOLEAN
  /\ pc \in MainPcs
  /\ terminateAttempted \in BOOLEAN /\ changed \in BOOLEAN /\ failed \in BOOLEAN
  /\ terminal \in TerminalFrames \cup {NoFrame}
  /\ rpc \in {"off", "read", "apply", "set", "fail", "failset", "stopped"}
  /\ rbuf \in Seq(StopEvents)
  /\ wpc \in {"off", "wait", "completed", "failed", "set", "stopped"}
  /\ inbox \in Seq(InFrames) /\ sent \in 0..MaxFrames /\ parentOpen \in BOOLEAN
  /\ wire \in Seq(TerminalFrames \cup {ReadyFrame})
  /\ job \in {"none", "open", "closed"}
  /\ root \in {"none", "suspended", "running", "exited"}
  /\ kids \in 0..MaxKids /\ doomed \in BOOLEAN

Init ==
  /\ lc = Initial /\ win32 = "None"
  /\ hasProcess = FALSE /\ exitKnown = FALSE /\ disposed = FALSE
  /\ pc = "config" /\ terminateAttempted = FALSE /\ changed = FALSE
  /\ terminal = NoFrame /\ failed = FALSE
  /\ rpc = "off" /\ rbuf = <<>> /\ wpc = "off"
  /\ inbox = <<>> /\ sent = 0 /\ parentOpen = TRUE /\ wire = <<>>
  /\ job = "none" /\ root = "none" /\ kids = 0 /\ doomed = FALSE

HelperRuns == pc \notin {"done", "killed"}
GateFree == pc # "ready"
ShuttingDown == pc \in {"dispose", "reap", "done", "killed"}
RootAlive == root \in {"suspended", "running"}
JobEmpty == ~RootAlive /\ kids = 0

Goto(from, to) == pc = from /\ pc' = to
Returns(s) == lc' \in s
Launcher(event) == Returns(Apply(lc, "Launcher", event))
CleanupJobZero == Returns(Apply(lc, "CleanupOwner", "JobZero"))

\* Mutant: the code of a later failure is recorded under an earlier stage.
RecordAnyWin32Code(stage) == win32' = IF win32 = "None" THEN stage ELSE win32

(* RecordFirstWin32Code, called with the stage of a call that just failed; *)
(* a failing call always has a nonzero code.                               *)
RecordFirstWin32Code(stage) ==
  win32' = IF win32 = "None" /\ lc'.failureStage = stage THEN stage ELSE win32

-----------------------------------------------------------------------------
(* The coordinator: reading the configuration *)

ReadLaunchConfig ==
  /\ pc = "config"
  /\ \E n \in 1..Len(inbox) :
       /\ inbox' = SubSeq(inbox, n + 1, Len(inbox))
       /\ IF inbox[1] = "config" /\ AllTerminates(Tail(Chunk(n)))
            THEN /\ rbuf' = TerminateEvents(Tail(Chunk(n)))
                 /\ pc' = "buffered"
                 /\ UNCHANGED session
            ELSE /\ Returns(Apply(lc, "ControlReader", "ProtocolError"))
                 /\ pc' = "drain"
                 /\ UNCHANGED <<rbuf, win32, hasProcess, exitKnown, disposed>>
  /\ UNCHANGED <<terminateAttempted, terminal, failed, changed, rpc, wpc,
                 sent, parentOpen, wire, kernel>>

(* End of file before a configuration, or a read that fails. *)
NoLaunchConfig ==
  /\ Goto("config", "drain")
  /\ Returns(Apply(lc, "ControlReader", "ControlEof"))
  /\ UNCHANGED <<win32, hasProcess, exitKnown, disposed, terminateAttempted,
                 terminal, failed, changed, reader, wpc, pipe, kernel>>

ReadLaunchConfigEof == AtEof /\ NoLaunchConfig
ReadLaunchConfigIoFails == NoLaunchConfig

(* StartReader reports the terminates that came with the configuration on  *)
(* the coordinator's own thread, then starts the reader thread.            *)
StartReader ==
  /\ pc = "buffered"
  /\ IF rbuf # <<>>
       THEN /\ Returns(Apply(lc, "ControlReader", Head(rbuf)))
            /\ rbuf' = Tail(rbuf)
            /\ changed' = TRUE
            /\ UNCHANGED <<pc, rpc>>
       ELSE /\ pc' = "prepare" /\ rpc' = "read"
            /\ UNCHANGED <<lc, rbuf, changed>>
  /\ UNCHANGED <<win32, hasProcess, exitKnown, disposed, terminateAttempted,
                 terminal, failed, wpc, pipe, kernel>>

-----------------------------------------------------------------------------
(* The coordinator: launching the target.  A launch step that finds a      *)
(* disposition latched throws, and RunCore goes on to the one cleanup path *)
(* ("spawn").                                                              *)

LaunchAbandoned ==
  /\ \/ pc = "prepare" /\ lc.state # "Configured"
     \/ pc = "create" /\ lc.state # "JobReady"
     \/ pc \in {"assigned", "resume"} /\ lc.state # "CreatedAssigned"
  /\ pc' = "spawn"
  /\ UNCHANGED <<session, terminateAttempted, terminal, failed, changed, reader,
                 wpc, pipe, kernel>>

PrepareJob ==
  /\ pc = "prepare" /\ lc.state = "Configured"
  /\ \/ /\ Launcher("JobPrepared")
        /\ job' = "open"
        /\ pc' = "create"
        /\ UNCHANGED win32
     \/ \E stage \in {"JobCreateFailed", "JobConfigFailed"} :
          /\ Returns(ApplyFailure(lc, "Launcher", stage))
          /\ RecordFirstWin32Code(stage)
          /\ pc' = "spawn"
          /\ UNCHANGED job
  /\ UNCHANGED <<hasProcess, exitKnown, disposed, terminateAttempted, terminal,
                 failed, changed, reader, wpc, pipe, root, kids, doomed>>

(* CreateSuspended up to BeginCreate, which releases the gate. *)
BeginCreate ==
  /\ pc = "create" /\ lc.state = "JobReady"
  /\ \/ Launcher("BeginCreate") /\ pc' = "creating"
     \/ \E stage \in LaunchPreparationStages :
          Returns(ApplyFailure(lc, "Launcher", stage)) /\ pc' = "spawn"
  /\ UNCHANGED <<win32, hasProcess, exitKnown, disposed, terminateAttempted,
                 terminal, failed, changed, reader, wpc, pipe, kernel>>

(* CreateProcessW outside the gate: the new process is born suspended and  *)
(* already a member of the Job (PROC_THREAD_ATTRIBUTE_JOB_LIST).           *)
CreateProcess ==
  /\ Goto("creating", "publish")
  /\ root' = "suspended"
  /\ UNCHANGED <<session, terminateAttempted, terminal, failed, changed, reader,
                 wpc, pipe, job, kids, doomed>>

CreateProcessFails ==
  /\ Goto("creating", "spawn")
  /\ Launcher("CreateFailed")
  /\ IF HasFailed(lc) THEN UNCHANGED win32 ELSE RecordFirstWin32Code("CreateFailed")
  /\ UNCHANGED <<hasProcess, exitKnown, disposed, terminateAttempted, terminal,
                 failed, changed, reader, wpc, pipe, kernel>>

PublishProcess ==
  /\ Goto("publish", "assigned")
  /\ hasProcess' = TRUE
  /\ Launcher("CreateSucceeded")
  /\ UNCHANGED <<win32, exitKnown, disposed, terminateAttempted, terminal, failed,
                 changed, reader, wpc, pipe, kernel>>

(* RunCore looks at the lifecycle before it takes the gate to resume. *)
CheckAssigned ==
  /\ Goto("assigned", "resume")
  /\ lc.state = "CreatedAssigned"
  /\ UNCHANGED <<session, terminateAttempted, terminal, failed, changed, reader,
                 wpc, pipe, kernel>>

ResumeRoot ==
  /\ pc = "resume" /\ lc.state = "CreatedAssigned"
  /\ \/ /\ Launcher("ResumeSucceeded")
        /\ root' = "running"
        /\ pc' = "ready"
        /\ UNCHANGED win32
     \/ /\ Returns(ApplyFailure(lc, "Launcher", "ResumeFailed"))
        /\ RecordFirstWin32Code("ResumeFailed")
        /\ pc' = "spawn"
        /\ UNCHANGED root
  /\ UNCHANGED <<hasProcess, exitKnown, disposed, terminateAttempted, terminal,
                 failed, changed, reader, wpc, pipe, job, kids, doomed>>

(* Still under the gate: READY is written and published, or the write fails. *)
PublishReady ==
  /\ Goto("ready", "spawn")
  /\ \/ /\ parentOpen
        /\ wire' = Append(wire, ReadyFrame)
        /\ Launcher("ReadyPublished")
     \/ /\ Returns(ApplyFailure(lc, "Launcher", "ControlChannelFailed"))
        /\ UNCHANGED wire
  /\ UNCHANGED <<win32, hasProcess, exitKnown, disposed, terminateAttempted,
                 terminal, failed, changed, reader, wpc, inbox, sent, parentOpen,
                 kernel>>

StartRootWaiter ==
  /\ Goto("spawn", "drain")
  /\ wpc' = IF hasProcess THEN "wait" ELSE wpc
  /\ UNCHANGED <<session, terminateAttempted, terminal, failed, changed, reader,
                 pipe, kernel>>

-----------------------------------------------------------------------------
(* The coordinator: DrainOwnedJob *)

RequiresTermination == HasDisposition(lc) \/ lc.rootWasCompleted

(* Nothing was created: the Job is empty at once. *)
DrainWithoutProcess ==
  /\ Goto("drain", "exitcode")
  /\ ~hasProcess
  /\ CleanupJobZero
  /\ UNCHANGED <<win32, hasProcess, exitKnown, disposed, terminateAttempted,
                 terminal, failed, changed, reader, wpc, pipe, kernel>>

(* The head of the loop reads the lifecycle once and decides on that value. *)
DrainDecide ==
  /\ pc = "drain" /\ hasProcess
  /\ pc' = IF lc.jobWasZero
             THEN IF lc.rootWasCompleted \/ HasFailed(lc) THEN "exitcode" ELSE "wait"
             ELSE IF ~RequiresTermination THEN "wait"
             ELSE IF terminateAttempted THEN "query" ELSE "terminate"
  /\ UNCHANGED <<session, terminateAttempted, terminal, failed, changed, reader,
                 wpc, pipe, kernel>>

WaitForChange ==
  /\ Goto("wait", "drain")
  /\ changed /\ changed' = FALSE
  /\ UNCHANGED <<session, terminateAttempted, terminal, failed, reader, wpc,
                 pipe, kernel>>

TerminateOwnedJob ==
  /\ Goto("terminate", "query")
  /\ terminateAttempted' = TRUE
  /\ doomed' = TRUE
  /\ UNCHANGED <<session, terminal, failed, changed, reader, wpc, pipe,
                 job, root, kids>>

(* A native failure of the cleanup owner leaves the normal path: RunCore   *)
(* goes to its catch clause, which still tries to seal and to write.       *)
CleanupFails(stage) ==
  /\ Returns(ApplyFailure(lc, "CleanupOwner", stage))
  /\ IF HasFailed(lc) THEN UNCHANGED win32 ELSE RecordFirstWin32Code(stage)
  /\ failed' = TRUE
  /\ pc' = "seal"
  /\ UNCHANGED <<hasProcess, exitKnown, disposed, terminal, changed, reader, wpc,
                 pipe, kernel>>

TerminateOwnedJobFails ==
  /\ pc = "terminate"
  /\ terminateAttempted' = TRUE
  /\ CleanupFails("TerminateJobFailed")

QueryActiveProcesses ==
  /\ pc = "query"
  /\ pc' = IF JobEmpty THEN "zero" ELSE "poll"
  /\ UNCHANGED <<session, terminateAttempted, terminal, failed, changed, reader,
                 wpc, pipe, kernel>>

QueryActiveProcessesFails ==
  /\ pc = "query"
  /\ CleanupFails("QueryJobFailed")
  /\ UNCHANGED terminateAttempted

RecordJobZero ==
  /\ Goto("zero", "after")
  /\ CleanupJobZero
  /\ UNCHANGED <<win32, hasProcess, exitKnown, disposed, terminateAttempted,
                 terminal, failed, changed, reader, wpc, pipe, kernel>>

AfterZero ==
  /\ pc = "after"
  /\ pc' = IF ~lc.rootWasCompleted /\ ~HasFailed(lc) THEN "wait" ELSE "exitcode"
  /\ UNCHANGED <<session, terminateAttempted, terminal, failed, changed, reader,
                 wpc, pipe, kernel>>

(* WaitOne(50 ms): ends with the event or with the timeout. *)
PollInterval ==
  /\ Goto("poll", "drain")
  /\ changed' = FALSE
  /\ UNCHANGED <<session, terminateAttempted, terminal, failed, reader, wpc,
                 pipe, kernel>>

-----------------------------------------------------------------------------
(* The coordinator: terminal frame and shutdown *)

\* Mutant: the exit code is never read.
SkipRootExitCode ==
  /\ Goto("exitcode", "seal")
  /\ UNCHANGED <<session, terminateAttempted, terminal, failed, changed, reader,
                 wpc, pipe, kernel>>

ReadRootExitCode ==
  /\ Goto("exitcode", "seal")
  /\ exitKnown' = lc.rootWasCompleted
  /\ UNCHANGED <<lc, win32, hasProcess, disposed, terminateAttempted, terminal,
                 failed, changed, reader, wpc, pipe, kernel>>

ReadRootExitCodeFails ==
  /\ pc = "exitcode" /\ lc.rootWasCompleted
  /\ CleanupFails("HelperInternal")
  /\ UNCHANGED terminateAttempted

SealEvent == IF HasFailed(lc) THEN "SealError" ELSE "SealExit"
SealOutcome == Apply(lc, "TerminalWriter", SealEvent)

\* Mutant: the snapshot is taken without sealing the lifecycle.
ReserveUnsealed ==
  /\ Goto("seal", "write")
  /\ SealOutcome # {}
  /\ terminal' = IF HasFailed(lc)
                   THEN ErrorFrame(lc.failureStage, lc.stopReason, win32)
                   ELSE ExitFrame(lc.stopReason, exitKnown)
  /\ UNCHANGED <<session, terminateAttempted, failed, changed, reader, wpc, pipe,
                 kernel>>

(* TryReserveTerminal; a seal the lifecycle refuses throws, and no terminal *)
(* frame is ever written.                                                  *)
TryReserveTerminal ==
  /\ pc = "seal"
  /\ \/ /\ Returns(SealOutcome)
        /\ terminal' = IF HasFailed(lc)
                         THEN ErrorFrame(lc.failureStage, lc.stopReason, win32)
                         ELSE ExitFrame(lc.stopReason, exitKnown)
        /\ pc' = "write"
        /\ UNCHANGED failed
     \/ /\ SealOutcome = {}
        /\ failed' = TRUE
        /\ pc' = "shutdown"
        /\ UNCHANGED <<lc, terminal>>
  /\ UNCHANGED <<win32, hasProcess, exitKnown, disposed, terminateAttempted,
                 changed, reader, wpc, pipe, kernel>>

(* WriteTerminal: written and flushed, written and not flushed, or neither. *)
WriteTerminal ==
  /\ Goto("write", "shutdown")
  /\ \/ /\ parentOpen
        /\ wire' = Append(wire, terminal)
        /\ failed' \in {TRUE, failed \/ terminal.kind = "ERROR"}
     \/ UNCHANGED wire /\ failed' = TRUE
  /\ UNCHANGED <<session, terminateAttempted, terminal, changed, reader, wpc,
                 inbox, sent, parentOpen, kernel>>

(* ShutdownAfterTerminal retires the pending read, or fails to. *)
ShutdownAfterTerminal ==
  /\ Goto("shutdown", "dispose")
  /\ rpc' = IF rpc = "read" THEN "stopped" ELSE rpc
  /\ failed' \in {failed, TRUE}
  /\ UNCHANGED <<session, terminateAttempted, terminal, changed, rbuf, wpc, pipe,
                 kernel>>

\* Mutant: the Job handle outlives the session.
DisposeKeepingJob ==
  /\ pc = "dispose"
  /\ disposed' = TRUE
  /\ pc' = IF hasProcess THEN "reap" ELSE "done"
  /\ hasProcess' = FALSE
  /\ UNCHANGED <<lc, win32, exitKnown, terminateAttempted, terminal, failed,
                 changed, reader, wpc, pipe, kernel>>

(* Dispose closes the Job handle: KILL_ON_JOB_CLOSE dooms what is left. *)
Dispose ==
  /\ pc = "dispose"
  /\ disposed' = TRUE
  /\ job' = IF job = "open" THEN "closed" ELSE job
  /\ doomed' = (doomed \/ job = "open")
  /\ pc' = IF hasProcess THEN "reap" ELSE "done"
  /\ hasProcess' = FALSE
  /\ UNCHANGED <<lc, win32, exitKnown, terminateAttempted, terminal, failed,
                 changed, reader, wpc, pipe, root, kids>>

(* ... and waits for the root without a time limit. *)
ReapRoot ==
  /\ Goto("reap", "done")
  /\ root = "exited"
  /\ UNCHANGED <<session, terminateAttempted, terminal, failed, changed, reader,
                 wpc, pipe, kernel>>

-----------------------------------------------------------------------------
(* The control reader *)

ReaderMay(at) == HelperRuns /\ rpc = at

ReadChunk ==
  /\ ReaderMay("read")
  /\ \E n \in 1..Len(inbox) :
       /\ inbox' = SubSeq(inbox, n + 1, Len(inbox))
       /\ IF AllTerminates(Chunk(n))
            THEN rpc' = "apply" /\ rbuf' = TerminateEvents(Chunk(n))
            ELSE rpc' = "fail" /\ rbuf' = <<"ProtocolError">>
  /\ UNCHANGED <<session, coord, changed, wpc, sent, parentOpen, wire, kernel>>

(* End of file, or an I/O failure of the read: both are reported alike. *)
ReadEnds ==
  /\ ReaderMay("read")
  /\ rpc' = "fail" /\ rbuf' = <<"ControlEof">>
  /\ UNCHANGED <<session, coord, changed, wpc, pipe, kernel>>

ReadEof == AtEof /\ ReadEnds
ReadIoFails == ReadEnds

(* OnTerminate and OnChannelFailure: the event under the gate, then Set.   *)
(* Once the session is disposed both throw, and nothing happens.           *)
ReportEvent ==
  /\ ReaderMay(rpc) /\ rpc \in {"apply", "fail"} /\ GateFree
  /\ IF disposed THEN UNCHANGED lc
                 ELSE Returns(Apply(lc, "ControlReader", Head(rbuf)))
  /\ rbuf' = Tail(rbuf)
  /\ rpc' = IF rpc = "apply" THEN "set" ELSE "failset"
  /\ UNCHANGED <<win32, hasProcess, exitKnown, disposed, coord, changed, wpc,
                 pipe, kernel>>

\* Mutant: OnChannelFailure does not set the event.
SignalTerminateOnly ==
  /\ ReaderMay(rpc) /\ rpc \in {"set", "failset"}
  /\ changed' = (changed \/ rpc = "set")
  /\ rpc' = CASE rpc = "failset" -> "stopped"
              [] rpc = "set" /\ rbuf # <<>> -> "apply"
              [] rpc = "set" /\ rbuf = <<>> -> IF ShuttingDown THEN "stopped" ELSE "read"
  /\ UNCHANGED <<session, coord, rbuf, wpc, pipe, kernel>>

SignalChange ==
  /\ ReaderMay(rpc) /\ rpc \in {"set", "failset"}
  /\ changed' = TRUE
  /\ rpc' = CASE rpc = "failset" -> "stopped"
              [] rpc = "set" /\ rbuf # <<>> -> "apply"
              [] rpc = "set" /\ rbuf = <<>> -> IF ShuttingDown THEN "stopped" ELSE "read"
  /\ UNCHANGED <<session, coord, rbuf, wpc, pipe, kernel>>

-----------------------------------------------------------------------------
(* The root waiter *)

RootWaitReturns ==
  /\ HelperRuns /\ wpc = "wait" /\ root = "exited"
  /\ wpc' = "completed"
  /\ UNCHANGED <<session, coord, changed, reader, pipe, kernel>>

RootWaitFails ==
  /\ HelperRuns /\ wpc = "wait"
  /\ wpc' = "failed"
  /\ UNCHANGED <<session, coord, changed, reader, pipe, kernel>>

ReportRoot ==
  /\ HelperRuns /\ wpc \in {"completed", "failed"}
  /\ IF disposed THEN UNCHANGED <<lc, win32>>
     ELSE IF wpc = "completed"
            THEN Returns(Apply(lc, "RootWaiter", "RootCompleted")) /\ UNCHANGED win32
            ELSE /\ Returns(ApplyFailure(lc, "RootWaiter", "WaitFailed"))
                 /\ RecordFirstWin32Code("WaitFailed")
  /\ wpc' = "set"
  /\ UNCHANGED <<hasProcess, exitKnown, disposed, coord, changed, reader, pipe,
                 kernel>>

SignalRoot ==
  /\ HelperRuns /\ wpc = "set"
  /\ changed' = TRUE
  /\ wpc' = "stopped"
  /\ UNCHANGED <<session, coord, reader, pipe, kernel>>

-----------------------------------------------------------------------------
(* The parent, the target's processes and the death of the helper *)

ParentWrites ==
  /\ parentOpen /\ sent < MaxFrames
  /\ \E frame \in InFrames : inbox' = Append(inbox, frame)
  /\ sent' = sent + 1
  /\ UNCHANGED <<session, coord, changed, reader, wpc, parentOpen, wire, kernel>>

ParentCloses ==
  /\ parentOpen /\ parentOpen' = FALSE
  /\ UNCHANGED <<session, coord, changed, reader, wpc, inbox, sent, wire, kernel>>

(* A process of the Job starts another one; a doomed Job starts no more.   *)
Spawn ==
  /\ root = "running" \/ kids > 0
  /\ ~doomed /\ kids < MaxKids
  /\ kids' = kids + 1
  /\ UNCHANGED <<session, coord, changed, reader, wpc, pipe, job, root, doomed>>

RootExits ==
  /\ root = "running" /\ root' = "exited"
  /\ UNCHANGED <<session, coord, changed, reader, wpc, pipe, job, kids, doomed>>

KidExits ==
  /\ kids > 0 /\ kids' = kids - 1
  /\ UNCHANGED <<session, coord, changed, reader, wpc, pipe, job, root, doomed>>

(* The kernel carries out a kill of the Job, one process at a time. *)
KernelKillsRoot ==
  /\ doomed /\ RootAlive /\ root' = "exited"
  /\ UNCHANGED <<session, coord, changed, reader, wpc, pipe, job, kids, doomed>>

KernelKillsKid == doomed /\ KidExits

(* The helper is killed: the kernel closes its handles, the Job's too. *)
HelperKilled ==
  /\ HelperRuns /\ pc' = "killed"
  /\ job' = IF job = "open" THEN "closed" ELSE job
  /\ doomed' = (doomed \/ job = "open")
  /\ UNCHANGED <<session, terminateAttempted, terminal, failed, changed, reader,
                 wpc, pipe, root, kids>>

-----------------------------------------------------------------------------

(* Steps the scheduler and the kernel owe: every step of a thread that is  *)
(* ready to run, but no spontaneous failure of a pending read or wait.     *)
Launch == \/ ReadLaunchConfig \/ ReadLaunchConfigEof \/ StartReader
          \/ LaunchAbandoned \/ PrepareJob \/ BeginCreate
          \/ CreateProcess \/ CreateProcessFails \/ PublishProcess
          \/ CheckAssigned \/ ResumeRoot \/ PublishReady \/ StartRootWaiter
Drain == \/ DrainWithoutProcess \/ DrainDecide \/ WaitForChange
         \/ TerminateOwnedJob \/ TerminateOwnedJobFails
         \/ QueryActiveProcesses \/ QueryActiveProcessesFails
         \/ RecordJobZero \/ AfterZero \/ PollInterval
Finish == \/ ReadRootExitCode \/ ReadRootExitCodeFails \/ TryReserveTerminal
          \/ WriteTerminal \/ ShutdownAfterTerminal \/ Dispose \/ ReapRoot
Coordinator == Launch \/ Drain \/ Finish
ControlReader == ReadChunk \/ ReadEof \/ ReportEvent \/ SignalChange
RootWaiter == RootWaitReturns \/ ReportRoot \/ SignalRoot
KernelKills == KernelKillsRoot \/ KernelKillsKid

(* Steps nobody owes: the parent's, the target's, and failures. *)
Parent == ParentWrites \/ ParentCloses
Target == Spawn \/ RootExits \/ KidExits
Fault == ReadLaunchConfigIoFails \/ ReadIoFails \/ RootWaitFails \/ HelperKilled

Ended == ~HelperRuns /\ UNCHANGED vars

Next == Coordinator \/ ControlReader \/ RootWaiter \/ KernelKills
          \/ Parent \/ Target \/ Fault \/ Ended

Fairness == /\ WF_vars(Coordinator) /\ WF_vars(ControlReader)
            /\ WF_vars(RootWaiter) /\ WF_vars(KernelKills)

Spec == Init /\ [][Next]_vars
FairSpec == Spec /\ Fairness

-----------------------------------------------------------------------------
(* Safety *)

(* No thread but the terminal writer ever meets LifecycleViolationException: *)
(* the call each is about to make under the gate is one the lifecycle       *)
(* accepts in whatever state the other threads have left it (an exception   *)
(* on the reader's thread would take the helper down).                      *)
NoLifecycleViolation ==
  HelperRuns =>
    /\ rpc \in {"apply", "fail"} => Apply(lc, "ControlReader", Head(rbuf)) # {}
    /\ wpc = "completed" => Apply(lc, "RootWaiter", "RootCompleted") # {}
    /\ wpc = "failed" => ApplyFailure(lc, "RootWaiter", "WaitFailed") # {}
    /\ pc = "creating" => /\ Apply(lc, "Launcher", "CreateSucceeded") # {}
                          /\ Apply(lc, "Launcher", "CreateFailed") # {}
    /\ pc = "publish" => Apply(lc, "Launcher", "CreateSucceeded") # {}
    /\ pc = "ready" => /\ Apply(lc, "Launcher", "ReadyPublished") # {}
                       /\ ApplyFailure(lc, "Launcher", "ControlChannelFailed") # {}
    /\ pc \in {"terminate", "query"} =>
         \A stage \in UnrecoverableCleanupStages :
           ApplyFailure(lc, "CleanupOwner", stage) # {}
    /\ pc = "zero" \/ (pc = "drain" /\ ~hasProcess) =>
         Apply(lc, "CleanupOwner", "JobZero") # {}
    /\ pc = "exitcode" /\ lc.rootWasCompleted =>
         ApplyFailure(lc, "CleanupOwner", "HelperInternal") # {}

(* What the lifecycle has recorded is true of the kernel and stays true:    *)
(* after job-zero no process of the Job is alive, after root-completed the  *)
(* root has exited.                                                         *)
RecordedDrainIsReal ==
  /\ lc.jobWasZero => JobEmpty
  /\ lc.rootWasCompleted => root = "exited"

(* EXIT is written only when the Job is empty, after READY, with the exit   *)
(* code that was read from the root, and never with the reason of a         *)
(* protocol failure, which the parent's decoder would refuse.               *)
ExitIsEarned ==
  \A i \in DOMAIN wire : wire[i].kind = "EXIT" =>
    /\ JobEmpty /\ wire[i].codeKnown
    /\ i = 2 /\ wire[1] = ReadyFrame
    /\ wire[i].reason # "ProtocolError"

(* The helper writes READY at most once, at most one terminal frame, and no *)
(* terminal frame before READY once the root has run.                       *)
WireIsWellFormed ==
  \/ wire = <<>>
  \/ wire = <<ReadyFrame>>
  \/ Len(wire) = 2 /\ wire[1] = ReadyFrame /\ wire[2] \in TerminalFrames
  \/ Len(wire) = 1 /\ wire[1] \in ErrorFrames /\ root # "running" /\ ~lc.wasResumed

(* Every process of the Job is doomed once the helper is gone, however it   *)
(* ended: no target outlives its owner.                                     *)
NoOrphan == ~HelperRuns => JobEmpty \/ doomed

(* Exit code 0 of the helper means exactly one thing to the parent: EXIT    *)
(* was written and nothing of the target is left.                           *)
SuccessMeansExit ==
  pc = "done" /\ ~failed => /\ JobEmpty
                            /\ wire # <<>> /\ wire[Len(wire)] \in ExitFrames

(* "Cancelled before ready" is reported only of a target that never ran.    *)
CancelledBeforeReadyNeverRan ==
  lc.failureStage = "CancelledBeforeReady" => ~lc.wasResumed /\ root # "running"

(* A reserved terminal frame keeps stating what the lifecycle holds: no     *)
(* stop or failure that arrives between the seal and the end of the helper  *)
(* is accepted and then missing from the frame, and a Win32 code in it is   *)
(* the code of the stage it names, not of a failure that came second.       *)
TerminalStatesDisposition ==
  terminal # NoFrame =>
    /\ terminal.reason = lc.stopReason
    /\ IF terminal.kind = "ERROR"
         THEN terminal.stage = lc.failureStage /\ terminal.win32 \in {"None", terminal.stage}
         ELSE ~HasFailed(lc)

(* After the Job is empty the helper still tries to write the terminal      *)
(* frame, unless READY itself could not be written (design of 2026-07-31,   *)
(* section 4.3): it never ends without having reserved one.                 *)
TerminalAttempted ==
  pc = "done" /\ ReadyBarrierPassed(lc) => terminal # NoFrame

-----------------------------------------------------------------------------
(* Refinement: the helper implements OwnedTarget. *)

Reported(frames) == \E i \in DOMAIN wire : wire[i] \in frames

TargetTree == IF root = "none" THEN "absent" ELSE IF JobEmpty THEN "empty"
              ELSE IF lc.wasResumed THEN "alive" ELSE "held"
ReportedVerdict == IF Reported(ExitFrames) THEN "exit"
                   ELSE IF Reported(ErrorFrames) THEN "error" ELSE "none"
Ownership == IF HelperRuns THEN "present" ELSE "gone"

Contract == INSTANCE OwnedTarget WITH
  tree    <- TargetTree,
  ran     <- lc.wasResumed,
  ready   <- Reported({ReadyFrame}),
  verdict <- ReportedVerdict,
  owner   <- Ownership,
  kill    <- doomed

(* Seen from its parent the helper is the owner OwnedTarget describes: it   *)
(* never reports EXIT of a living tree, never runs a condemned one, reports *)
(* once, and when it is gone the tree is condemned and in the end empty.    *)
OwnedTargetContract == Contract!FairSpec

FrameOnWire(frame) == IF frame.kind = "EXIT" THEN [kind |-> "EXIT", reason |-> frame.reason]
                                             ELSE [kind |-> frame.kind]
FramesOnWire == [i \in DOMAIN wire |-> FrameOnWire(wire[i])]
HelperStatus == IF HelperRuns THEN "runs" ELSE IF pc = "killed" THEN "killed"
                ELSE IF failed THEN "failed" ELSE "zero"
TargetGone == root = "exited" /\ JobEmpty

Wire == INSTANCE HelperWire WITH
  frames  <- FramesOnWire,
  stop    <- lc.stopReason,
  drained <- TargetGone,
  status  <- HelperStatus

(* What the parent sees of the helper is what HelperWire allows: frames in  *)
(* order, EXIT of a drained target only and with the stop that was taken    *)
(* first, status 0 after EXIT only.                                        *)
WireContract == Wire!WireSpec

-----------------------------------------------------------------------------
(* Actions *)

(* The first stop reason, the first failure and the first cleanup owner are *)
(* never replaced.                                                          *)
FirstDispositionWins ==
  [][/\ lc.stopReason # "NoneOrRootExit" => lc'.stopReason = lc.stopReason
     /\ HasFailed(lc) => lc'.failureStage = lc.failureStage
     /\ lc.owner # "None" => lc'.owner = lc.owner]_vars

(* A stop latched while the root is not running keeps it from ever running. *)
LatchedStopNeverResumes ==
  [][HasDisposition(lc) /\ root # "running" => root' # "running"]_vars

-----------------------------------------------------------------------------
(* Liveness, under FairSpec *)

(* Losing the parent ends the helper, and so does the exit of the root,     *)
(* whatever its descendants do, and a stop or failure once latched: no      *)
(* wake-up of the coordinator is lost (SessionCoordinator.cs:217-236).      *)
HelperEnds ==
  ~parentOpen \/ root = "exited" \/ HasDisposition(lc) ~> ~HelperRuns

=============================================================================
