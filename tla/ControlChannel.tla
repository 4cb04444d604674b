---------------------------- MODULE ControlChannel ----------------------------
(***************************************************************************)
(* native/windows-job-helper/src/ControlChannel.cs: the reads of the control *)
(* pipe, which JobHelper takes as one step each.  The kernel fills a buffer *)
(* by itself while the reader thread waits on an event; the main thread     *)
(* takes the read away from it and closes the pipe when the terminal frame  *)
(* has been written.  A call that uses memory, an event or the pipe lasts   *)
(* from one step to another, so that using what is gone is a state.         *)
(* readGate is held while the reader is "submitting" or "copying".          *)
(***************************************************************************)
EXTENDS Naturals

CONSTANT MaxReads   \* the parent has nothing more to say after MaxReads - 1

ASSUME ReadsAssumption == MaxReads \in Nat \ {0}

Reads == 1..MaxReads
NoRead == 0

VARIABLES
  operation,     \* PendingControlOperation, for every read
  pendingRead,   \* the operation that is published
  shuttingDown,
  pipeOpen,      \* handle
  readerAt,      \* the point in ReadLoop
  reading,       \* its operation
  reported,      \* a failure or the end of the pipe was reported to the coordinator
  closerAt,      \* the point in ShutdownAfterTerminal
  retiring,      \* its operation
  abandoned      \* the system refused to take the read back

channelVars == <<operation, pendingRead, shuttingDown, pipeOpen, readerAt, reading,
                 reported, closerAt, retiring, abandoned>>

NoOperation ==
  [inKernel |-> FALSE, cancelled |-> FALSE, wasPending |-> FALSE, retired |-> FALSE,
   disposed |-> FALSE, memory |-> FALSE, event |-> FALSE, leases |-> 0]

ChannelInit ==
  /\ operation = [n \in Reads |-> NoOperation] /\ pendingRead = NoRead
  /\ shuttingDown = FALSE /\ pipeOpen = TRUE
  /\ readerAt = "top" /\ reading = NoRead /\ reported = FALSE
  /\ closerAt = "working" /\ retiring = NoRead /\ abandoned = FALSE

-----------------------------------------------------------------------------
(* PendingControlOperation *)

Allocated == [NoOperation EXCEPT !.memory = TRUE, !.event = TRUE]
AcquireEventLease(op) == [op EXCEPT !.leases = @ + 1]
ReleaseEventLease(op) ==
  [op EXCEPT !.leases = @ - 1, !.event = @ /\ (op.disposed => op.leases > 1)]
MarkRetired(op) == [op EXCEPT !.retired = TRUE]

(* Mutant: the event is closed under a reader that still waits on it. *)
DisposeAtOnce(op) ==
  IF op.disposed \/ (op.wasPending /\ ~op.retired)
  THEN op
  ELSE [op EXCEPT !.disposed = TRUE, !.memory = FALSE, !.event = FALSE]

(* A read that was pending and is not retired refuses and keeps everything. *)
Dispose(op) ==
  IF op.disposed \/ (op.wasPending /\ ~op.retired)
  THEN op
  ELSE [op EXCEPT !.disposed = TRUE, !.memory = FALSE, !.event = @ /\ op.leases > 0]

Change(n, op) == operation' = [operation EXCEPT ![n] = op]

-----------------------------------------------------------------------------
(* The reader *)

GateFree == readerAt \notin {"submitting", "copying"}

UnchangedByReader == UNCHANGED <<shuttingDown, pipeOpen, closerAt, retiring, abandoned>>

NextRead == reading + 1

Submit ==
  /\ readerAt = "top"
  /\ \/ /\ shuttingDown
        /\ readerAt' = "ended" /\ UNCHANGED <<operation, reading>>
     \/ /\ ~shuttingDown /\ NextRead \in Reads
        /\ readerAt' = "submitting" /\ reading' = NextRead
        /\ Change(NextRead, Allocated)
     \/ /\ ~shuttingDown /\ NextRead \in Reads     \* no event or no memory
        /\ readerAt' = "failed" /\ UNCHANGED <<operation, reading>>
  /\ UNCHANGED <<pendingRead, reported>> /\ UnchangedByReader

Submitted ==
  LET op == operation[reading] IN
  /\ readerAt = "submitting"
  /\ \/ /\ readerAt' = "waiting" /\ pendingRead' = reading
        /\ Change(reading,
                  AcquireEventLease([op EXCEPT !.wasPending = TRUE, !.inKernel = TRUE]))
     \/ /\ readerAt' = "signalled" /\ pendingRead' = reading
        /\ UNCHANGED operation
     \/ /\ readerAt' = "failed" /\ Change(reading, Dispose(op))
        /\ UNCHANGED pendingRead
  /\ UNCHANGED <<reading, reported>> /\ UnchangedByReader

(* WaitForSingleObject returns, of the signal or of a failure. *)
WaitEnds ==
  LET op == operation[reading] IN
  /\ readerAt = "waiting"
  /\ \/ ~op.inKernel /\ readerAt' = "signalled"
     \/ readerAt' = "failed"
  /\ Change(reading, ReleaseEventLease(op))
  /\ UNCHANGED <<pendingRead, reading, reported>> /\ UnchangedByReader

Take ==
  /\ readerAt = "signalled"
  /\ readerAt' = IF pendingRead = reading THEN "copying" ELSE "ended"
  /\ UNCHANGED <<operation, pendingRead, reading, reported>> /\ UnchangedByReader

(* Bytes for the decoder, the end of the pipe or a frame that does not decode, *)
(* or a read that failed.                                                       *)
Copied ==
  /\ readerAt = "copying"
  /\ Change(reading, Dispose(MarkRetired(operation[reading])))
  /\ pendingRead' = NoRead
  /\ \/ readerAt' \in {"top", "failed"} /\ UNCHANGED reported
     \/ readerAt' = "ended" /\ reported' = TRUE
  /\ UNCHANGED reading /\ UnchangedByReader

ReportFailure ==
  /\ readerAt = "failed" /\ readerAt' = "ended"
  /\ reported' = (reported \/ ~shuttingDown)
  /\ UNCHANGED <<operation, pendingRead, reading>> /\ UnchangedByReader

-----------------------------------------------------------------------------
(* ShutdownAfterTerminal, in the main thread.  Dispose calls it again, which *)
(* finds shuttingDown and returns.                                           *)

UnchangedByCloser == UNCHANGED <<readerAt, reading, reported>>

ShutdownAfterTerminal ==
  /\ closerAt = "working" /\ GateFree
  /\ shuttingDown' = TRUE
  /\ retiring' = pendingRead /\ pendingRead' = NoRead
  /\ closerAt' = IF pendingRead = NoRead THEN "closing" ELSE "retiring"
  /\ UNCHANGED <<operation, pipeOpen, abandoned>> /\ UnchangedByCloser

(* RetirePendingRead, of a read that ended at once *)
RetireCompleted ==
  LET op == operation[retiring] IN
  /\ closerAt = "retiring" /\ ~op.wasPending
  /\ Change(retiring, Dispose(MarkRetired(op)))
  /\ closerAt' = "closing"
  /\ UNCHANGED <<pendingRead, shuttingDown, pipeOpen, retiring, abandoned>> /\ UnchangedByCloser

(* CancelIoEx; that it finds nothing to cancel is no failure. *)
CancelRead ==
  LET op == operation[retiring] IN
  /\ closerAt = "retiring" /\ op.wasPending
  /\ \/ /\ closerAt' = "awaiting" /\ Change(retiring, [op EXCEPT !.cancelled = op.inKernel])
        /\ UNCHANGED abandoned
     \/ /\ closerAt' = "closing" /\ abandoned' = TRUE
        /\ UNCHANGED operation
  /\ UNCHANGED <<pendingRead, shuttingDown, pipeOpen, retiring>> /\ UnchangedByCloser

AwaitCancelled ==
  /\ closerAt = "awaiting"
  /\ \/ ~operation[retiring].inKernel /\ closerAt' = "querying" /\ UNCHANGED abandoned
     \/ closerAt' = "closing" /\ abandoned' = TRUE
  /\ UNCHANGED <<operation, pendingRead, shuttingDown, pipeOpen, retiring>>
  /\ UnchangedByCloser

(* Whatever GetOverlappedResult says, the kernel is done with the buffer. *)
Retire ==
  /\ closerAt = "querying" /\ closerAt' = "closing"
  /\ Change(retiring, Dispose(MarkRetired(operation[retiring])))
  /\ UNCHANGED <<pendingRead, shuttingDown, pipeOpen, retiring, abandoned>> /\ UnchangedByCloser

ClosePipe ==
  /\ closerAt = "closing" /\ closerAt' = "closed"
  /\ pipeOpen' = FALSE
  /\ UNCHANGED <<operation, pendingRead, shuttingDown, retiring, abandoned>> /\ UnchangedByCloser

-----------------------------------------------------------------------------
(* The kernel fills the buffer, writes the result and signals the event. *)
ReadCompletes ==
  \E n \in Reads :
    /\ operation[n].inKernel /\ (operation[n].cancelled \/ n < MaxReads)
    /\ Change(n, [operation[n] EXCEPT !.inKernel = FALSE])
    /\ UNCHANGED <<pendingRead, reading, readerAt, reported>> /\ UnchangedByReader

ChannelNext ==
  \/ Submit \/ Submitted \/ WaitEnds \/ Take \/ Copied \/ ReportFailure
  \/ ShutdownAfterTerminal \/ RetireCompleted \/ CancelRead \/ AwaitCancelled \/ Retire
  \/ ClosePipe
  \/ ReadCompletes

ChannelSpec == ChannelInit /\ [][ChannelNext]_channelVars

-----------------------------------------------------------------------------
ChannelTypeOK ==
  /\ operation \in [Reads -> [inKernel : BOOLEAN, cancelled : BOOLEAN, wasPending : BOOLEAN,
                              retired : BOOLEAN, disposed : BOOLEAN, memory : BOOLEAN,
                              event : BOOLEAN, leases : {0, 1}]]
  /\ {pendingRead, reading, retiring} \subseteq Reads \cup {NoRead}
  /\ {shuttingDown, pipeOpen, reported, abandoned} \subseteq BOOLEAN
  /\ readerAt \in {"top", "submitting", "waiting", "signalled", "copying", "failed", "ended"}
  /\ closerAt \in {"working", "retiring", "awaiting", "querying", "closing", "closed"}

(* Memory the kernel may write to, or a thread reads, has not been freed; an *)
(* event somebody waits on has not been closed; a call on the pipe finds it   *)
(* open, and a call on an operation finds it whole.                           *)
NothingGoneIsUsed ==
  /\ \A n \in Reads : operation[n].inKernel => operation[n].memory /\ operation[n].event
  /\ readerAt = "waiting" => operation[reading].event
  /\ readerAt \in {"submitting", "copying"} => operation[reading].memory /\ pipeOpen
  /\ closerAt \in {"retiring", "awaiting", "querying"} =>
       operation[retiring].memory /\ operation[retiring].event /\ pipeOpen

(* When the pipe is closed and the system refused nothing, the kernel has no *)
(* read left and every buffer is free, and every event but one that the reader *)
(* still looks at.                                                             *)
NothingIsKept ==
  closerAt = "closed" /\ ~abandoned =>
    \A n \in Reads :
      LET op == operation[n] IN
      /\ ~op.inKernel /\ ~op.memory
      /\ op.event => n = reading /\ readerAt = "waiting"

(* A reader that stops by itself has told the coordinator, who sleeps otherwise. *)
ReaderIsNotSilent == readerAt = "ended" => reported \/ shuttingDown

(* What the two threads and the kernel do to the reads of the pipe is safe,   *)
(* whatever moment the shutdown comes at (ControlChannel.cs:189-224, 226-327). *)
ReadsAreSafe == NothingGoneIsUsed /\ NothingIsKept /\ ReaderIsNotSilent
=============================================================================
