-------------------------- MODULE ControlPipeProofs --------------------------
(***************************************************************************)
(* Theorems about the two ends of the control pipe: the reads of the       *)
(* helper's end (ControlChannel), for every number of reads; the Node      *)
(* wrapper at the other end (OwnedProcess), for every set of streams, of   *)
(* reasons and of rogue frames; and the decoder between the two            *)
(* (FrameDecoder), for every radix, every limit, every traffic that can be *)
(* encoded and every length of a chunk.                                    *)
(***************************************************************************)
EXTENDS OwnedProcess, ControlChannel, FrameDecoder, QueueLemmas

-----------------------------------------------------------------------------
(* The reads of the pipe *)

Operations ==
  [inKernel : BOOLEAN, cancelled : BOOLEAN, wasPending : BOOLEAN, retired : BOOLEAN,
   disposed : BOOLEAN, memory : BOOLEAN, event : BOOLEAN, leases : {0, 1}]

(* A read holds its memory until it is disposed, and is not disposed while  *)
(* the kernel has it; its event outlives the memory for the reader only.    *)
WholeRead(n) ==
  LET op == operation[n] IN
  /\ op.inKernel => op.wasPending /\ ~op.retired /\ op.memory
  /\ op.memory => op.event /\ ~op.disposed
  /\ op.leases = 1 <=> readerAt = "waiting" /\ n = reading
  /\ op.leases = 1 => op.event
  /\ op.event => op.memory \/ (op.disposed /\ op.leases = 1)

(* The memory of a read is held by the thread that submits it, published,   *)
(* or in the hands of the shutdown.                                         *)
Retiring == closerAt \in {"retiring", "awaiting", "querying"}
HeldRead(n) ==
  operation[n].memory => \/ n = reading /\ readerAt = "submitting"
                         \/ n = pendingRead
                         \/ n = retiring /\ (Retiring \/ abandoned)

ReaderState ==
  /\ readerAt \in {"submitting", "waiting", "signalled", "copying"} => reading \in Reads
  /\ readerAt = "submitting" => /\ operation[reading].memory /\ ~operation[reading].wasPending
                                /\ ~operation[reading].retired
  /\ readerAt \in {"signalled", "copying"} => ~operation[reading].inKernel
  /\ readerAt \in {"submitting", "copying"} => ~shuttingDown
  /\ readerAt \in {"waiting", "signalled"} => pendingRead = reading \/ shuttingDown
  /\ readerAt = "copying" => pendingRead = reading
  /\ readerAt \in {"top", "submitting"} => pendingRead = NoRead
  /\ ReaderIsNotSilent

CloserState ==
  /\ shuttingDown <=> closerAt # "working"
  /\ closerAt = "working" => ~abandoned
  /\ pipeOpen <=> closerAt # "closed"
  /\ shuttingDown => pendingRead = NoRead
  /\ pendingRead # NoRead => /\ pendingRead = reading /\ operation[pendingRead].memory
                             /\ ~operation[pendingRead].retired
  /\ Retiring => /\ retiring \in Reads /\ retiring = reading
                 /\ operation[retiring].memory /\ ~operation[retiring].retired
                 /\ ~abandoned
  /\ closerAt = "querying" => ~operation[retiring].inKernel

ReadInv ==
  /\ ChannelTypeOK
  /\ \A n \in Reads : WholeRead(n) /\ HeldRead(n)
  /\ ReaderState
  /\ CloserState

(* What each call does to an operation.                                     *)
LEMMA OperationCalls ==
  ASSUME NEW op \in Operations
  PROVE  /\ Allocated \in Operations
         /\ MarkRetired(op) = [op EXCEPT !.retired = TRUE] /\ MarkRetired(op) \in Operations
         /\ Dispose(op) \in Operations
         /\ Dispose(op).inKernel = op.inKernel /\ Dispose(op).wasPending = op.wasPending
         /\ Dispose(op).retired = op.retired /\ Dispose(op).leases = op.leases
         /\ ~op.disposed /\ (~op.wasPending \/ op.retired) =>
              /\ ~Dispose(op).memory /\ Dispose(op).disposed
              /\ Dispose(op).event <=> op.event /\ op.leases > 0
  BY DEF Operations, Allocated, NoOperation, MarkRetired, Dispose

LEMMA ChannelStep == ReadInv /\ [ChannelNext]_channelVars => ReadInv'
<1> SUFFICES ASSUME ReadInv, [ChannelNext]_channelVars PROVE ReadInv'
  OBVIOUS
<1>0. /\ operation \in [Reads -> Operations]
      /\ pendingRead \in Reads \cup {NoRead} /\ reading \in Reads \cup {NoRead}
      /\ retiring \in Reads \cup {NoRead}
      /\ shuttingDown \in BOOLEAN /\ pipeOpen \in BOOLEAN /\ reported \in BOOLEAN
      /\ abandoned \in BOOLEAN
      /\ readerAt \in {"top", "submitting", "waiting", "signalled", "copying", "failed", "ended"}
      /\ closerAt \in {"working", "retiring", "awaiting", "querying", "closing", "closed"}
  BY DEF ReadInv, ChannelTypeOK, Operations
<1>t. /\ operation' \in [Reads -> Operations]
      /\ pendingRead' \in Reads \cup {NoRead} /\ reading' \in Reads \cup {NoRead}
      /\ retiring' \in Reads \cup {NoRead}
      /\ shuttingDown' \in BOOLEAN /\ pipeOpen' \in BOOLEAN /\ reported' \in BOOLEAN
      /\ abandoned' \in BOOLEAN
      /\ readerAt' \in {"top", "submitting", "waiting", "signalled", "copying", "failed", "ended"}
      /\ closerAt' \in {"working", "retiring", "awaiting", "querying", "closing", "closed"}
      => ChannelTypeOK'
  BY DEF ChannelTypeOK, Operations
<1>r. NoRead \notin Reads /\ Reads \subseteq Nat
  BY DEF NoRead, Reads
<1> USE <1>0, <1>r DEF ReadInv, WholeRead, HeldRead, Retiring, ReaderState, CloserState,
        ReaderIsNotSilent, GateFree, UnchangedByReader, UnchangedByCloser
<1>1. CASE Submit
  <2>1. CASE NextRead \in Reads /\ operation' = [operation EXCEPT ![NextRead] = Allocated]
             /\ readerAt' = "submitting" /\ reading' = NextRead /\ ~shuttingDown
    <3> DEFINE m == NextRead
    <3>1. /\ readerAt = "top" /\ UNCHANGED <<pendingRead, reported, shuttingDown, pipeOpen, closerAt,
                                             retiring, abandoned>>
      BY <1>1 DEF Submit
    <3>2. /\ Allocated \in Operations
          /\ Allocated.memory /\ Allocated.event /\ ~Allocated.disposed /\ ~Allocated.inKernel
          /\ ~Allocated.wasPending /\ ~Allocated.retired /\ Allocated.leases = 0
      BY DEF Allocated, NoOperation, Operations
    <3>3. operation'[m] = Allocated /\ \A n \in Reads \ {m} : operation'[n] = operation[n]
      BY <2>1
    <3>4. \A n \in Reads : ~operation[n].memory
      BY <2>1, <3>1
    <3>5. operation' \in [Reads -> Operations]
      BY <2>1, <3>2
    <3> HIDE DEF m
    <3>6. m \in Reads /\ reading' = m
      BY <2>1 DEF m
    <3>a. ASSUME NEW n \in Reads, n # m PROVE WholeRead(n)' /\ HeldRead(n)'
      <4>1. /\ operation'[n] = operation[n] /\ ~operation[n].memory /\ ~operation[n].inKernel
            /\ operation[n].leases # 1 /\ ~operation[n].event
        BY <3>1, <3>3, <3>4, <3>a
      <4> QED BY <4>1, <2>1, <3>6
    <3>b. ASSUME NEW n \in Reads, n = m PROVE WholeRead(n)' /\ HeldRead(n)'
      <4>1. operation'[n] = Allocated /\ reading' = n
        BY <3>3, <3>6, <3>b
      <4> QED BY <4>1, <2>1, <3>2
    <3>7. \A n \in Reads : WholeRead(n)' /\ HeldRead(n)'
      BY <3>a, <3>b
    <3>8. ReaderState' /\ CloserState'
      BY <2>1, <3>1, <3>2, <3>3, <3>4, <3>6
    <3>9. ChannelTypeOK'
      BY <1>t, <2>1, <3>1, <3>5, <3>6
    <3> QED BY <3>7, <3>8, <3>9
  <2>2. CASE UNCHANGED <<operation, reading>> /\ readerAt' \in {"ended", "failed"}
             /\ (readerAt' = "ended" => shuttingDown)
    <3>1. /\ readerAt = "top" /\ UNCHANGED <<pendingRead, reported, shuttingDown, pipeOpen, closerAt,
                                             retiring, abandoned>>
      BY <1>1 DEF Submit
    <3> QED BY <1>t, <2>2, <3>1
  <2> QED BY <1>1, <2>1, <2>2 DEF Submit, Change
<1>2. CASE Submitted
  <2> DEFINE op == operation[reading]
  <2>0. /\ readerAt = "submitting" /\ reading \in Reads /\ op \in Operations
        /\ op.memory /\ op.event /\ ~op.wasPending /\ ~op.retired /\ ~op.disposed /\ ~op.inKernel
        /\ op.leases = 0
        /\ UNCHANGED <<reading, reported, shuttingDown, pipeOpen, closerAt, retiring, abandoned>>
        /\ ~shuttingDown /\ pendingRead = NoRead
    BY <1>2 DEF Submitted, Operations
  <2>1. ASSUME NEW q \in Operations, operation' = [operation EXCEPT ![reading] = q]
        PROVE  /\ operation'[reading] = q /\ \A n \in Reads \ {reading} : operation'[n] = operation[n]
               /\ operation' \in [Reads -> Operations]
    BY <2>0, <2>1
  <2>2. CASE /\ readerAt' = "waiting" /\ pendingRead' = reading
             /\ operation' = [operation EXCEPT ![reading] =
                   AcquireEventLease([op EXCEPT !.wasPending = TRUE, !.inKernel = TRUE])]
    <3> DEFINE q == AcquireEventLease([op EXCEPT !.wasPending = TRUE, !.inKernel = TRUE])
    <3>1. /\ q \in Operations /\ q.memory /\ q.event /\ q.wasPending /\ ~q.retired /\ ~q.disposed
          /\ q.inKernel /\ q.leases = 1
      <4> DEFINE c == [op EXCEPT !.wasPending = TRUE, !.inKernel = TRUE]
      <4>1. /\ c \in Operations /\ c.memory /\ c.event /\ c.wasPending /\ ~c.retired /\ ~c.disposed
            /\ c.inKernel /\ c.leases = 0
        BY <2>0 DEF Operations
      <4> HIDE DEF c
      <4>2. AcquireEventLease(c) = [c EXCEPT !.leases = 1]
        BY <4>1 DEF AcquireEventLease
      <4>3. [c EXCEPT !.leases = 1] \in Operations
        BY <4>1 DEF Operations
      <4>4. q = [c EXCEPT !.leases = 1]
        BY <4>2 DEF c
      <4> QED BY <4>1, <4>3, <4>4 DEF Operations
    <3>2. /\ operation'[reading] = q /\ \A n \in Reads \ {reading} : operation'[n] = operation[n]
          /\ operation' \in [Reads -> Operations]
      BY <2>1, <2>2, <3>1
    <3> HIDE DEF q, op
    <3>3. \A n \in Reads : WholeRead(n)' /\ HeldRead(n)'
      BY <2>0, <2>2, <3>1, <3>2
    <3>4. ReaderState' /\ CloserState'
      BY <2>0, <2>2, <3>1, <3>2
    <3>5. ChannelTypeOK'
      BY <1>t, <2>0, <2>2, <3>2
    <3> QED BY <3>3, <3>4, <3>5
  <2>3. CASE readerAt' = "signalled" /\ pendingRead' = reading /\ UNCHANGED operation
    BY <1>t, <2>0, <2>3
  <2>4. CASE /\ readerAt' = "failed" /\ operation' = [operation EXCEPT ![reading] = Dispose(op)]
             /\ UNCHANGED pendingRead
    <3> DEFINE q == Dispose(op)
    <3>1. /\ q \in Operations /\ ~q.memory /\ ~q.event /\ ~q.inKernel /\ q.leases = 0
      BY <2>0, OperationCalls
    <3>2. /\ operation'[reading] = q /\ \A n \in Reads \ {reading} : operation'[n] = operation[n]
          /\ operation' \in [Reads -> Operations]
      BY <2>1, <2>4, <3>1
    <3> HIDE DEF q, op
    <3>3. \A n \in Reads : WholeRead(n)' /\ HeldRead(n)'
      BY <2>0, <2>4, <3>1, <3>2
    <3>4. ReaderState' /\ CloserState'
      BY <2>0, <2>4, <3>1, <3>2
    <3>5. ChannelTypeOK'
      BY <1>t, <2>0, <2>4, <3>2
    <3> QED BY <3>3, <3>4, <3>5
  <2> QED BY <1>2, <2>2, <2>3, <2>4 DEF Submitted, Change
<1>3. CASE WaitEnds
  <2> DEFINE op == operation[reading]
             q == ReleaseEventLease(op)
  <2>0. /\ readerAt = "waiting" /\ reading \in Reads /\ op \in Operations /\ op.leases = 1
        /\ UNCHANGED <<pendingRead, reading, reported, shuttingDown, pipeOpen, closerAt, retiring,
                       abandoned>>
        /\ operation' = [operation EXCEPT ![reading] = q]
        /\ \/ ~op.inKernel /\ readerAt' = "signalled"
           \/ readerAt' = "failed"
    BY <1>3 DEF WaitEnds, Change
  <2>1. /\ q \in Operations /\ q.leases = 0 /\ q.memory = op.memory /\ q.inKernel = op.inKernel
        /\ q.wasPending = op.wasPending /\ q.retired = op.retired /\ q.disposed = op.disposed
        /\ q.event <=> op.event /\ ~op.disposed
    <3> DEFINE e == op.event /\ (op.disposed => op.leases > 1)
    <3>1. e \in BOOLEAN /\ (e <=> op.event /\ ~op.disposed)
      BY <2>0
    <3>2. op.leases - 1 = 0
      BY <2>0
    <3>3. q = [op EXCEPT !.leases = op.leases - 1, !.event = e]
      BY Zenon DEF ReleaseEventLease
    <3> HIDE DEF e, q
    <3>4. q = [op EXCEPT !.leases = 0, !.event = e]
      BY <3>2, <3>3
    <3> QED BY <2>0, <3>1, <3>4 DEF Operations
  <2>2. /\ operation'[reading] = q /\ \A n \in Reads \ {reading} : operation'[n] = operation[n]
        /\ operation' \in [Reads -> Operations]
    BY <2>0, <2>1
  <2> HIDE DEF q
  <2>a. ASSUME NEW n \in Reads, n # reading PROVE WholeRead(n)' /\ HeldRead(n)'
    BY <2>0, <2>2, <2>a
  <2>b. ASSUME NEW n \in Reads, n = reading PROVE WholeRead(n)' /\ HeldRead(n)'
    <3>1. operation'[n] = q
      BY <2>2, <2>b
    <3> QED BY <3>1, <2>0, <2>1, <2>b
  <2> HIDE DEF op
  <2>4. \A n \in Reads : WholeRead(n)' /\ HeldRead(n)'
    BY <2>a, <2>b
  <2>5. ReaderState' /\ CloserState'
    BY <2>0, <2>1, <2>2 DEF op
  <2>6. ChannelTypeOK'
    BY <1>t, <2>0, <2>2
  <2> QED BY <2>4, <2>5, <2>6
<1>4. CASE Take
  BY <1>4, <1>t DEF Take
<1>5. CASE Copied
  <2> DEFINE op == operation[reading]
             q == Dispose(MarkRetired(op))
  <2>0. /\ readerAt = "copying" /\ reading \in Reads /\ op \in Operations
        /\ pendingRead = reading /\ op.memory /\ ~op.disposed /\ ~op.inKernel /\ op.leases = 0
        /\ ~shuttingDown
        /\ operation' = [operation EXCEPT ![reading] = q] /\ pendingRead' = NoRead
        /\ UNCHANGED <<reading, shuttingDown, pipeOpen, closerAt, retiring, abandoned>>
        /\ \/ readerAt' \in {"top", "failed"} /\ UNCHANGED reported
           \/ readerAt' = "ended" /\ reported' = TRUE
    BY <1>5 DEF Copied, Change, Operations
  <2>1. /\ q \in Operations /\ ~q.memory /\ ~q.event /\ ~q.inKernel /\ q.leases = 0
    <3>1. /\ MarkRetired(op) \in Operations /\ MarkRetired(op).retired
          /\ ~MarkRetired(op).disposed /\ ~MarkRetired(op).inKernel /\ MarkRetired(op).leases = 0
      BY <2>0 DEF MarkRetired, Operations
    <3> QED BY <3>1, OperationCalls
  <2>2. /\ operation'[reading] = q /\ \A n \in Reads \ {reading} : operation'[n] = operation[n]
        /\ operation' \in [Reads -> Operations]
    BY <2>0, <2>1
  <2> HIDE DEF q, op
  <2>4. \A n \in Reads : WholeRead(n)' /\ HeldRead(n)'
    BY <2>0, <2>1, <2>2
  <2>5. ReaderState' /\ CloserState'
    BY <2>0, <2>1, <2>2
  <2>6. ChannelTypeOK'
    BY <1>t, <2>0, <2>2
  <2> QED BY <2>4, <2>5, <2>6
<1>6. CASE ReportFailure
  <2>1. reported' \in BOOLEAN
    BY <1>6, Zenon DEF ReportFailure
  <2> QED BY <1>6, <1>t, <2>1 DEF ReportFailure
<1>7. CASE ShutdownAfterTerminal
  BY <1>7, <1>t DEF ShutdownAfterTerminal
<1>8. CASE RetireCompleted \/ Retire
  <2> DEFINE op == operation[retiring]
             q == Dispose(MarkRetired(op))
  <2>0. /\ closerAt \in {"retiring", "querying"} /\ closerAt' = "closing"
        /\ operation' = [operation EXCEPT ![retiring] = q]
        /\ UNCHANGED <<pendingRead, shuttingDown, pipeOpen, retiring, abandoned, readerAt, reading,
                       reported>>
        /\ closerAt = "retiring" => ~op.wasPending
    BY <1>8 DEF RetireCompleted, Retire, Change
  <2>1. /\ retiring \in Reads /\ retiring = reading /\ op \in Operations /\ op.memory
        /\ ~op.disposed /\ ~op.inKernel /\ ~abandoned /\ shuttingDown
    BY <2>0
  <2>2. /\ q \in Operations /\ ~q.memory /\ ~q.inKernel /\ q.leases = op.leases /\ q.disposed
        /\ q.event <=> op.event /\ op.leases > 0
    <3>1. /\ MarkRetired(op) \in Operations /\ MarkRetired(op).retired
          /\ ~MarkRetired(op).disposed /\ ~MarkRetired(op).inKernel
          /\ MarkRetired(op).leases = op.leases /\ MarkRetired(op).event = op.event
      BY <2>1 DEF MarkRetired, Operations
    <3> QED BY <3>1, OperationCalls
  <2>3. /\ operation'[retiring] = q /\ \A n \in Reads \ {retiring} : operation'[n] = operation[n]
        /\ operation' \in [Reads -> Operations]
    BY <2>0, <2>1, <2>2
  <2>4. op.leases \in {0, 1}
    BY <2>1 DEF Operations
  <2>5. op.leases = 1 <=> readerAt = "waiting"
    BY <2>1
  <2> HIDE DEF q, op
  <2>a. ASSUME NEW n \in Reads, n # retiring PROVE WholeRead(n)' /\ HeldRead(n)'
    BY <2>0, <2>1, <2>3, <2>a DEF op
  <2>b. ASSUME NEW n \in Reads, n = retiring PROVE WholeRead(n)' /\ HeldRead(n)'
    <3>1. operation'[n] = q
      BY <2>3, <2>b
    <3> QED BY <3>1, <2>0, <2>1, <2>2, <2>4, <2>5, <2>b DEF op
  <2>6. \A n \in Reads : WholeRead(n)' /\ HeldRead(n)'
    BY <2>a, <2>b
  <2>7. ReaderState' /\ CloserState'
    BY <2>0, <2>1, <2>2, <2>3
  <2>8. ChannelTypeOK'
    BY <1>t, <2>0, <2>3
  <2> QED BY <2>6, <2>7, <2>8
<1>9. CASE CancelRead
  <2> DEFINE op == operation[retiring]
             q == [op EXCEPT !.cancelled = op.inKernel]
  <2>0. /\ closerAt = "retiring"
        /\ UNCHANGED <<pendingRead, shuttingDown, pipeOpen, retiring, readerAt, reading, reported>>
        /\ retiring \in Reads /\ op \in Operations
    BY <1>9 DEF CancelRead
  <2>1. CASE closerAt' = "awaiting" /\ operation' = [operation EXCEPT ![retiring] = q]
             /\ UNCHANGED abandoned
    <3>1. /\ q \in Operations /\ q.memory = op.memory /\ q.inKernel = op.inKernel
          /\ q.wasPending = op.wasPending /\ q.retired = op.retired /\ q.disposed = op.disposed
          /\ q.event = op.event /\ q.leases = op.leases
      BY <2>0 DEF Operations
    <3>2. /\ operation'[retiring] = q /\ \A n \in Reads \ {retiring} : operation'[n] = operation[n]
          /\ operation' \in [Reads -> Operations]
      BY <2>0, <2>1, <3>1
    <3> HIDE DEF q, op
    <3>4. \A n \in Reads : WholeRead(n)' /\ HeldRead(n)'
      BY <2>0, <2>1, <3>1, <3>2 DEF op
    <3>5. ReaderState' /\ CloserState'
      BY <2>0, <2>1, <3>1, <3>2 DEF op
    <3>6. ChannelTypeOK'
      BY <1>t, <2>0, <2>1, <3>2
    <3> QED BY <3>4, <3>5, <3>6
  <2>2. CASE closerAt' = "closing" /\ abandoned' = TRUE /\ UNCHANGED operation
    BY <1>t, <2>0, <2>2
  <2> QED BY <1>9, <2>1, <2>2 DEF CancelRead, Change
<1>10. CASE AwaitCancelled
  <2>0. /\ closerAt = "awaiting" /\ closerAt' \in {"querying", "closing"}
        /\ closerAt' = "querying" => ~operation[retiring].inKernel /\ UNCHANGED abandoned
        /\ closerAt' = "closing" => abandoned' = TRUE
        /\ UNCHANGED <<operation, pendingRead, shuttingDown, pipeOpen, retiring, readerAt, reading,
                       reported>>
    BY <1>10 DEF AwaitCancelled
  <2>1. ChannelTypeOK'
    BY <1>t, <2>0
  <2>2. ReaderState'
    BY <2>0
  <2>3. CloserState'
    BY <2>0
  <2>4. \A n \in Reads : WholeRead(n)' /\ HeldRead(n)'
    BY <2>0
  <2> QED BY <2>1, <2>2, <2>3, <2>4
<1>11. CASE ClosePipe
  BY <1>11, <1>t DEF ClosePipe
<1>12. CASE ReadCompletes
  <2>1. PICK m \in Reads : /\ operation[m].inKernel
                           /\ operation' = [operation EXCEPT ![m] = [operation[m] EXCEPT !.inKernel = FALSE]]
    BY <1>12 DEF ReadCompletes, Change
  <2> DEFINE op == operation[m]
             q == [op EXCEPT !.inKernel = FALSE]
  <2>2. UNCHANGED <<pendingRead, reading, readerAt, reported, shuttingDown, pipeOpen, closerAt,
                    retiring, abandoned>>
    BY <1>12 DEF ReadCompletes
  <2>3. /\ q \in Operations /\ q.memory = op.memory /\ ~q.inKernel
        /\ q.wasPending = op.wasPending /\ q.retired = op.retired /\ q.disposed = op.disposed
        /\ q.event = op.event /\ q.leases = op.leases
    BY DEF Operations
  <2>4. /\ operation'[m] = q /\ \A n \in Reads \ {m} : operation'[n] = operation[n]
        /\ operation' \in [Reads -> Operations]
    BY <2>1, <2>3
  <2> HIDE DEF q, op
  <2>5. \A n \in Reads : WholeRead(n)' /\ HeldRead(n)'
    BY <2>2, <2>3, <2>4 DEF op
  <2>6. ReaderState' /\ CloserState'
    BY <2>2, <2>3, <2>4 DEF op
  <2>7. ChannelTypeOK'
    BY <1>t, <2>2, <2>4
  <2> QED BY <2>5, <2>6, <2>7
<1>13. CASE UNCHANGED channelVars
  BY <1>13, <1>t DEF channelVars
<1> QED
  BY <1>1, <1>2, <1>3, <1>4, <1>5, <1>6, <1>7, <1>8, <1>9, <1>10, <1>11, <1>12, <1>13
  DEF ChannelNext

LEMMA ChannelStart == ChannelInit => ReadInv
<1> SUFFICES ASSUME ChannelInit PROVE ReadInv
  OBVIOUS
<1>1. /\ NoOperation \in Operations /\ ~NoOperation.memory /\ ~NoOperation.event
      /\ ~NoOperation.inKernel /\ NoOperation.leases = 0
  BY DEF NoOperation, Operations
<1>2. \A n \in Reads : operation[n] = NoOperation
  BY DEF ChannelInit
<1>3. operation \in [Reads -> Operations]
  BY <1>1 DEF ChannelInit
<1>4. ChannelTypeOK
  BY <1>3 DEF ChannelInit, ChannelTypeOK, Operations
<1>5. \A n \in Reads : WholeRead(n) /\ HeldRead(n)
  BY <1>1, <1>2 DEF WholeRead, HeldRead, ChannelInit
<1>6. ReaderState /\ CloserState
  BY DEF ReaderState, CloserState, Retiring, ReaderIsNotSilent, ChannelInit
<1> QED BY <1>4, <1>5, <1>6 DEF ReadInv

(* Memory, events and the pipe are never used after they are gone, nothing  *)
(* is kept when the pipe is closed unless the system refused to take a read *)
(* back, and the reader never stops in silence (ReadLoop,                   *)
(* ShutdownAfterTerminal, RetirePendingRead).                               *)
THEOREM ReadsStaySafe == ChannelSpec => []ReadsAreSafe
<1>1. ReadInv => ReadsAreSafe
  <2> SUFFICES ASSUME ReadInv PROVE ReadsAreSafe
    OBVIOUS
  <2>0. operation \in [Reads -> Operations]
    BY DEF ReadInv, ChannelTypeOK, Operations
  <2>1. NothingGoneIsUsed
    BY <2>0
    DEF NothingGoneIsUsed, ReadInv, WholeRead, HeldRead, Retiring, ReaderState, CloserState, NoRead,
        Reads, ChannelTypeOK
  <2>2. NothingIsKept
    <3> SUFFICES ASSUME closerAt = "closed", ~abandoned, NEW n \in Reads
                 PROVE  /\ ~operation[n].inKernel /\ ~operation[n].memory
                        /\ operation[n].event => n = reading /\ readerAt = "waiting"
      BY DEF NothingIsKept
    <3>1. n # NoRead /\ pendingRead = NoRead /\ shuttingDown
      BY DEF ReadInv, CloserState, Reads, NoRead
    <3> QED BY <3>1 DEF ReadInv, WholeRead, HeldRead, Retiring, ReaderState
  <2> QED BY <2>1, <2>2 DEF ReadsAreSafe, ReadInv, ReaderState
<1> QED BY ChannelStart, ChannelStep, <1>1, PTL DEF ChannelSpec

-----------------------------------------------------------------------------
(* The wrapper at the other end *)

WireFrames ==
  {ReadyFrame, ErrorFrame, TornFrame, Malformed} \cup {ExitFrame(r) : r \in Reasons}

(* Only a killed helper leaves a torn frame, and nothing follows it.        *)
FramesOK ==
  /\ frames \in Seq(WireFrames)
  /\ \A i \in DOMAIN frames : frames[i] = TornFrame => HasEnded /\ i = Len(frames)

(* The configuration is the first frame, and one that could not be written  *)
(* is followed by nothing.                                                  *)
NoConfig(x) == \A i \in DOMAIN x.writes : x.writes[i] # "config"
ConfigFirst(x) ==
  /\ ~x.configWritten => /\ inbox = <<>> /\ ~configured
                         /\ \/ x.writes = <<"config">> /\ ~x.returned
                            \/ x.writes = <<>> /\ x.failure # "none"
  /\ x.configWritten => NoConfig(x) /\ (~configured => inbox # <<>> /\ inbox[1] = "config")

(* A completion is what CompletionIsProven says of it, for good.            *)
Settled(x, d) ==
  x.closed \notin {"pending", "rejected"} =>
    /\ x.controlEnded /\ x.terminal = ExitFrame(x.closed)
    /\ frames = <<ReadyFrame, ExitFrame(x.closed)>> /\ d = 2
    /\ x.ready = "resolved" /\ status = "zero" /\ x.open = {}
    /\ x.closed \in {"NoneOrRootExit", x.expected}

(* What holds of a wrapper that has heard d frames, whatever has failed.    *)
Whole(x, d) ==
  /\ x \in Wrapper
  /\ x.ready = "rejected" => x.failure # "none"
  /\ x.failure # "none" => x.ready # "pending"
  /\ x.termination = "none" => x.expected = "none"
  /\ x.processClosed => HasEnded
  /\ x.controlEnded => d = Len(frames) /\ (HasEnded \/ Verdict)
  /\ x.decoder = "partial" => HasEnded /\ d = Len(frames)
  /\ Settled(x, d)

(* What a wrapper without a failure has heard.                              *)
Heard(x, d) ==
  /\ ~x.readySeen => d = 0 /\ x.terminal = NoTerminal
  /\ x.readySeen => x.ready = "resolved" /\ d >= 1 /\ frames[1] = ReadyFrame
  /\ x.readySeen /\ x.terminal = NoTerminal => d = 1
  /\ x.terminal # NoTerminal => /\ d = 2 /\ frames[2] = x.terminal
                                /\ x.terminal.reason \in {"NoneOrRootExit", x.expected}

Unfailed(x, d) ==
  x.failure = "none" =>
    /\ x.terminal # ErrorFrame /\ x.decoder # "failed"
    /\ x.controlEnded => x.decoder = "ok"
    /\ x.decoder = "ok" => Heard(x, d)

Good(x, d) == Whole(x, d) /\ Unfailed(x, d)

WrapperInv == TypeOK /\ FramesOK /\ ConfigFirst(w) /\ Good(w, delivered)

(* A helper that keeps to HelperWire writes one terminal frame, and EXIT of *)
(* a drained target only.                                                   *)
FramesSound ==
  \A i \in DOMAIN frames : /\ frames[i] # Malformed
                           /\ frames[i].kind \in {"EXIT", "ERROR"} => i = Len(frames)
                           /\ frames[i].kind = "EXIT" => drained

(* A failure is being cleaned up by a frame that is not the caller's to     *)
(* lose: what the caller's own TERMINATE is worth is known only when it is  *)
(* written.                                                                 *)
UnderWay(x) ==
  \/ x.rescueAttempted \/ HasEnded \/ Verdict \/ drained \/ stop # "NoneOrRootExit"
  \/ \E i \in DOMAIN x.writes : x.writes[i] = "ProtocolError"
  \/ \E i \in DOMAIN inbox : inbox[i] # "config"

Cleaned(x) == x.failure # "none" \/ x.protocolStopAttempted => UnderWay(x)

SoundInv == Sound => FramesSound /\ Cleaned(w)

(* The functions of the closure change the fields of a failure and of its   *)
(* clean-up only.                                                           *)
SameLife(x, y) ==
  /\ y.readySeen = x.readySeen /\ y.terminal = x.terminal /\ y.decoder = x.decoder
  /\ y.controlEnded = x.controlEnded /\ y.controlClosed = x.controlClosed
  /\ y.controlBroken = x.controlBroken /\ y.open = x.open
  /\ y.processClosed = x.processClosed /\ y.configWritten = x.configWritten
  /\ y.returned = x.returned /\ y.expected = x.expected /\ y.termination = x.termination

Failing(x, y) ==
  /\ y.failure # "none"
  /\ x.failure # "none" => y.failure = x.failure /\ y.ready = x.ready
  /\ x.failure = "none" => y.ready = IF x.ready = "pending" THEN "rejected" ELSE x.ready

LEMMA RecordFailureEffect ==
  ASSUME NEW x \in Wrapper, NEW code \in FailureCodes
  PROVE  LET y == RecordFailure(x, code) IN
         /\ y \in Wrapper /\ SameLife(x, y) /\ Failing(x, y)
         /\ x.failure # "none" => y = x
         /\ y.rescueAttempted = x.rescueAttempted
         /\ y.protocolStopAttempted = x.protocolStopAttempted
         /\ y.closed = x.closed /\ y.writes = x.writes
<1>1. CASE x.failure # "none"
  BY <1>1 DEF RecordFailure, SameLife, Failing
<1>2. CASE x.failure = "none"
  <2> DEFINE r == IF x.ready = "pending" THEN "rejected" ELSE x.ready
  <2>1. RecordFailure(x, code) = [x EXCEPT !.failure = code, !.ready = r]
    BY <1>2 DEF RecordFailure, Wrapper
  <2>2. r \in {"pending", "resolved", "rejected"} /\ code # "none"
    BY DEF Wrapper, FailureCodes
  <2> HIDE DEF r
  <2>3. [x EXCEPT !.failure = code, !.ready = r] \in Wrapper
    BY <2>2 DEF Wrapper
  <2> DEFINE y == [x EXCEPT !.failure = code, !.ready = r]
  <2>4. y.failure = code /\ y.ready = r /\ SameLife(x, y)
        /\ y.rescueAttempted = x.rescueAttempted
        /\ y.protocolStopAttempted = x.protocolStopAttempted
        /\ y.closed = x.closed /\ y.writes = x.writes
    BY <2>2 DEF Wrapper, SameLife
  <2> HIDE DEF y
  <2> QED BY <1>2, <2>1, <2>2, <2>3, <2>4 DEF Failing, r, y
<1> QED BY <1>1, <1>2

LEMMA RescueEffect ==
  ASSUME NEW x \in Wrapper
  PROVE  LET y == RescueWithRetainedHandle(x) IN
         /\ y \in Wrapper /\ SameLife(x, y) /\ y.rescueAttempted
         /\ y.failure = x.failure /\ y.ready = x.ready
         /\ y.protocolStopAttempted = x.protocolStopAttempted
         /\ y.closed = x.closed /\ y.writes = x.writes
  BY DEF RescueWithRetainedHandle, Wrapper, SameLife

(* A failure is followed by a stop frame behind the configuration, unless   *)
(* one was asked for before, or by a kill.                                  *)
LEMMA FailAndCleanEffect ==
  ASSUME NEW x \in Wrapper, NEW code \in FailureCodes
  PROVE  LET y == FailAndClean(x, code) IN
         /\ y \in Wrapper /\ SameLife(x, y) /\ Failing(x, y) /\ y.closed = x.closed
         /\ x.rescueAttempted => y.rescueAttempted
         /\ \/ y.writes = x.writes /\ (y.rescueAttempted \/ x.protocolStopAttempted)
            \/ y.writes = Append(x.writes, "ProtocolError") /\ x.configWritten
<1> DEFINE r == RecordFailure(x, code)
           p == [r EXCEPT !.protocolStopAttempted = TRUE]
           q == [p EXCEPT !.writes = Append(@, "ProtocolError")]
<1>1. /\ r \in Wrapper /\ SameLife(x, r) /\ Failing(x, r) /\ r.closed = x.closed
      /\ r.rescueAttempted = x.rescueAttempted /\ r.writes = x.writes
      /\ r.protocolStopAttempted = x.protocolStopAttempted
  BY RecordFailureEffect
<1> HIDE DEF r
<1>2. /\ p \in Wrapper /\ SameLife(r, p) /\ p.failure = r.failure /\ p.ready = r.ready
      /\ p.closed = r.closed /\ p.rescueAttempted = r.rescueAttempted /\ p.writes = r.writes
  BY <1>1 DEF Wrapper, SameLife
<1> HIDE DEF p
<1> DEFINE z == Append(p.writes, "ProtocolError")
<1>3. z \in Seq(OutFrames)
  BY <1>2 DEF Wrapper, OutFrames
<1>z. q = [p EXCEPT !.writes = z]
  OBVIOUS
<1> HIDE DEF z, q
<1>4. /\ q \in Wrapper /\ SameLife(p, q) /\ q.failure = p.failure /\ q.ready = p.ready
      /\ q.closed = p.closed /\ q.rescueAttempted = p.rescueAttempted
      /\ q.writes = z
  BY <1>2, <1>3, <1>z DEF Wrapper, SameLife
<1>5. \/ FailAndClean(x, code) = r /\ r.protocolStopAttempted
      \/ FailAndClean(x, code) = RescueWithRetainedHandle(r)
      \/ FailAndClean(x, code) = RescueWithRetainedHandle(p)
      \/ FailAndClean(x, code) = q /\ r.configWritten
  BY DEF FailAndClean, RequestPrivateProtocolStop, r, p, q, z
<1>6. r.configWritten = x.configWritten
  BY <1>1 DEF SameLife
<1>7. CASE FailAndClean(x, code) = r /\ r.protocolStopAttempted
  BY <1>1, <1>7
<1>8. CASE FailAndClean(x, code) = RescueWithRetainedHandle(r)
  BY <1>1, <1>8, RescueEffect DEF SameLife, Failing
<1>9. CASE FailAndClean(x, code) = RescueWithRetainedHandle(p)
  BY <1>1, <1>2, <1>9, RescueEffect DEF SameLife, Failing
<1>10. CASE FailAndClean(x, code) = q /\ r.configWritten
  <2>1. q.writes = Append(x.writes, "ProtocolError") /\ x.configWritten
    BY <1>1, <1>2, <1>4, <1>6, <1>10 DEF z
  <2>2. SameLife(x, q) /\ q.closed = x.closed /\ q.rescueAttempted = x.rescueAttempted
    BY <1>1, <1>2, <1>4 DEF SameLife
  <2>3. Failing(x, q)
    BY <1>1, <1>2, <1>4 DEF Failing
  <2> QED BY <1>4, <1>10, <2>1, <2>2, <2>3
<1> QED BY <1>5, <1>7, <1>8, <1>9, <1>10

(* closed settles once, when everything is closed: to the reason of an EXIT *)
(* whose status agrees, of a wrapper without a failure, or to a rejection.  *)
LEMMA TrySettleEffect ==
  ASSUME NEW x \in Wrapper, x.terminal = ErrorFrame => x.failure # "none"
  PROVE  LET y == TrySettle(x) IN
         /\ y \in Wrapper /\ SameLife(x, y)
         /\ y.rescueAttempted = x.rescueAttempted /\ y.writes = x.writes
         /\ y.protocolStopAttempted = x.protocolStopAttempted
         /\ \/ y = x
            \/ EverythingClosed(x) /\ x.closed = "pending" /\ y.closed = "rejected" /\ Failing(x, y)
            \/ /\ EverythingClosed(x) /\ x.closed = "pending"
               /\ x.failure = "none" /\ y.failure = "none" /\ y.ready = x.ready
               /\ x.controlEnded /\ status = "zero"
               /\ y.closed \in Reasons /\ x.terminal = ExitFrame(y.closed)
<1> DEFINE a == FailUnless(x, x.controlEnded, "control_failed")
           b == FailUnless(a, x.terminal # NoTerminal, "helper_exit_failed")
           ok == status # "killed" /\ (x.terminal.kind = "EXIT" => status = "zero")
           c == FailUnless(b, ok, "helper_exit_failed")
           f == IF c.failure # "none" THEN "rejected" ELSE c.terminal.reason
<1>1. ASSUME NEW u \in Wrapper, NEW cond \in BOOLEAN, NEW code \in FailureCodes
      PROVE  /\ FailUnless(u, cond, code) \in Wrapper /\ SameLife(u, FailUnless(u, cond, code))
             /\ FailUnless(u, cond, code).rescueAttempted = u.rescueAttempted
             /\ FailUnless(u, cond, code).protocolStopAttempted = u.protocolStopAttempted
             /\ FailUnless(u, cond, code).closed = u.closed
             /\ FailUnless(u, cond, code).writes = u.writes
             /\ \/ cond /\ FailUnless(u, cond, code) = u
                \/ ~cond /\ Failing(u, FailUnless(u, cond, code))
  BY <1>1, RecordFailureEffect DEF FailUnless, SameLife
<1>2. {"control_failed", "helper_exit_failed"} \subseteq FailureCodes
  BY DEF FailureCodes
<1>k. ok \in BOOLEAN /\ x.controlEnded \in BOOLEAN
  <2>1. ok \in BOOLEAN
    OBVIOUS
  <2>2. x.controlEnded \in BOOLEAN
    BY DEF Wrapper
  <2> QED BY <2>1, <2>2
<1>3. /\ a \in Wrapper /\ SameLife(x, a) /\ a.rescueAttempted = x.rescueAttempted
      /\ a.protocolStopAttempted = x.protocolStopAttempted /\ a.closed = x.closed /\ a.writes = x.writes
      /\ (x.controlEnded /\ a = x) \/ (~x.controlEnded /\ Failing(x, a))
  BY <1>1, <1>2, <1>k
<1> HIDE DEF a
<1>4. /\ b \in Wrapper /\ SameLife(a, b) /\ b.rescueAttempted = a.rescueAttempted
      /\ b.protocolStopAttempted = a.protocolStopAttempted /\ b.closed = a.closed /\ b.writes = a.writes
      /\ (x.terminal # NoTerminal /\ b = a) \/ (x.terminal = NoTerminal /\ Failing(a, b))
  <2> DEFINE t == x.terminal # NoTerminal
  <2>1. t \in BOOLEAN
    OBVIOUS
  <2>2. b = FailUnless(a, t, "helper_exit_failed")
    OBVIOUS
  <2> HIDE DEF t, b
  <2>3. /\ b \in Wrapper /\ SameLife(a, b) /\ b.rescueAttempted = a.rescueAttempted
        /\ b.protocolStopAttempted = a.protocolStopAttempted /\ b.closed = a.closed /\ b.writes = a.writes
        /\ (t /\ b = a) \/ (~t /\ Failing(a, b))
    BY <1>1, <1>2, <1>3, <2>1, <2>2
  <2> QED BY <2>3 DEF t
<1> HIDE DEF b, ok
<1>5. /\ c \in Wrapper /\ SameLife(b, c) /\ c.rescueAttempted = b.rescueAttempted
      /\ c.protocolStopAttempted = b.protocolStopAttempted /\ c.closed = b.closed /\ c.writes = b.writes
      /\ (ok /\ c = b) \/ (~ok /\ Failing(b, c))
  BY <1>1, <1>2, <1>4, <1>k
<1> HIDE DEF c
<1>6. /\ SameLife(x, c) /\ c.rescueAttempted = x.rescueAttempted /\ c.writes = x.writes
      /\ c.protocolStopAttempted = x.protocolStopAttempted /\ c.closed = x.closed
  BY <1>3, <1>4, <1>5 DEF SameLife
<1>7. \/ c = x /\ x.controlEnded /\ x.terminal # NoTerminal /\ ok
      \/ Failing(x, c)
  BY <1>3, <1>4, <1>5 DEF Failing
<1>8. \/ TrySettle(x) = x
      \/ EverythingClosed(x) /\ x.closed = "pending" /\ TrySettle(x) = [c EXCEPT !.closed = f]
  BY DEF TrySettle, a, b, c, ok
<1>9. ASSUME NEW g \in {"pending", "rejected"} \cup Reasons
      PROVE  LET y == [c EXCEPT !.closed = g] IN
             /\ y \in Wrapper /\ SameLife(c, y) /\ y.closed = g /\ y.failure = c.failure
             /\ y.ready = c.ready /\ y.rescueAttempted = c.rescueAttempted /\ y.writes = c.writes
             /\ y.protocolStopAttempted = c.protocolStopAttempted
  BY <1>5, <1>9 DEF Wrapper, SameLife
<1>10. CASE c.failure # "none" /\ EverythingClosed(x) /\ x.closed = "pending"
             /\ TrySettle(x) = [c EXCEPT !.closed = f]
  <2>1. f = "rejected" /\ Failing(x, c)
    BY <1>7, <1>10 DEF Failing
  <2> QED BY <1>6, <1>9, <1>10, <2>1 DEF SameLife, Failing
<1>11. CASE c.failure = "none" /\ EverythingClosed(x) /\ x.closed = "pending"
             /\ TrySettle(x) = [c EXCEPT !.closed = f]
  <2>1. c = x /\ x.controlEnded /\ x.terminal # NoTerminal /\ ok /\ f = x.terminal.reason
    BY <1>7, <1>11 DEF Failing
  <2>2. PICK r \in Reasons : x.terminal = ExitFrame(r)
    BY <1>11, <2>1 DEF Wrapper
  <2>3. f = r /\ x.terminal.kind = "EXIT"
    BY <2>1, <2>2 DEF ExitFrame
  <2> HIDE DEF f
  <2>4. status = "zero"
    BY <2>1, <2>3 DEF ok
  <2> DEFINE y == [x EXCEPT !.closed = r]
  <2>5. /\ y \in Wrapper /\ SameLife(x, y) /\ y.closed = r /\ y.failure = x.failure
        /\ y.ready = x.ready /\ y.rescueAttempted = x.rescueAttempted /\ y.writes = x.writes
        /\ y.protocolStopAttempted = x.protocolStopAttempted
    BY <1>9, <2>1
  <2>6. TrySettle(x) = y
    BY <1>11, <2>1, <2>3
  <2> HIDE DEF y
  <2> QED BY <1>11, <2>1, <2>2, <2>4, <2>5, <2>6
<1> QED BY <1>8, <1>10, <1>11 DEF SameLife

(* Nothing is queued behind a configuration that was not written.           *)
Quietly(x, y) ==
  /\ y.configWritten = x.configWritten /\ y.returned = x.returned
  /\ x.failure # "none" => y.failure # "none"
  /\ ~x.configWritten => y.writes = x.writes
  /\ x.configWritten /\ NoConfig(x) => NoConfig(y)

LEMMA QuietlyOn ==
  ASSUME NEW x, NEW y, NEW z, Quietly(x, y), Quietly(y, z)
  PROVE  Quietly(x, z)
  BY DEF Quietly

LEMMA FailingIsGood ==
  ASSUME NEW x \in Wrapper, NEW y \in Wrapper, NEW d \in Nat, Whole(x, d),
         SameLife(x, y), Failing(x, y), y.closed \in {x.closed, "rejected"}
  PROVE  Good(y, d)
<1>1. y.ready = "pending" => x.ready = "pending" /\ x.failure # "none"
  BY DEF Failing
<1>2. x.ready = "resolved" => y.ready = "resolved"
  BY DEF Failing
<1>3. Settled(y, d)
  BY <1>2 DEF Settled, Whole, SameLife
<1>4. y.ready # "pending"
  BY <1>1 DEF Whole
<1> QED BY <1>3, <1>4 DEF Good, Whole, Unfailed, SameLife, Failing

LEMMA RecordFailureKeeps ==
  ASSUME NEW x \in Wrapper, NEW d \in Nat, NEW code \in FailureCodes, Whole(x, d)
  PROVE  LET y == RecordFailure(x, code) IN
         Good(y, d) /\ Quietly(x, y) /\ (UnderWay(x) => UnderWay(y))
<1> DEFINE y == RecordFailure(x, code)
<1>1. /\ y \in Wrapper /\ SameLife(x, y) /\ Failing(x, y) /\ y.closed = x.closed
      /\ y.rescueAttempted = x.rescueAttempted /\ y.writes = x.writes
  BY RecordFailureEffect
<1> HIDE DEF y
<1>2. Good(y, d)
  BY <1>1, FailingIsGood
<1>3. Quietly(x, y)
  BY <1>1 DEF Quietly, NoConfig, SameLife, Failing
<1>4. UnderWay(x) => UnderWay(y)
  BY <1>1 DEF UnderWay
<1> QED BY <1>2, <1>3, <1>4 DEF y

LEMMA RescueKeeps ==
  ASSUME NEW x \in Wrapper, NEW d \in Nat, Good(x, d)
  PROVE  LET y == RescueWithRetainedHandle(x) IN Good(y, d) /\ Quietly(x, y) /\ UnderWay(y)
<1> DEFINE y == RescueWithRetainedHandle(x)
<1>1. /\ y \in Wrapper /\ SameLife(x, y) /\ y.rescueAttempted /\ y.closed = x.closed
      /\ y.failure = x.failure /\ y.ready = x.ready /\ y.writes = x.writes
  BY RescueEffect
<1> HIDE DEF y
<1>2. Good(y, d)
  BY <1>1 DEF Good, Whole, Unfailed, Heard, Settled, SameLife
<1>3. Quietly(x, y) /\ UnderWay(y)
  BY <1>1 DEF Quietly, NoConfig, SameLife, UnderWay
<1> QED BY <1>2, <1>3 DEF y

LEMMA FailAndCleanKeeps ==
  ASSUME NEW x \in Wrapper, NEW d \in Nat, NEW code \in FailureCodes, Whole(x, d)
  PROVE  LET y == FailAndClean(x, code) IN
         Good(y, d) /\ Quietly(x, y) /\ (Cleaned(x) => UnderWay(y))
<1> DEFINE y == FailAndClean(x, code)
<1>1. /\ y \in Wrapper /\ SameLife(x, y) /\ Failing(x, y) /\ y.closed = x.closed
      /\ x.rescueAttempted => y.rescueAttempted
      /\ \/ y.writes = x.writes /\ (y.rescueAttempted \/ x.protocolStopAttempted)
         \/ y.writes = Append(x.writes, "ProtocolError") /\ x.configWritten
  BY FailAndCleanEffect
<1> HIDE DEF y
<1>2. Good(y, d)
  BY <1>1, FailingIsGood
<1>3. x.writes \in Seq(OutFrames)
  BY DEF Wrapper
<1>4. CASE y.writes = x.writes
  <2>1. Quietly(x, y)
    BY <1>1, <1>4 DEF Quietly, NoConfig, SameLife, Failing
  <2>2. Cleaned(x) => UnderWay(y)
    BY <1>1, <1>4 DEF Cleaned, UnderWay
  <2> QED BY <1>2, <2>1, <2>2 DEF y
<1>5. CASE y.writes = Append(x.writes, "ProtocolError") /\ x.configWritten
  <2> DEFINE s == x.writes
  <2>1. \A i \in DOMAIN Append(s, "ProtocolError") :
          IF i = Len(s) + 1 THEN Append(s, "ProtocolError")[i] = "ProtocolError"
          ELSE i \in DOMAIN s /\ Append(s, "ProtocolError")[i] = s[i]
    BY <1>3
  <2>2. Len(s) + 1 \in DOMAIN Append(s, "ProtocolError")
    BY <1>3
  <2>3. NoConfig(x) => NoConfig(y)
    BY <1>5, <2>1 DEF NoConfig
  <2>4. Quietly(x, y)
    BY <1>1, <1>5, <2>3 DEF Quietly, SameLife, Failing
  <2>5. UnderWay(y)
    BY <1>5, <2>1, <2>2 DEF UnderWay
  <2> QED BY <1>2, <2>4, <2>5 DEF y
<1> QED BY <1>1, <1>4, <1>5

LEMMA TrySettleKeeps ==
  ASSUME NEW x \in Wrapper, NEW d \in Nat, Good(x, d), FramesOK
  PROVE  LET y == TrySettle(x) IN Good(y, d) /\ Quietly(x, y) /\ (Cleaned(x) => Cleaned(y))
<1> DEFINE y == TrySettle(x)
<1>1. /\ y \in Wrapper /\ SameLife(x, y)
      /\ y.rescueAttempted = x.rescueAttempted /\ y.writes = x.writes
      /\ y.protocolStopAttempted = x.protocolStopAttempted
      /\ \/ y = x
         \/ EverythingClosed(x) /\ x.closed = "pending" /\ y.closed = "rejected" /\ Failing(x, y)
         \/ /\ EverythingClosed(x) /\ x.closed = "pending"
            /\ x.failure = "none" /\ y.failure = "none" /\ y.ready = x.ready
            /\ x.controlEnded /\ status = "zero"
            /\ y.closed \in Reasons /\ x.terminal = ExitFrame(y.closed)
  BY TrySettleEffect DEF Good, Unfailed
<1> HIDE DEF y
<1>2. Quietly(x, y)
  BY <1>1 DEF Quietly, NoConfig, SameLife, Failing
<1>3. Cleaned(x) => Cleaned(y)
  BY <1>1 DEF Cleaned, UnderWay, EverythingClosed, Good, Whole
<1>4. CASE EverythingClosed(x) /\ x.closed = "pending" /\ y.closed = "rejected" /\ Failing(x, y)
  BY <1>1, <1>2, <1>3, <1>4, FailingIsGood DEF Good, y
<1>5. CASE /\ EverythingClosed(x) /\ x.closed = "pending"
           /\ x.failure = "none" /\ y.failure = "none" /\ y.ready = x.ready
           /\ x.controlEnded /\ status = "zero"
           /\ y.closed \in Reasons /\ x.terminal = ExitFrame(y.closed)
  <2>1. x.terminal # NoTerminal /\ x.terminal.reason = y.closed /\ x.terminal.kind = "EXIT"
    BY <1>5 DEF ExitFrame, NoTerminal
  <2>2. Heard(x, d) /\ d = Len(frames)
    BY <1>5 DEF Good, Unfailed, Whole
  <2>3. d = 2 /\ frames[1] = ReadyFrame /\ frames[2] = ExitFrame(y.closed) /\ x.ready = "resolved"
    BY <1>5, <2>1, <2>2 DEF Heard
  <2>4. frames = <<ReadyFrame, ExitFrame(y.closed)>>
    <3>1. ASSUME NEW S, NEW q \in Seq(S), Len(q) = 2 PROVE q = <<q[1], q[2]>>
      BY <3>1
    <3>2. frames \in Seq(WireFrames) /\ Len(frames) = 2
      BY <2>2, <2>3 DEF FramesOK
    <3>3. frames = <<frames[1], frames[2]>>
      BY <3>1, <3>2
    <3> QED BY <2>3, <3>3
  <2>5. Settled(y, d)
    BY <1>1, <1>5, <2>1, <2>2, <2>3, <2>4 DEF Settled, SameLife, Heard, EverythingClosed
  <2>6. Good(y, d)
    BY <1>1, <1>5, <2>2, <2>5 DEF Good, Whole, Unfailed, Heard, SameLife
  <2> QED BY <1>2, <1>3, <2>6 DEF y
<1>6. CASE y = x
  BY <1>2, <1>3, <1>6 DEF y
<1> QED BY <1>1, <1>4, <1>5, <1>6

(* A step of the Node loop that leaves the pipes' other ends alone.         *)
LEMMA WrapperKept ==
  ASSUME WrapperInv, SoundInv, UNCHANGED <<wireVars, inbox, configured>>,
         delivered' \in 0..Len(frames), Good(w', delivered'), Quietly(w, w'),
         Sound => Cleaned(w')
  PROVE  WrapperInv' /\ SoundInv'
<1>1. UNCHANGED <<frames, stop, drained, status>>
  BY DEF wireVars
<1>2. w' \in Wrapper
  BY DEF Good, Whole
<1>3. TypeOK'
  BY <1>1, <1>2 DEF WrapperInv, TypeOK
<1>4. FramesOK'
  BY <1>1 DEF WrapperInv, FramesOK, HasEnded
<1>5. ConfigFirst(w)'
  BY <1>1 DEF WrapperInv, ConfigFirst, Quietly, NoConfig
<1>6. Good(w, delivered)'
  BY <1>1 DEF Good, Whole, Unfailed, Heard, Settled, HasEnded, Verdict
<1>7. SoundInv'
  BY <1>1 DEF SoundInv, FramesSound, Cleaned, UnderWay, HasEnded, Verdict, Sound
<1> QED BY <1>3, <1>4, <1>5, <1>6, <1>7 DEF WrapperInv

(* The control socket delivers, ends, closes or breaks.                     *)
LEMMA SocketStep == WrapperInv /\ SoundInv /\ (SocketEvent \/ ControlError) => WrapperInv' /\ SoundInv'
<1> SUFFICES ASSUME WrapperInv, SoundInv, SocketEvent \/ ControlError
             PROVE  WrapperInv' /\ SoundInv'
  OBVIOUS
<1> DEFINE d == delivered
<1>0. /\ w \in Wrapper /\ d \in Nat /\ Whole(w, d) /\ Unfailed(w, d) /\ FramesOK
      /\ d \in 0..Len(frames) /\ Len(frames) \in Nat
  BY DEF WrapperInv, Good, Whole, TypeOK, FramesOK
<1>c. /\ {"protocol_failed", "control_failed", "helper_reported_failure"} \subseteq FailureCodes
      /\ Sound => Cleaned(w) /\ FramesSound
  BY DEF FailureCodes, SoundInv
<1>q. Quietly(w, w)
  BY DEF Quietly
<1>1. CASE ControlData
  <2> DEFINE frame == frames[delivered + 1]
  <2>0. /\ ~w.controlEnded /\ delivered < Len(frames) /\ delivered' = delivered + 1 /\ frame # Malformed
        /\ UNCHANGED <<wireVars, inbox, configured>>
        /\ w' = IF w.decoder = "failed" THEN FailAndClean(w, "protocol_failed")
                ELSE IF frame = TornFrame THEN [w EXCEPT !.decoder = "partial"]
                ELSE OnFrame(w, frame)
    BY <1>1 DEF ControlData, Readable
  <2>d. /\ d + 1 \in Nat /\ d + 1 \in 0..Len(frames) /\ d + 1 \in DOMAIN frames
        /\ frame \in WireFrames
    BY <1>0, <2>0 DEF FramesOK
  <2>1. /\ Whole(w, d + 1) /\ w.decoder # "partial" /\ w.closed \in {"pending", "rejected"}
    BY <1>0, <2>0 DEF Whole, Settled
  <2> SUFFICES Good(w', d + 1) /\ Quietly(w, w') /\ (Sound => Cleaned(w'))
    BY <2>0, <2>d, WrapperKept
  <2>2. CASE w' = FailAndClean(w, "protocol_failed")
    BY <1>0, <1>c, <2>d, <2>1, <2>2, FailAndCleanKeeps DEF Cleaned
  <2>3. CASE w.decoder # "failed" /\ frame = TornFrame /\ w' = [w EXCEPT !.decoder = "partial"]
    <3> DEFINE y == [w EXCEPT !.decoder = "partial"]
    <3>1. /\ y \in Wrapper /\ y.decoder = "partial" /\ y.failure = w.failure /\ y.ready = w.ready
          /\ y.termination = w.termination /\ y.expected = w.expected /\ y.terminal = w.terminal
          /\ y.processClosed = w.processClosed /\ y.controlEnded = w.controlEnded
          /\ y.closed = w.closed /\ y.writes = w.writes /\ y.configWritten = w.configWritten
          /\ y.returned = w.returned /\ y.rescueAttempted = w.rescueAttempted
          /\ y.protocolStopAttempted = w.protocolStopAttempted
      BY <1>0 DEF Wrapper
    <3> HIDE DEF y
    <3>2. HasEnded /\ d + 1 = Len(frames)
      BY <1>0, <2>d, <2>3 DEF FramesOK
    <3>3. Good(y, d + 1)
      BY <1>0, <2>0, <2>1, <3>1, <3>2 DEF Good, Whole, Unfailed, Settled
    <3>4. Quietly(w, y) /\ (Sound => Cleaned(y))
      BY <1>c, <3>1 DEF Quietly, NoConfig, Cleaned, UnderWay
    <3> QED BY <2>3, <3>3, <3>4 DEF y
  <2>4. CASE w.decoder = "ok" /\ frame # TornFrame /\ w' = OnFrame(w, frame)
    <3>1. frame = ReadyFrame \/ frame = ErrorFrame \/ \E r \in Reasons : frame = ExitFrame(r)
      BY <2>0, <2>d, <2>4 DEF WireFrames
    <3>2. CASE w.terminal # NoTerminal
      BY <2>2, <2>4, <3>2 DEF OnFrame
    <3>3. CASE w.terminal = NoTerminal /\ frame = ErrorFrame
      <4> DEFINE x == [w EXCEPT !.terminal = frame]
      <4>1. w' = RecordFailure(x, "helper_reported_failure")
        BY <2>4, <3>3 DEF OnFrame, ErrorFrame
      <4>2. /\ x \in Wrapper /\ x.decoder = w.decoder /\ x.failure = w.failure /\ x.ready = w.ready
            /\ x.termination = w.termination /\ x.expected = w.expected
            /\ x.processClosed = w.processClosed /\ x.controlEnded = w.controlEnded
            /\ x.closed = w.closed /\ x.writes = w.writes /\ x.configWritten = w.configWritten
            /\ x.returned = w.returned
        BY <1>0, <3>3 DEF Wrapper
      <4> HIDE DEF x
      <4>3. Whole(x, d + 1) /\ Quietly(w, x)
        BY <2>0, <2>1, <4>2 DEF Whole, Settled, Quietly, NoConfig
      <4>4. Sound => UnderWay(x)
        <5> SUFFICES ASSUME Sound PROVE Verdict
          BY DEF UnderWay
        <5>1. frame.kind = "ERROR"
          BY <3>3 DEF ErrorFrame
        <5>2. d + 1 = Len(frames)
          BY <1>c, <2>d, <5>1 DEF FramesSound
        <5> QED BY <2>d, <5>1, <5>2 DEF Verdict
      <4> QED BY <1>c, <2>d, <4>1, <4>2, <4>3, <4>4, RecordFailureKeeps, QuietlyOn DEF Cleaned
    <3>4. CASE w.terminal = NoTerminal /\ frame = ReadyFrame
      <4>1. CASE w.readySeen
        BY <2>2, <2>4, <3>4, <4>1 DEF OnFrame, ReadyFrame
      <4>2. CASE ~w.readySeen
        <5> DEFINE r == IF w.ready = "pending" THEN "resolved" ELSE w.ready
                   y == [w EXCEPT !.readySeen = TRUE, !.ready = r]
        <5>1. w' = y
          BY <1>0, <2>4, <3>4, <4>2 DEF OnFrame, ReadyFrame, Wrapper
        <5>2. r \in {"resolved", "rejected"} /\ (r = "rejected" <=> w.ready = "rejected")
              /\ (w.ready = "resolved" => r = "resolved")
          BY <1>0 DEF Wrapper
        <5> HIDE DEF r
        <5>3. /\ y \in Wrapper /\ y.readySeen /\ y.ready = r /\ y.terminal = w.terminal
              /\ y.decoder = w.decoder /\ y.failure = w.failure
              /\ y.termination = w.termination /\ y.expected = w.expected
              /\ y.processClosed = w.processClosed /\ y.controlEnded = w.controlEnded
              /\ y.closed = w.closed /\ y.writes = w.writes /\ y.configWritten = w.configWritten
              /\ y.returned = w.returned /\ y.rescueAttempted = w.rescueAttempted
              /\ y.protocolStopAttempted = w.protocolStopAttempted
          BY <1>0, <5>2 DEF Wrapper
        <5> HIDE DEF y
        <5>4. Whole(y, d + 1)
          BY <2>0, <2>1, <5>2, <5>3 DEF Whole, Settled
        <5>5. Unfailed(y, d + 1)
          <6> SUFFICES ASSUME w.failure = "none" PROVE Unfailed(y, d + 1)
            BY <5>3 DEF Unfailed
          <6>1. d = 0
            BY <1>0, <2>4, <4>2 DEF Unfailed, Heard
          <6>2. r = "resolved"
            BY <5>2, <2>1 DEF Whole
          <6>3. frames[1] = ReadyFrame
            BY <3>4, <6>1
          <6> QED BY <1>0, <2>0, <2>4, <3>4, <5>3, <6>1, <6>2, <6>3 DEF Unfailed, Heard, NoTerminal, ErrorFrame
        <5>6. Quietly(w, y) /\ (Sound => Cleaned(y))
          BY <1>c, <5>3 DEF Quietly, NoConfig, Cleaned, UnderWay
        <5> QED BY <5>1, <5>4, <5>5, <5>6 DEF Good
      <4> QED BY <4>1, <4>2
    <3>5. CASE w.terminal = NoTerminal /\ \E r \in Reasons : frame = ExitFrame(r)
      <4>0. PICK r \in Reasons : frame = ExitFrame(r)
        BY <3>5
      <4>k. frame.kind = "EXIT" /\ frame.reason = r
        BY <4>0 DEF ExitFrame
      <4>1. CASE ~w.readySeen
        BY <2>2, <2>4, <3>5, <4>k, <4>1 DEF OnFrame
      <4>2. CASE w.readySeen /\ ~Expected(w, frame)
        <5> DEFINE x == RecordFailure(w, "protocol_failed")
        <5>1. w' = RescueWithRetainedHandle(x)
          BY <2>4, <3>5, <4>k, <4>2 DEF OnFrame
        <5>2. Good(x, d + 1) /\ Quietly(w, x) /\ x \in Wrapper
          BY <1>0, <1>c, <2>d, <2>1, RecordFailureKeeps, RecordFailureEffect
        <5> HIDE DEF x
        <5> QED BY <2>d, <5>1, <5>2, RescueKeeps, QuietlyOn DEF Cleaned
      <4>3. CASE w.readySeen /\ Expected(w, frame)
        <5> DEFINE y == [w EXCEPT !.terminal = frame]
        <5>1. w' = y
          BY <2>4, <3>5, <4>k, <4>3 DEF OnFrame
        <5>2. frame \in {ExitFrame(q) : q \in Reasons}
          BY <4>0
        <5> HIDE DEF frame
        <5>3. /\ y \in Wrapper /\ y.readySeen = w.readySeen /\ y.ready = w.ready /\ y.terminal = frame
              /\ y.decoder = w.decoder /\ y.failure = w.failure
              /\ y.termination = w.termination /\ y.expected = w.expected
              /\ y.processClosed = w.processClosed /\ y.controlEnded = w.controlEnded
              /\ y.closed = w.closed /\ y.writes = w.writes /\ y.configWritten = w.configWritten
              /\ y.returned = w.returned /\ y.rescueAttempted = w.rescueAttempted
              /\ y.protocolStopAttempted = w.protocolStopAttempted
          BY <1>0, <5>2 DEF Wrapper
        <5> HIDE DEF y
        <5>4. Whole(y, d + 1)
          BY <2>0, <2>1, <5>3 DEF Whole, Settled
        <5>5. Unfailed(y, d + 1)
          <6> SUFFICES ASSUME w.failure = "none" PROVE Unfailed(y, d + 1)
            BY <5>3 DEF Unfailed
          <6>1. d = 1 /\ w.ready = "resolved" /\ frames[1] = ReadyFrame
            BY <1>0, <2>4, <3>5, <4>3 DEF Unfailed, Heard
          <6>2. frame # ErrorFrame /\ frame # NoTerminal
            BY <4>k DEF ErrorFrame, NoTerminal
          <6>3. frames[2] = frame /\ frame.reason \in {"NoneOrRootExit", w.expected}
            BY <4>3, <6>1 DEF frame, Expected
          <6> QED BY <1>0, <2>0, <2>4, <4>3, <5>3, <6>1, <6>2, <6>3 DEF Unfailed, Heard
        <5>6. Quietly(w, y) /\ (Sound => Cleaned(y))
          BY <1>c, <5>3 DEF Quietly, NoConfig, Cleaned, UnderWay
        <5> QED BY <5>1, <5>4, <5>5, <5>6 DEF Good
      <4> QED BY <4>1, <4>2, <4>3
    <3> QED BY <3>1, <3>2, <3>3, <3>4, <3>5
  <2> QED BY <1>0, <2>0, <2>1, <2>2, <2>3, <2>4 DEF Wrapper
<1>2. CASE ControlDataMalformed
  <2> DEFINE x == [w EXCEPT !.decoder = "failed"]
  <2>0. /\ ~w.controlEnded /\ UNCHANGED <<wireVars, inbox, configured>>
        /\ delivered' \in (delivered + 1)..Len(frames) /\ w' = FailAndClean(x, "protocol_failed")
    BY <1>2 DEF ControlDataMalformed, Readable
  <2>1. delivered' \in Nat /\ delivered' \in 0..Len(frames)
    BY <1>0, <2>0
  <2>2. /\ x \in Wrapper /\ x.decoder = "failed" /\ x.failure = w.failure /\ x.ready = w.ready
        /\ x.termination = w.termination /\ x.expected = w.expected
        /\ x.processClosed = w.processClosed /\ x.controlEnded = w.controlEnded
        /\ x.closed = w.closed /\ x.writes = w.writes /\ x.configWritten = w.configWritten
        /\ x.returned = w.returned /\ x.rescueAttempted = w.rescueAttempted
        /\ x.protocolStopAttempted = w.protocolStopAttempted
    BY <1>0 DEF Wrapper
  <2> HIDE DEF x
  <2>3. Whole(x, delivered') /\ Quietly(w, x) /\ (Sound => Cleaned(x))
    BY <1>0, <1>c, <2>0, <2>2 DEF Whole, Settled, Quietly, NoConfig, Cleaned, UnderWay
  <2>4. Good(w', delivered') /\ Quietly(w, w') /\ (Sound => Cleaned(w'))
    BY <1>c, <2>0, <2>1, <2>2, <2>3, FailAndCleanKeeps, QuietlyOn DEF Cleaned
  <2> QED BY <2>0, <2>1, <2>4, WrapperKept
<1>3. ASSUME NEW x \in Wrapper, Good(x, d), Quietly(w, x), Sound => Cleaned(x),
             UNCHANGED <<wireVars, inbox, configured, delivered>>,
             w' = TrySettle(IF x.terminal = NoTerminal THEN FailAndClean(x, "control_failed") ELSE x)
      PROVE  WrapperInv' /\ SoundInv'
  <2> DEFINE y == IF x.terminal = NoTerminal THEN FailAndClean(x, "control_failed") ELSE x
  <2>1. y \in Wrapper /\ Good(y, d) /\ Quietly(w, y) /\ (Sound => Cleaned(y))
    <3>1. CASE x.terminal = NoTerminal
      <4>1. Whole(x, d)
        BY <1>3 DEF Good
      <4> QED BY <1>0, <1>c, <1>3, <3>1, <4>1, FailAndCleanKeeps, FailAndCleanEffect, QuietlyOn DEF Cleaned
    <3> QED BY <1>3, <3>1
  <2> HIDE DEF y
  <2>2. w' = TrySettle(y)
    BY <1>3 DEF y
  <2>3. Good(w', d) /\ Quietly(w, w') /\ (Sound => Cleaned(w'))
    BY <1>0, <2>1, <2>2, TrySettleKeeps, QuietlyOn
  <2> QED BY <1>0, <1>3, <2>3, WrapperKept
<1>4. CASE ControlEnd
  <2> DEFINE x == [w EXCEPT !.controlEnded = TRUE]
             y == FailUnless(x, w.decoder = "ok", "protocol_failed")
  <2>0. /\ delivered = Len(frames) /\ (HasEnded \/ Verdict)
        /\ UNCHANGED <<wireVars, inbox, configured, delivered>>
        /\ w' = TrySettle(IF y.terminal = NoTerminal THEN FailAndClean(y, "control_failed") ELSE y)
    BY <1>4 DEF ControlEnd
  <2>1. /\ x \in Wrapper /\ x.decoder = w.decoder /\ x.failure = w.failure /\ x.ready = w.ready
        /\ x.termination = w.termination /\ x.expected = w.expected /\ x.readySeen = w.readySeen
        /\ x.processClosed = w.processClosed /\ x.controlEnded /\ x.terminal = w.terminal
        /\ x.closed = w.closed /\ x.writes = w.writes /\ x.configWritten = w.configWritten
        /\ x.returned = w.returned /\ x.rescueAttempted = w.rescueAttempted
        /\ x.protocolStopAttempted = w.protocolStopAttempted /\ x.open = w.open
    BY <1>0 DEF Wrapper
  <2> HIDE DEF x
  <2>2. Whole(x, d) /\ Quietly(w, x) /\ (UnderWay(w) => UnderWay(x)) /\ UnderWay(x)
    BY <1>0, <2>0, <2>1 DEF Whole, Settled, Quietly, NoConfig, UnderWay
  <2>3. CASE w.decoder = "ok"
    <3>1. y = x
      BY <2>3 DEF FailUnless
    <3>2. Good(x, d)
      BY <1>0, <2>1, <2>2, <2>3 DEF Good, Unfailed, Heard
    <3> HIDE DEF y
    <3> QED BY <1>3, <2>0, <2>1, <2>2, <3>1, <3>2 DEF Cleaned
  <2>4. CASE w.decoder # "ok"
    <3>1. y = RecordFailure(x, "protocol_failed")
      BY <2>4 DEF FailUnless
    <3> HIDE DEF y
    <3>2. y \in Wrapper /\ Good(y, d) /\ Quietly(w, y) /\ UnderWay(y)
      BY <1>0, <1>c, <2>1, <2>2, <3>1, RecordFailureKeeps, RecordFailureEffect, QuietlyOn
    <3> QED BY <1>3, <2>0, <3>2 DEF Cleaned
  <2> QED BY <2>3, <2>4
<1>5. CASE ControlClose
  <2> DEFINE x == [w EXCEPT !.controlClosed = TRUE]
  <2>0. /\ UNCHANGED <<wireVars, inbox, configured, delivered>>
        /\ w' = TrySettle(IF x.terminal = NoTerminal THEN FailAndClean(x, "control_failed") ELSE x)
    BY <1>5 DEF ControlClose
  <2>1. /\ x \in Wrapper /\ x.decoder = w.decoder /\ x.failure = w.failure /\ x.ready = w.ready
        /\ x.termination = w.termination /\ x.expected = w.expected /\ x.readySeen = w.readySeen
        /\ x.processClosed = w.processClosed /\ x.controlEnded = w.controlEnded
        /\ x.closed = w.closed /\ x.writes = w.writes /\ x.configWritten = w.configWritten
        /\ x.returned = w.returned /\ x.rescueAttempted = w.rescueAttempted /\ x.terminal = w.terminal
        /\ x.protocolStopAttempted = w.protocolStopAttempted /\ x.open = w.open
    BY <1>0 DEF Wrapper
  <2> HIDE DEF x
  <2>2. Good(x, d)
    BY <1>0, <2>1 DEF Good, Whole, Unfailed, Heard, Settled
  <2>3. Quietly(w, x) /\ (Sound => Cleaned(x))
    BY <1>c, <2>1 DEF Quietly, NoConfig, Cleaned, UnderWay
  <2> QED BY <1>3, <2>0, <2>1, <2>2, <2>3
<1>6. CASE ControlError
  <2> DEFINE x == [w EXCEPT !.controlBroken = TRUE]
             y == RecordFailure(x, "control_failed")
  <2>0. /\ UNCHANGED <<wireVars, inbox, configured, delivered>>
        /\ w' = RescueWithRetainedHandle(y)
    BY <1>6 DEF ControlError
  <2>1. /\ x \in Wrapper /\ x.decoder = w.decoder /\ x.failure = w.failure /\ x.ready = w.ready
        /\ x.termination = w.termination /\ x.expected = w.expected
        /\ x.processClosed = w.processClosed /\ x.controlEnded = w.controlEnded
        /\ x.closed = w.closed /\ x.writes = w.writes /\ x.configWritten = w.configWritten
        /\ x.returned = w.returned /\ x.terminal = w.terminal /\ x.open = w.open
    BY <1>0 DEF Wrapper
  <2> HIDE DEF x
  <2>2. Whole(x, d) /\ Quietly(w, x)
    BY <1>0, <2>1 DEF Whole, Settled, Quietly, NoConfig
  <2>3. y \in Wrapper /\ Good(y, d) /\ Quietly(w, y)
    BY <1>0, <1>c, <2>1, <2>2, RecordFailureKeeps, RecordFailureEffect, QuietlyOn
  <2> HIDE DEF y
  <2>4. Good(w', d) /\ Quietly(w, w') /\ Cleaned(w')
    BY <1>0, <2>0, <2>3, RescueKeeps, QuietlyOn DEF Cleaned
  <2> QED BY <1>0, <2>0, <2>4, WrapperKept
<1> QED BY <1>1, <1>2, <1>4, <1>5, <1>6 DEF SocketEvent

(* The process and its streams end or fail, and the caller terminates.      *)
LEMMA ProcessStep ==
  /\ WrapperInv /\ SoundInv
  /\ StreamEvent \/ StdError \/ ChildClose \/ \E reason \in AskReasons : Terminate(reason)
  => WrapperInv' /\ SoundInv'
<1> SUFFICES ASSUME WrapperInv, SoundInv,
                    \/ StreamEvent \/ StdError \/ ChildClose
                    \/ \E reason \in AskReasons : Terminate(reason)
             PROVE  WrapperInv' /\ SoundInv'
  OBVIOUS
<1> DEFINE d == delivered
<1>0. /\ w \in Wrapper /\ d \in Nat /\ Whole(w, d) /\ Unfailed(w, d) /\ FramesOK
      /\ d \in 0..Len(frames)
  BY DEF WrapperInv, Good, Whole, TypeOK, FramesOK
<1>c. /\ {"stdio_failed", "helper_exit_failed"} \subseteq FailureCodes
      /\ Sound => Cleaned(w) /\ FramesSound
  BY DEF FailureCodes, SoundInv
<1>1. CASE StreamEvent
  <2>0. PICK s \in StdStreams : StdClose(s)
    BY <1>1 DEF StreamEvent
  <2> DEFINE x == [w EXCEPT !.open = @ \ {s}]
  <2>1. UNCHANGED <<wireVars, inbox, configured, delivered>> /\ w' = TrySettle(x)
    BY <2>0 DEF StdClose
  <2>2. /\ x.open \subseteq w.open /\ x.processClosed = w.processClosed
        /\ x \in Wrapper /\ x.decoder = w.decoder /\ x.failure = w.failure /\ x.ready = w.ready
        /\ x.termination = w.termination /\ x.expected = w.expected /\ x.readySeen = w.readySeen
        /\ x.controlEnded = w.controlEnded /\ x.closed = w.closed /\ x.writes = w.writes
        /\ x.configWritten = w.configWritten /\ x.returned = w.returned
        /\ x.rescueAttempted = w.rescueAttempted /\ x.terminal = w.terminal
        /\ x.protocolStopAttempted = w.protocolStopAttempted
    BY <1>0 DEF Wrapper
  <2> HIDE DEF x
  <2>3. Good(x, d) /\ Quietly(w, x) /\ (Sound => Cleaned(x))
    BY <1>0, <1>c, <2>2
    DEF Good, Whole, Unfailed, Heard, Settled, Quietly, NoConfig, Cleaned, UnderWay
  <2>4. Good(w', d) /\ Quietly(w, w') /\ (Sound => Cleaned(w'))
    BY <1>0, <2>1, <2>2, <2>3, TrySettleKeeps, QuietlyOn
  <2> QED BY <1>0, <2>1, <2>4, WrapperKept
<1>2. CASE StdError
  <2>1. UNCHANGED <<wireVars, inbox, configured, delivered>> /\ w' = FailAndClean(w, "stdio_failed")
    BY <1>2 DEF StdError
  <2>2. Good(w', d) /\ Quietly(w, w') /\ (Sound => Cleaned(w'))
    BY <1>0, <1>c, <2>1, FailAndCleanKeeps DEF Cleaned
  <2> QED BY <1>0, <2>1, <2>2, WrapperKept
<1>3. CASE ChildClose
  <2> DEFINE x == [w EXCEPT !.processClosed = TRUE]
             y == FailUnless(x, w.terminal # NoTerminal, "helper_exit_failed")
  <2>1. /\ UNCHANGED <<wireVars, inbox, configured, delivered>> /\ HasEnded
        /\ w' = TrySettle(y)
    BY <1>3 DEF ChildClose
  <2>2. /\ x.open = w.open
        /\ x \in Wrapper /\ x.decoder = w.decoder /\ x.failure = w.failure /\ x.ready = w.ready
        /\ x.termination = w.termination /\ x.expected = w.expected /\ x.readySeen = w.readySeen
        /\ x.controlEnded = w.controlEnded /\ x.closed = w.closed /\ x.writes = w.writes
        /\ x.configWritten = w.configWritten /\ x.returned = w.returned
        /\ x.rescueAttempted = w.rescueAttempted /\ x.terminal = w.terminal
        /\ x.protocolStopAttempted = w.protocolStopAttempted
    BY <1>0 DEF Wrapper
  <2> HIDE DEF x
  <2>3. Good(x, d) /\ Quietly(w, x) /\ Cleaned(x)
    BY <1>0, <2>1, <2>2
    DEF Good, Whole, Unfailed, Heard, Settled, Quietly, NoConfig, Cleaned, UnderWay
  <2>4. y \in Wrapper /\ Good(y, d) /\ Quietly(w, y) /\ Cleaned(y)
    <3>1. CASE w.terminal # NoTerminal
      <4>1. y = x
        BY <3>1 DEF FailUnless
      <4> QED BY <4>1, <2>2, <2>3
    <3>2. CASE w.terminal = NoTerminal
      <4>1. y = RecordFailure(x, "helper_exit_failed")
        BY <3>2 DEF FailUnless
      <4>2. Cleaned(y)
        BY <2>1 DEF Cleaned, UnderWay
      <4>3. Whole(x, d)
        BY <2>3 DEF Good
      <4> HIDE DEF y
      <4> QED BY <1>0, <1>c, <2>2, <2>3, <4>1, <4>2, <4>3, RecordFailureKeeps, RecordFailureEffect, QuietlyOn
    <3> QED BY <3>1, <3>2
  <2> HIDE DEF y
  <2>5. Good(w', d) /\ Quietly(w, w') /\ Cleaned(w')
    BY <1>0, <2>1, <2>4, TrySettleKeeps, QuietlyOn
  <2> QED BY <1>0, <2>1, <2>5, WrapperKept
<1>4. CASE \E reason \in AskReasons : Terminate(reason)
  <2>0. PICK reason \in AskReasons : Terminate(reason)
    BY <1>4
  <2>1. UNCHANGED <<wireVars, inbox, configured, delivered>> /\ w.returned
    BY <2>0 DEF Terminate
  <2>2. CASE w' = [w EXCEPT !.termination = "resolved"]
    <3>1. /\ w'.termination = "resolved" /\ w'.open = w.open /\ w'.processClosed = w.processClosed
          /\ w' \in Wrapper /\ w'.decoder = w.decoder /\ w'.failure = w.failure /\ w'.ready = w.ready
          /\ w'.expected = w.expected /\ w'.readySeen = w.readySeen
          /\ w'.controlEnded = w.controlEnded /\ w'.closed = w.closed /\ w'.writes = w.writes
          /\ w'.configWritten = w.configWritten /\ w'.returned = w.returned
          /\ w'.rescueAttempted = w.rescueAttempted /\ w'.terminal = w.terminal
          /\ w'.protocolStopAttempted = w.protocolStopAttempted
      BY <1>0, <2>2 DEF Wrapper
    <3>2. Good(w', d) /\ Quietly(w, w') /\ (Sound => Cleaned(w'))
      BY <1>0, <1>c, <3>1
      DEF Good, Whole, Unfailed, Heard, Settled, Quietly, NoConfig, Cleaned, UnderWay
    <3> QED BY <1>0, <2>1, <3>2, WrapperKept
  <2>3. CASE /\ w.terminal = NoTerminal /\ w.failure = "none"
             /\ w' = [w EXCEPT !.termination = "pending", !.expected = reason,
                               !.writes = Append(@, reason)]
    <3> DEFINE z == Append(w.writes, reason)
    <3>1. z \in Seq(OutFrames) /\ reason \in OutFrames /\ reason # "config" /\ w.writes \in Seq(OutFrames)
      BY <1>0, AskAssumption DEF Wrapper, OutFrames, OrdinaryReasons
    <3>2. \A i \in DOMAIN z : z[i] = reason \/ (i \in DOMAIN w.writes /\ z[i] = w.writes[i])
      BY <3>1
    <3>3. \A i \in DOMAIN w.writes : i \in DOMAIN z /\ z[i] = w.writes[i]
      BY <3>1
    <3>4. w' = [w EXCEPT !.termination = "pending", !.expected = reason, !.writes = z]
      BY <2>3
    <3> HIDE DEF z
    <3>5. /\ w'.termination = "pending" /\ w'.open = w.open /\ w'.processClosed = w.processClosed
          /\ w' \in Wrapper /\ w'.decoder = w.decoder /\ w'.failure = w.failure /\ w'.ready = w.ready
          /\ w'.expected = reason /\ w'.readySeen = w.readySeen
          /\ w'.controlEnded = w.controlEnded /\ w'.closed = w.closed /\ w'.writes = z
          /\ w'.configWritten = w.configWritten /\ w'.returned = w.returned
          /\ w'.rescueAttempted = w.rescueAttempted /\ w'.terminal = w.terminal
          /\ w'.protocolStopAttempted = w.protocolStopAttempted
      BY <1>0, <3>1, <3>4 DEF Wrapper
    <3>6. w.closed \in {"pending", "rejected"}
      BY <1>0, <2>3 DEF Whole, Settled, NoTerminal, ExitFrame
    <3>7. Good(w', d)
      BY <1>0, <2>3, <3>5, <3>6 DEF Good, Whole, Unfailed, Heard, Settled
    <3>8. w.configWritten
      BY <2>1, <2>3 DEF WrapperInv, ConfigFirst
    <3>9. Quietly(w, w')
      BY <3>1, <3>2, <3>5, <3>8 DEF Quietly, NoConfig
    <3>10. Sound => Cleaned(w')
      BY <1>c, <3>3, <3>5 DEF Cleaned, UnderWay
    <3> QED BY <1>0, <2>1, <3>7, <3>9, <3>10, WrapperKept
  <2> QED BY <2>0, <2>2, <2>3 DEF Terminate
<1> QED BY <1>1, <1>2, <1>3, <1>4

(* The write at the head of the queue ends.                                 *)
LEMMA WriteStep == WrapperInv /\ SoundInv /\ WriteEvent => WrapperInv' /\ SoundInv'
<1> SUFFICES ASSUME WrapperInv, SoundInv, WriteEvent PROVE WrapperInv' /\ SoundInv'
  OBVIOUS
<1> DEFINE d == delivered
           head == Head(w.writes)
           x == [w EXCEPT !.writes = Tail(@)]
<1>0. /\ w \in Wrapper /\ d \in Nat /\ Whole(w, d) /\ Unfailed(w, d) /\ FramesOK
      /\ d \in 0..Len(frames) /\ ConfigFirst(w) /\ inbox \in Seq(OutFrames)
  BY DEF WrapperInv, Good, Whole, TypeOK, FramesOK
<1>c. /\ {"control_failed", "termination_failed"} \subseteq FailureCodes
      /\ Sound => Cleaned(w) /\ FramesSound
  BY DEF FailureCodes, SoundInv
<1>1. w.writes # <<>> /\ w.writes \in Seq(OutFrames)
  BY <1>0 DEF WriteEvent, WriteSucceeds, WriteFails, Wrapper
<1>a. "config" \notin AskReasons /\ "ProtocolError" \notin AskReasons
  BY AskAssumption DEF OrdinaryReasons
<1>2. /\ Tail(w.writes) \in Seq(OutFrames) /\ head \in OutFrames
      /\ \A i \in DOMAIN Tail(w.writes) : i + 1 \in DOMAIN w.writes /\ Tail(w.writes)[i] = w.writes[i + 1]
      /\ \A i \in DOMAIN w.writes : \/ w.writes[i] = head
                                    \/ i - 1 \in DOMAIN Tail(w.writes) /\ Tail(w.writes)[i - 1] = w.writes[i]
      /\ 1 \in DOMAIN w.writes /\ w.writes[1] = head
  BY <1>1
<1>3. /\ x.writes = Tail(w.writes) /\ x.open = w.open /\ x.processClosed = w.processClosed
      /\ x \in Wrapper /\ x.decoder = w.decoder /\ x.failure = w.failure /\ x.ready = w.ready
      /\ x.termination = w.termination /\ x.expected = w.expected /\ x.readySeen = w.readySeen
      /\ x.controlEnded = w.controlEnded /\ x.closed = w.closed
      /\ x.configWritten = w.configWritten /\ x.returned = w.returned
      /\ x.rescueAttempted = w.rescueAttempted /\ x.terminal = w.terminal
      /\ x.protocolStopAttempted = w.protocolStopAttempted
  BY <1>0, <1>2 DEF Wrapper
<1>4. Good(x, d)
  BY <1>0, <1>3 DEF Good, Whole, Unfailed, Heard, Settled
<1>5. /\ head = "config" => ~w.configWritten /\ Tail(w.writes) = <<>> /\ inbox = <<>> /\ ~configured
      /\ head # "config" => w.configWritten /\ NoConfig(w) /\ (~configured => inbox # <<>> /\ inbox[1] = "config")
  BY <1>0, <1>1, <1>2 DEF ConfigFirst, NoConfig
<1>6. ~(head = "config") => NoConfig(x)
  BY <1>2, <1>3, <1>5 DEF NoConfig
<1> HIDE DEF x, head
<1>7. CASE WriteSucceeds
  <2>0. /\ UNCHANGED <<wireVars, configured, delivered>> /\ inbox' = Append(inbox, head)
        /\ w' = CASE head = "config" -> [x EXCEPT !.configWritten = TRUE, !.returned = TRUE]
                  [] head = "ProtocolError" -> x
                  [] head \in AskReasons -> [x EXCEPT !.termination = "resolved"]
    BY <1>7 DEF WriteSucceeds, x, head
  <2>f. UNCHANGED <<frames, stop, drained, status>>
    BY <2>0 DEF wireVars
  <2>1. /\ w'.writes = Tail(w.writes) /\ w'.open = w.open /\ w'.processClosed = w.processClosed
        /\ w' \in Wrapper /\ w'.decoder = w.decoder /\ w'.failure = w.failure /\ w'.ready = w.ready
        /\ w'.expected = w.expected /\ w'.readySeen = w.readySeen
        /\ w'.termination \in {w.termination, "resolved"}
        /\ w'.controlEnded = w.controlEnded /\ w'.closed = w.closed
        /\ w'.rescueAttempted = w.rescueAttempted /\ w'.terminal = w.terminal
        /\ w'.protocolStopAttempted = w.protocolStopAttempted
        /\ w'.configWritten
    <3>1. CASE head = "config"
      <4>1. w' = [x EXCEPT !.configWritten = TRUE, !.returned = TRUE]
        BY <1>a, <2>0, <3>1
      <4> QED BY <1>3, <4>1 DEF Wrapper
    <3>2. CASE head = "ProtocolError"
      <4>1. w' = x
        BY <1>a, <2>0, <3>2
      <4> QED BY <1>3, <1>5, <3>2, <4>1
    <3>3. CASE head \in AskReasons
      <4>0. head # "config" /\ head # "ProtocolError"
        BY <3>3, AskAssumption DEF OrdinaryReasons
      <4>1. w' = [x EXCEPT !.termination = "resolved"]
        BY <2>0, <3>3, <4>0
      <4> QED BY <1>3, <1>5, <4>0, <4>1 DEF Wrapper
    <3> QED BY <1>2, <3>1, <3>2, <3>3 DEF OutFrames
  <2>2. /\ inbox' \in Seq(OutFrames) /\ Len(inbox) + 1 \in DOMAIN inbox' /\ inbox'[Len(inbox) + 1] = head
        /\ \A i \in DOMAIN inbox : i \in DOMAIN inbox' /\ inbox'[i] = inbox[i]
        /\ inbox' # <<>>
    BY <1>0, <1>2, <2>0 DEF head
  <2>3. Good(w', d)
    BY <1>0, <2>1 DEF Good, Whole, Unfailed, Heard, Settled
  <2>4. Good(w, delivered)'
    BY <2>0, <2>f, <2>3 DEF Good, Whole, Unfailed, Heard, Settled, HasEnded, Verdict
  <2>5. ConfigFirst(w)'
    <3>1. NoConfig(w)'
      <4>1. CASE head = "config"
        BY <1>5, <2>1, <4>1 DEF NoConfig
      <4>2. CASE head # "config"
        BY <1>3, <1>6, <2>1, <4>2 DEF NoConfig
      <4> QED BY <4>1, <4>2
    <3>2. ~configured => inbox'[1] = "config"
      <4>1. CASE head = "config"
        BY <1>5, <2>2, <4>1
      <4>2. CASE head # "config" /\ ~configured
        <5>1. 1 \in DOMAIN inbox
          BY <1>0, <1>5, <4>2
        <5> QED BY <1>5, <2>2, <4>2, <5>1
      <4> QED BY <4>1, <4>2
    <3> QED BY <2>0, <2>1, <2>2, <3>1, <3>2 DEF ConfigFirst
  <2>6. TypeOK' /\ FramesOK'
    BY <1>0, <2>0, <2>f, <2>1, <2>2 DEF WrapperInv, TypeOK, FramesOK, HasEnded
  <2>7. SoundInv'
    <3> SUFFICES ASSUME Sound PROVE FramesSound' /\ Cleaned(w)'
      BY DEF SoundInv, Sound
    <3>1. FramesSound'
      BY <1>c, <2>f DEF FramesSound
    <3>2. SUFFICES ASSUME UnderWay(w) PROVE UnderWay(w)'
      BY <1>c, <2>1, <3>1 DEF Cleaned
    <3>3. CASE \E i \in DOMAIN w.writes : w.writes[i] = "ProtocolError"
      <4>1. PICK i \in DOMAIN w.writes : w.writes[i] = "ProtocolError"
        BY <3>3
      <4>2. CASE head = "ProtocolError"
        BY <2>2, <4>2 DEF UnderWay
      <4>3. CASE head # "ProtocolError"
        <5>1. i - 1 \in DOMAIN w'.writes /\ w'.writes[i - 1] = "ProtocolError"
          BY <1>2, <2>1, <4>1, <4>3
        <5>2. \E j \in DOMAIN w'.writes : w'.writes[j] = "ProtocolError"
          BY <5>1
        <5> QED BY <5>2 DEF UnderWay
      <4> QED BY <4>2, <4>3
    <3>4. CASE \E i \in DOMAIN inbox : inbox[i] # "config"
      BY <2>2, <3>4 DEF UnderWay
    <3> QED BY <2>f, <2>1, <3>2, <3>3, <3>4 DEF UnderWay, HasEnded, Verdict
  <2> QED BY <2>4, <2>5, <2>6, <2>7 DEF WrapperInv
<1>8. CASE WriteFails
  <2>0. /\ UNCHANGED <<wireVars, inbox, configured, delivered>>
        /\ w' = CASE head = "config" -> [FailAndClean(x, "control_failed") EXCEPT !.returned = TRUE]
                  [] head = "ProtocolError" -> RescueWithRetainedHandle(x)
                  [] head \in AskReasons ->
                       [FailAndClean(x, "termination_failed") EXCEPT !.termination = "rejected"]
    BY <1>8 DEF WriteFails, x, head
  <2>x. Whole(x, d) /\ (head # "config" => Quietly(w, x))
    BY <1>3, <1>4, <1>5, <1>6 DEF Good, Quietly
  <2>1. CASE head = "ProtocolError"
    <3>1. w' = RescueWithRetainedHandle(x)
      BY <1>a, <2>0, <2>1
    <3>2. Good(w', d) /\ Quietly(w, w') /\ Cleaned(w')
      BY <1>0, <1>3, <1>4, <2>1, <2>x, <3>1, RescueKeeps, QuietlyOn DEF Cleaned
    <3> QED BY <1>0, <2>0, <3>2, WrapperKept
  <2>2. CASE head \in AskReasons
    <3> DEFINE y == FailAndClean(x, "termination_failed")
    <3>0. head # "config" /\ head # "ProtocolError"
      BY <2>2, AskAssumption DEF OrdinaryReasons
    <3>1. w' = [y EXCEPT !.termination = "rejected"]
      BY <2>0, <2>2, <3>0
    <3>2. Sound => Cleaned(x)
      <4> SUFFICES ASSUME Sound, UnderWay(w) PROVE UnderWay(x)
        BY <1>c, <1>3 DEF Cleaned
      <4>1. CASE \E i \in DOMAIN w.writes : w.writes[i] = "ProtocolError"
        <5>1. PICK i \in DOMAIN w.writes : w.writes[i] = "ProtocolError"
          BY <4>1
        <5>2. i - 1 \in DOMAIN x.writes /\ x.writes[i - 1] = "ProtocolError"
          BY <1>2, <1>3, <3>0, <5>1
        <5>3. \E j \in DOMAIN x.writes : x.writes[j] = "ProtocolError"
          BY <5>2
        <5> QED BY <5>3 DEF UnderWay
      <4> QED BY <1>3, <4>1 DEF UnderWay
    <3>3. y \in Wrapper /\ Good(y, d) /\ Quietly(w, y) /\ (Sound => UnderWay(y))
      BY <1>0, <1>c, <1>3, <2>x, <3>0, <3>2, FailAndCleanKeeps, FailAndCleanEffect, QuietlyOn
    <3> HIDE DEF y
    <3>4. /\ w'.writes = y.writes /\ w'.open = y.open /\ w'.processClosed = y.processClosed
          /\ w' \in Wrapper /\ w'.decoder = y.decoder /\ w'.failure = y.failure /\ w'.ready = y.ready
          /\ w'.expected = y.expected /\ w'.readySeen = y.readySeen /\ w'.termination = "rejected"
          /\ w'.controlEnded = y.controlEnded /\ w'.closed = y.closed
          /\ w'.rescueAttempted = y.rescueAttempted /\ w'.terminal = y.terminal
          /\ w'.configWritten = y.configWritten /\ w'.returned = y.returned
      BY <3>1, <3>3 DEF Wrapper
    <3>5. Good(w', d)
      BY <3>3, <3>4 DEF Good, Whole, Unfailed, Heard, Settled
    <3>6. Quietly(w, w') /\ (Sound => Cleaned(w'))
      BY <3>3, <3>4 DEF Quietly, NoConfig, Cleaned, UnderWay
    <3> QED BY <1>0, <2>0, <3>5, <3>6, WrapperKept
  <2>3. CASE head = "config"
    <3> DEFINE y == FailAndClean(x, "control_failed")
    <3>1. w' = [y EXCEPT !.returned = TRUE]
      BY <1>a, <2>0, <2>3
    <3>e. /\ y \in Wrapper /\ SameLife(x, y) /\ Failing(x, y) /\ y.closed = x.closed
          /\ x.rescueAttempted => y.rescueAttempted
          /\ \/ y.writes = x.writes /\ (y.rescueAttempted \/ x.protocolStopAttempted)
             \/ y.writes = Append(x.writes, "ProtocolError") /\ x.configWritten
      BY <1>c, <1>3, FailAndCleanEffect
    <3>3. Good(y, d)
      BY <1>0, <1>c, <1>3, <2>x, FailAndCleanKeeps
    <3> HIDE DEF y
    <3>4. /\ w'.writes = y.writes /\ w'.open = y.open /\ w'.processClosed = y.processClosed
          /\ w' \in Wrapper /\ w'.decoder = y.decoder /\ w'.failure = y.failure /\ w'.ready = y.ready
          /\ w'.expected = y.expected /\ w'.readySeen = y.readySeen /\ w'.termination = y.termination
          /\ w'.controlEnded = y.controlEnded /\ w'.closed = y.closed
          /\ w'.rescueAttempted = y.rescueAttempted /\ w'.terminal = y.terminal
          /\ w'.configWritten = y.configWritten
      BY <3>1, <3>e DEF Wrapper
    <3>5. y.writes = <<>> /\ (y.rescueAttempted \/ x.protocolStopAttempted) /\ ~y.configWritten
          /\ y.failure # "none"
      BY <1>3, <1>5, <2>3, <3>e DEF SameLife, Failing
    <3>6. Good(w', d)
      BY <3>3, <3>4 DEF Good, Whole, Unfailed, Heard, Settled
    <3>f. UNCHANGED <<frames, stop, drained, status>>
      BY <2>0 DEF wireVars
    <3>7. Good(w, delivered)'
      BY <2>0, <3>f, <3>6 DEF Good, Whole, Unfailed, Heard, Settled, HasEnded, Verdict
    <3>8. ConfigFirst(w)'
      BY <1>5, <2>0, <2>3, <3>4, <3>5 DEF ConfigFirst
    <3>9. TypeOK' /\ FramesOK'
      BY <1>0, <2>0, <3>f, <3>4 DEF WrapperInv, TypeOK, FramesOK, HasEnded
    <3>10. SoundInv'
      <4> SUFFICES ASSUME Sound PROVE FramesSound' /\ UnderWay(w)'
        BY DEF SoundInv, Sound, Cleaned
      <4>1. FramesSound'
        BY <1>c, <3>f DEF FramesSound
      <4>2. CASE y.rescueAttempted
        BY <3>4, <4>1, <4>2 DEF UnderWay
      <4>3. CASE x.protocolStopAttempted /\ ~y.rescueAttempted
        <5>1. UnderWay(w) /\ ~w.rescueAttempted
          BY <1>c, <1>3, <3>e, <4>3 DEF Cleaned
        <5>2. \A i \in DOMAIN w.writes : w.writes[i] = "config"
          <6>1. DOMAIN Tail(w.writes) = {}
            BY <1>5, <2>3
          <6> QED BY <1>2, <2>3, <6>1
        <5> QED BY <2>0, <3>f, <4>1, <5>1, <5>2 DEF UnderWay, HasEnded, Verdict
      <4> QED BY <3>5, <4>2, <4>3
    <3> QED BY <3>7, <3>8, <3>9, <3>10 DEF WrapperInv
  <2> QED BY <1>2, <2>1, <2>2, <2>3 DEF OutFrames
<1> QED BY <1>7, <1>8 DEF WriteEvent

(* What any helper may do to the frames: append one, while it runs and the  *)
(* wrapper still reads.                                                     *)
FrameMove ==
  \/ frames' = frames
  \/ /\ ~w.controlEnded /\ ~HasEnded
     /\ \E f \in WireFrames :
          /\ frames' = Append(frames, f) /\ (f = TornFrame => status' # "runs")
          /\ Sound => ~Verdict /\ f # Malformed /\ (f.kind = "EXIT" => drained)

LEMMA HelperKept ==
  ASSUME WrapperInv, SoundInv, UNCHANGED <<w, delivered>>, FrameMove,
         HasEnded => status' = status, status' \in {"runs", "zero", "failed", "killed"},
         stop' \in Reasons, stop # "NoneOrRootExit" => stop' = stop,
         drained' \in BOOLEAN, drained => drained',
         inbox' \in Seq(OutFrames), configured' \in BOOLEAN, ConfigFirst(w)',
         Sound /\ (\E i \in DOMAIN inbox : inbox[i] # "config") => UnderWay(w)'
  PROVE  WrapperInv' /\ SoundInv'
<1>0. /\ frames \in Seq(WireFrames) /\ delivered \in 0..Len(frames) /\ w \in Wrapper
      /\ \A i \in DOMAIN frames : frames[i] = TornFrame => HasEnded /\ i = Len(frames)
      /\ Good(w, delivered)
  BY DEF WrapperInv, TypeOK, FramesOK
<1>1. /\ Len(frames') >= Len(frames) /\ \A i \in 1..Len(frames) : frames'[i] = frames[i]
      /\ w.controlEnded \/ HasEnded => frames' = frames
      /\ FramesOK'
      /\ Sound => FramesSound' /\ (Verdict => Verdict')
  <2>1. CASE frames' = frames
    <3>1. FramesOK'
      BY <1>0, <2>1 DEF FramesOK, HasEnded
    <3>2. Sound => FramesSound'
      BY <2>1 DEF FramesSound, SoundInv
    <3> QED BY <1>0, <2>1, <3>1, <3>2 DEF Verdict
  <2>2. CASE frames' # frames
    <3>1. PICK f \in WireFrames :
            /\ ~w.controlEnded /\ ~HasEnded
            /\ frames' = Append(frames, f) /\ (f = TornFrame => status' # "runs")
            /\ Sound => ~Verdict /\ f # Malformed /\ (f.kind = "EXIT" => drained)
      BY <2>2 DEF FrameMove
    <3>2. /\ frames' \in Seq(WireFrames) /\ Len(frames') = Len(frames) + 1 /\ frames'[Len(frames')] = f
          /\ \A i \in 1..Len(frames) : frames'[i] = frames[i]
          /\ \A i \in DOMAIN frames' : i \in DOMAIN frames \/ i = Len(frames')
      BY <1>0, <3>1
    <3>d. DOMAIN frames = 1..Len(frames)
      BY <1>0
    <3>3. FramesOK'
      BY <1>0, <3>1, <3>2, <3>d DEF FramesOK, HasEnded
    <3>4. ASSUME Sound PROVE FramesSound' /\ ~Verdict
      <4>1. FramesSound /\ ~Verdict
        BY <3>1, <3>4 DEF SoundInv
      <4>2. \A i \in DOMAIN frames : frames[i].kind \notin {"EXIT", "ERROR"}
        BY <1>0, <4>1 DEF FramesSound, Verdict
      <4>3. \A i \in DOMAIN frames' : i # Len(frames') =>
              frames'[i] # Malformed /\ frames'[i].kind \notin {"EXIT", "ERROR"}
        BY <3>2, <3>d, <4>1, <4>2 DEF FramesSound
      <4> QED BY <3>1, <3>2, <3>4, <4>1, <4>3 DEF FramesSound
    <3> QED BY <1>0, <3>1, <3>2, <3>3, <3>4
  <2> QED BY <2>1, <2>2
<1>2. TypeOK'
  <2>1. delivered' \in 0..Len(frames')
    BY <1>0, <1>1 DEF FramesOK
  <2> QED BY <1>0, <2>1 DEF TypeOK
<1>3. HasEnded => HasEnded'
  BY DEF HasEnded
<1>4. Whole(w, delivered)'
  <2>1. Settled(w, delivered)'
    BY <1>0, <1>1 DEF Good, Whole, Settled, HasEnded
  <2>2. w.controlEnded => Verdict' \/ HasEnded'
    BY <1>0, <1>1, <1>3 DEF Good, Whole, Verdict
  <2> QED BY <1>0, <1>1, <1>3, <2>1, <2>2 DEF Good, Whole
<1>5. Unfailed(w, delivered)'
  <2>1. /\ delivered >= 1 => frames'[1] = frames[1]
        /\ delivered = 2 => frames'[2] = frames[2]
    BY <1>0, <1>1
  <2> QED BY <1>0, <2>1 DEF Good, Unfailed, Heard
<1>6. SoundInv'
  <2> SUFFICES ASSUME Sound, Cleaned(w) PROVE Cleaned(w)'
    BY <1>1 DEF SoundInv, Sound
  <2>1. UnderWay(w) => UnderWay(w)'
    BY <1>1, <1>3 DEF UnderWay
  <2> QED BY <2>1 DEF Cleaned
<1> QED BY <1>1, <1>2, <1>4, <1>5, <1>6 DEF WrapperInv, Good

(* The helper, its target, and the kill.                                    *)
LEMMA HelperStep ==
  /\ WrapperInv /\ SoundInv
  /\ HelperMoves \/ HelperWrites \/ TargetDrains \/ HelperKilled
  => WrapperInv' /\ SoundInv'
<1> SUFFICES ASSUME WrapperInv, SoundInv, HelperMoves \/ HelperWrites \/ TargetDrains \/ HelperKilled
             PROVE  WrapperInv' /\ SoundInv'
  OBVIOUS
<1>0. /\ frames \in Seq(WireFrames) /\ stop \in Reasons /\ drained \in BOOLEAN /\ w \in Wrapper
      /\ status \in {"runs", "zero", "failed", "killed"} /\ inbox \in Seq(OutFrames)
      /\ configured \in BOOLEAN /\ ConfigFirst(w)
      /\ w.controlEnded => HasEnded \/ Verdict
  BY DEF WrapperInv, TypeOK, FramesOK, Good, Whole
<1>w. /\ ReadyFrame \in WireFrames /\ ErrorFrame \in WireFrames /\ TornFrame \in WireFrames
      /\ Malformed \in WireFrames /\ \A r \in Reasons : ExitFrame(r) \in WireFrames
  BY DEF WireFrames
<1>k. /\ ReadyFrame # TornFrame /\ ErrorFrame # TornFrame /\ Malformed # TornFrame
      /\ ReadyFrame # Malformed /\ ErrorFrame # Malformed
      /\ ReadyFrame.kind = "READY" /\ ErrorFrame.kind = "ERROR" /\ TornFrame.kind = "TORN"
      /\ Malformed.kind = "BAD"
      /\ \A r : ExitFrame(r).kind = "EXIT" /\ ExitFrame(r) # TornFrame /\ ExitFrame(r) # Malformed
  <2>1. /\ ReadyFrame.kind = "READY" /\ ErrorFrame.kind = "ERROR" /\ TornFrame.kind = "TORN"
        /\ Malformed.kind = "BAD" /\ \A r : ExitFrame(r).kind = "EXIT"
    BY DEF ReadyFrame, ErrorFrame, TornFrame, Malformed, ExitFrame
  <2> QED BY <2>1
<1>v. frames \in {<<>>, <<ReadyFrame>>} => ~Verdict
  BY <1>k DEF Verdict
<1>a. AskReasons \cup {"ProtocolError"} \subseteq Reasons /\ OutFrames = {"config"} \cup AskReasons \cup {"ProtocolError"}
      /\ "NoneOrRootExit" \notin AskReasons /\ "config" \notin Reasons
  BY AskAssumption DEF OrdinaryReasons, TerminateReasons, Reasons, OutFrames
<1>1. CASE HelperReads
  <2> DEFINE head == Head(inbox)
  <2>0. /\ ~HasEnded /\ inbox # <<>> /\ inbox' = Tail(inbox) /\ UNCHANGED <<delivered, w>>
        /\ configured' = (configured \/ head = "config")
        /\ \/ head = "config" /\ UNCHANGED wireVars
           \/ stop # "NoneOrRootExit" /\ UNCHANGED wireVars
           \/ head # "config" /\ Latch(head)
           \/ (drained \/ Verdict) /\ UNCHANGED wireVars
    BY <1>1 DEF HelperReads
  <2>1. /\ head \in OutFrames /\ Tail(inbox) \in Seq(OutFrames) /\ head = inbox[1]
        /\ \A i \in DOMAIN inbox : i = 1 \/ (i - 1 \in DOMAIN Tail(inbox) /\ Tail(inbox)[i - 1] = inbox[i])
    BY <1>0, <2>0
  <2>2. UNCHANGED <<frames, drained, status>> /\ (stop' = stop \/ (head # "config" /\ stop' = head /\ stop = "NoneOrRootExit"))
    BY <2>0 DEF wireVars, Latch
  <2>3. configured' \in BOOLEAN
    BY <1>0, <2>0, Zenon
  <2>4. ConfigFirst(w)'
    BY <1>0, <2>0, <2>1 DEF ConfigFirst, NoConfig
  <2>5. (\E i \in DOMAIN inbox : inbox[i] # "config") => UnderWay(w)'
    <3>1. CASE head # "config"
      <4>1. stop' # "NoneOrRootExit" \/ drained' \/ Verdict'
        <5>1. head # "NoneOrRootExit"
          BY <1>a, <2>1 DEF Reasons, OrdinaryReasons
        <5> QED BY <2>0, <2>2, <3>1, <5>1 DEF wireVars, Latch, Verdict
      <4> QED BY <4>1 DEF UnderWay
    <3>2. CASE head = "config"
      <4> SUFFICES ASSUME NEW i \in DOMAIN inbox, inbox[i] # "config" PROVE UnderWay(w)'
        OBVIOUS
      <4>1. i - 1 \in DOMAIN inbox' /\ inbox'[i - 1] # "config"
        BY <2>0, <2>1, <3>2
      <4>2. \E j \in DOMAIN inbox' : inbox'[j] # "config"
        BY <4>1
      <4> QED BY <4>2 DEF UnderWay
    <3> QED BY <3>1, <3>2
  <2>6. stop' \in Reasons /\ (stop # "NoneOrRootExit" => stop' = stop)
    BY <1>0, <1>a, <2>1, <2>2
  <2>7. inbox' \in Seq(OutFrames)
    BY <2>0, <2>1
  <2> HIDE DEF head
  <2> QED BY <1>0, <2>0, <2>2, <2>3, <2>4, <2>5, <2>6, <2>7, HelperKept DEF FrameMove
<1>2. CASE HelperSeesEof
  <2>1. /\ inbox = <<>> /\ UNCHANGED <<inbox, configured, delivered, w, frames, drained, status>>
        /\ stop' = "SessionShutdown" /\ stop = "NoneOrRootExit"
    BY <1>2 DEF HelperSeesEof, Latch, HelperVars
  <2>2. stop' \in Reasons
    BY <2>1 DEF Reasons, TerminateReasons, OrdinaryReasons
  <2>3. ConfigFirst(w)'
    BY <1>0, <2>1 DEF ConfigFirst, NoConfig
  <2>4. ~ \E i \in DOMAIN inbox : inbox[i] # "config"
    BY <2>1
  <2> QED BY <1>0, <2>1, <2>2, <2>3, <2>4, HelperKept DEF FrameMove
<1>3. ASSUME UNCHANGED <<inbox, configured, delivered, w, stop>>, FrameMove,
             HasEnded => status' = status, status' \in {"runs", "zero", "failed", "killed"},
             drained' \in BOOLEAN, drained => drained'
      PROVE  WrapperInv' /\ SoundInv'
  <2>1. ConfigFirst(w)'
    BY <1>0, <1>3 DEF ConfigFirst, NoConfig
  <2>2. (\E i \in DOMAIN inbox : inbox[i] # "config") => UnderWay(w)'
    BY <1>3 DEF UnderWay
  <2> QED BY <1>0, <1>3, <2>1, <2>2, HelperKept
<1>4. CASE TargetDrains
  BY <1>0, <1>3, <1>4 DEF TargetDrains, Drain, HelperVars, FrameMove
<1>5. CASE HelperKilled
  <2>0. /\ UNCHANGED <<inbox, configured, delivered, w, stop, drained>> /\ ~HasEnded /\ status' = "killed"
        /\ frames' = frames \/ (~Verdict /\ frames' = Append(frames, TornFrame))
    BY <1>5 DEF HelperKilled, Killed, HelperVars
  <2>1. FrameMove
    BY <1>0, <1>w, <1>k, <2>0 DEF FrameMove
  <2> QED BY <1>0, <1>3, <2>0, <2>1
<1>6. CASE HelperWrites
  <2>0. UNCHANGED <<inbox, configured, delivered, w>> /\ (HelperActs \/ RogueActs)
    BY <1>6 DEF HelperWrites, HelperVars
  <2>1. CASE Sound /\ WriteReady
    <3>1. /\ UNCHANGED <<stop, drained, status>> /\ ~HasEnded /\ ~Verdict
          /\ frames' = Append(frames, ReadyFrame)
      BY <1>v, <2>1 DEF WriteReady, Writes
    <3>2. FrameMove
      BY <1>0, <1>w, <1>k, <3>1 DEF FrameMove
    <3> QED BY <1>0, <1>3, <2>0, <3>1, <3>2
  <2>2. CASE Sound /\ WriteExit
    <3>1. /\ UNCHANGED <<stop, drained, status>> /\ ~HasEnded /\ ~Verdict /\ drained
          /\ frames' = Append(frames, ExitFrame(stop))
      BY <1>v, <2>2 DEF WriteExit, Writes
    <3>2. FrameMove
      BY <1>0, <1>w, <1>k, <3>1 DEF FrameMove
    <3> QED BY <1>0, <1>3, <2>0, <3>1, <3>2
  <2>3. CASE Sound /\ WriteError
    <3>1. /\ UNCHANGED <<stop, drained, status>> /\ ~HasEnded /\ ~Verdict
          /\ frames' = Append(frames, ErrorFrame)
      BY <1>v, <2>3 DEF WriteError, Writes
    <3>2. FrameMove
      BY <1>0, <1>w, <1>k, <3>1 DEF FrameMove
    <3> QED BY <1>0, <1>3, <2>0, <3>1, <3>2
  <2>4. CASE Sound /\ Leave
    <3>1. UNCHANGED <<frames, stop, drained>> /\ ~HasEnded /\ status' \in {"zero", "failed"}
      BY <2>4 DEF Leave
    <3> QED BY <1>0, <1>3, <2>0, <3>1 DEF FrameMove
  <2>5. CASE RogueActs
    <3>0. ~Sound /\ ~HasEnded
      BY <2>5 DEF RogueActs
    <3>1. CASE status' \in {"zero", "failed"} /\ UNCHANGED <<frames, stop, drained>>
      BY <1>0, <1>3, <2>0, <3>0, <3>1 DEF FrameMove
    <3>2. CASE ~w.controlEnded
               /\ \E frame \in {ReadyFrame, ErrorFrame, Malformed}
                               \cup {ExitFrame(r) : r \in {"NoneOrRootExit"} \cup AskReasons} : Writes(frame)
      <4>1. PICK frame \in {ReadyFrame, ErrorFrame, Malformed}
                           \cup {ExitFrame(r) : r \in {"NoneOrRootExit"} \cup AskReasons} : Writes(frame)
        BY <3>2
      <4>2. frame \in WireFrames /\ frame # TornFrame
        BY <1>w, <1>k, <1>a DEF Reasons
      <4>3. frames' = Append(frames, frame) /\ UNCHANGED <<stop, drained, status>>
        BY <4>1 DEF Writes
      <4>4. FrameMove
        BY <3>0, <3>2, <4>2, <4>3 DEF FrameMove
      <4> QED BY <1>0, <1>3, <2>0, <4>3, <4>4
    <3> QED BY <2>5, <3>1, <3>2 DEF RogueActs
  <2> QED BY <2>0, <2>1, <2>2, <2>3, <2>4, <2>5 DEF HelperActs
<1> QED BY <1>1, <1>2, <1>4, <1>5, <1>6 DEF HelperMoves

(* The helper could not be started: there is no frame, and it has ended.    *)
LEMMA SpawnStep == WrapperInv /\ SoundInv /\ SpawnFails => WrapperInv' /\ SoundInv'
<1> SUFFICES ASSUME WrapperInv, SoundInv, SpawnFails PROVE WrapperInv' /\ SoundInv'
  OBVIOUS
<1>0. /\ ~HasEnded /\ frames = <<>> /\ status' = "killed" /\ w' = FailAndClean(w, "spawn_failed")
      /\ UNCHANGED <<frames, stop, drained, inbox, configured, delivered>>
  BY DEF SpawnFails
<1>1. /\ w \in Wrapper /\ delivered \in Nat /\ Whole(w, delivered) /\ "spawn_failed" \in FailureCodes
  BY DEF WrapperInv, Good, Whole, TypeOK, FramesOK, FailureCodes
<1>2. Good(w', delivered) /\ Quietly(w, w')
  BY <1>0, <1>1, FailAndCleanKeeps
<1>3. HasEnded'
  BY <1>0 DEF HasEnded
<1>4. Settled(w', delivered) => w'.closed \in {"pending", "rejected"}
  BY <1>0 DEF Settled
<1>5. Good(w, delivered)'
  BY <1>0, <1>2, <1>3, <1>4 DEF Good, Whole, Unfailed, Heard, Settled, Verdict
<1>6. TypeOK' /\ FramesOK'
  BY <1>0, <1>2, <1>3 DEF WrapperInv, TypeOK, FramesOK, Good, Whole
<1>7. ConfigFirst(w)'
  BY <1>0, <1>2 DEF WrapperInv, ConfigFirst, Quietly, NoConfig
<1>8. SoundInv'
  BY <1>0, <1>3 DEF SoundInv, FramesSound, Cleaned, UnderWay, Sound
<1> QED BY <1>5, <1>6, <1>7, <1>8 DEF WrapperInv

LEMMA WrapperStart == Init => WrapperInv /\ SoundInv
<1> SUFFICES ASSUME Init PROVE WrapperInv /\ SoundInv
  OBVIOUS
<1>1. /\ frames = <<>> /\ stop = "NoneOrRootExit" /\ drained = FALSE /\ status = "runs"
      /\ inbox = <<>> /\ configured = FALSE /\ delivered = 0
  BY DEF Init, WireInit
<1>2. <<"config">> \in Seq(OutFrames) /\ <<"config">>[1] = "config"
  BY DEF OutFrames
<1>3. /\ w \in Wrapper /\ w.failure = "none" /\ w.ready = "pending" /\ ~w.readySeen
      /\ w.terminal = NoTerminal /\ w.decoder = "ok" /\ ~w.controlEnded /\ ~w.processClosed
      /\ ~w.rescueAttempted /\ ~w.protocolStopAttempted /\ ~w.configWritten /\ ~w.returned
      /\ w.expected = "none" /\ w.termination = "none" /\ w.closed = "pending"
      /\ w.writes = <<"config">>
  BY <1>2 DEF Init, Wrapper
<1>e. frames \in Seq(WireFrames) /\ inbox \in Seq(OutFrames) /\ DOMAIN frames = {} /\ Len(frames) = 0
  BY <1>1
<1>4. TypeOK /\ FramesOK
  <2>1. FramesOK
    BY <1>e DEF FramesOK
  <2>2. stop \in Reasons /\ status \in {"runs", "zero", "failed", "killed"}
    BY <1>1 DEF Reasons
  <2>3. delivered \in 0..Len(frames)
    BY <1>1, <1>e
  <2>4. drained \in BOOLEAN /\ configured \in BOOLEAN
    BY <1>1
  <2> QED BY <1>3, <1>e, <2>1, <2>2, <2>3, <2>4 DEF TypeOK
<1>5. ConfigFirst(w)
  BY <1>1, <1>3 DEF ConfigFirst
<1>6. Good(w, delivered)
  BY <1>1, <1>3 DEF Good, Whole, Unfailed, Heard, Settled, NoTerminal, ErrorFrame
<1>7. SoundInv
  BY <1>1, <1>3 DEF SoundInv, FramesSound, Cleaned
<1> QED BY <1>4, <1>5, <1>6, <1>7 DEF WrapperInv

LEMMA WrapperStep == WrapperInv /\ SoundInv /\ [Next]_vars => WrapperInv' /\ SoundInv'
<1> SUFFICES ASSUME WrapperInv, SoundInv, [Next]_vars PROVE WrapperInv' /\ SoundInv'
  OBVIOUS
<1>1. CASE Over \/ UNCHANGED vars
  <2>1. UNCHANGED <<wireVars, w, inbox, configured, delivered>>
    BY <1>1 DEF Over, vars
  <2>2. Good(w, delivered) /\ delivered \in 0..Len(frames) /\ (Sound => Cleaned(w)) /\ Quietly(w, w)
    BY DEF WrapperInv, TypeOK, SoundInv, Quietly
  <2> QED BY <2>1, <2>2, WrapperKept
<1> QED BY <1>1, SocketStep, ProcessStep, WriteStep, HelperStep, SpawnStep DEF Next

(* Every variable of the wrapper and of its pipes keeps its type, whatever  *)
(* the helper writes.                                                       *)
THEOREM WrapperTypeCorrect == Spec => []TypeOK
  BY WrapperStart, WrapperStep, PTL DEF Spec, WrapperInv

(* closed resolves on READY, one EXIT with a reason the caller can have     *)
(* asked for, status 0 and closed streams, and on nothing else, whatever    *)
(* the helper writes (onFrame, trySettle).                                  *)
THEOREM CompletionsAreProven == Spec => []CompletionIsProven
<1>1. WrapperInv => CompletionIsProven
  BY DEF WrapperInv, Good, Whole, Settled, CompletionIsProven, Completed
<1> QED BY WrapperStart, WrapperStep, <1>1, PTL DEF Spec

(* The helper reads its configuration before anything else, also when it    *)
(* could not be written (the catch of the configuration write).             *)
THEOREM ConfigurationComesFirst == Spec => []NothingBeforeConfig
<1>1. WrapperInv => NothingBeforeConfig
  BY DEF WrapperInv, ConfigFirst, NothingBeforeConfig
<1> QED BY WrapperStart, WrapperStep, <1>1, PTL DEF Spec

(* With a helper that keeps to HelperWire, a recorded failure is being      *)
(* cleaned up until the helper has decided or ended (failAndClean,          *)
(* requestPrivateProtocolStop, rescueWithRetainedHandle).                   *)
THEOREM FailuresAreCleanedUp == Sound /\ Spec => []FailureIsCleanedUp
<1>1. Sound /\ SoundInv => FailureIsCleanedUp
  BY DEF SoundInv, Cleaned, UnderWay, FailureIsCleanedUp
<1>2. Sound => Sound'
  BY DEF Sound
<1> QED BY WrapperStart, WrapperStep, <1>1, <1>2, PTL DEF Spec

-----------------------------------------------------------------------------
(* The wrapper and its helper are one owned agent *)

(* What a function of the closure does to the promises, and what a handler  *)
(* does.                                                                    *)
Noted(x, y) ==
  /\ y.closed = x.closed /\ y.expected = x.expected
  /\ y.ready = x.ready \/ (x.ready = "pending" /\ y.ready = "rejected")

Outward(x, y) ==
  /\ y.expected = x.expected
  /\ \/ y.ready = x.ready /\ y.closed = x.closed
     \/ x.ready = "pending" /\ y.ready \in {"resolved", "rejected"} /\ y.closed = x.closed
     \/ /\ x.closed = "pending" /\ y.closed = "rejected"
        /\ y.ready = IF x.ready = "pending" THEN "rejected" ELSE x.ready
     \/ x.closed = "pending" /\ y.ready = x.ready /\ y.closed \in Reasons

(* A failure is recorded of every rejection and of every reported error.    *)
Consistent(x) ==
  /\ x.terminal = ErrorFrame => x.failure # "none"
  /\ x.ready = "rejected" => x.failure # "none"
  /\ x.failure # "none" => x.ready # "pending"

LEMMA FailuresAreNoted ==
  ASSUME NEW x \in Wrapper, NEW code \in FailureCodes, x.failure # "none" => x.ready # "pending"
  PROVE  /\ Noted(x, FailAndClean(x, code)) /\ FailAndClean(x, code) \in Wrapper
         /\ Consistent(FailAndClean(x, code))
         /\ Noted(x, RecordFailure(x, code)) /\ RecordFailure(x, code) \in Wrapper
         /\ Consistent(RecordFailure(x, code))
         /\ Noted(x, RescueWithRetainedHandle(x))
<1>1. ASSUME NEW y, SameLife(x, y), Failing(x, y), y.closed = x.closed
      PROVE  Noted(x, y) /\ Consistent(y)
  BY <1>1 DEF Noted, SameLife, Failing, Consistent
<1>2. Noted(x, RescueWithRetainedHandle(x))
  BY RescueEffect DEF Noted, SameLife
<1> QED BY <1>1, <1>2, FailAndCleanEffect, RecordFailureEffect

LEMMA NotedOn ==
  ASSUME NEW x, NEW y, NEW z, Noted(x, y), Noted(y, z)
  PROVE  Noted(x, z)
  BY DEF Noted

LEMMA SettlingIsOutward ==
  ASSUME NEW x \in Wrapper, NEW y \in Wrapper, Noted(x, y), Consistent(y)
  PROVE  Outward(x, TrySettle(y))
<1> DEFINE z == TrySettle(y)
<1>1. /\ SameLife(y, z)
      /\ \/ z = y
         \/ y.closed = "pending" /\ z.closed = "rejected" /\ Failing(y, z)
         \/ y.closed = "pending" /\ z.ready = y.ready /\ z.closed \in Reasons /\ y.failure = "none"
  BY TrySettleEffect DEF Consistent
<1>2. y.ready = x.ready \/ (x.ready = "pending" /\ y.ready = "rejected")
  BY DEF Noted
<1> HIDE DEF z
<1>3. CASE z = y
  BY <1>3 DEF Noted, Outward, z
<1>4. CASE y.closed = "pending" /\ z.closed = "rejected" /\ Failing(y, z)
  <2>1. z.ready = IF x.ready = "pending" THEN "rejected" ELSE x.ready
    BY <1>2, <1>4 DEF Failing, Consistent
  <2>2. x.closed = "pending" /\ z.expected = x.expected
    BY <1>1, <1>4 DEF Noted, SameLife
  <2> QED BY <1>4, <2>1, <2>2 DEF Outward, z
<1>5. CASE y.closed = "pending" /\ z.ready = y.ready /\ z.closed \in Reasons /\ y.failure = "none"
  <2>1. y.ready = x.ready
    BY <1>2, <1>5 DEF Consistent
  <2>2. x.closed = "pending" /\ z.expected = x.expected
    BY <1>1, <1>5 DEF Noted, SameLife
  <2> QED BY <1>5, <2>1, <2>2 DEF Outward, z
<1> QED BY <1>1, <1>3, <1>4, <1>5

(* What the handlers of the Node loop do to the promises.                   *)
LEMMA HandlersAreOutward ==
  /\ WrapperInv
  /\ SocketEvent \/ ControlError \/ WriteEvent \/ StreamEvent \/ StdError \/ SpawnFails \/ ChildClose
  => Outward(w, w') /\ drained' = drained
<1> SUFFICES ASSUME WrapperInv,
                    \/ SocketEvent \/ ControlError \/ WriteEvent \/ StreamEvent \/ StdError
                    \/ SpawnFails \/ ChildClose
             PROVE  Outward(w, w') /\ drained' = drained
  OBVIOUS
<1>0. /\ w \in Wrapper /\ Consistent(w) /\ Whole(w, delivered) /\ Unfailed(w, delivered)
      /\ frames \in Seq(WireFrames) /\ delivered \in 0..Len(frames)
  BY DEF WrapperInv, Good, Whole, TypeOK, FramesOK, Consistent, Unfailed
<1>c. FailureCodes = {"spawn_failed", "control_failed", "protocol_failed", "helper_reported_failure",
                      "helper_exit_failed", "stdio_failed", "termination_failed"}
  BY DEF FailureCodes
<1>d. drained' = drained
  BY DEF SocketEvent, ControlData, ControlDataMalformed, ControlEnd, ControlClose, ControlError,
         WriteEvent, WriteSucceeds, WriteFails, StreamEvent, StdClose, StdError, SpawnFails, ChildClose,
         wireVars
<1>n. ASSUME NEW y, Noted(w, y) PROVE Outward(w, y)
  BY <1>n DEF Noted, Outward
<1>f. ASSUME NEW code \in FailureCodes
      PROVE  Noted(w, FailAndClean(w, code)) /\ Noted(w, RecordFailure(w, code))
             /\ RecordFailure(w, code) \in Wrapper
  BY <1>0, <1>f, FailuresAreNoted DEF Consistent
<1>1. CASE ControlData
  <2> DEFINE frame == frames[delivered + 1]
  <2>0. /\ delivered < Len(frames) /\ frame # Malformed
        /\ w' = IF w.decoder = "failed" THEN FailAndClean(w, "protocol_failed")
                ELSE IF frame = TornFrame THEN [w EXCEPT !.decoder = "partial"]
                ELSE OnFrame(w, frame)
    BY <1>1 DEF ControlData, Readable
  <2>1. CASE w' = FailAndClean(w, "protocol_failed")
    BY <1>c, <1>d, <1>f, <1>n, <2>1
  <2>2. CASE w' = [w EXCEPT !.decoder = "partial"]
    BY <1>0, <1>d, <2>2 DEF Wrapper, Outward
  <2>3. CASE frame # TornFrame /\ w' = OnFrame(w, frame)
    <3>0. frame = ReadyFrame \/ frame = ErrorFrame \/ \E r \in Reasons : frame = ExitFrame(r)
      BY <1>0, <2>0, <2>3 DEF WireFrames
    <3>1. CASE w.terminal # NoTerminal
      BY <2>1, <2>3, <3>1 DEF OnFrame
    <3>2. CASE w.terminal = NoTerminal /\ frame = ErrorFrame
      <4> DEFINE x == [w EXCEPT !.terminal = frame]
      <4>1. w' = RecordFailure(x, "helper_reported_failure")
        BY <2>3, <3>2 DEF OnFrame, ErrorFrame
      <4>2. x \in Wrapper /\ Noted(w, x) /\ x.failure = w.failure /\ x.ready = w.ready
        BY <1>0, <3>2 DEF Wrapper, Noted
      <4> HIDE DEF x
      <4> QED BY <1>0, <1>c, <1>d, <1>n, <4>1, <4>2, FailuresAreNoted, NotedOn DEF Consistent
    <3>3. CASE w.terminal = NoTerminal /\ frame = ReadyFrame
      <4>1. CASE w.readySeen
        BY <2>1, <2>3, <3>3, <4>1 DEF OnFrame, ReadyFrame
      <4>2. CASE ~w.readySeen
        <5> DEFINE r == IF w.ready = "pending" THEN "resolved" ELSE w.ready
        <5>1. w' = [w EXCEPT !.readySeen = TRUE, !.ready = r]
          BY <1>0, <2>3, <3>3, <4>2 DEF OnFrame, ReadyFrame, Wrapper
        <5>2. r = w.ready \/ (w.ready = "pending" /\ r = "resolved")
          OBVIOUS
        <5> HIDE DEF r
        <5>3. w'.ready = r /\ w'.closed = w.closed /\ w'.expected = w.expected
          BY <1>0, <5>1 DEF Wrapper
        <5> QED BY <1>d, <5>2, <5>3 DEF Outward
      <4> QED BY <4>1, <4>2
    <3>4. CASE w.terminal = NoTerminal /\ \E r \in Reasons : frame = ExitFrame(r)
      <4>k. frame.kind = "EXIT"
        BY <3>4 DEF ExitFrame
      <4>1. CASE ~w.readySeen
        BY <2>1, <2>3, <3>4, <4>k, <4>1 DEF OnFrame
      <4>2. CASE w.readySeen /\ ~Expected(w, frame)
        <5> DEFINE x == RecordFailure(w, "protocol_failed")
        <5>1. w' = RescueWithRetainedHandle(x)
          BY <2>3, <3>4, <4>k, <4>2 DEF OnFrame
        <5>2. Noted(w, x) /\ x \in Wrapper
          BY <1>c, <1>f
        <5> HIDE DEF x
        <5>3. Noted(x, w')
          BY <5>1, <5>2, RescueEffect DEF Noted, SameLife
        <5> QED BY <1>d, <1>n, <5>2, <5>3, NotedOn
      <4>3. CASE w.readySeen /\ Expected(w, frame)
        <5>1. w' = [w EXCEPT !.terminal = frame]
          BY <2>3, <3>4, <4>k, <4>3 DEF OnFrame
        <5> QED BY <1>0, <1>d, <5>1 DEF Wrapper, Outward
      <4> QED BY <4>1, <4>2, <4>3
    <3> QED BY <3>0, <3>1, <3>2, <3>3, <3>4
  <2> QED BY <2>0, <2>1, <2>2, <2>3
<1>2. CASE ControlDataMalformed
  <2> DEFINE x == [w EXCEPT !.decoder = "failed"]
  <2>1. w' = FailAndClean(x, "protocol_failed")
    BY <1>2 DEF ControlDataMalformed
  <2>2. x \in Wrapper /\ Noted(w, x) /\ x.failure = w.failure /\ x.ready = w.ready
    BY <1>0 DEF Wrapper, Noted
  <2> HIDE DEF x
  <2> QED BY <1>0, <1>c, <1>d, <1>n, <2>1, <2>2, FailuresAreNoted, NotedOn DEF Consistent
<1>s. ASSUME NEW x \in Wrapper, Noted(w, x), Consistent(x),
             w' = TrySettle(IF x.terminal = NoTerminal THEN FailAndClean(x, "control_failed") ELSE x)
      PROVE  Outward(w, w')
  <2>1. CASE x.terminal = NoTerminal
    <3> DEFINE y == FailAndClean(x, "control_failed")
    <3>1. y \in Wrapper /\ Noted(x, y) /\ Consistent(y)
      BY <1>c, <1>s, FailuresAreNoted DEF Consistent
    <3>2. w' = TrySettle(y)
      BY <1>s, <2>1
    <3> HIDE DEF y
    <3>3. Noted(w, y)
      BY <1>s, <3>1, NotedOn
    <3> QED BY <1>0, <3>1, <3>2, <3>3, SettlingIsOutward
  <2>2. CASE x.terminal # NoTerminal
    BY <1>0, <1>s, <2>2, SettlingIsOutward
  <2> QED BY <2>1, <2>2
<1>u. ASSUME NEW x \in Wrapper, Noted(w, x), Consistent(x), NEW code \in FailureCodes, NEW cond
      PROVE  /\ FailUnless(x, cond, code) \in Wrapper /\ Noted(w, FailUnless(x, cond, code))
             /\ Consistent(FailUnless(x, cond, code))
  <2>1. CASE cond
    <3>1. FailUnless(x, cond, code) = x
      BY <2>1 DEF FailUnless
    <3> QED BY <1>u, <3>1
  <2>2. CASE ~cond
    <3>1. FailUnless(x, cond, code) = RecordFailure(x, code)
      BY <2>2 DEF FailUnless
    <3> QED BY <1>u, <3>1, FailuresAreNoted, NotedOn DEF Consistent
  <2> QED BY <2>1, <2>2
<1>3. CASE ControlEnd
  <2> DEFINE x == [w EXCEPT !.controlEnded = TRUE]
             y == FailUnless(x, w.decoder = "ok", "protocol_failed")
  <2>1. w' = TrySettle(IF y.terminal = NoTerminal THEN FailAndClean(y, "control_failed") ELSE y)
    BY <1>3 DEF ControlEnd
  <2>2. x \in Wrapper /\ Noted(w, x) /\ Consistent(x)
    BY <1>0 DEF Wrapper, Noted, Consistent
  <2> HIDE DEF x
  <2>3. y \in Wrapper /\ Noted(w, y) /\ Consistent(y)
    BY <1>c, <1>u, <2>2
  <2> HIDE DEF y
  <2> QED BY <1>d, <1>s, <2>1, <2>3
<1>4. CASE ControlClose
  <2> DEFINE x == [w EXCEPT !.controlClosed = TRUE]
  <2>1. w' = TrySettle(IF x.terminal = NoTerminal THEN FailAndClean(x, "control_failed") ELSE x)
    BY <1>4 DEF ControlClose
  <2>2. x \in Wrapper /\ Noted(w, x) /\ Consistent(x)
    BY <1>0 DEF Wrapper, Noted, Consistent
  <2> HIDE DEF x
  <2> QED BY <1>d, <1>s, <2>1, <2>2
<1>5. CASE ControlError
  <2> DEFINE x == [w EXCEPT !.controlBroken = TRUE]
             y == RecordFailure(x, "control_failed")
  <2>1. w' = RescueWithRetainedHandle(y)
    BY <1>5 DEF ControlError
  <2>2. x \in Wrapper /\ Noted(w, x) /\ x.failure = w.failure /\ x.ready = w.ready
    BY <1>0 DEF Wrapper, Noted
  <2> HIDE DEF x
  <2>3. y \in Wrapper /\ Noted(x, y)
    BY <1>0, <1>c, <2>2, FailuresAreNoted DEF Consistent
  <2> HIDE DEF y
  <2>4. Noted(y, w')
    BY <2>1, <2>3, RescueEffect DEF Noted, SameLife
  <2> QED BY <1>d, <1>n, <2>2, <2>3, <2>4, NotedOn
<1>6. CASE WriteEvent
  <2> DEFINE head == Head(w.writes)
             x == [w EXCEPT !.writes = Tail(@)]
  <2>0. w.writes # <<>> /\ w.writes \in Seq(OutFrames)
    BY <1>0, <1>6 DEF WriteEvent, WriteSucceeds, WriteFails, Wrapper
  <2>1. Tail(w.writes) \in Seq(OutFrames) /\ head \in OutFrames
    BY <2>0
  <2>a. "config" \notin AskReasons /\ "ProtocolError" \notin AskReasons
    BY AskAssumption DEF OrdinaryReasons
  <2>2. x \in Wrapper /\ Noted(w, x) /\ x.failure = w.failure /\ x.ready = w.ready
        /\ x.closed = w.closed /\ x.expected = w.expected
    BY <1>0, <2>1 DEF Wrapper, Noted
  <2> HIDE DEF x, head
  <2>3. CASE WriteSucceeds
    <3>0. w' = CASE head = "config" -> [x EXCEPT !.configWritten = TRUE, !.returned = TRUE]
                 [] head = "ProtocolError" -> x
                 [] head \in AskReasons -> [x EXCEPT !.termination = "resolved"]
      BY <2>3 DEF WriteSucceeds, x, head
    <3>1. \/ w' = [x EXCEPT !.configWritten = TRUE, !.returned = TRUE]
          \/ w' = x \/ w' = [x EXCEPT !.termination = "resolved"]
      BY <2>1, <2>a, <3>0 DEF OutFrames
    <3>2. w'.ready = w.ready /\ w'.closed = w.closed /\ w'.expected = w.expected
      BY <2>2, <3>1 DEF Wrapper
    <3> QED BY <1>d, <3>2 DEF Outward
  <2>4. CASE WriteFails
    <3>0. w' = CASE head = "config" -> [FailAndClean(x, "control_failed") EXCEPT !.returned = TRUE]
                 [] head = "ProtocolError" -> RescueWithRetainedHandle(x)
                 [] head \in AskReasons ->
                      [FailAndClean(x, "termination_failed") EXCEPT !.termination = "rejected"]
      BY <2>4 DEF WriteFails, x, head
    <3>1. \/ w' = [FailAndClean(x, "control_failed") EXCEPT !.returned = TRUE]
          \/ w' = RescueWithRetainedHandle(x)
          \/ w' = [FailAndClean(x, "termination_failed") EXCEPT !.termination = "rejected"]
      BY <2>1, <2>a, <3>0 DEF OutFrames
    <3>2. ASSUME NEW y \in Wrapper
          PROVE  Noted(y, [y EXCEPT !.returned = TRUE]) /\ Noted(y, [y EXCEPT !.termination = "rejected"])
      BY DEF Wrapper, Noted
    <3>3. /\ Noted(x, FailAndClean(x, "control_failed")) /\ FailAndClean(x, "control_failed") \in Wrapper
          /\ Noted(x, FailAndClean(x, "termination_failed"))
          /\ FailAndClean(x, "termination_failed") \in Wrapper /\ Noted(x, RescueWithRetainedHandle(x))
      BY <1>0, <1>c, <2>2, FailuresAreNoted DEF Consistent
    <3>4. Noted(x, w')
      BY <3>1, <3>2, <3>3, NotedOn
    <3> QED BY <1>d, <1>n, <2>2, <3>4, NotedOn
  <2> QED BY <1>6, <2>3, <2>4 DEF WriteEvent
<1>7. CASE StreamEvent
  <2>0. PICK s \in StdStreams : StdClose(s)
    BY <1>7 DEF StreamEvent
  <2> DEFINE x == [w EXCEPT !.open = @ \ {s}]
  <2>1. w' = TrySettle(x)
    BY <2>0 DEF StdClose
  <2>2. x \in Wrapper /\ Noted(w, x) /\ Consistent(x)
    BY <1>0 DEF Wrapper, Noted, Consistent
  <2> HIDE DEF x
  <2> QED BY <1>0, <1>d, <2>1, <2>2, SettlingIsOutward
<1>8. CASE StdError
  BY <1>8, <1>c, <1>d, <1>f, <1>n DEF StdError
<1>9. CASE SpawnFails
  BY <1>9, <1>c, <1>d, <1>f, <1>n DEF SpawnFails
<1>10. CASE ChildClose
  <2> DEFINE x == [w EXCEPT !.processClosed = TRUE]
             y == FailUnless(x, w.terminal # NoTerminal, "helper_exit_failed")
  <2>1. w' = TrySettle(y)
    BY <1>10 DEF ChildClose
  <2>2. x \in Wrapper /\ Noted(w, x) /\ Consistent(x)
    BY <1>0 DEF Wrapper, Noted, Consistent
  <2> HIDE DEF x
  <2>3. y \in Wrapper /\ Noted(w, y) /\ Consistent(y)
    BY <1>c, <1>u, <2>2
  <2> HIDE DEF y
  <2> QED BY <1>0, <1>d, <2>1, <2>3, SettlingIsOutward
<1> QED BY <1>1, <1>2, <1>3, <1>4, <1>5, <1>6, <1>7, <1>8, <1>9, <1>10 DEF SocketEvent

(* With a helper that keeps to HelperWire, every step of the wrapper and of *)
(* the helper is a step of the owned agent that the adapters rely on, or    *)
(* nothing to them.                                                         *)
LEMMA AgentStep ==
  /\ Sound /\ WrapperInv /\ SoundInv /\ [Next]_vars /\ WrapperInv' /\ SoundInv'
  => [Agent!Next]_(Agent!vars)
<1> SUFFICES ASSUME Sound, WrapperInv, SoundInv, [Next]_vars, WrapperInv', SoundInv'
             PROVE  [Agent!Next]_(Agent!vars)
  OBVIOUS
<1>1. ASSUME Outward(w, w'), drained' = drained PROVE [Agent!Next]_(Agent!vars)
  <2>1. CASE w'.ready = w.ready /\ w'.closed = w.closed
    BY <1>1, <2>1 DEF Agent!vars, Outward
  <2>2. CASE w.ready = "pending" /\ w'.ready \in {"resolved", "rejected"} /\ w'.closed = w.closed
    BY <1>1, <2>2 DEF Agent!Next, Agent!Announce, Outward
  <2>3. CASE /\ w.closed = "pending" /\ w'.closed = "rejected"
             /\ w'.ready = IF w.ready = "pending" THEN "rejected" ELSE w.ready
    BY <1>1, <2>3 DEF Agent!Next, Agent!Fail, Outward
  <2>4. CASE w.closed = "pending" /\ w'.ready = w.ready /\ w'.closed \in Reasons
    <3>1. w'.closed \notin {"pending", "rejected", "none"}
      BY <2>4 DEF Reasons, TerminateReasons, OrdinaryReasons
    <3>2. /\ frames' = <<ReadyFrame, ExitFrame(w'.closed)>> /\ w'.ready = "resolved"
          /\ w'.closed \in {"NoneOrRootExit", w'.expected}
      BY <3>1 DEF WrapperInv, Good, Whole, Settled
    <3>3. drained'
      <4>1. 2 \in DOMAIN frames' /\ frames'[2].kind = "EXIT"
        BY <3>2 DEF ExitFrame
      <4> QED BY <4>1 DEF SoundInv, FramesSound, Sound
    <3> QED BY <1>1, <2>4, <3>1, <3>2, <3>3 DEF Agent!Next, Agent!Complete, Outward
  <2> QED BY <1>1, <2>1, <2>2, <2>3, <2>4 DEF Outward
<1>2. ASSUME w' = w, drained' = drained PROVE [Agent!Next]_(Agent!vars)
  BY <1>2 DEF Agent!vars
<1>3. CASE \E reason \in AskReasons : Terminate(reason)
  <2>0. PICK reason \in AskReasons : Terminate(reason)
    BY <1>3
  <2>1. w \in Wrapper /\ drained' = drained /\ w.expected = "none" /\ reason \in OrdinaryReasons
    BY <2>0, AskAssumption DEF WrapperInv, Good, Whole, Terminate, wireVars
  <2>2. CASE w' = [w EXCEPT !.termination = "resolved"]
    BY <2>1, <2>2 DEF Wrapper, Agent!vars
  <2>3. CASE w' = [w EXCEPT !.termination = "pending", !.expected = reason,
                            !.writes = Append(@, reason)]
    <3>1. w'.ready = w.ready /\ w'.closed = w.closed /\ w'.expected = reason
      BY <2>1, <2>3 DEF Wrapper
    <3>2. Agent!OrdinaryReasons = OrdinaryReasons
      BY DEF Agent!OrdinaryReasons, OrdinaryReasons
    <3> QED BY <2>1, <3>1, <3>2 DEF Agent!Next, Agent!Ask
  <2> QED BY <2>0, <2>2, <2>3 DEF Terminate
<1>4. CASE TargetDrains
  <2>1. w' = w /\ ~drained /\ drained' = TRUE
    BY <1>4 DEF TargetDrains, Drain, HelperVars
  <2> QED BY <2>1 DEF Agent!Next, Agent!Vanish
<1>5. CASE HelperMoves \/ HelperWrites \/ HelperKilled \/ Over \/ UNCHANGED vars
  <2>1. w' = w
    BY <1>5 DEF HelperMoves, HelperReads, HelperSeesEof, HelperWrites, HelperKilled, Over, vars, HelperVars
  <2>2. drained' = drained
    BY <1>5
    DEF HelperMoves, HelperReads, HelperSeesEof, HelperWrites, HelperActs, RogueActs, HelperKilled, Killed,
        Over, vars, wireVars, Latch, WriteReady, WriteExit, WriteError, Writes, Leave
  <2> QED BY <1>2, <2>1, <2>2
<1> QED BY <1>1, <1>3, <1>4, <1>5, HandlersAreOutward DEF Next

(* An adapter that holds an owned process holds an OwnedAgent: ready and    *)
(* closed settle at most once, and closed is a reason only of a target that *)
(* is gone (spawnWindowsOwnedAgentProcess).                                 *)
THEOREM IsAnOwnedAgent == Sound /\ Spec => ImplementsAgent
<1>1. Init => Agent!Init
  BY DEF Init, WireInit, Agent!Init
<1>2. Sound => Sound'
  BY DEF Sound
<1> QED BY WrapperStart, WrapperStep, AgentStep, <1>1, <1>2, PTL DEF Spec, ImplementsAgent, Agent!Spec

-----------------------------------------------------------------------------
(* The decoder of the frames.  What is found at a place in a line of bytes;   *)
(* the numbers, texts and frames that are found there and what is read of     *)
(* them; the buffer; and the invariant of the decoder.                        *)

(* Division: every number has one quotient and one rest.                    *)
LEMMA Division ==
  ASSUME NEW r \in Nat \ {0}, NEW n \in Nat
  PROVE  /\ n % r \in 0..(r - 1) /\ n \div r \in Nat
         /\ n = (n % r) + r * (n \div r)
OBVIOUS

LEMMA TimesGrows ==
  ASSUME NEW r \in Nat, NEW b \in Nat, NEW d \in Nat, b < d
  PROVE  r * d >= r * b + r
<1>1. d - b - 1 \in Nat
  OBVIOUS
<1> DEFINE k == d - b - 1
<1>2. d = b + 1 + k
  OBVIOUS
<1>3. r * k \in Nat
  OBVIOUS
<1> HIDE DEF k
<1>4. r * (b + 1 + k) = r * b + r + r * k
  BY <1>1 DEF k
<1>5. k \in Nat /\ r * b \in Nat /\ r * d \in Nat
  BY <1>1 DEF k
<1> QED BY <1>2, <1>3, <1>4, <1>5

LEMMA OneDivision ==
  ASSUME NEW r \in Nat \ {0}, NEW a \in 0..(r - 1), NEW c \in 0..(r - 1),
         NEW b \in Nat, NEW d \in Nat, a + r * b = c + r * d
  PROVE  a = c /\ b = d
<1>1. r * b \in Nat /\ r * d \in Nat
  OBVIOUS
<1>2. ~(b < d)
  <2> SUFFICES ASSUME b < d PROVE FALSE
    OBVIOUS
  <2>1. r * d >= r * b + r
    BY TimesGrows
  <2> QED BY <1>1, <2>1
<1>3. ~(d < b)
  <2> SUFFICES ASSUME d < b PROVE FALSE
    OBVIOUS
  <2>1. r * b >= r * d + r
    BY TimesGrows
  <2> QED BY <1>1, <2>1
<1>4. b = d
  BY <1>2, <1>3
<1>5. r * b = r * d
  BY <1>4
<1> QED BY <1>1, <1>4, <1>5

(* Two digits to a base.                                                    *)
LEMMA TwoDigits ==
  ASSUME NEW r \in Nat \ {0}, NEW n \in 0..(r * r - 1)
  PROVE  /\ n % r \in 0..(r - 1) /\ n \div r \in 0..(r - 1)
         /\ (n % r) + r * (n \div r) = n
<1>1. r * r \in Nat /\ n \in Nat
  OBVIOUS
<1>2. /\ n % r \in 0..(r - 1) /\ n \div r \in Nat
      /\ n = (n % r) + r * (n \div r)
  BY <1>1, Division
<1> DEFINE q == n \div r
<1>3. ~(r - 1 < q)
  <2> SUFFICES ASSUME r - 1 < q PROVE FALSE
    OBVIOUS
  <2> HIDE DEF q
  <2>1. r - 1 \in Nat /\ q \in Nat
    BY <1>2 DEF q
  <2>2. r * q >= r * (r - 1) + r
    BY <2>1, TimesGrows
  <2>3. r * (r - 1) + r = r * r
    OBVIOUS
  <2>4. r * q \in Nat /\ n >= r * q
    BY <1>2, <2>1 DEF q
  <2> QED BY <1>1, <2>2, <2>3, <2>4
<1> QED BY <1>2, <1>3

LEMMA DigitsBack ==
  ASSUME NEW r \in Nat \ {0}, NEW a \in 0..(r - 1), NEW b \in 0..(r - 1)
  PROVE  /\ a + r * b \in 0..(r * r - 1)
         /\ (a + r * b) % r = a /\ (a + r * b) \div r = b
<1>1. r * b \in Nat /\ r * r \in Nat /\ a \in Nat /\ b \in Nat
  OBVIOUS
<1>2. r * r >= r * b + r
  BY TimesGrows
<1> DEFINE n == a + r * b
<1>3. n \in 0..(r * r - 1)
  BY <1>1, <1>2
<1>4. n \in Nat
  BY <1>1
<1> HIDE DEF n
<1>5. /\ n % r \in 0..(r - 1) /\ n \div r \in Nat
      /\ n = (n % r) + r * (n \div r)
  BY <1>4, Division
<1> DEFINE c == n % r
           d == n \div r
<1>6. c + r * d = a + r * b /\ c \in 0..(r - 1) /\ d \in Nat
  BY <1>5 DEF n
<1> HIDE DEF c, d
<1>7. c = a /\ d = b
  BY <1>1, <1>6, OneDivision
<1> QED BY <1>3, <1>7 DEF n, c, d

LEMMA Small ==
  ASSUME NEW r \in Nat \ {0}, NEW m \in 0..(r - 1)
  PROVE  m % r = m
<1> DEFINE c == m % r
           d == m \div r
<1>1. m \in Nat
  OBVIOUS
<1>2. c \in 0..(r - 1) /\ d \in Nat /\ m = c + r * d
  BY <1>1, Division
<1>3. m + r * 0 = m
  OBVIOUS
<1> HIDE DEF c, d
<1>4. c + r * d = m + r * 0
  BY <1>2, <1>3
<1>5. 0 \in Nat
  OBVIOUS
<1> QED BY <1>2, <1>4, <1>5, OneDivision DEF c

(* Numbers of two and four bytes, and back.                                 *)
LEMMA RadixIs ==
  /\ Radix \in Nat \ {0} /\ Radix >= 8 /\ Radix * Radix \in Nat \ {0} /\ Radix * Radix >= 64
  /\ Byte \subseteq Nat /\ UInt16 \subseteq Nat /\ UInt32 \subseteq Nat
  /\ UInt32 = 0..((Radix * Radix) * (Radix * Radix) - 1)
<1>1. Radix \in Nat \ {0} /\ Radix >= 8
  BY LimitsAssumption
<1>2. Radix * Radix \in Nat
  BY <1>1
<1>3. Radix * Radix >= 64
  <2> DEFINE k == Radix - 8
  <2>1. k \in Nat /\ Radix = 8 + k
    BY <1>1
  <2>2. k * k \in Nat
    BY <2>1
  <2> HIDE DEF k
  <2>3. (8 + k) * (8 + k) = 64 + 16 * k + k * k
    BY <2>1
  <2> QED BY <2>1, <2>2, <2>3
<1>4. Radix * Radix * Radix * Radix = (Radix * Radix) * (Radix * Radix)
  BY <1>1
<1> QED BY <1>1, <1>2, <1>3, <1>4 DEF Byte, UInt16, UInt32

LEMMA WriteUInt16 ==
  ASSUME NEW n \in UInt16
  PROVE  /\ UInt16LE(n) \in Seq(Byte) /\ Len(UInt16LE(n)) = 2
         /\ UInt16LE(n)[1] + Radix * UInt16LE(n)[2] = n
<1> DEFINE r == Radix
           a == n % r
           b == n \div r
<1>1. r \in Nat \ {0} /\ n \in 0..(r * r - 1)
  BY RadixIs DEF UInt16
<1> HIDE DEF r
<1>2. a \in 0..(r - 1) /\ b \in 0..(r - 1) /\ a + r * b = n
  BY <1>1, TwoDigits
<1> HIDE DEF a, b
<1>3. b % r = b
  BY <1>1, <1>2, Small
<1>4. UInt16LE(n) = <<a, b>>
  BY <1>3 DEF UInt16LE, r, a, b
<1>5. a \in Byte /\ b \in Byte
  BY <1>2 DEF Byte, r
<1> QED BY <1>2, <1>4, <1>5 DEF r

LEMMA ReadUInt16 ==
  ASSUME NEW a \in Byte, NEW b \in Byte
  PROVE  a + Radix * b \in UInt16 /\ UInt16LE(a + Radix * b) = <<a, b>>
<1> DEFINE r == Radix
           n == a + r * b
<1>1. r \in Nat \ {0} /\ a \in 0..(r - 1) /\ b \in 0..(r - 1)
  BY RadixIs DEF Byte
<1> HIDE DEF r
<1>2. n \in 0..(r * r - 1) /\ n % r = a /\ n \div r = b
  BY <1>1, DigitsBack
<1> HIDE DEF n
<1>3. b % r = b
  BY <1>1, Small
<1>4. UInt16LE(n) = <<a, b>> /\ n \in UInt16
  BY <1>2, <1>3 DEF UInt16LE, r, UInt16
<1> QED BY <1>4 DEF n, r

LEMMA WriteUInt32 ==
  ASSUME NEW n \in UInt32
  PROVE  \E low, high \in UInt16 :
           /\ n = low + (Radix * Radix) * high
           /\ UInt32LE(n) = UInt16LE(low) \o UInt16LE(high)
           /\ UInt32LE(n) \in Seq(Byte) /\ Len(UInt32LE(n)) = 4
<1> DEFINE r == Radix * Radix
           low == n % r
           high == n \div r
<1>1. r \in Nat \ {0} /\ n \in 0..(r * r - 1)
  BY RadixIs
<1> HIDE DEF r
<1>2. low \in 0..(r - 1) /\ high \in 0..(r - 1) /\ low + r * high = n
  BY <1>1, TwoDigits
<1> HIDE DEF low, high
<1>3. low \in UInt16 /\ high \in UInt16
  BY <1>2 DEF UInt16, r
<1>4. UInt32LE(n) = UInt16LE(low) \o UInt16LE(high)
  BY DEF UInt32LE, low, high, r
<1>5. /\ UInt16LE(low) \in Seq(Byte) /\ Len(UInt16LE(low)) = 2
      /\ UInt16LE(high) \in Seq(Byte) /\ Len(UInt16LE(high)) = 2
  BY <1>3, WriteUInt16
<1>6. UInt32LE(n) \in Seq(Byte) /\ Len(UInt32LE(n)) = 4
  <2> DEFINE s == UInt16LE(low)
             t == UInt16LE(high)
  <2>1. s \in Seq(Byte) /\ t \in Seq(Byte) /\ Len(s) = 2 /\ Len(t) = 2
    BY <1>5
  <2> HIDE DEF s, t
  <2>2. s \o t \in Seq(Byte) /\ Len(s \o t) = Len(s) + Len(t)
    BY <2>1, ConcatProperties
  <2> QED BY <1>4, <2>1, <2>2 DEF s, t
<1> QED BY <1>2, <1>3, <1>4, <1>6 DEF r

LEMMA ReadUInt32 ==
  ASSUME NEW low \in UInt16, NEW high \in UInt16
  PROVE  /\ low + (Radix * Radix) * high \in UInt32
         /\ UInt32LE(low + (Radix * Radix) * high) = UInt16LE(low) \o UInt16LE(high)
<1> DEFINE r == Radix * Radix
           n == low + r * high
<1>1. r \in Nat \ {0} /\ low \in 0..(r - 1) /\ high \in 0..(r - 1)
  BY RadixIs DEF UInt16
<1>2. UInt32 = 0..(r * r - 1)
  BY RadixIs
<1> HIDE DEF r
<1>3. n \in 0..(r * r - 1) /\ n % r = low /\ n \div r = high
  BY <1>1, DigitsBack
<1> HIDE DEF n
<1>4. UInt32LE(n) = UInt16LE(low) \o UInt16LE(high) /\ n \in UInt32
  BY <1>2, <1>3 DEF UInt32LE, r
<1> QED BY <1>4 DEF n, r

(* Where a sequence is found in another one, behind an offset.              *)
Found(p, o, s) == o + Len(s) <= Len(p) /\ \A j \in 1..Len(s) : p[o + j] = s[j]

LEMMA JoinedIs ==
  ASSUME NEW S, NEW s \in Seq(S), NEW t \in Seq(S)
  PROVE  /\ s \o t \in Seq(S) /\ Len(s \o t) = Len(s) + Len(t) /\ Len(s) \in Nat /\ Len(t) \in Nat
         /\ \A i \in 1..Len(s) : (s \o t)[i] = s[i]
         /\ \A i \in 1..Len(t) : (s \o t)[Len(s) + i] = t[i]
<1>1. Len(s) \in Nat /\ Len(t) \in Nat
  OBVIOUS
<1>2. /\ s \o t \in Seq(S) /\ Len(s \o t) = Len(s) + Len(t)
      /\ \A i \in 1..(Len(s) + Len(t)) : (s \o t)[i] = IF i <= Len(s) THEN s[i] ELSE t[i - Len(s)]
  BY ConcatProperties
<1> DEFINE m == Len(s)
           n == Len(t)
           u == s \o t
<1> HIDE DEF m, n, u
<1>3. \A i \in 1..m : u[i] = s[i]
  BY <1>1, <1>2 DEF m, n, u
<1>4. \A i \in 1..n : u[m + i] = t[i]
  <2>1. m \in Nat /\ n \in Nat /\ \A i \in 1..(m + n) : u[i] = IF i <= m THEN s[i] ELSE t[i - m]
    BY <1>1, <1>2 DEF m, n, u
  <2> SUFFICES ASSUME NEW i \in 1..n PROVE u[m + i] = t[i]
    OBVIOUS
  <2>2. m + i \in 1..(m + n) /\ ~(m + i <= m) /\ (m + i) - m = i
    BY <2>1
  <2> QED BY <2>1, <2>2
<1> QED BY <1>1, <1>2, <1>3, <1>4 DEF m, n, u

LEMMA FoundJoined ==
  ASSUME NEW S, NEW s \in Seq(S), NEW t \in Seq(S), NEW p, Len(p) \in Nat, NEW o \in Nat
  PROVE  Found(p, o, s \o t) <=> Found(p, o, s) /\ Found(p, o + Len(s), t)
<1> DEFINE u == s \o t
           m == Len(s)
           n == Len(t)
<1>1. /\ Len(u) = m + n /\ m \in Nat /\ n \in Nat
      /\ \A i \in 1..m : u[i] = s[i]
      /\ \A i \in 1..n : u[m + i] = t[i]
  BY JoinedIs
<1> HIDE DEF u, m, n
<1>2. ASSUME Found(p, o, u) PROVE Found(p, o, s) /\ Found(p, o + m, t)
  <2>1. o + (m + n) <= Len(p) /\ \A j \in 1..(m + n) : p[o + j] = u[j]
    BY <1>1, <1>2 DEF Found
  <2>2. Found(p, o, s)
    <3>1. ASSUME NEW j \in 1..m PROVE p[o + j] = s[j]
      <4>1. j \in 1..(m + n)
        BY <1>1
      <4> QED BY <1>1, <2>1, <4>1
    <3> QED BY <1>1, <2>1, <3>1 DEF Found, m
  <2>3. Found(p, o + m, t)
    <3>1. ASSUME NEW j \in 1..n PROVE p[(o + m) + j] = t[j]
      <4>1. m + j \in 1..(m + n) /\ (o + m) + j = o + (m + j)
        BY <1>1
      <4> QED BY <1>1, <2>1, <4>1
    <3>2. (o + m) + n <= Len(p)
      BY <1>1, <2>1
    <3> QED BY <3>1, <3>2 DEF Found, n
  <2> QED BY <2>2, <2>3
<1>3. ASSUME Found(p, o, s), Found(p, o + m, t) PROVE Found(p, o, u)
  <2>1. \A j \in 1..m : p[o + j] = s[j]
    BY <1>3 DEF Found, m
  <2>2. (o + m) + n <= Len(p) /\ \A j \in 1..n : p[(o + m) + j] = t[j]
    BY <1>3 DEF Found, n
  <2>3. ASSUME NEW j \in 1..(m + n) PROVE p[o + j] = u[j]
    <3>1. CASE j <= m
      BY <1>1, <2>1, <3>1
    <3>2. CASE ~(j <= m)
      <4> DEFINE i == j - m
      <4>1. i \in 1..n /\ j = m + i /\ o + j = (o + m) + i
        BY <1>1, <3>2
      <4> HIDE DEF i
      <4> QED BY <1>1, <2>2, <4>1
    <3> QED BY <3>1, <3>2
  <2>4. o + Len(u) <= Len(p)
    BY <1>1, <2>2
  <2> QED BY <1>1, <2>3, <2>4 DEF Found
<1> QED BY <1>2, <1>3 DEF u, m

LEMMA FoundWhole ==
  ASSUME NEW S, NEW p \in Seq(S), NEW s \in Seq(S), Len(p) = Len(s), Found(p, 0, s)
  PROVE  p = s
<1>1. \A j \in 1..Len(s) : p[0 + j] = s[j] /\ 0 + j = j
  BY DEF Found
<1> QED BY <1>1, SeqEqual

LEMMA FoundPart ==
  ASSUME NEW S, NEW p \in Seq(S), NEW o \in Nat, NEW n \in Nat, o + n <= Len(p)
  PROVE  /\ SubSeq(p, o + 1, o + n) \in Seq(S) /\ Len(SubSeq(p, o + 1, o + n)) = n
         /\ Found(p, o, SubSeq(p, o + 1, o + n))
<1> DEFINE s == SubSeq(p, o + 1, o + n)
<1>1. Len(p) \in Nat
  OBVIOUS
<1>2. \A i \in (o + 1)..(o + n) : i \in 1..Len(p) /\ p[i] \in S
  BY <1>1, ElementOfSeq
<1>3. /\ s \in Seq(S)
      /\ Len(s) = IF o + 1 <= o + n THEN (o + n) - (o + 1) + 1 ELSE 0
      /\ \A i \in 1..((o + n) - (o + 1) + 1) : s[i] = p[(o + 1) + i - 1]
  BY <1>1, <1>2, SubSeqProperties
<1> HIDE DEF s
<1>4. Len(s) = n
  BY <1>3
<1>5. \A j \in 1..n : p[o + j] = s[j]
  <2> SUFFICES ASSUME NEW j \in 1..n PROVE p[o + j] = s[j]
    OBVIOUS
  <2>1. (o + 1) + j - 1 = o + j /\ (o + n) - (o + 1) + 1 = n
    OBVIOUS
  <2> QED BY <1>3, <2>1
<1> QED BY <1>3, <1>4, <1>5 DEF Found, s

LEMMA FoundSame ==
  ASSUME NEW S, NEW s \in Seq(S), NEW t \in Seq(S), Len(s) = Len(t),
         NEW p, NEW o \in Nat, Found(p, o, s), Found(p, o, t)
  PROVE  s = t
<1>1. \A j \in 1..Len(s) : s[j] = t[j]
  BY DEF Found
<1> QED BY <1>1, SeqEqual

LEMMA FoundIn ==
  ASSUME NEW p, Len(p) \in Nat, NEW o \in Nat, NEW s, Len(s) \in Nat, Found(p, o, s),
         NEW k \in Nat, NEW t, Len(t) \in Nat
  PROVE  /\ Found(s, k, t) => Found(p, o + k, t)
         /\ Found(p, o + k, t) /\ k + Len(t) <= Len(s) => Found(s, k, t)
<1>1. o + Len(s) <= Len(p) /\ \A j \in 1..Len(s) : p[o + j] = s[j]
  BY DEF Found
<1> DEFINE m == Len(s)
           n == Len(t)
<1>2. ASSUME k + n <= m, NEW j \in 1..n PROVE p[(o + k) + j] = s[k + j]
  <2>1. k + j \in 1..m /\ o + (k + j) = (o + k) + j
    BY <1>2
  <2> QED BY <1>1, <2>1
<1>3. ASSUME Found(s, k, t) PROVE Found(p, o + k, t)
  <2>1. k + n <= m /\ \A j \in 1..n : s[k + j] = t[j]
    BY <1>3 DEF Found
  <2>2. (o + k) + n <= Len(p)
    BY <1>1, <2>1
  <2> QED BY <1>2, <2>1, <2>2 DEF Found
<1>4. ASSUME Found(p, o + k, t), k + n <= m PROVE Found(s, k, t)
  <2>1. \A j \in 1..n : p[(o + k) + j] = t[j]
    BY <1>4 DEF Found
  <2> QED BY <1>2, <1>4, <2>1 DEF Found
<1> QED BY <1>3, <1>4

(* What is read where a number was written, and what is written of what is  *)
(* read.                                                                    *)
LEMMA ReadTwo ==
  ASSUME NEW p \in Seq(Byte), NEW o \in Nat, o + 2 <= Len(p)
  PROVE  /\ ReadUInt16LE(p, o) \in UInt16 /\ Found(p, o, UInt16LE(ReadUInt16LE(p, o)))
         /\ \A n \in UInt16 : Found(p, o, UInt16LE(n)) => ReadUInt16LE(p, o) = n
<1>1. o + 1 \in 1..Len(p) /\ o + 2 \in 1..Len(p)
  OBVIOUS
<1>2. p[o + 1] \in Byte /\ p[o + 2] \in Byte
  BY <1>1, ElementOfSeq
<1>3. /\ ReadUInt16LE(p, o) \in UInt16
      /\ UInt16LE(ReadUInt16LE(p, o)) = <<p[o + 1], p[o + 2]>>
  BY <1>2, ReadUInt16 DEF ReadUInt16LE
<1>4. Found(p, o, UInt16LE(ReadUInt16LE(p, o)))
  <2> DEFINE z == <<p[o + 1], p[o + 2]>>
  <2>1. Len(z) = 2 /\ \A j \in 1..2 : p[o + j] = z[j]
    OBVIOUS
  <2> HIDE DEF z
  <2>2. Found(p, o, z)
    BY <2>1 DEF Found
  <2> QED BY <1>3, <2>2 DEF z
<1>5. ASSUME NEW n \in UInt16, Found(p, o, UInt16LE(n)) PROVE ReadUInt16LE(p, o) = n
  <2> DEFINE z == UInt16LE(n)
  <2>1. Len(z) = 2 /\ z[1] + Radix * z[2] = n
    BY WriteUInt16
  <2> HIDE DEF z
  <2>2. p[o + 1] = z[1] /\ p[o + 2] = z[2]
    BY <1>5, <2>1 DEF Found, z
  <2> QED BY <2>1, <2>2 DEF ReadUInt16LE
<1> QED BY <1>3, <1>4, <1>5

LEMMA ReadFour ==
  ASSUME NEW p \in Seq(Byte), NEW o \in Nat, o + 4 <= Len(p)
  PROVE  /\ ReadUInt32LE(p, o) \in UInt32 /\ Found(p, o, UInt32LE(ReadUInt32LE(p, o)))
         /\ \A n \in UInt32 : Found(p, o, UInt32LE(n)) => ReadUInt32LE(p, o) = n
<1> DEFINE low == ReadUInt16LE(p, o)
           high == ReadUInt16LE(p, o + 2)
<1>1. o + 2 \in Nat /\ o + 2 <= Len(p) /\ (o + 2) + 2 <= Len(p) /\ Len(p) \in Nat
  OBVIOUS
<1>2. /\ low \in UInt16 /\ Found(p, o, UInt16LE(low))
      /\ \A n \in UInt16 : Found(p, o, UInt16LE(n)) => low = n
  BY <1>1, ReadTwo
<1>3. /\ high \in UInt16 /\ Found(p, o + 2, UInt16LE(high))
      /\ \A n \in UInt16 : Found(p, o + 2, UInt16LE(n)) => high = n
  BY <1>1, ReadTwo
<1>4. ReadUInt32LE(p, o) = low + (Radix * Radix) * high
  BY DEF ReadUInt32LE
<1> HIDE DEF low, high
<1>5. ReadUInt32LE(p, o) \in UInt32 /\ UInt32LE(ReadUInt32LE(p, o)) = UInt16LE(low) \o UInt16LE(high)
  BY <1>2, <1>3, <1>4, ReadUInt32
<1>6. \A a, b \in UInt16 : Found(p, o, UInt16LE(a) \o UInt16LE(b))
                             <=> Found(p, o, UInt16LE(a)) /\ Found(p, o + 2, UInt16LE(b))
  <2> SUFFICES ASSUME NEW a \in UInt16, NEW b \in UInt16
               PROVE  Found(p, o, UInt16LE(a) \o UInt16LE(b))
                        <=> Found(p, o, UInt16LE(a)) /\ Found(p, o + 2, UInt16LE(b))
    OBVIOUS
  <2> DEFINE s == UInt16LE(a)
             t == UInt16LE(b)
  <2>1. s \in Seq(Byte) /\ t \in Seq(Byte) /\ Len(s) = 2
    BY WriteUInt16
  <2> HIDE DEF s, t
  <2>2. Found(p, o, s \o t) <=> Found(p, o, s) /\ Found(p, o + Len(s), t)
    BY <1>1, <2>1, FoundJoined
  <2> QED BY <2>1, <2>2 DEF s, t
<1>7. Found(p, o, UInt32LE(ReadUInt32LE(p, o)))
  BY <1>2, <1>3, <1>5, <1>6
<1>8. ASSUME NEW n \in UInt32, Found(p, o, UInt32LE(n)) PROVE ReadUInt32LE(p, o) = n
  <2>1. PICK a \in UInt16, b \in UInt16 :
          n = a + (Radix * Radix) * b /\ UInt32LE(n) = UInt16LE(a) \o UInt16LE(b)
    BY WriteUInt32
  <2>2. Found(p, o, UInt16LE(a)) /\ Found(p, o + 2, UInt16LE(b))
    BY <1>6, <1>8, <2>1
  <2> QED BY <1>2, <1>3, <1>4, <2>1, <2>2
<1> QED BY <1>5, <1>7, <1>8

(* Flattening takes one sequence after the other.                           *)
FlatTrace(seqs, n, a) ==
  /\ a[0] = <<>> /\ \A i \in 1..n : a[i] = a[i - 1] \o seqs[i]
  /\ FlattenSeq(seqs) = a[n]

LEMMA FlatTraceExists ==
  ASSUME NEW T, NEW seqs \in Seq(Seq(T))
  PROVE  \E a : FlatTrace(seqs, Len(seqs), a)
<1> DEFINE n == Len(seqs)
           Flat(k, f) == \A i \in 1..k : f[i] = IF i = 1 THEN seqs[i] ELSE f[i - 1] \o seqs[i]
           S == {k \in Nat : \E f : Flat(k, f)}
<1>1. n \in Nat /\ \A i \in 1..n : seqs[i] \in Seq(T)
  BY ElementOfSeq
<1>2. CASE n = 0
  <2>1. seqs = <<>> /\ FlattenSeq(seqs) = <<>>
    BY <1>2 DEF FlattenSeq
  <2> DEFINE a == [i \in 0..0 |-> <<>>]
  <2>2. FlatTrace(seqs, n, a)
    BY <1>2, <2>1 DEF FlatTrace
  <2> QED BY <2>2
<1>3. CASE n # 0
  <2>1. 0 \in S
    <3>1. Flat(0, <<>>)
      OBVIOUS
    <3> QED BY <3>1
  <2>2. ASSUME NEW k \in Nat, k \in S PROVE k + 1 \in S
    <3>1. PICK f : Flat(k, f)
      BY <2>2
    <3> DEFINE g == [i \in 1..(k + 1) |-> IF i = k + 1 THEN IF i = 1 THEN seqs[i] ELSE f[i - 1] \o seqs[i]
                                          ELSE f[i]]
    <3>2. ASSUME NEW i \in 1..(k + 1) PROVE g[i] = IF i = 1 THEN seqs[i] ELSE g[i - 1] \o seqs[i]
      <4>1. i # 1 => i - 1 \in 1..k /\ i - 1 \in 1..(k + 1) /\ g[i - 1] = f[i - 1]
        OBVIOUS
      <4>2. i # k + 1 => i \in 1..k /\ g[i] = f[i]
        OBVIOUS
      <4>3. i = k + 1 => g[i] = IF i = 1 THEN seqs[i] ELSE f[i - 1] \o seqs[i]
        OBVIOUS
      <4> HIDE DEF g
      <4> QED BY <3>1, <4>1, <4>2, <4>3
    <3> HIDE DEF g
    <3>3. Flat(k + 1, g)
      BY <3>2
    <3> HIDE DEF Flat
    <3> QED BY <3>3
  <2> HIDE DEF S
  <2>3. n \in S
    BY <1>1, <2>1, <2>2, FromZero
  <2> DEFINE flatten == CHOOSE f : f = [i \in 1..Len(seqs) |->
                                          IF i = 1 THEN seqs[i] ELSE f[i - 1] \o seqs[i]]
  <2>4. Flat(n, flatten)
    <3>1. PICK f : Flat(n, f)
      BY <2>3 DEF S
    <3> DEFINE g == [i \in 1..n |-> f[i]]
    <3>2. ASSUME NEW i \in 1..n PROVE g[i] = IF i = 1 THEN seqs[i] ELSE g[i - 1] \o seqs[i]
      <4>1. i # 1 => i - 1 \in 1..n
        BY <1>1
      <4> QED BY <3>1, <4>1
    <3>3. g = [i \in 1..n |-> IF i = 1 THEN seqs[i] ELSE g[i - 1] \o seqs[i]]
      BY <3>2, Zenon
    <3>4. flatten = [i \in 1..n |-> IF i = 1 THEN seqs[i] ELSE flatten[i - 1] \o seqs[i]]
      <4> HIDE DEF g
      <4> QED BY <3>3, Zenon
    <3> HIDE DEF flatten, n
    <3> QED BY <3>4, Zenon
  <2>5. FlattenSeq(seqs) = flatten[n]
    BY <1>3 DEF FlattenSeq
  <2> HIDE DEF flatten
  <2> DEFINE a == [i \in 0..n |-> IF i = 0 THEN <<>> ELSE flatten[i]]
  <2>6. ASSUME NEW i \in 1..n PROVE a[i] = a[i - 1] \o seqs[i]
    <3>1. i - 1 \in 0..n /\ i \in 0..n /\ seqs[i] \in Seq(T) /\ a[i] = flatten[i]
      BY <1>1
    <3>2. CASE i = 1
      <4>1. a[i - 1] = <<>> /\ <<>> \o seqs[i] = seqs[i]
        BY <3>1, <3>2, ConcatEmptySeq
      <4>2. flatten[i] = seqs[i]
        BY <2>4, <3>2
      <4> QED BY <3>1, <4>1, <4>2
    <3>3. CASE i # 1
      <4>1. a[i - 1] = flatten[i - 1]
        BY <1>1, <3>1, <3>3
      <4>2. flatten[i] = flatten[i - 1] \o seqs[i]
        BY <2>4, <3>3
      <4> QED BY <3>1, <4>1, <4>2
    <3> QED BY <3>2, <3>3
  <2>7. a[0] = <<>> /\ a[n] = flatten[n]
    BY <1>1, <1>3
  <2> HIDE DEF a, n
  <2>8. FlatTrace(seqs, n, a)
    BY <2>5, <2>6, <2>7 DEF FlatTrace
  <2> QED BY <2>8 DEF n
<1> QED BY <1>2, <1>3

LEMMA FlatMore ==
  ASSUME NEW T, NEW seqs \in Seq(Seq(T)), NEW x \in Seq(T)
  PROVE  /\ FlattenSeq(seqs) \in Seq(T)
         /\ FlattenSeq(Append(seqs, x)) = FlattenSeq(seqs) \o x
<1> DEFINE n == Len(seqs)
           more == Append(seqs, x)
<1>1. /\ n \in Nat /\ more \in Seq(Seq(T)) /\ Len(more) = n + 1 /\ more[n + 1] = x
      /\ \A i \in 1..n : more[i] = seqs[i] /\ seqs[i] \in Seq(T)
  BY AppendProperties, ElementOfSeq
<1>2. PICK a : FlatTrace(seqs, n, a)
  BY FlatTraceExists
<1>3. PICK b : FlatTrace(more, n + 1, b)
  BY <1>1, FlatTraceExists
<1> HIDE DEF n, more
<1> DEFINE S == {k \in Nat : k <= n => a[k] = b[k] /\ a[k] \in Seq(T)}
<1>4. 0 \in S
  <2>1. a[0] = <<>> /\ b[0] = <<>> /\ <<>> \in Seq(T)
    BY <1>2, <1>3 DEF FlatTrace
  <2> QED BY <2>1
<1>5. ASSUME NEW k \in Nat, k \in S PROVE k + 1 \in S
  <2> SUFFICES ASSUME k + 1 <= n PROVE a[k + 1] = b[k + 1] /\ a[k + 1] \in Seq(T)
    OBVIOUS
  <2>1. k + 1 \in 1..n /\ k + 1 \in 1..(n + 1) /\ (k + 1) - 1 = k
    BY <1>1
  <2>2. a[k + 1] = a[k] \o seqs[k + 1] /\ b[k + 1] = b[k] \o more[k + 1]
    BY <1>2, <1>3, <2>1 DEF FlatTrace
  <2>3. a[k] = b[k] /\ a[k] \in Seq(T)
    BY <1>1, <1>5
  <2>4. more[k + 1] = seqs[k + 1] /\ seqs[k + 1] \in Seq(T)
    BY <1>1, <2>1
  <2>5. a[k] \o seqs[k + 1] \in Seq(T)
    BY <2>3, <2>4
  <2> QED BY <2>2, <2>3, <2>4, <2>5
<1> HIDE DEF S
<1>6. n \in S
  BY <1>1, <1>4, <1>5, FromZero
<1>7. a[n] = b[n] /\ a[n] \in Seq(T)
  BY <1>1, <1>6 DEF S
<1>8. n + 1 \in 1..(n + 1) /\ (n + 1) - 1 = n
  BY <1>1
<1>9. b[n + 1] = b[n] \o x
  BY <1>1, <1>3, <1>8 DEF FlatTrace
<1>10. FlattenSeq(seqs) = a[n] /\ FlattenSeq(more) = b[n + 1]
  BY <1>2, <1>3 DEF FlatTrace
<1> QED BY <1>7, <1>9, <1>10 DEF more

LEMMA FlatNothing == FlattenSeq(<<>>) = <<>>
BY DEF FlattenSeq

(* What is written is bytes.                                                *)
LEMMA BytesOfTwo ==
  ASSUME NEW n \in Nat
  PROVE  UInt16LE(n) \in Seq(Byte) /\ Len(UInt16LE(n)) = 2
<1> DEFINE r == Radix
           q == n \div r
<1>1. r \in Nat \ {0} /\ n \in Nat
  BY RadixIs
<1>2. n % r \in 0..(r - 1) /\ q \in Nat
  BY <1>1, Division
<1>3. q % r \in 0..(r - 1)
  <2> HIDE DEF q, r
  <2> QED BY <1>1, <1>2, Division
<1>4. n % Radix \in Byte /\ (n \div Radix) % Radix \in Byte
  BY <1>2, <1>3 DEF Byte
<1> QED BY <1>4 DEF UInt16LE

LEMMA BytesOfFour ==
  ASSUME NEW n \in Nat
  PROVE  UInt32LE(n) \in Seq(Byte) /\ Len(UInt32LE(n)) = 4
<1> DEFINE r == Radix * Radix
           s == UInt16LE(n % r)
           t == UInt16LE(n \div r)
<1>1. r \in Nat \ {0}
  BY RadixIs
<1>2. n % r \in Nat /\ n \div r \in Nat
  <2> HIDE DEF r
  <2>1. n % r \in 0..(r - 1) /\ n \div r \in Nat
    BY <1>1, Division
  <2> QED BY <2>1
<1>3. s \in Seq(Byte) /\ Len(s) = 2 /\ t \in Seq(Byte) /\ Len(t) = 2
  <2> HIDE DEF r
  <2> QED BY <1>2, BytesOfTwo
<1>4. UInt32LE(n) = s \o t
  BY DEF UInt32LE
<1> HIDE DEF s, t
<1>5. s \o t \in Seq(Byte) /\ Len(s \o t) = Len(s) + Len(t)
  BY <1>3, JoinedIs
<1> QED BY <1>3, <1>4, <1>5

Texts == Seq(Seq(Byte))

LEMMA BytesOfText ==
  ASSUME NEW text \in Seq(Byte)
  PROVE  /\ EncodeString(text) \in Seq(Byte) /\ Len(EncodeString(text)) = 4 + Len(text)
         /\ Len(text) \in Nat /\ UInt32LE(Len(text)) \in Seq(Byte) /\ Len(UInt32LE(Len(text))) = 4
<1> DEFINE s == UInt32LE(Len(text))
<1>1. Len(text) \in Nat
  OBVIOUS
<1>2. s \in Seq(Byte) /\ Len(s) = 4
  BY <1>1, BytesOfFour
<1>3. EncodeString(text) = s \o text
  BY DEF EncodeString
<1> HIDE DEF s
<1>4. s \o text \in Seq(Byte) /\ Len(s \o text) = Len(s) + Len(text)
  BY <1>2, JoinedIs
<1> QED BY <1>1, <1>2, <1>3, <1>4 DEF s

LEMMA EncodedTexts ==
  ASSUME NEW texts \in Texts
  PROVE  [i \in DOMAIN texts |-> EncodeString(texts[i])] \in Seq(Seq(Byte))
<1> DEFINE n == Len(texts)
<1>1. n \in Nat /\ DOMAIN texts = 1..n /\ \A i \in 1..n : texts[i] \in Seq(Byte)
  BY ElementOfSeq DEF Texts
<1>2. \A i \in 1..n : EncodeString(texts[i]) \in Seq(Byte)
  BY <1>1, BytesOfText
<1> HIDE DEF n
<1> QED BY <1>1, <1>2

LEMMA BytesOfTexts ==
  ASSUME NEW texts \in Texts
  PROVE  EncodeStrings(texts) \in Seq(Byte) /\ Len(EncodeStrings(texts)) \in Nat
<1>1. EncodeStrings(texts) \in Seq(Byte)
  BY EncodedTexts, FlatMore DEF EncodeStrings
<1> QED BY <1>1

LEMMA OneMoreText ==
  ASSUME NEW texts \in Texts, NEW text \in Seq(Byte)
  PROVE  /\ Append(texts, text) \in Texts /\ Len(Append(texts, text)) = Len(texts) + 1
         /\ EncodeStrings(Append(texts, text)) = EncodeStrings(texts) \o EncodeString(text)
<1> DEFINE n == Len(texts)
           more == Append(texts, text)
           code == [i \in DOMAIN texts |-> EncodeString(texts[i])]
           x == EncodeString(text)
<1>1. /\ n \in Nat /\ DOMAIN texts = 1..n /\ \A i \in 1..n : texts[i] \in Seq(Byte)
      /\ more \in Texts /\ Len(more) = n + 1 /\ DOMAIN more = 1..(n + 1) /\ more[n + 1] = text
      /\ \A i \in 1..n : more[i] = texts[i]
  BY ElementOfSeq, AppendProperties DEF Texts
<1>2. code \in Seq(Seq(Byte)) /\ x \in Seq(Byte)
  BY EncodedTexts, BytesOfText
<1>3. DOMAIN code = 1..n /\ \A i \in 1..n : code[i] = EncodeString(texts[i])
  BY <1>1
<1> HIDE DEF code, x
<1>4. /\ Len(code) = n /\ Append(code, x) \in Seq(Seq(Byte)) /\ Len(Append(code, x)) = n + 1
      /\ Append(code, x)[n + 1] = x /\ \A i \in 1..n : Append(code, x)[i] = code[i]
  <2>1. Len(code) = n
    BY <1>1, <1>2, <1>3
  <2> HIDE DEF n
  <2> QED BY <1>2, <2>1, AppendProperties
<1> DEFINE all == [i \in DOMAIN more |-> EncodeString(more[i])]
<1>5. all \in Seq(Seq(Byte)) /\ Len(all) = n + 1
  <2> HIDE DEF n, more
  <2>1. all \in Seq(Seq(Byte))
    BY <1>1, EncodedTexts
  <2>2. DOMAIN all = 1..(n + 1)
    BY <1>1
  <2> HIDE DEF all
  <2> QED BY <1>1, <2>1, <2>2
<1>6. \A i \in 1..(n + 1) : all[i] = Append(code, x)[i]
  <2> SUFFICES ASSUME NEW i \in 1..(n + 1) PROVE all[i] = Append(code, x)[i]
    OBVIOUS
  <2>1. all[i] = EncodeString(more[i])
    BY <1>1
  <2>2. CASE i = n + 1
    BY <1>1, <1>4, <2>1, <2>2 DEF x
  <2>3. CASE i # n + 1
    <3>1. i \in 1..n
      BY <1>1, <2>3
    <3> HIDE DEF n, more, all
    <3> QED BY <1>1, <1>3, <1>4, <2>1, <3>1
  <2> QED BY <2>2, <2>3
<1> HIDE DEF all
<1>7. all = Append(code, x)
  <2> HIDE DEF n
  <2> QED BY <1>4, <1>5, <1>6, SeqEqual
<1>8. FlattenSeq(Append(code, x)) = FlattenSeq(code) \o x
  BY <1>2, FlatMore
<1>9. EncodeStrings(more) = FlattenSeq(all) /\ EncodeStrings(texts) = FlattenSeq(code)
  BY DEF EncodeStrings, all, code
<1> HIDE DEF more
<1>10. EncodeStrings(more) = EncodeStrings(texts) \o x
  BY <1>7, <1>8, <1>9
<1> QED BY <1>1, <1>10 DEF x, more

LEMMA NoTexts == <<>> \in Texts /\ EncodeStrings(<<>>) = <<>>
<1>1. [i \in DOMAIN <<>> |-> EncodeString(<<>>[i])] = <<>>
  OBVIOUS
<1> QED BY <1>1, FlatNothing DEF EncodeStrings, Texts

LEMMA JoinedBytes ==
  ASSUME NEW s \in Seq(Byte), NEW t \in Seq(Byte)
  PROVE  s \o t \in Seq(Byte) /\ Len(s \o t) = Len(s) + Len(t)
BY JoinedIs

(* The payloads and the list in bytes.                                    *)
LEMMA SmallBytes ==
  /\ ReasonCodes \subseteq Byte /\ 0 \in Byte /\ 1 \in Byte /\ Magic \in Seq(Byte) /\ Len(Magic) = 4
  /\ Version \in UInt16 /\ StageCodes \subseteq UInt16 /\ StageCodes \subseteq Nat /\ UInt16 \subseteq Nat
  /\ \A x \in Frames : TypeCode[x.type] \in UInt16
<1>1. Radix \in Nat /\ Radix >= 8 /\ Radix * Radix \in Nat /\ Radix * Radix >= 64
  BY RadixIs
<1>2. 0..7 \subseteq Byte /\ 0..63 \subseteq UInt16
  <2> DEFINE s == Radix * Radix
  <2>1. s \in Nat /\ s >= 64
    BY <1>1
  <2> HIDE DEF s
  <2>2. 0..63 \subseteq 0..(s - 1)
    BY <2>1
  <2> QED BY <1>1, <2>2 DEF Byte, UInt16, s
<1>3. Magic \in Seq(Byte) /\ Len(Magic) = 4
  <2>1. 1 \in Byte /\ 2 \in Byte /\ 3 \in Byte /\ 4 \in Byte
    BY <1>2
  <2> QED BY <2>1 DEF Magic
<1>4. ASSUME NEW x \in Frames PROVE TypeCode[x.type] \in UInt16
  <2>1. x.type \in {"launchConfig", "ready", "terminate", "error", "exit"}
    BY <1>4 DEF Frames
  <2>2. TypeCode[x.type] \in 0..63
    BY <2>1 DEF TypeCode
  <2> QED BY <1>2, <2>2
<1>5. ReasonCodes \subseteq 0..7 /\ StageCodes \subseteq 0..63 /\ StageCodes \subseteq Nat /\ Version \in 0..63
  BY DEF ReasonCodes, StageCodes, Version
<1>6. UInt16 \subseteq Nat
  BY RadixIs
<1>7. ReasonCodes \subseteq Byte /\ 0 \in Byte /\ 1 \in Byte /\ StageCodes \subseteq UInt16 /\ Version \in UInt16
  <2>1. 0 \in 0..7 /\ 1 \in 0..7
    OBVIOUS
  <2> QED BY <1>2, <1>5, <2>1, Zenon
<1>8. \A x \in Frames : TypeCode[x.type] \in UInt16
  BY <1>4
<1> QED BY <1>3, <1>5, <1>6, <1>7, <1>8

LEMMA BytesOfPayload ==
  ASSUME NEW x \in Frames
  PROVE  Payload(x) \in Seq(Byte) /\ Len(Payload(x)) \in Nat
<1>1. /\ ReasonCodes \subseteq Byte /\ 0 \in Byte /\ 1 \in Byte /\ StageCodes \subseteq Nat
      /\ UInt32 \subseteq Nat
  BY SmallBytes, RadixIs
<1>2. CASE x.type = "launchConfig"
  <2>1. x.executable \in Seq(Byte) /\ x.cwd \in Seq(Byte) /\ x.argv \in Texts /\ Len(x.argv) \in Nat
    BY <1>2 DEF Frames, Texts
  <2>2. Payload(x) = EncodeString(x.executable) \o EncodeString(x.cwd) \o UInt32LE(Len(x.argv))
                       \o EncodeStrings(x.argv)
    BY <1>2 DEF Payload
  <2>3. /\ EncodeString(x.executable) \in Seq(Byte) /\ EncodeString(x.cwd) \in Seq(Byte)
        /\ UInt32LE(Len(x.argv)) \in Seq(Byte) /\ EncodeStrings(x.argv) \in Seq(Byte)
    BY <2>1, BytesOfText, BytesOfFour, BytesOfTexts
  <2> DEFINE a == EncodeString(x.executable)
             b == EncodeString(x.cwd)
             c == UInt32LE(Len(x.argv))
             d == EncodeStrings(x.argv)
  <2>4. a \in Seq(Byte) /\ b \in Seq(Byte) /\ c \in Seq(Byte) /\ d \in Seq(Byte)
    BY <2>3
  <2>5. Payload(x) = a \o b \o c \o d
    BY <2>2
  <2> HIDE DEF a, b, c, d
  <2>6. a \o b \o c \o d \in Seq(Byte)
    BY <2>4
  <2>7. \A s \in Seq(Byte) : Len(s) \in Nat
    OBVIOUS
  <2> QED BY <2>5, <2>6, <2>7
<1>3. CASE x.type = "ready"
  <2>1. Payload(x) = <<>>
    BY <1>3 DEF Payload
  <2> QED BY <2>1
<1>4. CASE x.type = "terminate"
  <2>1. Payload(x) = <<x.reason>> /\ x.reason \in Byte
    BY <1>1, <1>4 DEF Payload, Frames
  <2> QED BY <2>1
<1>5. CASE x.type = "error"
  <2>1. x.stage \in Nat /\ x.reason \in Byte /\ x.win32Code \in UInt32 \cup {NoCode}
    BY <1>1, <1>5 DEF Frames
  <2> DEFINE a == UInt16LE(x.stage)
             b == <<x.reason>>
             c == IF x.win32Code = NoCode THEN <<0, 0, 0, 0, 0>> ELSE <<1>> \o UInt32LE(x.win32Code)
  <2>2. a \in Seq(Byte) /\ b \in Seq(Byte)
    BY <2>1, BytesOfTwo
  <2>3. c \in Seq(Byte)
    <3>1. CASE x.win32Code = NoCode
      BY <1>1, <3>1
    <3>2. CASE x.win32Code # NoCode
      <4>1. UInt32LE(x.win32Code) \in Seq(Byte) /\ <<1>> \in Seq(Byte)
        <5>1. x.win32Code \in Nat
          BY <1>1, <2>1, <3>2
        <5> QED BY <1>1, <5>1, BytesOfFour
      <4> DEFINE s == <<1>>
                 t == UInt32LE(x.win32Code)
      <4>2. c = s \o t
        BY <3>2
      <4>3. s \in Seq(Byte) /\ t \in Seq(Byte)
        BY <4>1
      <4> HIDE DEF s, t
      <4>4. s \o t \in Seq(Byte)
        BY <4>3
      <4> QED BY <4>2, <4>4
    <3> QED BY <3>1, <3>2
  <2>4. Payload(x) = a \o b \o c
    BY <1>5 DEF Payload
  <2> HIDE DEF a, b, c
  <2>5. a \o b \o c \in Seq(Byte)
    BY <2>2, <2>3
  <2>6. \A s \in Seq(Byte) : Len(s) \in Nat
    OBVIOUS
  <2> QED BY <2>4, <2>5, <2>6
<1>6. CASE x.type = "exit"
  <2>1. x.rootExitCode \in Nat /\ x.reason \in Byte
    BY <1>1, <1>6 DEF Frames
  <2> DEFINE a == UInt32LE(x.rootExitCode)
             b == <<x.reason, 1, 0, 0>>
  <2>2. a \in Seq(Byte) /\ b \in Seq(Byte)
    BY <1>1, <2>1, BytesOfFour
  <2>3. Payload(x) = a \o b
    BY <1>6 DEF Payload
  <2> HIDE DEF a, b
  <2>4. a \o b \in Seq(Byte)
    BY <2>2
  <2>6. \A s \in Seq(Byte) : Len(s) \in Nat
    OBVIOUS
  <2> QED BY <2>3, <2>4, <2>6
<1>7. x.type \in {"launchConfig", "ready", "terminate", "error", "exit"}
  BY DEF Frames
<1> QED BY <1>2, <1>3, <1>4, <1>5, <1>6, <1>7

(* Where the parts of a frame lie.                                          *)
FrameFound(p, o, x) ==
  /\ Found(p, o, Magic) /\ Found(p, o + 4, UInt16LE(Version))
  /\ Found(p, o + 6, UInt16LE(TypeCode[x.type])) /\ Found(p, o + 8, UInt32LE(Len(Payload(x))))
  /\ Found(p, o + 12, Payload(x))

LEMMA BytesOfFrame ==
  ASSUME NEW x \in Frames
  PROVE  /\ Encode(x) \in Seq(Byte) /\ Len(Encode(x)) = 12 + Len(Payload(x)) /\ Len(Payload(x)) \in Nat
         /\ \A p, o : Len(p) \in Nat /\ o \in Nat => (Found(p, o, Encode(x)) <=> FrameFound(p, o, x))
<1> DEFINE a == Magic
           b == UInt16LE(Version)
           c == UInt16LE(TypeCode[x.type])
           d == UInt32LE(Len(Payload(x)))
           e == Payload(x)
<1>1. /\ a \in Seq(Byte) /\ b \in Seq(Byte) /\ c \in Seq(Byte) /\ d \in Seq(Byte) /\ e \in Seq(Byte)
      /\ Len(a) = 4 /\ Len(b) = 2 /\ Len(c) = 2 /\ Len(d) = 4 /\ Len(e) \in Nat
  <2>1. a \in Seq(Byte) /\ Len(a) = 4 /\ Version \in Nat /\ TypeCode[x.type] \in Nat
    BY SmallBytes
  <2>2. e \in Seq(Byte) /\ Len(e) \in Nat
    BY BytesOfPayload
  <2>3. d \in Seq(Byte) /\ Len(d) = 4
    <3> HIDE DEF e
    <3> QED BY <2>2, BytesOfFour DEF e
  <2>4. b \in Seq(Byte) /\ Len(b) = 2 /\ c \in Seq(Byte) /\ Len(c) = 2
    BY <2>1, BytesOfTwo
  <2> QED BY <2>1, <2>2, <2>3, <2>4
<1>2. Encode(x) = a \o b \o c \o d \o e
  BY DEF Encode
<1>3. \A p, o : FrameFound(p, o, x) <=> /\ Found(p, o, a) /\ Found(p, o + 4, b)
                                        /\ Found(p, o + 6, c) /\ Found(p, o + 8, d) /\ Found(p, o + 12, e)
  BY DEF FrameFound
<1>4. Len(e) = Len(Payload(x))
  OBVIOUS
<1> HIDE DEF a, b, c, d, e
<1>5. /\ a \o b \in Seq(Byte) /\ Len(a \o b) = 6
      /\ a \o b \o c \in Seq(Byte) /\ Len(a \o b \o c) = 8
      /\ a \o b \o c \o d \in Seq(Byte) /\ Len(a \o b \o c \o d) = 12
      /\ a \o b \o c \o d \o e \in Seq(Byte) /\ Len(a \o b \o c \o d \o e) = 12 + Len(e)
  <2> DEFINE f == a \o b
             g == f \o c
             h == g \o d
  <2>2. f \in Seq(Byte) /\ Len(f) = 6
    <3>1. a \o b \in Seq(Byte) /\ Len(a \o b) = Len(a) + Len(b)
      BY <1>1, JoinedBytes, Zenon
    <3> QED BY <1>1, <3>1
  <2> HIDE DEF f
  <2>3. g \in Seq(Byte) /\ Len(g) = 8
    <3>1. f \o c \in Seq(Byte) /\ Len(f \o c) = Len(f) + Len(c)
      BY <1>1, <2>2, JoinedBytes, Zenon
    <3> QED BY <1>1, <2>2, <3>1
  <2> HIDE DEF g
  <2>4. h \in Seq(Byte) /\ Len(h) = 12
    <3>1. g \o d \in Seq(Byte) /\ Len(g \o d) = Len(g) + Len(d)
      BY <1>1, <2>3, JoinedBytes, Zenon
    <3> QED BY <1>1, <2>3, <3>1
  <2> HIDE DEF h
  <2>5. h \o e \in Seq(Byte) /\ Len(h \o e) = 12 + Len(e)
    <3>1. h \o e \in Seq(Byte) /\ Len(h \o e) = Len(h) + Len(e)
      BY <1>1, <2>4, JoinedBytes, Zenon
    <3> QED BY <1>1, <2>4, <3>1
  <2> QED BY <2>2, <2>3, <2>4, <2>5, Zenon DEF f, g, h
<1>6. ASSUME NEW p, NEW o, Len(p) \in Nat, o \in Nat
      PROVE  Found(p, o, a \o b \o c \o d \o e)
               <=> /\ Found(p, o, a) /\ Found(p, o + 4, b)
                   /\ Found(p, o + 6, c) /\ Found(p, o + 8, d) /\ Found(p, o + 12, e)
  <2>1. Found(p, o, a \o b \o c \o d \o e) <=> Found(p, o, a \o b \o c \o d) /\ Found(p, o + 12, e)
    BY <1>1, <1>5, <1>6, FoundJoined
  <2>2. Found(p, o, a \o b \o c \o d) <=> Found(p, o, a \o b \o c) /\ Found(p, o + 8, d)
    BY <1>1, <1>5, <1>6, FoundJoined
  <2>3. Found(p, o, a \o b \o c) <=> Found(p, o, a \o b) /\ Found(p, o + 6, c)
    BY <1>1, <1>5, <1>6, FoundJoined
  <2>4. Found(p, o, a \o b) <=> Found(p, o, a) /\ Found(p, o + 4, b)
    BY <1>1, <1>5, <1>6, FoundJoined
  <2> QED BY <2>1, <2>2, <2>3, <2>4
<1> QED BY <1>1, <1>2, <1>3, <1>4, <1>5, <1>6

(* The reader after each text.                                              *)
ReadsTrace(p, r, n, a) ==
  /\ a[0] = r /\ \A i \in 1..n : a[i] = ReadString(p, a[i - 1])
  /\ ReadStrings(p, r, n) = a[n]

LEMMA MaxIs ==
  ASSUME NEW x \in SUBSET Nat, NEW m \in x, \A y \in x : y <= m
  PROVE  Max(x) = m
<1>1. Max(x) \in x /\ \A y \in x : Max(x) >= y
  BY Zenon DEF Max
<1>2. \A z \in x : z >= m => z = m
  OBVIOUS
<1> QED BY <1>1, <1>2, Zenon

LEMMA ReadsTraceExists ==
  ASSUME NEW p, NEW r, NEW n \in Nat
  PROVE  \E a : ReadsTrace(p, r, n, a)
<1> DEFINE Folds(k, f) ==
      \A x \in SUBSET (1..k) : f[x] = IF x = {} THEN r ELSE ReadString(p, f[x \ {Max(x)}])
           S == {k \in Nat : \E f : Folds(k, f)}
<1>1. 0 \in S
  <2> DEFINE f == [x \in SUBSET (1..0) |-> r]
  <2>1. \A x \in SUBSET (1..0) : x = {}
    OBVIOUS
  <2>2. Folds(0, f)
    BY <2>1
  <2> QED BY <2>2
<1>2. ASSUME NEW k \in Nat, k \in S PROVE k + 1 \in S
  <2>1. PICK f : Folds(k, f)
    BY <1>2, Zenon
  <2> DEFINE g == [x \in SUBSET (1..(k + 1)) |->
                     IF k + 1 \in x THEN ReadString(p, f[x \ {k + 1}]) ELSE f[x]]
  <2>2. ASSUME NEW x \in SUBSET (1..(k + 1)), k + 1 \in x
        PROVE  g[x] = IF x = {} THEN r ELSE ReadString(p, g[x \ {Max(x)}])
    <3>1. /\ x \ {k + 1} \in SUBSET (1..k) /\ x \ {k + 1} \in SUBSET (1..(k + 1))
          /\ Max(x) = k + 1
      BY <2>2, MaxIs
    <3>2. g[x \ {k + 1}] = f[x \ {k + 1}]
      BY <3>1
    <3>3. g[x] = ReadString(p, f[x \ {k + 1}])
      BY <2>2
    <3> HIDE DEF g
    <3> QED BY <2>2, <3>1, <3>2, <3>3
  <2>3. ASSUME NEW x \in SUBSET (1..(k + 1)), k + 1 \notin x
        PROVE  g[x] = IF x = {} THEN r ELSE ReadString(p, g[x \ {Max(x)}])
    <3>1. x \in SUBSET (1..k) /\ g[x] = f[x]
      BY <2>3
    <3>2. /\ k + 1 \notin x \ {Max(x)} /\ x \ {Max(x)} \in SUBSET (1..(k + 1))
          /\ g[x \ {Max(x)}] = f[x \ {Max(x)}]
      BY <2>3, Zenon
    <3>3. f[x] = IF x = {} THEN r ELSE ReadString(p, f[x \ {Max(x)}])
      BY <2>1, <3>1
    <3> HIDE DEF g, Folds
    <3> QED BY <3>1, <3>2, <3>3
  <2> HIDE DEF g
  <2>4. Folds(k + 1, g)
    BY <2>2, <2>3, Zenon
  <2>5. k + 1 \in Nat
    OBVIOUS
  <2> HIDE DEF Folds
  <2> QED BY <2>4, <2>5
<1> HIDE DEF S
<1>3. n \in S
  BY <1>1, <1>2, FromZero
<1> DEFINE iter == CHOOSE f : f = [x \in SUBSET (1..n) |->
                                     IF x = {} THEN r ELSE ReadString(p, f[x \ {Max(x)}])]
<1>4. Folds(n, iter)
  <2>1. PICK f : Folds(n, f)
    BY <1>3, Zenon DEF S
  <2> DEFINE g == [x \in SUBSET (1..n) |-> f[x]]
  <2>2. \A x \in SUBSET (1..n) : g[x] = IF x = {} THEN r ELSE ReadString(p, g[x \ {Max(x)}])
    <3>1. \A x \in SUBSET (1..n) : g[x] = f[x] /\ g[x \ {Max(x)}] = f[x \ {Max(x)}]
      BY Zenon
    <3> HIDE DEF g
    <3> QED BY <2>1, <3>1, Zenon
  <2>3. g = [x \in SUBSET (1..n) |-> IF x = {} THEN r ELSE ReadString(p, g[x \ {Max(x)}])]
    BY <2>2, Zenon
  <2>4. iter = [x \in SUBSET (1..n) |-> IF x = {} THEN r ELSE ReadString(p, iter[x \ {Max(x)}])]
    <3> HIDE DEF g
    <3> QED BY <2>3, Zenon
  <2> HIDE DEF iter
  <2> QED BY <2>4, Zenon
<1>5. ReadStrings(p, r, n) = iter[1..n]
  <2>1. DOMAIN [i \in 1..n |-> i] = 1..n
    OBVIOUS
  <2> QED BY ONLY <2>1, Zenon DEF ReadStrings, FoldLeft, MapThenFoldSet, iter
<1> HIDE DEF iter
<1> DEFINE a == [i \in 0..n |-> iter[1..i]]
<1>6. a[0] = r
  <2>1. 1..0 = {} /\ {} \in SUBSET (1..n) /\ 0 \in 0..n
    OBVIOUS
  <2> QED BY <1>4, <2>1, Zenon
<1>7. ASSUME NEW i \in 1..n PROVE a[i] = ReadString(p, a[i - 1])
  <2>1. /\ 1..i \in SUBSET (1..n) /\ 1..i # {} /\ Max(1..i) = i /\ (1..i) \ {i} = 1..(i - 1)
        /\ i - 1 \in 0..n
    BY MaxIs
  <2>2. a[i] = iter[1..i] /\ a[i - 1] = iter[1..(i - 1)]
    BY <2>1
  <2> HIDE DEF a
  <2> QED BY <1>4, <2>1, <2>2, Zenon
<1>8. ReadStrings(p, r, n) = a[n]
  BY <1>5
<1> HIDE DEF a
<1>9. ReadsTrace(p, r, n, a)
  BY <1>6, <1>7, <1>8 DEF ReadsTrace
<1> QED BY <1>9

LEMMA FoundText ==
  ASSUME NEW p \in Seq(Byte), NEW o \in Nat, NEW n \in Nat, o + 4 + n <= Len(p)
  PROVE  /\ SubSeq(p, o + 5, o + 4 + n) \in Seq(Byte) /\ Len(SubSeq(p, o + 5, o + 4 + n)) = n
         /\ Found(p, o + 4, SubSeq(p, o + 5, o + 4 + n))
<1> DEFINE k == o + 4
<1>1. k \in Nat /\ k + n <= Len(p) /\ k + 1 = o + 5 /\ k + n = o + 4 + n
  OBVIOUS
<1> HIDE DEF k
<1>2. SubSeq(p, k + 1, k + n) \in Seq(Byte) /\ Len(SubSeq(p, k + 1, k + n)) = n
      /\ Found(p, k, SubSeq(p, k + 1, k + n))
  BY <1>1, FoundPart
<1> QED BY <1>1, <1>2 DEF k

(* One text, read and written.                                              *)
Readers == [ok : BOOLEAN, offset : Nat, texts : Texts]

LEMMA ReadOne ==
  ASSUME NEW p \in Seq(Byte), NEW r \in Readers
  PROVE  /\ ReadString(p, r) \in Readers
         /\ ReadString(p, r).ok =>
              /\ r.ok
              /\ \E text \in Seq(Byte) :
                   /\ StrictString(text) /\ Found(p, r.offset, EncodeString(text))
                   /\ ReadString(p, r) = [ok |-> TRUE, offset |-> r.offset + Len(EncodeString(text)),
                                          texts |-> Append(r.texts, text)]
<1> DEFINE n == ReadUInt32LE(p, r.offset)
           o == r.offset
           text == SubSeq(p, o + 5, o + 4 + n)
           Bad == \/ ~r.ok \/ o + 4 > Len(p)
                  \/ n > MaxStringBytes \/ o + 4 + n > Len(p)
                  \/ ~StrictString(text)
<1>1. ReadString(p, r) = IF Bad THEN [r EXCEPT !.ok = FALSE]
                         ELSE [ok |-> TRUE, offset |-> o + 4 + n, texts |-> Append(r.texts, text)]
  BY DEF ReadString
<1>2. o \in Nat /\ r.ok \in BOOLEAN /\ r.texts \in Texts /\ Len(p) \in Nat
  BY DEF Readers
<1>3. CASE Bad
  <2>1. [r EXCEPT !.ok = FALSE] \in Readers /\ [r EXCEPT !.ok = FALSE].ok = FALSE
    BY DEF Readers
  <2> HIDE DEF Bad
  <2> QED BY <1>1, <1>3, <2>1
<1>4. CASE ~Bad
  <2>1. r.ok /\ o + 4 <= Len(p)
    BY <1>2, <1>4
  <2>2. n \in UInt32 /\ Found(p, o, UInt32LE(n)) /\ n \in Nat
    BY <1>2, <2>1, ReadFour, RadixIs
  <2>3. o + 4 + n <= Len(p) /\ StrictString(text)
    <3>1. ~(o + 4 + n > Len(p)) /\ StrictString(text)
      BY <1>4
    <3> HIDE DEF n, text, Bad
    <3> QED BY <1>2, <2>2, <3>1
  <2>8. ReadString(p, r) = [ok |-> TRUE, offset |-> o + 4 + n, texts |-> Append(r.texts, text)]
    BY <1>1, <1>4
  <2> HIDE DEF n, o
  <2>5. text \in Seq(Byte) /\ Len(text) = n /\ Found(p, o + 4, text)
    BY <1>2, <2>2, <2>3, FoundText
  <2> HIDE DEF text, Bad
  <2>6. Found(p, o, EncodeString(text))
    <3> DEFINE s == UInt32LE(n)
    <3>1. s \in Seq(Byte) /\ Len(s) = 4
      BY <2>2, BytesOfFour
    <3>2. EncodeString(text) = s \o text
      BY <2>5 DEF EncodeString
    <3>3. Found(p, o, s)
      BY <2>2
    <3> HIDE DEF s
    <3>4. Found(p, o, s \o text) <=> Found(p, o, s) /\ Found(p, o + Len(s), text)
      BY <1>2, <2>5, <3>1, FoundJoined
    <3> QED BY <2>5, <3>1, <3>2, <3>3, <3>4
  <2>7. Len(EncodeString(text)) = 4 + n /\ o + (4 + n) = o + 4 + n
    BY <1>2, <2>2, <2>5, BytesOfText
  <2>9. Append(r.texts, text) \in Texts /\ o + 4 + n \in Nat
    BY <1>2, <2>2, <2>5, OneMoreText
  <2>10. ReadString(p, r) \in Readers
    BY <2>8, <2>9 DEF Readers
  <2> QED BY <2>1, <2>3, <2>5, <2>6, <2>7, <2>8, <2>10 DEF o
<1> QED BY <1>3, <1>4

LEMMA ReadsWritten ==
  ASSUME NEW p \in Seq(Byte), NEW r \in Readers, r.ok, NEW text \in Seq(Byte), StrictString(text),
         Found(p, r.offset, EncodeString(text))
  PROVE  ReadString(p, r) = [ok |-> TRUE, offset |-> r.offset + Len(EncodeString(text)),
                             texts |-> Append(r.texts, text)]
<1> DEFINE n == ReadUInt32LE(p, r.offset)
           o == r.offset
           read == SubSeq(p, o + 5, o + 4 + n)
           Bad == \/ ~r.ok \/ o + 4 > Len(p)
                  \/ n > MaxStringBytes \/ o + 4 + n > Len(p)
                  \/ ~StrictString(read)
<1>1. ReadString(p, r) = IF Bad THEN [r EXCEPT !.ok = FALSE]
                         ELSE [ok |-> TRUE, offset |-> o + 4 + n, texts |-> Append(r.texts, read)]
  BY DEF ReadString
<1>2. o \in Nat /\ r.texts \in Texts /\ Len(p) \in Nat
  BY DEF Readers
<1>3. /\ Len(EncodeString(text)) = 4 + Len(text) /\ Len(text) \in Nat
      /\ Found(p, o, UInt32LE(Len(text))) /\ Found(p, o + 4, text)
  <2> DEFINE s == UInt32LE(Len(text))
  <2>1. s \in Seq(Byte) /\ Len(s) = 4 /\ Len(EncodeString(text)) = 4 + Len(text) /\ Len(text) \in Nat
    BY BytesOfText
  <2>2. EncodeString(text) = s \o text
    BY DEF EncodeString
  <2> HIDE DEF s
  <2>3. Found(p, o, s \o text) <=> Found(p, o, s) /\ Found(p, o + Len(s), text)
    BY <1>2, <2>1, FoundJoined
  <2> QED BY <2>1, <2>2, <2>3 DEF s
<1>4. o + 4 + Len(text) <= Len(p)
  BY <1>2, <1>3 DEF Found
<1>5. Len(text) <= MaxStringBytes /\ Len(text) \in UInt32
  <2>1. MaxStringBytes \in UInt32 /\ UInt32 \subseteq Nat
    BY LimitsAssumption, RadixIs
  <2>2. Len(text) <= MaxStringBytes
    BY DEF StrictString
  <2>3. \A m \in UInt32 : \A k \in Nat : k <= m => k \in UInt32
    <3> DEFINE top == Radix * Radix * Radix * Radix - 1
    <3>1. UInt32 = 0..top /\ top \in Int
      BY RadixIs DEF UInt32
    <3> HIDE DEF top
    <3> QED BY <3>1
  <2> QED BY <1>3, <2>1, <2>2, <2>3
<1>6. n = Len(text)
  <2>1. o + 4 <= Len(p)
    BY <1>2, <1>3, <1>4
  <2> QED BY <1>2, <1>3, <1>5, <2>1, ReadFour
<1> HIDE DEF n
<1>7. read = text
  <2> HIDE DEF o
  <2>1. o + 4 + n <= Len(p) /\ n \in Nat /\ o + 4 \in Nat
    BY <1>2, <1>3, <1>4, <1>6
  <2>2. read \in Seq(Byte) /\ Len(read) = n /\ Found(p, o + 4, read)
    BY <1>2, <2>1, FoundText
  <2> HIDE DEF read
  <2> QED BY <1>3, <1>6, <2>1, <2>2, FoundSame
<1> HIDE DEF read
<1>8. ~Bad
  <2> HIDE DEF o
  <2>1. o + 4 <= Len(p) /\ n <= MaxStringBytes /\ o + 4 + n <= Len(p)
    BY <1>2, <1>3, <1>4, <1>5, <1>6
  <2>2. MaxStringBytes \in Nat /\ n \in Nat /\ o + 4 + n \in Nat
    BY <1>2, <1>3, <1>6, LimitsAssumption, RadixIs
  <2>3. ~(o + 4 > Len(p)) /\ ~(n > MaxStringBytes) /\ ~(o + 4 + n > Len(p))
    BY <1>2, <2>1, <2>2
  <2>4. StrictString(read)
    BY <1>7
  <2> QED BY <2>3, <2>4
<1>9. o + 4 + n = o + (4 + Len(text))
  <2> HIDE DEF o
  <2> QED BY <1>2, <1>3, <1>6
<1> HIDE DEF Bad
<1> QED BY <1>1, <1>3, <1>7, <1>8, <1>9

LEMMA ReadsMore ==
  ASSUME NEW p, NEW r, NEW n \in Nat
  PROVE  /\ ReadStrings(p, r, 0) = r
         /\ ReadStrings(p, r, n + 1) = ReadString(p, ReadStrings(p, r, n))
<1>1. PICK a : ReadsTrace(p, r, n, a)
  BY ReadsTraceExists
<1>2. PICK b : ReadsTrace(p, r, n + 1, b)
  <2>1. n + 1 \in Nat
    OBVIOUS
  <2> QED BY <2>1, ReadsTraceExists
<1>3. PICK c : ReadsTrace(p, r, 0, c)
  BY ReadsTraceExists
<1> DEFINE S == {k \in Nat : k <= n => a[k] = b[k]}
<1>4. 0 \in S
  BY <1>1, <1>2 DEF ReadsTrace
<1>5. ASSUME NEW k \in Nat, k \in S PROVE k + 1 \in S
  <2> SUFFICES ASSUME k + 1 <= n PROVE a[k + 1] = b[k + 1]
    OBVIOUS
  <2>1. k + 1 \in 1..n /\ k + 1 \in 1..(n + 1) /\ (k + 1) - 1 = k
    OBVIOUS
  <2>2. a[k + 1] = ReadString(p, a[k]) /\ b[k + 1] = ReadString(p, b[k])
    BY <1>1, <1>2, <2>1 DEF ReadsTrace
  <2>3. a[k] = b[k]
    BY <1>5
  <2> QED BY <2>2, <2>3
<1> HIDE DEF S
<1>6. n \in S
  BY <1>4, <1>5, FromZero
<1>7. a[n] = b[n]
  BY <1>6 DEF S
<1>8. n + 1 \in 1..(n + 1) /\ (n + 1) - 1 = n
  OBVIOUS
<1>9. b[n + 1] = ReadString(p, b[n])
  BY <1>2, <1>8 DEF ReadsTrace
<1>10. ReadStrings(p, r, n) = a[n] /\ ReadStrings(p, r, n + 1) = b[n + 1]
  BY <1>1, <1>2 DEF ReadsTrace
<1>11. ReadStrings(p, r, 0) = r
  BY <1>3 DEF ReadsTrace
<1> QED BY <1>7, <1>9, <1>10, <1>11

(* A reader that has taken these texts.                                     *)
Took(p, r, texts, s) ==
  /\ texts \in Texts /\ \A i \in 1..Len(texts) : StrictString(texts[i])
  /\ Found(p, r.offset, EncodeStrings(texts))
  /\ s = [ok |-> TRUE, offset |-> r.offset + Len(EncodeStrings(texts)), texts |-> r.texts \o texts]

LEMMA TookNone ==
  ASSUME NEW p \in Seq(Byte), NEW r \in Readers, r.ok, r.offset <= Len(p)
  PROVE  Took(p, r, <<>>, r)
<1>1. r.offset \in Nat /\ r.texts \in Texts /\ Len(p) \in Nat
  BY DEF Readers
<1>2. <<>> \in Texts /\ EncodeStrings(<<>>) = <<>>
  BY NoTexts
<1>3. r = [ok |-> TRUE, offset |-> r.offset, texts |-> r.texts]
  BY DEF Readers
<1>4. r.texts \o <<>> = r.texts
  BY <1>1, ConcatEmptySeq DEF Texts
<1>5. r.offset + Len(EncodeStrings(<<>>)) = r.offset /\ Found(p, r.offset, EncodeStrings(<<>>))
  BY <1>1, <1>2 DEF Found
<1> QED BY <1>2, <1>3, <1>4, <1>5 DEF Took

LEMMA TookMore ==
  ASSUME NEW p \in Seq(Byte), NEW r \in Readers, NEW texts, NEW s, Took(p, r, texts, s),
         NEW text \in Seq(Byte), StrictString(text), Found(p, s.offset, EncodeString(text))
  PROVE  Took(p, r, Append(texts, text),
              [ok |-> TRUE, offset |-> s.offset + Len(EncodeString(text)), texts |-> Append(s.texts, text)])
<1> DEFINE o == r.offset
           e == EncodeStrings(texts)
           x == EncodeString(text)
           more == Append(texts, text)
<1>1. o \in Nat /\ r.texts \in Texts /\ Len(p) \in Nat
  BY DEF Readers
<1>2. /\ texts \in Texts /\ \A i \in 1..Len(texts) : StrictString(texts[i])
      /\ Found(p, o, e) /\ s.offset = o + Len(e) /\ s.texts = r.texts \o texts
  BY DEF Took
<1>3. e \in Seq(Byte) /\ Len(e) \in Nat /\ x \in Seq(Byte) /\ Len(x) \in Nat
  BY <1>2, BytesOfTexts, BytesOfText
<1>4. more \in Texts /\ Len(more) = Len(texts) + 1 /\ EncodeStrings(more) = e \o x
  BY <1>2, OneMoreText
<1>5. \A i \in 1..Len(more) : StrictString(more[i])
  <2>1. more[Len(texts) + 1] = text /\ \A i \in 1..Len(texts) : more[i] = texts[i]
    BY <1>2, AppendProperties DEF Texts
  <2>2. Len(texts) \in Nat
    BY <1>2 DEF Texts
  <2> HIDE DEF more
  <2>3. \A i \in 1..(Len(texts) + 1) : i = Len(texts) + 1 \/ i \in 1..Len(texts)
    BY <2>2
  <2> QED BY <1>2, <1>4, <2>1, <2>3
<1>6. Append(s.texts, text) = r.texts \o more
  <2> DEFINE T == Seq(Byte)
             q == r.texts
  <2>1. q \in Seq(T) /\ texts \in Seq(T) /\ text \in T
    BY <1>1, <1>2 DEF Texts
  <2> HIDE DEF T, q
  <2>2. /\ q \o texts \in Seq(T) /\ Append(q \o texts, text) = (q \o texts) \o <<text>>
        /\ Append(texts, text) = texts \o <<text>> /\ <<text>> \in Seq(T)
    BY <2>1, AppendIsConcat
  <2>3. (q \o texts) \o <<text>> = q \o (texts \o <<text>>)
    BY <2>1, <2>2, ConcatAssociative
  <2>4. Append(q \o texts, text) = q \o Append(texts, text)
    BY <2>2, <2>3, Zenon
  <2> QED BY <1>2, <2>4 DEF q
<1> HIDE DEF e, x, more, o
<1>7. Found(p, o, e \o x) /\ Len(e \o x) = Len(e) + Len(x)
  <2>1. Found(p, o, e \o x) <=> Found(p, o, e) /\ Found(p, o + Len(e), x)
    BY <1>1, <1>3, FoundJoined
  <2>2. Found(p, o + Len(e), x)
    BY <1>2 DEF x
  <2>3. Len(e \o x) = Len(e) + Len(x)
    BY <1>3, JoinedBytes
  <2> QED BY <1>2, <2>1, <2>2, <2>3
<1>8. s.offset + Len(x) = o + Len(EncodeStrings(more))
  <2>1. (o + Len(e)) + Len(x) = o + (Len(e) + Len(x))
    BY <1>1, <1>3
  <2> QED BY <1>2, <1>4, <1>7, <2>1
<1>9. Took(p, r, more, [ok |-> TRUE, offset |-> s.offset + Len(x), texts |-> Append(s.texts, text)])
  BY <1>4, <1>5, <1>6, <1>7, <1>8 DEF Took, o
<1> QED BY <1>9 DEF more, x

(* What has been read was there, ...                                        *)
LEMMA ReadSome ==
  ASSUME NEW p \in Seq(Byte), NEW r \in Readers, r.offset <= Len(p), NEW n \in Nat
  PROVE  /\ ReadStrings(p, r, n) \in Readers
         /\ ReadStrings(p, r, n).ok =>
              r.ok /\ \E texts : Len(texts) = n /\ Took(p, r, texts, ReadStrings(p, r, n))
<1> DEFINE Holds(k, s) == /\ s \in Readers
                          /\ s.ok => r.ok /\ \E texts : Len(texts) = k /\ Took(p, r, texts, s)
           S == {k \in Nat : Holds(k, ReadStrings(p, r, k))}
<1>1. 0 \in S
  <2>1. ReadStrings(p, r, 0) = r
    BY ReadsMore
  <2>2. r.ok => Len(<<>>) = 0 /\ Took(p, r, <<>>, r)
    BY TookNone
  <2>3. Holds(0, r)
    BY <2>2
  <2> HIDE DEF Holds
  <2> QED BY <2>1, <2>3
<1>2. ASSUME NEW k \in Nat, k \in S PROVE k + 1 \in S
  <2> DEFINE s == ReadStrings(p, r, k)
             t == ReadString(p, s)
  <2>1. ReadStrings(p, r, k + 1) = t
    BY ReadsMore
  <2>2. Holds(k, s)
    BY <1>2
  <2> HIDE DEF s
  <2>3. s \in Readers
    BY <2>2
  <2>4. /\ t \in Readers
        /\ t.ok => /\ s.ok
                   /\ \E text \in Seq(Byte) :
                        /\ StrictString(text) /\ Found(p, s.offset, EncodeString(text))
                        /\ t = [ok |-> TRUE, offset |-> s.offset + Len(EncodeString(text)),
                                texts |-> Append(s.texts, text)]
    BY <2>3, ReadOne
  <2> HIDE DEF t
  <2>5. ASSUME t.ok PROVE r.ok /\ \E texts : Len(texts) = k + 1 /\ Took(p, r, texts, t)
    <3>1. PICK text \in Seq(Byte) :
            /\ StrictString(text) /\ Found(p, s.offset, EncodeString(text))
            /\ t = [ok |-> TRUE, offset |-> s.offset + Len(EncodeString(text)),
                    texts |-> Append(s.texts, text)]
      BY <2>4, <2>5, Zenon
    <3>2. r.ok /\ \E texts : Len(texts) = k /\ Took(p, r, texts, s)
      BY <2>2, <2>4, <2>5, Zenon
    <3>3. PICK texts : Len(texts) = k /\ Took(p, r, texts, s)
      BY <3>2
    <3>4. Took(p, r, Append(texts, text), t)
      BY <3>1, <3>3, TookMore
    <3>5. Len(Append(texts, text)) = k + 1
      <4>1. texts \in Texts
        BY <3>3 DEF Took
      <4> QED BY <3>3, <4>1, OneMoreText
    <3> QED BY <3>2, <3>4, <3>5
  <2>6. Holds(k + 1, t)
    BY <2>4, <2>5
  <2> HIDE DEF Holds
  <2> QED BY <2>1, <2>6
<1> HIDE DEF S
<1>3. n \in S
  BY <1>1, <1>2, FromZero
<1> QED BY <1>3 DEF S

(* ... and what was there is read.                                          *)
LEMMA ReadAll ==
  ASSUME NEW p \in Seq(Byte), NEW r \in Readers, r.ok, r.offset <= Len(p), NEW texts \in Texts,
         \A i \in 1..Len(texts) : StrictString(texts[i]), Found(p, r.offset, EncodeStrings(texts))
  PROVE  Took(p, r, texts, ReadStrings(p, r, Len(texts)))
<1> DEFINE Here(t) == /\ \A i \in 1..Len(t) : StrictString(t[i])
                      /\ Found(p, r.offset, EncodeStrings(t))
           S == {k \in Nat : \A t \in Texts : Len(t) = k /\ Here(t) => Took(p, r, t, ReadStrings(p, r, k))}
<1>1. 0 \in S
  <2>1. \A t \in Texts : Len(t) = 0 => t = <<>>
    BY DEF Texts
  <2>2. ReadStrings(p, r, 0) = r /\ Took(p, r, <<>>, r)
    BY ReadsMore, TookNone
  <2> HIDE DEF Here
  <2> QED BY <2>1, <2>2
<1>2. ASSUME NEW k \in Nat, k \in S PROVE k + 1 \in S
  <2>0. k + 1 \in Nat
    OBVIOUS
  <2> SUFFICES ASSUME NEW t \in Texts, Len(t) = k + 1, Here(t) PROVE Took(p, r, t, ReadStrings(p, r, k + 1))
    BY <2>0, Zenon
  <2> DEFINE front == [i \in 1..k |-> t[i]]
             last == t[k + 1]
  <2>1. /\ front \in Texts /\ Len(front) = k /\ last \in Seq(Byte) /\ \A i \in 1..k : front[i] = t[i]
    BY DEF Texts
  <2>2. t = Append(front, last)
    <3> HIDE DEF front, last
    <3>1. Append(front, last) \in Texts /\ Len(Append(front, last)) = k + 1
      BY <2>1, OneMoreText
    <3>2. Append(front, last)[k + 1] = last /\ \A i \in 1..k : Append(front, last)[i] = front[i]
      BY <2>1, AppendProperties DEF Texts
    <3>3. \A i \in 1..(k + 1) : i = k + 1 \/ i \in 1..k
      OBVIOUS
    <3>4. \A i \in 1..(k + 1) : Append(front, last)[i] = t[i]
      BY <2>1, <3>2, <3>3 DEF last
    <3> DEFINE u == Append(front, last)
    <3>5. u \in Seq(Seq(Byte)) /\ t \in Seq(Seq(Byte)) /\ Len(u) = Len(t) /\ \A i \in 1..Len(u) : u[i] = t[i]
      BY <3>1, <3>4 DEF Texts
    <3> HIDE DEF u
    <3>6. u = t
      BY <3>5, SeqEqual
    <3> QED BY <3>6 DEF u
  <2>3. \A i \in 1..k : StrictString(front[i])
    <3>1. \A i \in 1..k : i \in 1..(k + 1)
      OBVIOUS
    <3> HIDE DEF front
    <3> QED BY <2>1, <3>1
  <2>4. StrictString(last)
    BY <2>1
  <2> HIDE DEF front, last
  <2> DEFINE e == EncodeStrings(front)
             x == EncodeString(last)
             s == ReadStrings(p, r, k)
  <2>5. EncodeStrings(t) = e \o x /\ e \in Seq(Byte) /\ x \in Seq(Byte)
    BY <2>1, <2>2, OneMoreText, BytesOfTexts, BytesOfText
  <2>6. r.offset \in Nat /\ Len(p) \in Nat
    BY DEF Readers
  <2>7. Found(p, r.offset, e) /\ Found(p, r.offset + Len(e), x)
    <3>1. Found(p, r.offset, e \o x)
      BY <2>5
    <3> HIDE DEF e, x
    <3> QED BY <2>5, <2>6, <3>1, FoundJoined
  <2>8. Took(p, r, front, s)
    BY <1>2, <2>1, <2>3, <2>7
  <2>9. s \in Readers /\ s.ok /\ s.offset = r.offset + Len(e)
    <3>1. s \in Readers
      BY ReadSome
    <3> QED BY <2>8, <3>1 DEF Took
  <2> HIDE DEF s
  <2>10. Found(p, s.offset, x)
    BY <2>7, <2>9
  <2>11. ReadString(p, s) = [ok |-> TRUE, offset |-> s.offset + Len(x), texts |-> Append(s.texts, last)]
    BY <2>1, <2>4, <2>9, <2>10, ReadsWritten
  <2>12. Took(p, r, t, ReadString(p, s))
    BY <2>1, <2>2, <2>4, <2>8, <2>10, <2>11, TookMore
  <2>13. ReadStrings(p, r, k + 1) = ReadString(p, s)
    BY ReadsMore DEF s
  <2> QED BY <2>12, <2>13
<1> HIDE DEF S
<1>3. Len(texts) \in Nat
  BY DEF Texts
<1>4. Len(texts) \in S
  BY <1>1, <1>2, <1>3, FromZero
<1> QED BY <1>4 DEF S

LEMMA Pair ==
  ASSUME NEW S, NEW a \in S, NEW b \in S
  PROVE  Append(<<a>>, b) = <<a, b>>
<1> DEFINE s == <<a>>
           t == <<a, b>>
<1>1. s \in Seq(S) /\ Len(s) = 1 /\ s[1] = a /\ t \in Seq(S) /\ Len(t) = 2 /\ t[1] = a /\ t[2] = b
  OBVIOUS
<1> HIDE DEF s, t
<1>2. /\ Append(s, b) \in Seq(S) /\ Len(Append(s, b)) = Len(s) + 1
      /\ \A i \in 1..Len(s) : Append(s, b)[i] = s[i]
      /\ Append(s, b)[Len(s) + 1] = b
  <2>1. s \in Seq(S)
    BY <1>1
  <2> QED BY <2>1, AppendProperties
<1> DEFINE u == Append(s, b)
<1> HIDE DEF u
<1>3. u \in Seq(S) /\ Len(u) = 2 /\ u[1] = a /\ u[2] = b
  BY <1>1, <1>2 DEF u
<1>4. \A i \in 1..2 : u[i] = t[i]
  BY <1>1, <1>3
<1>5. u = t
  BY <1>1, <1>3, <1>4, SeqEqual
<1> QED BY <1>5 DEF s, t, u

LEMMA PairIs ==
  ASSUME NEW S, NEW s \in Seq(S), Len(s) = 2
  PROVE  s[1] \in S /\ s[2] \in S /\ s = <<s[1], s[2]>>
<1> DEFINE a == s[1]
           b == s[2]
           t == <<a, b>>
<1>1. a \in S /\ b \in S
  BY ElementOfSeq
<1> HIDE DEF a, b
<1>2. t \in Seq(S) /\ Len(t) = 2 /\ t[1] = a /\ t[2] = b
  BY <1>1
<1> HIDE DEF t
<1>3. \A i \in 1..2 : s[i] = t[i]
  BY <1>2 DEF a, b
<1>4. s = t
  BY <1>2, <1>3, SeqEqual
<1> QED BY <1>1, <1>4 DEF a, b, t

LEMMA FoundBytes ==
  ASSUME NEW p \in Seq(Byte), NEW o \in Nat, NEW s \in Seq(Byte), NEW t \in Seq(Byte),
         NEW m, m = o + Len(s)
  PROVE  Found(p, o, s \o t) <=> Found(p, o, s) /\ Found(p, m, t)
<1>1. Len(p) \in Nat
  OBVIOUS
<1> QED BY <1>1, FoundJoined

(* The payload of a launch: two paths, the number of arguments, and them.   *)
LEMMA TwoTexts ==
  ASSUME NEW a \in Seq(Byte), NEW b \in Seq(Byte)
  PROVE  <<a, b>> \in Texts /\ EncodeStrings(<<a, b>>) = EncodeString(a) \o EncodeString(b)
<1>1. /\ Append(<<>>, a) \in Texts /\ EncodeStrings(Append(<<>>, a)) = <<>> \o EncodeString(a)
  BY NoTexts, OneMoreText
<1>2. Append(<<>>, a) = <<a>>
  OBVIOUS
<1>3. /\ Append(<<a>>, b) \in Texts
      /\ EncodeStrings(Append(<<a>>, b)) = EncodeStrings(<<a>>) \o EncodeString(b)
  <2> DEFINE t == <<a>>
  <2>1. t \in Texts
    BY <1>1, <1>2
  <2> HIDE DEF t
  <2>2. Append(t, b) \in Texts /\ EncodeStrings(Append(t, b)) = EncodeStrings(t) \o EncodeString(b)
    BY <2>1, OneMoreText
  <2> QED BY <2>2 DEF t
<1>4. Append(<<a>>, b) = <<a, b>>
  BY Pair
<1>5. <<>> \o EncodeString(a) = EncodeString(a)
  BY BytesOfText, ConcatEmptySeq
<1> QED BY <1>1, <1>2, <1>3, <1>4, <1>5, Zenon

Launch(x) == x \in Frames /\ x.type = "launchConfig"

LEMMA LaunchParts ==
  ASSUME NEW x, Launch(x)
  PROVE  /\ x.executable \in Seq(Byte) /\ x.cwd \in Seq(Byte) /\ x.argv \in Texts /\ Len(x.argv) \in Nat
         /\ x = [type |-> "launchConfig", executable |-> x.executable, cwd |-> x.cwd, argv |-> x.argv]
BY DEF Launch, Frames, Texts

LEMMA LaunchFound ==
  ASSUME NEW x, Launch(x)
  PROVE  LET two == EncodeStrings(<<x.executable, x.cwd>>)
             rest == EncodeStrings(x.argv)
         IN /\ two \in Seq(Byte) /\ rest \in Seq(Byte) /\ Len(two) \in Nat /\ Len(rest) \in Nat
            /\ Len(Payload(x)) = (Len(two) + 4) + Len(rest)
            /\ \A p \in Seq(Byte) : Found(p, 0, Payload(x))
                 <=> /\ Found(p, 0, two) /\ Found(p, Len(two), UInt32LE(Len(x.argv)))
                     /\ Found(p, Len(two) + 4, rest)
<1> DEFINE two == EncodeStrings(<<x.executable, x.cwd>>)
           rest == EncodeStrings(x.argv)
           n == UInt32LE(Len(x.argv))
<1>1. two \in Seq(Byte) /\ two = EncodeString(x.executable) \o EncodeString(x.cwd)
  BY LaunchParts, TwoTexts, BytesOfTexts
<1>2. rest \in Seq(Byte) /\ n \in Seq(Byte) /\ Len(n) = 4
  BY LaunchParts, BytesOfTexts, BytesOfFour
<1>3. Payload(x) = two \o n \o rest
  BY <1>1 DEF Payload, Launch
<1> HIDE DEF two, rest, n
<1>4. Len(two) \in Nat /\ Len(rest) \in Nat
  BY <1>1, <1>2
<1>5. two \o n \in Seq(Byte) /\ Len(two \o n) = Len(two) + 4
  BY <1>1, <1>2, JoinedBytes
<1> DEFINE front == two \o n
<1> HIDE DEF front
<1>6. front \in Seq(Byte) /\ Len(front) = Len(two) + 4 /\ Payload(x) = front \o rest
  BY <1>3, <1>5 DEF front
<1>7. Len(Payload(x)) = (Len(two) + 4) + Len(rest)
  <2>1. Len(front \o rest) = Len(front) + Len(rest)
    BY <1>2, <1>6, JoinedBytes
  <2> QED BY <1>6, <2>1
<1>8. ASSUME NEW p \in Seq(Byte)
      PROVE  Found(p, 0, Payload(x))
               <=> Found(p, 0, two) /\ Found(p, Len(two), n) /\ Found(p, Len(two) + 4, rest)
  <2>1. 0 \in Nat /\ Len(two) + 4 = 0 + Len(front) /\ Len(two) = 0 + Len(two)
    BY <1>4, <1>6
  <2>4. two \in Seq(Byte) /\ rest \in Seq(Byte) /\ n \in Seq(Byte) /\ front \in Seq(Byte)
    BY <1>1, <1>2, <1>6
  <2>2. Found(p, 0, front \o rest) <=> Found(p, 0, front) /\ Found(p, Len(two) + 4, rest)
    BY <2>1, <2>4, FoundBytes
  <2>3. Found(p, 0, two \o n) <=> Found(p, 0, two) /\ Found(p, Len(two), n)
    BY <2>1, <2>4, FoundBytes
  <2> QED BY <1>6, <2>2, <2>3 DEF front
<1> QED BY <1>1, <1>2, <1>4, <1>7, <1>8 DEF two, rest, n

LEMMA StrictTexts ==
  ASSUME NEW x, Launch(x)
  PROVE  (\A text \in {x.executable, x.cwd} \cup Range(x.argv) : StrictString(text))
           <=> /\ StrictString(x.executable) /\ StrictString(x.cwd)
               /\ \A i \in 1..Len(x.argv) : StrictString(x.argv[i])
<1>1. DOMAIN x.argv = 1..Len(x.argv)
  BY LaunchParts DEF Texts
<1>2. Range(x.argv) = {x.argv[i] : i \in 1..Len(x.argv)}
  BY <1>1 DEF Range
<1> QED BY <1>2, Zenon

StartIsReader == Start \in Readers

LEMMA Starts == StartIsReader /\ Start.ok = TRUE /\ Start.offset = 0 /\ Start.texts = <<>>
BY NoTexts DEF Start, Readers, StartIsReader

LEMMA Onward ==
  ASSUME NEW r \in Readers, r.ok
  PROVE  /\ [r EXCEPT !.offset = @ + 4] = [ok |-> TRUE, offset |-> r.offset + 4, texts |-> r.texts]
         /\ [r EXCEPT !.offset = @ + 4] \in Readers
<1>1. r.offset \in Nat /\ r.ok = TRUE /\ r.texts \in Texts
  BY DEF Readers
<1>2. [r EXCEPT !.offset = @ + 4] \in Readers
  BY <1>1 DEF Readers
<1>3. [r EXCEPT !.offset = @ + 4] = [ok |-> TRUE, offset |-> r.offset + 4, texts |-> r.texts]
  <2> DEFINE q == [r EXCEPT !.offset = @ + 4]
  <2>1. q \in Readers /\ q.ok = TRUE /\ q.offset = r.offset + 4 /\ q.texts = r.texts
    BY <1>1, <1>2 DEF Readers
  <2> HIDE DEF q
  <2>2. q = [ok |-> TRUE, offset |-> r.offset + 4, texts |-> r.texts]
    BY <2>1 DEF Readers
  <2> QED BY <2>2 DEF q
<1> QED BY <1>2, <1>3

LEMMA TakenApart ==
  ASSUME NEW two \in Texts, Len(two) = 2, NEW argv \in Texts
  PROVE  /\ (two \o argv)[1] = two[1] /\ (two \o argv)[2] = two[2]
         /\ SubSeq(two \o argv, 3, Len(two \o argv)) = argv
<1> DEFINE T == Seq(Byte)
           u == two \o argv
           v == SubSeq(u, 2 + 1, 2 + Len(argv))
<1>1. two \in Seq(T) /\ argv \in Seq(T)
  BY DEF Texts
<1> HIDE DEF T
<1>2. /\ u \in Seq(T) /\ Len(u) = Len(two) + Len(argv) /\ Len(argv) \in Nat
      /\ \A i \in 1..Len(two) : u[i] = two[i]
      /\ \A i \in 1..Len(argv) : u[Len(two) + i] = argv[i]
  BY ONLY <1>1, JoinedIs
<1> HIDE DEF u
<1>3. /\ u \in Seq(T) /\ Len(u) = 2 + Len(argv) /\ Len(argv) \in Nat
      /\ \A i \in 1..2 : u[i] = two[i]
      /\ \A i \in 1..Len(argv) : u[2 + i] = argv[i]
  BY <1>2
<1>4. v \in Seq(T) /\ Len(v) = Len(argv) /\ Found(u, 2, v)
  BY <1>3, FoundPart
<1> HIDE DEF v
<1>5. Found(u, 2, argv)
  BY <1>3 DEF Found
<1>6. v = argv
  BY <1>1, <1>4, <1>5, FoundSame
<1>7. 2 + 1 = 3 /\ 2 + Len(argv) = Len(u)
  BY <1>3
<1> QED BY <1>3, <1>6, <1>7 DEF v, u

(* What was written is read back.                                           *)
LEMMA LaunchBack ==
  ASSUME NEW x, Launch(x), Encodable(x)
  PROVE  DecodeLaunchConfig(Payload(x)) = x
<1> DEFINE p == Payload(x)
           two == <<x.executable, x.cwd>>
           paths == ReadStrings(p, Start, 2)
           argc == ReadUInt32LE(p, paths.offset)
           onward == [paths EXCEPT !.offset = @ + 4]
           all == ReadStrings(p, onward, argc)
           m == Len(EncodeStrings(two))
           k == Len(EncodeStrings(x.argv))
<1>1. /\ x.executable \in Seq(Byte) /\ x.cwd \in Seq(Byte) /\ x.argv \in Texts /\ Len(x.argv) \in Nat
      /\ x = [type |-> "launchConfig", executable |-> x.executable, cwd |-> x.cwd, argv |-> x.argv]
  BY LaunchParts
<1>2. /\ FullyQualified(x.executable) /\ FullyQualified(x.cwd) /\ Len(x.argv) <= MaxArgCount
      /\ StrictString(x.executable) /\ StrictString(x.cwd)
      /\ \A i \in 1..Len(x.argv) : StrictString(x.argv[i])
  BY StrictTexts DEF Encodable, Launch
<1>3. p \in Seq(Byte) /\ Len(p) \in Nat
  BY BytesOfPayload DEF Launch
<1>4. m \in Nat /\ k \in Nat /\ Len(p) = (m + 4) + k
  BY LaunchFound
<1>5. Found(p, 0, EncodeStrings(two)) /\ Found(p, m, UInt32LE(Len(x.argv))) /\ Found(p, m + 4, EncodeStrings(x.argv))
  <2>1. Found(p, 0, p)
    <3> HIDE DEF p
    <3> QED BY <1>3 DEF Found
  <2> QED BY <1>3, <2>1, LaunchFound
<1>6. two \in Texts /\ Len(two) = 2 /\ \A i \in 1..2 : StrictString(two[i])
  <2>1. two \in Texts
    BY <1>1, TwoTexts
  <2>2. \A i \in 1..2 : i = 1 \/ i = 2
    OBVIOUS
  <2> QED BY <1>2, <2>1, <2>2
<1>7. two[1] = x.executable /\ two[2] = x.cwd
  OBVIOUS
<1> HIDE DEF p, two
<1>8. Took(p, Start, two, paths)
  <2>1. Start \in Readers /\ Start.ok /\ Start.offset = 0
    BY Starts DEF StartIsReader
  <2>3. Start.offset <= Len(p) /\ Found(p, Start.offset, EncodeStrings(two))
    BY <1>3, <1>5, <2>1
  <2>4. \A i \in 1..Len(two) : StrictString(two[i])
    BY <1>6
  <2>2. Took(p, Start, two, ReadStrings(p, Start, Len(two)))
    BY <1>3, <1>6, <2>1, <2>3, <2>4, ReadAll
  <2> QED BY <1>6, <2>2
<1>9. paths = [ok |-> TRUE, offset |-> m, texts |-> two]
  <2>1. <<>> \o two = two
    BY <1>6, ConcatEmptySeq DEF Texts
  <2>2. 0 + m = m
    BY <1>4
  <2> QED BY <1>8, <2>1, <2>2, Starts DEF Took
<1> HIDE DEF paths, m, k
<1>10. onward = [ok |-> TRUE, offset |-> m + 4, texts |-> two]
  <2>1. paths \in Readers /\ paths.ok
    BY <1>4, <1>6, <1>9 DEF Readers
  <2> QED BY <1>9, <2>1, Onward
<1> HIDE DEF paths, onward, m, k
<1>11. argc = Len(x.argv)
  <2>1. argc = ReadUInt32LE(p, m) /\ m + 4 <= Len(p)
    BY <1>4, <1>9
  <2>2. Len(x.argv) \in UInt32
    <3>1. MaxArgCount \in UInt32
      BY LimitsAssumption
    <3> DEFINE top == Radix * Radix * Radix * Radix - 1
    <3>2. UInt32 = 0..top /\ top \in Int
      BY RadixIs DEF UInt32
    <3> HIDE DEF top
    <3> QED BY <1>1, <1>2, <3>1, <3>2
  <2> QED BY <1>3, <1>4, <1>5, <2>1, <2>2, ReadFour
<1>12. Took(p, onward, x.argv, all)
  <2>1. onward \in Readers /\ onward.ok /\ onward.offset = m + 4 /\ m + 4 <= Len(p)
    BY <1>4, <1>6, <1>10 DEF Readers
  <2>2. Took(p, onward, x.argv, ReadStrings(p, onward, Len(x.argv)))
    BY <1>1, <1>2, <1>3, <1>5, <2>1, ReadAll
  <2> QED BY <1>11, <2>2
<1>13. all = [ok |-> TRUE, offset |-> (m + 4) + k, texts |-> two \o x.argv]
  BY <1>10, <1>12 DEF Took, k
<1> HIDE DEF all, argc
<1>14. /\ (two \o x.argv)[1] = x.executable /\ (two \o x.argv)[2] = x.cwd
       /\ SubSeq(two \o x.argv, 3, Len(two \o x.argv)) = x.argv
  BY <1>1, <1>6, <1>7, TakenApart
<1>15. ~(paths.offset + 4 > Len(p)) /\ ~(argc > MaxArgCount)
  <2>1. MaxArgCount \in Nat
    BY LimitsAssumption, RadixIs
  <2> QED BY <1>1, <1>2, <1>3, <1>4, <1>9, <1>11, <2>1
<1>16. DecodeLaunchConfig(p) =
         [type |-> "launchConfig", executable |-> all.texts[1], cwd |-> all.texts[2],
          argv |-> SubSeq(all.texts, 3, Len(all.texts))]
  <2>1. paths.ok /\ FullyQualified(paths.texts[1]) /\ FullyQualified(paths.texts[2])
    BY <1>2, <1>7, <1>9
  <2>2. all.ok /\ all.offset = Len(p)
    BY <1>4, <1>13
  <2> QED BY <1>15, <2>1, <2>2 DEF DecodeLaunchConfig, paths, argc, onward, all
<1>17. DecodeLaunchConfig(p) =
         [type |-> "launchConfig", executable |-> x.executable, cwd |-> x.cwd, argv |-> x.argv]
  BY <1>13, <1>14, <1>16
<1> QED BY <1>1, <1>17 DEF p

(* What is read could have been written.                                    *)
LEMMA LaunchRead ==
  ASSUME NEW p \in Seq(Byte), Len(p) <= MaxPayloadBytes, DecodeLaunchConfig(p) # Refused
  PROVE  /\ Launch(DecodeLaunchConfig(p)) /\ Encodable(DecodeLaunchConfig(p))
         /\ Payload(DecodeLaunchConfig(p)) = p
<1> DEFINE paths == ReadStrings(p, Start, 2)
           argc == ReadUInt32LE(p, paths.offset)
           onward == [paths EXCEPT !.offset = @ + 4]
           all == ReadStrings(p, onward, argc)
           x == DecodeLaunchConfig(p)
<1>1. /\ paths.ok /\ FullyQualified(paths.texts[1]) /\ FullyQualified(paths.texts[2])
      /\ ~(paths.offset + 4 > Len(p)) /\ ~(argc > MaxArgCount) /\ all.ok /\ all.offset = Len(p)
  BY DEF DecodeLaunchConfig
<1>2. x = [type |-> "launchConfig", executable |-> all.texts[1], cwd |-> all.texts[2],
           argv |-> SubSeq(all.texts, 3, Len(all.texts))]
  BY DEF DecodeLaunchConfig
<1>3. Len(p) \in Nat
  OBVIOUS
<1>4. paths \in Readers /\ \E texts : Len(texts) = 2 /\ Took(p, Start, texts, paths)
  <2>1. Start \in Readers /\ Start.offset <= Len(p) /\ 2 \in Nat
    BY <1>3, Starts DEF StartIsReader
  <2> QED BY <1>1, <2>1, ReadSome
<1> HIDE DEF paths, x
<1>5. PICK two : Len(two) = 2 /\ Took(p, Start, two, paths)
  BY <1>4
<1> DEFINE m == Len(EncodeStrings(two))
<1>6. /\ two \in Texts /\ StrictString(two[1]) /\ StrictString(two[2])
      /\ Found(p, 0, EncodeStrings(two)) /\ paths.offset = m /\ paths.texts = two /\ m \in Nat
  <2>1. /\ two \in Texts /\ \A i \in 1..Len(two) : StrictString(two[i])
        /\ Found(p, Start.offset, EncodeStrings(two))
        /\ paths = [ok |-> TRUE, offset |-> Start.offset + m, texts |-> Start.texts \o two]
    BY <1>5 DEF Took
  <2>2. <<>> \o two = two /\ m \in Nat
    BY <2>1, ConcatEmptySeq, BytesOfTexts DEF Texts
  <2>3. 1 \in 1..Len(two) /\ 2 \in 1..Len(two)
    BY <1>5
  <2> HIDE DEF m
  <2>4. 0 + m = m
    BY <2>2
  <2> QED BY <2>1, <2>2, <2>3, <2>4, Starts
<1> HIDE DEF m
<1>7. m + 4 <= Len(p) /\ argc = ReadUInt32LE(p, m)
  BY <1>1, <1>3, <1>6
<1>8. argc \in UInt32 /\ argc \in Nat /\ Found(p, m, UInt32LE(argc))
  <2>1. ReadUInt32LE(p, m) \in UInt32 /\ Found(p, m, UInt32LE(ReadUInt32LE(p, m)))
    BY <1>6, <1>7, ReadFour
  <2> QED BY <1>7, <2>1, RadixIs
<1>9. argc <= MaxArgCount
  <2>1. MaxArgCount \in Nat
    BY LimitsAssumption, RadixIs
  <2> HIDE DEF argc
  <2> QED BY <1>1, <1>8, <2>1
<1>10. onward \in Readers /\ onward.ok = TRUE /\ onward.offset = m + 4 /\ onward.texts = two
  <2>1. onward = [ok |-> TRUE, offset |-> m + 4, texts |-> two] /\ onward \in Readers
    BY <1>1, <1>4, <1>6, Onward
  <2> QED BY <2>1
<1> HIDE DEF onward, argc
<1>11. \E texts : Len(texts) = argc /\ Took(p, onward, texts, all)
  <2>1. onward.offset <= Len(p)
    BY <1>7, <1>10
  <2> QED BY <1>1, <1>8, <1>10, <2>1, ReadSome
<1>12. PICK argv : Len(argv) = argc /\ Took(p, onward, argv, all)
  BY <1>11
<1> DEFINE k == Len(EncodeStrings(argv))
<1>13. /\ argv \in Texts /\ \A i \in 1..Len(argv) : StrictString(argv[i])
       /\ Found(p, m + 4, EncodeStrings(argv)) /\ k \in Nat
       /\ all.offset = (m + 4) + k /\ all.texts = two \o argv
  <2>1. /\ argv \in Texts /\ \A i \in 1..Len(argv) : StrictString(argv[i])
        /\ Found(p, onward.offset, EncodeStrings(argv))
        /\ all = [ok |-> TRUE, offset |-> onward.offset + k, texts |-> onward.texts \o argv]
    BY <1>12 DEF Took
  <2>2. k \in Nat
    BY <2>1, BytesOfTexts
  <2> HIDE DEF k, all
  <2> QED BY <1>10, <2>1, <2>2
<1> HIDE DEF all
<1>14. /\ two[1] \in Seq(Byte) /\ two[2] \in Seq(Byte) /\ two = <<two[1], two[2]>>
  BY <1>5, <1>6, PairIs DEF Texts
<1>15. /\ (two \o argv)[1] = two[1] /\ (two \o argv)[2] = two[2]
       /\ SubSeq(two \o argv, 3, Len(two \o argv)) = argv
  BY <1>5, <1>6, <1>13, TakenApart
<1> DEFINE a == two[1]
           b == two[2]
<1> HIDE DEF k
<1>16. x = [type |-> "launchConfig", executable |-> a, cwd |-> b, argv |-> argv]
  BY <1>2, <1>13, <1>15
<1>17. a \in Seq(Byte) /\ b \in Seq(Byte) /\ two = <<a, b>>
  BY <1>14
<1>18. StrictString(a) /\ StrictString(b) /\ FullyQualified(a) /\ FullyQualified(b)
  BY <1>1, <1>6
<1> HIDE DEF a, b
<1>19. Launch(x) /\ x.executable = a /\ x.cwd = b /\ x.argv = argv
  <2>1. x \in [type : {"launchConfig"}, executable : Seq(Byte), cwd : Seq(Byte), argv : Seq(Seq(Byte))]
    BY <1>13, <1>16, <1>17 DEF Texts
  <2> QED BY <1>16, <2>1 DEF Launch, Frames
<1>20. Payload(x) = p
  <2>1. /\ Len(Payload(x)) = (m + 4) + k
        /\ Found(p, 0, Payload(x))
             <=> /\ Found(p, 0, EncodeStrings(two)) /\ Found(p, m, UInt32LE(Len(argv)))
                 /\ Found(p, m + 4, EncodeStrings(argv))
    BY <1>17, <1>19, LaunchFound DEF m, k
  <2>2. Found(p, 0, Payload(x)) /\ Len(Payload(x)) = Len(p)
    BY <1>1, <1>6, <1>8, <1>12, <1>13, <2>1
  <2>3. Payload(x) \in Seq(Byte)
    BY <1>19, BytesOfPayload DEF Launch
  <2> QED BY <2>2, <2>3, FoundWhole
<1>21. Encodable(x)
  <2>1. \A text \in {x.executable, x.cwd} \cup Range(x.argv) : StrictString(text)
    BY <1>13, <1>18, <1>19, StrictTexts
  <2>2. Len(x.argv) <= MaxArgCount /\ x.type = "launchConfig"
    BY <1>9, <1>12, <1>19 DEF Launch
  <2> QED BY <1>18, <1>19, <1>20, <2>1, <2>2 DEF Encodable
<1> QED BY <1>19, <1>20, <1>21 DEF x

(* The other payloads.                                                      *)
LEMMA FoundOne ==
  ASSUME NEW p \in Seq(Byte), NEW o \in Nat, NEW b
  PROVE  Found(p, o, <<b>>) <=> o + 1 <= Len(p) /\ p[o + 1] = b
<1> DEFINE s == <<b>>
<1>1. Len(s) = 1 /\ s[1] = b /\ Len(p) \in Nat
  OBVIOUS
<1> HIDE DEF s
<1>2. Found(p, o, s) <=> o + 1 <= Len(p) /\ p[o + 1] = b
  BY <1>1 DEF Found
<1> QED BY <1>2 DEF s

LEMMA Zeros == 0 \in UInt32 /\ UInt32LE(0) = <<0, 0, 0, 0>>
<1>1. 0 \in Byte
  BY SmallBytes
<1>2. /\ 0 + Radix * 0 = 0 /\ 0 + (Radix * Radix) * 0 = 0
  BY RadixIs
<1>3. 0 \in UInt16 /\ UInt16LE(0) = <<0, 0>>
  <2>1. 0 + Radix * 0 \in UInt16 /\ UInt16LE(0 + Radix * 0) = <<0, 0>>
    BY <1>1, ReadUInt16
  <2> QED BY <1>2, <2>1
<1>4. 0 \in UInt32 /\ UInt32LE(0) = UInt16LE(0) \o UInt16LE(0)
  <2>1. /\ 0 + (Radix * Radix) * 0 \in UInt32
        /\ UInt32LE(0 + (Radix * Radix) * 0) = UInt16LE(0) \o UInt16LE(0)
    BY <1>3, ReadUInt32
  <2> QED BY <1>2, <2>1
<1> DEFINE s == <<0, 0>>
           t == <<0, 0, 0, 0>>
<1>5. s \in Seq(Nat) /\ Len(s) = 2 /\ s[1] = 0 /\ s[2] = 0
  OBVIOUS
<1>6. t \in Seq(Nat) /\ Len(t) = 4 /\ t[1] = 0 /\ t[2] = 0 /\ t[3] = 0 /\ t[4] = 0
  OBVIOUS
<1>7. s \o s = t
  <2> HIDE DEF s, t
  <2> DEFINE u == s \o s
  <2>1. /\ u \in Seq(Nat) /\ Len(u) = Len(s) + Len(s)
        /\ \A i \in 1..Len(s) : u[i] = s[i]
        /\ \A i \in 1..Len(s) : u[Len(s) + i] = s[i]
    <3>1. s \in Seq(Nat)
      BY <1>5
    <3> QED BY ONLY <3>1, JoinedIs
  <2> HIDE DEF u
  <2>2. Len(u) = 4 /\ u[1] = 0 /\ u[2] = 0 /\ u[2 + 1] = 0 /\ u[2 + 2] = 0
    BY <1>5, <2>1
  <2>3. \A i \in 1..4 : u[i] = t[i]
    BY <1>6, <2>2
  <2>4. u = t
    BY <1>6, <2>1, <2>2, <2>3, SeqEqual
  <2> QED BY <2>4 DEF u
<1> QED BY <1>3, <1>4, <1>7

Flag(x) == IF x.win32Code = NoCode THEN 0 ELSE 1
Code(x) == IF x.win32Code = NoCode THEN 0 ELSE x.win32Code

ErrorParts(x) ==
  /\ x.type = "error" /\ x.stage \in StageCodes /\ x.reason \in ReasonCodes
  /\ x.win32Code \in UInt32 \cup {NoCode}
  /\ x = [type |-> "error", stage |-> x.stage, reason |-> x.reason, win32Code |-> x.win32Code]

LEMMA ErrorFound ==
  ASSUME NEW x, ErrorParts(x)
  PROVE  /\ Code(x) \in UInt32 /\ Len(Payload(x)) = 8
         /\ \A p \in Seq(Byte) : Found(p, 0, Payload(x))
              <=> /\ Found(p, 0, UInt16LE(x.stage)) /\ Found(p, 2, <<x.reason>>)
                  /\ Found(p, 3, <<Flag(x)>>) /\ Found(p, 4, UInt32LE(Code(x)))
<1> DEFINE a == UInt16LE(x.stage)
           b == <<x.reason>>
           c == <<Flag(x)>>
           d == UInt32LE(Code(x))
           e == a \o b
           f == c \o d
<1>1. x.stage \in Nat /\ x.reason \in Byte /\ Flag(x) \in Byte /\ Code(x) \in UInt32 /\ Code(x) \in Nat
  BY SmallBytes, Zeros, RadixIs DEF ErrorParts, Flag, Code
<1>2. a \in Seq(Byte) /\ Len(a) = 2 /\ b \in Seq(Byte) /\ Len(b) = 1 /\ c \in Seq(Byte) /\ Len(c) = 1
  BY <1>1, BytesOfTwo
<1>3. d \in Seq(Byte) /\ Len(d) = 4
  BY <1>1, BytesOfFour
<1>4. Payload(x) = a \o b \o f
  <2>1. CASE x.win32Code = NoCode
    <3>1. Payload(x) = a \o b \o <<0, 0, 0, 0, 0>>
      BY <2>1 DEF Payload, ErrorParts
    <3>2. f = <<0>> \o <<0, 0, 0, 0>>
      BY <2>1, Zeros DEF Flag, Code
    <3>3. <<0>> \o <<0, 0, 0, 0>> = <<0, 0, 0, 0, 0>>
      <4> DEFINE s == <<0>>
                 t == <<0, 0, 0, 0>>
                 v == <<0, 0, 0, 0, 0>>
                 u == s \o t
      <4>1. s \in Seq(Nat) /\ Len(s) = 1 /\ s[1] = 0
        OBVIOUS
      <4>2. t \in Seq(Nat) /\ Len(t) = 4 /\ t[1] = 0 /\ t[2] = 0 /\ t[3] = 0 /\ t[4] = 0
        OBVIOUS
      <4>3. v \in Seq(Nat) /\ Len(v) = 5 /\ v[1] = 0 /\ v[2] = 0 /\ v[3] = 0 /\ v[4] = 0 /\ v[5] = 0
        OBVIOUS
      <4> HIDE DEF s, t, v
      <4>4. /\ u \in Seq(Nat) /\ Len(u) = Len(s) + Len(t)
            /\ \A i \in 1..Len(s) : u[i] = s[i]
            /\ \A i \in 1..Len(t) : u[Len(s) + i] = t[i]
        <5>1. s \in Seq(Nat) /\ t \in Seq(Nat)
          BY <4>1, <4>2
        <5> QED BY ONLY <5>1, JoinedIs
      <4> HIDE DEF u
      <4>5. Len(u) = 5 /\ u[1] = 0 /\ u[1 + 1] = 0 /\ u[1 + 2] = 0 /\ u[1 + 3] = 0 /\ u[1 + 4] = 0
        BY <4>1, <4>2, <4>4
      <4>6. \A i \in 1..5 : u[i] = v[i]
        BY <4>3, <4>5
      <4>7. u = v
        BY <4>3, <4>4, <4>5, <4>6, SeqEqual
      <4> QED BY <4>7 DEF u, s, t, v
    <3> HIDE DEF a, b, f
    <3> QED BY <3>1, <3>2, <3>3
  <2>2. CASE x.win32Code # NoCode
    <3>1. Payload(x) = a \o b \o (<<1>> \o UInt32LE(x.win32Code))
      BY <2>2 DEF Payload, ErrorParts
    <3>2. f = <<1>> \o UInt32LE(x.win32Code)
      BY <2>2 DEF Flag, Code
    <3> HIDE DEF a, b, f
    <3> QED BY <3>1, <3>2
  <2> QED BY <2>1, <2>2
<1> HIDE DEF a, b, c, d
<1>5. e \in Seq(Byte) /\ Len(e) = 3
  <2>1. e \in Seq(Byte) /\ Len(e) = Len(a) + Len(b)
    BY <1>2, JoinedBytes, Zenon
  <2> QED BY <1>2, <2>1
<1>6. f \in Seq(Byte) /\ Len(f) = 5
  <2>1. f \in Seq(Byte) /\ Len(f) = Len(c) + Len(d)
    BY <1>2, <1>3, JoinedBytes, Zenon
  <2> HIDE DEF f
  <2> QED BY <1>2, <1>3, <2>1
<1>7. ASSUME NEW p \in Seq(Byte)
      PROVE  /\ Found(p, 0, e \o f) <=> Found(p, 0, e) /\ Found(p, 3, f)
             /\ Found(p, 0, e) <=> Found(p, 0, a) /\ Found(p, 2, b)
             /\ Found(p, 3, f) <=> Found(p, 3, c) /\ Found(p, 4, d)
  <2>1. 0 \in Nat /\ 3 \in Nat /\ 3 = 0 + Len(e) /\ 2 = 0 + Len(a) /\ 4 = 3 + Len(c)
    BY <1>2, <1>5
  <2>2. Found(p, 0, e) <=> Found(p, 0, a) /\ Found(p, 2, b)
    BY <1>2, <2>1, FoundBytes
  <2>3. Found(p, 3, f) <=> Found(p, 3, c) /\ Found(p, 4, d)
    <3>1. p \in Seq(Byte) /\ 3 \in Nat /\ c \in Seq(Byte) /\ d \in Seq(Byte) /\ 4 = 3 + Len(c)
      BY <1>2, <1>3, <2>1
    <3> QED BY ONLY <3>1, FoundBytes
  <2> HIDE DEF e, f
  <2>4. Found(p, 0, e \o f) <=> Found(p, 0, e) /\ Found(p, 3, f)
    BY <1>5, <1>6, <2>1, FoundBytes
  <2> QED BY <2>2, <2>3, <2>4
<1>8. Len(e \o f) = 8
  <2> HIDE DEF e, f
  <2>1. Len(e \o f) = Len(e) + Len(f)
    BY <1>5, <1>6, JoinedBytes, Zenon
  <2> QED BY <1>5, <1>6, <2>1
<1>9. Payload(x) = e \o f
  BY <1>4
<1> HIDE DEF e, f
<1> QED BY <1>1, <1>7, <1>8, <1>9 DEF a, b, c, d

LEMMA ErrorBack ==
  ASSUME NEW x, ErrorParts(x), x \in Frames
  PROVE  DecodeError(Payload(x)) = x
<1> DEFINE p == Payload(x)
           code == ReadUInt32LE(p, 4)
           stage == ReadUInt16LE(p, 0)
<1>1. p \in Seq(Byte) /\ Len(p) = 8 /\ Len(p) \in Nat
  BY BytesOfPayload, ErrorFound
<1>2. Found(p, 0, p)
  <2> HIDE DEF p
  <2> QED BY <1>1 DEF Found
<1>3. /\ Found(p, 0, UInt16LE(x.stage)) /\ Found(p, 2, <<x.reason>>)
      /\ Found(p, 3, <<Flag(x)>>) /\ Found(p, 4, UInt32LE(Code(x))) /\ Code(x) \in UInt32
  BY <1>1, <1>2, ErrorFound
<1> HIDE DEF p
<1>4. x.stage \in UInt16 /\ x.stage \in StageCodes /\ x.reason \in ReasonCodes
  BY SmallBytes DEF ErrorParts
<1>5. stage = x.stage
  <2>1. 0 \in Nat /\ 0 + 2 <= Len(p)
    BY <1>1
  <2> QED BY <1>1, <1>3, <1>4, <2>1, ReadTwo
<1>6. code = Code(x)
  <2>1. 4 \in Nat /\ 4 + 4 <= Len(p)
    BY <1>1
  <2> QED BY <1>1, <1>3, <2>1, ReadFour
<1>7. p[3] = x.reason /\ p[4] = Flag(x)
  <2>2. p \in Seq(Byte) /\ 2 \in Nat /\ 3 \in Nat
    BY <1>1
  <2>3. /\ Found(p, 2, <<x.reason>>) <=> 2 + 1 <= Len(p) /\ p[2 + 1] = x.reason
        /\ Found(p, 3, <<Flag(x)>>) <=> 3 + 1 <= Len(p) /\ p[3 + 1] = Flag(x)
    BY ONLY <2>2, FoundOne
  <2>1. p[2 + 1] = x.reason /\ p[3 + 1] = Flag(x)
    BY <1>3, <2>3
  <2> QED BY <2>1
<1>8. Flag(x) \in {0, 1} /\ (Flag(x) = 0 => Code(x) = 0) /\ (IF Flag(x) = 1 THEN Code(x) ELSE NoCode) = x.win32Code
  BY DEF Flag, Code
<1>9. DecodeError(p) = [type |-> "error", stage |-> stage, reason |-> p[3],
                        win32Code |-> IF p[4] = 1 THEN code ELSE NoCode]
  <2>1. stage \in StageCodes /\ p[3] \in ReasonCodes /\ p[4] \in {0, 1} /\ (p[4] = 0 => code = 0)
    BY <1>4, <1>5, <1>6, <1>7, <1>8
  <2> QED BY <1>1, <2>1 DEF DecodeError
<1> HIDE DEF code, stage
<1>10. x = [type |-> "error", stage |-> x.stage, reason |-> x.reason, win32Code |-> x.win32Code]
  BY DEF ErrorParts
<1>11. DecodeError(p) = x
  BY <1>5, <1>6, <1>7, <1>8, <1>9, <1>10, Zenon
<1> QED BY <1>11 DEF p

LEMMA ErrorRead ==
  ASSUME NEW p \in Seq(Byte), DecodeError(p) # Refused
  PROVE  ErrorParts(DecodeError(p)) /\ Payload(DecodeError(p)) = p
<1> DEFINE code == ReadUInt32LE(p, 4)
           stage == ReadUInt16LE(p, 0)
           win32 == IF p[4] = 1 THEN code ELSE NoCode
           x == DecodeError(p)
<1>1. /\ Len(p) = 8 /\ stage \in StageCodes /\ p[3] \in ReasonCodes
      /\ p[4] \in {0, 1} /\ (p[4] = 0 => code = 0)
      /\ x = [type |-> "error", stage |-> stage, reason |-> p[3], win32Code |-> win32]
  BY DEF DecodeError
<1>2. Found(p, 0, UInt16LE(stage))
  <2>1. 0 \in Nat /\ 0 + 2 <= Len(p)
    BY <1>1
  <2> QED BY <2>1, ReadTwo
<1>3. code \in UInt32 /\ Found(p, 4, UInt32LE(code)) /\ code \in Nat
  <2>1. 4 \in Nat /\ 4 + 4 <= Len(p)
    BY <1>1
  <2> QED BY <2>1, ReadFour, RadixIs
<1> HIDE DEF code, stage, x
<1>4. win32 \in UInt32 \cup {NoCode} /\ (win32 = NoCode <=> p[4] = 0)
  BY <1>1, <1>3 DEF NoCode
<1> HIDE DEF win32
<1>5. ErrorParts(x) /\ x.win32Code = win32 /\ x.stage = stage /\ x.reason = p[3]
  BY <1>1, <1>4 DEF ErrorParts
<1>6. Flag(x) = p[4] /\ Code(x) = code
  BY <1>1, <1>4, <1>5 DEF Flag, Code, win32
<1>7. Found(p, 2, <<x.reason>>) /\ Found(p, 3, <<Flag(x)>>)
  <2>1. 2 + 1 <= Len(p) /\ 3 + 1 <= Len(p) /\ p[2 + 1] = x.reason /\ p[3 + 1] = Flag(x)
    BY <1>1, <1>5, <1>6
  <2> QED BY <2>1, FoundOne
<1>8. Found(p, 0, Payload(x)) /\ Len(Payload(x)) = 8
  BY <1>2, <1>3, <1>5, <1>6, <1>7, ErrorFound
<1>9. Payload(x) \in Seq(Byte)
  <2>1. x \in [type : {"error"}, stage : StageCodes, reason : ReasonCodes, win32Code : UInt32 \cup {NoCode}]
    BY <1>5 DEF ErrorParts
  <2>2. x \in Frames
    BY <2>1 DEF Frames
  <2> QED BY <2>2, BytesOfPayload
<1>10. Payload(x) = p
  BY <1>1, <1>8, <1>9, FoundWhole
<1> QED BY <1>5, <1>10 DEF x

ExitParts(x) ==
  /\ x.type = "exit" /\ x.rootExitCode \in UInt32 /\ x.reason \in ReasonCodes
  /\ x = [type |-> "exit", rootExitCode |-> x.rootExitCode, reason |-> x.reason]

LEMMA ExitFound ==
  ASSUME NEW x, ExitParts(x)
  PROVE  /\ Len(Payload(x)) = 8
         /\ \A p \in Seq(Byte) : Found(p, 0, Payload(x))
              <=> Found(p, 0, UInt32LE(x.rootExitCode)) /\ Found(p, 4, <<x.reason, 1, 0, 0>>)
<1> DEFINE a == UInt32LE(x.rootExitCode)
           b == <<x.reason, 1, 0, 0>>
<1>1. a \in Seq(Byte) /\ Len(a) = 4
  BY BytesOfFour, RadixIs DEF ExitParts
<1>2. b \in Seq(Byte) /\ Len(b) = 4
  BY SmallBytes DEF ExitParts
<1>3. Payload(x) = a \o b
  BY DEF Payload, ExitParts
<1> HIDE DEF a, b
<1>4. Len(a \o b) = 8
  <2>1. Len(a \o b) = Len(a) + Len(b)
    BY <1>1, <1>2, JoinedBytes, Zenon
  <2> QED BY <1>1, <1>2, <2>1
<1>5. ASSUME NEW p \in Seq(Byte) PROVE Found(p, 0, a \o b) <=> Found(p, 0, a) /\ Found(p, 4, b)
  <2>1. p \in Seq(Byte) /\ a \in Seq(Byte) /\ b \in Seq(Byte) /\ 0 \in Nat /\ 4 = 0 + Len(a)
    BY <1>1, <1>2
  <2> QED BY ONLY <2>1, FoundBytes
<1> QED BY <1>3, <1>4, <1>5 DEF a, b

(* The end of the payload of an exit.                                       *)
LEMMA ExitEnd ==
  ASSUME NEW p \in Seq(Byte), Len(p) = 8, NEW r
  PROVE  Found(p, 4, <<r, 1, 0, 0>>) <=> p[5] = r /\ SubSeq(p, 6, 8) = <<1, 0, 0>>
<1> DEFINE s == <<r, 1, 0, 0>>
           t == SubSeq(p, 5 + 1, 5 + 3)
           u == <<1, 0, 0>>
<1>1. Len(s) = 4 /\ s[1] = r /\ s[2] = 1 /\ s[3] = 0 /\ s[4] = 0
  OBVIOUS
<1>2. u \in Seq(Byte) /\ Len(u) = 3 /\ u[1] = 1 /\ u[2] = 0 /\ u[3] = 0
  BY SmallBytes
<1>3. t \in Seq(Byte) /\ Len(t) = 3 /\ Found(p, 5, t)
  <2>1. 5 \in Nat /\ 3 \in Nat /\ 5 + 3 <= Len(p)
    OBVIOUS
  <2> QED BY <2>1, FoundPart
<1> HIDE DEF s, t, u
<1>4. Found(p, 4, s) <=> p[4 + 1] = s[1] /\ p[4 + 2] = s[2] /\ p[4 + 3] = s[3] /\ p[4 + 4] = s[4]
  <2>1. \A j \in 1..4 : j = 1 \/ j = 2 \/ j = 3 \/ j = 4
    OBVIOUS
  <2>2. 4 + 4 <= Len(p) /\ 1 \in 1..4 /\ 2 \in 1..4 /\ 3 \in 1..4 /\ 4 \in 1..4
    OBVIOUS
  <2> QED BY <1>1, <2>1, <2>2 DEF Found
<1>5. \A j \in 1..3 : p[5 + j] = t[j]
  BY <1>3 DEF Found
<1>6. p[5 + 1] = t[1] /\ p[5 + 2] = t[2] /\ p[5 + 3] = t[3]
  BY <1>5
<1>7. t = u <=> t[1] = 1 /\ t[2] = 0 /\ t[3] = 0
  <2>1. ASSUME t[1] = 1 /\ t[2] = 0 /\ t[3] = 0 PROVE t = u
    <3>1. \A j \in 1..3 : t[j] = u[j]
      BY <1>2, <2>1
    <3> QED BY <1>2, <1>3, <3>1, SeqEqual
  <2> QED BY <1>2, <2>1
<1>8. Found(p, 4, s) <=> p[5] = r /\ t = u
  BY <1>1, <1>4, <1>6, <1>7
<1> QED BY <1>8 DEF s, t, u

LEMMA ExitBack ==
  ASSUME NEW x, ExitParts(x), x \in Frames, x.reason # ProtocolFault
  PROVE  DecodeExit(Payload(x)) = x
<1> DEFINE p == Payload(x)
           code == ReadUInt32LE(p, 0)
<1>1. p \in Seq(Byte) /\ Len(p) = 8
  BY BytesOfPayload, ExitFound
<1>2. Found(p, 0, p)
  <2> HIDE DEF p
  <2> QED BY <1>1 DEF Found
<1>3. Found(p, 0, UInt32LE(x.rootExitCode)) /\ Found(p, 4, <<x.reason, 1, 0, 0>>)
  BY <1>1, <1>2, ExitFound
<1> HIDE DEF p
<1>4. code = x.rootExitCode
  <2>1. 0 \in Nat /\ 0 + 4 <= Len(p) /\ x.rootExitCode \in UInt32
    BY <1>1 DEF ExitParts
  <2> QED BY <1>1, <1>3, <2>1, ReadFour
<1>5. p[5] = x.reason /\ SubSeq(p, 6, 8) = <<1, 0, 0>>
  BY <1>1, <1>3, ExitEnd
<1>6. DecodeExit(p) = [type |-> "exit", rootExitCode |-> code, reason |-> p[5]]
  <2>1. p[5] \in ReasonCodes \ {ProtocolFault}
    BY <1>5 DEF ExitParts
  <2> QED BY <1>1, <1>5, <2>1 DEF DecodeExit
<1>7. x = [type |-> "exit", rootExitCode |-> x.rootExitCode, reason |-> x.reason]
  BY DEF ExitParts
<1> HIDE DEF code
<1>8. DecodeExit(p) = x
  BY <1>4, <1>5, <1>6, <1>7, Zenon
<1> QED BY <1>8 DEF p

LEMMA ExitRead ==
  ASSUME NEW p \in Seq(Byte), DecodeExit(p) # Refused
  PROVE  /\ ExitParts(DecodeExit(p)) /\ Payload(DecodeExit(p)) = p
         /\ DecodeExit(p).reason # ProtocolFault
<1> DEFINE code == ReadUInt32LE(p, 0)
           x == DecodeExit(p)
<1>1. /\ Len(p) = 8 /\ p[5] \in ReasonCodes \ {ProtocolFault} /\ SubSeq(p, 6, 8) = <<1, 0, 0>>
      /\ x = [type |-> "exit", rootExitCode |-> code, reason |-> p[5]]
  BY DEF DecodeExit
<1>2. code \in UInt32 /\ Found(p, 0, UInt32LE(code))
  <2>1. 0 \in Nat /\ 0 + 4 <= Len(p)
    BY <1>1
  <2> QED BY <2>1, ReadFour
<1> HIDE DEF code, x
<1>3. ExitParts(x) /\ x.rootExitCode = code /\ x.reason = p[5]
  BY <1>1, <1>2 DEF ExitParts
<1>4. Found(p, 4, <<x.reason, 1, 0, 0>>)
  BY <1>1, <1>3, ExitEnd
<1>5. Found(p, 0, Payload(x)) /\ Len(Payload(x)) = 8
  BY <1>2, <1>3, <1>4, ExitFound
<1>6. Payload(x) \in Seq(Byte)
  <2>1. x \in [type : {"exit"}, rootExitCode : UInt32, reason : ReasonCodes]
    BY <1>3 DEF ExitParts
  <2>2. x \in Frames
    BY <2>1 DEF Frames
  <2> QED BY <2>2, BytesOfPayload
<1>7. Payload(x) = p
  BY <1>1, <1>5, <1>6, FoundWhole
<1> QED BY <1>1, <1>3, <1>7 DEF x

(* Every payload, by the code of its type.                                  *)
LEMMA Kinds ==
  ASSUME NEW x \in Frames
  PROVE  \/ Launch(x) \/ x = [type |-> "ready"]
         \/ /\ x.type = "terminate" /\ x.reason \in ReasonCodes
            /\ x = [type |-> "terminate", reason |-> x.reason]
         \/ ErrorParts(x) \/ ExitParts(x)
<1>1. CASE x \in [type : {"launchConfig"}, executable : Seq(Byte), cwd : Seq(Byte), argv : Seq(Seq(Byte))]
  BY <1>1 DEF Launch
<1>2. CASE x \in [type : {"ready"}]
  BY <1>2
<1>3. CASE x \in [type : {"terminate"}, reason : ReasonCodes]
  BY <1>3
<1>4. CASE x \in [type : {"error"}, stage : StageCodes, reason : ReasonCodes, win32Code : UInt32 \cup {NoCode}]
  BY <1>4 DEF ErrorParts
<1>5. CASE x \in [type : {"exit"}, rootExitCode : UInt32, reason : ReasonCodes]
  BY <1>5 DEF ExitParts
<1> QED BY <1>1, <1>2, <1>3, <1>4, <1>5 DEF Frames

LEMMA KindCodes ==
  /\ TypeCode.launchConfig = 1 /\ TypeCode.ready = 2 /\ TypeCode.terminate = 3
  /\ TypeCode.error = 4 /\ TypeCode.exit = 5 /\ Range(TypeCode) = {1, 2, 3, 4, 5}
  /\ \A p : /\ DecodePayload(1, p) = DecodeLaunchConfig(p)
            /\ DecodePayload(2, p) = IF p = <<>> THEN [type |-> "ready"] ELSE Refused
            /\ DecodePayload(3, p) = DecodeTerminate(p)
            /\ DecodePayload(4, p) = DecodeError(p) /\ DecodePayload(5, p) = DecodeExit(p)
<1>1. /\ TypeCode.launchConfig = 1 /\ TypeCode.ready = 2 /\ TypeCode.terminate = 3
      /\ TypeCode.error = 4 /\ TypeCode.exit = 5
  BY DEF TypeCode
<1>2. DOMAIN TypeCode = {"launchConfig", "ready", "terminate", "error", "exit"}
  BY DEF TypeCode
<1>3. Range(TypeCode) = {1, 2, 3, 4, 5}
  BY <1>1, <1>2 DEF Range
<1>4. ASSUME NEW p
      PROVE /\ DecodePayload(1, p) = DecodeLaunchConfig(p)
            /\ DecodePayload(2, p) = IF p = <<>> THEN [type |-> "ready"] ELSE Refused
            /\ DecodePayload(3, p) = DecodeTerminate(p)
            /\ DecodePayload(4, p) = DecodeError(p) /\ DecodePayload(5, p) = DecodeExit(p)
  BY <1>1 DEF DecodePayload
<1> QED BY <1>1, <1>3, <1>4

LEMMA PayloadBack ==
  ASSUME NEW x \in Frames, Encodable(x)
  PROVE  DecodePayload(TypeCode[x.type], Payload(x)) = x
<1>1. CASE Launch(x)
  <2>1. TypeCode[x.type] = 1
    BY <1>1, KindCodes DEF Launch
  <2> QED BY <1>1, <2>1, KindCodes, LaunchBack
<1>2. CASE x = [type |-> "ready"]
  <2>1. TypeCode[x.type] = 2 /\ Payload(x) = <<>>
    BY <1>2, KindCodes DEF Payload
  <2> QED BY <1>2, <2>1, KindCodes
<1>3. CASE /\ x.type = "terminate" /\ x.reason \in ReasonCodes
           /\ x = [type |-> "terminate", reason |-> x.reason]
  <2>1. TypeCode[x.type] = 3 /\ x.reason # NoneOrRootExit
    BY <1>3, KindCodes DEF Encodable
  <2>2. Payload(x) = <<x.reason>>
    BY <1>3 DEF Payload
  <2>3. DecodeTerminate(<<x.reason>>) = [type |-> "terminate", reason |-> x.reason]
    <3> DEFINE s == <<x.reason>>
    <3>1. Len(s) = 1 /\ s[1] = x.reason
      OBVIOUS
    <3> HIDE DEF s
    <3>2. DecodeTerminate(s) = [type |-> "terminate", reason |-> x.reason]
      BY <1>3, <2>1, <3>1 DEF DecodeTerminate
    <3> QED BY <3>2 DEF s
  <2> QED BY <1>3, <2>1, <2>2, <2>3, KindCodes
<1>4. CASE ErrorParts(x)
  <2>1. TypeCode[x.type] = 4
    BY <1>4, KindCodes DEF ErrorParts
  <2> QED BY <1>4, <2>1, KindCodes, ErrorBack
<1>5. CASE ExitParts(x)
  <2>1. TypeCode[x.type] = 5 /\ x.reason # ProtocolFault
    BY <1>5, KindCodes DEF ExitParts, Encodable
  <2> QED BY <1>5, <2>1, KindCodes, ExitBack
<1> QED BY <1>1, <1>2, <1>3, <1>4, <1>5, Kinds

IsReadAs(x, type, p) == x \in Frames /\ Encodable(x) /\ Payload(x) = p /\ TypeCode[x.type] = type

LEMMA PayloadRead ==
  ASSUME NEW p \in Seq(Byte), Len(p) <= MaxPayloadBytes, NEW type \in Range(TypeCode),
         DecodePayload(type, p) # Refused
  PROVE  IsReadAs(DecodePayload(type, p), type, p)
<1> DEFINE x == DecodePayload(type, p)
<1>1. CASE type = 1
  <2>1. x = DecodeLaunchConfig(p)
    BY <1>1, KindCodes
  <2> HIDE DEF x
  <2>2. Launch(x) /\ Encodable(x) /\ Payload(x) = p
    BY <2>1, LaunchRead DEF x
  <2> QED BY <1>1, <2>2, KindCodes DEF IsReadAs, Launch, x
<1>2. CASE type = 2
  <2>1. x = [type |-> "ready"] /\ p = <<>>
    BY <1>2, KindCodes
  <2> HIDE DEF x
  <2>2. x \in Frames /\ TypeCode[x.type] = 2
    BY <2>1, KindCodes DEF Frames
  <2>3. Payload(x) = <<>>
    BY <2>1 DEF Payload
  <2>4. Encodable(x)
    BY <2>1, <2>3 DEF Encodable
  <2> QED BY <1>2, <2>1, <2>2, <2>3, <2>4 DEF IsReadAs, x
<1>3. CASE type = 3
  <2>1. x = DecodeTerminate(p)
    BY <1>3, KindCodes
  <2>2. /\ x = [type |-> "terminate", reason |-> p[1]]
        /\ p[1] \in ReasonCodes \ {NoneOrRootExit} /\ Len(p) = 1
    BY <2>1 DEF DecodeTerminate
  <2> HIDE DEF x
  <2>3. x \in [type : {"terminate"}, reason : ReasonCodes]
    BY <2>2
  <2>4. x \in Frames /\ TypeCode[x.type] = 3
    BY <2>2, <2>3, KindCodes DEF Frames
  <2>5. Payload(x) = p
    <3>1. Payload(x) = <<p[1]>>
      BY <2>2 DEF Payload
    <3> DEFINE b == p[1]
               s == <<b>>
    <3>2. b \in Byte
      BY <2>2, SmallBytes
    <3> HIDE DEF b
    <3>3. s \in Seq(Byte) /\ Len(s) = 1 /\ s[1] = b
      BY <3>2
    <3> HIDE DEF s
    <3>4. \A i \in 1..1 : s[i] = p[i]
      BY <3>3 DEF b
    <3>5. s = p
      BY <2>2, <3>3, <3>4, SeqEqual
    <3> QED BY <3>1, <3>5 DEF s, b
  <2>6. Encodable(x)
    BY <2>2, <2>5 DEF Encodable
  <2> QED BY <1>3, <2>4, <2>5, <2>6 DEF IsReadAs, x
<1>4. CASE type = 4
  <2>1. x = DecodeError(p)
    BY <1>4, KindCodes
  <2> HIDE DEF x
  <2>2. ErrorParts(x) /\ Payload(x) = p
    BY <2>1, ErrorRead DEF x
  <2>3. x \in [type : {"error"}, stage : StageCodes, reason : ReasonCodes, win32Code : UInt32 \cup {NoCode}]
    BY <2>2 DEF ErrorParts
  <2>4. x \in Frames /\ TypeCode[x.type] = 4
    BY <2>2, <2>3, KindCodes DEF Frames, ErrorParts
  <2>5. Encodable(x)
    BY <2>2 DEF Encodable, ErrorParts
  <2> QED BY <1>4, <2>2, <2>4, <2>5 DEF IsReadAs, x
<1>5. CASE type = 5
  <2>1. x = DecodeExit(p)
    BY <1>5, KindCodes
  <2> HIDE DEF x
  <2>2. ExitParts(x) /\ Payload(x) = p /\ x.reason # ProtocolFault
    BY <2>1, ExitRead DEF x
  <2>3. x \in [type : {"exit"}, rootExitCode : UInt32, reason : ReasonCodes]
    BY <2>2 DEF ExitParts
  <2>4. x \in Frames /\ TypeCode[x.type] = 5
    BY <2>2, <2>3, KindCodes DEF Frames, ExitParts
  <2>5. Encodable(x)
    BY <2>2 DEF Encodable, ExitParts
  <2> QED BY <1>5, <2>2, <2>4, <2>5 DEF IsReadAs, x
<1> HIDE DEF x
<1> QED BY <1>1, <1>2, <1>3, <1>4, <1>5, KindCodes DEF x

(* Frames at the front of what is unread.                                   *)
LEMMA PartFound ==
  ASSUME NEW u \in Seq(Byte), NEW k \in Nat, NEW n \in Nat, k + n <= Len(u)
  PROVE  /\ SubSeq(u, k + 1, k + n) \in Seq(Byte) /\ Len(SubSeq(u, k + 1, k + n)) = n
         /\ \A s \in Seq(Byte) : Len(s) = n =>
              (Found(u, k, s) <=> SubSeq(u, k + 1, k + n) = s)
<1> DEFINE t == SubSeq(u, k + 1, k + n)
<1>1. t \in Seq(Byte) /\ Len(t) = n /\ Found(u, k, t)
  BY FoundPart
<1> HIDE DEF t
<1>2. ASSUME NEW s \in Seq(Byte), Len(s) = n PROVE Found(u, k, s) <=> t = s
  <2>1. Len(s) = Len(t)
    BY <1>1, <1>2
  <2> QED BY <1>1, <2>1, FoundSame
<1> QED BY <1>1, <1>2 DEF t

(* A header that is there, whether or not its payload is.                   *)
LEMMA HeaderBack ==
  ASSUME NEW x \in Frames, Encodable(x), NEW p \in Seq(Byte), NEW o \in Nat, Found(p, o, Encode(x)),
         NEW u \in Seq(Byte), Found(p, o, u), Len(u) >= HeaderBytes
  PROVE  /\ ValidHeader(u) /\ TypeOf(u) = TypeCode[x.type] /\ PayloadLength(u) = Len(Payload(x))
         /\ Len(u) >= HeaderBytes + Len(Payload(x)) => Found(u, 0, Encode(x)) /\ Found(u, HeaderBytes, Payload(x))
<1>1. Len(u) \in Nat /\ Len(p) \in Nat /\ Len(u) >= 12 /\ HeaderBytes = 12
  BY DEF HeaderBytes
<1> DEFINE n == Len(Payload(x))
           e == Encode(x)
<1>2. n \in Nat /\ e \in Seq(Byte) /\ Len(e) = 12 + n /\ FrameFound(p, o, x)
  BY <1>1, BytesOfFrame
<1> HIDE DEF n, e
<1>3. /\ Found(p, o, Magic) /\ Found(p, o + 4, UInt16LE(Version))
      /\ Found(p, o + 6, UInt16LE(TypeCode[x.type])) /\ Found(p, o + 8, UInt32LE(n))
      /\ Found(p, o + 12, Payload(x))
  BY <1>2 DEF FrameFound, n
<1>4. /\ Version \in UInt16 /\ TypeCode[x.type] \in UInt16 /\ n \in UInt32 /\ n <= MaxPayloadBytes
  <2>1. n <= MaxPayloadBytes
    BY DEF Encodable, n
  <2>2. MaxPayloadBytes \in UInt32
    BY LimitsAssumption
  <2> DEFINE top == Radix * Radix * Radix * Radix - 1
  <2>3. UInt32 = 0..top /\ top \in Int
    BY RadixIs DEF UInt32
  <2> HIDE DEF top
  <2>4. n \in UInt32
    BY <1>2, <2>1, <2>2, <2>3
  <2> QED BY <2>1, <2>4, SmallBytes
<1>5. ASSUME NEW k \in Nat, NEW s, Len(s) \in Nat, Found(p, o + k, s), k + Len(s) <= Len(u)
      PROVE  Found(u, k, s)
  BY <1>1, <1>5, FoundIn
<1>6. Found(u, 0, Magic)
  <2>1. Len(Magic) \in Nat /\ 0 + Len(Magic) <= Len(u) /\ o + 0 = o /\ 0 \in Nat
    BY <1>1, SmallBytes
  <2>2. Found(p, o + 0, Magic)
    BY <1>3, <2>1
  <2> QED BY <1>5, <2>1, <2>2
<1>7. Found(u, 4, UInt16LE(Version)) /\ Found(u, 6, UInt16LE(TypeCode[x.type]))
  <2>1. Len(UInt16LE(Version)) = 2 /\ Len(UInt16LE(TypeCode[x.type])) = 2
    BY <1>4, WriteUInt16
  <2>2. 4 \in Nat /\ 6 \in Nat /\ 2 \in Nat /\ 4 + 2 <= Len(u) /\ 6 + 2 <= Len(u)
    BY <1>1
  <2> QED BY <1>3, <1>5, <2>1, <2>2
<1>8. Found(u, 8, UInt32LE(n))
  <2>1. Len(UInt32LE(n)) = 4
    BY <1>2, BytesOfFour
  <2>2. 8 \in Nat /\ 4 \in Nat /\ 8 + 4 <= Len(u)
    BY <1>1
  <2> QED BY <1>3, <1>5, <2>1, <2>2
<1>9. SubSeq(u, 1, 4) = Magic
  <2>1. 0 \in Nat /\ 4 \in Nat /\ 0 + 4 <= Len(u) /\ Magic \in Seq(Byte) /\ Len(Magic) = 4
    BY <1>1, SmallBytes
  <2>2. SubSeq(u, 0 + 1, 0 + 4) = Magic
    BY <1>6, <2>1, PartFound
  <2> QED BY <2>2
<1>10. ReadUInt16LE(u, 4) = Version /\ TypeOf(u) = TypeCode[x.type]
  <2>1. 4 \in Nat /\ 6 \in Nat /\ 4 + 2 <= Len(u) /\ 6 + 2 <= Len(u)
    BY <1>1
  <2>2. ReadUInt16LE(u, 4) = Version
    BY <1>4, <1>7, <2>1, ReadTwo
  <2>3. ReadUInt16LE(u, 6) = TypeCode[x.type]
    BY <1>4, <1>7, <2>1, ReadTwo
  <2> QED BY <2>2, <2>3 DEF TypeOf
<1>11. PayloadLength(u) = n
  <2>1. 8 \in Nat /\ 8 + 4 <= Len(u)
    BY <1>1
  <2> QED BY <1>4, <1>8, <2>1, ReadFour DEF PayloadLength
<1>12. TypeCode[x.type] \in Range(TypeCode)
  <2>1. x.type \in DOMAIN TypeCode
    BY DEF Frames, TypeCode
  <2> QED BY <2>1 DEF Range
<1>13. ValidHeader(u)
  BY <1>4, <1>9, <1>10, <1>11, <1>12 DEF ValidHeader
<1>14. ASSUME Len(u) >= 12 + n PROVE Found(u, 0, e) /\ Found(u, 12, Payload(x))
  <2>1. 0 \in Nat /\ 0 + Len(e) <= Len(u) /\ o + 0 = o /\ Len(e) \in Nat /\ 12 \in Nat
        /\ Len(Payload(x)) \in Nat /\ 12 + Len(Payload(x)) <= Len(u)
    BY <1>1, <1>2, <1>14 DEF n
  <2>2. Found(p, o + 0, e)
    BY <2>1 DEF e
  <2> QED BY <1>3, <1>5, <2>1, <2>2
<1> QED BY <1>1, <1>10, <1>11, <1>13, <1>14 DEF n, e

(* A whole frame that was written is decoded, ...                           *)
LEMMA FrameBack ==
  ASSUME NEW x \in Frames, Encodable(x), NEW u \in Seq(Byte), Found(u, HeaderBytes, Payload(x)),
         TypeOf(u) = TypeCode[x.type], PayloadLength(u) = Len(Payload(x))
  PROVE  DecodePayload(TypeOf(u), SubSeq(u, HeaderBytes + 1, HeaderBytes + PayloadLength(u))) = x
<1> DEFINE n == Len(Payload(x))
<1>1. Payload(x) \in Seq(Byte) /\ n \in Nat /\ 12 \in Nat /\ HeaderBytes = 12
  BY BytesOfPayload DEF HeaderBytes
<1>2. HeaderBytes + n <= Len(u)
  BY DEF Found
<1>3. SubSeq(u, HeaderBytes + 1, HeaderBytes + n) = Payload(x)
  BY <1>1, <1>2, PartFound
<1> QED BY <1>3, PayloadBack

(* ... and what is decoded was written.                                     *)
LEMMA FrameRead ==
  ASSUME NEW u \in Seq(Byte), ValidHeader(u), Len(u) >= HeaderBytes,
         NEW x, x = DecodePayload(TypeOf(u), SubSeq(u, HeaderBytes + 1, HeaderBytes + PayloadLength(u))),
         Len(u) >= HeaderBytes + PayloadLength(u), x # Refused
  PROVE  /\ x \in Frames /\ Encodable(x) /\ Found(u, 0, Encode(x))
         /\ Len(Encode(x)) = HeaderBytes + PayloadLength(u)
<1>1. Len(u) \in Nat /\ Len(u) >= 12 /\ HeaderBytes = 12 /\ 12 \in Nat
  BY DEF HeaderBytes
<1> DEFINE n == PayloadLength(u)
           payload == SubSeq(u, HeaderBytes + 1, HeaderBytes + n)
           type == TypeOf(u)
<1>2. n \in UInt32 /\ n \in Nat /\ Found(u, 8, UInt32LE(n))
  <2>1. 8 \in Nat /\ 8 + 4 <= Len(u)
    BY <1>1
  <2> QED BY <2>1, ReadFour, RadixIs DEF PayloadLength
<1>3. /\ SubSeq(u, 1, 4) = Magic /\ ReadUInt16LE(u, 4) = Version /\ type \in Range(TypeCode)
      /\ n <= MaxPayloadBytes
  BY DEF ValidHeader
<1>4. Found(u, 4, UInt16LE(Version)) /\ Found(u, 6, UInt16LE(type))
  <2>1. 4 \in Nat /\ 6 \in Nat /\ 4 + 2 <= Len(u) /\ 6 + 2 <= Len(u)
    BY <1>1
  <2>2. Found(u, 4, UInt16LE(ReadUInt16LE(u, 4))) /\ Found(u, 6, UInt16LE(ReadUInt16LE(u, 6)))
    BY <2>1, ReadTwo
  <2> QED BY <1>3, <2>2 DEF TypeOf
<1>5. Found(u, 0, Magic)
  <2>1. 0 \in Nat /\ 4 \in Nat /\ 0 + 4 <= Len(u) /\ Magic \in Seq(Byte) /\ Len(Magic) = 4
    BY <1>1, SmallBytes
  <2>2. SubSeq(u, 0 + 1, 0 + 4) = Magic
    BY <1>3
  <2> QED BY <2>1, <2>2, PartFound
<1> HIDE DEF n, type
<1>6. payload \in Seq(Byte) /\ Len(payload) = n /\ Found(u, 12, payload)
  <2>1. HeaderBytes \in Nat /\ HeaderBytes + n <= Len(u)
    BY <1>1 DEF n
  <2>2. payload \in Seq(Byte) /\ Len(payload) = n /\ Found(u, HeaderBytes, payload)
    BY <1>2, <2>1, FoundPart
  <2> QED BY <1>1, <2>2
<1>7. x = DecodePayload(type, payload)
  BY DEF n, type
<1> HIDE DEF payload
<1>8. IsReadAs(x, type, payload)
  BY <1>3, <1>6, <1>7, PayloadRead
<1>9. x \in Frames /\ Encodable(x) /\ Payload(x) = payload /\ TypeCode[x.type] = type
  BY <1>8 DEF IsReadAs
<1>10. FrameFound(u, 0, x)
  <2>1. 0 + 4 = 4 /\ 0 + 6 = 6 /\ 0 + 8 = 8 /\ 0 + 12 = 12
    OBVIOUS
  <2> QED BY <1>2, <1>4, <1>5, <1>6, <1>9, <2>1 DEF FrameFound
<1>11. Found(u, 0, Encode(x)) /\ Len(Encode(x)) = 12 + n
  BY <1>1, <1>6, <1>9, <1>10, BytesOfFrame
<1> QED BY <1>1, <1>9, <1>11 DEF n

(* The list of a line, one after the other.                               *)
LEMMA EncodedFrames ==
  ASSUME NEW list \in Seq(Frames)
  PROVE  [i \in DOMAIN list |-> Encode(list[i])] \in Seq(Seq(Byte))
<1> DEFINE n == Len(list)
<1>1. n \in Nat /\ DOMAIN list = 1..n /\ \A i \in 1..n : list[i] \in Frames
  BY ElementOfSeq
<1>2. \A i \in 1..n : Encode(list[i]) \in Seq(Byte)
  BY <1>1, BytesOfFrame
<1> HIDE DEF n
<1> QED BY <1>1, <1>2

LEMMA BytesOfFrames ==
  ASSUME NEW list \in Seq(Frames)
  PROVE  Encoded(list) \in Seq(Byte) /\ Len(Encoded(list)) \in Nat
<1>1. Encoded(list) \in Seq(Byte)
  BY EncodedFrames, FlatMore DEF Encoded
<1> QED BY <1>1

LEMMA OneMoreFrame ==
  ASSUME NEW list \in Seq(Frames), NEW x \in Frames
  PROVE  /\ Append(list, x) \in Seq(Frames) /\ Len(Append(list, x)) = Len(list) + 1
         /\ Append(list, x)[Len(list) + 1] = x
         /\ \A i \in 1..Len(list) : Append(list, x)[i] = list[i]
         /\ Encoded(Append(list, x)) = Encoded(list) \o Encode(x)
         /\ Len(Encoded(Append(list, x))) = Len(Encoded(list)) + Len(Encode(x))
<1> DEFINE n == Len(list)
           more == Append(list, x)
           code == [i \in DOMAIN list |-> Encode(list[i])]
           y == Encode(x)
<1>1. /\ n \in Nat /\ DOMAIN list = 1..n /\ \A i \in 1..n : list[i] \in Frames
      /\ more \in Seq(Frames) /\ Len(more) = n + 1 /\ DOMAIN more = 1..(n + 1) /\ more[n + 1] = x
      /\ \A i \in 1..n : more[i] = list[i]
  BY ElementOfSeq, AppendProperties
<1>2. code \in Seq(Seq(Byte)) /\ y \in Seq(Byte)
  BY EncodedFrames, BytesOfFrame
<1>3. DOMAIN code = 1..n /\ \A i \in 1..n : code[i] = Encode(list[i])
  BY <1>1
<1> HIDE DEF code, y
<1>4. /\ Len(code) = n /\ Append(code, y) \in Seq(Seq(Byte)) /\ Len(Append(code, y)) = n + 1
      /\ Append(code, y)[n + 1] = y /\ \A i \in 1..n : Append(code, y)[i] = code[i]
  <2>1. Len(code) = n
    BY <1>1, <1>2, <1>3
  <2> HIDE DEF n
  <2> QED BY <1>2, <2>1, AppendProperties
<1> DEFINE all == [i \in DOMAIN more |-> Encode(more[i])]
<1>5. all \in Seq(Seq(Byte)) /\ Len(all) = n + 1
  <2> HIDE DEF n, more
  <2>1. all \in Seq(Seq(Byte))
    BY <1>1, EncodedFrames
  <2>2. DOMAIN all = 1..(n + 1)
    BY <1>1
  <2> HIDE DEF all
  <2> QED BY <1>1, <2>1, <2>2
<1>6. \A i \in 1..(n + 1) : all[i] = Append(code, y)[i]
  <2> SUFFICES ASSUME NEW i \in 1..(n + 1) PROVE all[i] = Append(code, y)[i]
    OBVIOUS
  <2>1. all[i] = Encode(more[i])
    BY <1>1
  <2>2. CASE i = n + 1
    BY <1>1, <1>4, <2>1, <2>2 DEF y
  <2>3. CASE i # n + 1
    <3>1. i \in 1..n
      BY <1>1, <2>3
    <3> HIDE DEF n, more, all
    <3> QED BY <1>1, <1>3, <1>4, <2>1, <3>1
  <2> QED BY <2>2, <2>3
<1> HIDE DEF all
<1>7. all = Append(code, y)
  <2> HIDE DEF n
  <2> QED BY <1>4, <1>5, <1>6, SeqEqual
<1>8. FlattenSeq(Append(code, y)) = FlattenSeq(code) \o y
  BY <1>2, FlatMore
<1>9. Encoded(more) = FlattenSeq(all) /\ Encoded(list) = FlattenSeq(code)
  BY DEF Encoded, all, code
<1> HIDE DEF more
<1>10. Encoded(more) = Encoded(list) \o y
  BY <1>7, <1>8, <1>9
<1>11. Len(Encoded(more)) = Len(Encoded(list)) + Len(y)
  <2> DEFINE s == Encoded(list)
  <2>1. s \in Seq(Byte)
    BY BytesOfFrames
  <2> HIDE DEF s
  <2>2. Len(s \o y) = Len(s) + Len(y)
    BY <1>2, <2>1, JoinedBytes
  <2> QED BY <1>10, <2>2 DEF s
<1> QED BY <1>1, <1>10, <1>11 DEF y, more

LEMMA NoFrames == <<>> \in Seq(Frames) /\ Encoded(<<>>) = <<>>
<1>1. [i \in DOMAIN <<>> |-> Encode(<<>>[i])] = <<>>
  OBVIOUS
<1> QED BY <1>1, FlatNothing DEF Encoded

(* The first k of some list.                                              *)
Begins(g, list) == /\ Len(g) <= Len(list) /\ \A i \in 1..Len(g) : g[i] = list[i]

LEMMA NextFrame ==
  ASSUME NEW list \in Seq(Frames), NEW g \in Seq(Frames), Begins(g, list)
  PROVE  /\ Len(g) < Len(list) =>
              Found(Encoded(list), Len(Encoded(g)), Encode(list[Len(g) + 1]))
         /\ Len(g) = Len(list) => g = list
<1> DEFINE S == {n \in Nat : \A f, h \in Seq(Frames) :
                    Len(f) = n /\ Begins(h, f) /\ Len(h) < n =>
                      Found(Encoded(f), Len(Encoded(h)), Encode(f[Len(h) + 1]))}
<1>1. 0 \in S
  <2>1. \A h \in Seq(Frames) : ~(Len(h) < 0)
    OBVIOUS
  <2> QED BY <2>1
<1>2. ASSUME NEW n \in Nat, n \in S PROVE n + 1 \in S
  <2>0. n + 1 \in Nat
    OBVIOUS
  <2> SUFFICES ASSUME NEW f \in Seq(Frames), NEW h \in Seq(Frames), Len(f) = n + 1, Begins(h, f),
                      Len(h) < n + 1
               PROVE  Found(Encoded(f), Len(Encoded(h)), Encode(f[Len(h) + 1]))
    BY <2>0, Zenon
  <2> DEFINE front == [i \in 1..n |-> f[i]]
             last == f[n + 1]
             m == Len(h)
  <2>1. /\ front \in Seq(Frames) /\ Len(front) = n /\ last \in Frames /\ \A i \in 1..n : front[i] = f[i]
    OBVIOUS
  <2>2. m \in Nat /\ m <= n /\ \A i \in 1..m : h[i] = f[i]
    BY DEF Begins
  <2> HIDE DEF front, last
  <2>3. /\ Append(front, last) \in Seq(Frames) /\ Len(Append(front, last)) = n + 1
        /\ Append(front, last)[n + 1] = last /\ \A i \in 1..n : Append(front, last)[i] = front[i]
        /\ Encoded(Append(front, last)) = Encoded(front) \o Encode(last)
    BY <2>1, OneMoreFrame
  <2> DEFINE u == Append(front, last)
  <2> HIDE DEF u
  <2>4. u = f
    <3>1. \A i \in 1..(n + 1) : i = n + 1 \/ i \in 1..n
      OBVIOUS
    <3>2. \A i \in 1..(n + 1) : u[i] = f[i]
      BY <2>1, <2>3, <3>1 DEF u, last
    <3>3. u \in Seq(Frames) /\ Len(u) = n + 1
      BY <2>3 DEF u
    <3> QED BY <3>2, <3>3, SeqEqual
  <2> DEFINE e == Encoded(front)
             x == Encode(last)
             p == Encoded(f)
  <2>5. e \in Seq(Byte) /\ x \in Seq(Byte) /\ p \in Seq(Byte) /\ p = e \o x
    BY <2>1, <2>3, <2>4, BytesOfFrames, BytesOfFrame DEF u
  <2> HIDE DEF e, x, p, m
  <2>6. Len(p) \in Nat /\ Len(e) \in Nat /\ Found(p, 0, e) /\ Found(p, Len(e), x)
    <3>1. Len(p) \in Nat /\ Len(e) \in Nat /\ 0 \in Nat /\ Len(e) = 0 + Len(e)
      BY <2>5
    <3>2. Found(p, 0, p)
      BY <3>1 DEF Found
    <3>3. Found(p, 0, e \o x) <=> Found(p, 0, e) /\ Found(p, Len(e), x)
      BY <2>5, <3>1, FoundBytes
    <3> QED BY <2>5, <3>1, <3>2, <3>3
  <2>7. CASE m < n
    <3>1. Begins(h, front)
      <4>1. \A i \in 1..m : i \in 1..n
        BY <2>2
      <4> QED BY <2>1, <2>2, <4>1 DEF Begins, m
    <3>2. Found(e, Len(Encoded(h)), Encode(front[m + 1]))
      BY <1>2, <2>1, <2>7, <3>1 DEF e, m
    <3>3. front[m + 1] = f[m + 1] /\ f[m + 1] \in Frames
      <4>1. m + 1 \in 1..n
        BY <2>2, <2>7
      <4> QED BY <2>1, <4>1
    <3> DEFINE k == Len(Encoded(h))
               y == Encode(f[m + 1])
    <3>4. k \in Nat /\ y \in Seq(Byte) /\ Len(y) \in Nat
      BY <3>3, BytesOfFrames, BytesOfFrame
    <3>5. Found(e, k, y)
      BY <3>2, <3>3
    <3> HIDE DEF k, y
    <3>6. Found(p, 0 + k, y)
      BY <2>6, <3>4, <3>5, FoundIn
    <3>7. 0 + k = k
      BY <3>4
    <3> QED BY <3>6, <3>7 DEF k, y, p, m
  <2>8. CASE ~(m < n)
    <3>1. m = n
      BY <2>2, <2>8
    <3>2. h = front
      <4>1. Len(h) = Len(front) /\ \A i \in 1..Len(h) : h[i] = front[i]
        BY <2>1, <2>2, <3>1 DEF m
      <4> QED BY <2>1, <4>1, SeqEqual
    <3> QED BY <2>6, <3>1, <3>2 DEF e, x, p, m, last
  <2> QED BY <2>7, <2>8
<1> HIDE DEF S
<1>3. Len(list) \in Nat /\ Len(g) \in Nat
  OBVIOUS
<1>4. Len(list) \in S
  BY <1>1, <1>2, <1>3, FromZero
<1>5. Len(g) < Len(list) => Found(Encoded(list), Len(Encoded(g)), Encode(list[Len(g) + 1]))
  BY <1>4 DEF S
<1>6. Len(g) = Len(list) => g = list
  BY SeqEqual DEF Begins
<1> QED BY <1>5, <1>6

(* The buffer.                                                              *)
Cell == Byte \cup {Unwritten}
Buffers == [storage : Seq(Cell), start : Nat, end : Nat]

BufferOK(b) ==
  /\ b \in Buffers /\ b.start <= b.end /\ b.end <= Capacity(b) /\ Capacity(b) <= MaxFrameBytes
  /\ \A i \in (b.start + 1)..b.end : b.storage[i] \in Byte

Keeps(b, u) == BufferOK(b) /\ Unread(b) = u

LEMMA UnreadIs ==
  ASSUME NEW b, BufferOK(b)
  PROVE  /\ Unread(b) \in Seq(Byte) /\ Len(Unread(b)) = b.end - b.start
         /\ \A j \in 1..(b.end - b.start) : Unread(b)[j] = b.storage[b.start + j]
<1> DEFINE s == b.start
           e == b.end
           p == b.storage
           u == SubSeq(p, s + 1, e)
<1>1. s \in Nat /\ e \in Nat /\ s <= e /\ \A i \in (s + 1)..e : p[i] \in Byte
  BY DEF BufferOK, Buffers
<1>2. Unread(b) = u
  BY DEF Unread
<1> HIDE DEF s, e, p
<1>3. s + 1 \in Int /\ e \in Int
  BY <1>1
<1>4. /\ u \in Seq(Byte) /\ Len(u) = IF s + 1 <= e THEN e - (s + 1) + 1 ELSE 0
      /\ \A i \in 1..(e - (s + 1) + 1) : u[i] = p[(s + 1) + i - 1]
  BY <1>1, <1>3, SubSeqProperties
<1> HIDE DEF u
<1>5. Len(u) = e - s
  BY <1>1, <1>4
<1>6. ASSUME NEW j \in 1..(e - s) PROVE u[j] = p[s + j]
  <2>1. e - (s + 1) + 1 = e - s /\ (s + 1) + j - 1 = s + j
    BY <1>1
  <2> QED BY <1>4, <2>1
<1> QED BY <1>2, <1>4, <1>5, <1>6 DEF s, e, p

LEMMA BufferNumbers ==
  ASSUME NEW b, BufferOK(b)
  PROVE  /\ b.start \in Nat /\ b.end \in Nat /\ Capacity(b) \in Nat /\ b.storage \in Seq(Cell)
         /\ DOMAIN b.storage = 1..Capacity(b)
         /\ b.start <= b.end /\ b.end <= Capacity(b) /\ Capacity(b) <= MaxFrameBytes
         /\ MaxFrameBytes \in Nat /\ MaxFrameBytes = 12 + MaxPayloadBytes /\ MaxPayloadBytes \in Nat
         /\ FirstCapacity \in Nat /\ FirstCapacity >= 12 /\ FirstCapacity <= MaxFrameBytes
         /\ MaxFrameBytes <= 1024 * FirstCapacity
<1>1. b.start \in Nat /\ b.end \in Nat /\ b.storage \in Seq(Cell)
  BY DEF BufferOK, Buffers
<1>2. b.start <= b.end /\ b.end <= Capacity(b) /\ Capacity(b) <= MaxFrameBytes
  BY DEF BufferOK
<1>3. Capacity(b) \in Nat /\ DOMAIN b.storage = 1..Capacity(b)
  BY <1>1 DEF Capacity
<1>4. MaxPayloadBytes \in Nat
  BY LimitsAssumption, RadixIs
<1>5. MaxFrameBytes = 12 + MaxPayloadBytes /\ HeaderBytes = 12
  BY DEF MaxFrameBytes, HeaderBytes
<1>6. FirstCapacity \in 12..MaxFrameBytes /\ MaxFrameBytes <= 1024 * FirstCapacity
  BY <1>5, LimitsAssumption
<1> QED BY <1>1, <1>2, <1>3, <1>4, <1>5, <1>6

LEMMA CellIs == Byte \subseteq Cell /\ Unwritten \in Cell
BY DEF Cell

(* The unread bytes at the front of a storage.                              *)
Afresh(g, cap, u) ==
  [storage |-> [i \in 1..cap |-> IF i <= Len(u) THEN u[i] ELSE g[i]], start |-> 0, end |-> Len(u)]

LEMMA AtFront ==
  ASSUME NEW u \in Seq(Byte), NEW cap \in Nat, Len(u) <= cap, cap <= MaxFrameBytes,
         NEW g, \A i \in 1..cap : g[i] \in Cell
  PROVE  /\ Keeps(Afresh(g, cap, u), u) /\ Capacity(Afresh(g, cap, u)) = cap
         /\ Afresh(g, cap, u).start = 0 /\ Afresh(g, cap, u).end = Len(u)
<1> DEFINE p == [i \in 1..cap |-> IF i <= Len(u) THEN u[i] ELSE g[i]]
           b == Afresh(g, cap, u)
<1>1. Len(u) \in Nat
  OBVIOUS
<1>2. \A i \in 1..Len(u) : u[i] \in Byte
  BY ElementOfSeq
<1>3. \A i \in 1..cap : (IF i <= Len(u) THEN u[i] ELSE g[i]) \in Cell
  BY <1>1, <1>2, CellIs
<1>4. p \in Seq(Cell) /\ Len(p) = cap
  BY <1>3
<1>5. \A i \in 1..Len(u) : p[i] = u[i]
  BY <1>1
<1>6. b.storage = p /\ b.start = 0 /\ b.end = Len(u)
  BY DEF Afresh
<1>7. b = [storage |-> p, start |-> 0, end |-> Len(u)]
  BY DEF Afresh
<1> HIDE DEF p, b
<1>8. Capacity(b) = cap
  BY <1>4, <1>6 DEF Capacity
<1>9. BufferOK(b)
  <2>1. b \in Buffers
    BY <1>1, <1>4, <1>7 DEF Buffers
  <2>2. \A i \in (b.start + 1)..b.end : b.storage[i] \in Byte
    BY <1>1, <1>2, <1>5, <1>6
  <2> QED BY <1>6, <1>1, <1>8, <2>1, <2>2 DEF BufferOK
<1>10. Unread(b) = u
  <2>1. /\ Unread(b) \in Seq(Byte) /\ Len(Unread(b)) = b.end - b.start
        /\ \A j \in 1..(b.end - b.start) : Unread(b)[j] = b.storage[b.start + j]
    BY <1>9, UnreadIs
  <2> DEFINE v == Unread(b)
  <2> HIDE DEF v
  <2>2. v \in Seq(Byte) /\ Len(v) = Len(u)
    BY <1>1, <1>6, <2>1 DEF v
  <2>3. \A j \in 1..Len(u) : v[j] = u[j]
    BY <1>1, <1>5, <1>6, <2>1 DEF v
  <2>4. v = u
    BY <2>2, <2>3, SeqEqual
  <2> QED BY <2>4 DEF v
<1> QED BY <1>6, <1>8, <1>9, <1>10 DEF Keeps, b

LEMMA Replaced ==
  ASSUME NEW b, BufferOK(b), NEW cap \in Nat, Len(Unread(b)) <= cap, cap <= MaxFrameBytes
  PROVE  /\ Keeps(ReplaceStorage(b, cap), Unread(b)) /\ Capacity(ReplaceStorage(b, cap)) = cap
         /\ ReplaceStorage(b, cap).end = Len(Unread(b))
<1> DEFINE g == [i \in 1..cap |-> Unwritten]
           u == Unread(b)
<1>1. \A i \in 1..cap : g[i] = Unwritten /\ g[i] \in Cell
  BY CellIs
<1>2. u \in Seq(Byte)
  BY UnreadIs
<1>3. ReplaceStorage(b, cap) = Afresh(g, cap, u)
  <2>1. [i \in 1..cap |-> IF i <= Len(u) THEN u[i] ELSE Unwritten]
          = [i \in 1..cap |-> IF i <= Len(u) THEN u[i] ELSE g[i]]
    OBVIOUS
  <2> QED BY <2>1 DEF ReplaceStorage, Afresh
<1> HIDE DEF g, u
<1>4. Keeps(Afresh(g, cap, u), u) /\ Capacity(Afresh(g, cap, u)) = cap /\ Afresh(g, cap, u).end = Len(u)
  BY <1>1, <1>2, AtFront DEF u
<1> QED BY <1>3, <1>4 DEF u

LEMMA Compacted ==
  ASSUME NEW b, BufferOK(b)
  PROVE  /\ Keeps(Compact(b), Unread(b)) /\ Capacity(Compact(b)) = Capacity(b)
         /\ Compact(b).end = Len(Unread(b))
<1> DEFINE g == b.storage
           u == Unread(b)
           cap == Capacity(b)
<1>1. /\ cap \in Nat /\ cap <= MaxFrameBytes /\ DOMAIN g = 1..cap /\ g \in Seq(Cell) /\ Len(g) = cap
  BY BufferNumbers DEF Capacity
<1>2. u \in Seq(Byte) /\ Len(u) <= cap
  BY UnreadIs, BufferNumbers
<1>3. \A i \in 1..cap : g[i] \in Cell
  BY <1>1, ElementOfSeq
<1>4. Compact(b) = Afresh(g, cap, u)
  BY <1>1 DEF Compact, Afresh
<1> HIDE DEF g, u, cap
<1>5. Keeps(Afresh(g, cap, u), u) /\ Capacity(Afresh(g, cap, u)) = cap /\ Afresh(g, cap, u).end = Len(u)
  BY <1>1, <1>2, <1>3, AtFront
<1> QED BY <1>4, <1>5 DEF u, cap

LEMMA LeastIs ==
  ASSUME NEW T \in SUBSET Nat, T # {}
  PROVE  Min(T) \in T /\ \A y \in T : Min(T) <= y
<1>1. \E n \in T : \A m \in T : n <= m
  BY LeastNumber
<1> QED BY <1>1, Zenon DEF Min

LEMMA LeastOfTwo ==
  ASSUME NEW a \in Nat, NEW b \in Nat
  PROVE  Min({a, b}) = IF a <= b THEN a ELSE b
<1>1. {a, b} \in SUBSET Nat /\ {a, b} # {}
  OBVIOUS
<1>2. Min({a, b}) \in {a, b} /\ Min({a, b}) <= a /\ Min({a, b}) <= b
  BY <1>1, LeastIs
<1> QED BY <1>2

LEMMA MostOfTwo ==
  ASSUME NEW a \in Nat, NEW b \in Nat
  PROVE  Max({a, b}) = IF a <= b THEN b ELSE a
<1>1. {a, b} \in SUBSET Nat
  OBVIOUS
<1>2. CASE a <= b
  BY <1>1, <1>2, MaxIs
<1>3. CASE ~(a <= b)
  BY <1>1, <1>3, MaxIs
<1> QED BY <1>2, <1>3

(* What is no whole frame yet.                                              *)
Partial(u) ==
  \/ Len(u) < HeaderBytes
  \/ ValidHeader(u) /\ Len(u) < HeaderBytes + PayloadLength(u)

LEMMA PartialFits ==
  ASSUME NEW b, BufferOK(b), Partial(Unread(b))
  PROVE  Len(Unread(b)) < MaxFrameBytes
<1> DEFINE u == Unread(b)
<1>1. u \in Seq(Byte) /\ Len(u) \in Nat /\ MaxPayloadBytes \in Nat /\ MaxFrameBytes = 12 + MaxPayloadBytes
      /\ HeaderBytes = 12
  BY UnreadIs, BufferNumbers DEF HeaderBytes
<1> HIDE DEF u
<1> SUFFICES Len(u) < MaxFrameBytes
  BY DEF u
<1>2. CASE Len(u) < HeaderBytes
  BY <1>1, <1>2
<1>3. CASE ~(Len(u) < HeaderBytes)
  <2>1. PayloadLength(u) <= MaxPayloadBytes /\ Len(u) < HeaderBytes + PayloadLength(u)
    BY <1>3 DEF Partial, ValidHeader, u
  <2>2. PayloadLength(u) \in Nat
    <3>1. 8 \in Nat /\ 8 + 4 <= Len(u)
      BY <1>1, <1>3
    <3>2. ReadUInt32LE(u, 8) \in UInt32
      BY <1>1, <3>1, ReadFour
    <3> QED BY <3>2, RadixIs DEF PayloadLength
  <2> QED BY <1>1, <2>1, <2>2
<1> QED BY <1>2, <1>3 DEF u

LEMMA Writable ==
  ASSUME NEW b, BufferOK(b), Partial(Unread(b))
  PROVE  /\ EnsureWritableCapacity(b) # {}
         /\ \A c \in EnsureWritableCapacity(b) : Keeps(c, Unread(b)) /\ HasRoom(c)
<1> DEFINE moved == IF b.start > 0 THEN Compact(b) ELSE b
           cap == IF Capacity(moved) = 0 THEN FirstCapacity ELSE Min({MaxFrameBytes, 2 * Capacity(moved)})
           u == Unread(b)
<1>1. EnsureWritableCapacity(b) =
        IF HasRoom(b) THEN {b} ELSE IF HasRoom(moved) THEN {moved}
        ELSE IF Capacity(moved) >= MaxFrameBytes THEN {} ELSE {ReplaceStorage(moved, cap)}
  BY DEF EnsureWritableCapacity
<1>2. Keeps(b, u) /\ Len(u) < MaxFrameBytes /\ Len(u) \in Nat
  BY UnreadIs, PartialFits DEF Keeps
<1>3. Keeps(moved, u) /\ Capacity(moved) = Capacity(b) /\ moved.end = Len(u)
  <2>1. CASE b.start > 0
    BY <2>1, Compacted
  <2>2. CASE ~(b.start > 0)
    <3>1. b.start = 0 /\ Len(u) = b.end - b.start /\ b.end \in Nat
      BY <2>2, UnreadIs, BufferNumbers
    <3> HIDE DEF u
    <3> QED BY <1>2, <2>2, <3>1
  <2> QED BY <2>1, <2>2
<1> HIDE DEF moved
<1>4. /\ BufferOK(moved) /\ Unread(moved) = u
  BY <1>3 DEF Keeps
<1>5. /\ Capacity(moved) \in Nat /\ Capacity(moved) <= MaxFrameBytes /\ MaxFrameBytes \in Nat
      /\ moved.end <= Capacity(moved)
      /\ FirstCapacity \in Nat /\ FirstCapacity >= 12 /\ FirstCapacity <= MaxFrameBytes
  BY <1>4, BufferNumbers
<1> HIDE DEF u
<1>6. ASSUME ~HasRoom(b), ~HasRoom(moved)
      PROVE  /\ ~(Capacity(moved) >= MaxFrameBytes)
             /\ Keeps(ReplaceStorage(moved, cap), u) /\ HasRoom(ReplaceStorage(moved, cap))
  <2>1. moved.end = Capacity(moved)
    BY <1>2, <1>3, <1>5, <1>6 DEF HasRoom
  <2>2. Capacity(moved) < MaxFrameBytes /\ Len(u) = Capacity(moved)
    BY <1>2, <1>3, <1>5, <2>1
  <2>3. cap \in Nat /\ cap > Capacity(moved) /\ cap <= MaxFrameBytes
    <3>1. CASE Capacity(moved) = 0
      BY <1>5, <3>1
    <3>2. CASE Capacity(moved) # 0
      <4> DEFINE k == Capacity(moved)
                 twice == 2 * k
      <4>1. k \in Nat /\ k # 0 /\ k < MaxFrameBytes /\ twice \in Nat /\ twice > k
        BY <1>5, <2>2, <3>2
      <4>2. cap = Min({MaxFrameBytes, twice})
        BY <3>2
      <4> HIDE DEF k, twice, cap
      <4>3. Min({MaxFrameBytes, twice}) = IF MaxFrameBytes <= twice THEN MaxFrameBytes ELSE twice
        BY <1>5, <4>1, LeastOfTwo
      <4>4. cap \in Nat /\ cap > k /\ cap <= MaxFrameBytes
        BY <1>5, <4>1, <4>2, <4>3
      <4> QED BY <4>4 DEF k
    <3> QED BY <3>1, <3>2
  <2> HIDE DEF cap
  <2>4. Len(Unread(moved)) <= cap
    BY <1>4, <1>5, <2>2, <2>3
  <2>5. /\ Keeps(ReplaceStorage(moved, cap), u) /\ Capacity(ReplaceStorage(moved, cap)) = cap
        /\ ReplaceStorage(moved, cap).end = Len(u)
    BY <1>4, <2>3, <2>4, Replaced
  <2>6. HasRoom(ReplaceStorage(moved, cap))
    BY <1>5, <2>2, <2>3, <2>5 DEF HasRoom
  <2> QED BY <1>5, <2>2, <2>5, <2>6
<1> HIDE DEF cap
<1>7. CASE HasRoom(b)
  BY <1>1, <1>2, <1>7 DEF u
<1>8. CASE ~HasRoom(b) /\ HasRoom(moved)
  BY <1>1, <1>3, <1>8 DEF u
<1>9. CASE ~HasRoom(b) /\ ~HasRoom(moved)
  <2>1. EnsureWritableCapacity(b) = {ReplaceStorage(moved, cap)}
    BY <1>1, <1>6, <1>9
  <2> QED BY <1>6, <1>9, <2>1 DEF u
<1> QED BY <1>7, <1>8, <1>9

(* Doubling the capacity, often enough, comes to the largest frame.         *)
LEMMA FrameFits ==
  ASSUME NEW b, BufferOK(b), NEW length \in Nat, Len(Unread(b)) < length, length <= MaxFrameBytes
  PROVE  Keeps(EnsureFrameCapacity(b, length), Unread(b))
<1> DEFINE least == Max({Capacity(b), FirstCapacity})
           doubled == {Min({MaxFrameBytes, least * k}) : k \in Doublings}
           enough == {capacity \in doubled : capacity >= length}
           cap == Min(enough)
<1>1. EnsureFrameCapacity(b, length) = IF Capacity(b) >= length THEN b ELSE ReplaceStorage(b, cap)
  BY DEF EnsureFrameCapacity
<1>2. /\ Capacity(b) \in Nat /\ FirstCapacity \in Nat /\ MaxFrameBytes \in Nat
      /\ MaxFrameBytes <= 1024 * FirstCapacity
  BY BufferNumbers
<1>3. least \in Nat /\ least >= FirstCapacity
  <2>1. Max({Capacity(b), FirstCapacity}) = IF Capacity(b) <= FirstCapacity THEN FirstCapacity ELSE Capacity(b)
    BY <1>2, MostOfTwo
  <2> QED BY <1>2, <2>1
<1> HIDE DEF least
<1>4. ASSUME NEW k \in Doublings
      PROVE  /\ Min({MaxFrameBytes, least * k}) \in Nat /\ Min({MaxFrameBytes, least * k}) <= MaxFrameBytes
             /\ k = 1024 => Min({MaxFrameBytes, least * k}) = MaxFrameBytes
  <2> DEFINE n == least * k
  <2>1. k \in Nat
    BY DEF Doublings
  <2>2. n \in Nat
    BY <1>3, <2>1
  <2>3. k = 1024 => n >= MaxFrameBytes
    BY <1>2, <1>3
  <2> HIDE DEF n
  <2>4. Min({MaxFrameBytes, n}) = IF MaxFrameBytes <= n THEN MaxFrameBytes ELSE n
    BY <1>2, <2>2, LeastOfTwo
  <2>5. /\ Min({MaxFrameBytes, n}) \in Nat /\ Min({MaxFrameBytes, n}) <= MaxFrameBytes
        /\ k = 1024 => Min({MaxFrameBytes, n}) = MaxFrameBytes
    BY <1>2, <2>2, <2>3, <2>4
  <2> QED BY <2>5 DEF n
<1>5. \A c \in doubled : c \in Nat /\ c <= MaxFrameBytes
  BY <1>4
<1>6. MaxFrameBytes \in doubled
  <2>1. PICK k \in Doublings : k = 1024
    BY DEF Doublings
  <2>2. Min({MaxFrameBytes, least * k}) = MaxFrameBytes
    BY <1>4, <2>1
  <2>3. Min({MaxFrameBytes, least * k}) \in doubled
    OBVIOUS
  <2> HIDE DEF doubled
  <2> QED BY <2>2, <2>3
<1> HIDE DEF doubled
<1>7. enough \in SUBSET Nat /\ enough # {} /\ \A c \in enough : c <= MaxFrameBytes /\ c >= length
  BY <1>2, <1>5, <1>6
<1> HIDE DEF enough
<1>8. cap \in Nat /\ cap <= MaxFrameBytes /\ cap >= length
  BY <1>7, LeastIs
<1> HIDE DEF cap
<1>9. CASE Capacity(b) >= length
  BY <1>1, <1>9 DEF Keeps
<1>10. CASE ~(Capacity(b) >= length)
  <2>1. Len(Unread(b)) \in Nat
    BY UnreadIs, BufferNumbers
  <2>2. Len(Unread(b)) <= cap
    BY <1>8, <2>1
  <2> QED BY <1>1, <1>8, <1>10, <2>2, Replaced
<1> QED BY <1>9, <1>10

(* The list read so far, what is unread, and the rest of the chunk, as     *)
(* they stand in the line.                                                  *)
Stream(p, g, u, c, n) ==
  /\ Found(p, 0, Encoded(g)) /\ Found(p, Len(Encoded(g)), u)
  /\ Found(p, Len(Encoded(g)) + Len(u), c) /\ Len(Encoded(g)) + Len(u) + Len(c) = n

LEMMA StreamPush ==
  ASSUME NEW p \in Seq(Byte), NEW g \in Seq(Frames), NEW u \in Seq(Byte), NEW f \in Nat, f < Len(p),
         Stream(p, g, u, <<>>, f), NEW k \in Nat, NEW next, next = Min({f + k, Len(p)})
  PROVE  /\ next \in Nat /\ next <= Len(p) /\ SubSeq(p, f + 1, next) \in Seq(Byte)
         /\ Stream(p, g, u, SubSeq(p, f + 1, next), next)
<1> DEFINE o == Len(Encoded(g))
           m == Len(u)
           n == next - f
           c == SubSeq(p, f + 1, f + n)
<1>1. o \in Nat /\ m \in Nat /\ Len(p) \in Nat /\ Len(<<>>) = 0
  BY BytesOfFrames
<1>2. Found(p, 0, Encoded(g)) /\ Found(p, o, u) /\ o + m + Len(<<>>) = f
  BY DEF Stream
<1>3. next \in Nat /\ next <= Len(p) /\ f <= next
  <2> DEFINE a == f + k
             b == Len(p)
  <2>1. a \in Nat /\ b \in Nat /\ f <= a /\ f <= b
    BY <1>1
  <2>2. Min({a, b}) = IF a <= b THEN a ELSE b
    <3> HIDE DEF a, b
    <3> QED BY <2>1, LeastOfTwo
  <2>3. next = Min({a, b})
    OBVIOUS
  <2> HIDE DEF a, b
  <2>4. next \in Nat /\ next <= b /\ f <= next
    BY <2>1, <2>2, <2>3
  <2> QED BY <2>4 DEF b
<1>4. n \in Nat /\ f + n = next
  BY <1>3
<1> HIDE DEF n
<1>5. f + n <= Len(p)
  BY <1>3, <1>4
<1>6. c \in Seq(Byte) /\ Len(c) = n /\ Found(p, f, c)
  BY <1>4, <1>5, FoundPart
<1> HIDE DEF c, o, m
<1>7. Stream(p, g, u, c, next)
  <2>1. o + m = f
    BY <1>1, <1>2
  <2> QED BY <1>1, <1>2, <1>4, <1>6, <2>1 DEF Stream, o, m
<1> QED BY <1>3, <1>4, <1>6, <1>7 DEF c

(* What is written into the buffer stands behind what is unread.            *)
Written(b, c, n) ==
  [b EXCEPT !.end = @ + n,
            !.storage = [i \in DOMAIN @ |-> IF i \in (b.end + 1)..(b.end + n) THEN c[i - b.end] ELSE @[i]]]

With(b, m, p) == [b EXCEPT !.end = m, !.storage = p]

LEMMA BufferWith ==
  ASSUME NEW b \in Buffers, NEW m \in Nat, NEW p \in Seq(Cell)
  PROVE  /\ With(b, m, p).storage = p /\ With(b, m, p).start = b.start /\ With(b, m, p).end = m
         /\ With(b, m, p) \in Buffers
<1> DEFINE z == [storage |-> p, start |-> b.start, end |-> m]
<1>1. b \in [storage : Seq(Cell), start : Nat, end : Nat]
  BY DEF Buffers
<1>2. [b EXCEPT !.end = m, !.storage = p] = z
  <2> DEFINE C == Seq(Cell)
             a == [b EXCEPT !.end = m]
  <2>1. b \in [storage : C, start : Nat, end : Nat] /\ p \in C
    BY <1>1
  <2> HIDE DEF C
  <2>2. a = [storage |-> b.storage, start |-> b.start, end |-> m]
    BY <2>1
  <2> HIDE DEF a
  <2>3. [a EXCEPT !.storage = p] = z
    BY <2>2
  <2> QED BY <2>3 DEF a
<1>3. z \in Buffers
  BY <1>1 DEF Buffers
<1>4. With(b, m, p) = z
  BY <1>2 DEF With
<1> QED BY <1>3, <1>4

LEMMA WrittenOK ==
  ASSUME NEW b, BufferOK(b), NEW c \in Seq(Byte), NEW n \in Nat, n <= Len(c), b.end + n <= Capacity(b)
  PROVE  /\ BufferOK(Written(b, c, n)) /\ Len(Unread(Written(b, c, n))) = Len(Unread(b)) + n
         /\ \A j \in 1..Len(Unread(b)) : Unread(Written(b, c, n))[j] = Unread(b)[j]
         /\ \A j \in 1..n : Unread(Written(b, c, n))[Len(Unread(b)) + j] = c[j]
<1> DEFINE s == b.start
           e == b.end
           k == Capacity(b)
           q == b.storage
           p == [i \in 1..k |-> IF i \in (e + 1)..(e + n) THEN c[i - e] ELSE q[i]]
           z == Written(b, c, n)
<1>1. /\ s \in Nat /\ e \in Nat /\ k \in Nat /\ s <= e /\ e <= k /\ k <= MaxFrameBytes /\ MaxFrameBytes \in Nat
      /\ DOMAIN q = 1..k /\ q \in Seq(Cell) /\ Len(q) = k
  BY BufferNumbers DEF Capacity
<1>2. /\ Len(c) \in Nat /\ \A i \in 1..Len(c) : c[i] \in Byte
  BY ElementOfSeq
<1>3. \A i \in 1..k : q[i] \in Cell
  BY <1>1, ElementOfSeq
<1>4. \A i \in (s + 1)..e : q[i] \in Byte
  BY DEF BufferOK
<1>5. z \in Buffers /\ z.storage = p /\ z.start = s /\ z.end = e + n
  <2>1. \A i \in (e + 1)..(e + n) : i - e \in 1..Len(c)
    BY <1>1, <1>2
  <2>2. \A i \in 1..k : (IF i \in (e + 1)..(e + n) THEN c[i - e] ELSE q[i]) \in Cell
    BY <1>2, <1>3, <2>1, CellIs
  <2>3. p \in Seq(Cell)
    <3> HIDE DEF e, k, q
    <3> QED BY <1>1, <2>2
  <2>4. b \in Buffers
    BY DEF BufferOK
  <2> DEFINE m == e + n
  <2> HIDE DEF m
  <2>5. z = [b EXCEPT !.end = m, !.storage = p]
    BY <1>1 DEF Written, m
  <2>6. m \in Nat
    BY <1>1 DEF m
  <2> HIDE DEF p, z
  <2> DEFINE t == With(b, m, p)
  <2>7. t.storage = p /\ t.start = b.start /\ t.end = m /\ t \in Buffers
    BY <2>3, <2>4, <2>6, BufferWith
  <2>8. z = t
    BY <2>5 DEF With
  <2> HIDE DEF t
  <2>9. z.storage = p /\ z.start = b.start /\ z.end = m /\ z \in Buffers
    BY <2>7, <2>8
  <2> QED BY <2>9 DEF m
<1>6. Len(p) = k /\ \A i \in 1..k : p[i] = IF i \in (e + 1)..(e + n) THEN c[i - e] ELSE q[i]
  <2> HIDE DEF e, k, q
  <2>1. DOMAIN p = 1..k
    OBVIOUS
  <2>2. p \in Seq(Cell)
    BY <1>5 DEF Buffers
  <2> QED BY <1>1, <2>1, <2>2
<1>7. Capacity(z) = k
  BY <1>5, <1>6 DEF Capacity
<1>8. e + n <= k
  OBVIOUS
<1> HIDE DEF s, e, k, q, p, z
<1>9. \A i \in (s + 1)..e : p[i] = q[i]
  <2> SUFFICES ASSUME NEW i \in (s + 1)..e PROVE p[i] = q[i]
    OBVIOUS
  <2>1. i \in 1..k /\ i \notin (e + 1)..(e + n)
    BY <1>1
  <2> QED BY <1>6, <2>1
<1>10. \A j \in 1..n : p[e + j] = c[j] /\ c[j] \in Byte
  <2> SUFFICES ASSUME NEW j \in 1..n PROVE p[e + j] = c[j] /\ c[j] \in Byte
    OBVIOUS
  <2>1. e + j \in 1..k /\ e + j \in (e + 1)..(e + n) /\ (e + j) - e = j /\ j \in 1..Len(c)
    BY <1>1, <1>2, <1>8
  <2> QED BY <1>2, <1>6, <2>1
<1>11. \A i \in (s + 1)..(e + n) : p[i] \in Byte
  <2> SUFFICES ASSUME NEW i \in (s + 1)..(e + n) PROVE p[i] \in Byte
    OBVIOUS
  <2>1. CASE i <= e
    <3>1. i \in (s + 1)..e
      BY <1>1, <2>1
    <3> QED BY <1>4, <1>9, <3>1
  <2>2. CASE ~(i <= e)
    <3> DEFINE j == i - e
    <3>1. j \in 1..n /\ i = e + j
      BY <1>1, <2>2
    <3> HIDE DEF j
    <3> QED BY <1>10, <3>1
  <2> QED BY <2>1, <2>2
<1>12. BufferOK(z)
  <2>1. z.start <= z.end
    BY <1>1, <1>5
  <2> QED BY <1>1, <1>5, <1>7, <1>8, <1>11, <2>1 DEF BufferOK
<1> DEFINE u == Unread(b)
           v == Unread(z)
<1>13. Len(u) = e - s /\ \A j \in 1..(e - s) : u[j] = q[s + j]
  BY UnreadIs DEF s, e, q
<1>14. Len(v) = (e + n) - s /\ \A j \in 1..((e + n) - s) : v[j] = p[s + j]
  BY <1>5, <1>12, UnreadIs
<1> HIDE DEF u, v
<1>15. Len(v) = Len(u) + n
  BY <1>1, <1>13, <1>14
<1>16. \A j \in 1..Len(u) : v[j] = u[j]
  <2> SUFFICES ASSUME NEW j \in 1..(e - s) PROVE v[j] = u[j]
    BY <1>13
  <2>1. j \in 1..((e + n) - s) /\ s + j \in (s + 1)..e
    BY <1>1
  <2> QED BY <1>9, <1>13, <1>14, <2>1
<1>17. \A j \in 1..n : v[Len(u) + j] = c[j]
  <2> SUFFICES ASSUME NEW j \in 1..n PROVE v[(e - s) + j] = c[j]
    BY <1>13
  <2>1. (e - s) + j \in 1..((e + n) - s) /\ s + ((e - s) + j) = e + j
    BY <1>1
  <2> QED BY <1>10, <1>14, <2>1
<1> QED BY <1>12, <1>15, <1>16, <1>17 DEF u, v, z

LEMMA StreamWrite ==
  ASSUME NEW p \in Seq(Byte), NEW g \in Seq(Frames), NEW b, BufferOK(b), HasRoom(b),
         NEW c \in Seq(Byte), NEW f, Stream(p, g, Unread(b), c, f),
         NEW n, n = Min({Capacity(b) - b.end, Len(c)})
  PROVE  /\ BufferOK(Written(b, c, n)) /\ SubSeq(c, n + 1, Len(c)) \in Seq(Byte)
         /\ Stream(p, g, Unread(Written(b, c, n)), SubSeq(c, n + 1, Len(c)), f)
<1> DEFINE o == Len(Encoded(g))
           u == Unread(b)
           m == Len(u)
           k == Len(c)
           room == Capacity(b) - b.end
<1>1. /\ o \in Nat /\ u \in Seq(Byte) /\ m \in Nat /\ k \in Nat /\ Len(p) \in Nat
  BY BytesOfFrames, UnreadIs
<1>2. b.end \in Nat /\ Capacity(b) \in Nat /\ room \in Nat
  <2>1. b.end \in Nat /\ Capacity(b) \in Nat
    BY BufferNumbers
  <2> QED BY <2>1 DEF HasRoom
<1>3. n \in Nat /\ n <= k /\ n <= room
  <2>1. Min({room, k}) = IF room <= k THEN room ELSE k
    <3> HIDE DEF room, k
    <3> QED BY <1>1, <1>2, LeastOfTwo
  <2>2. n = Min({room, k})
    OBVIOUS
  <2> HIDE DEF room, k
  <2> QED BY <1>1, <1>2, <2>1, <2>2
<1>4. b.end + n <= Capacity(b)
  BY <1>2, <1>3
<1> DEFINE z == Written(b, c, n)
           v == Unread(z)
           rest == SubSeq(c, n + 1, n + (k - n))
<1>5. /\ BufferOK(z) /\ Len(v) = m + n /\ \A j \in 1..m : v[j] = u[j]
      /\ \A j \in 1..n : v[m + j] = c[j]
  BY <1>3, <1>4, WrittenOK
<1>6. /\ Found(p, 0, Encoded(g)) /\ Found(p, o, u) /\ Found(p, o + m, c) /\ o + m + k = f
  BY DEF Stream
<1>7. rest \in Seq(Byte) /\ Len(rest) = k - n /\ Found(c, n, rest)
  <2> DEFINE d == k - n
  <2>1. d \in Nat /\ n + d <= k
    BY <1>1, <1>3
  <2> HIDE DEF d
  <2>2. n + d <= Len(c)
    BY <2>1
  <2>3. SubSeq(c, n + 1, n + d) \in Seq(Byte) /\ Len(SubSeq(c, n + 1, n + d)) = d /\ Found(c, n, SubSeq(c, n + 1, n + d))
    BY <1>3, <2>1, <2>2, FoundPart
  <2> QED BY <2>3 DEF d
<1>8. n + (k - n) = k
  BY <1>1, <1>3
<1> HIDE DEF o, u, m, k, z, v, rest, room
<1>9. Found(p, o, v)
  <2>1. o + m <= Len(p) /\ \A j \in 1..m : p[o + j] = u[j]
    BY <1>6 DEF Found, m
  <2>2. (o + m) + k <= Len(p) /\ \A j \in 1..k : p[(o + m) + j] = c[j]
    BY <1>6 DEF Found, k
  <2>3. ASSUME NEW j \in 1..(m + n) PROVE p[o + j] = v[j]
    <3>1. CASE j <= m
      <4>1. j \in 1..m
        BY <1>1, <3>1
      <4> QED BY <1>5, <2>1, <4>1
    <3>2. CASE ~(j <= m)
      <4> DEFINE i == j - m
      <4>1. i \in 1..n /\ i \in 1..k /\ j = m + i /\ o + j = (o + m) + i
        BY <1>1, <1>3, <3>2
      <4> HIDE DEF i
      <4> QED BY <1>5, <2>2, <4>1
    <3> QED BY <3>1, <3>2
  <2>4. o + (m + n) <= Len(p)
    BY <1>1, <1>3, <2>2
  <2> QED BY <1>5, <2>3, <2>4 DEF Found
<1>10. Found(p, o + Len(v), rest)
  <2>1. o + m \in Nat /\ Len(c) \in Nat /\ Len(rest) \in Nat /\ (o + m) + n = o + Len(v)
    BY <1>1, <1>3, <1>5, <1>7 DEF k
  <2> DEFINE i == o + m
  <2> HIDE DEF i
  <2>2. Found(p, i + n, rest)
    <3>1. i \in Nat /\ Len(p) \in Nat /\ Found(p, i, c) /\ Found(c, n, rest)
      BY <1>1, <1>6, <1>7, <2>1 DEF i
    <3> QED BY <1>3, <2>1, <3>1, FoundIn
  <2> QED BY <2>1, <2>2 DEF i
<1>11. o + Len(v) + Len(rest) = f
  <2>1. o + m + k = f
    BY <1>6
  <2>2. Len(v) = m + n /\ Len(rest) = k - n
    BY <1>5, <1>7
  <2> QED BY <1>1, <1>3, <2>1, <2>2
<1>12. Stream(p, g, v, rest, f)
  BY <1>6, <1>9, <1>10, <1>11 DEF Stream, o
<1> QED BY <1>5, <1>7, <1>8, <1>12 DEF rest, v, z, k

(* A frame that is taken leaves the unread bytes for those that were read.  *)
Taken(b, n) == [b EXCEPT !.start = @ + n]

LEMMA TakenOK ==
  ASSUME NEW b, BufferOK(b), NEW n \in Nat, n <= Len(Unread(b))
  PROVE  /\ BufferOK(Taken(b, n)) /\ Len(Unread(Taken(b, n))) = Len(Unread(b)) - n
         /\ \A j \in 1..(Len(Unread(b)) - n) : Unread(Taken(b, n))[j] = Unread(b)[n + j]
<1> DEFINE s == b.start
           e == b.end
           q == b.storage
           m == s + n
           z == [storage |-> q, start |-> m, end |-> e]
           u == Unread(b)
           v == Unread(z)
<1>1. s \in Nat /\ e \in Nat /\ q \in Seq(Cell) /\ s <= e /\ e <= Capacity(b) /\ Capacity(b) <= MaxFrameBytes
  BY BufferNumbers
<1>2. Len(u) = e - s /\ \A j \in 1..(e - s) : u[j] = q[s + j]
  BY UnreadIs
<1>3. \A i \in (s + 1)..e : q[i] \in Byte
  BY DEF BufferOK
<1>4. Taken(b, n) = z
  <2> DEFINE C == Seq(Cell)
  <2>1. b \in [storage : C, start : Nat, end : Nat]
    BY DEF BufferOK, Buffers
  <2> HIDE DEF C
  <2> QED BY <2>1 DEF Taken
<1>5. z.storage = q /\ z.start = m /\ z.end = e
  OBVIOUS
<1>6. n <= e - s
  BY <1>2
<1> HIDE DEF s, e, q, u
<1>7. m \in Nat /\ m <= e
  BY <1>1, <1>6
<1>8. z \in Buffers
  BY <1>1, <1>7 DEF Buffers
<1> HIDE DEF z, v
<1>9. BufferOK(z)
  <2>1. Capacity(z) = Capacity(b)
    BY <1>5 DEF Capacity, q
  <2>2. \A i \in (m + 1)..e : q[i] \in Byte
    <3>1. \A i \in (m + 1)..e : i \in (s + 1)..e
      BY <1>1, <1>7
    <3> QED BY <1>3, <3>1
  <2> HIDE DEF m
  <2> QED BY <1>1, <1>5, <1>7, <1>8, <2>1, <2>2 DEF BufferOK
<1>10. Len(v) = e - m /\ \A j \in 1..(e - m) : v[j] = q[m + j]
  <2> HIDE DEF m
  <2> QED BY <1>5, <1>9, UnreadIs DEF v
<1>11. Len(v) = Len(u) - n
  BY <1>1, <1>2, <1>10
<1>12. ASSUME NEW j \in 1..(Len(u) - n) PROVE v[j] = u[n + j]
  <2>1. j \in 1..(e - m) /\ n + j \in 1..(e - s) /\ m + j = s + (n + j)
    BY <1>1, <1>2, <1>6
  <2> HIDE DEF m
  <2> QED BY <1>2, <1>10, <2>1
<1> QED BY <1>4, <1>9, <1>11, <1>12 DEF u, v

LEMMA StreamTake ==
  ASSUME NEW p \in Seq(Byte), NEW g \in Seq(Frames), NEW b, BufferOK(b), NEW c \in Seq(Byte),
         NEW f, Stream(p, g, Unread(b), c, f),
         NEW x \in Frames, Found(Unread(b), 0, Encode(x)), NEW n, n = Len(Encode(x))
  PROVE  BufferOK(Taken(b, n)) /\ Stream(p, Append(g, x), Unread(Taken(b, n)), c, f)
<1> DEFINE o == Len(Encoded(g))
           u == Unread(b)
           m == Len(u)
           k == Len(c)
           y == Encode(x)
<1>1. /\ o \in Nat /\ u \in Seq(Byte) /\ m \in Nat /\ k \in Nat /\ Len(p) \in Nat
      /\ y \in Seq(Byte) /\ n \in Nat /\ n = Len(y) /\ Encoded(g) \in Seq(Byte)
  BY BytesOfFrames, UnreadIs, BytesOfFrame
<1>2. n <= m /\ \A j \in 1..n : u[j] = y[j]
  <2>1. 0 + n <= m /\ \A j \in 1..n : u[0 + j] = y[j]
    BY DEF Found
  <2> HIDE DEF u, m, y
  <2> QED BY <1>1, <2>1
<1> DEFINE z == Taken(b, n)
           v == Unread(z)
           h == Append(g, x)
<1>3. BufferOK(z) /\ Len(v) = m - n /\ \A j \in 1..(m - n) : v[j] = u[n + j]
  BY <1>1, <1>2, TakenOK
<1>4. /\ Found(p, 0, Encoded(g)) /\ Found(p, o, u) /\ Found(p, o + m, c) /\ o + m + k = f
  BY DEF Stream
<1>5. h \in Seq(Frames) /\ Encoded(h) = Encoded(g) \o y /\ Len(Encoded(h)) = o + n
  BY OneMoreFrame
<1> HIDE DEF o, u, m, k, y, z, v, h
<1>6. Found(p, 0, Encoded(h))
  <2>1. Found(p, o + 0, y)
    <3>1. 0 \in Nat /\ Len(y) \in Nat /\ Len(u) \in Nat
      BY <1>1
    <3>2. Found(u, 0, y)
      BY DEF u, y
    <3> QED BY <1>1, <1>4, <3>1, <3>2, FoundIn
  <2>2. o + 0 = o /\ 0 + o = o /\ 0 \in Nat
    BY <1>1
  <2>3. Found(p, 0 + Len(Encoded(g)), y)
    BY <2>1, <2>2 DEF o
  <2>4. Found(p, 0, Encoded(g) \o y)
    BY <1>1, <1>4, <2>2, <2>3, FoundBytes
  <2> QED BY <1>5, <2>4
<1>7. Found(p, o + n, v)
  <2>1. o + m <= Len(p) /\ \A j \in 1..m : p[o + j] = u[j]
    BY <1>4 DEF Found, m
  <2>2. (o + n) + (m - n) <= Len(p)
    BY <1>1, <1>2, <2>1
  <2>3. ASSUME NEW j \in 1..(m - n) PROVE p[(o + n) + j] = v[j]
    <3>1. n + j \in 1..m /\ (o + n) + j = o + (n + j)
      BY <1>1, <1>2
    <3> QED BY <1>3, <2>1, <3>1
  <2> QED BY <1>3, <2>2, <2>3 DEF Found
<1>8. (o + n) + Len(v) = o + m
  <2>1. Len(v) = m - n
    BY <1>3
  <2> QED BY <1>1, <1>2, <2>1
<1>9. Stream(p, h, v, c, f)
  BY <1>4, <1>5, <1>6, <1>7, <1>8 DEF Stream, k
<1> QED BY <1>3, <1>9 DEF z, v, h

(* When nothing is unread, the buffer is used from its front again.         *)
LEMMA FromFront ==
  ASSUME NEW b, BufferOK(b), Unread(b) = <<>>
  PROVE  Keeps([b EXCEPT !.start = 0, !.end = 0], <<>>)
<1> DEFINE q == b.storage
           z == [storage |-> q, start |-> 0, end |-> 0]
<1>1. q \in Seq(Cell) /\ Capacity(b) \in Nat /\ Capacity(b) <= MaxFrameBytes
  BY BufferNumbers
<1>2. [b EXCEPT !.start = 0, !.end = 0] = z
  <2> DEFINE C == Seq(Cell)
             a == [b EXCEPT !.start = 0]
  <2>1. b \in [storage : C, start : Nat, end : Nat]
    BY DEF BufferOK, Buffers
  <2> HIDE DEF C
  <2>2. a = [storage |-> b.storage, start |-> 0, end |-> b.end]
    BY <2>1
  <2> HIDE DEF a
  <2>3. [a EXCEPT !.end = 0] = z
    BY <2>2
  <2> QED BY <2>3 DEF a
<1>3. z \in Buffers /\ z.storage = q /\ z.start = 0 /\ z.end = 0
  BY <1>1 DEF Buffers
<1> HIDE DEF z
<1>4. Capacity(z) = Capacity(b)
  BY <1>3 DEF Capacity
<1>5. BufferOK(z)
  <2>1. \A i \in (z.start + 1)..z.end : FALSE
    BY <1>3
  <2> QED BY <1>1, <1>3, <1>4, <2>1 DEF BufferOK
<1>6. Unread(z) = <<>>
  <2>1. Unread(z) \in Seq(Byte) /\ Len(Unread(z)) = 0
    BY <1>3, <1>5, UnreadIs
  <2> QED BY <2>1
<1> QED BY <1>2, <1>5, <1>6 DEF Keeps

LEMMA Empty == Keeps(EmptyBuffer, <<>>)
<1>1. EmptyBuffer \in Buffers /\ Capacity(EmptyBuffer) = 0 /\ EmptyBuffer.start = 0 /\ EmptyBuffer.end = 0
  <2>1. <<>> \in Seq(Cell) /\ Len(<<>>) = 0
    OBVIOUS
  <2> QED BY <2>1 DEF EmptyBuffer, Buffers, Capacity
<1>2. 0 <= MaxFrameBytes
  <2>1. MaxPayloadBytes \in Nat
    BY LimitsAssumption, RadixIs
  <2> QED BY <2>1 DEF MaxFrameBytes, HeaderBytes
<1>3. BufferOK(EmptyBuffer)
  BY <1>1, <1>2 DEF BufferOK
<1>4. Unread(EmptyBuffer) \in Seq(Byte) /\ Len(Unread(EmptyBuffer)) = 0
  BY <1>1, <1>3, UnreadIs
<1> QED BY <1>3, <1>4 DEF Keeps

(* Frames that could have been encoded.                                     *)
AllEncodable(g) == g \in Seq(Frames) /\ \A i \in 1..Len(g) : Encodable(g[i])

LEMMA SoundNothing == AllEncodable(<<>>)
<1>1. <<>> \in Seq(Frames) /\ Len(<<>>) = 0
  OBVIOUS
<1> QED BY <1>1 DEF AllEncodable

LEMMA SoundJoined ==
  ASSUME NEW g, NEW h, AllEncodable(g), AllEncodable(h)
  PROVE  AllEncodable(g \o h)
<1> DEFINE m == Len(g)
           n == Len(h)
           u == g \o h
<1>1. /\ g \in Seq(Frames) /\ h \in Seq(Frames)
      /\ \A i \in 1..m : Encodable(g[i])
      /\ \A i \in 1..n : Encodable(h[i])
  BY DEF AllEncodable
<1>2. /\ u \in Seq(Frames) /\ Len(u) = m + n /\ m \in Nat /\ n \in Nat
      /\ \A i \in 1..m : u[i] = g[i]
      /\ \A i \in 1..n : u[m + i] = h[i]
  BY <1>1, JoinedIs
<1> HIDE DEF m, n, u
<1>3. ASSUME NEW i \in 1..Len(u) PROVE Encodable(u[i])
  <2>1. CASE i <= m
    <3>1. i \in 1..m
      BY <1>2, <2>1
    <3> QED BY <1>1, <1>2, <3>1
  <2>2. CASE ~(i <= m)
    <3> DEFINE j == i - m
    <3>1. j \in 1..n /\ i = m + j
      BY <1>2, <2>2
    <3> HIDE DEF j
    <3> QED BY <1>1, <1>2, <3>1
  <2> QED BY <2>1, <2>2
<1> QED BY <1>2, <1>3 DEF AllEncodable, u

LEMMA SoundAppend ==
  ASSUME NEW g, NEW h, AllEncodable(g), AllEncodable(h), NEW x \in Frames, Encodable(x)
  PROVE  AllEncodable(Append(h, x)) /\ g \o Append(h, x) = Append(g \o h, x)
<1>1. /\ g \in Seq(Frames) /\ h \in Seq(Frames) /\ \A i \in 1..Len(h) : Encodable(h[i])
  BY DEF AllEncodable
<1> DEFINE n == Len(h)
           v == Append(h, x)
<1>2. /\ v \in Seq(Frames) /\ Len(v) = n + 1 /\ n \in Nat /\ v[n + 1] = x
      /\ \A i \in 1..n : v[i] = h[i]
  BY <1>1, OneMoreFrame
<1> HIDE DEF n, v
<1>3. ASSUME NEW i \in 1..(n + 1) PROVE Encodable(v[i])
  <2>1. i = n + 1 \/ i \in 1..n
    BY <1>2
  <2> QED BY <1>1, <1>2, <2>1 DEF n
<1>4. AllEncodable(v)
  BY <1>2, <1>3 DEF AllEncodable
<1>5. g \o v = Append(g \o h, x)
  BY <1>1 DEF v
<1> QED BY <1>4, <1>5 DEF v

LEMMA JoinedNothing ==
  ASSUME NEW g, AllEncodable(g)
  PROVE  g \o <<>> = g
<1>1. g \in Seq(Frames)
  BY DEF AllEncodable
<1> QED BY <1>1

(* The inductive invariant.  What has been read and what is held are, byte  *)
(* for byte, what arrived; outside a round of decoding no whole frame is    *)
(* held; and of what arrived as it was sent nothing has been refused.       *)
Arrived ==
  /\ AllEncodable(sent) /\ line \in Seq(Byte) /\ fed \in Nat /\ fed <= Len(line)
  /\ BufferOK(codec) /\ chunk \in Seq(Byte) /\ AllEncodable(received) /\ AllEncodable(found)
  /\ at \in {"idle", "write", "decode", "failed", "cut", "finished"}

Ended == at \in {"failed", "cut"}

Held ==
  /\ at \in {"idle", "finished", "failed", "cut"} => chunk = <<>> /\ found = <<>>
  /\ at \in {"idle", "write", "finished"} => Partial(Unread(codec))
  /\ at = "finished" => Unread(codec) = <<>>

Stands ==
  /\ ~Ended => Stream(line, received \o found, Unread(codec), chunk, fed)
  /\ line = Encoded(sent) => at # "failed" /\ Begins(received \o found, sent)

DecodingInv == Arrived /\ Held /\ Stands

LEMMA NothingIsPartial == Partial(<<>>)
<1>1. Len(<<>>) = 0 /\ HeaderBytes = 12
  BY DEF HeaderBytes
<1> QED BY <1>1 DEF Partial

LEMMA DecodingInit ==
  ASSUME DecoderInit
  PROVE  DecodingInv
<1>1. /\ sent \in Traffic /\ line \in {Encoded(sent)} \cup Spoilt(Encoded(sent))
      /\ fed = 0 /\ codec = EmptyBuffer /\ chunk = <<>> /\ found = <<>> /\ received = <<>> /\ at = "idle"
  BY DEF DecoderInit
<1>2. AllEncodable(sent)
  <2>1. sent \in Seq(Frames) /\ \A i \in DOMAIN sent : Encodable(sent[i])
    BY <1>1, TrafficAssumption
  <2>2. DOMAIN sent = 1..Len(sent)
    BY <2>1
  <2> QED BY <2>1, <2>2 DEF AllEncodable
<1> DEFINE e == Encoded(sent)
<1>3. e \in Seq(Byte)
  BY <1>2, BytesOfFrames DEF AllEncodable
<1> HIDE DEF e
<1>4. line \in Seq(Byte)
  <2>1. CASE line = e
    BY <1>3, <2>1
  <2>2. CASE line # e
    <3>1. PICK i \in DOMAIN e, byte \in Spoils : line = [e EXCEPT ![i] = byte]
      BY <1>1, <2>2 DEF Spoilt, e
    <3>2. byte \in Byte
      BY TrafficAssumption
    <3> QED BY <1>3, <3>1, <3>2, ExceptSeq
  <2> QED BY <2>1, <2>2
<1>5. BufferOK(codec) /\ Unread(codec) = <<>>
  BY <1>1, Empty DEF Keeps
<1>6. 0 \in Nat /\ 0 <= Len(line) /\ Len(line) \in Nat /\ Len(<<>>) = 0 /\ <<>> \in Seq(Byte)
      /\ <<>> \o <<>> = <<>>
  BY <1>4
<1>7. Arrived
  BY <1>1, <1>2, <1>4, <1>5, <1>6, SoundNothing DEF Arrived
<1>8. Held
  BY <1>1, <1>5, NothingIsPartial DEF Held
<1>9. Stream(line, <<>>, <<>>, <<>>, 0)
  <2>1. Found(line, 0, <<>>)
    BY <1>6 DEF Found
  <2>2. Encoded(<<>>) = <<>>
    BY NoFrames
  <2>3. 0 + 0 = 0
    OBVIOUS
  <2> QED BY <1>6, <2>1, <2>2, <2>3 DEF Stream
<1>10. Begins(<<>>, sent)
  <2>1. Len(sent) \in Nat
    BY <1>2 DEF AllEncodable
  <2> QED BY <1>6, <2>1 DEF Begins
<1>11. Stands
  BY <1>1, <1>5, <1>6, <1>9, <1>10 DEF Stands
<1> QED BY <1>7, <1>8, <1>11 DEF DecodingInv

LEMMA PushStep ==
  ASSUME DecodingInv, NEW length \in Chunks, Push(length)
  PROVE  DecodingInv'
<1> DEFINE next == Min({fed + length, Len(line)})
<1>1. /\ at = "idle" /\ fed < Len(line) /\ chunk' = SubSeq(line, fed + 1, next) /\ fed' = next
      /\ found' = <<>> /\ at' = "write"
      /\ sent' = sent /\ line' = line /\ codec' = codec /\ received' = received
  BY DEF Push
<1>2. Arrived /\ Held /\ Stands
  BY DEF DecodingInv
<1>3. length \in Nat
  BY TrafficAssumption
<1> DEFINE g == received \o found
<1>4. /\ line \in Seq(Byte) /\ fed \in Nat /\ BufferOK(codec) /\ AllEncodable(g) /\ g \in Seq(Frames)
  <2>1. line \in Seq(Byte) /\ fed \in Nat /\ BufferOK(codec) /\ AllEncodable(received) /\ AllEncodable(found)
    BY <1>2 DEF Arrived
  <2>2. AllEncodable(g)
    BY <2>1, SoundJoined
  <2> QED BY <2>1, <2>2 DEF AllEncodable
<1>5. chunk = <<>> /\ found = <<>> /\ Partial(Unread(codec))
  BY <1>1, <1>2 DEF Held
<1> DEFINE u == Unread(codec)
<1>6. Stream(line, g, u, <<>>, fed)
  BY <1>1, <1>2, <1>5 DEF Stands, Ended
<1>7. u \in Seq(Byte)
  BY <1>4, UnreadIs
<1> HIDE DEF next, g, u
<1>8. /\ next \in Nat /\ next <= Len(line) /\ SubSeq(line, fed + 1, next) \in Seq(Byte)
      /\ Stream(line, g, u, SubSeq(line, fed + 1, next), next)
  BY <1>1, <1>3, <1>4, <1>6, <1>7, StreamPush DEF next
<1>9. Arrived'
  BY <1>1, <1>2, <1>8, SoundNothing DEF Arrived
<1>10. Held'
  BY <1>1, <1>5 DEF Held
<1>11. received' \o found' = g
  BY <1>1, <1>5 DEF g
<1>12. Stands'
  BY <1>1, <1>2, <1>8, <1>11 DEF Stands, g, u
<1> QED BY <1>9, <1>10, <1>12 DEF DecodingInv

(* What the decoder does in each of its steps keeps the invariant.           *)
LEMMA ChunkStep ==
  ASSUME DecodingInv, Write
  PROVE  DecodingInv'
<1>1. at = "write" /\ chunk # <<>> /\ sent' = sent /\ line' = line /\ fed' = fed
  BY DEF Write
<1>2. Arrived /\ Held /\ Stands
  BY DEF DecodingInv
<1> DEFINE g == received \o found
           u == Unread(codec)
<1>3. /\ line \in Seq(Byte) /\ BufferOK(codec) /\ chunk \in Seq(Byte) /\ AllEncodable(g) /\ g \in Seq(Frames)
  <2>1. line \in Seq(Byte) /\ BufferOK(codec) /\ chunk \in Seq(Byte) /\ AllEncodable(received) /\ AllEncodable(found)
    BY <1>2 DEF Arrived
  <2>2. AllEncodable(g)
    BY <2>1, SoundJoined
  <2> QED BY <2>1, <2>2 DEF AllEncodable
<1>4. Partial(u) /\ Stream(line, g, u, chunk, fed)
  BY <1>1, <1>2 DEF Held, Stands, Ended
<1> HIDE DEF g
<1>5. /\ EnsureWritableCapacity(codec) # {}
      /\ \A c \in EnsureWritableCapacity(codec) : Keeps(c, u) /\ HasRoom(c)
  BY <1>3, <1>4, Writable
<1> HIDE DEF u
<1>6. PICK b \in EnsureWritableCapacity(codec) :
        /\ codec' = Written(b, chunk, Min({Capacity(b) - b.end, Len(chunk)}))
        /\ chunk' = SubSeq(chunk, Min({Capacity(b) - b.end, Len(chunk)}) + 1, Len(chunk))
        /\ at' = "decode" /\ found' = found /\ received' = received
  BY <1>5, Zenon DEF Write, Written
<1> DEFINE n == Min({Capacity(b) - b.end, Len(chunk)})
<1>7. BufferOK(b) /\ HasRoom(b) /\ Unread(b) = u
  BY <1>5 DEF Keeps
<1> HIDE DEF n
<1>8. /\ BufferOK(Written(b, chunk, n)) /\ SubSeq(chunk, n + 1, Len(chunk)) \in Seq(Byte)
      /\ Stream(line, g, Unread(Written(b, chunk, n)), SubSeq(chunk, n + 1, Len(chunk)), fed)
  BY <1>3, <1>4, <1>7, StreamWrite DEF n
<1>9. /\ codec' = Written(b, chunk, n) /\ chunk' = SubSeq(chunk, n + 1, Len(chunk))
      /\ at' = "decode" /\ found' = found /\ received' = received
  BY <1>6 DEF n
<1>10. Arrived'
  BY <1>1, <1>2, <1>8, <1>9 DEF Arrived
<1>11. Held'
  BY <1>9 DEF Held
<1>12. Stream(line', received' \o found', Unread(codec'), chunk', fed')
  BY <1>1, <1>8, <1>9 DEF g
<1>13. Stands'
  <2>1. line = Encoded(sent) => Begins(received \o found, sent)
    BY <1>2 DEF Stands
  <2>2. line' = Encoded(sent') => at' # "failed" /\ Begins(received' \o found', sent')
    BY <1>1, <1>9, <2>1
  <2> QED BY <1>12, <2>2 DEF Stands
<1> QED BY <1>10, <1>11, <1>13 DEF DecodingInv

LEMMA ReturnStep ==
  ASSUME DecodingInv, Return
  PROVE  DecodingInv'
<1>1. /\ at = "write" /\ chunk = <<>> /\ received' = received \o found /\ found' = <<>> /\ at' = "idle"
      /\ sent' = sent /\ line' = line /\ fed' = fed /\ codec' = codec /\ chunk' = chunk
  BY DEF Return
<1>2. Arrived /\ Held /\ Stands
  BY DEF DecodingInv
<1> DEFINE g == received \o found
<1>3. AllEncodable(g)
  BY <1>2, SoundJoined DEF Arrived
<1>4. g \o <<>> = g
  BY <1>3, JoinedNothing
<1>5. Arrived'
  BY <1>1, <1>2, <1>3, SoundNothing DEF Arrived
<1>6. Held'
  BY <1>1, <1>2 DEF Held
<1> HIDE DEF g
<1>7. received' \o found' = g
  BY <1>1, <1>4 DEF g
<1>8. Stands'
  BY <1>1, <1>2, <1>7 DEF Stands, Ended, g
<1> QED BY <1>5, <1>6, <1>8 DEF DecodingInv

(* The decoder gives up: what it has returned stays.                        *)
LEMMA FailsStep ==
  ASSUME DecodingInv, NEW how \in {"failed", "cut"}, Fails(how),
         line = Encoded(sent) => how # "failed",
         sent' = sent, line' = line, fed' = fed
  PROVE  DecodingInv'
<1>1. at' = how /\ codec' = EmptyBuffer /\ chunk' = <<>> /\ found' = <<>> /\ received' = received
  BY DEF Fails
<1>2. Arrived /\ Stands
  BY DEF DecodingInv
<1>3. AllEncodable(sent) /\ AllEncodable(received) /\ AllEncodable(found) /\ received \o <<>> = received
  BY <1>2, JoinedNothing DEF Arrived
<1>4. Arrived'
  <2>1. <<>> \in Seq(Byte) /\ BufferOK(EmptyBuffer)
    BY Empty DEF Keeps
  <2> QED BY <1>1, <1>2, <2>1, SoundNothing DEF Arrived
<1>5. Held'
  BY <1>1 DEF Held
<1>6. line = Encoded(sent) => Begins(received, sent)
  <2> SUFFICES ASSUME line = Encoded(sent) PROVE Begins(received, sent)
    OBVIOUS
  <2> DEFINE u == received \o found
  <2>1. Begins(u, sent)
    BY <1>2 DEF Stands
  <2>2. /\ Len(u) = Len(received) + Len(found) /\ Len(received) \in Nat /\ Len(found) \in Nat
        /\ \A i \in 1..Len(received) : u[i] = received[i]
    <3>1. received \in Seq(Frames) /\ found \in Seq(Frames)
      BY <1>3 DEF AllEncodable
    <3> QED BY <3>1, JoinedIs
  <2>3. Len(u) <= Len(sent) /\ \A i \in 1..Len(u) : u[i] = sent[i]
    BY <2>1 DEF Begins
  <2> HIDE DEF u
  <2>4. Len(sent) \in Nat
    BY <1>3 DEF AllEncodable
  <2>5. Len(received) <= Len(sent) /\ \A i \in 1..Len(received) : i \in 1..Len(u)
    BY <2>2, <2>3, <2>4
  <2> QED BY <2>2, <2>3, <2>5 DEF Begins
<1>7. Stands'
  BY <1>1, <1>3, <1>6 DEF Stands, Ended
<1> QED BY <1>4, <1>5, <1>7 DEF DecodingInv

LEMMA FinishStep ==
  ASSUME DecodingInv, Finish
  PROVE  DecodingInv'
<1>1. at = "idle" /\ sent' = sent /\ line' = line /\ fed' = fed
  BY DEF Finish
<1>2. Arrived /\ Held /\ Stands
  BY DEF DecodingInv
<1>3. CASE codec.end # codec.start
  <2>1. Fails("cut")
    BY <1>3 DEF Finish
  <2> QED BY <1>1, <2>1, FailsStep
<1>4. CASE codec.end = codec.start
  <2>1. at' = "finished" /\ codec' = codec /\ chunk' = chunk /\ found' = found /\ received' = received
    BY <1>4 DEF Finish
  <2>2. BufferOK(codec)
    BY <1>2 DEF Arrived
  <2>3. Unread(codec) = <<>>
    <3>1. Unread(codec) \in Seq(Byte) /\ Len(Unread(codec)) = codec.end - codec.start
      BY <2>2, UnreadIs
    <3>2. codec.end - codec.start = 0
      BY <1>4, <2>2, BufferNumbers
    <3> QED BY <3>1, <3>2
  <2>4. Arrived'
    BY <1>1, <1>2, <2>1 DEF Arrived
  <2>5. Held'
    BY <1>1, <1>2, <2>1, <2>3 DEF Held
  <2>6. Stands'
    BY <1>1, <1>2, <2>1 DEF Stands, Ended
  <2> QED BY <2>4, <2>5, <2>6 DEF DecodingInv
<1> QED BY <1>3, <1>4

(* One round of decoding: too little for a header, a header that cannot be, *)
(* too little for the frame, a payload that cannot be, or a frame.          *)
LEMMA HeldBytes ==
  ASSUME DecodingInv, at = "decode"
  PROVE  /\ line \in Seq(Byte) /\ BufferOK(codec) /\ chunk \in Seq(Byte) /\ AllEncodable(received) /\ AllEncodable(found)
         /\ received \o found \in Seq(Frames) /\ Unread(codec) \in Seq(Byte) /\ fed \in Nat
         /\ Stream(line, received \o found, Unread(codec), chunk, fed)
<1>1. Arrived /\ Stands
  BY DEF DecodingInv
<1>2. /\ line \in Seq(Byte) /\ BufferOK(codec) /\ chunk \in Seq(Byte) /\ AllEncodable(received) /\ AllEncodable(found)
      /\ fed \in Nat
  BY <1>1 DEF Arrived
<1>3. received \o found \in Seq(Frames)
  BY <1>2, SoundJoined DEF AllEncodable
<1>4. Unread(codec) \in Seq(Byte)
  BY <1>2, UnreadIs
<1>5. Stream(line, received \o found, Unread(codec), chunk, fed)
  BY <1>1 DEF Stands, Ended
<1> QED BY <1>2, <1>3, <1>4, <1>5

(* Of bytes that arrived as they were sent, the unread ones begin with the  *)
(* frame that is next: it is not refused, and it is what is decoded.        *)
LEMMA NextIsSound ==
  ASSUME DecodingInv, at = "decode", line = Encoded(sent), Len(Unread(codec)) >= HeaderBytes,
         NEW x, x = DecodePayload(TypeOf(Unread(codec)), SubSeq(Unread(codec), HeaderBytes + 1,
                                                      HeaderBytes + PayloadLength(Unread(codec))))
  PROVE  /\ ValidHeader(Unread(codec))
         /\ Len(Unread(codec)) >= HeaderBytes + PayloadLength(Unread(codec)) =>
              x \in Frames /\ Begins(Append(received \o found, x), sent)
<1> DEFINE g == received \o found
           u == Unread(codec)
           o == Len(Encoded(g))
<1>1. line \in Seq(Byte) /\ g \in Seq(Frames) /\ u \in Seq(Byte) /\ Stream(line, g, u, chunk, fed)
  BY HeldBytes
<1>2. Begins(g, sent) /\ AllEncodable(sent)
  BY DEF DecodingInv, Arrived, Stands
<1> HIDE DEF g, u
<1>3. sent \in Seq(Frames) /\ \A i \in 1..Len(sent) : Encodable(sent[i]) /\ sent[i] \in Frames
  BY <1>2, ElementOfSeq DEF AllEncodable
<1>4. Found(line, o, u) /\ o \in Nat
  BY <1>1, BytesOfFrames DEF Stream
<1> HIDE DEF o
<1>5. Len(u) >= 12 /\ HeaderBytes = 12 /\ Len(u) \in Nat
  BY <1>1 DEF u, HeaderBytes
<1>6. Len(g) < Len(sent)
  <2>1. Len(g) <= Len(sent) /\ Len(g) \in Nat /\ Len(sent) \in Nat
    BY <1>1, <1>2, <1>3 DEF Begins
  <2>2. Len(g) # Len(sent)
    <3> SUFFICES ASSUME Len(g) = Len(sent) PROVE FALSE
      OBVIOUS
    <3>1. g = sent
      BY <1>1, <1>2, <1>3, NextFrame
    <3>2. o = Len(line)
      BY <3>1 DEF o
    <3>3. o + Len(u) <= Len(line)
      BY <1>4 DEF Found
    <3> QED BY <1>4, <1>5, <3>2, <3>3
  <2> QED BY <2>1, <2>2
<1> DEFINE m == Len(g)
           y == sent[m + 1]
<1>7. m \in Nat /\ m + 1 \in 1..Len(sent)
  BY <1>1, <1>3, <1>6
<1>8. y \in Frames /\ Encodable(y) /\ Found(line, o, Encode(y))
  <2>1. Found(line, o, Encode(y))
    BY <1>1, <1>2, <1>3, <1>6, NextFrame DEF o
  <2> QED BY <1>3, <1>7, <2>1
<1> HIDE DEF y
<1>9. /\ ValidHeader(u) /\ TypeOf(u) = TypeCode[y.type] /\ PayloadLength(u) = Len(Payload(y))
      /\ Len(u) >= HeaderBytes + Len(Payload(y)) => Found(u, 0, Encode(y)) /\ Found(u, HeaderBytes, Payload(y))
  <2>1. Len(u) >= HeaderBytes
    BY <1>5
  <2> QED BY <1>1, <1>4, <1>8, <2>1, HeaderBack
<1>10. ASSUME Len(u) >= HeaderBytes + PayloadLength(u)
       PROVE  x \in Frames /\ Begins(Append(g, x), sent)
  <2>1. x = y
    <3>1. Found(u, HeaderBytes, Payload(y))
      BY <1>9, <1>10
    <3>2. x = DecodePayload(TypeOf(u), SubSeq(u, HeaderBytes + 1, HeaderBytes + PayloadLength(u)))
      BY DEF u
    <3> QED BY <1>1, <1>8, <1>9, <3>1, <3>2, FrameBack
  <2> DEFINE h == Append(g, x)
  <2>2. /\ Len(h) = m + 1 /\ h[m + 1] = x /\ \A i \in 1..m : h[i] = g[i]
    BY <1>1, <1>8, <2>1, OneMoreFrame
  <2> HIDE DEF h
  <2>3. \A i \in 1..m : g[i] = sent[i]
    BY <1>2 DEF Begins
  <2> HIDE DEF m
  <2>4. ASSUME NEW i \in 1..(m + 1) PROVE h[i] = sent[i]
    <3>1. i = m + 1 \/ i \in 1..m
      BY <1>7
    <3> QED BY <2>1, <2>2, <2>3, <3>1 DEF y
  <2>5. m + 1 <= Len(sent)
    BY <1>7
  <2>6. Begins(h, sent)
    BY <2>2, <2>4, <2>5 DEF Begins
  <2> QED BY <1>8, <2>1, <2>6 DEF h
<1> QED BY <1>9, <1>10 DEF u, g

LEMMA DecodeStep ==
  ASSUME DecodingInv, DecodeAvailable
  PROVE  DecodingInv'
<1> DEFINE u == Unread(codec)
           g == received \o found
           n == HeaderBytes + PayloadLength(u)
           x == DecodePayload(TypeOf(u), SubSeq(u, HeaderBytes + 1, n))
<1>1. at = "decode" /\ sent' = sent /\ line' = line /\ fed' = fed
  BY DEF DecodeAvailable
<1>2. Arrived /\ Held /\ Stands
  BY DEF DecodingInv
<1>3. /\ line \in Seq(Byte) /\ BufferOK(codec) /\ chunk \in Seq(Byte) /\ AllEncodable(received) /\ AllEncodable(found)
      /\ g \in Seq(Frames) /\ u \in Seq(Byte) /\ fed \in Nat /\ Stream(line, g, u, chunk, fed)
  BY <1>1, HeldBytes
<1>4. CASE Len(u) < HeaderBytes
  <2>1. /\ codec' = IF u = <<>> THEN [codec EXCEPT !.start = 0, !.end = 0] ELSE codec
        /\ at' = "write" /\ chunk' = chunk /\ found' = found /\ received' = received
    BY <1>4 DEF DecodeAvailable
  <2>2. BufferOK(codec') /\ Unread(codec') = u
    <3>1. CASE u = <<>>
      <4>1. Keeps([codec EXCEPT !.start = 0, !.end = 0], <<>>)
        BY <1>3, <3>1, FromFront
      <4> QED BY <2>1, <3>1, <4>1 DEF Keeps
    <3>2. CASE u # <<>>
      BY <1>3, <2>1, <3>2
    <3> QED BY <3>1, <3>2
  <2> HIDE DEF u, g, n, x
  <2>3. Partial(u)
    BY <1>4 DEF Partial
  <2>4. Arrived'
    BY <1>1, <1>2, <2>1, <2>2 DEF Arrived
  <2>5. Held'
    BY <2>1, <2>2, <2>3 DEF Held
  <2>6. Stands'
    BY <1>1, <1>2, <1>3, <2>1, <2>2 DEF Stands, Ended, g
  <2> QED BY <2>4, <2>5, <2>6 DEF DecodingInv
<1>5. CASE ~(Len(u) < HeaderBytes)
  <2>1. Len(u) >= HeaderBytes
    BY <1>3, <1>5 DEF HeaderBytes
  <2>2. /\ line = Encoded(sent) => ValidHeader(u)
        /\ line = Encoded(sent) /\ Len(u) >= n => x \in Frames /\ Begins(Append(g, x), sent)
    BY <1>1, <2>1, NextIsSound
  <2>3. n \in Nat /\ PayloadLength(u) \in Nat
    <3>1. Len(u) \in Nat /\ 8 \in Nat /\ HeaderBytes = 12 /\ 8 + 4 <= Len(u)
      BY <1>3, <2>1 DEF HeaderBytes
    <3>2. ReadUInt32LE(u, 8) \in UInt32
      <4> HIDE DEF u
      <4> QED BY <1>3, <3>1, ReadFour
    <3> QED BY <3>1, <3>2, RadixIs DEF PayloadLength
  <2>4. CASE ~ValidHeader(u)
    <3>1. Fails("failed")
      BY <1>5, <2>4 DEF DecodeAvailable
    <3> QED BY <1>1, <2>2, <2>4, <3>1, FailsStep
  <2>5. CASE ValidHeader(u) /\ Len(u) < n
    <3>1. /\ codec' = EnsureFrameCapacity(codec, n) /\ at' = "write"
          /\ chunk' = chunk /\ found' = found /\ received' = received
      BY <1>5, <2>5 DEF DecodeAvailable
    <3>2. n <= MaxFrameBytes
      <4>1. PayloadLength(u) <= MaxPayloadBytes
        BY <2>5 DEF ValidHeader
      <4>2. MaxFrameBytes = 12 + MaxPayloadBytes /\ MaxPayloadBytes \in Nat /\ HeaderBytes = 12
        BY <1>3, BufferNumbers DEF HeaderBytes
      <4> QED BY <2>3, <4>1, <4>2
    <3>3. Partial(u)
      BY <2>5 DEF Partial
    <3> HIDE DEF n, x
    <3>4. Keeps(EnsureFrameCapacity(codec, n), u)
      BY <1>3, <2>3, <2>5, <3>2, FrameFits
    <3>5. BufferOK(codec') /\ Unread(codec') = u
      BY <3>1, <3>4 DEF Keeps
    <3> HIDE DEF u, g
    <3>6. Arrived'
      BY <1>1, <1>2, <3>1, <3>5 DEF Arrived
    <3>7. Held'
      BY <3>1, <3>3, <3>5 DEF Held
    <3>8. Stands'
      BY <1>1, <1>2, <1>3, <3>1, <3>5 DEF Stands, Ended, g
    <3> QED BY <3>6, <3>7, <3>8 DEF DecodingInv
  <2>6. CASE ValidHeader(u) /\ ~(Len(u) < n)
    <3>1. Len(u) >= n
      BY <1>3, <2>3, <2>6
    <3>2. CASE x = Refused
      <4>1. Fails("failed")
        BY <1>5, <2>6, <3>2 DEF DecodeAvailable
      <4>2. line # Encoded(sent)
        <5>1. Refused \notin Frames
          BY DEF Refused, Frames
        <5> QED BY <2>2, <3>1, <3>2, <5>1
      <4> QED BY <1>1, <4>1, <4>2, FailsStep
    <3>3. CASE x # Refused
      <4>1. /\ codec' = Taken(codec, n) /\ found' = Append(found, x)
            /\ at' = at /\ chunk' = chunk /\ received' = received
        BY <1>5, <2>6, <3>3 DEF DecodeAvailable, Taken
      <4>2. /\ x \in Frames /\ Encodable(x) /\ Found(u, 0, Encode(x)) /\ Len(Encode(x)) = n
        BY <1>3, <2>1, <2>6, <3>1, <3>3, FrameRead
      <4> HIDE DEF x, n
      <4>3. AllEncodable(Append(found, x)) /\ received \o Append(found, x) = Append(g, x)
        BY <1>3, <4>2, SoundAppend
      <4> HIDE DEF g
      <4>4. BufferOK(Taken(codec, n)) /\ Stream(line, Append(g, x), Unread(Taken(codec, n)), chunk, fed)
        BY <1>3, <4>2, StreamTake
      <4> HIDE DEF u
      <4>5. Arrived'
        BY <1>1, <1>2, <4>1, <4>3, <4>4 DEF Arrived
      <4>6. Held'
        BY <1>1, <4>1 DEF Held
      <4>7. received' \o found' = Append(g, x)
        BY <4>1, <4>3
      <4>8. line' = Encoded(sent') => at' # "failed" /\ Begins(received' \o found', sent')
        BY <1>1, <2>2, <3>1, <4>1, <4>7
      <4>9. Stream(line', received' \o found', Unread(codec'), chunk', fed')
        BY <1>1, <4>1, <4>4, <4>7
      <4>10. Stands'
        BY <4>8, <4>9 DEF Stands
      <4> QED BY <4>5, <4>6, <4>10 DEF DecodingInv
    <3> QED BY <3>2, <3>3
  <2> QED BY <2>4, <2>5, <2>6
<1> QED BY <1>4, <1>5

(* Nothing changes, or the invariant gives what is promised.                *)
LEMMA DecodingStutters ==
  ASSUME DecodingInv, UNCHANGED decoderVars
  PROVE  DecodingInv'
<1>1. /\ sent' = sent /\ line' = line /\ fed' = fed /\ codec' = codec
      /\ chunk' = chunk /\ found' = found /\ received' = received /\ at' = at
  BY DEF decoderVars
<1>2. Arrived'
  BY <1>1 DEF DecodingInv, Arrived
<1>3. Held'
  BY <1>1 DEF DecodingInv, Held
<1>4. Stands'
  BY <1>1 DEF DecodingInv, Stands, Ended
<1> QED BY <1>2, <1>3, <1>4 DEF DecodingInv

LEMMA PartialIsNotWhole ==
  ASSUME NEW u \in Seq(Byte), Partial(u)
  PROVE  ~(Len(u) >= HeaderBytes /\ Len(u) >= HeaderBytes + PayloadLength(u))
<1> SUFFICES ASSUME Len(u) >= HeaderBytes, Len(u) >= HeaderBytes + PayloadLength(u) PROVE FALSE
  OBVIOUS
<1>1. Len(u) \in Nat /\ HeaderBytes = 12
  BY DEF HeaderBytes
<1>2. PayloadLength(u) \in Nat
  <2>1. 8 \in Nat /\ 8 + 4 <= Len(u)
    BY <1>1
  <2>2. ReadUInt32LE(u, 8) \in UInt32
    BY <2>1, ReadFour
  <2> QED BY <2>2, RadixIs DEF PayloadLength
<1> QED BY <1>1, <1>2 DEF Partial

(* Two pieces of a line, one behind the other, are its beginning.           *)
LEMMA Beginning ==
  ASSUME NEW p \in Seq(Byte), NEW s \in Seq(Byte), NEW t \in Seq(Byte),
         Found(p, 0, s), Found(p, Len(s), t), NEW n, n = Len(s) + Len(t), n <= Len(p)
  PROVE  s \o t = SubSeq(p, 1, n)
<1> DEFINE u == s \o t
           v == SubSeq(p, 0 + 1, 0 + n)
<1>1. Len(s) \in Nat /\ Len(t) \in Nat /\ 0 \in Nat /\ n \in Nat /\ Len(s) = 0 + Len(s)
  OBVIOUS
<1>2. u \in Seq(Byte) /\ Len(u) = n
  BY JoinedBytes
<1>3. Found(p, 0, u)
  BY <1>1, FoundBytes
<1>4. v \in Seq(Byte) /\ Len(v) = n /\ Found(p, 0, v)
  <2>1. 0 + n <= Len(p)
    BY <1>1
  <2> QED BY <1>1, <2>1, FoundPart
<1> HIDE DEF u, v
<1>5. u = v
  BY <1>1, <1>2, <1>3, <1>4, FoundSame
<1>6. 0 + 1 = 1 /\ 0 + n = n
  BY <1>1
<1> QED BY <1>5, <1>6 DEF u, v

LEMMA BeginsIsPrefix ==
  ASSUME NEW g \in Seq(Frames), NEW list \in Seq(Frames), Begins(g, list)
  PROVE  IsPrefix(g, list)
<1> DEFINE n == Len(g)
<1>1. n \in Nat /\ Len(list) \in Nat /\ n <= Len(list) /\ \A i \in 1..n : g[i] = list[i]
  BY DEF Begins
<1>2. SubSeq(g, 1, n) = g
  OBVIOUS
<1>3. SubSeq(list, 1, n) = g
  <2> DEFINE v == SubSeq(list, 1, n)
  <2>1. v \in Seq(Frames) /\ Len(v) = n /\ \A i \in 1..n : v[i] = list[i]
    <3> HIDE DEF n
    <3> QED BY <1>1
  <2> HIDE DEF v
  <2>2. \A i \in 1..Len(v) : v[i] = g[i]
    BY <1>1, <2>1
  <2>3. v = g
    BY <2>1, <2>2, SeqEqual
  <2> QED BY <2>3 DEF v
<1> QED BY <1>1, <1>2, <1>3 DEF IsPrefix

LEMMA DecodingInvImplies ==
  ASSUME DecodingInv
  PROVE  DecodingFaithful
<1> DEFINE u == Unread(codec)
<1>1. /\ line \in Seq(Byte) /\ BufferOK(codec) /\ chunk \in Seq(Byte) /\ AllEncodable(received) /\ AllEncodable(found)
      /\ AllEncodable(sent) /\ fed \in Nat /\ fed <= Len(line)
  BY DEF DecodingInv, Arrived
<1>2. u \in Seq(Byte) /\ received \in Seq(Frames) /\ sent \in Seq(Frames) /\ Encoded(received) \in Seq(Byte)
  BY <1>1, UnreadIs, BytesOfFrames DEF AllEncodable
<1>3. Capacity(codec) <= MaxFrameBytes
  BY <1>1 DEF BufferOK
<1>4. \A i \in DOMAIN received : received[i] \in Frames /\ Encodable(received[i])
  <2>1. DOMAIN received = 1..Len(received)
    BY <1>2
  <2> QED BY <1>1, <1>2, <2>1, ElementOfSeq DEF AllEncodable
<1> HIDE DEF u
<1>5. ASSUME at \in {"idle", "finished"}
      PROVE  /\ Encoded(received) \o u = SubSeq(line, 1, fed)
             /\ ~(Len(u) >= HeaderBytes /\ Len(u) >= HeaderBytes + PayloadLength(u))
  <2>1. chunk = <<>> /\ found = <<>> /\ Partial(u)
    BY <1>5 DEF DecodingInv, Held, u
  <2>2. received \o found = received
    BY <1>1, <2>1, JoinedNothing
  <2>3. Stream(line, received, u, <<>>, fed)
    BY <1>5, <2>1, <2>2 DEF DecodingInv, Stands, Ended, u
  <2>4. /\ Found(line, 0, Encoded(received)) /\ Found(line, Len(Encoded(received)), u)
        /\ Len(Encoded(received)) + Len(u) = fed
    <3>1. Len(<<>>) = 0 /\ Len(Encoded(received)) \in Nat /\ Len(u) \in Nat
      BY <1>2
    <3> QED BY <2>3, <3>1 DEF Stream
  <2>5. Encoded(received) \o u = SubSeq(line, 1, fed)
    BY <1>1, <1>2, <2>4, Beginning
  <2> QED BY <1>2, <2>1, <2>5, PartialIsNotWhole
<1>6. at = "finished" => u = <<>>
  BY DEF DecodingInv, Held, u
<1>7. ASSUME line = Encoded(sent) PROVE at # "failed" /\ IsPrefix(received, sent)
  <2> DEFINE g == received \o found
  <2>1. at # "failed" /\ Begins(g, sent)
    BY <1>7 DEF DecodingInv, Stands
  <2>2. found \in Seq(Frames)
    BY <1>1 DEF AllEncodable
  <2>3. /\ Len(g) = Len(received) + Len(found) /\ Len(received) \in Nat /\ Len(found) \in Nat
        /\ \A i \in 1..Len(received) : g[i] = received[i]
    BY <1>2, <2>2, JoinedIs
  <2> HIDE DEF g
  <2>4. Len(g) <= Len(sent) /\ \A i \in 1..Len(g) : g[i] = sent[i]
    BY <2>1 DEF Begins
  <2>5. Len(sent) \in Nat
    BY <1>2
  <2>6. Len(received) <= Len(sent) /\ \A i \in 1..Len(received) : i \in 1..Len(g)
    BY <2>3, <2>4, <2>5
  <2>7. Begins(received, sent)
    BY <2>3, <2>4, <2>6 DEF Begins
  <2> QED BY <1>2, <2>1, <2>7, BeginsIsPrefix
<1> QED BY <1>3, <1>4, <1>5, <1>6, <1>7 DEF DecodingFaithful, u

(* For every size of a byte and of the limits, every traffic that can be    *)
(* encoded, every byte that is spoilt and every way to cut the bytes: the   *)
(* list push() has returned and what the decoder still holds are what     *)
(* arrived, no whole frame is held back, the buffer never exceeds the       *)
(* largest frame, and of what arrived as it was sent it refuses nothing.    *)
THEOREM DecodingIsFaithful == DecoderSpec => []DecodingFaithful
<1>1. DecoderInit => DecodingInv
  BY DecodingInit
<1>2. DecodingInv /\ [DecoderNext]_decoderVars => DecodingInv'
  <2> SUFFICES ASSUME DecodingInv, [DecoderNext]_decoderVars PROVE DecodingInv'
    OBVIOUS
  <2>1. CASE \E length \in Chunks : Push(length)
    BY <2>1, PushStep
  <2>2. CASE Write
    BY <2>2, ChunkStep
  <2>3. CASE Return
    BY <2>3, ReturnStep
  <2>4. CASE DecodeAvailable
    BY <2>4, DecodeStep
  <2>5. CASE Finish
    BY <2>5, FinishStep
  <2>6. CASE UNCHANGED decoderVars
    BY <2>6, DecodingStutters
  <2> QED BY <2>1, <2>2, <2>3, <2>4, <2>5, <2>6 DEF DecoderNext
<1>3. DecodingInv => DecodingFaithful
  BY DecodingInvImplies
<1> QED BY <1>1, <1>2, <1>3, PTL DEF DecoderSpec

=============================================================================
