----------------------------- MODULE MCOwnedWire -----------------------------
(* The wrapper and the helper; and, beside them, the decoder of the wrapper *)
(* with the bytes of a few frames, and the reads of the helper's end of the *)
(* pipe.  A behaviour is of one of the three.                               *)
EXTENDS MCOwnedProcess, FrameDecoder, ControlChannel

Drive == <<Letter, Colon, Separator>>
Share == <<Separator, Separator, 4, Separator, 5>>
ReadyOnce == [type |-> "ready"]
Stop(reason) == [type |-> "terminate", reason |-> reason]
Launch(exe, cwd, argv) == [type |-> "launchConfig", executable |-> exe, cwd |-> cwd, argv |-> argv]
ExitOf(code, reason) == [type |-> "exit", rootExitCode |-> code, reason |-> reason]
ErrorOf(stage, reason, code) ==
  [type |-> "error", stage |-> stage, reason |-> reason, win32Code |-> code]

MCTraffic ==
  { <<ReadyOnce, ExitOf(Radix * Radix * Radix * Radix - 1, 1)>>,
    <<ReadyOnce, ErrorOf(16, 4, NoCode), ReadyOnce>>,
    <<ErrorOf(9, 0, 70), Stop(4)>>,
    <<Launch(Drive, Share, <<<<6>>>>), Stop(1)>>,
    <<Launch(Share, Drive, <<>>), ReadyOnce>> }

NothingArrives ==
  /\ sent = <<>> /\ line = <<>> /\ fed = 0 /\ codec = EmptyBuffer
  /\ chunk = <<>> /\ found = <<>> /\ received = <<>> /\ at = "unused"

DecoderEnded == at \in {"failed", "cut", "finished"} /\ UNCHANGED decoderVars

NothingIsRead ==
  /\ operation = [n \in Reads |-> NoOperation] /\ pendingRead = NoRead /\ shuttingDown = FALSE /\ pipeOpen = FALSE
  /\ readerAt = "unused" /\ reading = NoRead /\ reported = FALSE
  /\ closerAt = "unused" /\ retiring = NoRead /\ abandoned = FALSE

ChannelEnded == closerAt = "closed" /\ UNCHANGED channelVars

MCInit ==
  \/ Init /\ NothingArrives /\ NothingIsRead
  \/ Init /\ DecoderInit /\ NothingIsRead
  \/ Init /\ NothingArrives /\ ChannelInit

MCNext ==
  \/ at = "unused" /\ readerAt = "unused" /\ Next /\ UNCHANGED <<decoderVars, channelVars>>
  \/ at # "unused" /\ (DecoderNext \/ DecoderEnded) /\ UNCHANGED <<vars, channelVars>>
  \/ readerAt # "unused" /\ (ChannelNext \/ ChannelEnded) /\ UNCHANGED <<vars, decoderVars>>

MCSpec ==
  /\ MCInit /\ [][MCNext]_<<vars, decoderVars, channelVars>>
  /\ OwnedFairness
=============================================================================
