------------------------------ MODULE FrameDecoder ------------------------------
(***************************************************************************)
(* src/runtime/windows-job-protocol.ts: the frames of the control pipe as   *)
(* bytes, and the decoder that gets them in chunks that end anywhere.  The  *)
(* layout is the protocol's (protocol.v1.json), with fewer bytes: a byte is *)
(* below Radix, and the limits and the first capacity of the buffer are     *)
(* constants.  A character is one byte.  A byte may be spoilt on its way.   *)
(***************************************************************************)
EXTENDS Integers, Sequences, SequencesExt

CONSTANTS
  Radix,           \* 256
  MaxStringBytes, MaxArgCount, MaxPayloadBytes,
  FirstCapacity,   \* 4096
  Traffic,         \* what may be sent: sequences of frames
  Spoils,          \* the bytes a byte may turn into
  Chunks           \* the lengths of the chunks the pipe delivers

HeaderBytes == 12
MaxFrameBytes == HeaderBytes + MaxPayloadBytes
Byte == 0..(Radix - 1)
UInt16 == 0..(Radix * Radix - 1)
UInt32 == 0..(Radix * Radix * Radix * Radix - 1)

(* A length has four bytes, and doubling the buffer comes to its end.       *)
ASSUME LimitsAssumption ==
  /\ Radix \in Nat \ 0..7 /\ {MaxStringBytes, MaxArgCount, MaxPayloadBytes} \subseteq UInt32
  /\ FirstCapacity \in HeaderBytes..MaxFrameBytes /\ MaxFrameBytes <= 1024 * FirstCapacity

VARIABLES
  sent,      \* the frames that are sent
  line,      \* their bytes, as they arrive
  fed,       \* how many of them the decoder has been given
  codec,     \* the buffer: storage, start, end
  chunk,     \* the rest of the chunk that is being taken
  found,     \* the frames of this chunk
  received,  \* the frames push() has returned
  at         \* "idle", "write", "decode", or how the decoder has ended

decoderVars == <<sent, line, fed, codec, chunk, found, received, at>>

-----------------------------------------------------------------------------
(* Numbers are little-endian.  They are read behind an offset. *)
UInt16LE(n) == <<n % Radix, (n \div Radix) % Radix>>
UInt32LE(n) == UInt16LE(n % (Radix * Radix)) \o UInt16LE(n \div (Radix * Radix))
ReadUInt16LE(bytes, offset) == bytes[offset + 1] + Radix * bytes[offset + 2]
ReadUInt32LE(bytes, offset) ==
  ReadUInt16LE(bytes, offset) + (Radix * Radix) * ReadUInt16LE(bytes, offset + 2)

Magic == <<1, 2, 3, 4>>
Version == 1
TypeCode == [launchConfig |-> 1, ready |-> 2, terminate |-> 3, error |-> 4, exit |-> 5]
NoneOrRootExit == 0
ProtocolFault == 4
ReasonCodes == 0..4
StageCodes == 1..16
NoCode == -1     \* win32Code: null

Frames ==
  [type : {"launchConfig"}, executable : Seq(Byte), cwd : Seq(Byte), argv : Seq(Seq(Byte))]
    \cup [type : {"ready"}] \cup [type : {"terminate"}, reason : ReasonCodes]
    \cup [type : {"error"}, stage : StageCodes, reason : ReasonCodes, win32Code : UInt32 \cup {NoCode}]
    \cup [type : {"exit"}, rootExitCode : UInt32, reason : ReasonCodes]

(* Characters of which a path is made; one ends a C string, one is not text. *)
Nul == 0
Letter == 1
Colon == 2
Separator == 3
NoText == Radix - 1

FullyQualified(path) ==
  \/ Len(path) >= 3 /\ SubSeq(path, 1, 3) = <<Letter, Colon, Separator>>
  \/ /\ Len(path) >= 5 /\ path[1] = Separator /\ path[2] = Separator /\ path[3] # Separator
     /\ \E i \in 4..(Len(path) - 1) :
          /\ path[i] = Separator /\ path[i + 1] # Separator
          /\ \A k \in 3..(i - 1) : path[k] # Separator

StrictString(text) == Len(text) <= MaxStringBytes /\ {Nul, NoText} \cap Range(text) = {}

EncodeString(text) == UInt32LE(Len(text)) \o text
EncodeStrings(texts) == FlattenSeq([i \in DOMAIN texts |-> EncodeString(texts[i])])

Payload(frame) ==
  CASE frame.type = "launchConfig" ->
         EncodeString(frame.executable) \o EncodeString(frame.cwd) \o UInt32LE(Len(frame.argv))
           \o EncodeStrings(frame.argv)
    [] frame.type = "ready" -> <<>>
    [] frame.type = "terminate" -> <<frame.reason>>
    [] frame.type = "error" ->
         UInt16LE(frame.stage) \o <<frame.reason>>
           \o (IF frame.win32Code = NoCode THEN <<0, 0, 0, 0, 0>>
               ELSE <<1>> \o UInt32LE(frame.win32Code))
    [] frame.type = "exit" -> UInt32LE(frame.rootExitCode) \o <<frame.reason, 1, 0, 0>>

Encodable(frame) ==
  /\ frame.type = "launchConfig" =>
       /\ FullyQualified(frame.executable) /\ FullyQualified(frame.cwd)
       /\ Len(frame.argv) <= MaxArgCount
       /\ \A text \in {frame.executable, frame.cwd} \cup Range(frame.argv) : StrictString(text)
  /\ frame.type = "terminate" => frame.reason # NoneOrRootExit
  /\ frame.type = "exit" => frame.reason # ProtocolFault
  /\ Len(Payload(frame)) <= MaxPayloadBytes

Encode(frame) ==
  Magic \o UInt16LE(Version) \o UInt16LE(TypeCode[frame.type])
    \o UInt32LE(Len(Payload(frame))) \o Payload(frame)

Encoded(frames) == FlattenSeq([i \in DOMAIN frames |-> Encode(frames[i])])

(* What is sent was encoded, and no byte turns into anything but a byte.    *)
ASSUME TrafficAssumption ==
  /\ Traffic \subseteq Seq(Frames) /\ Spoils \subseteq Byte /\ Chunks \subseteq Nat
  /\ \A frames \in Traffic : \A i \in DOMAIN frames : Encodable(frames[i])

-----------------------------------------------------------------------------
(* Reading a payload.  A reader is where it has come to and whether what it *)
(* read was sound.                                                          *)
Start == [ok |-> TRUE, offset |-> 0, texts |-> <<>>]

ReadString(payload, reader) ==
  LET length == ReadUInt32LE(payload, reader.offset)
      text == SubSeq(payload, reader.offset + 5, reader.offset + 4 + length)
  IN IF \/ ~reader.ok \/ reader.offset + 4 > Len(payload)
        \/ length > MaxStringBytes \/ reader.offset + 4 + length > Len(payload)
        \/ ~StrictString(text)
     THEN [reader EXCEPT !.ok = FALSE]
     ELSE [ok |-> TRUE, offset |-> reader.offset + 4 + length, texts |-> Append(reader.texts, text)]

ReadStrings(payload, reader, count) ==
  FoldLeft(LAMBDA now, i : ReadString(payload, now), reader, [i \in 1..count |-> i])

Refused == [type |-> "refused"]

DecodeLaunchConfig(payload) ==
  LET paths == ReadStrings(payload, Start, 2)
      argc == ReadUInt32LE(payload, paths.offset)
      all == ReadStrings(payload, [paths EXCEPT !.offset = @ + 4], argc)
  IN IF \/ ~paths.ok \/ ~FullyQualified(paths.texts[1]) \/ ~FullyQualified(paths.texts[2])
        \/ paths.offset + 4 > Len(payload) \/ argc > MaxArgCount
     THEN Refused
     ELSE IF ~all.ok \/ all.offset # Len(payload) THEN Refused
     ELSE [type |-> "launchConfig", executable |-> all.texts[1], cwd |-> all.texts[2],
           argv |-> SubSeq(all.texts, 3, Len(all.texts))]

DecodeTerminate(payload) ==
  IF Len(payload) = 1 /\ payload[1] \in ReasonCodes \ {NoneOrRootExit}
  THEN [type |-> "terminate", reason |-> payload[1]] ELSE Refused

DecodeError(payload) ==
  LET code == ReadUInt32LE(payload, 4)
      stage == ReadUInt16LE(payload, 0)
  IN IF /\ Len(payload) = 8
        /\ stage \in StageCodes /\ payload[3] \in ReasonCodes
        /\ payload[4] \in {0, 1} /\ (payload[4] = 0 => code = 0)
     THEN [type |-> "error", stage |-> stage, reason |-> payload[3],
           win32Code |-> IF payload[4] = 1 THEN code ELSE NoCode]
     ELSE Refused

DecodeExit(payload) ==
  IF /\ Len(payload) = 8 /\ payload[5] \in ReasonCodes \ {ProtocolFault}
     /\ SubSeq(payload, 6, 8) = <<1, 0, 0>>
  THEN [type |-> "exit", rootExitCode |-> ReadUInt32LE(payload, 0), reason |-> payload[5]]
  ELSE Refused

DecodePayload(type, payload) ==
  CASE type = TypeCode.launchConfig -> DecodeLaunchConfig(payload)
    [] type = TypeCode.ready -> IF payload = <<>> THEN [type |-> "ready"] ELSE Refused
    [] type = TypeCode.terminate -> DecodeTerminate(payload)
    [] type = TypeCode.error -> DecodeError(payload)
    [] type = TypeCode.exit -> DecodeExit(payload)

TypeOf(bytes) == ReadUInt16LE(bytes, 6)
PayloadLength(bytes) == ReadUInt32LE(bytes, 8)
ValidHeader(bytes) ==
  /\ SubSeq(bytes, 1, 4) = Magic /\ ReadUInt16LE(bytes, 4) = Version
  /\ TypeOf(bytes) \in Range(TypeCode) /\ PayloadLength(bytes) <= MaxPayloadBytes

-----------------------------------------------------------------------------
(* The buffer.  What was never written to it is no byte. *)
Unwritten == Radix
EmptyBuffer == [storage |-> <<>>, start |-> 0, end |-> 0]
Unread(buffer) == SubSeq(buffer.storage, buffer.start + 1, buffer.end)
Capacity(buffer) == Len(buffer.storage)

ReplaceStorage(buffer, capacity) ==
  LET unread == Unread(buffer) IN
  [storage |-> [i \in 1..capacity |-> IF i <= Len(unread) THEN unread[i] ELSE Unwritten],
   start |-> 0, end |-> Len(unread)]

\* Mutant: the bytes stay where they are.
CompactInPlace(buffer) == [buffer EXCEPT !.start = 0, !.end = @ - buffer.start]

(* The unread bytes are moved to the front of the same storage.             *)
Compact(buffer) ==
  LET unread == Unread(buffer) IN
  [storage |-> [i \in DOMAIN buffer.storage |->
                  IF i <= Len(unread) THEN unread[i] ELSE buffer.storage[i]],
   start |-> 0, end |-> Len(unread)]

HasRoom(buffer) == buffer.end < Capacity(buffer)

(* The buffer with room for a byte, or none: then push throws.              *)
EnsureWritableCapacity(buffer) ==
  LET moved == IF buffer.start > 0 THEN Compact(buffer) ELSE buffer IN
  IF HasRoom(buffer) THEN {buffer}
  ELSE IF HasRoom(moved) THEN {moved}
  ELSE IF Capacity(moved) >= MaxFrameBytes THEN {}
  ELSE {ReplaceStorage(moved, IF Capacity(moved) = 0 THEN FirstCapacity
                              ELSE Min({MaxFrameBytes, 2 * Capacity(moved)}))}

Doublings == {1, 2, 4, 8, 16, 32, 64, 128, 256, 512, 1024}

(* The header has been validated, so there is always a capacity that holds. *)
EnsureFrameCapacity(buffer, length) ==
  LET least == Max({Capacity(buffer), FirstCapacity})
      doubled == {Min({MaxFrameBytes, least * k}) : k \in Doublings} IN
  IF Capacity(buffer) >= length THEN buffer
  ELSE ReplaceStorage(buffer, Min({capacity \in doubled : capacity >= length}))

-----------------------------------------------------------------------------
(* push: the chunk is taken as far as there is room, and what can be        *)
(* decoded is, until the chunk is empty.  It all happens in one turn.       *)
Push(length) ==
  /\ at = "idle" /\ fed < Len(line)
  /\ LET next == Min({fed + length, Len(line)}) IN
     chunk' = SubSeq(line, fed + 1, next) /\ fed' = next
  /\ found' = <<>> /\ at' = "write"
  /\ UNCHANGED <<sent, line, codec, received>>

Fails(how) == at' = how /\ codec' = EmptyBuffer /\ chunk' = <<>> /\ found' = <<>> /\ UNCHANGED received

Write ==
  /\ at = "write" /\ chunk # <<>> /\ UNCHANGED <<sent, line, fed>>
  /\ IF EnsureWritableCapacity(codec) = {} THEN Fails("failed")
     ELSE \E buffer \in EnsureWritableCapacity(codec) :
            LET n == Min({Capacity(buffer) - buffer.end, Len(chunk)}) IN
            /\ codec' = [buffer EXCEPT !.end = @ + n,
                           !.storage = [i \in DOMAIN @ |->
                              IF i \in (buffer.end + 1)..(buffer.end + n) THEN chunk[i - buffer.end] ELSE @[i]]]
            /\ chunk' = SubSeq(chunk, n + 1, Len(chunk))
            /\ at' = "decode" /\ UNCHANGED <<found, received>>

Return ==
  /\ at = "write" /\ chunk = <<>>
  /\ received' = received \o found /\ found' = <<>> /\ at' = "idle"
  /\ UNCHANGED <<sent, line, fed, codec, chunk>>

(* One round of decodeAvailable. *)
DecodeAvailable ==
  LET unread == Unread(codec)
      length == HeaderBytes + PayloadLength(unread)
      frame == DecodePayload(TypeOf(unread), SubSeq(unread, HeaderBytes + 1, length))
  IN
  /\ at = "decode" /\ UNCHANGED <<sent, line, fed>>
  /\ IF Len(unread) < HeaderBytes
     THEN /\ codec' = IF unread = <<>> THEN [codec EXCEPT !.start = 0, !.end = 0] ELSE codec
          /\ at' = "write" /\ UNCHANGED <<chunk, found, received>>
     ELSE IF ~ValidHeader(unread) THEN Fails("failed")
     ELSE IF Len(unread) < length
     THEN codec' = EnsureFrameCapacity(codec, length) /\ at' = "write" /\ UNCHANGED <<chunk, found, received>>
     ELSE IF frame = Refused THEN Fails("failed")
     ELSE /\ codec' = [codec EXCEPT !.start = @ + length]
          /\ found' = Append(found, frame) /\ UNCHANGED <<at, chunk, received>>

(* The pipe may end before all has arrived. *)
Finish ==
  /\ at = "idle" /\ UNCHANGED <<sent, line, fed>>
  /\ IF codec.end # codec.start THEN Fails("cut")
     ELSE at' = "finished" /\ UNCHANGED <<codec, chunk, found, received>>

Spoilt(bytes) == {[bytes EXCEPT ![i] = byte] : i \in DOMAIN bytes, byte \in Spoils}

DecoderInit ==
  /\ sent \in Traffic /\ line \in {Encoded(sent)} \cup Spoilt(Encoded(sent))
  /\ fed = 0 /\ codec = EmptyBuffer /\ chunk = <<>> /\ found = <<>> /\ received = <<>> /\ at = "idle"

DecoderNext ==
  \/ \E length \in Chunks : Push(length)
  \/ Write \/ Return \/ DecodeAvailable \/ Finish

DecoderSpec == DecoderInit /\ [][DecoderNext]_decoderVars

-----------------------------------------------------------------------------
(* However the bytes are cut: as long as the decoder accepts them, the      *)
(* frames it has returned and the rest it holds are, byte for byte, what    *)
(* arrived; each of them could have been encoded; no whole frame is held    *)
(* back; the buffer never exceeds the largest frame; it ends well only      *)
(* between two frames.  Of bytes that arrived as they were sent it refuses  *)
(* none and returns what was sent.                                          *)
DecodingFaithful ==
  LET rest == Unread(codec)
      whole == Len(rest) >= HeaderBytes /\ Len(rest) >= HeaderBytes + PayloadLength(rest)
  IN
  /\ Capacity(codec) <= MaxFrameBytes
  /\ \A i \in DOMAIN received : received[i] \in Frames /\ Encodable(received[i])
  /\ at \in {"idle", "finished"} => Encoded(received) \o rest = SubSeq(line, 1, fed) /\ ~whole
  /\ at = "finished" => rest = <<>>
  /\ line = Encoded(sent) => at # "failed" /\ IsPrefix(received, sent)
=============================================================================
