---------------------------- MODULE FrameStream ----------------------------
(***************************************************************************)
(* One direction of a connection: encode and decode of codec.rs, the bytes *)
(* of the pipe or SSH channel, which arrive in pieces of any size, the     *)
(* MessageDecoder and the loop that drains it.                             *)
(*                                                                         *)
(* There are three such loops. read_loop (the host's) answers a frame it   *)
(* cannot decode with an Error message and decodes the same bytes again,   *)
(* so it never reads on; the desktop's two (ipc.rs, ssh_channel.rs) return. *)
(* `receiver` says which one runs; the sender is the other side. What else *)
(* ends an actor of ssh_channel.rs, a write that fails, a closed write     *)
(* queue or a consumer that is gone, is left to module Connection.         *)
(*                                                                         *)
(* A byte is a digit below Base, the length prefix HeaderSize of them.     *)
(* MessagePack is external: PayloadOf gives each message its bytes, and    *)
(* any other payload cannot be deserialised.                               *)
(***************************************************************************)
EXTENDS Naturals, Sequences

CONSTANTS
    Sendable,       \* what a peer may want to send
    PayloadOf(_),   \* rmp_serde::to_vec
    Base,           \* values of a byte
    HeaderSize,     \* bytes of the length prefix
    MaxFrameSize,   \* MAX_FRAME_SIZE
    NoMessage,      \* what from_slice returns for a payload it does not know
    Foreign,        \* frames of a peer of another version: the payload unknown
    BytesOf(_),     \* here, or longer than MaxFrameSize; their bytes
    Receivers,      \* the values of `receiver`
    MaxSent,        \* bound: messages and foreign frames sent
    MaxErrors       \* bound: Error messages counted

\* The numbers that the last bytes of a length prefix tell apart.
Weight ==
    LET weight[i \in 0..HeaderSize] == IF i = 0 THEN 1 ELSE Base * weight[i - 1]
    IN  weight

ASSUME SizeAssumption ==
    /\ Base \in Nat \ {0, 1} /\ HeaderSize \in Nat \ {0}
    /\ MaxFrameSize \in Nat /\ MaxFrameSize < Weight[HeaderSize]
    /\ MaxSent \in Nat /\ MaxErrors \in Nat

ASSUME PeerAssumption ==
    /\ Receivers \subseteq {"host", "desktop"}
    /\ NoMessage \notin Sendable /\ Sendable \cap Foreign = {}

VARIABLES
    receiver,   \* who runs the loop, "host" or "desktop": never changes
    sender,     \* the sending process: up or gone
    sent,       \* history: what was put on the stream, whole
    stream,     \* bytes written and not yet read
    buf,        \* MessageDecoder.buf
    readLoop,   \* the loop: reading, decoding, eof or failed
    delivered,  \* messages handed to the channel of the receiving process
    errors      \* Error messages handed to it

frameVars == <<receiver, sender, sent, stream, buf, readLoop, delivered, errors>>

Byte == 0..(Base - 1)

\* Bytes on the stream and in the buffer, messages at both ends.
FrameTypeOK ==
    /\ receiver \in Receivers
    /\ sender \in {"up", "gone"}
    /\ sent \in Seq(Sendable \cup Foreign)
    /\ stream \in Seq(Byte)
    /\ buf \in Seq(Byte)
    /\ readLoop \in {"reading", "decoding", "eof", "failed"}
    /\ delivered \in Seq(Sendable)
    /\ errors \in 0..MaxErrors

-----------------------------------------------------------------------------
(* codec.rs *)

\* put_u32
Header(n) == [i \in 1..HeaderSize |-> (n \div Weight[HeaderSize - i]) % Base]

\* read_u32
Length(bytes) ==
    LET value[i \in 0..Len(bytes)] == IF i = 0 THEN 0 ELSE value[i - 1] * Base + bytes[i]
    IN  value[Len(bytes)]

TooLarge(m) == Len(PayloadOf(m)) > MaxFrameSize

Encode(m) == Header(Len(PayloadOf(m))) \o PayloadOf(m)

PayloadLength(bytes) == Length(SubSeq(bytes, 1, HeaderSize))

\* decode returns None unless the header, then the payload, are there; a length
\* beyond MAX_FRAME_SIZE is an error as soon as the header is.
Complete(bytes) ==
    Len(bytes) >= HeaderSize /\ Len(bytes) >= HeaderSize + PayloadLength(bytes)

Oversized(bytes) == Len(bytes) >= HeaderSize /\ PayloadLength(bytes) > MaxFrameSize

Payload(bytes) == SubSeq(bytes, HeaderSize + 1, HeaderSize + PayloadLength(bytes))

\* rmp_serde::from_slice
Deserialized(payload) ==
    IF \E m \in Sendable : PayloadOf(m) = payload
    THEN CHOOSE m \in Sendable : PayloadOf(m) = payload
    ELSE NoMessage

\* split_to(consumed)
Rest(bytes) == SubSeq(bytes, HeaderSize + PayloadLength(bytes) + 1, Len(bytes))

Incomplete(bytes) == ~Oversized(bytes) /\ ~Complete(bytes)

Malformed(bytes) ==
    Oversized(bytes) \/ (Complete(bytes) /\ Deserialized(Payload(bytes)) = NoMessage)

\* Payloads are bytes, and tell the messages apart; a foreign frame is malformed.
ASSUME PayloadAssumption ==
    /\ \A m \in Sendable : PayloadOf(m) \in Seq(Byte)
    /\ \A l, m \in Sendable : PayloadOf(l) = PayloadOf(m) => l = m
    /\ \A f \in Foreign : BytesOf(f) \in Seq(Byte) /\ Malformed(BytesOf(f))

-----------------------------------------------------------------------------
FrameInit ==
    /\ receiver \in Receivers
    /\ sender = "up"
    /\ sent = <<>>
    /\ stream = <<>>
    /\ buf = <<>>
    /\ readLoop = "reading"
    /\ delivered = <<>>
    /\ errors = 0

(* The sender *)

Write(m) ==
    /\ sender = "up" /\ Len(sent) < MaxSent
    /\ ~TooLarge(m)
    /\ sent' = Append(sent, m)
    /\ stream' = stream \o Encode(m)
    /\ UNCHANGED <<receiver, sender, buf, readLoop, delivered, errors>>

\* encode refuses: the desktop reports it to the caller, the host's main loop
\* ends on it.
WriteTooLarge(m) ==
    /\ sender = "up"
    /\ TooLarge(m)
    /\ sender' = IF receiver = "desktop" THEN "gone" ELSE "up"
    /\ UNCHANGED <<receiver, sent, stream, buf, readLoop, delivered, errors>>

WriteForeign(f) ==
    /\ sender = "up" /\ Len(sent) < MaxSent
    /\ sent' = Append(sent, f)
    /\ stream' = stream \o BytesOf(f)
    /\ UNCHANGED <<receiver, sender, buf, readLoop, delivered, errors>>

Leave ==
    /\ sender = "up"
    /\ sender' = "gone"
    /\ UNCHANGED <<receiver, sent, stream, buf, readLoop, delivered, errors>>

(* The loop that owns the decoder *)

\* One read returns some of the bytes; push appends them.
Read(n) ==
    /\ readLoop = "reading"
    /\ n <= Len(stream)
    /\ buf' = buf \o SubSeq(stream, 1, n)
    /\ stream' = SubSeq(stream, n + 1, Len(stream))
    /\ readLoop' = "decoding"
    /\ UNCHANGED <<receiver, sender, sent, delivered, errors>>

ReadEof ==
    /\ readLoop = "reading"
    /\ stream = <<>> /\ sender = "gone"
    /\ readLoop' = "eof"
    /\ UNCHANGED <<receiver, sender, sent, stream, buf, delivered, errors>>

DecodeUnchecked ==
    /\ readLoop = "decoding"
    /\ Complete(buf)
    /\ delivered' = Append(delivered, Deserialized(Payload(buf)))
    /\ buf' = Rest(buf)
    /\ UNCHANGED <<receiver, sender, sent, stream, readLoop, errors>>

DecodeOnePerRead ==
    /\ readLoop = "decoding"
    /\ Complete(buf) /\ ~Malformed(buf)
    /\ delivered' = Append(delivered, Deserialized(Payload(buf)))
    /\ buf' = Rest(buf)
    /\ readLoop' = "reading"
    /\ UNCHANGED <<receiver, sender, sent, stream, errors>>

DecodeMessage ==
    /\ readLoop = "decoding"
    /\ Complete(buf) /\ ~Malformed(buf)
    /\ delivered' = Append(delivered, Deserialized(Payload(buf)))
    /\ buf' = Rest(buf)
    /\ UNCHANGED <<receiver, sender, sent, stream, readLoop, errors>>

DecodeNone ==
    /\ readLoop = "decoding"
    /\ Incomplete(buf)
    /\ readLoop' = "reading"
    /\ UNCHANGED <<receiver, sender, sent, stream, buf, delivered, errors>>

\* try_decode returns before split_to: the buffer keeps the malformed frame.
DecodeFails ==
    /\ readLoop = "decoding"
    /\ Malformed(buf)
    /\ IF receiver = "host"
       THEN /\ errors' = IF errors < MaxErrors THEN errors + 1 ELSE errors
            /\ UNCHANGED readLoop
       ELSE /\ readLoop' = "failed"
            /\ UNCHANGED errors
    /\ UNCHANGED <<receiver, sender, sent, stream, buf, delivered>>

Decoder == DecodeMessage \/ DecodeNone \/ DecodeFails

Loop == Decoder \/ ReadEof \/ \E n \in 1..Len(stream) : Read(n)

FrameNext ==
    \/ \E m \in Sendable : Write(m) \/ WriteTooLarge(m)
    \/ \E f \in Foreign : WriteForeign(f)
    \/ Leave
    \/ Loop

FrameSpec == FrameInit /\ [][FrameNext]_frameVars

\* The loop is a task or a thread of its own: nothing holds it up but the stream.
FairFrameSpec == FrameSpec /\ WF_frameVars(Loop)

-----------------------------------------------------------------------------
(* Safety *)

IsForeign(x) == x \in Foreign

\* The messages sent before the first frame that the receiver cannot decode.
SentWell ==
    LET bad == {i \in DOMAIN sent : IsForeign(sent[i])}
    IN  IF bad = {} THEN sent ELSE SubSeq(sent, 1, (CHOOSE i \in bad : \A j \in bad : i <= j) - 1)

-----------------------------------------------------------------------------
Channel == INSTANCE FifoChannel WITH sent <- SentWell

\* However the bytes are cut into reads, the stream is a FIFO channel for the
\* messages sent before the first malformed frame: no frame is split, merged,
\* invented or left in the buffer.
ChannelSpec == Channel!Spec

-----------------------------------------------------------------------------
(* Said of the program and not kept by it: see README, Disagreements *)

\* "Send error and continue": one Error for each frame that cannot be decoded.
ErrorPerMalformedFrame ==
    errors <= Len(sent) - Len(SelectSeq(sent, LAMBDA x : ~IsForeign(x)))
=============================================================================
