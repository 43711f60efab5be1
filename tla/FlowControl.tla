---------------------------- MODULE FlowControl ----------------------------
(***************************************************************************)
(* Output flow control of one session: the counters of session/types.rs    *)
(* between the reader thread of pty/worker.rs, which counts what it sends  *)
(* and pauses, the client, which acknowledges what it consumes, and the    *)
(* main loop, which handles the Ack.                                       *)
(*                                                                         *)
(* handle_ack looks the session up and records nothing (its TODO);         *)
(* record_ack and ack have no caller. A behaviour in which `recorded` is   *)
(* FALSE is that code, one in which it is TRUE has the counters used as    *)
(* they were written to be: handle_ack calling ack and record_ack.         *)
(*                                                                         *)
(* Bytes are counted in units; each atomic operation is a step.            *)
(***************************************************************************)
EXTENDS Integers, Sequences

CONSTANTS
    High, Low,      \* DEFAULT_WATERMARK_HIGH and DEFAULT_WATERMARK_LOW
    ReadChunkSize,  \* READ_CHUNK_SIZE
    Width,          \* usize wraps at Width
    Total,          \* bound: bytes the child writes
    Recorded        \* the values of `recorded`

ASSUME WatermarkAssumption ==
    /\ High \in Nat /\ Low \in Nat /\ Low < High
    /\ ReadChunkSize \in Nat \ {0} /\ Total \in Nat
    /\ Width \in Nat /\ High + Total < Width
    /\ Recorded \subseteq BOOLEAN

VARIABLES
    recorded,       \* does handle_ack update the counters: never changes
    left,           \* bytes the child has not written yet
    bytesPending,   \* bytes_pending
    paused,         \* paused
    seqCounter,     \* seq_counter
    lastAcked,      \* last_acked_seq
    reader,         \* where the reader thread is, and the chunk it holds
    wire,           \* chunks on their way to the client
    acks,           \* Acks on their way to the main loop
    handler         \* where the main loop is in handle_ack

flowVars == <<recorded, left, bytesPending, paused, seqCounter, lastAcked, reader, wire, acks, handler>>

NoChunk == [seq |-> 0, bytes |-> 0]

\* `over` is the comparison record_sent made before it stores `paused`.
At(pc, chunk, over) == [pc |-> pc, chunk |-> chunk, over |-> over]

FlowInit ==
    /\ recorded \in Recorded
    /\ left = Total
    /\ bytesPending = 0
    /\ paused = FALSE
    /\ seqCounter = 0
    /\ lastAcked = 0
    /\ reader = At("check", NoChunk, FALSE)
    /\ wire = <<>>
    /\ acks = <<>>
    /\ handler = "idle"

-----------------------------------------------------------------------------
(* The reader thread *)

Check ==
    /\ reader.pc = "check"
    /\ ~paused
    /\ reader' = At("read", NoChunk, FALSE)
    /\ UNCHANGED <<recorded, left, bytesPending, paused, seqCounter, lastAcked, wire, acks, handler>>

\* reader.read and next_seq.
ReadChunk(n) ==
    /\ reader.pc = "read"
    /\ n <= left /\ n <= ReadChunkSize
    /\ left' = left - n
    /\ seqCounter' = seqCounter + 1
    /\ reader' = At("count", [seq |-> seqCounter, bytes |-> n], FALSE)
    /\ UNCHANGED <<recorded, bytesPending, paused, lastAcked, wire, acks, handler>>

Crosses(bytes) == bytesPending + bytes > High

\* record_sent: fetch_add, with the old value compared to the high watermark.
CountSent ==
    /\ reader.pc = "count"
    /\ bytesPending' = (bytesPending + reader.chunk.bytes) % Width
    /\ reader' = At("pause", reader.chunk, Crosses(reader.chunk.bytes))
    /\ UNCHANGED <<recorded, left, paused, seqCounter, lastAcked, wire, acks, handler>>

PauseNever ==
    /\ reader.pc = "pause"
    /\ reader' = At("send", reader.chunk, FALSE)
    /\ UNCHANGED <<recorded, left, bytesPending, paused, seqCounter, lastAcked, wire, acks, handler>>

\* record_sent: the store.
Pause ==
    /\ reader.pc = "pause"
    /\ paused' = (paused \/ reader.over)
    /\ reader' = At("send", reader.chunk, FALSE)
    /\ UNCHANGED <<recorded, left, bytesPending, seqCounter, lastAcked, wire, acks, handler>>

Send ==
    /\ reader.pc = "send"
    /\ wire' = Append(wire, reader.chunk)
    /\ reader' = At("check", NoChunk, FALSE)
    /\ UNCHANGED <<recorded, left, bytesPending, paused, seqCounter, lastAcked, acks, handler>>

-----------------------------------------------------------------------------
(* The client and the main loop *)

\* The client acknowledges each chunk it has consumed, by its seq and size.
Consume ==
    /\ wire # <<>>
    /\ wire' = Tail(wire)
    /\ acks' = Append(acks, Head(wire))
    /\ UNCHANGED <<recorded, left, bytesPending, paused, seqCounter, lastAcked, reader, handler>>

\* handle_ack as it is: the session is looked up, nothing is recorded.
IgnoreAck ==
    /\ ~recorded
    /\ acks # <<>>
    /\ acks' = Tail(acks)
    /\ UNCHANGED <<recorded, left, bytesPending, paused, seqCounter, lastAcked, reader, wire, handler>>

Monus(a, b) == IF a > b THEN a - b ELSE 0

\* The old value, less the bytes (saturating), against the low watermark.
Resumes(bytes) == Monus(bytesPending, bytes) <= Low

\* ack, then the fetch_sub of record_ack.
RecordAck ==
    /\ recorded
    /\ handler = "idle"
    /\ acks # <<>>
    /\ LET m == Head(acks) IN
         /\ lastAcked' = IF m.seq > lastAcked THEN m.seq ELSE lastAcked
         /\ bytesPending' = (bytesPending - m.bytes) % Width
         /\ handler' = IF Resumes(m.bytes) THEN "resume" ELSE "keep"
    /\ acks' = Tail(acks)
    /\ UNCHANGED <<recorded, left, paused, seqCounter, reader, wire>>

\* record_ack: the store.
Resume ==
    /\ handler # "idle"
    /\ paused' = (IF handler = "resume" THEN FALSE ELSE paused)
    /\ handler' = "idle"
    /\ UNCHANGED <<recorded, left, bytesPending, seqCounter, lastAcked, reader, wire, acks>>

Reader == Check \/ (\E n \in 1..ReadChunkSize : ReadChunk(n)) \/ CountSent \/ Pause \/ Send
HandleAck == IgnoreAck \/ RecordAck \/ Resume

FlowNext == Reader \/ Consume \/ HandleAck

FlowSpec == FlowInit /\ [][FlowNext]_flowVars

\* The child writes all it has, its reader thread, the client and the main loop
\* keep running.
FairFlowSpec == FlowSpec /\ WF_flowVars(Reader) /\ WF_flowVars(Consume) /\ WF_flowVars(HandleAck)

-----------------------------------------------------------------------------
Sum(chunks) ==
    LET sum[i \in 0..Len(chunks)] == IF i = 0 THEN 0 ELSE sum[i - 1] + chunks[i].bytes
    IN  sum[Len(chunks)]

\* Bytes are counted before they are sent, so an Ack takes away what was added:
\* bytes_pending is what is about to be sent, on its way to the client or on its
\* way back. However the two threads interleave, this is never more than the high
\* watermark and the chunk that crossed it, and one chunk more if a late store of
\* record_ack lets it through. Without the stores of record_ack the first is all
\* the output a session ever delivers.
UnackedBounded ==
    /\ recorded => bytesPending = Sum(wire) + Sum(acks)
                             + (IF reader.pc \in {"pause", "send"} THEN reader.chunk.bytes ELSE 0)
    /\ bytesPending <= High + (IF recorded THEN 2 ELSE 1) * ReadChunkSize

-----------------------------------------------------------------------------
(* Said of the program and not kept by it: see README, Disagreements *)

\* "If pending dropped below low watermark, auto-resume": with every Ack
\* handled and no more than Low pending, the reader is not left paused.
AutoResume ==
    reader.pc = "check" /\ handler = "idle" /\ acks = <<>> /\ bytesPending <= Low => ~paused

\* A client that acknowledges all it gets, gets all the child writes.
AllDelivered == <>(left = 0 /\ wire = <<>>)
=============================================================================
