--------------------------- MODULE UartFraming ---------------------------
(***************************************************************************)
(* The receiving half of the UART link: frames as the master writes them   *)
(* (master/protocol.rs encode_packet), a line that may lose, change or     *)
(* invent bytes, the `uart-rx' thread of main.rs that reads the line in    *)
(* chunks of any size, and pop_next_valid_frame, step by step.             *)
(*                                                                         *)
(* Bytes are the real ones, and so are the widths of the header fields and *)
(* of the CRC; only the largest payload and the traffic are bounded.       *)
(***************************************************************************)
EXTENDS Integers, Sequences, SequencesExt

CONSTANTS
    MaxPayload,   \* MAX_PAYLOAD_SIZE
    Crc(_),       \* crc16_ccitt on a sequence of bytes
    Messages,     \* what the master may send: [cmd, parameter, payload]
    NoiseBytes,   \* values a damaged byte may take
    MaxFrames,    \* bound: frames the master sends
    MaxDamage     \* bound: bytes the line damages

ASSUME MaxPayloadAssumption == MaxPayload \in Nat /\ MaxPayload <= 65535
ASSUME BoundsAssumption == MaxFrames \in Nat /\ MaxDamage \in Nat

VARIABLES
    sent,        \* frames written by the master
    wire,        \* bytes on the line, not read yet
    received,    \* history: every byte read so far
    lastDamage,  \* history: where in the stream the last damage is, or 0
    damages,     \* how many bytes were damaged
    rxBuf,       \* stream_buf
    delivered,   \* frames sent to the main loop, in order
    pc           \* "read", or "scan" inside pop_next_valid_frame

vars == <<sent, wire, received, lastDamage, damages, rxBuf, delivered, pc>>

SOF == 170
MIN_FRAME_SIZE == 7
Byte == 0 .. 255

\* What encode_packet accepts, and what a line can turn a byte into.
ASSUME MessagesAssumption ==
    \A m \in Messages : /\ m.cmd \in Byte /\ m.parameter \in Byte
                        /\ m.payload \in Seq(Byte) /\ Len(m.payload) <= MaxPayload
ASSUME NoiseAssumption == NoiseBytes \subseteq Byte

\* u16 in little-endian order
Lo(n) == n % 256
Hi(n) == n \div 256
U16(lo, hi) == lo + 256 * hi

\* encode_packet, for a payload it accepts
Encode(m) ==
    LET body == <<SOF, Lo(Len(m.payload)), Hi(Len(m.payload)), m.cmd, m.parameter>>
                \o m.payload
    IN body \o <<Lo(Crc(body)), Hi(Crc(body))>>

\* The length that bytes p + 1 and p + 2 of s claim for the frame at p.
ClaimedPayload_BigEndian(s, p) == U16(s[p + 2], s[p + 1])   \* seeded defect
ClaimedPayload(s, p) == U16(s[p + 1], s[p + 2])
ClaimedSize(s, p) == MIN_FRAME_SIZE + ClaimedPayload(s, p)
LengthAllowed_Any(n) == TRUE      \* seeded defect: no limit
LengthAllowed(n) == n <= MaxPayload

\* Seeded defect: the checksum is not compared.
Valid_NoCrc(f) ==
    /\ Len(f) >= MIN_FRAME_SIZE /\ f[1] = SOF
    /\ LengthAllowed(ClaimedPayload(f, 1)) /\ Len(f) = ClaimedSize(f, 1)

\* decode_packet accepts the frame f that pop_next_valid_frame cut out
Valid(f) ==
    LET n == Len(f) IN
      /\ n >= MIN_FRAME_SIZE /\ f[1] = SOF
      /\ LengthAllowed(ClaimedPayload(f, 1)) /\ n = ClaimedSize(f, 1)
      /\ U16(f[n - 1], f[n]) = Crc(SubSeq(f, 1, n - 2))

Init ==
    /\ sent = <<>> /\ wire = <<>> /\ received = <<>>
    /\ lastDamage = 0 /\ damages = 0
    /\ rxBuf = <<>> /\ delivered = <<>> /\ pc = "read"

---------------------------------------------------------------------------
(* The master and the line *)

MasterSends(m) ==
    /\ Len(sent) < MaxFrames
    /\ \E f \in {Encode(m)} : sent' = Append(sent, f) /\ wire' = wire \o f
    /\ UNCHANGED <<received, lastDamage, damages, rxBuf, delivered, pc>>

\* Byte k of the line is lost, replaced, or preceded by one that nobody sent.
LineDamages(k) ==
    /\ damages < MaxDamage /\ damages' = damages + 1
    /\ \/ wire' = RemoveAt(wire, k)
       \/ \E b \in NoiseBytes \ {wire[k]} : wire' = ReplaceAt(wire, k, b)
       \/ \E b \in NoiseBytes : wire' = InsertAt(wire, k, b)
    /\ LET here == Len(received) + k
           moved == lastDamage + Len(wire') - Len(wire)
       IN  lastDamage' = IF here > moved THEN here ELSE moved
    /\ UNCHANGED <<sent, received, rxBuf, delivered, pc>>

---------------------------------------------------------------------------
(* The uart-rx thread *)

\* read returned n bytes, which join stream_buf.
ReadChunk(n) ==
    /\ pc = "read"
    /\ rxBuf' = rxBuf \o SubSeq(wire, 1, n)
    /\ received' = received \o SubSeq(wire, 1, n)
    /\ wire' = SubSeq(wire, n + 1, Len(wire))
    /\ pc' = "scan"
    /\ UNCHANGED <<sent, lastDamage, damages, delivered>>

\* How many bytes of the buffer precede the first SOF.
Noise(buf) ==
    LET i == SelectInSeq(buf, LAMBDA b : b = SOF) IN IF i = 0 THEN Len(buf) ELSE i - 1
AtSof(buf) == Noise(buf) = 0

\* drain(..n) inside pop_next_valid_frame
Drain(n) == rxBuf' = SubSeq(rxBuf, n + 1, Len(rxBuf))

\* Everything before the first SOF is dropped.
SkipNoise ==
    /\ pc = "scan" /\ ~AtSof(rxBuf)
    /\ Drain(Noise(rxBuf))
    /\ UNCHANGED <<sent, wire, received, lastDamage, damages, delivered, pc>>

HeaderRead == pc = "scan" /\ AtSof(rxBuf) /\ Len(rxBuf) >= MIN_FRAME_SIZE

\* Seeded defect: one byte more than the claimed size is waited for.
AwaitBytes_OneMore ==
    /\ \/ pc = "scan" /\ AtSof(rxBuf) /\ Len(rxBuf) < MIN_FRAME_SIZE
       \/ /\ HeaderRead /\ LengthAllowed(ClaimedPayload(rxBuf, 1))
          /\ Len(rxBuf) <= ClaimedSize(rxBuf, 1)
    /\ pc' = "read"
    /\ UNCHANGED <<sent, wire, received, lastDamage, damages, rxBuf, delivered>>

\* `return None': not enough bytes for any frame, or for the claimed one.
AwaitBytes ==
    /\ \/ pc = "scan" /\ AtSof(rxBuf) /\ Len(rxBuf) < MIN_FRAME_SIZE
       \/ /\ HeaderRead /\ LengthAllowed(ClaimedPayload(rxBuf, 1))
          /\ Len(rxBuf) < ClaimedSize(rxBuf, 1)
    /\ pc' = "read"
    /\ UNCHANGED <<sent, wire, received, lastDamage, damages, rxBuf, delivered>>

\* A length no frame has: the SOF was none.
RejectLength ==
    /\ HeaderRead /\ ~LengthAllowed(ClaimedPayload(rxBuf, 1))
    /\ Drain(1)
    /\ UNCHANGED <<sent, wire, received, lastDamage, damages, delivered, pc>>

CandidateRead ==
    /\ HeaderRead /\ LengthAllowed(ClaimedPayload(rxBuf, 1))
    /\ Len(rxBuf) >= ClaimedSize(rxBuf, 1)

Candidate == SubSeq(rxBuf, 1, ClaimedSize(rxBuf, 1))

\* Seeded defect: the buffer is cleared after a frame.
DeliverFrame_Clear ==
    /\ CandidateRead /\ Valid(Candidate)
    /\ rxBuf' = <<>>
    /\ delivered' = Append(delivered, Candidate)
    /\ UNCHANGED <<sent, wire, received, lastDamage, damages, pc>>

\* Seeded defect: the frame is copied out of the buffer and left in it.
DeliverFrame_Keep ==
    /\ CandidateRead /\ Valid(Candidate)
    /\ delivered' = Append(delivered, Candidate)
    /\ UNCHANGED <<sent, wire, received, lastDamage, damages, rxBuf, pc>>

DeliverFrame ==
    /\ CandidateRead /\ Valid(Candidate)
    /\ Drain(Len(Candidate))
    /\ delivered' = Append(delivered, Candidate)
    /\ UNCHANGED <<sent, wire, received, lastDamage, damages, pc>>

\* A candidate that decode_packet refuses is dropped whole.
DropCandidate ==
    /\ CandidateRead /\ ~Valid(Candidate)
    /\ Drain(Len(Candidate))
    /\ UNCHANGED <<sent, wire, received, lastDamage, damages, delivered, pc>>

Next ==
    \/ \E m \in Messages : MasterSends(m)
    \/ \E k \in 1 .. Len(wire) : LineDamages(k)
    \/ \E n \in 1 .. Len(wire) : ReadChunk(n)
    \/ SkipNoise \/ AwaitBytes \/ RejectLength \/ DeliverFrame \/ DropCandidate

Spec == Init /\ [][Next]_vars

---------------------------------------------------------------------------
(* Properties *)

\* What may wait for more bytes: a frame that is not complete.
Unfinished(buf) ==
    /\ AtSof(buf)
    /\ Len(buf) >= MIN_FRAME_SIZE =>
         ClaimedPayload(buf, 1) <= MaxPayload /\ Len(buf) < ClaimedSize(buf, 1)

\* Buffers hold bytes, the cursor of the damage is in the stream, and after a
\* scan nothing is left that the scan should have used up.
TypeOK ==
    /\ sent \in Seq(Seq(Byte))
    /\ wire \in Seq(Byte) /\ received \in Seq(Byte) /\ rxBuf \in Seq(Byte)
    /\ lastDamage \in 0 .. Len(received) + Len(wire) + 1
    /\ damages \in 0 .. MaxDamage
    /\ delivered \in Seq(Seq(Byte))
    /\ pc \in {"read", "scan"}
    /\ pc = "read" => Unfinished(rxBuf)

\* The reference: one pass over the whole stream s, by position.  Parse[p] is
\* the frames found from p on and where the unfinished rest starts.
ReferenceParse(s) ==
    LET more(p) == Len(s) - p + 1
        Parse[p \in 1 .. Len(s) + 1] ==
          IF more(p) = 0 THEN [frames |-> <<>>, rest |-> p]
          ELSE IF s[p] # SOF THEN Parse[p + 1]
          ELSE IF more(p) < MIN_FRAME_SIZE THEN [frames |-> <<>>, rest |-> p]
          ELSE IF ClaimedPayload(s, p) > MaxPayload THEN Parse[p + 1]
          ELSE IF more(p) < ClaimedSize(s, p) THEN [frames |-> <<>>, rest |-> p]
          ELSE LET f == SubSeq(s, p, p + ClaimedSize(s, p) - 1)
                   after == Parse[p + Len(f)]
               IN [frames |-> IF Valid(f) THEN <<f>> \o after.frames ELSE after.frames,
                   rest |-> after.rest]
    IN Parse[1]

\* How the bytes are cut into reads does not matter: whenever the thread waits
\* for bytes, it has delivered exactly the frames that one pass over all the
\* bytes received so far finds, and keeps exactly the unfinished rest.
ChunkingInvisible ==
    pc = "read" =>
        LET ref == ReferenceParse(received) IN
          /\ delivered = ref.frames
          /\ rxBuf = SubSeq(received, ref.rest, Len(received))

\* On an undamaged line every message arrives once and in order, whatever bytes
\* its payload contains, and none waits for bytes of a later one.
CleanLineDelivers ==
    damages = 0 =>
        /\ IsPrefix(delivered, sent)
        /\ pc = "read" /\ wire = <<>> => delivered = sent

\* Where the frames q start, one after the other, if the last ends before `end'.
StartsOf(q, end) ==
    LET start[k \in 1 .. Len(q) + 1] ==
          IF k > Len(q) THEN end ELSE start[k + 1] - Len(q[k])
    IN  start

\* Where in the stream each frame of the master starts, counted from the end:
\* what the line did to the bytes before it does not matter.
Stream == received \o wire
FrameStart == StartsOf(sent, Len(Stream) + 1)

\* The byte after the last damage that the swallowing of one candidate cannot
\* reach any more; every frame from there on survives.
SofFree == \A k \in 1 .. Len(sent) : \A j \in 2 .. Len(sent[k]) : sent[k][j] # SOF
OutOfReach == lastDamage + MIN_FRAME_SIZE + MaxPayload

\* Damage is contained: of messages without an SOF inside, all those whose frame
\* starts out of reach of the damage are delivered, in order, at the end of what
\* is delivered.
DamageContained ==
    SofFree /\ pc = "read" /\ wire = <<>> =>
        \A k \in 1 .. Len(sent) : FrameStart[k] >= OutOfReach =>
            LET n == Len(sent) - k + 1 IN
              /\ Len(delivered) >= n
              /\ SubSeq(delivered, Len(delivered) - n + 1, Len(delivered))
                   = SubSeq(sent, k, Len(sent))

\* What the bytes of s claim to be a frame at p, and whether s holds all of it.
FrameAt(s, p) == SubSeq(s, p, p + ClaimedSize(s, p) - 1)
Complete(s, p) ==
    p + MIN_FRAME_SIZE <= Len(s) + 1 /\ s[p] = SOF /\ p + ClaimedSize(s, p) <= Len(s) + 1

\* The CRC does its part: what starts no later than the last damage and checks out
\* is, each in its turn, one of the frames that started there.
DamageDetected ==
    SofFree =>
        LET s == Stream
            start == FrameStart
            valid == {p \in 1 .. lastDamage : Complete(s, p) /\ Valid(FrameAt(s, p))}
        IN  \E from \in [valid -> 1 .. Len(sent)] : \A p \in valid :
              /\ FrameAt(s, p) = sent[from[p]] /\ start[from[p]] <= lastDamage
              /\ \A q \in valid : p < q => from[p] < from[q]

\* Damage loses messages but never makes one up, repeats one or changes the order:
\* of frames without an SOF inside, what is delivered is what was sent, with some
\* left out.
NothingForged ==
    SofFree =>
        \E from \in [1 .. Len(delivered) -> 1 .. Len(sent)] :
          \A i \in 1 .. Len(delivered) :
            delivered[i] = sent[from[i]] /\ \A j \in 1 .. i - 1 : from[j] < from[i]
===========================================================================
