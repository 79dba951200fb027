--------------------------- MODULE ScanResponse ---------------------------
(***************************************************************************)
(* The answer of the `wifi-task' to WifiScan requests                      *)
(* (network/wifi/scan.rs): each waiting request is scanned for, and the    *)
(* access points found are sent in chunks that fill a frame, numbered by   *)
(* the PARAM of the frame.                                                 *)
(*                                                                         *)
(* An access point is the number of bytes it takes in a payload; a frame   *)
(* is its number and the entries first .. last it carries.                 *)
(***************************************************************************)
EXTENDS Integers, Sequences, SequencesExt

CONSTANTS
    Sizes,       \* how long an encoded access point may be
    MaxPayload,  \* MAX_PAYLOAD_SIZE
    FixArray,    \* the longest array whose header takes one byte
    MaxIndex,    \* u8::MAX
    MaxEntries,  \* bound: access points a scan finds
    Limits,      \* values of `limit' in requests
    ScanTime,    \* the longest time a scan takes
    WdtLimit,    \* time after which the watchdog resets the chip
    MaxRequests  \* bound: requests

VARIABLES
    pc,          \* "pass" of the loop around the scans, or "chunks" of an answer
    requests,    \* wifi_scan channel: the limits asked for
    entries,     \* access points of the present scan
    start,       \* how many of them are dealt with
    chunkIndex,
    response,    \* history: the frames of the present answer
    served,      \* history: scans since the task last fed
    unfed,       \* time since the task last fed
    sent         \* requests the master sent

vars == <<pc, requests, entries, start, chunkIndex, response, served, unfed, sent>>

Init ==
    /\ pc = "pass" /\ requests = <<>> /\ entries = <<>>
    /\ start = 0 /\ chunkIndex = 0 /\ response = <<>>
    /\ served = 0 /\ unfed = 0 /\ sent = 0

---------------------------------------------------------------------------
(* wifi_scan::encode: an array of MessagePack, no longer than a frame carries. *)

Header(n) == IF n <= FixArray THEN 1 ELSE 3
PayloadLength(items) == Header(Len(items)) + FoldLeft(+, 0, items)
Fits(items) == PayloadLength(items) <= MaxPayload

Items(first, last) == SubSeq(entries, first, last)

ASSUME SizesAssumption == Sizes \subseteq Nat
ASSUME ItemFits == \A size \in Sizes : Fits(<<size>>)
ASSUME BoundsAssumption == MaxIndex \in Nat /\ MaxEntries \in Nat /\ Limits \subseteq Nat
                           /\ MaxRequests \in Nat
ASSUME TimeAssumption == ScanTime \in Nat /\ WdtLimit \in Nat /\ ScanTime <= WdtLimit

---------------------------------------------------------------------------
(* The task *)

\* wdt.rs: a subscribed task that does not feed in time has the chip reset.
Starved == unfed > WdtLimit

Truncated(found, limit) ==
    IF limit > 0 /\ Len(found) > limit THEN SubSeq(found, 1, limit) ELSE found

\* Seeded defect: nothing found, nothing sent.
Answer_NoneForNothing(list) ==
    /\ entries' = list /\ start' = 0 /\ chunkIndex' = 0
    /\ response' = <<>>
    /\ pc' = IF list = <<>> THEN "pass" ELSE "chunks"

\* Nothing found is answered by one empty array.
Answer(list) ==
    /\ entries' = list /\ start' = 0 /\ chunkIndex' = 0
    /\ response' = IF list = <<>> THEN <<[index |-> 0, first |-> 1, last |-> 0]>> ELSE <<>>
    /\ pc' = IF list = <<>> THEN "pass" ELSE "chunks"

\* One turn of `while let Ok(request)': the scan blocks for its time and feeds
\* nothing; one that fails finds nothing.
Scan ==
    /\ pc = "pass" /\ requests # <<>>
    /\ \E found \in SeqOf(Sizes, MaxEntries) : Answer(Truncated(found, Head(requests)))
    /\ requests' = Tail(requests)
    /\ \E time \in 0 .. ScanTime : unfed' = unfed + time
    /\ served' = served + 1
    /\ UNCHANGED sent

\* Seeded defect: the header of the array is not counted.
LongestFit_NoHeader(end) ==
    /\ \A k \in start + 1 .. end : FoldLeft(+, 0, Items(start + 1, k)) <= MaxPayload
    /\ end < Len(entries) => FoldLeft(+, 0, Items(start + 1, end + 1)) > MaxPayload

\* The inner loop lengthens the chunk until the encoder refuses it.
LongestFit(end) ==
    /\ \A k \in start + 1 .. end : Fits(Items(start + 1, k))
    /\ end < Len(entries) => ~Fits(Items(start + 1, end + 1))

\* Seeded defect: the number of the chunk wraps and nothing stops the answer.
SendChunk_Wraps(end) ==
    /\ response' = Append(response, [index |-> chunkIndex, first |-> start + 1, last |-> end])
    /\ start' = end
    /\ chunkIndex' = (chunkIndex + 1) % (MaxIndex + 1)
    /\ UNCHANGED pc

\* Seeded defect: a plain `+ 1' for the saturating one.
SendChunk_Overflows(end) ==
    /\ response' = Append(response, [index |-> chunkIndex, first |-> start + 1, last |-> end])
    /\ start' = end
    /\ pc' = IF chunkIndex = MaxIndex /\ end < Len(entries) THEN "pass" ELSE "chunks"
    /\ chunkIndex' = chunkIndex + 1

\* The chunk is queued; with more to send and no number left, the answer ends.
SendChunk(end) ==
    /\ response' = Append(response, [index |-> chunkIndex, first |-> start + 1, last |-> end])
    /\ start' = end
    /\ pc' = IF chunkIndex = MaxIndex /\ end < Len(entries) THEN "pass" ELSE "chunks"
    /\ chunkIndex' = IF chunkIndex = MaxIndex THEN MaxIndex ELSE chunkIndex + 1

\* An entry that no frame can carry is skipped.
SkipEntry == start' = start + 1 /\ UNCHANGED <<response, pc, chunkIndex>>

Chunk ==
    /\ pc = "chunks" /\ start < Len(entries)
    /\ \E end \in start .. Len(entries) :
         /\ LongestFit(end)
         /\ IF end = start THEN SkipEntry ELSE SendChunk(end)
    /\ UNCHANGED <<requests, entries, served, unfed, sent>>

AnswerSent ==
    /\ pc = "chunks" /\ start >= Len(entries) /\ pc' = "pass"
    /\ UNCHANGED <<requests, entries, start, chunkIndex, response, served, unfed, sent>>

\* Seeded defect: the loops around do not feed.
Pass_Unfed ==
    /\ pc = "pass" /\ requests = <<>>
    /\ unfed' = unfed /\ served' = 0
    /\ UNCHANGED <<pc, requests, entries, start, chunkIndex, response, sent>>

\* The monitor, the retry wait and the pause of a disabled station: each feeds
\* on its way back to the scans.
Pass ==
    /\ pc = "pass" /\ requests = <<>>
    /\ unfed' = 0 /\ served' = 0
    /\ UNCHANGED <<pc, requests, entries, start, chunkIndex, response, sent>>

---------------------------------------------------------------------------
(* The master and the watchdog *)

SendRequest ==
    /\ sent < MaxRequests /\ sent' = sent + 1
    /\ \E limit \in Limits : requests' = Append(requests, limit)
    /\ UNCHANGED <<pc, entries, start, chunkIndex, response, served, unfed>>

\* The chip restarts: all but what the master has sent is gone.
Reset ==
    /\ Starved
    /\ pc' = "pass" /\ requests' = <<>> /\ entries' = <<>> /\ start' = 0
    /\ chunkIndex' = 0 /\ response' = <<>> /\ served' = 0 /\ unfed' = 0
    /\ UNCHANGED sent

Next ==
    \/ ~Starved /\ (Scan \/ Chunk \/ AnswerSent \/ Pass \/ SendRequest)
    \/ Reset

Spec == Init /\ [][Next]_vars

---------------------------------------------------------------------------
(* Properties *)

FrameType == [index : 0 .. MaxIndex, first : Nat \ {0}, last : Nat]

\* The variables have their types; in particular the number of a chunk stays a
\* u8 also when the last chunk takes the last number.
TypeOK ==
    /\ pc \in {"pass", "chunks"} /\ requests \in Seq(Limits)
    /\ entries \in Seq(Sizes) /\ start \in 0 .. Len(entries)
    /\ chunkIndex \in 0 .. MaxIndex /\ response \in Seq(FrameType)
    /\ served \in Nat /\ unfed \in Nat /\ sent \in Nat

\* The frames of an answer are numbered from 0 without a repetition, and each
\* goes on with the entry after the last of the frame before it.
ChunksInOrder ==
    \A n \in DOMAIN response :
        /\ response[n].index = n - 1
        /\ response[n].first = IF n = 1 THEN 1 ELSE response[n - 1].last + 1

\* Every frame is one the encoder accepts, and none is cut short: the next
\* entry would not have gone into it.
FramesFull ==
    \A n \in DOMAIN response :
        LET f == response[n]
        IN  /\ f.last > 0 => Fits(Items(f.first, f.last))
            /\ f.last < Len(entries) => ~Fits(Items(f.first, f.last + 1))

\* A request that was served got an answer, and the answer reaches the last
\* entry unless the numbers ran out before.
AnswerComplete ==
    pc = "pass" /\ served > 0 =>
        /\ response # <<>>
        /\ \/ response[Len(response)].last = Len(entries)
           \/ response[Len(response)].index = MaxIndex

\* A scan never starves the watchdog on its own; the requests that the master
\* has queued meanwhile may, since the task serves them all before it feeds.
StarvesOnlyInBursts == Starved => served > 1
===========================================================================
