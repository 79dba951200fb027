----------------------- MODULE ScanResponse_proofs -----------------------
(* Proofs about ScanResponse: for access points of any size a frame can    *)
(* carry, any number of them, any payload limit and any range of chunk     *)
(* numbers.                                                                *)
EXTENDS ScanResponse, SequenceTheorems, TLAPS

---------------------------------------------------------------------------
(* The loop invariant of send_wifi_scan_chunks.                            *)

LastFrame == response[Len(response)]

Progress ==
    /\ response # <<>> => LastFrame.last = start
    /\ response = <<>> => start = 0
    /\ pc = "chunks" =>
         \/ Len(response) <= MaxIndex /\ chunkIndex = Len(response)
         \/ Len(response) = MaxIndex + 1 /\ start = Len(entries)
    /\ pc = "chunks" => entries # <<>>

Inv == TypeOK /\ Progress /\ ChunksInOrder /\ FramesFull /\ AnswerComplete

LEMMA FoundIsSeq ==
    ASSUME NEW found \in SeqOf(Sizes, MaxEntries)
    PROVE  found \in Seq(Sizes)
  <1>1. PICK m \in 0 .. MaxEntries : found \in [1 .. m -> Sizes]
    BY DEF SeqOf
  <1>2. m \in Nat
    BY <1>1, BoundsAssumption
  <1>. QED  BY <1>1, <1>2, SeqDef

LEMMA TruncatedIsSeq ==
    ASSUME NEW found \in Seq(Sizes), NEW limit \in Nat
    PROVE  Truncated(found, limit) \in Seq(Sizes)
  BY DEF Truncated

\* An entry always goes into a chunk: the inner loop does not stay where it is.
LEMMA ChunkAdvances ==
    ASSUME TypeOK, start < Len(entries), NEW end \in start .. Len(entries), LongestFit(end)
    PROVE  end > start
  <1>. SUFFICES ASSUME end = start PROVE FALSE
    BY DEF TypeOK
  <1>1. start + 1 \in 1 .. Len(entries) /\ entries \in Seq(Sizes)
    BY DEF TypeOK
  <1>2. Items(start + 1, start + 1) = <<entries[start + 1]>> /\ entries[start + 1] \in Sizes
    <2>. DEFINE i == start + 1
    <2>1. i \in 1 .. Len(entries)
      BY <1>1
    <2>2. SubSeq(entries, i, i) = <<entries[i]>> /\ entries[i] \in Sizes
      <3>. HIDE DEF i
      <3>1. SubSeq(entries, i, i) = [k \in 1 .. 1 |-> entries[i]]
        BY <2>1, <1>1
      <3>. QED  BY <3>1, <2>1, <1>1
    <2>. QED  BY <2>2 DEF Items
  <1>3. Fits(Items(start + 1, end + 1))
    BY <1>2, ItemFits
  <1>. QED  BY <1>3 DEF LongestFit

LEMMA ScanInit == Init => Inv
  BY BoundsAssumption DEF Init, Inv, TypeOK, Progress, ChunksInOrder, FramesFull, AnswerComplete

LEMMA AnswerKeeps ==
    ASSUME Inv, NEW list \in Seq(Sizes), Answer(list), served' \in Nat, unfed' \in Nat,
           requests' \in Seq(Limits), sent' \in Nat
    PROVE  Inv'
  <1>1. CASE list = <<>>
    <2>. DEFINE f == [index |-> 0, first |-> 1, last |-> 0]
    <2>1. entries' = <<>> /\ start' = 0 /\ chunkIndex' = 0 /\ response' = <<f>> /\ pc' = "pass"
      BY <1>1 DEF Answer
    <2>2. f \in FrameType /\ f.index = 0 /\ f.first = 1 /\ f.last = 0
      BY BoundsAssumption DEF FrameType
    <2>. HIDE DEF f
    <2>3. TypeOK'
      BY <2>1, <2>2, BoundsAssumption DEF TypeOK
    <2>4. Progress' /\ AnswerComplete'
      BY <2>1, <2>2 DEF Progress, LastFrame, AnswerComplete
    <2>5. ChunksInOrder' /\ FramesFull'
      BY <2>1, <2>2 DEF ChunksInOrder, FramesFull
    <2>. QED  BY <2>3, <2>4, <2>5 DEF Inv
  <1>2. CASE list # <<>>
    <2>1. entries' = list /\ start' = 0 /\ chunkIndex' = 0 /\ response' = <<>> /\ pc' = "chunks"
      BY <1>2 DEF Answer
    <2>2. TypeOK'
      BY <2>1, BoundsAssumption DEF TypeOK
    <2>3. Progress'
      BY <2>1, <1>2, BoundsAssumption DEF Progress
    <2>4. ChunksInOrder' /\ FramesFull' /\ AnswerComplete'
      BY <2>1 DEF ChunksInOrder, FramesFull, AnswerComplete
    <2>. QED  BY <2>2, <2>3, <2>4 DEF Inv
  <1>. QED  BY <1>1, <1>2

LEMMA ChunkKeeps ==
    ASSUME Inv, Chunk
    PROVE  Inv'
  <1>1. PICK end \in start .. Len(entries) :
          LongestFit(end) /\ IF end = start THEN SkipEntry ELSE SendChunk(end)
    BY DEF Chunk
  <1>2. /\ pc = "chunks" /\ start < Len(entries)
        /\ UNCHANGED <<requests, entries, served, unfed, sent>>
    BY DEF Chunk
  <1>t. /\ TypeOK /\ entries \in Seq(Sizes) /\ start \in Nat /\ response \in Seq(FrameType)
        /\ chunkIndex \in 0 .. MaxIndex /\ MaxIndex \in Nat
    BY BoundsAssumption DEF Inv, TypeOK
  <1>3. end > start /\ end \in Nat /\ end <= Len(entries)
    BY <1>1, <1>2, <1>t, ChunkAdvances
  <1>4. SendChunk(end)
    BY <1>1, <1>3, <1>t
  <1>. DEFINE f == [index |-> chunkIndex, first |-> start + 1, last |-> end]
  <1>5. f \in FrameType /\ f.index = chunkIndex /\ f.first = start + 1 /\ f.last = end
    BY <1>3, <1>t DEF FrameType
  <1>6. /\ response' = Append(response, f) /\ start' = end
        /\ pc' = IF chunkIndex = MaxIndex /\ end < Len(entries) THEN "pass" ELSE "chunks"
        /\ chunkIndex' = IF chunkIndex = MaxIndex THEN MaxIndex ELSE chunkIndex + 1
    BY <1>4 DEF SendChunk
  <1>. HIDE DEF f
  <1>7. /\ response' \in Seq(FrameType) /\ response' # <<>> /\ Len(response') = Len(response) + 1
        /\ response'[Len(response')] = f /\ DOMAIN response' = 1 .. Len(response) + 1
        /\ DOMAIN response = 1 .. Len(response)
        /\ \A n \in 1 .. Len(response) : response'[n] = response[n]
    BY <1>5, <1>6, <1>t
  <1>8. Len(response) <= MaxIndex /\ chunkIndex = Len(response) /\ entries # <<>>
    BY <1>2, <1>t DEF Inv, Progress
  <1>9. TypeOK'
    BY <1>2, <1>3, <1>6, <1>7, <1>t DEF TypeOK
  <1>10. Progress'
    <2>1. LastFrame'.last = start'
      BY <1>5, <1>6, <1>7 DEF LastFrame
    <2>2. pc' = "chunks" => \/ Len(response') <= MaxIndex /\ chunkIndex' = Len(response')
                            \/ Len(response') = MaxIndex + 1 /\ start' = Len(entries')
      <3>1. Len(response) \in Nat /\ Len(entries) \in Nat /\ entries' = entries
        BY <1>2, <1>t
      <3>2. CASE chunkIndex = MaxIndex
        <4>1. pc' = "chunks" => end = Len(entries)
          BY <3>1, <3>2, <1>3, <1>6
        <4>2. Len(response') = MaxIndex + 1
          BY <3>2, <1>7, <1>8
        <4>. QED  BY <4>1, <4>2, <3>1, <1>6
      <3>3. CASE chunkIndex # MaxIndex
        <4>1. chunkIndex' = chunkIndex + 1
          BY <3>3, <1>6
        <4>2. Len(response') = Len(response) + 1 /\ chunkIndex = Len(response)
          BY <1>7, <1>8
        <4>3. chunkIndex \in 0 .. MaxIndex /\ MaxIndex \in Nat
          BY <1>t
        <4>4. Len(response) + 1 <= MaxIndex
          BY <4>2, <4>3, <3>3
        <4>5. Len(response') <= MaxIndex /\ chunkIndex' = Len(response')
          BY <4>1, <4>2, <4>4
        <4>. QED  BY <4>5
      <3>. QED  BY <3>2, <3>3
    <2>. QED  BY <2>1, <2>2, <1>2, <1>7, <1>8 DEF Progress
  <1>11. ChunksInOrder'
    <2>1. ASSUME NEW n \in 1 .. Len(response) + 1
          PROVE  /\ response'[n].index = n - 1
                 /\ response'[n].first = IF n = 1 THEN 1 ELSE response'[n - 1].last + 1
      <3>1. CASE n = Len(response) + 1
        <4>1. response'[n] = f
          BY <3>1, <1>7
        <4>2. CASE n = 1
          BY <4>1, <4>2, <3>1, <1>5, <1>8, <1>t DEF Inv, Progress
        <4>3. CASE n # 1
          <5>1. response'[n - 1] = LastFrame /\ response # <<>>
            BY <4>3, <3>1, <1>7, <1>t DEF LastFrame
          <5>. QED  BY <5>1, <4>1, <4>3, <3>1, <1>5, <1>8, <1>t DEF Inv, Progress
        <4>. QED  BY <4>2, <4>3
      <3>2. CASE n \in 1 .. Len(response)
        <4>1. response'[n] = response[n] /\ (n # 1 => response'[n - 1] = response[n - 1])
          BY <3>2, <1>7, <1>t
        <4>2. n \in DOMAIN response
          BY <3>2, <1>t
        <4>. QED  BY <4>1, <4>2 DEF ChunksInOrder, Inv
      <3>. QED  BY <2>1, <3>1, <3>2, <1>t
    <2>. QED  BY <2>1, <1>7 DEF ChunksInOrder
  <1>12. FramesFull'
    <2>1. Fits(Items(f.first, f.last))
      <3>1. end \in start + 1 .. end
        BY <1>3, <1>t
      <3>. QED  BY <3>1, <1>1, <1>5 DEF LongestFit
    <2>2. f.last < Len(entries) => ~Fits(Items(f.first, f.last + 1))
      BY <1>1, <1>5 DEF LongestFit
    <2>3. \A a, b : Items(a, b)' = Items(a, b)
      BY <1>2 DEF Items
    <2>4. \A n \in DOMAIN response : response'[n] = response[n]
      BY <1>7
    <2>5. \A n \in DOMAIN response' : n \in DOMAIN response \/ response'[n] = f
      BY <1>7, <1>t
    <2>. QED  BY <2>1, <2>2, <2>3, <2>4, <2>5, <1>2 DEF FramesFull, Inv, Items
  <1>13. AnswerComplete'
    BY <1>5, <1>6, <1>7 DEF AnswerComplete
  <1>. QED  BY <1>9, <1>10, <1>11, <1>12, <1>13 DEF Inv

\* Steps that leave the answer alone.
LEMMA AnswerUntouched ==
    ASSUME Inv, TypeOK', UNCHANGED <<entries, start, chunkIndex, response, pc>>,
           served' > 0 => served > 0
    PROVE  Inv'
  BY DEF Inv, Progress, LastFrame, ChunksInOrder, FramesFull, Items, AnswerComplete

LEMMA ScanStep == Inv /\ [Next]_vars => Inv'
  <1>. SUFFICES ASSUME Inv, [Next]_vars PROVE Inv'
    OBVIOUS
  <1>t. TypeOK
    BY DEF Inv
  <1>1. CASE Scan
    <2>1. PICK found \in SeqOf(Sizes, MaxEntries) : Answer(Truncated(found, Head(requests)))
      BY <1>1 DEF Scan
    <2>2. PICK time \in 0 .. ScanTime : unfed' = unfed + time
      BY <1>1 DEF Scan
    <2>3. /\ requests # <<>> /\ requests' = Tail(requests)
          /\ served' = served + 1 /\ sent' = sent
      BY <1>1 DEF Scan
    <2>4. requests' \in Seq(Limits) /\ Head(requests) \in Nat
      <3>1. requests \in Seq(Limits) /\ requests # <<>>
        BY <2>3, <1>t DEF TypeOK
      <3>2. Head(requests) \in Limits /\ Tail(requests) \in Seq(Limits)
        BY <3>1
      <3>. QED  BY <3>2, <2>3, BoundsAssumption
    <2>5. Truncated(found, Head(requests)) \in Seq(Sizes)
      BY <2>4, FoundIsSeq, TruncatedIsSeq
    <2>6. served' \in Nat /\ unfed' \in Nat /\ sent' \in Nat
      BY <2>2, <2>3, <1>t, TimeAssumption DEF TypeOK
    <2>. QED  BY <2>1, <2>4, <2>5, <2>6, AnswerKeeps
  <1>2. CASE Chunk
    BY <1>2, ChunkKeeps
  <1>3. CASE AnswerSent
    <2>1. /\ pc = "chunks" /\ start >= Len(entries) /\ pc' = "pass"
          /\ UNCHANGED <<requests, entries, start, chunkIndex, response, served, unfed, sent>>
      BY <1>3 DEF AnswerSent
    <2>2. TypeOK'
      BY <2>1, <1>t DEF TypeOK
    <2>3. entries \in Seq(Sizes) /\ start = Len(entries) /\ entries # <<>>
      BY <2>1, <1>t DEF TypeOK, Inv, Progress
    <2>4. Len(entries) > 0
      BY <2>3
    <2>5. Progress' /\ AnswerComplete'
      BY <2>1, <2>3, <2>4 DEF Inv, Progress, LastFrame, AnswerComplete
    <2>6. ChunksInOrder' /\ FramesFull'
      BY <2>1 DEF Inv, ChunksInOrder, FramesFull, Items
    <2>. QED  BY <2>2, <2>5, <2>6 DEF Inv
  <1>4. CASE Pass
    <2>1. TypeOK'
      BY <1>4, <1>t DEF Pass, TypeOK
    <2>. QED  BY <2>1, <1>4, AnswerUntouched DEF Pass
  <1>5. CASE SendRequest
    <2>1. requests' \in Seq(Limits) /\ sent' \in Nat
      BY <1>5, <1>t DEF SendRequest, TypeOK
    <2>2. TypeOK'
      BY <2>1, <1>5, <1>t DEF SendRequest, TypeOK
    <2>. QED  BY <2>2, <1>5, AnswerUntouched DEF SendRequest
  <1>6. CASE Reset
    BY <1>6, <1>t, BoundsAssumption
       DEF Reset, Inv, TypeOK, Progress, ChunksInOrder, FramesFull, AnswerComplete
  <1>7. CASE UNCHANGED vars
    <2>1. TypeOK'
      BY <1>7, <1>t DEF vars, TypeOK
    <2>. QED  BY <2>1, <1>7, AnswerUntouched DEF vars
  <1>. QED  BY <1>1, <1>2, <1>3, <1>4, <1>5, <1>6, <1>7 DEF Next

LEMMA ScanInvariant == Spec => []Inv
  BY ScanInit, ScanStep, PTL DEF Spec

\* The variables keep their types; the chunk number never leaves a u8.
THEOREM ScanTypeCorrect == Spec => []TypeOK
  BY ScanInvariant, PTL DEF Inv

\* The chunks of an answer are numbered from 0 and go on where the last ended.
THEOREM ScanChunksInOrder == Spec => []ChunksInOrder
  BY ScanInvariant, PTL DEF Inv

\* Every chunk fits into a frame and is as long as it can be.
THEOREM ScanFramesFull == Spec => []FramesFull
  BY ScanInvariant, PTL DEF Inv

\* Every request is answered, and to the last entry while the numbers last.
THEOREM ScanAnswerComplete == Spec => []AnswerComplete
  BY ScanInvariant, PTL DEF Inv

---------------------------------------------------------------------------
(* The time without a feed is at most that of the scans since the last.    *)

Ledger == unfed <= served * ScanTime

LEMMA LedgerStep == TypeOK /\ Ledger /\ [Next]_vars => Ledger'
  <1>. SUFFICES ASSUME TypeOK, Ledger, [Next]_vars PROVE Ledger'
    OBVIOUS
  <1>t. served \in Nat /\ unfed \in Nat /\ ScanTime \in Nat
    BY TimeAssumption DEF TypeOK
  <1>1. CASE Scan
    <2>1. PICK time \in 0 .. ScanTime : unfed' = unfed + time
      BY <1>1 DEF Scan
    <2>2. served' = served + 1
      BY <1>1 DEF Scan
    <2>3. (served + 1) * ScanTime = served * ScanTime + ScanTime
      BY <1>t
    <2>4. served * ScanTime \in Nat
      BY <1>t
    <2>. QED  BY <2>1, <2>2, <2>3, <2>4, <1>t DEF Ledger
  <1>2. CASE Chunk
    BY <1>2 DEF Chunk, Ledger
  <1>3. CASE AnswerSent
    BY <1>3 DEF AnswerSent, Ledger
  <1>4. CASE Pass
    BY <1>4, <1>t DEF Pass, Ledger
  <1>5. CASE SendRequest
    BY <1>5 DEF SendRequest, Ledger
  <1>6. CASE Reset
    BY <1>6, <1>t DEF Reset, Ledger
  <1>7. CASE UNCHANGED vars
    BY <1>7 DEF vars, Ledger
  <1>. QED  BY <1>1, <1>2, <1>3, <1>4, <1>5, <1>6, <1>7 DEF Next

\* The watchdog fires on no single scan, only on several that were queued.
THEOREM ScanStarvesOnlyInBursts == Spec => []StarvesOnlyInBursts
  <1>1. Init => Ledger
    BY TimeAssumption DEF Init, Ledger
  <1>2. TypeOK /\ Ledger => StarvesOnlyInBursts
    <2>. SUFFICES ASSUME TypeOK, Ledger, Starved PROVE served > 1
      BY DEF StarvesOnlyInBursts
    <2>1. served \in Nat /\ unfed \in Nat /\ ScanTime \in Nat /\ WdtLimit \in Nat
          /\ ScanTime <= WdtLimit /\ unfed > WdtLimit
      BY TimeAssumption DEF TypeOK, Starved
    <2>2. CASE served = 0
      BY <2>1, <2>2 DEF Ledger
    <2>3. CASE served = 1
      BY <2>1, <2>3 DEF Ledger
    <2>. QED  BY <2>1, <2>2, <2>3
  <1>. QED  BY <1>1, <1>2, LedgerStep, ScanTypeCorrect, PTL DEF Spec
===========================================================================
