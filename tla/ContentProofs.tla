----------------------------- MODULE ContentProofs -----------------------------
(***************************************************************************)
(* Theorems about the panorama's content, for every crop, stride and set   *)
(* of quantizers, every list of buffers and every list of packets.         *)
(*                                                                         *)
(* The cursor: every round of a read leaves the place consistent and has   *)
(* copied the bytes up to it, so the last round does (CursorStep).  The    *)
(* frames: what was got, what waits and what the decoder holds are, in     *)
(* this order, what is wanted of the packets read so far (FramesInv).      *)
(*                                                                         *)
(* The commands: before a batch all tiles with lower numbers are there,    *)
(* before a tile is packaged all those whose turn came earlier (FilesInv). *)
(* While documents are merged the sets are in the order of the coordinates *)
(* and none is behind a coordinate still to come, so that a new set is     *)
(* made for a new coordinate only; what has a place in the document is     *)
(* what was read (MergeInv).  The document is then final, and each task of *)
(* the parser leaves what it says, whatever ran before it (IndexInv).      *)
(***************************************************************************)
EXTENDS Content, SequenceFacts

---------------------------------------------------------------------------------
(* The cursor over the list of buffers.                                    *)

Buffers == 1..Len(Sizes)

LEMMA BufferSizes ==
    /\ Len(Sizes) \in Nat
    /\ Sizes \in [Buffers -> Nat \ {0}]
BY ContentAssumption, LenProperties DEF Segment!CursorAssumption, Buffers

(* The sums of the sizes.                                                  *)
LEMMA PartialSums ==
    /\ Segment!Partial[0] = 0
    /\ \A i \in Buffers : Segment!Partial[i] = Segment!Partial[i - 1] + Sizes[i]
    /\ \A i \in 0..Len(Sizes) : Segment!Partial[i] \in Nat
<1> DEFINE N == Len(Sizes)
<1> DEFINE step == [i \in 1..N |-> [s \in Nat |-> s + Sizes[i]]]
<1> DEFINE IsSum(g) == g = [i \in 0..N |-> IF i = 0 THEN 0 ELSE g[i - 1] + Sizes[i]]
<1>0. N \in Nat /\ \A i \in 1..N : Sizes[i] \in Nat
  BY BufferSizes DEF Buffers
<1> HIDE DEF N
<1>1. step \in [1..N -> [Nat -> Nat]]
  BY <1>0
<1>2. PICK g \in [0..N -> Nat] : Stepwise(g, N, 0, step)
  <2> HIDE DEF step
  <2>1. 0 \in Nat
    OBVIOUS
  <2> QED BY <1>0, <1>1, <2>1, Recursion
<1>3. IsSum(g)
  <2>1. ASSUME NEW i \in 1..N PROVE g[i] = g[i - 1] + Sizes[i]
    <3>1. i - 1 \in 0..N /\ g[i - 1] \in Nat
      BY <1>0
    <3>2. g[i] = step[i][g[i - 1]]
      BY <1>2 DEF Stepwise
    <3> QED BY <3>1, <3>2
  <2>2. \A i \in 0..N : i = 0 \/ i \in 1..N
    BY <1>0
  <2>3. g[0] = 0 /\ g = [i \in 0..N |-> g[i]]
    BY <1>2 DEF Stepwise
  <2> HIDE DEF step
  <2> QED BY <2>1, <2>2, <2>3
<1>4. IsSum(Segment!Partial)
  BY <1>3 DEF Segment!Partial, N
<1>5. /\ Segment!Partial[0] = 0
      /\ \A i \in 1..N : Segment!Partial[i] = Segment!Partial[i - 1] + Sizes[i]
  <2>1. 0 \in 0..N /\ \A i \in 1..N : i \in 0..N /\ i # 0
    BY <1>0
  <2> HIDE DEF step
  <2> QED BY <1>4, <2>1
<1>6. \A i \in 0..N : Segment!Partial[i] \in Nat
  <2>1. Segment!Partial[0] \in Nat
    BY <1>5
  <2>2. ASSUME NEW i \in 1..N, Segment!Partial[i - 1] \in Nat PROVE Segment!Partial[i] \in Nat
    <3>1. Segment!Partial[i] = Segment!Partial[i - 1] + Sizes[i] /\ Sizes[i] \in Nat
      BY <1>0, <1>5
    <3> QED BY <2>2, <3>1
  <2> QED BY <1>0, <2>1, <2>2, ValuesIn
<1> QED BY <1>5, <1>6 DEF N, Buffers

(* What lies before a buffer, and before the end of the list.              *)
LEMMA BytesBefore ==
    /\ Segment!End = Len(Sizes) + 1 /\ Segment!End \in Nat \ {0}
    /\ Segment!Before(1) = 0
    /\ Segment!FullSize = Segment!Before(Segment!End)
    /\ \A i \in 1..Segment!End : Segment!Before(i) \in Nat
    /\ \A i \in Buffers : /\ i + 1 \in 1..Segment!End
                          /\ Segment!Before(i + 1) = Segment!Before(i) + Sizes[i]
<1>1. Segment!End = Len(Sizes) + 1 /\ Segment!End \in Nat \ {0}
  BY BufferSizes DEF Segment!End
<1>2. \A i \in 1..Segment!End : i - 1 \in 0..Len(Sizes)
  BY BufferSizes, <1>1
<1>3. \A i \in Buffers : i + 1 \in 1..Segment!End /\ (i + 1) - 1 = i
  BY BufferSizes, <1>1 DEF Buffers
<1>4. Segment!Before(1) = 0
  BY PartialSums DEF Segment!Before
<1>5. \A i \in 1..Segment!End : Segment!Before(i) \in Nat
  BY PartialSums, <1>2 DEF Segment!Before
<1>6. \A i \in Buffers : Segment!Before(i + 1) = Segment!Before(i) + Sizes[i]
  BY PartialSums, <1>3 DEF Segment!Before
<1> QED BY <1>1, <1>3, <1>4, <1>5, <1>6 DEF Segment!FullSize
(* The place in the list, as far as a read or a seek moved it.             *)
CursorInv ==
    /\ iterator \in 1..Segment!End /\ offset \in Nat
    /\ fullOffset = Segment!Before(iterator) + offset
    /\ iterator # Segment!End => offset < Sizes[iterator]
    /\ bytes \in Seq(Nat)
    /\ \A k \in 1..Len(bytes) : bytes[k] = fullOffset - Len(bytes) + k

(* Where the loop of a read may be that began at this place.               *)
Reading ==
    {at \in [iterator : 1..Segment!End, offset : Nat, bytes : Seq(Nat)] :
        /\ at.iterator # Segment!End => at.offset < Sizes[at.iterator]
        /\ Segment!Before(at.iterator) + at.offset = fullOffset + Len(at.bytes)
        /\ \A k \in 1..Len(at.bytes) : at.bytes[k] = fullOffset + k}

(* A round copies something, and what follows what was copied              *)
(* ("assert(increment > 0)", io.cursor.cpp:186).                           *)
LEMMA RoundReads ==
    ASSUME CursorInv, NEW at \in Reading, NEW expect \in Nat
    PROVE  Segment!Round(at, expect) \in Reading
<1> DEFINE i == at.iterator
<1> DEFINE n == Len(at.bytes)
<1>1. CASE i # Segment!End /\ n < expect
  <2> DEFINE size == Sizes[i]
  <2> DEFINE before == Segment!Before(i)
  <2> DEFINE increment == Segment!Least(expect - n, size - at.offset)
  <2> DEFINE chunk == [k \in 1..increment |-> before + at.offset + k]
  <2> DEFINE copied == at.bytes \o chunk
  <2> DEFINE left == at.offset + increment = size
  <2>1. i \in Buffers /\ i \in 1..Segment!End /\ at.bytes \in Seq(Nat)
    BY <1>1, BufferSizes, BytesBefore DEF Reading, Buffers
  <2>2. PICK o \in Nat : o = at.offset /\ o < size
    BY <1>1 DEF Reading
  <2>3. size \in Nat /\ before \in Nat /\ n \in Nat
    BY <2>1, BufferSizes, BytesBefore, LenProperties
  <2>4. i + 1 \in 1..Segment!End /\ Segment!Before(i + 1) = before + size
    BY <2>1, BytesBefore
  <2>5. fullOffset \in Nat /\ before + o = fullOffset + n
    BY <2>2, BytesBefore DEF Reading, CursorInv
  <2>6. \A k \in 1..n : at.bytes[k] = fullOffset + k
    BY DEF Reading
  <2>7. increment \in Nat \ {0} /\ increment <= size - o
    BY <1>1, <2>2, <2>3 DEF Segment!Least
  <2> HIDE DEF n, i, increment, size, before
  <2>8. chunk \in Seq(Nat) /\ Len(chunk) = increment
        /\ \A k \in 1..increment : chunk[k] = fullOffset + n + k
    BY <2>2, <2>3, <2>5, <2>7
  <2> HIDE DEF chunk
  <2>9. copied \in Seq(Nat) /\ Len(copied) = n + increment
        /\ \A k \in 1..(n + increment) :
              copied[k] = IF k <= n THEN at.bytes[k] ELSE chunk[k - n]
    BY <2>1, <2>8, ConcatProperties DEF n
  <2> HIDE DEF copied
  <2>10. \A k \in 1..Len(copied) : copied[k] = fullOffset + k
    <3> SUFFICES ASSUME NEW k \in 1..(n + increment) PROVE copied[k] = fullOffset + k
      BY <2>9
    <3>1. CASE k <= n
      <4>1. k \in 1..n
        BY <2>3, <2>7, <3>1
      <4> QED BY <2>6, <2>9, <3>1, <4>1
    <3>2. CASE ~(k <= n)
      <4>1. k - n \in 1..increment
        BY <2>3, <2>7, <3>2
      <4>2. copied[k] = fullOffset + n + (k - n)
        BY <2>8, <2>9, <3>2, <4>1
      <4> QED BY <2>3, <2>5, <4>2
    <3> QED BY <3>1, <3>2
  <2>11. Segment!Round(at, expect)
           = [iterator |-> IF left THEN i + 1 ELSE i,
              offset |-> IF left THEN 0 ELSE o + increment,
              bytes |-> copied]
    BY <1>1, <2>2
       DEF Segment!Round, Segment!Copy, i, n, increment, chunk, copied, size, before
  <2>12. copied \in Seq(Nat) /\ Len(copied) = n + increment
    BY <2>9
  <2>13. CASE o + increment = size
    <3>1. Segment!Round(at, expect) = [iterator |-> i + 1, offset |-> 0, bytes |-> copied]
      BY <2>2, <2>11, <2>13
    <3>2. i + 1 # Segment!End => 0 < Sizes[i + 1]
      <4>1. i + 1 # Segment!End => i + 1 \in Buffers
        BY <2>4, BytesBefore, BufferSizes DEF Buffers
      <4> QED BY <4>1, BufferSizes
    <3>3. Segment!Before(i + 1) + 0 = fullOffset + Len(copied)
      BY <2>3, <2>4, <2>5, <2>7, <2>12, <2>13
    <3> QED BY <2>4, <2>10, <2>12, <3>1, <3>2, <3>3 DEF Reading
  <2>14. CASE o + increment # size
    <3>1. Segment!Round(at, expect) = [iterator |-> i, offset |-> o + increment,
                                       bytes |-> copied]
      BY <2>2, <2>11, <2>14
    <3>2. o + increment \in Nat /\ o + increment < size
      BY <2>3, <2>7, <2>14
    <3>3. before + (o + increment) = fullOffset + Len(copied)
      BY <2>3, <2>5, <2>7, <2>12
    <3> QED BY <2>1, <2>10, <2>12, <3>1, <3>2, <3>3 DEF Reading, size, before
  <2> QED BY <2>13, <2>14
<1>2. CASE ~(i # Segment!End /\ n < expect)
  BY <1>2 DEF Segment!Round
<1> QED BY <1>1, <1>2

LEMMA ReadStep ==
    ASSUME CursorInv, NEW expect \in Nat, Segment!Read(expect)
    PROVE  CursorInv'
<1> DEFINE N == Len(Sizes)
<1> DEFINE start == [iterator |-> iterator, offset |-> offset, bytes |-> <<>>]
<1> DEFINE step == [k \in 1..N |-> [at \in Reading |-> Segment!Round(at, expect)]]
<1> DEFINE IsLoop(g) == g = [k \in 0..N |-> IF k = 0 THEN start
                                            ELSE Segment!Round(g[k - 1], expect)]
<1>0. N \in Nat
  BY BufferSizes
<1>1. start \in Reading
  BY EmptySeq, BytesBefore DEF CursorInv, Reading
<1>2. step \in [1..N -> [Reading -> Reading]]
  BY RoundReads
<1> HIDE DEF N, start
<1>3. PICK g \in [0..N -> Reading] : Stepwise(g, N, start, step)
  <2> HIDE DEF step
  <2> QED BY <1>0, <1>1, <1>2, Recursion
<1>4. IsLoop(g)
  <2>1. ASSUME NEW k \in 1..N PROVE g[k] = Segment!Round(g[k - 1], expect)
    <3>1. g[k - 1] \in Reading
      BY <1>0
    <3>2. g[k] = step[k][g[k - 1]]
      BY <1>3 DEF Stepwise
    <3> QED BY <3>1, <3>2
  <2>2. \A k \in 0..N : k = 0 \/ k \in 1..N
    BY <1>0
  <2>3. g[0] = start /\ g = [k \in 0..N |-> g[k]]
    BY <1>3 DEF Stepwise
  <2> HIDE DEF step
  <2> QED BY <2>1, <2>2, <2>3
<1> DEFINE loop == Segment!Rounds(expect)
<1>5. IsLoop(loop)
  BY <1>4 DEF Segment!Rounds, N, start
<1> HIDE DEF loop, step
<1>6. loop[N] \in Reading
  <2>1. /\ 0 \in 0..N /\ N \in 0..N
        /\ \A k \in 1..N : k \in 0..N /\ k # 0
    BY <1>0
  <2>2. loop[0] = start /\ \A k \in 1..N : loop[k] = Segment!Round(loop[k - 1], expect)
    BY <1>5, <2>1
  <2>3. \A k \in 1..N : loop[k - 1] \in Reading => loop[k] \in Reading
    BY <2>2, RoundReads
  <2>4. \A k \in 0..N : loop[k] \in Reading
    BY <1>0, <1>1, <2>2, <2>3, ValuesIn
  <2> QED BY <2>1, <2>4
<1> DEFINE last == loop[N]
<1>7. /\ iterator' = last.iterator /\ offset' = last.offset /\ bytes' = last.bytes
      /\ fullOffset' = fullOffset + Len(last.bytes)
  BY DEF Segment!Read, loop, N
<1> HIDE DEF last
<1>8. last \in Reading
  BY <1>6 DEF last
<1>9. fullOffset \in Nat /\ Len(last.bytes) \in Nat
  BY <1>8, BytesBefore, LenProperties DEF CursorInv, Reading
<1>10. \A k \in 1..Len(bytes') : bytes'[k] = fullOffset' - Len(bytes') + k
  <2>1. \A k \in 1..Len(bytes') : bytes'[k] = fullOffset + k
    BY <1>7, <1>8 DEF Reading
  <2>2. fullOffset' - Len(bytes') = fullOffset
    BY <1>7, <1>9
  <2> QED BY <2>1, <2>2
<1> QED BY <1>7, <1>8, <1>10 DEF CursorInv, Reading, Segment!End, Segment!Before

(* The buffer of a place is the first that ends behind it.                 *)
LEMMA SeekStep ==
    ASSUME NEW target \in Nat, Segment!Seek(target)
    PROVE  CursorInv'
<1>1. bytes' = <<>> /\ bytes' \in Seq(Nat) /\ Len(bytes') = 0
  BY EmptySeq DEF Segment!Seek
<1>2. CASE target >= Segment!FullSize
  BY <1>1, <1>2, BytesBefore DEF Segment!Seek, CursorInv, Segment!End, Segment!Before
<1>3. CASE ~(target >= Segment!FullSize)
  <2> DEFINE Found(i) == /\ Segment!Holds(i, target)
                         /\ \A j \in 1..(i - 1) : ~Segment!Holds(j, target)
  <2> DEFINE T == {i \in Buffers : Segment!Holds(i, target)}
  <2>1. Len(Sizes) \in T
    <3>1. Segment!Before(Len(Sizes) + 1) > target
      BY <1>3, BytesBefore
    <3>2. Len(Sizes) # 0
      BY <1>3, BytesBefore
    <3> QED BY <3>1, <3>2, BufferSizes DEF Segment!Holds, Buffers
  <2>2. \E i \in Buffers : Found(i)
    <3>1. T \in SUBSET Nat /\ T # {}
      BY <2>1 DEF Buffers
    <3> HIDE DEF T
    <3>2. PICK i \in T : \A j \in T : i <= j
      BY <3>1, LeastNumber
    <3>3. i \in Buffers /\ Segment!Holds(i, target)
      BY DEF T
    <3>4. ASSUME NEW j \in 1..(i - 1) PROVE ~Segment!Holds(j, target)
      <4>1. j \in Buffers /\ ~(i <= j)
        BY <3>3, BufferSizes DEF Buffers
      <4> QED BY <3>2, <4>1 DEF T
    <3> QED BY <3>3, <3>4
  <2>3. /\ iterator' = CHOOSE i \in 1..Len(Sizes) : Found(i)
        /\ fullOffset' = target
        /\ offset' = target - Segment!Before(iterator')
    BY <1>3 DEF Segment!Seek
  <2>4. iterator' \in Buffers /\ Found(iterator')
    BY <2>2, <2>3 DEF Buffers
  <2> DEFINE i == iterator'
  <2> HIDE DEF i
  <2>5. i \in Buffers /\ i \in 1..Segment!End /\ i \in Nat
        /\ i + 1 \in 1..Segment!End
        /\ Segment!Before(i + 1) = Segment!Before(i) + Sizes[i]
        /\ Segment!Before(i) \in Nat /\ Sizes[i] \in Nat
    <3>1. i \in Buffers
      BY <2>4 DEF i
    <3>2. i \in 1..Segment!End /\ i \in Nat
      BY <3>1, BytesBefore, BufferSizes DEF Buffers
    <3> QED BY <3>1, <3>2, BytesBefore, BufferSizes
  <2>6. Segment!Before(i) <= target
    <3>1. CASE i = 1
      BY <3>1, BytesBefore
    <3>2. CASE i # 1
      <4>1. i - 1 \in 1..(i - 1) /\ (i - 1) + 1 = i
        BY <2>5, <3>2, BytesBefore
      <4>2. ~Segment!Holds(i - 1, target)
        BY <2>4, <4>1 DEF i
      <4> QED BY <2>5, <4>1, <4>2 DEF Segment!Holds
    <3> QED BY <3>1, <3>2
  <2>7. Segment!Before(i + 1) > target
    BY <2>4 DEF Segment!Holds, i
  <2>8. target - Segment!Before(i) \in Nat /\ target - Segment!Before(i) < Sizes[i]
        /\ target = Segment!Before(i) + (target - Segment!Before(i))
    BY <2>5, <2>6, <2>7
  <2> QED BY <1>1, <2>3, <2>5, <2>8 DEF CursorInv, i, Segment!Before, Segment!End
<1> QED BY <1>2, <1>3

LEMMA InitCursor == Segment!Init => CursorInv
BY BytesBefore, BufferSizes, EmptySeq DEF Segment!Init, CursorInv, Buffers

LEMMA CursorStep == CursorInv /\ [ContentNext]_contentVars => CursorInv'
<1> SUFFICES ASSUME CursorInv, [ContentNext]_contentVars PROVE CursorInv'
  OBVIOUS
<1>0. \A n \in 1..MaxRead : n \in Nat
  BY ContentAssumption DEF Segment!CursorAssumption
<1>1. CASE \E n \in 1..MaxRead : Segment!Read(n)
  BY <1>0, <1>1, ReadStep
<1>2. CASE \E t \in Nat : Segment!Seek(t)
  BY <1>2, SeekStep
<1>3. CASE UNCHANGED Segment!vars
  BY <1>3 DEF Segment!vars, CursorInv, Segment!Before, Segment!End
<1>4. CASE Segment!Probe
  BY <1>1, <1>2, <1>4, BytesBefore DEF Segment!Probe
<1>5. CASE Segment!ParseContext
  BY <1>2, <1>5 DEF Segment!ParseContext
<1>6. CASE Segment!Fill
  BY <1>1, <1>6 DEF Segment!Fill
<1>7. CASE Segment!Call \/ Segment!SkipPacket
  BY <1>3, <1>7 DEF Segment!Call, Segment!SkipPacket
<1>8. CASE Segment!TryConsume \/ Segment!TryDrop \/ Segment!TryRead \/ Segment!TryConsumeOnce
  BY <1>3, <1>8
     DEF Segment!TryConsume, Segment!TryDrop, Segment!TryRead, Segment!TryConsumeOnce
<1>9. CASE UNCHANGED segmentVars
  BY <1>3, <1>9 DEF segmentVars, Segment!vars
<1> QED BY <1>4, <1>5, <1>6, <1>7, <1>8, <1>9
        DEF ContentNext, contentVars, Segment!SegmentorNext, Segment!Work

(* The place in the list of buffers is the one the demuxer thinks it reads *)
(* at, and a read leaves no byte out (io.cursor.cpp:184-199, 226-241).     *)
THEOREM CursorConsistency == ContentSpec => []CursorConsistent
<1>1. ContentInit => CursorInv
  BY InitCursor DEF ContentInit, Segment!SegmentorInit
<1>2. CursorInv => CursorConsistent
  BY DEF CursorInv, CursorConsistent, Segment!CursorConsistent, Segment!Available
<1> QED BY <1>1, <1>2, CursorStep, PTL DEF ContentSpec
---------------------------------------------------------------------------------
(* The frames of a segment.                                                *)

Count == Len(Packets)
WantedUpTo(n) == Segment!WantedUpTo[n]

LEMMA CountIsNumber == Count \in Nat
BY ContentAssumption, LenProperties DEF Segment!SegmentorAssumption, Count

LEMMA WantedPackets ==
    /\ WantedUpTo(0) = <<>>
    /\ \A n \in 1..Count :
          WantedUpTo(n) = IF Segment!Wanted(n) THEN Append(WantedUpTo(n - 1), n)
                                              ELSE WantedUpTo(n - 1)
    /\ \A n \in 0..Count : WantedUpTo(n) \in Seq(Nat)
<1> DEFINE N == Count
<1> DEFINE step == [n \in 1..N |-> [s \in Seq(Nat) |->
                       IF Segment!Wanted(n) THEN Append(s, n) ELSE s]]
<1> DEFINE Chosen(g) == g = [n \in 0..N |->
                                IF n = 0 THEN <<>>
                                ELSE IF Segment!Wanted(n) THEN Append(g[n - 1], n)
                                                          ELSE g[n - 1]]
<1>0. N \in Nat
  BY CountIsNumber
<1> HIDE DEF N
<1>a. \A s \in Seq(Nat), n \in 1..N : Append(s, n) \in Seq(Nat)
  BY AppendProperties
<1>1. step \in [1..N -> [Seq(Nat) -> Seq(Nat)]]
  BY <1>a
<1>2. PICK g \in [0..N -> Seq(Nat)] : Stepwise(g, N, <<>>, step)
  <2> HIDE DEF step
  <2>1. <<>> \in Seq(Nat)
    BY EmptySeq
  <2> QED BY <1>0, <1>1, <2>1, Recursion
<1>3. Chosen(g)
  <2>1. ASSUME NEW n \in 1..N
        PROVE  g[n] = IF Segment!Wanted(n) THEN Append(g[n - 1], n) ELSE g[n - 1]
    <3>1. g[n - 1] \in Seq(Nat)
      BY <1>0
    <3>2. g[n] = step[n][g[n - 1]]
      BY <1>2 DEF Stepwise
    <3> QED BY <3>1, <3>2
  <2>2. \A n \in 0..N : n = 0 \/ n \in 1..N
    BY <1>0
  <2>3. g[0] = <<>> /\ g = [n \in 0..N |-> g[n]]
    BY <1>2 DEF Stepwise
  <2>4. \A n \in 1..N : n # 0
    BY <1>0
  <2> HIDE DEF step
  <2> QED BY <2>1, <2>2, <2>3, <2>4
<1> DEFINE f == Segment!WantedUpTo
<1>4. Chosen(f)
  BY <1>3 DEF Segment!WantedUpTo, N, Count
<1> HIDE DEF f, step
<1>5. /\ f[0] = <<>>
      /\ \A n \in 1..N : f[n] = IF Segment!Wanted(n) THEN Append(f[n - 1], n) ELSE f[n - 1]
  <2>1. 0 \in 0..N /\ \A n \in 1..N : n \in 0..N /\ n # 0
    BY <1>0
  <2> QED BY <1>4, <2>1
<1>6. \A n \in 0..N : f[n] \in Seq(Nat)
  <2>1. f[0] \in Seq(Nat)
    BY <1>5, EmptySeq
  <2>2. \A n \in 1..N : f[n - 1] \in Seq(Nat) => f[n] \in Seq(Nat)
    BY <1>5, <1>a
  <2> QED BY <1>0, <2>1, <2>2, ValuesIn
<1> QED BY <1>5, <1>6 DEF f, N, WantedUpTo

(* What is wanted of more packets begins with what is wanted of fewer.     *)
LEMMA WantedGrows ==
    ASSUME NEW n \in 0..Count
    PROVE  \E u \in Seq(Nat) : WantedUpTo(Count) = WantedUpTo(n) \o u
<1> DEFINE Grown(m) == n <= m => \E u \in Seq(Nat) : WantedUpTo(m) = WantedUpTo(n) \o u
<1> DEFINE T == {m \in 0..Count : Grown(m)}
<1>0. Count \in Nat /\ n \in Nat /\ WantedUpTo(n) \in Seq(Nat)
  BY CountIsNumber, WantedPackets
<1>1. ASSUME NEW m \in 0..Count, m = n PROVE Grown(m)
  <2>1. <<>> \in Seq(Nat) /\ WantedUpTo(n) \o <<>> = WantedUpTo(n)
    BY <1>0, EmptySeq, ConcatEmptySeq
  <2> QED BY <1>1, <2>1
<1>2. 0 \in T
  <2>1. CASE n = 0
    BY <1>0, <1>1, <2>1
  <2>2. CASE n # 0
    BY <1>0, <2>2
  <2> QED BY <2>1, <2>2
<1>3. ASSUME NEW m \in 1..Count, m - 1 \in T PROVE m \in T
  <2>0. m \in 0..Count /\ m \in Nat
    BY <1>0
  <2>1. CASE m = n
    BY <1>1, <2>0, <2>1
  <2>2. CASE n <= m - 1
    <3>1. PICK u \in Seq(Nat) : WantedUpTo(m - 1) = WantedUpTo(n) \o u
      BY <1>3, <2>2
    <3>2. CASE Segment!Wanted(m)
      <4>1. Append(u, m) \in Seq(Nat)
        BY <2>0, AppendProperties
      <4>2. WantedUpTo(m) = Append(WantedUpTo(n) \o u, m)
        BY <3>1, <3>2, WantedPackets
      <4>3. WantedUpTo(m) = WantedUpTo(n) \o Append(u, m)
        <5>1. WantedUpTo(n) \o Append(u, m) = Append(WantedUpTo(n) \o u, m)
          BY <1>0, <2>0, AppendToConcat
        <5> QED BY <4>2, <5>1
      <4>4. Grown(m)
        BY <4>1, <4>3
      <4> HIDE DEF Grown
      <4> QED BY <2>0, <4>4
    <3>3. CASE ~Segment!Wanted(m)
      <4>1. WantedUpTo(m) = WantedUpTo(n) \o u
        BY <3>1, <3>3, WantedPackets
      <4>2. Grown(m)
        BY <4>1
      <4> HIDE DEF Grown
      <4> QED BY <2>0, <4>2
    <3> QED BY <3>2, <3>3
  <2>3. CASE ~(n <= m)
    BY <2>0, <2>3
  <2>4. m = n \/ n <= m - 1 \/ ~(n <= m)
    BY <1>0, <2>0
  <2> HIDE DEF T
  <2> QED BY <2>1, <2>2, <2>3, <2>4
<1> HIDE DEF T
<1>4. 0..Count \subseteq T
  BY <1>0, <1>2, <1>3, NumbersUpTo
<1>5. Count \in T /\ n <= Count
  BY <1>0, <1>4
<1> QED BY <1>5 DEF T

LEMMA PrefixOfConcat ==
    ASSUME NEW S, NEW s \in Seq(S), NEW t \in Seq(S)
    PROVE  Segment!IsPrefix(s, s \o t)
<1>1. s \o t \in Seq(S) /\ Len(s \o t) = Len(s) + Len(t) /\ Len(s) \in Nat /\ Len(t) \in Nat
  BY ConcatProperties, LenProperties
<1>2. CASE Len(s) = 0
  <2>1. SubSeq(s, 1, 0) = <<>> /\ SubSeq(s \o t, 1, 0) = <<>>
    BY SubSeqEmpty
  <2> QED BY <1>1, <1>2, <2>1 DEF Segment!IsPrefix
<1>3. CASE Len(s) # 0
  <2>1. 1 \in 1..Len(s) /\ Len(s) \in 1..Len(s)
    BY <1>1, <1>3
  <2>2. SubSeq(s \o t, 1, Len(s)) = SubSeq(s, 1, Len(s))
    BY <2>1, SubSeqOfConcat1
  <2> QED BY <1>1, <2>2 DEF Segment!IsPrefix
<1> QED BY <1>2, <1>3
(* What the caller was given, what is kept for it and what the decoder     *)
(* holds back are, in this order, the wanted packets so far.               *)
Frames ==
    /\ next \in 1..(Count + 1)
    /\ got \in Seq(Nat) /\ remain \in Seq(Nat) /\ held \in Seq(Nat)
    /\ WantedUpTo(next - 1) = (got \o remain) \o held

(* Where a call leaves them.                                               *)
CallInv ==
    /\ call = "opening" => got = <<>> /\ remain = <<>> /\ next = 1
    /\ mode \in {"all", "drop", "read"} => remain = <<>>
    /\ mode \in {"drop", "read"} => ~flushed /\ held = <<>>
    /\ call = "called" => ~flushed /\ remain = <<>>
    /\ flushed => next = Count + 1 /\ held = <<>>
    /\ call \in {"done", "failed"} => next = Count + 1 /\ held = <<>> /\ remain = <<>>
    /\ call # "opening" => mode \in {"all", "once", "defer", "drop", "read"}

FramesInv == Frames /\ CallInv

LEMMA InitFrames == Segment!SegmentorInit => FramesInv
<1> SUFFICES ASSUME Segment!SegmentorInit PROVE FramesInv
  OBVIOUS
<1>1. /\ call = "opening" /\ next = 1 /\ mode = "none" /\ flushed = FALSE
      /\ held = <<>> /\ remain = <<>> /\ got = <<>>
  BY DEF Segment!SegmentorInit
<1>2. <<>> \in Seq(Nat) /\ <<>> \o <<>> = <<>> /\ 1 - 1 = 0 /\ 1 \in 1..(Count + 1)
  BY EmptySeq, ConcatEmptySeq, CountIsNumber
<1>3. Frames
  BY <1>1, <1>2, WantedPackets DEF Frames
<1>4. CallInv
  BY <1>1 DEF CallInv
<1> QED BY <1>3, <1>4 DEF FramesInv

(* A packet that is sent comes behind those that are held, and what the    *)
(* decoder gives of them are the first.                                    *)
LEMMA Decoded ==
    ASSUME FramesInv, call = "called", Segment!HasPacket, Segment!Advance,
           NEW frames \in Segment!Emitted(Segment!FramesSoFar), Segment!Decode(frames)
    PROVE  /\ next' \in 1..(Count + 1)
           /\ frames \in Seq(Nat) /\ held' \in Seq(Nat)
           /\ WantedUpTo(next' - 1) = got \o (frames \o held')
           /\ flushed' = Segment!AtEnd
           /\ Segment!AtEnd => next' = Count + 1 /\ held' = <<>>
<1> DEFINE inside == Segment!FramesSoFar
<1>0. /\ Count \in Nat /\ next \in Nat /\ next \in 1..(Count + 1) /\ remain = <<>>
      /\ got \in Seq(Nat) /\ held \in Seq(Nat)
  BY CountIsNumber DEF FramesInv, CallInv, Frames
<1>1. WantedUpTo(next - 1) = got \o held
  BY <1>0, ConcatEmptySeq DEF FramesInv, Frames
<1>2. Segment!AtEnd <=> next = Count + 1
  BY <1>0 DEF Segment!AtEnd, Count
<1>3. flushed' = Segment!AtEnd /\ held' = SubSeq(inside, Len(frames) + 1, Len(inside))
  BY DEF Segment!Decode, Segment!FramesSoFar
<1>4. CASE Segment!AtEnd
  <2>1. inside = held /\ frames = held /\ next' = next
    BY <1>4 DEF Segment!FramesSoFar, Segment!Emitted, Segment!Advance
  <2>2. held' = <<>>
    <3>1. Len(held) \in Nat
      BY <1>0, LenProperties
    <3>2. SubSeq(held, Len(held) + 1, Len(held)) = <<>>
      BY <3>1, SubSeqEmpty
    <3> QED BY <1>3, <2>1, <3>2
  <2>3. held \o <<>> = held /\ <<>> \in Seq(Nat)
    BY <1>0, ConcatEmptySeq, EmptySeq
  <2> QED BY <1>0, <1>1, <1>2, <1>3, <1>4, <2>1, <2>2, <2>3
<1>5. CASE ~Segment!AtEnd
  <2>1. inside = Append(held, next) /\ next' = next + 1 /\ Segment!Wanted(next)
    BY <1>5 DEF Segment!FramesSoFar, Segment!Advance, Segment!HasPacket
  <2>2. PICK n \in 0..Len(inside) : frames = SubSeq(inside, 1, n)
    BY <1>5 DEF Segment!Emitted
  <2>3. inside \in Seq(Nat)
    BY <1>0, <2>1, AppendProperties
  <2> HIDE DEF inside
  <2>4. /\ frames \in Seq(Nat) /\ Len(frames) = n /\ held' \in Seq(Nat)
        /\ frames \o held' = inside
    BY <1>3, <2>2, <2>3, SplitAt
  <2>5. next \in 1..Count /\ next' \in 1..(Count + 1) /\ next' - 1 = next
    BY <1>0, <1>2, <1>5, <2>1
  <2>6. WantedUpTo(next) = Append(got \o held, next)
    BY <1>1, <2>1, <2>5, WantedPackets
  <2>7. WantedUpTo(next' - 1) = got \o (frames \o held')
    <3>1. got \o Append(held, next) = Append(got \o held, next)
      <4>1. got \in Seq(Nat) /\ held \in Seq(Nat) /\ next \in Nat
        BY <1>0
      <4> QED BY <4>1, AppendToConcat
    <3> QED BY <2>1, <2>4, <2>5, <2>6, <3>1
  <2> QED BY <1>3, <1>5, <2>4, <2>5, <2>7
<1> QED BY <1>4, <1>5

LEMMA CallStep == FramesInv /\ Segment!Call => FramesInv'
<1> SUFFICES ASSUME FramesInv, Segment!Call PROVE FramesInv'
  OBVIOUS
<1>0. call = "idle" /\ UNCHANGED <<mode, next, flushed, held>>
  BY DEF Segment!Call
<1>1. CASE Segment!OneByOne /\ remain # <<>>
  <2>1. got' = Append(got, Head(remain)) /\ remain' = Tail(remain) /\ UNCHANGED call
    BY <1>1 DEF Segment!Call
  <2>2. got' \in Seq(Nat) /\ remain' \in Seq(Nat) /\ got' \o remain' = got \o remain
    <3>1. got \in Seq(Nat) /\ remain \in Seq(Nat) /\ remain # <<>>
      BY <1>1 DEF FramesInv, Frames
    <3>2. /\ Append(got, Head(remain)) \in Seq(Nat) /\ Tail(remain) \in Seq(Nat)
          /\ Append(got, Head(remain)) \o Tail(remain) = got \o remain
      BY <3>1, MoveHead
    <3> QED BY <2>1, <3>2
  <2>3. Frames'
    BY <1>0, <2>2 DEF FramesInv, Frames, WantedUpTo, Count
  <2>4. CallInv'
    BY <1>0, <1>1, <2>1 DEF FramesInv, CallInv, Segment!OneByOne, Count
  <2> QED BY <2>3, <2>4 DEF FramesInv
<1>2. CASE ~(Segment!OneByOne /\ remain # <<>>)
  <2>1. /\ call' = IF Segment!Valid THEN "called" ELSE Segment!NoFrame
        /\ UNCHANGED <<remain, got>>
    BY <1>2 DEF Segment!Call
  <2>2. Frames'
    BY <1>0, <2>1 DEF FramesInv, Frames, WantedUpTo, Count
  <2>3. CallInv'
    BY <1>0, <1>2, <2>1
       DEF FramesInv, CallInv, Segment!OneByOne, Segment!Valid, Segment!NoFrame, Count
  <2> QED BY <2>2, <2>3 DEF FramesInv
<1> QED BY <1>1, <1>2

LEMMA SkipStep == FramesInv /\ Segment!SkipPacket => FramesInv'
<1> SUFFICES ASSUME FramesInv, Segment!SkipPacket PROVE FramesInv'
  OBVIOUS
<1>1. /\ ~Segment!AtEnd /\ ~Segment!Wanted(next) /\ next' = next + 1
      /\ UNCHANGED <<mode, call, flushed, held, remain, got>> /\ call = "called"
  BY DEF Segment!SkipPacket
<1>2. next \in 1..Count /\ next' \in 1..(Count + 1) /\ next' - 1 = next /\ next # Count + 1
  BY <1>1, CountIsNumber DEF FramesInv, Frames, Segment!AtEnd, Count
<1>3. WantedUpTo(next) = WantedUpTo(next - 1)
  BY <1>1, <1>2, WantedPackets
<1>4. Frames'
  BY <1>1, <1>2, <1>3 DEF FramesInv, Frames, WantedUpTo, Count
<1>5. CallInv'
  BY <1>1, <1>2 DEF FramesInv, CallInv, Count
<1> QED BY <1>4, <1>5 DEF FramesInv

(* Frames, concatenated.                                                   *)
LEMMA FramesAssociative ==
    ASSUME NEW a \in Seq(Nat), NEW b \in Seq(Nat), NEW c \in Seq(Nat)
    PROVE  (a \o b) \o c = a \o (b \o c)
BY ConcatAssociative

LEMMA ConsumeStep == FramesInv /\ Segment!TryConsume => FramesInv'
<1> SUFFICES ASSUME FramesInv, Segment!TryConsume PROVE FramesInv'
  OBVIOUS
<1>0. /\ call = "called" /\ mode = "all" /\ Segment!HasPacket /\ Segment!Advance
      /\ call' = "idle" /\ UNCHANGED <<mode, remain>>
  BY DEF Segment!TryConsume
<1>1. PICK frames \in Segment!Emitted(Segment!FramesSoFar) :
         Segment!Decode(frames) /\ got' = got \o frames
  BY DEF Segment!TryConsume
<1>2. /\ next' \in 1..(Count + 1)
      /\ frames \in Seq(Nat) /\ held' \in Seq(Nat)
      /\ WantedUpTo(next' - 1) = got \o (frames \o held')
      /\ flushed' = Segment!AtEnd
      /\ Segment!AtEnd => next' = Count + 1 /\ held' = <<>>
  BY <1>0, <1>1, Decoded
<1>3. got \in Seq(Nat) /\ remain = <<>> /\ remain' = <<>>
  BY <1>0 DEF FramesInv, Frames, CallInv
<1>4. /\ got \o frames \in Seq(Nat) /\ (got \o frames) \o <<>> = got \o frames
      /\ (got \o frames) \o held' = got \o (frames \o held')
  <2>1. got \o frames \in Seq(Nat)
    BY <1>2, <1>3, ConcatProperties
  <2> QED BY <1>2, <1>3, <2>1, ConcatEmptySeq, FramesAssociative
<1>5. Frames'
  BY <1>1, <1>2, <1>3, <1>4, EmptySeq DEF Frames, WantedUpTo, Count
<1>6. CallInv'
  BY <1>0, <1>2, <1>3 DEF CallInv, Count
<1> QED BY <1>5, <1>6 DEF FramesInv

(* Without a decoder, a fake frame stands for each packet.                 *)
LEMMA FakeStep == FramesInv /\ (Segment!TryDrop \/ Segment!TryRead) => FramesInv'
<1> SUFFICES ASSUME FramesInv, Segment!TryDrop \/ Segment!TryRead PROVE FramesInv'
  OBVIOUS
<1>0. /\ call = "called" /\ mode \in {"drop", "read"} /\ Segment!HasPacket
      /\ Segment!Advance
      /\ got' = IF Segment!AtEnd THEN got ELSE Append(got, next)
      /\ call' = IF Segment!AtEnd THEN "done" ELSE "idle"
      /\ UNCHANGED <<mode, flushed, held, remain>>
  BY DEF Segment!TryDrop, Segment!TryRead
<1>1. /\ got \in Seq(Nat) /\ remain = <<>> /\ held = <<>> /\ ~flushed
      /\ next \in 1..(Count + 1) /\ Count \in Nat
  BY <1>0, CountIsNumber DEF FramesInv, Frames, CallInv
<1>2. WantedUpTo(next - 1) = got
  BY <1>1, ConcatEmptySeq DEF FramesInv, Frames
<1>3. Segment!AtEnd <=> next = Count + 1
  BY <1>1 DEF Segment!AtEnd, Count
<1>4. next' \in 1..(Count + 1) /\ got' \in Seq(Nat) /\ WantedUpTo(next' - 1) = got'
  <2>1. CASE Segment!AtEnd
    BY <1>0, <1>1, <1>2, <2>1 DEF Segment!Advance
  <2>2. CASE ~Segment!AtEnd
    <3>1. next \in 1..Count /\ next' = next + 1 /\ next' - 1 = next /\ Segment!Wanted(next)
      BY <1>0, <1>1, <1>3, <2>2 DEF Segment!Advance, Segment!HasPacket
    <3>2. WantedUpTo(next) = Append(got, next)
      BY <1>2, <3>1, WantedPackets
    <3>3. got' = Append(got, next) /\ got' \in Seq(Nat)
      BY <1>0, <1>1, <2>2, <3>1, AppendProperties
    <3> QED BY <1>1, <3>1, <3>2, <3>3
  <2> QED BY <2>1, <2>2
<1>5. (got' \o <<>>) \o <<>> = got'
  BY <1>4, ConcatEmptySeq
<1>6. Frames'
  BY <1>0, <1>1, <1>4, <1>5, EmptySeq DEF Frames, WantedUpTo, Count
<1>7. Segment!AtEnd => next' = Count + 1
  BY <1>0, <1>3 DEF Segment!Advance
<1>8. CallInv'
  BY <1>0, <1>1, <1>7 DEF CallInv, Count
<1> QED BY <1>6, <1>8 DEF FramesInv

(* One frame is given, the others are kept.                                *)
LEMMA ConsumeOnceStep == FramesInv /\ Segment!TryConsumeOnce => FramesInv'
<1> SUFFICES ASSUME FramesInv, Segment!TryConsumeOnce PROVE FramesInv'
  OBVIOUS
<1>0. /\ call = "called" /\ mode \in {"once", "defer"} /\ Segment!HasPacket
      /\ Segment!Advance /\ UNCHANGED mode
  BY DEF Segment!TryConsumeOnce, Segment!OneByOne
<1>1. PICK frames \in Segment!Emitted(Segment!FramesSoFar) :
         /\ Segment!Decode(frames)
         /\ IF frames = <<>> THEN UNCHANGED <<got, remain>>
            ELSE /\ got' = Append(got, Head(frames))
                 /\ remain' = Tail(frames)
         /\ call' = IF frames = <<>> /\ ~Segment!AtEnd THEN "called"
                    ELSE IF frames = <<>> THEN Segment!NoFrame ELSE "idle"
  BY DEF Segment!TryConsumeOnce, Segment!Kept, Segment!Again
<1>2. /\ next' \in 1..(Count + 1)
      /\ frames \in Seq(Nat) /\ held' \in Seq(Nat)
      /\ WantedUpTo(next' - 1) = got \o (frames \o held')
      /\ flushed' = Segment!AtEnd
      /\ Segment!AtEnd => next' = Count + 1 /\ held' = <<>>
  BY <1>0, <1>1, Decoded
<1>3. got \in Seq(Nat) /\ remain = <<>>
  BY <1>0 DEF FramesInv, Frames, CallInv
<1>4. /\ got' \in Seq(Nat) /\ remain' \in Seq(Nat)
      /\ got' \o remain' = got \o frames
      /\ frames = <<>> => remain' = <<>>
  <2>1. CASE frames = <<>>
    BY <1>1, <1>3, <2>1, EmptySeq
  <2>2. CASE frames # <<>>
    <3>1. /\ Append(got, Head(frames)) \in Seq(Nat) /\ Tail(frames) \in Seq(Nat)
          /\ Append(got, Head(frames)) \o Tail(frames) = got \o frames
      <4>1. got \in Seq(Nat) /\ frames \in Seq(Nat)
        BY <1>2, <1>3
      <4> QED BY <2>2, <4>1, MoveHead
    <3> QED BY <1>1, <2>2, <3>1
  <2> QED BY <2>1, <2>2
<1>5. (got \o frames) \o held' = got \o (frames \o held')
  BY <1>2, <1>3, FramesAssociative
<1>6. Frames'
  BY <1>2, <1>4, <1>5 DEF Frames, WantedUpTo, Count
<1>7. CallInv'
  BY <1>0, <1>1, <1>2, <1>4 DEF CallInv, Count, Segment!NoFrame
<1> QED BY <1>6, <1>7 DEF FramesInv

LEMMA FramesStep == FramesInv /\ [ContentNext]_contentVars => FramesInv'
<1> SUFFICES ASSUME FramesInv, [ContentNext]_contentVars PROVE FramesInv'
  OBVIOUS
<1>1. CASE UNCHANGED Segment!segmentVars
  BY <1>1 DEF Segment!segmentVars, FramesInv, Frames, CallInv, WantedUpTo, Count
<1>2. CASE Segment!ParseContext
  <2>1. /\ call = "opening" /\ flushed' = FALSE /\ held' = <<>> /\ call' = "idle"
        /\ mode' \in {"all", "once", "defer", "drop", "read"}
        /\ UNCHANGED <<next, remain, got>>
    BY <1>2 DEF Segment!ParseContext, Segment!OpenCodec
  <2>2. /\ got = <<>> /\ remain = <<>> /\ next = 1 /\ <<>> \in Seq(Nat)
        /\ <<>> \o <<>> = <<>> /\ 1 - 1 = 0 /\ next \in 1..(Count + 1)
    BY <2>1, EmptySeq, ConcatEmptySeq DEF FramesInv, Frames, CallInv
  <2>3. Frames'
    BY <2>1, <2>2, WantedPackets DEF Frames, WantedUpTo, Count
  <2>4. CallInv'
    BY <2>1, <2>2 DEF CallInv, Count
  <2> QED BY <2>3, <2>4 DEF FramesInv
<1>3. CASE Segment!Probe \/ Segment!Fill
  BY <1>1, <1>3 DEF Segment!Probe, Segment!Fill
<1>4. CASE UNCHANGED segmentVars
  BY <1>1, <1>4 DEF segmentVars, Segment!segmentVars
<1> QED BY <1>2, <1>3, <1>4, CallStep, SkipStep, ConsumeStep, FakeStep, ConsumeOnceStep
        DEF ContentNext, contentVars, Segment!SegmentorNext, Segment!Work

(* One frame for every video packet, in order, however many the decoder    *)
(* keeps back, and one flush, behind the last packet                       *)
(* ("assert(!flushed)", context.cpp:202).                                  *)
THEOREM FramesCompleteness == ContentSpec => []FramesComplete
<1>1. ContentInit => FramesInv
  BY InitFrames DEF ContentInit
<1>2. FramesInv => FramesComplete
  <2> SUFFICES ASSUME FramesInv PROVE FramesComplete
    OBVIOUS
  <2>1. /\ got \in Seq(Nat) /\ remain \in Seq(Nat) /\ held \in Seq(Nat)
        /\ next - 1 \in 0..Count /\ WantedUpTo(next - 1) = (got \o remain) \o held
    BY CountIsNumber DEF FramesInv, Frames
  <2>2. PICK u \in Seq(Nat) : WantedUpTo(Count) = WantedUpTo(next - 1) \o u
    BY <2>1, WantedGrows
  <2>3. got \o remain \in Seq(Nat) /\ held \o u \in Seq(Nat)
    BY <2>1, ConcatProperties
  <2>4. WantedUpTo(Count) = (got \o remain) \o (held \o u)
    <3>1. ((got \o remain) \o held) \o u = (got \o remain) \o (held \o u)
      <4>1. held \in Seq(Nat) /\ got \o remain \in Seq(Nat)
        BY <2>1, <2>3
      <4> QED BY <4>1, <2>2, FramesAssociative
    <3> QED BY <2>1, <2>2, <3>1
  <2>5. Segment!IsPrefix(got \o remain, WantedUpTo(Count))
    BY <2>3, <2>4, PrefixOfConcat
  <2>6. ASSUME call \in {"done", "failed"} PROVE got = WantedUpTo(Count)
    <3>1. next = Count + 1 /\ held = <<>> /\ remain = <<>> /\ next - 1 = Count
      BY <2>6, CountIsNumber DEF FramesInv, CallInv
    <3>2. (got \o <<>>) \o <<>> = got
      BY <2>1, ConcatEmptySeq
    <3> QED BY <2>1, <3>1, <3>2
  <2>7. call = "called" => ~flushed
    BY DEF FramesInv, CallInv
  <2> QED BY <2>5, <2>6, <2>7
          DEF FramesComplete, Segment!FramesComplete, Segment!VideoPackets, WantedUpTo, Count
<1> QED BY <1>1, <1>2, FramesStep, PTL DEF ContentSpec
---------------------------------------------------------------------------------
(* The files that the commands make.                                       *)

Jobs == {Idle, <<"transcoded">>, <<"merged">>}
          \cup {<<command, n>> : command \in {"transcode", "merge"}, n \in Nat}
          \cup {<<"package", q, n>> : q \in Qps, n \in Nat}

(* The place of a tile in the loops of crop_scale_package.                 *)
Turn(t) == t[1] + t[2] * WCrop

FilesTypes ==
    /\ job \in Jobs
    /\ failures \in Nat
    /\ h264 \subseteq Tiles
    /\ mp4 \in [Qps -> SUBSET Tiles] /\ dash \in [Qps -> SUBSET Tiles]
    /\ packaged \subseteq Qps /\ segmented \subseteq packaged

(* Without a failure the batches so far have left their tiles.             *)
BatchesInv ==
    failures = 0 =>
        /\ job[1] = "transcode" /\ job[2] # 0 =>
              \A t \in Tiles : Number(t) < job[2] => t \in h264
        /\ job[1] = "transcoded" => h264 = Tiles

(* ... and so have the tiles packaged one by one; a mesh that is segmented *)
(* was packaged.                                                           *)
PackagesInv ==
    /\ \A q \in Qps \ packaged : mp4[q] = {} /\ dash[q] = {}
    /\ failures = 0 =>
          /\ \A q \in packaged : \/ mp4[q] = Tiles
                                 \/ job[1] = "package" /\ job[2] = q
          /\ job[1] = "package" => \A t \in Tiles : Turn(t) < job[3] => t \in mp4[job[2]]
          /\ \A q \in segmented : dash[q] = Tiles

FilesInv == FilesTypes /\ BatchesInv /\ PackagesInv

LEMMA TileNumbers ==
    /\ WCrop * HCrop \in Nat \ {0}
    /\ \A t \in Tiles : Number(t) \in Nat /\ Number(t) < WCrop * HCrop
    /\ \A t \in Tiles : Turn(t) \in Nat /\ Turn(t) < WCrop * HCrop
<1>1. WCrop * HCrop \in Nat \ {0}
  BY CommandAssumption
<1> SUFFICES ASSUME NEW t \in Tiles
             PROVE  /\ Number(t) \in Nat /\ Number(t) < WCrop * HCrop
                    /\ Turn(t) \in Nat /\ Turn(t) < WCrop * HCrop
  BY <1>1
<1> DEFINE c == t[1]  r == t[2]
<1>2. c \in 0..(WCrop - 1) /\ r \in 0..(HCrop - 1)
  BY DEF Tiles
<1>3. c * HCrop \in Nat /\ (c + 1) * HCrop <= WCrop * HCrop
  BY <1>2, CommandAssumption
<1>4. r * WCrop \in Nat /\ (r + 1) * WCrop <= WCrop * HCrop
  BY <1>2, CommandAssumption
<1> QED BY <1>1, <1>2, <1>3, <1>4, CommandAssumption DEF Number, Turn

LEMMA JobForms ==
    ASSUME job \in Jobs
    PROVE  /\ job[1] \in {"idle", "transcoded", "merged", "transcode", "merge", "package"}
           /\ job[1] = "idle" <=> job = Idle
           /\ job[1] = "transcoded" <=> job = <<"transcoded">>
           /\ job[1] = "merged" <=> job = <<"merged">>
           /\ job[1] \in {"transcode", "merge"} => job[2] \in Nat /\ job = <<job[1], job[2]>>
           /\ job[1] = "package" => /\ job[2] \in Qps /\ job[3] \in Nat
                                    /\ job = <<"package", job[2], job[3]>>
<1>1. CASE job \in {Idle, <<"transcoded">>, <<"merged">>}
  BY <1>1 DEF Idle
<1>2. CASE job \in {<<command, n>> : command \in {"transcode", "merge"}, n \in Nat}
  BY <1>2 DEF Idle
<1>3. CASE job \in {<<"package", q, n>> : q \in Qps, n \in Nat}
  BY <1>3 DEF Idle
<1> QED BY <1>1, <1>2, <1>3 DEF Jobs

LEMMA InitFiles == Init => FilesInv
<1> SUFFICES ASSUME Init PROVE FilesInv
  OBVIOUS
<1>1. job = Idle /\ failures = 0 /\ h264 = {} /\ packaged = {} /\ segmented = {}
      /\ mp4 = [q \in Qps |-> {}] /\ dash = [q \in Qps |-> {}]
  BY DEF Init
<1>2. job \in Jobs /\ job[1] = "idle"
  BY <1>1 DEF Jobs, Idle
<1> QED BY <1>1, <1>2 DEF FilesInv, FilesTypes, BatchesInv, PackagesInv

(* A batch takes up where the one before it ended.                         *)
LEMMA TranscodeStep == FilesInv /\ TranscodeBatch => FilesInv'
<1> SUFFICES ASSUME FilesInv, TranscodeBatch PROVE FilesInv'
  OBVIOUS
<1> DEFINE n == job[2]
<1>0. /\ job[1] = "transcode" /\ n \in Nat /\ failures \in Nat /\ Stride \in Nat \ {0}
      /\ UNCHANGED <<mp4, dash, packaged, segmented>>
  BY JobForms, CommandAssumption DEF TranscodeBatch, FilesInv, FilesTypes
<1>1. CASE n < WCrop * HCrop
  <2>1. job' = <<"transcode", n + Stride>> /\ Produce(Prepared(n), Batch(n), h264')
    BY <1>0, <1>1 DEF TranscodeBatch
  <2> HIDE DEF n
  <2>2. job' \in Jobs /\ job'[1] = "transcode" /\ job'[2] = n + Stride /\ n + Stride \in Nat
    BY <1>0, <2>1 DEF Jobs
  <2>3. Batch(n) \subseteq Tiles /\ Prepared(n) \subseteq Tiles
    BY DEF Batch, Prepared, FilesInv, FilesTypes
  <2>4. h264' \subseteq Tiles /\ failures' \in Nat
        /\ (failures' = 0 => failures = 0 /\ h264' = Prepared(n) \cup Batch(n))
    BY <1>0, <2>1, <2>3 DEF Produce
  <2>5. ASSUME failures' = 0, NEW t \in Tiles, Number(t) < n + Stride PROVE t \in h264'
    <3>1. CASE Number(t) < n
      <4>1. n # 0 /\ Number(t) < job[2]
        BY <3>1, TileNumbers DEF n
      <4>2. t \in h264
        BY <1>0, <2>4, <2>5, <4>1 DEF FilesInv, BatchesInv, n
      <4> QED BY <2>4, <2>5, <4>1, <4>2 DEF Prepared
    <3>2. CASE ~(Number(t) < n)
      <4>1. t \in Batch(n)
        BY <1>0, <2>5, <3>2, TileNumbers DEF Batch
      <4> QED BY <2>4, <2>5, <4>1
    <3> QED BY <3>1, <3>2
  <2>6. FilesTypes'
    BY <1>0, <2>2, <2>4 DEF FilesInv, FilesTypes, Jobs, Tiles
  <2>7. BatchesInv'
    BY <2>2, <2>5 DEF BatchesInv, Tiles, Number
  <2>8. PackagesInv'
    BY <1>0, <2>2, <2>4 DEF FilesInv, PackagesInv, Tiles
  <2> QED BY <2>6, <2>7, <2>8 DEF FilesInv
<1>2. CASE ~(n < WCrop * HCrop)
  <2>1. job' = <<"transcoded">> /\ UNCHANGED <<failures, h264>>
    BY <1>0, <1>2 DEF TranscodeBatch
  <2>2. job' \in Jobs /\ job'[1] = "transcoded"
    BY <2>1 DEF Jobs
  <2>3. ASSUME failures = 0 PROVE h264 = Tiles
    <3>1. \A t \in Tiles : Number(t) < n /\ n # 0
      BY <1>0, <1>2, TileNumbers
    <3>2. \A t \in Tiles : t \in h264
      BY <1>0, <2>3, <3>1 DEF FilesInv, BatchesInv
    <3> QED BY <3>2 DEF FilesInv, FilesTypes
  <2>4. FilesTypes'
    BY <1>0, <2>1, <2>2 DEF FilesInv, FilesTypes, Jobs, Tiles
  <2>5. BatchesInv'
    BY <2>1, <2>2, <2>3 DEF BatchesInv, Tiles
  <2>6. PackagesInv'
    BY <1>0, <2>1, <2>2 DEF FilesInv, PackagesInv, Tiles
  <2> QED BY <2>4, <2>5, <2>6 DEF FilesInv
<1> QED BY <1>1, <1>2

(* Row by row every tile has its turn.                                     *)
LEMMA PackageStep == FilesInv /\ PackageTile => FilesInv'
<1> SUFFICES ASSUME FilesInv, PackageTile PROVE FilesInv'
  OBVIOUS
<1> DEFINE q == job[2]
<1> DEFINE done == job[3]
<1> DEFINE tile == <<done % WCrop, done \div WCrop>>
<1>0. /\ job[1] = "package" /\ job = <<"package", q, done>> /\ q \in Qps /\ done \in Nat
      /\ failures \in Nat
      /\ UNCHANGED <<h264, dash, segmented>>
  BY JobForms DEF PackageTile, FilesInv, FilesTypes
<1>1. CASE done < WCrop * HCrop
  <2>1. /\ packaged' = packaged \cup {q} /\ job' = <<"package", q, done + 1>>
        /\ \E made \in SUBSET Tiles : /\ Produce(mp4[q], {tile}, made)
                                      /\ mp4' = [mp4 EXCEPT ![q] = made]
    BY <1>0, <1>1 DEF PackageTile
  <2>2. PICK made \in SUBSET Tiles : /\ Produce(mp4[q], {tile}, made)
                                     /\ mp4' = [mp4 EXCEPT ![q] = made]
    BY <2>1
  <2> HIDE DEF q, done, tile
  <2>3. /\ job' \in Jobs /\ job'[1] = "package" /\ job'[2] = q /\ job'[3] = done + 1
    BY <1>0, <2>1 DEF Jobs
  <2>4. /\ failures' \in Nat
        /\ failures' = 0 => failures = 0 /\ made = mp4[q] \cup {tile}
    BY <1>0, <2>2 DEF Produce
  <2>5. /\ mp4' \in [Qps -> SUBSET Tiles] /\ mp4'[q] = made
        /\ \A p \in Qps : p # q => mp4'[p] = mp4[p]
    BY <1>0, <2>2 DEF FilesInv, FilesTypes
  <2>6. FilesTypes'
    BY <1>0, <2>1, <2>3, <2>4, <2>5 DEF FilesInv, FilesTypes, Jobs, Tiles
  <2>7. BatchesInv'
    BY <2>3 DEF BatchesInv
  <2>8. ASSUME failures' = 0, NEW t \in Tiles, Turn(t) < done + 1 PROVE t \in mp4'[q]
    <3>1. CASE Turn(t) < done
      <4>1. t \in mp4[q]
        BY <1>0, <2>4, <2>8, <3>1 DEF FilesInv, PackagesInv, q, done
      <4> QED BY <2>4, <2>5, <2>8, <4>1
    <3>2. CASE ~(Turn(t) < done)
      <4>1. done = t[1] + t[2] * WCrop
        BY <1>0, <2>8, <3>2, TileNumbers DEF Turn
      <4>2. t[1] \in 0..(WCrop - 1) /\ t[2] \in Nat /\ t = <<t[1], t[2]>>
        BY DEF Tiles
      <4>3. done % WCrop = t[1] /\ done \div WCrop = t[2]
        BY <4>1, <4>2, Division, CommandAssumption
      <4>4. t = tile
        BY <4>2, <4>3 DEF tile
      <4> QED BY <2>4, <2>5, <2>8, <4>4
    <3> QED BY <3>1, <3>2
  <2>9. \A p \in Qps \ packaged' : mp4'[p] = {} /\ dash'[p] = {}
    BY <1>0, <2>1, <2>5 DEF FilesInv, PackagesInv
  <2>10. ASSUME failures' = 0, NEW p \in packaged', p # q PROVE mp4'[p] = Tiles
    BY <1>0, <2>1, <2>4, <2>5, <2>10 DEF FilesInv, FilesTypes, PackagesInv, q
  <2>11. failures' = 0 => \A p \in segmented' : dash'[p] = Tiles
    BY <1>0, <2>4 DEF FilesInv, PackagesInv
  <2>12. PackagesInv'
    BY <2>3, <2>8, <2>9, <2>10, <2>11 DEF PackagesInv, Tiles, Turn
  <2> QED BY <2>6, <2>7, <2>12 DEF FilesInv
<1>2. CASE ~(done < WCrop * HCrop)
  <2>1. job' = Idle /\ UNCHANGED <<failures, mp4, packaged>>
    BY <1>0, <1>2 DEF PackageTile
  <2>2. job' \in Jobs /\ job'[1] = "idle"
    BY <2>1 DEF Jobs, Idle
  <2>3. ASSUME failures = 0 PROVE mp4[q] = Tiles
    <3>1. \A t \in Tiles : Turn(t) < done
      BY <1>0, <1>2, TileNumbers
    <3>2. \A t \in Tiles : t \in mp4[q]
      BY <1>0, <2>3, <3>1 DEF FilesInv, PackagesInv
    <3>3. mp4[q] \subseteq Tiles
      BY <1>0 DEF FilesInv, FilesTypes
    <3> QED BY <3>2, <3>3
  <2>4. FilesTypes'
    BY <1>0, <2>1, <2>2 DEF FilesInv, FilesTypes, Jobs, Tiles
  <2>5. BatchesInv'
    BY <2>2 DEF BatchesInv
  <2>6. PackagesInv'
    BY <1>0, <2>1, <2>2, <2>3 DEF FilesInv, PackagesInv, Tiles
  <2> QED BY <2>4, <2>5, <2>6 DEF FilesInv
<1> QED BY <1>1, <1>2

LEMMA FilesStep == FilesInv /\ [Next]_vars => FilesInv'
<1> SUFFICES ASSUME FilesInv, [Next]_vars PROVE FilesInv'
  OBVIOUS
<1> DEFINE Same == UNCHANGED <<failures, h264, mp4, dash, packaged, segmented>>
<1>1. ASSUME Same, job' \in Jobs, job'[1] \in {"idle", "merge", "merged"}, job[1] # "package"
      PROVE  FilesInv'
  BY <1>1 DEF FilesInv, FilesTypes, BatchesInv, PackagesInv, Tiles, Turn
<1>2. CASE CropScaleTranscode
  <2>1. job = Idle /\ job' = <<"transcode", 0>> /\ Same
    BY <1>2 DEF CropScaleTranscode, files
  <2>2. job' \in Jobs /\ job'[1] = "transcode" /\ job'[2] = 0 /\ job[1] = "idle"
    BY <2>1 DEF Jobs, Idle
  <2> QED BY <2>1, <2>2 DEF FilesInv, FilesTypes, BatchesInv, PackagesInv, Tiles
<1>3. CASE \E q \in Qps : CropScalePackage(q)
  <2>1. PICK q \in Qps : job = Idle /\ job' = <<"package", q, 0>> /\ Same
    BY <1>3 DEF CropScalePackage, files
  <2>2. /\ job' \in Jobs /\ job'[1] = "package" /\ job'[2] = q /\ job'[3] = 0
        /\ job[1] = "idle"
    BY <2>1 DEF Jobs, Idle
  <2>3. \A t \in Tiles : ~(Turn(t) < 0)
    BY TileNumbers
  <2> QED BY <2>1, <2>2, <2>3
          DEF FilesInv, FilesTypes, BatchesInv, PackagesInv, Tiles, Turn
<1>4. CASE PackageContainer
  <2>1. /\ job' = Idle /\ job[1] = "transcoded" /\ failures \in Nat
        /\ failures' = failures \/ failures' = failures + 1
        /\ UNCHANGED <<h264, mp4, dash, packaged, segmented>>
    BY <1>4, JobForms DEF PackageContainer, Produce, FilesInv, FilesTypes
  <2>2. job' \in Jobs /\ job'[1] = "idle"
    BY <2>1 DEF Jobs, Idle
  <2>3. failures' \in Nat /\ (failures' = 0 => failures = 0)
    BY <2>1
  <2> QED BY <2>1, <2>2, <2>3 DEF FilesInv, FilesTypes, BatchesInv, PackagesInv, Tiles
<1>5. CASE DashSegment
  <2>1. /\ job = Idle /\ job' = job /\ segmented' = packaged
        /\ UNCHANGED <<h264, mp4, packaged>>
        /\ failures \in Nat
    BY <1>5 DEF DashSegment, MeshQpDirectory, FilesInv, FilesTypes
  <2>2. job' \in Jobs /\ job'[1] = "idle" /\ job[1] = "idle"
    BY <2>1 DEF Jobs, Idle
  <2>3. /\ dash' \in [Qps -> SUBSET Tiles] /\ failures' \in Nat
        /\ \A q \in Qps \ packaged : dash'[q] = {}
        /\ failures' = 0 => failures = 0 /\ dash' = mp4
    <3>1. CASE dash' = mp4 /\ UNCHANGED failures
      BY <2>1, <3>1 DEF FilesInv, FilesTypes, PackagesInv
    <3>2. CASE /\ failures' = failures + 1
               /\ \E q \in packaged : \E t \in mp4[q] :
                     dash' = [mp4 EXCEPT ![q] = @ \ {t}]
      <4>1. PICK q \in packaged : \E t \in mp4[q] : dash' = [mp4 EXCEPT ![q] = @ \ {t}]
        BY <3>2
      <4>2. PICK t \in mp4[q] : dash' = [mp4 EXCEPT ![q] = @ \ {t}]
        BY <4>1
      <4> QED BY <2>1, <3>2, <4>2 DEF FilesInv, FilesTypes, PackagesInv
    <3> QED BY <1>5, <3>1, <3>2 DEF DashSegment
  <2> QED BY <2>1, <2>2, <2>3 DEF FilesInv, FilesTypes, BatchesInv, PackagesInv, Tiles
<1>6. CASE DashSegmentOne
  <2>1. job = Idle /\ job' = job /\ Same
    BY <1>6 DEF DashSegmentOne
  <2>2. job' \in Jobs /\ job'[1] = "idle" /\ job[1] # "package"
    BY <2>1 DEF Jobs, Idle
  <2> QED BY <1>1, <2>1, <2>2
<1>7. CASE MergeDashMpd
  <2>1. job = Idle /\ job' = <<"merge", 0>> /\ Same
    BY <1>7 DEF MergeDashMpd, files
  <2>2. job' \in Jobs /\ job'[1] = "merge" /\ job[1] # "package"
    BY <2>1 DEF Jobs, Idle
  <2> QED BY <1>1, <2>1, <2>2
<1>8. CASE MergeOne
  <2>1. job[1] = "merge" /\ job' = <<"merge", job[2] + 1>> /\ job[2] \in Nat /\ Same
    BY <1>8, JobForms DEF MergeOne, files, FilesInv, FilesTypes
  <2>2. job' \in Jobs /\ job'[1] = "merge"
    BY <2>1 DEF Jobs
  <2> QED BY <1>1, <2>1, <2>2
<1>9. CASE Merged
  <2>1. job[1] = "merge" /\ job' = <<"merged">> /\ Same
    BY <1>9 DEF Merged, files
  <2>2. job' \in Jobs /\ job'[1] = "merged"
    BY <2>1 DEF Jobs
  <2> QED BY <1>1, <2>1, <2>2
<1>10. CASE UNCHANGED vars
  BY <1>10 DEF vars, files, FilesInv, FilesTypes, BatchesInv, PackagesInv, Tiles, Turn, Jobs
<1> QED BY <1>2, <1>3, <1>4, <1>5, <1>6, <1>7, <1>8, <1>9, <1>10, TranscodeStep, PackageStep
        DEF Next

(* Whatever is followed, the commands take a step of theirs or none.       *)
LEMMA CommandsMove == [ContentNext]_contentVars => [Next]_vars
BY DEF ContentNext, contentVars, indexVars, IndexNext, Parse

(* Every state of the commands has the files that its job says.            *)
THEOREM FilesInvariance == ContentSpec => []FilesInv
<1>1. ContentInit => FilesInv
  BY InitFiles DEF ContentInit, IndexInit
<1> QED BY <1>1, FilesStep, CommandsMove, PTL DEF ContentSpec

(* The batches encode every tile, whether or not the stride divides their  *)
(* number, and none deletes what an earlier one made (command.cpp:165-224).*)
THEOREM BatchesCompleteness == ContentSpec => []BatchesComplete
<1>1. FilesInv => BatchesComplete
  BY JobForms DEF FilesInv, FilesTypes, BatchesInv, BatchesComplete
<1> QED BY <1>1, FilesInvariance, PTL
---------------------------------------------------------------------------------
(* The document that is merged.                                            *)

Representations == [qp : Qps, id : Nat, template : BOOLEAN]
AdaptationSets == [mime : {"video"}, srd : {SpatialRelationship(t) : t \in Tiles},
                   represents : Seq(Representations)]

(* Where the representations are, and what is there.                       *)
Places(d) == UNION {{<<i, j>> : j \in 1..Len(d[i].represents)} : i \in 1..Len(d)}
Entry(d, p) == d[p[1]].represents[p[2]]
TileOf(set) == <<set.srd[2], set.srd[3]>>
Origin(d, p) == <<TileOf(d[p[1]]), Entry(d, p).qp>>

LEMMA PlaceIn ==
    ASSUME NEW d, NEW p
    PROVE  p \in Places(d) <=> \E i \in 1..Len(d) : \E j \in 1..Len(d[i].represents) :
                                  p = <<i, j>>
BY DEF Places

LEMMA TileOfSet ==
    ASSUME NEW set \in AdaptationSets
    PROVE  TileOf(set) \in Tiles /\ set.srd = SpatialRelationship(TileOf(set))
<1>1. PICK t \in Tiles : set.srd = SpatialRelationship(t)
  BY DEF AdaptationSets
<1>2. TileOf(set) = <<t[1], t[2]>>
  BY <1>1 DEF TileOf, SpatialRelationship
<1>3. t = <<t[1], t[2]>>
  BY DEF Tiles
<1> QED BY <1>1, <1>2, <1>3

(* The document e has what d has and a representation more, in place p.    *)
Adds(d, e, p) ==
    /\ Places(e) = Places(d) \cup {p} /\ p \notin Places(d)
    /\ \A r \in Places(d) : Entry(e, r) = Entry(d, r) /\ TileOf(e[r[1]]) = TileOf(d[r[1]])

LEMMA AddSet ==
    ASSUME NEW S, NEW d \in Seq(S), NEW set \in S, Len(set.represents) = 1
    PROVE  Adds(d, Append(d, set), <<Len(d) + 1, 1>>)
<1> DEFINE n == Len(d)
<1> DEFINE e == Append(d, set)
<1>1. n \in Nat /\ Len(e) = n + 1 /\ e[n + 1] = set /\ \A i \in 1..n : e[i] = d[i]
  BY AppendEntries, LenProperties
<1> HIDE DEF n, e
<1>2. ASSUME NEW i \in 1..(n + 1) PROVE i = n + 1 \/ i \in 1..n
  BY <1>1
<1>3. n + 1 \in 1..(n + 1) /\ n + 1 \notin 1..n /\ \A i \in 1..n : i \in 1..(n + 1)
  BY <1>1
<1>4. 1..Len(e[n + 1].represents) = {1}
  <2>1. Len(e[n + 1].represents) = 1
    BY <1>1
  <2>2. 1..1 = {1}
    OBVIOUS
  <2> QED BY <2>1, <2>2
<1>5. ASSUME NEW p PROVE p \in Places(e) <=> p \in Places(d) \/ p = <<n + 1, 1>>
  <2>1. p \in Places(e) <=> \E i \in 1..(n + 1) : \E j \in 1..Len(e[i].represents) :
                               p = <<i, j>>
    BY <1>1, PlaceIn
  <2>2. p \in Places(d) <=> \E i \in 1..n : \E j \in 1..Len(d[i].represents) : p = <<i, j>>
    BY PlaceIn DEF n
  <2> QED BY <1>1, <1>2, <1>3, <1>4, <2>1, <2>2
<1>6. <<n + 1, 1>> \notin Places(d)
  <2>1. ASSUME NEW i \in 1..n, NEW j \in 1..Len(d[i].represents), <<n + 1, 1>> = <<i, j>>
        PROVE  FALSE
    BY <1>3, <2>1
  <2> QED BY <2>1, PlaceIn DEF n
<1>7. ASSUME NEW r \in Places(d) PROVE r[1] \in 1..n
  BY PlaceIn DEF n
<1> QED BY <1>1, <1>5, <1>6, <1>7 DEF Adds, Entry, n, e

(* The last set of a document is replaced.                                 *)
LEMMA ReplaceLast ==
    ASSUME NEW S, NEW d \in Seq(S), d # <<>>, NEW set \in S
    PROVE  /\ Front(d) \o <<set>> \in Seq(S)
           /\ Len(Front(d) \o <<set>>) = Len(d) /\ Len(d) \in Nat \ {0}
           /\ \A i \in 1..(Len(d) - 1) : (Front(d) \o <<set>>)[i] = d[i]
           /\ (Front(d) \o <<set>>)[Len(d)] = set
<1> DEFINE n == Len(d)
<1> DEFINE f == Front(d)
<1>1. n \in Nat \ {0} /\ \A i \in 1..n : d[i] \in S
  BY EmptySeq, LenProperties
<1>2. f \in Seq(S) /\ Len(f) = n - 1 /\ \A i \in 1..(n - 1) : f[i] = d[i]
  <2>1. \A i \in 1..(n - 1) : d[i] \in S
    BY <1>1
  <2>2. /\ SubSeq(d, 1, n - 1) \in Seq(S)
        /\ Len(SubSeq(d, 1, n - 1)) = IF 1 <= n - 1 THEN n - 1 - 1 + 1 ELSE 0
        /\ \A i \in 1..(n - 1 - 1 + 1) : SubSeq(d, 1, n - 1)[i] = d[1 + i - 1]
    BY <1>1, <2>1, SubSeqProperties
  <2>3. f = SubSeq(d, 1, n - 1)
    BY DEF Front
  <2> HIDE DEF n, f
  <2>4. n - 1 - 1 + 1 = n - 1 /\ \A i \in 1..(n - 1) : 1 + i - 1 = i
    BY <1>1
  <2>5. Len(f) = n - 1
    BY <1>1, <2>2, <2>3
  <2> QED BY <2>2, <2>3, <2>4, <2>5
<1> HIDE DEF n, f
<1>3. <<set>> \in Seq(S) /\ Len(<<set>>) = 1 /\ <<set>>[1] = set
  OBVIOUS
<1>4. /\ f \o <<set>> \in Seq(S) /\ Len(f \o <<set>>) = (n - 1) + 1
      /\ \A i \in 1..((n - 1) + 1) : (f \o <<set>>)[i] = IF i <= n - 1 THEN f[i]
                                                        ELSE <<set>>[i - (n - 1)]
  BY <1>2, <1>3, ConcatProperties
<1>5. (n - 1) + 1 = n /\ n \in 1..n /\ ~(n <= n - 1) /\ n - (n - 1) = 1
      /\ \A i \in 1..(n - 1) : i \in 1..n /\ i <= n - 1
  BY <1>1
<1> QED BY <1>1, <1>2, <1>3, <1>4, <1>5 DEF n, f

LEMMA AddRepresentation ==
    ASSUME NEW S, NEW d \in Seq(S), NEW e, NEW L \in Nat, d # <<>>,
           Len(e) = Len(d), \A i \in 1..(Len(d) - 1) : e[i] = d[i],
           TileOf(e[Len(d)]) = TileOf(d[Len(d)]),
           Len(d[Len(d)].represents) = L, Len(e[Len(d)].represents) = L + 1,
           \A j \in 1..L : e[Len(d)].represents[j] = d[Len(d)].represents[j]
    PROVE  Adds(d, e, <<Len(d), L + 1>>)
<1> DEFINE n == Len(d)
<1>1. n \in Nat \ {0}
  BY EmptySeq, LenProperties
<1> HIDE DEF n
<1>2. \A i \in 1..n : i = n \/ i \in 1..(n - 1)
  BY <1>1
<1>3. n \in 1..n /\ n \notin 1..(n - 1) /\ \A i \in 1..(n - 1) : i \in 1..n
  BY <1>1
<1>4. \A j : j \in 1..(L + 1) <=> j \in 1..L \/ j = L + 1
  OBVIOUS
<1>5. L + 1 \notin 1..L
  OBVIOUS
<1> DEFINE Before(p) == \E i \in 1..(n - 1) : \E j \in 1..Len(d[i].represents) : p = <<i, j>>
<1>6. ASSUME NEW p
      PROVE  p \in Places(d) <=> (\E j \in 1..L : p = <<n, j>>) \/ Before(p)
  <2>1. p \in Places(d) <=> \E i \in 1..n : \E j \in 1..Len(d[i].represents) : p = <<i, j>>
    BY PlaceIn DEF n
  <2>2. Len(d[n].represents) = L
    BY DEF n
  <2> QED BY <1>2, <1>3, <2>1, <2>2
<1>7. ASSUME NEW p
      PROVE  p \in Places(e) <=> (\E j \in 1..(L + 1) : p = <<n, j>>) \/ Before(p)
  <2>1. p \in Places(e) <=> \E i \in 1..n : \E j \in 1..Len(e[i].represents) : p = <<i, j>>
    BY PlaceIn DEF n
  <2>2. Len(e[n].represents) = L + 1 /\ \A i \in 1..(n - 1) : e[i] = d[i]
    BY DEF n
  <2> QED BY <1>2, <1>3, <2>1, <2>2
<1>8. \A p : p \in Places(e) <=> p \in Places(d) \/ p = <<n, L + 1>>
  BY <1>4, <1>6, <1>7
<1>9. <<n, L + 1>> \notin Places(d)
  BY <1>3, <1>5, <1>6
<1>10. ASSUME NEW r \in Places(d)
       PROVE  Entry(e, r) = Entry(d, r) /\ TileOf(e[r[1]]) = TileOf(d[r[1]])
  <2>1. CASE \E j \in 1..L : r = <<n, j>>
    <3>1. PICK j \in 1..L : r = <<n, j>>
      BY <2>1
    <3>2. r[1] = n /\ r[2] = j
      BY <3>1
    <3> QED BY <3>2 DEF Entry, n
  <2>2. CASE Before(r)
    <3>1. r[1] \in 1..(n - 1)
      BY <2>2
    <3>2. e[r[1]] = d[r[1]]
      BY <3>1 DEF n
    <3> QED BY <3>2 DEF Entry
  <2> QED BY <1>6, <2>1, <2>2
<1> QED BY <1>8, <1>9, <1>10 DEF Adds, n

(* The order of the coordinates is strict and total.                       *)
LEMMA TilesInOrder ==
    /\ \A s, t \in Tiles : Earlier(s, t) => ~Earlier(t, s) /\ s # t
    /\ \A s, t \in Tiles : s # t => Earlier(s, t) \/ Earlier(t, s)
    /\ \A s, t, u \in Tiles : Earlier(s, t) /\ Earlier(t, u) => Earlier(s, u)
<1>1. \A t \in Tiles : t[1] \in Int /\ t[2] \in Int /\ t = <<t[1], t[2]>>
  BY DEF Tiles
<1>2. ASSUME NEW s \in Tiles, NEW t \in Tiles, NEW u \in Tiles
      PROVE  /\ Earlier(s, t) => ~Earlier(t, s) /\ s # t
             /\ s # t => Earlier(s, t) \/ Earlier(t, s)
             /\ Earlier(s, t) /\ Earlier(t, u) => Earlier(s, u)
  <2>1. /\ s[1] \in Int /\ s[2] \in Int /\ t[1] \in Int /\ t[2] \in Int
        /\ u[1] \in Int /\ u[2] \in Int
    BY <1>1
  <2>2. s # t => s[1] # t[1] \/ s[2] # t[2]
    BY <1>1
  <2> QED BY <2>1, <2>2 DEF Earlier
<1> QED BY <1>2

(* The last Representation gets a number, the rest of a set stays.         *)
LEMMA NumberedLast ==
    ASSUME NEW set \in AdaptationSets, set.represents # <<>>, NEW id \in Nat
    PROVE  LET n == Len(set.represents)
               numbered == Numbered(set, id)
           IN  /\ numbered \in AdaptationSets
               /\ numbered.srd = set.srd
               /\ Len(numbered.represents) = n
               /\ \A j \in 1..(n - 1) : numbered.represents[j] = set.represents[j]
               /\ numbered.represents[n] = [set.represents[n] EXCEPT !.id = id]
<1> DEFINE r == set.represents
<1> DEFINE n == Len(r)
<1> DEFINE last == [r[n] EXCEPT !.id = id]
<1>1. r \in Seq(Representations)
  BY DEF AdaptationSets
<1>2. n \in Nat \ {0} /\ r[n] \in Representations
  BY <1>1, EmptySeq, LenProperties
<1>3. last \in Representations
  BY <1>2 DEF Representations
<1>4. Numbered(set, id) = [set EXCEPT !.represents = [r EXCEPT ![n] = last]]
  BY DEF Numbered, AdaptationSets
<1> HIDE DEF r, last
<1>5. /\ [r EXCEPT ![n] = last] \in Seq(Representations)
      /\ Len([r EXCEPT ![n] = last]) = n
      /\ \A j \in 1..n : [r EXCEPT ![n] = last][j] = IF j = n THEN last ELSE r[j]
  BY <1>1, <1>2, <1>3, ExceptSeq
<1> HIDE DEF n
<1>6. n \in 1..n /\ \A j \in 1..(n - 1) : j \in 1..n /\ j # n
  BY <1>2
<1>7. /\ [r EXCEPT ![n] = last][n] = last
      /\ \A j \in 1..(n - 1) : [r EXCEPT ![n] = last][j] = r[j]
  BY <1>5, <1>6
<1>8. /\ Numbered(set, id) \in AdaptationSets /\ Numbered(set, id).srd = set.srd
      /\ Numbered(set, id).represents = [r EXCEPT ![n] = last]
  BY <1>4, <1>5 DEF AdaptationSets
<1> QED BY <1>5, <1>7, <1>8 DEF r, n, last

(* The document has a Representation for each of the files read, all with  *)
(* a template and numbered in some order.                                  *)
Covers(d, read, n) ==
    /\ IsFiniteSet(Places(d)) /\ Cardinality(Places(d)) = n
    /\ IsFiniteSet(read) /\ Cardinality(read) = n
    /\ {Origin(d, p) : p \in Places(d)} = read
    /\ {Entry(d, p).id : p \in Places(d)} = 1..n
    /\ \A p \in Places(d) : Entry(d, p).template

LEMMA CoversNothing == Covers(<<>>, {}, 0)
<1>1. Places(<<>>) = {}
  <2>1. 1..Len(<<>>) = {}
    OBVIOUS
  <2> QED BY <2>1 DEF Places
<1>2. 1..0 = {}
  OBVIOUS
<1> QED BY <1>1, <1>2, FS_EmptySet DEF Covers

LEMMA CoversOneMore ==
    ASSUME NEW d, NEW e, NEW read, NEW n \in Nat, NEW p, NEW source, source \notin read,
           Covers(d, read, n), Adds(d, e, p),
           Origin(e, p) = source, Entry(e, p).id = n + 1, Entry(e, p).template
    PROVE  Covers(e, read \cup {source}, n + 1)
<1>1. /\ IsFiniteSet(Places(e)) /\ Cardinality(Places(e)) = n + 1
      /\ IsFiniteSet(read \cup {source}) /\ Cardinality(read \cup {source}) = n + 1
  BY FS_AddElement DEF Covers, Adds
<1>2. \A r \in Places(d) : Entry(e, r) = Entry(d, r) /\ Origin(e, r) = Origin(d, r)
  BY DEF Adds, Origin
<1>3. {Origin(e, r) : r \in Places(e)} = {Origin(d, r) : r \in Places(d)} \cup {source}
  BY <1>2 DEF Adds
<1>4. {Entry(e, r).id : r \in Places(e)} = {Entry(d, r).id : r \in Places(d)} \cup {n + 1}
  BY <1>2 DEF Adds
<1>5. (1..n) \cup {n + 1} = 1..(n + 1)
  OBVIOUS
<1>6. \A r \in Places(e) : Entry(e, r).template
  BY <1>2 DEF Adds, Covers
<1> QED BY <1>1, <1>3, <1>4, <1>5, <1>6 DEF Covers

(* The sets are in the order of their coordinates, and none is behind a    *)
(* coordinate that is still to come.                                       *)
Ordered(d) ==
    /\ \A i \in 1..Len(d) : d[i].represents # <<>>
    /\ \A i, j \in 1..Len(d) : i < j => Earlier(TileOf(d[i]), TileOf(d[j]))

Ahead(d, sources) ==
    \A i \in 1..Len(d) : \A source \in sources : ~Earlier(source[1], TileOf(d[i]))

(* What has been read.                                                     *)
ReadSoFar == TilePathList \ unmerged

MergeInv ==
    job[1] \in {"merge", "merged"} =>
        /\ packaged # {} /\ segmented = packaged /\ \A q \in packaged : dash[q] # {}
        /\ unmerged \subseteq TilePathList
        /\ job[1] = "merge" => Covers(document, ReadSoFar, job[2])
        /\ job[1] = "merged" => /\ unmerged = {}
                                /\ \E n \in Nat : Covers(document, ReadSoFar, n)
        /\ document \in Seq(AdaptationSets)
        /\ Ordered(document) /\ Ahead(document, unmerged)

(* The files to read are few enough to be counted.                         *)
LEMMA FilesRead == FilesInv => IsFiniteSet(TilePathList) /\ TilePathList \subseteq Tiles \X Qps
<1> SUFFICES ASSUME FilesInv
             PROVE  IsFiniteSet(TilePathList) /\ TilePathList \subseteq Tiles \X Qps
  OBVIOUS
<1>1. TilePathList \subseteq Tiles \X Qps
  BY DEF TilePathList, MeshDirectories, FilesInv, FilesTypes
<1>2. IsFiniteSet(Tiles)
  <2>1. IsFiniteSet(0..(WCrop - 1)) /\ IsFiniteSet(0..(HCrop - 1))
    BY FS_Interval, CommandAssumption
  <2> QED BY <2>1, FS_Product DEF Tiles
<1>3. IsFiniteSet(Tiles \X Qps)
  BY <1>2, FS_Product, CommandAssumption
<1> QED BY <1>1, <1>3, FS_Subset

(* What a merged document adds for a quantizer.                            *)
IsNew(r, q, id) == r.qp = q /\ r.id = id /\ r.template = TRUE

LEMMA NewRepresentation ==
    ASSUME NEW q \in Qps, NEW template \in BOOLEAN, NEW id \in Nat
    PROVE  /\ Appended(q, template) \in Representations
           /\ IsNew([Appended(q, template) EXCEPT !.id = id], q, id)
<1>1. Representation(q, template) \in Representations /\ Representation(q, template).qp = q
  BY DEF Representation, Representations
<1>2. /\ Appended(q, template) \in Representations
      /\ Appended(q, template).qp = q /\ Appended(q, template).template = TRUE
  BY <1>1 DEF Appended, WithTemplate, Representations
<1> QED BY <1>2 DEF Representations, IsNew

(* A file is merged into the last set, or into a new one behind it.        *)
LEMMA MergeOneStep == FilesInv /\ MergeInv /\ MergeOne => MergeInv'
<1> SUFFICES ASSUME FilesInv, MergeInv, MergeOne PROVE MergeInv'
  OBVIOUS
<1> DEFINE n == job[2]
<1> DEFINE Merge(source, template) ==
             IF NotNull(source[1])
             THEN Front(document)
                    \o <<Numbered([Last(document) EXCEPT !.represents =
                                     Append(@, Appended(source[2], template))], n + 1)>>
             ELSE Append(document, Numbered(Cloned(source[1], source[2], template), n + 1))
<1>0. /\ job[1] = "merge" /\ n \in Nat /\ job' = <<"merge", n + 1>>
      /\ UNCHANGED <<failures, dash, packaged, segmented>>
  BY JobForms DEF MergeOne, files, FilesInv, FilesTypes
<1>1. PICK source \in unmerged, template \in BOOLEAN :
          /\ \A other \in unmerged : ~Earlier(other[1], source[1])
          /\ document' = Merge(source, template)
          /\ unmerged' = unmerged \ {source}
  BY DEF MergeOne
<1> DEFINE t == source[1]
<1> DEFINE q == source[2]
<1> DEFINE read == ReadSoFar
<1>2. /\ packaged # {} /\ segmented = packaged /\ \A m \in packaged : dash[m] # {}
      /\ unmerged \subseteq TilePathList
      /\ Covers(document, read, n)
      /\ document \in Seq(AdaptationSets)
      /\ Ordered(document) /\ Ahead(document, unmerged)
  BY <1>0 DEF MergeInv
<1>3. /\ TilePathList \subseteq Tiles \X Qps /\ \A other \in unmerged : other[1] \in Tiles
      /\ t \in Tiles /\ q \in Qps /\ source = <<t, q>>
      /\ source \in TilePathList /\ source \notin read
  BY <1>2, FilesRead DEF ReadSoFar
<1>4. TilePathList' = TilePathList /\ ReadSoFar' = read \cup {source}
  <2>1. TilePathList' = TilePathList
    BY <1>0 DEF TilePathList, MeshDirectories, Tiles
  <2> QED BY <1>1, <1>3, <2>1 DEF ReadSoFar
<1> HIDE DEF n, t, q, read
<1>5. Appended(q, template) \in Representations
      /\ IsNew([Appended(q, template) EXCEPT !.id = n + 1], q, n + 1)
  <2>1. n + 1 \in Nat
    BY <1>0
  <2> QED BY <1>3, <2>1, NewRepresentation
<1>6. SUFFICES ASSUME document' \in Seq(AdaptationSets), Ordered(document'),
                      Ahead(document', unmerged'), Covers(document', read \cup {source}, n + 1)
               PROVE  MergeInv'
  <2>1. CASE NotNull(t)
    <3> DEFINE k == Len(document)
    <3> DEFINE old == document[k]
    <3> DEFINE more == [old EXCEPT !.represents = Append(@, Appended(q, template))]
    <3> DEFINE set == Numbered(more, n + 1)
    <3> DEFINE L == Len(old.represents)
    <3>1. document # <<>> /\ k \in Nat \ {0} /\ old \in AdaptationSets
          /\ old.srd = SpatialRelationship(t) /\ Last(document) = old
      BY <1>2, <2>1, EmptySeq, LenProperties DEF NotNull, Last
    <3>2. /\ old.represents \in Seq(Representations) /\ L \in Nat
      <4>1. old.represents \in Seq(Representations)
        BY <3>1 DEF AdaptationSets
      <4> QED BY <4>1, LenProperties
    <3>3. document' = Front(document) \o <<set>>
      BY <1>1, <2>1, <3>1 DEF t, q
    <3> HIDE DEF k, old
    <3>4. /\ more.represents = Append(old.represents, Appended(q, template))
          /\ more \in AdaptationSets /\ more.srd = old.srd
      BY <1>5, <3>1, <3>2, AppendProperties DEF AdaptationSets
    <3>5. /\ Len(more.represents) = L + 1 /\ more.represents # <<>>
          /\ \A j \in 1..L : more.represents[j] = old.represents[j]
          /\ more.represents[L + 1] = Appended(q, template)
      BY <1>5, <3>2, <3>4, AppendEntries
    <3> HIDE DEF more, L
    <3>6. /\ set \in AdaptationSets /\ set.srd = more.srd
          /\ Len(set.represents) = L + 1
          /\ \A j \in 1..L : set.represents[j] = more.represents[j]
          /\ set.represents[L + 1] = [more.represents[L + 1] EXCEPT !.id = n + 1]
      <4>1. n + 1 \in Nat /\ (L + 1) - 1 = L
        BY <1>0, <3>2
      <4>2. /\ set \in AdaptationSets /\ set.srd = more.srd
            /\ Len(set.represents) = Len(more.represents)
            /\ \A j \in 1..(Len(more.represents) - 1) :
                  set.represents[j] = more.represents[j]
            /\ set.represents[Len(more.represents)] =
                  [more.represents[Len(more.represents)] EXCEPT !.id = n + 1]
        BY <3>4, <3>5, <4>1, NumberedLast
      <4> HIDE DEF set
      <4> QED BY <3>5, <4>1, <4>2
    <3>7. IsNew(set.represents[L + 1], q, n + 1) /\ TileOf(set) = t /\ TileOf(old) = t
      <4>1. IsNew(set.represents[L + 1], q, n + 1)
        BY <1>5, <3>5, <3>6
      <4>2. set.srd = SpatialRelationship(t) /\ old.srd = SpatialRelationship(t)
        BY <3>1, <3>4, <3>6
      <4> HIDE DEF set
      <4>3. TileOf(set) = <<t[1], t[2]>> /\ TileOf(old) = <<t[1], t[2]>>
        BY <4>2 DEF TileOf, SpatialRelationship
      <4>4. t = <<t[1], t[2]>>
        BY <1>3 DEF Tiles
      <4> QED BY <4>1, <4>3, <4>4
    <3> HIDE DEF set
    <3>8. /\ document' \in Seq(AdaptationSets)
          /\ Len(document') = k /\ document'[k] = set
          /\ \A i \in 1..(k - 1) : document'[i] = document[i]
      BY <1>2, <3>1, <3>3, <3>6, ReplaceLast DEF k
    <3>9. \A i \in 1..k : i = k \/ i \in 1..(k - 1)
      BY <3>1
    <3>10. \A i \in 1..k : TileOf(document'[i]) = TileOf(document[i])
      BY <3>7, <3>8, <3>9 DEF old
    <3>11. Ordered(document')
      <4>1. set.represents # <<>>
        BY <3>2, <3>6 DEF L
      <4>2. \A i \in 1..k : document'[i].represents # <<>>
        BY <1>2, <3>8, <3>9, <4>1 DEF Ordered, k
      <4> QED BY <1>2, <3>8, <3>10, <4>2 DEF Ordered, k
    <3>12. Ahead(document', unmerged')
      BY <1>1, <1>2, <3>8, <3>10 DEF Ahead, k
    <3>13. Adds(document, document', <<k, L + 1>>)
      <4>1. /\ Len(document') = k /\ TileOf(document'[k]) = TileOf(old)
            /\ \A i \in 1..(k - 1) : document'[i] = document[i]
            /\ Len(old.represents) = L /\ Len(document'[k].represents) = L + 1
            /\ \A j \in 1..L : document'[k].represents[j] = old.represents[j]
        BY <3>5, <3>6, <3>7, <3>8 DEF L
      <4>2. k = Len(document) /\ old = document[k]
        BY DEF k, old
      <4> QED BY <1>2, <3>1, <3>2, <4>1, <4>2, AddRepresentation
    <3>14. IsNew(Entry(document', <<k, L + 1>>), q, n + 1)
           /\ Origin(document', <<k, L + 1>>) = source
      BY <1>3, <3>7, <3>8 DEF Entry, Origin, IsNew
    <3>15. Covers(document', read \cup {source}, n + 1)
      BY <1>0, <1>2, <1>3, <3>13, <3>14, CoversOneMore DEF IsNew
    <3> QED BY <1>6, <3>8, <3>11, <3>12, <3>15
  <2>2. CASE ~NotNull(t)
    <3> DEFINE k == Len(document)
    <3> DEFINE cloned == Cloned(t, q, template)
    <3> DEFINE set == Numbered(cloned, n + 1)
    <3>1. k \in Nat /\ \A i \in 1..k : document[i] \in AdaptationSets
      BY <1>2, LenProperties
    <3>2. /\ cloned.represents = <<Appended(q, template)>>
          /\ cloned.srd = SpatialRelationship(t) /\ cloned \in AdaptationSets
      <4>1. cloned = [mime |-> "video", srd |-> SpatialRelationship(t),
                      represents |-> <<Appended(q, template)>>]
        BY DEF Cloned, Appended
      <4>2. <<Appended(q, template)>> \in Seq(Representations)
        BY <1>5
      <4> HIDE DEF cloned
      <4> QED BY <1>3, <4>1, <4>2 DEF AdaptationSets
    <3>3. document' = Append(document, set)
      BY <1>1, <2>2 DEF t, q
    <3> HIDE DEF cloned
    <3>4. /\ Len(cloned.represents) = 1 /\ cloned.represents # <<>>
          /\ cloned.represents[1] = Appended(q, template)
      BY <3>2
    <3>5. /\ set \in AdaptationSets /\ set.srd = SpatialRelationship(t)
          /\ Len(set.represents) = 1
          /\ set.represents[1] = [cloned.represents[1] EXCEPT !.id = n + 1]
      <4>1. n + 1 \in Nat
        BY <1>0
      <4>2. /\ set \in AdaptationSets /\ set.srd = cloned.srd
            /\ Len(set.represents) = Len(cloned.represents)
            /\ set.represents[Len(cloned.represents)] =
                  [cloned.represents[Len(cloned.represents)] EXCEPT !.id = n + 1]
        BY <3>2, <3>4, <4>1, NumberedLast
      <4> HIDE DEF set
      <4> QED BY <3>2, <3>4, <4>2
    <3>6. IsNew(set.represents[1], q, n + 1) /\ TileOf(set) = t
      <4>1. IsNew(set.represents[1], q, n + 1)
        BY <1>5, <3>4, <3>5
      <4> HIDE DEF set
      <4>2. TileOf(set) = <<t[1], t[2]>>
        BY <3>5 DEF TileOf, SpatialRelationship
      <4>3. t = <<t[1], t[2]>>
        BY <1>3 DEF Tiles
      <4> QED BY <4>1, <4>2, <4>3
    <3> HIDE DEF set, k
    <3>7. /\ document' \in Seq(AdaptationSets)
          /\ Len(document') = k + 1 /\ document'[k + 1] = set
          /\ \A i \in 1..k : document'[i] = document[i]
      BY <1>2, <3>3, <3>5, AppendEntries DEF k
    <3>8. \A i \in 1..(k + 1) : i = k + 1 \/ i \in 1..k
      BY <3>1
    <3>9. \A i \in 1..k : TileOf(document[i]) \in Tiles
      BY <3>1, TileOfSet
    <3>10. ASSUME NEW i \in 1..k PROVE Earlier(TileOf(document[i]), t)
      <4>1. k \in 1..k /\ document[k] \in AdaptationSets /\ document # <<>>
        BY <1>2, <3>1, EmptySeq DEF k
      <4>2. ~Earlier(t, TileOf(document[k])) /\ TileOf(document[k]) \in Tiles
        BY <1>2, <3>9, <4>1 DEF Ahead, t, k
      <4>3. TileOf(document[k]) # t
        BY <2>2, <4>1, TileOfSet DEF NotNull, Last, k
      <4>4. Earlier(TileOf(document[k]), t)
        BY <1>3, <4>2, <4>3, TilesInOrder
      <4>5. i = k \/ i < k
        BY <3>1
      <4>6. i < k => Earlier(TileOf(document[i]), TileOf(document[k]))
        BY <1>2, <4>1 DEF Ordered, k
      <4> QED BY <1>3, <3>9, <4>2, <4>4, <4>5, <4>6, TilesInOrder
    <3>11. Ordered(document')
      <4>1. set.represents # <<>>
        BY <3>5
      <4>2. \A i \in 1..(k + 1) : document'[i].represents # <<>>
        BY <1>2, <3>7, <3>8, <4>1 DEF Ordered, k
      <4>3. ASSUME NEW i \in 1..(k + 1), NEW j \in 1..(k + 1), i < j
            PROVE  Earlier(TileOf(document'[i]), TileOf(document'[j]))
        <5>1. i \in 1..k
          BY <3>1, <4>3
        <5>2. CASE j = k + 1
          BY <3>6, <3>7, <3>10, <5>1, <5>2
        <5>3. CASE j \in 1..k
          BY <1>2, <3>7, <4>3, <5>1, <5>3 DEF Ordered, k
        <5> QED BY <3>8, <5>2, <5>3
      <4> QED BY <3>7, <4>2, <4>3 DEF Ordered
    <3>12. Ahead(document', unmerged')
      <4>1. \A u \in unmerged' : u \in unmerged /\ ~Earlier(u[1], t)
        BY <1>1 DEF t
      <4>2. \A i \in 1..k : \A u \in unmerged' : ~Earlier(u[1], TileOf(document'[i]))
        BY <1>2, <3>7, <4>1 DEF Ahead, k
      <4> QED BY <3>6, <3>7, <3>8, <4>1, <4>2 DEF Ahead
    <3>13. Adds(document, document', <<k + 1, 1>>)
      BY <1>2, <3>3, <3>5, AddSet DEF k
    <3>14. IsNew(Entry(document', <<k + 1, 1>>), q, n + 1)
           /\ Origin(document', <<k + 1, 1>>) = source
      BY <1>3, <3>6, <3>7 DEF Entry, Origin, IsNew
    <3>15. Covers(document', read \cup {source}, n + 1)
      BY <1>0, <1>2, <1>3, <3>13, <3>14, CoversOneMore DEF IsNew
    <3> QED BY <1>6, <3>7, <3>11, <3>12, <3>15
  <2> QED BY <2>1, <2>2
<1>7. job'[1] = "merge" /\ job'[2] = n + 1
  BY <1>0
<1>8. unmerged' \subseteq TilePathList'
  BY <1>1, <1>2, <1>4
<1> QED BY <1>0, <1>2, <1>4, <1>6, <1>7, <1>8 DEF MergeInv

LEMMA InitMerge == Init => MergeInv
BY DEF Init, MergeInv, Idle

LEMMA MergeStep == FilesInv /\ MergeInv /\ [Next]_vars => MergeInv'
<1> SUFFICES ASSUME FilesInv, MergeInv, [Next]_vars PROVE MergeInv'
  OBVIOUS
<1>1. CASE job'[1] \notin {"merge", "merged"}
  BY <1>1 DEF MergeInv
<1>2. CASE MergeDashMpd
  <2>1. /\ job' = <<"merge", 0>> /\ document' = <<>>
        /\ UNCHANGED <<dash, packaged, segmented>>
        /\ packaged # {} /\ segmented = packaged /\ \A q \in packaged : dash[q] # {}
        /\ unmerged' = {file \in Tiles \X Qps : file[1] \in dash[file[2]]}
    BY <1>2 DEF MergeDashMpd, MeshDirectories, files
  <2>2. \A q \in Qps : q \notin packaged => dash[q] = {}
    BY DEF FilesInv, PackagesInv
  <2>3. unmerged' = TilePathList /\ TilePathList' = TilePathList
    <3>1. packaged \subseteq Qps
      BY DEF FilesInv, FilesTypes
    <3> QED BY <2>1, <2>2, <3>1 DEF TilePathList, MeshDirectories, Tiles
  <2>4. ReadSoFar' = {} /\ unmerged' \subseteq TilePathList'
    BY <2>3 DEF ReadSoFar
  <2>5. Covers(document', ReadSoFar', 0)
    BY <2>1, <2>4, CoversNothing
  <2>6. document' \in Seq(AdaptationSets) /\ Len(document') = 0 /\ 1..0 = {}
    BY <2>1
  <2>7. Ordered(document') /\ Ahead(document', unmerged')
    BY <2>6 DEF Ordered, Ahead
  <2>8. job'[1] = "merge" /\ job'[2] = 0
    BY <2>1
  <2> QED BY <2>1, <2>4, <2>5, <2>6, <2>7, <2>8 DEF MergeInv
<1>3. CASE Merged
  <2>1. /\ job[1] = "merge" /\ unmerged = {} /\ job' = <<"merged">> /\ job[2] \in Nat
        /\ UNCHANGED <<dash, packaged, segmented, unmerged, document>>
    BY <1>3, JobForms DEF Merged, files, FilesInv, FilesTypes
  <2>2. TilePathList' = TilePathList /\ ReadSoFar' = ReadSoFar
    BY <2>1 DEF TilePathList, MeshDirectories, Tiles, ReadSoFar
  <2>3. job'[1] = "merged"
    BY <2>1
  <2> QED BY <2>1, <2>2, <2>3 DEF MergeInv
<1>4. CASE UNCHANGED vars
  BY <1>4 DEF vars, files, MergeInv, ReadSoFar, TilePathList, MeshDirectories, Tiles
<1>5. ASSUME job' = job, job = Idle PROVE job'[1] \notin {"merge", "merged"}
  BY <1>5 DEF Idle
<1>6. ASSUME CropScaleTranscode \/ PackageContainer \/ \E q \in Qps : CropScalePackage(q)
      PROVE  job'[1] \notin {"merge", "merged"}
  BY <1>6 DEF CropScaleTranscode, PackageContainer, CropScalePackage, Idle
<1>7. ASSUME TranscodeBatch \/ PackageTile PROVE job'[1] \notin {"merge", "merged"}
  BY <1>7 DEF TranscodeBatch, PackageTile, Idle
<1>8. ASSUME DashSegment \/ DashSegmentOne PROVE job'[1] \notin {"merge", "merged"}
  BY <1>5, <1>8 DEF DashSegment, DashSegmentOne
<1> QED BY <1>1, <1>2, <1>3, <1>4, <1>6, <1>7, <1>8, MergeOneStep DEF Next

(* The merged document is in order and covers what was read.               *)
THEOREM MergeInvariance == ContentSpec => []MergeInv
<1>1. ContentInit => MergeInv
  BY InitMerge DEF ContentInit, IndexInit
<1> QED BY <1>1, MergeStep, FilesInvariance, CommandsMove, PTL DEF ContentSpec

(* The merged document has a Representation for every tile document read,  *)
(* once, in the set of its coordinate, with a SegmentTemplate and an id of *)
(* its own (command.cpp:399-455).                                          *)
THEOREM MergeCompleteness == ContentSpec => []MergeComplete
<1>1. ASSUME FilesInv, MergeInv PROVE MergeComplete
  <2> SUFFICES ASSUME job[1] \in {"merge", "merged"} PROVE MergeComplete
    BY DEF MergeComplete
  <2>1. PICK n \in Nat : Covers(document, ReadSoFar, n)
    <3>1. job[1] = "merge" => job[2] \in Nat
      BY <1>1, JobForms DEF FilesInv, FilesTypes
    <3> QED BY <1>1, <3>1 DEF MergeInv
  <2>2. ASSUME NEW i \in 1..Len(document), NEW j \in 1..Len(document),
               document[i].srd = document[j].srd
        PROVE  i = j
    <3>1. i \in Int /\ j \in Int /\ document \in Seq(AdaptationSets) /\ Ordered(document)
      BY <1>1 DEF MergeInv
    <3>2. TileOf(document[i]) = TileOf(document[j])
      BY <2>2 DEF TileOf
    <3>3. TileOf(document[i]) \in Tiles /\ TileOf(document[j]) \in Tiles
      BY <3>1, TileOfSet, LenProperties
    <3>4. ~(i < j) /\ ~(j < i)
      BY <3>1, <3>2, <3>3, TilesInOrder DEF Ordered
    <3> QED BY <3>1, <3>4
  <2>3. /\ {<<TileOf(document[p[1]]), Entry(document, p).qp>> : p \in Places(document)}
             = ReadSoFar
        /\ Cardinality(Places(document)) = Cardinality(ReadSoFar)
        /\ {Entry(document, p).id : p \in Places(document)} = 1..Cardinality(ReadSoFar)
        /\ \A p \in Places(document) : Entry(document, p).template
    BY <2>1 DEF Covers, Origin
  <2> QED BY <2>2, <2>3 DEF MergeComplete, Places, Entry, TileOf, ReadSoFar
<1> QED BY <1>1, FilesInvariance, MergeInvariance, PTL
---------------------------------------------------------------------------------
(* The document that is parsed.                                            *)

(* The video sets of e are those of d, of which c[n] are among the first n *)
(* sets of e.                                                              *)
LEMMA VideoInOrder ==
    ASSUME NEW S, NEW d \in Seq(S), NEW e \in Seq(S),
           NEW c \in [0..Len(e) -> 0..Len(d)], c[0] = 0, c[Len(e)] = Len(d),
           \A n \in 1..Len(e) : IF Parser!IsVideo(e[n])
                                THEN c[n] = c[n - 1] + 1 /\ e[n] = d[c[n]]
                                ELSE c[n] = c[n - 1]
    PROVE  Parser!VideoSets(e) = d
<1> DEFINE N == Len(e)
<1> DEFINE first == [n \in 0..N |-> SubSeq(d, 1, c[n])]
<1> DEFINE Kept(g) == g = [n \in 0..N |->
                             IF n = 0 THEN <<>>
                             ELSE IF Parser!IsVideo(e[n]) THEN Append(g[n - 1], e[n])
                             ELSE g[n - 1]]
<1> DEFINE kept == CHOOSE g : Kept(g)
<1>1. Parser!VideoSets(e) = kept[N]
  BY DEF Parser!VideoSets
<1>2. N \in Nat /\ Len(d) \in Nat /\ \A i \in 1..Len(d) : d[i] \in S
  BY LenProperties
<1> HIDE DEF kept
<1>3. first[0] = <<>>
  <2>1. SubSeq(d, 1, 0) = <<>>
    BY SubSeqEmpty
  <2> QED BY <1>2, <2>1
<1>4. ASSUME NEW n \in 1..N
      PROVE  first[n] = IF Parser!IsVideo(e[n]) THEN Append(first[n - 1], e[n])
                                                ELSE first[n - 1]
  <2>1. n - 1 \in 0..N /\ n \in 0..N
    BY <1>2
  <2>2. c[n] \in 0..Len(d) /\ c[n - 1] \in 0..Len(d)
    BY <2>1
  <2>3. CASE Parser!IsVideo(e[n])
    <3>1. c[n] = c[n - 1] + 1 /\ e[n] = d[c[n]]
      BY <2>3
    <3>2. 1 \in 1..Len(d) /\ c[n] \in 1..Len(d) /\ c[n] - 1 = c[n - 1]
      <4>1. ASSUME NEW L \in Nat, NEW k \in 0..L, NEW l \in 0..L, l = k + 1
            PROVE  1 \in 1..L /\ l \in 1..L /\ l - 1 = k
        BY <4>1
      <4>2. Len(d) \in Nat /\ c[n - 1] \in 0..Len(d) /\ c[n] \in 0..Len(d)
        BY <1>2, <2>2
      <4> QED BY <3>1, <4>1, <4>2
    <3>3. SubSeq(d, 1, c[n]) = SubSeq(d, 1, c[n - 1]) \o <<d[c[n]]>>
      BY <3>2, SubSeqRecursiveSecond
    <3>4. SubSeq(d, 1, c[n - 1]) \in Seq(S) /\ d[c[n]] \in S
      BY <1>2, <2>2, <3>2, SplitAt
    <3>5. Append(SubSeq(d, 1, c[n - 1]), d[c[n]]) = SubSeq(d, 1, c[n - 1]) \o <<d[c[n]]>>
      BY <3>4, AppendIsConcat
    <3> QED BY <2>1, <2>3, <3>1, <3>3, <3>5
  <2>4. CASE ~Parser!IsVideo(e[n])
    BY <2>1, <2>4
  <2> QED BY <2>3, <2>4
<1> HIDE DEF first
<1>5. Kept(first)
  <2>1. first = [n \in 0..N |-> first[n]]
    BY DEF first
  <2>2. \A n \in 0..N : n = 0 \/ n \in 1..N
    BY <1>2
  <2>3. \A n \in 1..N : n # 0
    BY <1>2
  <2> QED BY <1>3, <1>4, <2>1, <2>2, <2>3
<1>6. Kept(kept)
  BY <1>5 DEF kept
<1> DEFINE T == {n \in 0..N : kept[n] = first[n]}
<1>7. 0 \in T
  <2>1. 0 \in 0..N
    BY <1>2
  <2> QED BY <1>3, <1>6, <2>1
<1>8. ASSUME NEW n \in 1..N, n - 1 \in T PROVE n \in T
  <2>1. n \in 0..N /\ n # 0
    BY <1>2
  <2>2. kept[n] = IF Parser!IsVideo(e[n]) THEN Append(kept[n - 1], e[n]) ELSE kept[n - 1]
    BY <1>6, <2>1
  <2> QED BY <1>4, <1>8, <2>1, <2>2
<1> HIDE DEF T
<1>9. 0..N \subseteq T
  BY <1>2, <1>7, <1>8, NumbersUpTo
<1>10. kept[N] = first[N]
  BY <1>2, <1>9 DEF T
<1>11. first[N] = d
  BY <1>2, SubSeqFull DEF first
<1> QED BY <1>1, <1>10, <1>11

(* Sets of a document to which somebody may have added audio.              *)
AnySets == AdaptationSets \cup {AudioSet}

WithAudio(d, place) == IF place = 0 THEN d ELSE InsertAt(d, place, AudioSet)

LEMMA AudioAdded ==
    ASSUME NEW d \in Seq(AdaptationSets)
    PROVE  /\ WithAudio(d, 0) = d
           /\ WithAudio(d, 1) = <<AudioSet>> \o d
           /\ WithAudio(d, Len(d) + 1) = d \o <<AudioSet>>
<1> DEFINE L == Len(d)
<1>1. L \in Nat /\ d \in Seq(AnySets) /\ <<AudioSet>> \in Seq(AnySets)
  BY LenProperties DEF AnySets
<1>2. /\ d \o <<AudioSet>> \in Seq(AnySets)
      /\ <<>> \o <<AudioSet>> = <<AudioSet>>
      /\ (d \o <<AudioSet>>) \o <<>> = d \o <<AudioSet>>
  BY <1>1, ConcatProperties, ConcatEmptySeq
<1>3. SubSeq(d, 1, L) = d
  BY SubSeqFull
<1> HIDE DEF L
<1>4. SubSeq(d, 1, 0) = <<>> /\ SubSeq(d, L + 1, L) = <<>>
  BY <1>1, SubSeqEmpty
<1>5. 1 - 1 = 0 /\ (L + 1) - 1 = L /\ L + 1 # 0
  BY <1>1
<1>6. InsertAt(d, 1, AudioSet) = <<AudioSet>> \o d
  BY <1>2, <1>3, <1>4, <1>5 DEF InsertAt, L
<1>7. InsertAt(d, L + 1, AudioSet) = d \o <<AudioSet>>
  BY <1>2, <1>3, <1>4, <1>5 DEF InsertAt, L
<1> QED BY <1>5, <1>6, <1>7 DEF WithAudio, L

(* The video sets are what was merged.                                     *)
LEMMA VideoOfMerged ==
    ASSUME NEW d \in Seq(AdaptationSets), NEW place \in {0, 1, Len(d) + 1}
    PROVE  /\ WithAudio(d, place) \in Seq(AnySets)
           /\ Len(WithAudio(d, place)) = IF place = 0 THEN Len(d) ELSE Len(d) + 1
           /\ Parser!VideoSets(WithAudio(d, place)) = d
<1> DEFINE L == Len(d)
<1> DEFINE e == WithAudio(d, place)
<1>1. L \in Nat /\ d \in Seq(AnySets) /\ <<AudioSet>> \in Seq(AnySets) /\ Len(<<AudioSet>>) = 1
      /\ <<AudioSet>>[1] = AudioSet
  BY LenProperties DEF AnySets
<1>2. ~Parser!IsVideo(AudioSet)
  BY DEF Parser!IsVideo, AudioSet
<1>3. \A i \in 1..L : Parser!IsVideo(d[i])
  <2>1. \A i \in 1..L : d[i] \in AdaptationSets
    OBVIOUS
  <2>2. \A set \in AdaptationSets : set.mime = "video"
    BY DEF AdaptationSets
  <2> QED BY <2>1, <2>2 DEF Parser!IsVideo
<1>4. CASE place = 0
  <2> DEFINE c == [n \in 0..L |-> n]
  <2>1. e = d
    BY <1>4, AudioAdded
  <2>2. c \in [0..L -> 0..L] /\ c[0] = 0 /\ c[L] = L
    BY <1>1
  <2>3. \A n \in 1..L : c[n] = c[n - 1] + 1 /\ d[n] = d[c[n]]
    BY <1>1
  <2> HIDE DEF c
  <2>4. Parser!VideoSets(d) = d
    BY <1>1, <1>3, <2>2, <2>3, VideoInOrder
  <2> QED BY <1>1, <1>4, <2>1, <2>4
<1>5. CASE place = L + 1
  <2> DEFINE c == [n \in 0..(L + 1) |-> IF n = L + 1 THEN L ELSE n]
  <2>1. e = d \o <<AudioSet>>
    BY <1>5, AudioAdded
  <2> HIDE DEF e, L
  <2>2. /\ e \in Seq(AnySets) /\ Len(e) = L + 1
        /\ \A i \in 1..(L + 1) : e[i] = IF i <= L THEN d[i] ELSE <<AudioSet>>[i - L]
    BY <1>1, <2>1, ConcatProperties DEF L
  <2>3. c \in [0..(L + 1) -> 0..L] /\ c[0] = 0 /\ c[L + 1] = L
    BY <1>1
  <2>4. ASSUME NEW n \in 1..(L + 1)
        PROVE  IF Parser!IsVideo(e[n]) THEN c[n] = c[n - 1] + 1 /\ e[n] = d[c[n]]
                                       ELSE c[n] = c[n - 1]
    <3>1. CASE n = L + 1
      <4>1. e[n] = <<AudioSet>>[1]
        BY <1>1, <2>2, <3>1
      <4>2. c[n] = c[n - 1]
        BY <1>1, <3>1
      <4> QED BY <1>1, <1>2, <4>1, <4>2
    <3>2. CASE n # L + 1
      <4>1. n \in 1..L /\ c[n] = n /\ c[n - 1] = n - 1
        BY <1>1, <3>2
      <4>2. e[n] = d[n]
        BY <2>2, <4>1
      <4>3. Parser!IsVideo(e[n]) /\ c[n] = c[n - 1] + 1 /\ e[n] = d[c[n]]
        BY <1>3, <4>1, <4>2
      <4> QED BY <4>3
    <3> QED BY <3>1, <3>2
  <2> HIDE DEF c
  <2>5. Parser!VideoSets(e) = d
    BY <1>1, <2>2, <2>3, <2>4, VideoInOrder DEF L
  <2>6. place # 0
    BY <1>1, <1>5
  <2> QED BY <2>2, <2>5, <2>6 DEF e, L
<1>6. CASE place = 1
  <2> DEFINE c == [n \in 0..(L + 1) |-> IF n = 0 THEN 0 ELSE n - 1]
  <2>1. e = <<AudioSet>> \o d
    BY <1>6, AudioAdded
  <2> HIDE DEF e, L
  <2>2. /\ e \in Seq(AnySets) /\ Len(e) = L + 1
        /\ \A i \in 1..(L + 1) : e[i] = IF i <= 1 THEN <<AudioSet>>[i] ELSE d[i - 1]
    BY <1>1, <2>1, ConcatProperties DEF L
  <2>3. c \in [0..(L + 1) -> 0..L] /\ c[0] = 0 /\ c[L + 1] = L
    BY <1>1
  <2>4. ASSUME NEW n \in 1..(L + 1)
        PROVE  IF Parser!IsVideo(e[n]) THEN c[n] = c[n - 1] + 1 /\ e[n] = d[c[n]]
                                       ELSE c[n] = c[n - 1]
    <3>1. CASE n = 1
      <4>1. e[n] = <<AudioSet>>[1]
        BY <1>1, <2>2, <3>1
      <4>2. c[n] = c[n - 1]
        BY <1>1, <3>1
      <4> QED BY <1>1, <1>2, <4>1, <4>2
    <3>2. CASE n # 1
      <4>1. n - 1 \in 1..L /\ c[n] = n - 1 /\ c[n - 1] = (n - 1) - 1
        BY <1>1, <3>2
      <4>2. e[n] = d[n - 1]
        BY <1>1, <2>2, <3>2
      <4>3. Parser!IsVideo(e[n]) /\ c[n] = c[n - 1] + 1 /\ e[n] = d[c[n]]
        BY <1>3, <4>1, <4>2
      <4> QED BY <4>3
    <3> QED BY <3>1, <3>2
  <2> HIDE DEF c
  <2>5. Parser!VideoSets(e) = d
    BY <1>1, <2>2, <2>3, <2>4, VideoInOrder DEF L
  <2> QED BY <1>6, <2>2, <2>5 DEF e, L
<1> QED BY <1>4, <1>5, <1>6

(* What the constructor of the parser makes of it.                         *)
LEMMA Separated ==
    ASSUME document \in Seq(AdaptationSets), Parse
    PROVE  /\ audio' \in {0, 1, Len(document) + 1}
           /\ \E rest \in Seq(AnySets) :
                 /\ elements' = document \o rest
                 /\ Len(rest) = IF audio' = 0 THEN 0 ELSE 1
                 /\ audio' = Len(document) + 1 => rest = <<AudioSet>>
           /\ audioAt' = Len(document) + 1
           /\ tasks' = {"video", "grid", "scale", "audio"}
<1> DEFINE L == Len(document)
<1> DEFINE e == WithAudio(document, audio')
<1> DEFINE leftOver == IF Parser!IsPrefix(document, e)
                       THEN {SubSeq(e, L + 1, Len(e))}
                       ELSE [1..(Len(e) - L) -> Parser!ToSet(e)]
<1>1. audio' \in {0, 1, L + 1} /\ Parser!Begin(e)
  BY DEF Parse, WithAudio
<1>2. /\ e \in Seq(AnySets) /\ Len(e) = IF audio' = 0 THEN L ELSE L + 1
      /\ Parser!VideoSets(e) = document /\ L \in Nat /\ document \in Seq(AnySets)
  BY <1>1, VideoOfMerged, LenProperties DEF AnySets
<1> HIDE DEF e
<1>3. PICK rest \in leftOver : elements' = document \o rest
  BY <1>1, <1>2 DEF Parser!Begin
<1>4. audioAt' = L + 1 /\ tasks' = {"video", "grid", "scale", "audio"}
  BY <1>1, <1>2 DEF Parser!Begin
<1> HIDE DEF L
<1>5. rest \in Seq(AnySets) /\ Len(rest) = Len(e) - L
  <2>1. CASE rest = SubSeq(e, L + 1, Len(e))
    <3>1. \A i \in (L + 1)..Len(e) : e[i] \in AnySets
      BY <1>2
    <3>2. /\ SubSeq(e, L + 1, Len(e)) \in Seq(AnySets)
          /\ Len(SubSeq(e, L + 1, Len(e))) =
                IF L + 1 <= Len(e) THEN Len(e) - (L + 1) + 1 ELSE 0
      BY <1>2, <3>1, SubSeqProperties
    <3> QED BY <1>2, <2>1, <3>2
  <2>2. CASE rest \in [1..(Len(e) - L) -> Parser!ToSet(e)]
    <3>1. Parser!ToSet(e) \subseteq AnySets
      BY <1>2 DEF Parser!ToSet
    <3>2. Len(e) - L \in Nat
      BY <1>2
    <3>3. rest \in [1..(Len(e) - L) -> AnySets]
      BY <2>2, <3>1
    <3> QED BY <3>2, <3>3
  <2> QED BY <1>3, <2>1, <2>2
<1>6. ASSUME audio' = L + 1 PROVE rest = <<AudioSet>>
  <2>1. e = document \o <<AudioSet>> /\ <<AudioSet>> \in Seq(AnySets)
    BY <1>6, AudioAdded DEF e, L, AnySets
  <2>2. Parser!IsPrefix(document, e)
    BY <1>2, <2>1, PrefixOfConcat DEF Segment!IsPrefix, Parser!IsPrefix
  <2>3. rest = SubSeq(e, L + 1, L + 1)
    BY <1>2, <1>3, <1>6, <2>2
  <2>4. Len(<<AudioSet>>) = 1 /\ (L + 1) - L = 1 /\ L + 1 \in (L + 1)..(L + 1)
    BY <1>2
  <2>5. SubSeq(e, L + 1, L + 1) = SubSeq(<<AudioSet>>, 1, 1)
    BY <1>2, <2>1, <2>4, SubSeqOfConcat2 DEF L
  <2>6. SubSeq(<<AudioSet>>, 1, 1) = <<AudioSet>>
    BY <2>1, <2>4, SubSeqFull
  <2> QED BY <2>3, <2>5, <2>6
<1>7. Len(rest) = IF audio' = 0 THEN 0 ELSE 1
  BY <1>2, <1>5
<1> QED BY <1>1, <1>3, <1>4, <1>5, <1>6, <1>7 DEF L

(* What the parser reads off a set's description.                          *)
LEMMA Described ==
    ASSUME NEW set \in AdaptationSets
    PROVE  /\ <<Parser!Split(set.srd)[1], Parser!Split(set.srd)[2]>> = TileOf(set)
           /\ <<Parser!Split(set.srd)[5], Parser!Split(set.srd)[6]>> = <<WCrop, HCrop>>
<1> DEFINE t == TileOf(set)
<1> DEFINE srd == SpatialRelationship(t)
<1>1. set.srd = srd /\ t \in Tiles
  BY TileOfSet
<1> HIDE DEF t
<1>2. /\ t = <<t[1], t[2]>> /\ t[1] \in Int /\ t[2] \in Int
      /\ WCrop \in Int /\ HCrop \in Int
  BY <1>1, CommandAssumption DEF Tiles
<1>3. /\ srd \in Seq(Int) /\ Len(srd) = 7 /\ srd # <<>>
      /\ srd[2] = t[1] /\ srd[3] = t[2] /\ srd[6] = WCrop /\ srd[7] = HCrop
  BY <1>2 DEF SpatialRelationship
<1> HIDE DEF srd
<1>4. Len(Tail(srd)) = 6 /\ \A i \in 1..6 : Tail(srd)[i] = srd[i + 1]
  <2>1. Len(Tail(srd)) = Len(srd) - 1
        /\ \A i \in 1..Len(Tail(srd)) : Tail(srd)[i] = srd[i + 1]
    BY <1>3, TailEntries
  <2>2. Len(Tail(srd)) = 6
    BY <1>3, <2>1
  <2> QED BY <2>1, <2>2
<1>5. /\ Tail(srd)[1] = srd[2] /\ Tail(srd)[2] = srd[3]
      /\ Tail(srd)[5] = srd[6] /\ Tail(srd)[6] = srd[7]
  <2>1. 1 \in 1..6 /\ 2 \in 1..6 /\ 5 \in 1..6 /\ 6 \in 1..6
        /\ 1 + 1 = 2 /\ 2 + 1 = 3 /\ 5 + 1 = 6 /\ 6 + 1 = 7
    OBVIOUS
  <2> QED BY <1>4, <2>1, Zenon
<1> QED BY <1>1, <1>2, <1>3, <1>5 DEF Parser!Split, t

(* The parser counts as the others do.                                     *)
LEMMA SameCount == ASSUME NEW S PROVE Parser!Cardinality(S) = Cardinality(S)
BY DEF Parser!Cardinality, Cardinality

Separation ==
    \E rest \in Seq(AnySets) :
       /\ elements = document \o rest
       /\ Len(rest) = IF audio = 0 THEN 0 ELSE 1
       /\ audio = Len(document) + 1 => rest = <<AudioSet>>

(* The map has the representations of every set at its coordinate.         *)
Indexed ==
    /\ DOMAIN videoSets = {TileOf(document[i]) : i \in 1..Len(document)}
    /\ \A i \in 1..Len(document) : videoSets[TileOf(document[i])] = document[i].represents

(* The document stays as it was merged, and what a task that has run       *)
(* leaves there is what the document says.                                 *)
IndexInv ==
    /\ elements = <<>> => tasks = {}
    /\ elements # <<>> =>
          /\ job = <<"merged">> /\ document # <<>>
          /\ audio \in {0, 1, Len(document) + 1}
          /\ Separation /\ audioAt = Len(document) + 1
          /\ "video" \notin tasks => Indexed
          /\ "grid" \notin tasks => grid = <<WCrop, HCrop>>
          /\ "scale" \notin tasks =>
                /\ "video" \notin tasks /\ "grid" \notin tasks
                /\ scale = Parser!Scaled(Cardinality(DOMAIN videoSets) * TileWidth,
                                         Cardinality(DOMAIN videoSets) * TileHeight)
          /\ "audio" \notin tasks =>
                audioSet = IF audioAt <= Len(elements) THEN elements[audioAt].mime
                                                       ELSE "none"

LEMMA InitIndex == IndexInit => IndexInv
BY DEF IndexInit, Parser!Init, IndexInv

(* After the merge nothing else is done to the document.                   *)
LEMMA MergedLasts == job = <<"merged">> /\ [Next]_vars => UNCHANGED vars
<1> SUFFICES ASSUME job = <<"merged">>, [Next]_vars PROVE UNCHANGED vars
  OBVIOUS
<1>1. job[1] = "merged" /\ job # Idle /\ job # <<"transcoded">>
  BY DEF Idle
<1> QED BY <1>1
        DEF Next, CropScaleTranscode, TranscodeBatch, PackageContainer, CropScalePackage,
            PackageTile, DashSegment, DashSegmentOne, MergeDashMpd, MergeOne, Merged

(* The elements of the document that is merged.                            *)
LEMMA ElementsAre ==
    ASSUME MergeInv, IndexInv, elements # <<>>
    PROVE  /\ Len(document) \in Nat \ {0} /\ document \in Seq(AdaptationSets)
           /\ \A i \in 1..Len(document) : elements[i] = document[i]
           /\ Len(elements) = IF audio = 0 THEN Len(document) ELSE Len(document) + 1
           /\ audio = Len(document) + 1 => elements[Len(document) + 1] = AudioSet
           /\ \A i, j \in 1..Len(document) :
                 TileOf(document[i]) = TileOf(document[j]) => i = j
<1> DEFINE L == Len(document)
<1>1. document \in Seq(AdaptationSets) /\ document # <<>> /\ Ordered(document)
  BY DEF IndexInv, MergeInv
<1>2. L \in Nat \ {0} /\ document \in Seq(AnySets)
  BY <1>1, EmptySeq, LenProperties DEF AnySets
<1>3. PICK rest \in Seq(AnySets) :
         /\ elements = document \o rest
         /\ Len(rest) = IF audio = 0 THEN 0 ELSE 1
         /\ audio = L + 1 => rest = <<AudioSet>>
  BY DEF IndexInv, Separation
<1>4. /\ Len(elements) = L + Len(rest)
      /\ \A i \in 1..(L + Len(rest)) :
            elements[i] = IF i <= L THEN document[i] ELSE rest[i - L]
  BY <1>2, <1>3, ConcatProperties
<1> HIDE DEF L
<1>5. \A i \in 1..L : i \in 1..(L + Len(rest)) /\ i <= L
  BY <1>2, <1>3
<1>6. ASSUME audio = L + 1 PROVE elements[L + 1] = AudioSet
  <2>1. rest = <<AudioSet>> /\ Len(rest) = 1
    BY <1>2, <1>3, <1>6
  <2>2. L + 1 \in 1..(L + 1) /\ ~(L + 1 <= L) /\ (L + 1) - L = 1
    BY <1>2
  <2>3. elements[L + 1] = rest[1]
    BY <1>4, <2>1, <2>2
  <2> QED BY <2>1, <2>3
<1>7. ASSUME NEW i \in 1..L, NEW j \in 1..L, TileOf(document[i]) = TileOf(document[j])
      PROVE  i = j
  <2>1. TileOf(document[i]) \in Tiles /\ TileOf(document[j]) \in Tiles
    <3>1. document[i] \in AdaptationSets /\ document[j] \in AdaptationSets
      BY <1>1 DEF L
    <3> QED BY <3>1, TileOfSet
  <2>2. ~(i < j) /\ ~(j < i)
    BY <1>1, <1>7, <2>1, TilesInOrder DEF Ordered, L
  <2> QED BY <1>2, <2>2
<1>8. Len(elements) = IF audio = 0 THEN L ELSE L + 1
  BY <1>2, <1>3, <1>4
<1> QED BY <1>1, <1>2, <1>4, <1>5, <1>6, <1>7, <1>8 DEF L

LEMMA ParseStep == MergeInv /\ IndexInv /\ Parse => IndexInv'
<1> SUFFICES ASSUME MergeInv, IndexInv, Parse PROVE IndexInv'
  OBVIOUS
<1>1. /\ job = <<"merged">> /\ document # <<>> /\ UNCHANGED <<job, document>>
      /\ document \in Seq(AdaptationSets)
  BY DEF Parse, vars, MergeInv
<1>2. PICK rest \in Seq(AnySets) :
         /\ elements' = document \o rest
         /\ Len(rest) = IF audio' = 0 THEN 0 ELSE 1
         /\ audio' = Len(document) + 1 => rest = <<AudioSet>>
  BY <1>1, Separated
<1>3. /\ audio' \in {0, 1, Len(document) + 1} /\ audioAt' = Len(document) + 1
      /\ tasks' = {"video", "grid", "scale", "audio"}
  BY <1>1, Separated
<1>4. elements' # <<>>
  <2>1. document \in Seq(AnySets)
    BY <1>1 DEF AnySets
  <2> QED BY <1>1, <1>2, <2>1, ConcatEqualIffEmpty
<1>5. Separation'
  <2>1. AnySets' = AnySets /\ AudioSet' = AudioSet
    BY DEF AnySets, AdaptationSets, Tiles, Representations, SpatialRelationship, AudioSet
  <2> QED BY <1>1, <1>2, <2>1 DEF Separation
<1> QED BY <1>1, <1>3, <1>4, <1>5 DEF IndexInv

LEMMA ParseVideoStep ==
    MergeInv /\ IndexInv /\ Parser!ParseVideo /\ UNCHANGED <<vars, audio>> => IndexInv'
<1> SUFFICES ASSUME MergeInv, IndexInv, Parser!ParseVideo, UNCHANGED <<vars, audio>>
             PROVE  IndexInv'
  OBVIOUS
<1> DEFINE L == Len(document)
<1> DEFINE sets == {elements[i] : i \in 1..(audioAt - 1)}
<1> DEFINE Coordinate(s) == <<Parser!Split(s.srd)[1], Parser!Split(s.srd)[2]>>
<1> DEFINE Chosen(c) == CHOOSE s \in sets : Coordinate(s) = c
<1>1. /\ "video" \in tasks /\ tasks' = tasks \ {"video"}
      /\ videoSets' = [c \in {Coordinate(s) : s \in sets} |-> Chosen(c).represents]
      /\ UNCHANGED <<elements, audioAt, audioSet, grid, scale, job, document, audio>>
  BY DEF Parser!ParseVideo, vars
<1>2. elements # <<>> /\ audioAt = L + 1
  BY <1>1 DEF IndexInv
<1>3. /\ L \in Nat \ {0} /\ document \in Seq(AdaptationSets)
      /\ \A i \in 1..L : elements[i] = document[i]
      /\ \A i, j \in 1..L : TileOf(document[i]) = TileOf(document[j]) => i = j
  BY <1>2, ElementsAre
<1>4. sets = {document[i] : i \in 1..L}
  <2>1. (L + 1) - 1 = L
    BY <1>3
  <2> QED BY <1>2, <1>3, <2>1
<1>5. \A s \in sets : Coordinate(s) = TileOf(s)
  <2>1. \A i \in 1..L : document[i] \in AdaptationSets
    BY <1>3
  <2>2. ASSUME NEW s \in sets PROVE Coordinate(s) = TileOf(s)
    <3>1. s \in AdaptationSets
      BY <1>4, <2>1, <2>2
    <3> QED BY <3>1, Described
  <2> QED BY <2>2
<1> HIDE DEF sets, Coordinate, L
<1>6. {Coordinate(s) : s \in sets} = {TileOf(document[i]) : i \in 1..L}
  BY <1>4, <1>5
<1>7. ASSUME NEW i \in 1..L PROVE Chosen(TileOf(document[i])) = document[i]
  <2> DEFINE c == TileOf(document[i])
  <2>1. document[i] \in sets /\ Coordinate(document[i]) = c
    BY <1>4, <1>5
  <2> HIDE DEF c
  <2>2. Chosen(c) \in sets /\ Coordinate(Chosen(c)) = c
    BY <2>1
  <2>3. PICK j \in 1..L : Chosen(c) = document[j]
    BY <1>4, <2>2
  <2> HIDE DEF Chosen
  <2>4. TileOf(document[j]) = TileOf(document[i])
    BY <1>5, <2>2, <2>3 DEF c
  <2> QED BY <1>3, <2>3, <2>4 DEF c
<1> HIDE DEF Chosen
<1>8. DOMAIN videoSets' = {TileOf(document[i]) : i \in 1..L}
  BY <1>1, <1>6
<1>9. \A i \in 1..L : videoSets'[TileOf(document[i])] = document[i].represents
  BY <1>1, <1>6, <1>7
<1>10. Indexed'
  BY <1>1, <1>8, <1>9 DEF Indexed, L, TileOf
<1>11. Separation'
  BY <1>1, <1>2
     DEF IndexInv, Separation, AnySets, AdaptationSets, Tiles, Representations,
         SpatialRelationship, AudioSet
<1>12. "scale" \in tasks
  BY <1>1, <1>2 DEF IndexInv
<1> QED BY <1>1, <1>2, <1>10, <1>11, <1>12 DEF IndexInv

(* A task that leaves the map alone.                                       *)
LEMMA OtherTask ==
    ASSUME IndexInv, elements # <<>>,
           UNCHANGED <<elements, audioAt, videoSets, vars, audio>>
    PROVE  /\ elements' # <<>> /\ job' = <<"merged">> /\ document' # <<>>
           /\ audio' \in {0, 1, Len(document') + 1}
           /\ Separation' /\ audioAt' = Len(document') + 1
           /\ Indexed => Indexed'
<1>1. UNCHANGED <<job, document, audio, elements, audioAt, videoSets>>
  BY DEF vars
<1>2. Separation'
  BY <1>1
     DEF IndexInv, Separation, AnySets, AdaptationSets, Tiles, Representations,
         SpatialRelationship, AudioSet
<1>3. Indexed => Indexed'
  BY <1>1 DEF Indexed, TileOf
<1> QED BY <1>1, <1>2, <1>3 DEF IndexInv

LEMMA TaskStep ==
    MergeInv /\ IndexInv /\ Parser!Next /\ UNCHANGED <<vars, audio>> => IndexInv'
<1> SUFFICES ASSUME MergeInv, IndexInv, Parser!Next, UNCHANGED <<vars, audio>>
             PROVE  IndexInv'
  OBVIOUS
<1>1. CASE Parser!ParseVideo
  BY <1>1, ParseVideoStep
<1>2. CASE Parser!ParseGrid
  <2>1. /\ "grid" \in tasks /\ tasks' = tasks \ {"grid"}
        /\ grid' = <<Parser!Split(elements[1].srd)[5], Parser!Split(elements[1].srd)[6]>>
        /\ UNCHANGED <<elements, audioAt, videoSets, audioSet, scale>>
    BY <1>2 DEF Parser!ParseGrid
  <2>2. elements # <<>> /\ "scale" \in tasks
    BY <2>1 DEF IndexInv
  <2>3. elements[1] \in AdaptationSets
    <3>1. 1 \in 1..Len(document)
      BY <2>2, ElementsAre
    <3> QED BY <2>2, <3>1, ElementsAre
  <2>4. grid' = <<WCrop, HCrop>>
    BY <2>1, <2>3, Described
  <2> QED BY <2>1, <2>2, <2>4, OtherTask DEF IndexInv
<1>3. CASE Parser!ParseScale
  <2>1. /\ tasks \cap {"video", "grid", "scale"} = {"scale"} /\ tasks' = tasks \ {"scale"}
        /\ scale' = Parser!Scaled(Cardinality(DOMAIN videoSets) * TileWidth,
                                  Cardinality(DOMAIN videoSets) * TileHeight)
        /\ UNCHANGED <<elements, audioAt, videoSets, audioSet, grid>>
    BY <1>3, SameCount DEF Parser!ParseScale
  <2>2. elements # <<>> /\ "video" \notin tasks /\ "grid" \notin tasks
    BY <2>1 DEF IndexInv
  <2>3. scale' = Parser!Scaled(Cardinality(DOMAIN videoSets) * TileWidth,
                               Cardinality(DOMAIN videoSets) * TileHeight)'
    BY <2>1 DEF Parser!Scaled
  <2> QED BY <2>1, <2>2, <2>3, OtherTask DEF IndexInv
<1>4. CASE Parser!ParseAudio
  <2>1. /\ "audio" \in tasks /\ tasks' = tasks \ {"audio"}
        /\ audioSet' = IF audioAt <= Len(elements) THEN elements[audioAt].mime ELSE "none"
        /\ UNCHANGED <<elements, audioAt, videoSets, grid, scale>>
    BY <1>4 DEF Parser!ParseAudio
  <2>2. elements # <<>>
    BY <2>1 DEF IndexInv
  <2> QED BY <2>1, <2>2, OtherTask DEF IndexInv, Parser!Scaled
<1> QED BY <1>1, <1>2, <1>3, <1>4 DEF Parser!Next

LEMMA IndexStep == MergeInv /\ IndexInv /\ [IndexNext]_indexVars => IndexInv'
<1> SUFFICES ASSUME MergeInv, IndexInv, [IndexNext]_indexVars PROVE IndexInv'
  OBVIOUS
<1>1. CASE [Next]_vars /\ UNCHANGED <<parserVars, audio>>
  <2>1. UNCHANGED <<elements, audioAt, tasks, videoSets, audioSet, grid, scale, audio>>
    BY <1>1 DEF parserVars
  <2>2. CASE elements = <<>>
    BY <2>1, <2>2 DEF IndexInv
  <2>3. CASE elements # <<>>
    <3>1. UNCHANGED vars
      BY <1>1, <2>3, MergedLasts DEF IndexInv
    <3> QED BY <2>1, <2>3, <3>1, OtherTask DEF IndexInv, Parser!Scaled
  <2> QED BY <2>2, <2>3
<1>2. CASE Parser!Next /\ UNCHANGED <<vars, audio>>
  BY <1>2, TaskStep
<1> QED BY <1>1, <1>2, ParseStep DEF IndexNext, indexVars

(* The parser reads a document that stays as it was merged.                *)
THEOREM IndexInvariance == ContentSpec => []IndexInv
<1>1. ContentInit => IndexInv
  BY InitIndex DEF ContentInit
<1>2. [ContentNext]_contentVars => [IndexNext]_indexVars
  BY DEF ContentNext, contentVars
<1> QED BY <1>1, <1>2, IndexStep, MergeInvariance, PTL DEF ContentSpec

(* What has a place in the document is what was segmented.                 *)
LEMMA SegmentedPlaces ==
    ASSUME FilesInv, MergeInv, job = <<"merged">>
    PROVE  /\ \A i \in 1..Len(document) : \A j \in 1..Len(document[i].represents) :
                 /\ document[i].represents[j].qp \in Qps
                 /\ TileOf(document[i]) \in dash[document[i].represents[j].qp]
           /\ \A q \in Qps : \A t \in dash[q] :
                 \E i \in 1..Len(document) : \E j \in 1..Len(document[i].represents) :
                    TileOf(document[i]) = t /\ document[i].represents[j].qp = q
<1>1. job[1] = "merged"
  OBVIOUS
<1>2. {Origin(document, p) : p \in Places(document)} = TilePathList
  BY <1>1 DEF MergeInv, Covers, ReadSoFar
<1>3. /\ packaged \subseteq Qps /\ \A q \in Qps : q \notin packaged => dash[q] = {}
      /\ \A q \in Qps : dash[q] \subseteq Tiles
  BY DEF FilesInv, FilesTypes, PackagesInv
<1>4. \A t, q : <<t, q>> \in TilePathList <=> t \in Tiles /\ q \in packaged /\ t \in dash[q]
  BY DEF TilePathList, MeshDirectories
<1>5. ASSUME NEW i \in 1..Len(document), NEW j \in 1..Len(document[i].represents)
      PROVE  /\ document[i].represents[j].qp \in Qps
             /\ TileOf(document[i]) \in dash[document[i].represents[j].qp]
  <2>1. <<i, j>> \in Places(document)
    BY PlaceIn
  <2>2. Origin(document, <<i, j>>) = <<TileOf(document[i]), document[i].represents[j].qp>>
    BY DEF Origin, Entry
  <2>3. <<TileOf(document[i]), document[i].represents[j].qp>> \in TilePathList
    BY <1>2, <2>1, <2>2
  <2> QED BY <1>3, <1>4, <2>3
<1>6. ASSUME NEW q \in Qps, NEW t \in dash[q]
      PROVE  \E i \in 1..Len(document) : \E j \in 1..Len(document[i].represents) :
                TileOf(document[i]) = t /\ document[i].represents[j].qp = q
  <2>1. <<t, q>> \in TilePathList
    BY <1>3, <1>4
  <2>2. PICK p \in Places(document) : Origin(document, p) = <<t, q>>
    BY <1>2, <2>1
  <2>3. PICK i \in 1..Len(document) : \E j \in 1..Len(document[i].represents) : p = <<i, j>>
    BY PlaceIn
  <2>4. PICK j \in 1..Len(document[i].represents) : p = <<i, j>>
    BY <2>3
  <2>5. TileOf(document[i]) = t /\ document[i].represents[j].qp = q
    BY <2>2, <2>4 DEF Origin, Entry
  <2> QED BY <2>5
<1> QED BY <1>5, <1>6

(* The sums of the tiles' sizes give a tile's size back.                   *)
LEMMA SizesBack ==
    ASSUME NEW w \in Nat \ {0}, NEW h \in Nat \ {0}, NEW size \in Nat
    PROVE  (((w * h) * size) \div h) \div w = size /\ (((w * h) * size) \div w) \div h = size
<1>1. \A n \in Nat \ {0}, r \in Nat : (0 + r * n) \div n = r
  <2>1. ASSUME NEW n \in Nat \ {0}, NEW r \in Nat PROVE (0 + r * n) \div n = r
    <3>1. 0 \in 0..(n - 1)
      OBVIOUS
    <3> QED BY <3>1, Division
  <2> QED BY <2>1
<1>2. /\ w * size \in Nat /\ h * size \in Nat
      /\ (w * h) * size = 0 + (w * size) * h /\ (w * h) * size = 0 + (h * size) * w
      /\ w * size = 0 + size * w /\ h * size = 0 + size * h
  OBVIOUS
<1>3. ((w * h) * size) \div h = w * size /\ ((w * h) * size) \div w = h * size
  BY <1>1, <1>2
<1>4. (w * size) \div w = size /\ (h * size) \div h = size
  BY <1>1, <1>2
<1> QED BY <1>3, <1>4

(* What the plugin learns is what the commands made: every tile that was   *)
(* segmented is in the map, with its representations, the grid has a tile  *)
(* at every coordinate and a tile has its size, whatever the order         *)
(* of the tasks, unless an invocation of a tool has failed unseen; and the *)
(* audio set is found if it is the last (dash.protocal.cpp:164-186).       *)
THEOREM IndexIsPanorama == ContentSpec => []IndexMatchesPanorama
<1>1. ASSUME FilesInv, MergeInv, IndexInv PROVE IndexMatchesPanorama
  <2> SUFFICES ASSUME elements # <<>>, tasks = {} PROVE IndexMatchesPanorama
    BY DEF IndexMatchesPanorama, Parser!Parsed
  <2> DEFINE L == Len(document)
  <2>1. /\ job = <<"merged">> /\ job[1] = "merged" /\ Indexed /\ grid = <<WCrop, HCrop>>
        /\ scale = Parser!Scaled(Cardinality(DOMAIN videoSets) * TileWidth,
                                 Cardinality(DOMAIN videoSets) * TileHeight)
        /\ audioSet = IF L + 1 <= Len(elements) THEN elements[L + 1].mime ELSE "none"
    BY <1>1 DEF IndexInv
  <2>2. /\ L \in Nat \ {0} /\ document \in Seq(AdaptationSets)
        /\ Len(elements) = IF audio = 0 THEN L ELSE L + 1
        /\ audio = L + 1 => elements[L + 1] = AudioSet
        /\ \A i, j \in 1..L : TileOf(document[i]) = TileOf(document[j]) => i = j
    BY <1>1, ElementsAre
  <2>3. \A i \in 1..L : 1 \in 1..Len(document[i].represents)
    <3>1. ASSUME NEW i \in 1..L PROVE 1 \in 1..Len(document[i].represents)
      <4>1. document[i] \in AdaptationSets /\ document[i].represents # <<>>
        BY <1>1, <2>1, <2>2 DEF MergeInv, Ordered
      <4>2. document[i].represents \in Seq(Representations)
        BY <4>1 DEF AdaptationSets
      <4>3. Len(document[i].represents) \in Nat \ {0}
        BY <4>1, <4>2, EmptySeq, LenProperties
      <4> QED BY <4>3
    <3> QED BY <3>1
  <2>4. DOMAIN videoSets = UNION {dash[q] : q \in Qps}
    <3>1. ASSUME NEW i \in 1..L PROVE \E q \in Qps : TileOf(document[i]) \in dash[q]
      BY <1>1, <2>1, <2>3, SegmentedPlaces
    <3>2. ASSUME NEW q \in Qps, NEW t \in dash[q]
          PROVE  \E i \in 1..L : t = TileOf(document[i])
      BY <1>1, <2>1, SegmentedPlaces
    <3>3. DOMAIN videoSets = {TileOf(document[i]) : i \in 1..L}
      BY <2>1 DEF Indexed
    <3> QED BY <3>1, <3>2, <3>3
  <2>5. ASSUME NEW t \in DOMAIN videoSets
        PROVE  {videoSets[t][i].qp : i \in 1..Len(videoSets[t])} = {q \in Qps : t \in dash[q]}
    <3>1. PICK i \in 1..L : t = TileOf(document[i]) /\ videoSets[t] = document[i].represents
      BY <2>1 DEF Indexed
    <3>2. ASSUME NEW j \in 1..Len(videoSets[t])
          PROVE  videoSets[t][j].qp \in Qps /\ t \in dash[videoSets[t][j].qp]
      BY <1>1, <2>1, <3>1, SegmentedPlaces
    <3>3. ASSUME NEW q \in Qps, t \in dash[q]
          PROVE  \E j \in 1..Len(videoSets[t]) : videoSets[t][j].qp = q
      <4>1. PICK k \in 1..L : \E j \in 1..Len(document[k].represents) :
                                 TileOf(document[k]) = t /\ document[k].represents[j].qp = q
        BY <1>1, <2>1, <3>3, SegmentedPlaces
      <4>2. k = i
        BY <2>2, <3>1, <4>1
      <4> QED BY <3>1, <4>1, <4>2
    <3> QED BY <3>2, <3>3
  <2>6. ASSUME failures = 0
        PROVE  /\ DOMAIN videoSets = Tiles
               /\ TileCount = Cardinality(DOMAIN videoSets)
               /\ TileSize = <<TileWidth, TileHeight>>
    <3>1. DOMAIN videoSets = Tiles
      <4>1. /\ segmented = packaged /\ packaged # {} /\ packaged \subseteq Qps
            /\ \A q \in segmented : dash[q] = Tiles
            /\ \A q \in Qps : dash[q] \subseteq Tiles
        BY <1>1, <2>1, <2>6 DEF MergeInv, FilesInv, FilesTypes, PackagesInv
      <4> QED BY <2>4, <4>1
    <3>2. Cardinality(Tiles) = WCrop * HCrop
      <4>1. /\ IsFiniteSet(0..(WCrop - 1)) /\ Cardinality(0..(WCrop - 1)) = WCrop
            /\ IsFiniteSet(0..(HCrop - 1)) /\ Cardinality(0..(HCrop - 1)) = HCrop
        <5>1. ASSUME NEW n \in Nat \ {0}
              PROVE  IsFiniteSet(0..(n - 1)) /\ Cardinality(0..(n - 1)) = n
          <6>1. 0 \in Int /\ n - 1 \in Int /\ ~(0 > n - 1) /\ (n - 1) - 0 + 1 = n
            OBVIOUS
          <6>2. /\ IsFiniteSet(0..(n - 1))
                /\ Cardinality(0..(n - 1)) = IF 0 > n - 1 THEN 0 ELSE (n - 1) - 0 + 1
            BY <6>1, FS_Interval
          <6> QED BY <6>1, <6>2
        <5> QED BY <5>1, CommandAssumption
      <4> DEFINE columns == 0..(WCrop - 1)
      <4> DEFINE rows == 0..(HCrop - 1)
      <4> HIDE DEF columns, rows
      <4>2. Cardinality(columns \X rows) = Cardinality(columns) * Cardinality(rows)
        BY <4>1, FS_Product DEF columns, rows
      <4> QED BY <4>1, <4>2 DEF Tiles, columns, rows
    <3>3. TileCount = Cardinality(DOMAIN videoSets)
      BY <2>1, <3>1, <3>2 DEF TileCount
    <3>4. scale = <<((WCrop * HCrop) * TileWidth) \div HCrop,
                    ((WCrop * HCrop) * TileHeight) \div WCrop>>
      BY <2>1, <3>1, <3>2 DEF Parser!Scaled
    <3>5. /\ (((WCrop * HCrop) * TileWidth) \div HCrop) \div WCrop = TileWidth
          /\ (((WCrop * HCrop) * TileHeight) \div WCrop) \div HCrop = TileHeight
      BY SizesBack, CommandAssumption, IndexAssumption DEF Parser!ParserAssumption
    <3>6. TileSize = <<TileWidth, TileHeight>>
      BY <2>1, <3>4, <3>5 DEF TileSize
    <3> QED BY <3>1, <3>3, <3>6
  <2>7. ASSUME audio = L + 1 PROVE audioSet = "audio"
    <3>1. Len(elements) = L + 1 /\ elements[L + 1] = AudioSet /\ L + 1 <= L + 1
      BY <2>2, <2>7
    <3>2. AudioSet.mime = "audio"
      BY DEF AudioSet
    <3> QED BY <2>1, <3>1, <3>2
  <2>8. ASSUME audio = 0 PROVE audioSet = "none"
    <3>1. Len(elements) = L /\ ~(L + 1 <= L)
      BY <2>2, <2>8
    <3> QED BY <2>1, <3>1
  <2> QED BY <2>1, <2>4, <2>5, <2>6, <2>7, <2>8 DEF IndexMatchesPanorama
<1> QED BY <1>1, FilesInvariance, MergeInvariance, IndexInvariance, PTL
=================================================================================
