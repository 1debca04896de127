-------------------------------- MODULE IoCursor --------------------------------
(***************************************************************************)
(* buffer_list_cursor (src/multimedia/io.cursor.cpp): the demuxer reads a  *)
(* list of buffers, those of the initial and the media segment, as if they *)
(* were one file, and may seek in it.  Bytes are named by their place in   *)
(* that file.                                                              *)
(***************************************************************************)
EXTENDS Integers, Sequences

CONSTANTS Sizes,    \* the sizes of the buffers in the list
          MaxRead   \* bound: bytes the demuxer asks for at once

CursorAssumption == Sizes \in Seq(Nat \ {0}) /\ MaxRead \in Nat

VARIABLES
    iterator,    \* buffer_iterator_, a place in the list or behind it
    offset,      \* offset_, in that buffer
    fullOffset,  \* full_offset_
    bytes        \* what the last read copied

vars == <<iterator, offset, fullOffset, bytes>>

End == Len(Sizes) + 1

(* The bytes of the first buffers, and those before buffer i.              *)
Partial[i \in 0..Len(Sizes)] == IF i = 0 THEN 0 ELSE Partial[i - 1] + Sizes[i]
Before(i) == Partial[i - 1]
FullSize == Before(End)

(* The constructor; split_buffer_sequence made the list.                   *)
Init == /\ iterator = 1 /\ offset = 0 /\ fullOffset = 0
        /\ bytes = <<>>

Least(m, n) == IF m < n THEN m ELSE n

(* One round of the loop in read: copy from one buffer, perhaps leave it.  *)
Copy(at, expect) ==
    LET increment == Least(expect - Len(at.bytes), Sizes[at.iterator] - at.offset)
        left == at.offset + increment = Sizes[at.iterator]
    IN  [iterator |-> IF left THEN at.iterator + 1 ELSE at.iterator,
         offset |-> IF left THEN 0 ELSE at.offset + increment,
         bytes |-> at.bytes
                     \o [k \in 1..increment |-> Before(at.iterator) + at.offset + k]]

(* The loop goes on until the list ends or enough is read.                 *)
Round(at, expect) ==
    IF at.iterator # End /\ Len(at.bytes) < expect THEN Copy(at, expect) ELSE at

(* Where the loop is after k rounds; there is one for each buffer at most. *)
Rounds(expect) ==
    LET at[k \in 0..Len(Sizes)] ==
            IF k = 0 THEN [iterator |-> iterator, offset |-> offset, bytes |-> <<>>]
            ELSE Round(at[k - 1], expect)
    IN  at

(* read, of a list that is not at its end.                                 *)
Read(expect) ==
    /\ iterator # End
    /\ LET last == Rounds(expect)[Len(Sizes)]
       IN  /\ iterator' = last.iterator /\ offset' = last.offset
           /\ bytes' = last.bytes
           /\ fullOffset' = fullOffset + Len(last.bytes)

(* A plausible slip: the end of a buffer is taken to belong to it.         *)
MutantHolds(i, target) == Before(i + 1) >= target

(* The buffer that find_if looks for.                                      *)
Holds(i, target) == Before(i + 1) > target

(* seek to a target, after whence was added; it is not negative, as        *)
(* avio_seek asks for no such place.  AVSEEK_SIZE changes nothing.         *)
Seek(target) ==
    /\ bytes' = <<>>
    /\ IF target >= FullSize
       THEN iterator' = End /\ offset' = 0 /\ fullOffset' = FullSize
       ELSE /\ iterator' = CHOOSE i \in 1..Len(Sizes) :
                               /\ Holds(i, target)
                               /\ \A j \in 1..(i - 1) : ~Holds(j, target)
            /\ fullOffset' = target
            /\ offset' = target - Before(iterator')

Available == iterator # End

---------------------------------------------------------------------------------
(* The place in the list is the one the demuxer thinks it reads at, and    *)
(* what a read copied are the bytes before it, none left out where one     *)
(* buffer ends and the next begins (io.cursor.cpp:184-199, 226-241).       *)
CursorConsistent ==
    /\ fullOffset = Before(iterator) + offset
    /\ Available => offset < Sizes[iterator]
    /\ \A k \in 1..Len(bytes) : bytes[k] = fullOffset - Len(bytes) + k
=================================================================================
