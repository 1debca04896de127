--------------------------------- MODULE Content ---------------------------------
(***************************************************************************)
(* The panorama's content, from the commands that prepare it to the frames *)
(* of a segment: DashIndex makes and reads the index of all tiles, the     *)
(* Segmentor reads one segment of one tile.  A segment is the same         *)
(* whatever the index, and the index is settled before a segment is read,  *)
(* so a behaviour follows one of the two.                                  *)
(***************************************************************************)
EXTENDS DashIndex

CONSTANTS Sizes, MaxRead, Packets, PacketBytes, Delay   \* see Segmentor

VARIABLES iterator, offset, fullOffset, bytes,          \* IoCursor
          mode, call, next, flushed, held, remain, got, \* Segmentor
          part                                          \* what is followed

segmentVars == <<iterator, offset, fullOffset, bytes, mode, call, next, flushed,
                 held, remain, got>>
contentVars == <<indexVars, segmentVars, part>>

Segment == INSTANCE Segmentor

ASSUME ContentAssumption == Segment!CursorAssumption /\ Segment!SegmentorAssumption

ContentInit ==
    /\ part \in {"index", "segment"}
    /\ IndexInit
    /\ Segment!SegmentorInit

ContentNext ==
    \/ part = "index" /\ IndexNext /\ UNCHANGED <<segmentVars, part>>
    \/ part = "segment" /\ Segment!SegmentorNext /\ UNCHANGED <<indexVars, part>>

ContentSpec == /\ ContentInit /\ [][ContentNext]_contentVars
               /\ part = "segment" => Segment!Fairness

(* The cursor's place is the demuxer's: see IoCursor.                      *)
CursorConsistent == Segment!CursorConsistent

(* A frame for every video packet, in order, and one flush: see Segmentor. *)
FramesComplete == Segment!FramesComplete

(* Every frame is asked for in finitely many calls: see Segmentor.         *)
CallsEnd == part = "segment" => Segment!CallsEnd
==================================================================================
