-------------------------------- MODULE Segmentor --------------------------------
(***************************************************************************)
(* The frame segmentor (src/multimedia/io.segmentor.cpp) over the demuxer  *)
(* and the decoder it wraps (context.cpp): a segment's buffers are opened, *)
(* then frames are asked for, all that a packet gives (try_consume, as the *)
(* plugin does), one by one (try_consume_once, and defer_consume_once on   *)
(* another thread), or only counted (try_consume with decoding disabled,   *)
(* try_read).  libav itself is external: it reads through the IoCursor,    *)
(* yields packets once their bytes are there, and a decoder keeps some     *)
(* frames back until it is flushed.                                        *)
(***************************************************************************)
EXTENDS IoCursor, SequencesExt

CONSTANTS Packets,      \* the types of the packets in the segment
          PacketBytes,  \* the bytes of each
          Delay         \* frames the decoder may keep back

SegmentorAssumption ==
    /\ Packets \in Seq({"video", "other"})
    /\ PacketBytes \in Nat \ {0}
    /\ FullSize = Len(Packets) * PacketBytes
    /\ Delay \in Nat

VARIABLES
    mode,      \* how the caller asks: all, once, defer, drop, read
    call,      \* opening, idle, in a call, done, or its future has failed
    next,      \* the packet that av_read_frame yields next
    flushed,   \* flushed_
    held,      \* frames the decoder keeps back
    remain,    \* remain_frames
    got        \* frames the caller was given, or fake frames

segmentVars == <<mode, call, next, flushed, held, remain, got>>
allVars == <<vars, segmentVars>>

SegmentorInit ==
    /\ Init
    /\ mode = "none" /\ call = "opening" /\ next = 1
    /\ flushed = FALSE
    /\ held = <<>> /\ remain = <<>> /\ got = <<>>

(* avformat_open_input and avformat_find_stream_info read and seek, at     *)
(* last to where they began.                                               *)
Probe ==
    /\ call = "opening"
    /\ (\E n \in 1..MaxRead : Read(n)) \/ (\E t \in 0..FullSize : Seek(t))
    /\ UNCHANGED segmentVars

(* codec_context: a decoder for the stream, with nothing in it.            *)
OpenCodec == flushed' = FALSE /\ held' = <<>>

ParseContext ==
    /\ call = "opening"
    /\ Seek(0)
    /\ OpenCodec
    /\ call' = "idle"
    /\ mode' \in {"all", "once", "defer", "drop", "read"}
    /\ UNCHANGED <<next, remain, got>>

(* codec_context::valid.                                                   *)
Valid == ~flushed

OneByOne == mode \in {"once", "defer"}

(* There is no further frame: the caller sees an empty one, or, deferred,  *)
(* the filter fails its future.                                            *)
NoFrame == IF mode = "defer" THEN "failed" ELSE "done"

(* The caller asks again while codec_available, or until a frame is empty. *)
Call ==
    /\ call = "idle"
    /\ IF OneByOne /\ remain # <<>>
       THEN /\ got' = Append(got, Head(remain)) /\ remain' = Tail(remain)
            /\ UNCHANGED call
       ELSE /\ call' = IF Valid THEN "called" ELSE NoFrame
            /\ UNCHANGED <<remain, got>>
    /\ UNCHANGED <<vars, mode, next, flushed, held>>

AtEnd == next > Len(Packets)
Complete == fullOffset >= next * PacketBytes

(* av_read_frame reads until its packet is complete.                       *)
Fill ==
    /\ call = "called"
    /\ ~AtEnd /\ ~Complete
    /\ \E n \in 1..MaxRead : Read(n)
    /\ UNCHANGED segmentVars

(* demux_with_codec: the stream frames are read from.                      *)
Wanted(i) == Packets[i] = "video"

(* read: a packet of another type is dropped.                              *)
SkipPacket ==
    /\ call = "called"
    /\ ~AtEnd /\ Complete /\ ~Wanted(next)
    /\ next' = next + 1
    /\ UNCHANGED <<vars, mode, call, flushed, held, remain, got>>

(* read has a packet of the type, or the empty packet at the end.          *)
HasPacket == AtEnd \/ (Complete /\ Wanted(next))
Advance == next' = IF AtEnd THEN next ELSE next + 1

(* What the decoder may give of the frames it has: all but the delay, all  *)
(* when it is flushed.                                                     *)
Emitted(frames) ==
    IF AtEnd THEN {frames}
    ELSE {SubSeq(frames, 1, n) :
             n \in {k \in 0..Len(frames) : Len(frames) - k <= Delay}}

(* decode: send the packet, receive frames until there is none.            *)
Decode(frames) ==
    /\ flushed' = AtEnd
    /\ LET inside == IF AtEnd THEN held ELSE Append(held, next)
       IN  /\ frames \in Emitted(inside)
           /\ held' = SubSeq(inside, Len(frames) + 1, Len(inside))

FramesSoFar == IF AtEnd THEN held ELSE Append(held, next)

(* try_consume.                                                            *)
TryConsume ==
    /\ call = "called" /\ mode = "all" /\ HasPacket
    /\ Advance
    /\ \E frames \in Emitted(FramesSoFar) :
          Decode(frames) /\ got' = got \o frames
    /\ call' = "idle"
    /\ UNCHANGED <<vars, mode, remain>>

(* try_consume with drop_packet: a fake frame, none at the end; then the   *)
(* plugin leaves its loop (plugin.cpp:256), for the codec stays valid.     *)
TryDrop ==
    /\ call = "called" /\ mode = "drop" /\ HasPacket
    /\ Advance
    /\ got' = IF AtEnd THEN got ELSE Append(got, next)
    /\ call' = IF AtEnd THEN "done" ELSE "idle"
    /\ UNCHANGED <<vars, mode, flushed, held, remain>>

(* try_read: whether there was a packet; the decoder is not asked.         *)
TryRead ==
    /\ call = "called" /\ mode = "read" /\ HasPacket
    /\ Advance
    /\ got' = IF AtEnd THEN got ELSE Append(got, next)
    /\ call' = IF AtEnd THEN "done" ELSE "idle"
    /\ UNCHANGED <<vars, mode, flushed, held, remain>>

(* A plausible slip: of several frames only the first is kept.             *)
MutantKept(frames) == <<>>

(* What goes to remain_frames.                                             *)
Kept(frames) == Tail(frames)

(* A plausible slip: an empty packet is not the end of the loop.           *)
MutantAgain(frames) == frames = <<>>

(* The loop of try_consume_once goes on.                                   *)
Again(frames) == frames = <<>> /\ ~AtEnd

(* One round of the loop of try_consume_once.                              *)
TryConsumeOnce ==
    /\ call = "called" /\ OneByOne /\ HasPacket
    /\ Advance
    /\ \E frames \in Emitted(FramesSoFar) :
          /\ Decode(frames)
          /\ IF frames = <<>> THEN UNCHANGED <<got, remain>>
             ELSE /\ got' = Append(got, Head(frames))
                  /\ remain' = Kept(frames)
          /\ call' = IF Again(frames) THEN "called"
                     ELSE IF frames = <<>> THEN NoFrame ELSE "idle"
    /\ UNCHANGED <<vars, mode>>

Work == \/ Call \/ Fill \/ SkipPacket
        \/ TryConsume \/ TryDrop \/ TryRead \/ TryConsumeOnce

SegmentorNext == Probe \/ ParseContext \/ Work

(* The caller goes on asking; libav goes on reading.                       *)
Fairness == WF_allVars(Work)
Spec == SegmentorInit /\ [][SegmentorNext]_allVars /\ Fairness

---------------------------------------------------------------------------------
(* Properties.                                                             *)

(* Those of the first n packets that frames are read from.                 *)
WantedUpTo[n \in 0..Len(Packets)] ==
    IF n = 0 THEN <<>>
    ELSE IF Wanted(n) THEN Append(WantedUpTo[n - 1], n) ELSE WantedUpTo[n - 1]

VideoPackets == WantedUpTo[Len(Packets)]

(* The caller is given one frame for each video packet, in order, however  *)
(* many the decoder keeps back and whichever function is used              *)
(* ("EXPECT_EQ(count, 125)" both ways, multimedia.test.cpp:180, 192); and  *)
(* nothing is sent to the decoder after the empty packet that flushed it   *)
(* (assert(!flushed), context.cpp:202).                                    *)
FramesComplete ==
    /\ IsPrefix(got \o remain, VideoPackets)
    /\ call \in {"done", "failed"} => got = VideoPackets
    /\ call = "called" => ~flushed

(* Every frame is asked for in finitely many calls.                        *)
CallsEnd == call = "idle" ~> call \in {"done", "failed"}
==================================================================================
