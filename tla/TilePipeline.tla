------------------------------ MODULE TilePipeline ------------------------------
(***************************************************************************)
(* The frame pipeline of the native Unity plugin (src/gallery/plugin.cpp). *)
(*                                                                         *)
(*   stream thread (one per tile): fetches a segment, decodes it and       *)
(*      writes every frame to the tile's bounded decode queue; at the end  *)
(*      of the stream it writes an empty frame and then an exception.      *)
(*   main thread (the host's update loop): moves items from the decode     *)
(*      queue to the tile's render queue, sets the end-of-stream flag when *)
(*      it meets the exception, and finally releases the library, which    *)
(*      joins the stream threads.                                          *)
(*   render thread: for every successful poll the host issues one texture  *)
(*      update, that is a begin and an end event for each of three planes. *)
(*                                                                         *)
(* The end-of-stream flag is one plain bool that the main thread and the   *)
(* render thread both write without a lock; every read and write of it is  *)
(* a step of its own.                                                      *)
(***************************************************************************)
EXTENDS Naturals, Sequences

CONSTANTS
    Tiles,        \* the tiles, each with a stream_context and a stream thread
    Capacity,     \* system.decode.capacity: room in a tile's decode queue
    DecodeEnable, \* system.decode.enable: FALSE measures the network only
    MaxFrames,    \* bound: frames decoded for each tile in the whole run
    MaxSegment,   \* bound: frames decoded from one segment
    EndFrame,     \* the empty media::frame{ nullptr }
    EndError,     \* the std::exception_ptr that follows it
    Nil           \* nullptr

ASSUME PipelineAssumption ==
    /\ Capacity \in Nat \ {0}
    /\ DecodeEnable \in BOOLEAN
    /\ MaxFrames \in [Tiles -> Nat]
    /\ MaxSegment \in Nat
    /\ EndFrame \notin Nat
    /\ EndError \notin Nat
    /\ Nil \notin Nat
    /\ EndFrame # EndError /\ EndFrame # Nil /\ EndError # Nil
    /\ Nil \notin Tiles

Planes == 0..2    \* planar_index: the data[] planes of a YUV420 frame

VARIABLES
    pc,           \* where a tile's stream thread is
    pending,      \* frames of the current segment it has still to write
    written,      \* decode.count; the frames of a tile are numbered from 1
    decodeQueue,  \* decode.queue, a folly::MPMCQueue
    polled,       \* update.decode_success, reads that returned an item
    main,         \* the main thread: polling, joining in Release, released
    running,      \* state::stream::running
    endOfStream,  \* end_of_stream, the static of state::stream::available
    renderQueue,  \* render.queue, a moodycamel::ReaderWriterQueue
    frame,        \* render.frame: the frame peeked from the render queue
    textureState, \* update.texture_state: planes begun of that frame
    texture,      \* params->texData: the frame each plane was taken from
    display,      \* history: the pictures completed, oldest first
    updates,      \* texture updates the host has issued and not finished
    tile,         \* the tile the render thread updates, Nil between updates
    plane,        \* the plane of the current event
    at            \* where the render thread is in the current event

threadVars == <<pc, pending, written>>
renderVars == <<frame, textureState, texture, display, tile, plane, at>>
vars == <<pc, pending, written, decodeQueue, polled, main, running,
          endOfStream, renderQueue, frame, textureState, texture, display,
          updates, tile, plane, at>>

Blank == [p \in Planes |-> Nil]

(* _nativeLibraryInitialize has reset the resources, one stream_context    *)
(* per tile has been created and _nativeDashPrefetch has started a thread  *)
(* for each.                                                               *)
Init ==
    /\ pc = [t \in Tiles |-> "fetch"]
    /\ pending = [t \in Tiles |-> 0]
    /\ written = [t \in Tiles |-> 0]
    /\ decodeQueue = [t \in Tiles |-> <<>>]
    /\ polled = [t \in Tiles |-> 0]
    /\ main = "poll"
    /\ running = TRUE
    /\ endOfStream = FALSE
    /\ renderQueue = [t \in Tiles |-> <<>>]
    /\ frame = [t \in Tiles |-> Nil]
    /\ textureState = [t \in Tiles |-> {}]
    /\ texture = [t \in Tiles |-> Blank]
    /\ display = [t \in Tiles |-> <<>>]
    /\ updates = [t \in Tiles |-> 0]
    /\ tile = Nil
    /\ plane = 0
    /\ at = "idle"

---------------------------------------------------------------------------------
(* The stream thread of tile t: stream_mpeg_dash.                          *)

Goto(t, label) == pc' = [pc EXCEPT ![t] = label]
Enqueue(t, item) == decodeQueue' = [decodeQueue EXCEPT ![t] = Append(@, item)]

(* A plausible slip: one item more than the queue holds.                   *)
MutantFull(t) == Len(decodeQueue[t]) > Capacity

(* The queue has no free slot.                                             *)
Full(t) == Len(decodeQueue[t]) >= Capacity

(* future_buffer.get() returns a segment of k frames.  A segment that      *)
(* decodes to no frame leaves the thread where it was.                     *)
FetchSegment(t) ==
    /\ pc[t] = "fetch"
    /\ \E k \in 1..MaxSegment :
          /\ written[t] + k <= MaxFrames[t]
          /\ pending' = [pending EXCEPT ![t] = k]
    /\ Goto(t, "check")
    /\ UNCHANGED <<written, decodeQueue, polled, main, running, endOfStream,
                   renderQueue, updates, renderVars>>

(* get() throws bad_response_error: the server has no further segment.     *)
FetchBadResponse(t) ==
    /\ pc[t] = "fetch"
    /\ Goto(t, "stopFrame")
    /\ UNCHANGED <<pending, written, decodeQueue, polled, main, running,
                   endOfStream, renderQueue, updates, renderVars>>

(* Any other exception ends the thread behind an assertion: in a release   *)
(* build it ends without a word to the main thread.                        *)
FetchUnexpected(t) ==
    /\ pc[t] = "fetch"
    /\ Goto(t, "failed")
    /\ UNCHANGED <<pending, written, decodeQueue, polled, main, running,
                   endOfStream, renderQueue, updates, renderVars>>

(* A plausible slip: the loop goes on waiting while running is clear.      *)
MutantWaitRunning(t) ==
    /\ pc[t] = "check"
    /\ running
    /\ Goto(t, "write")
    /\ UNCHANGED <<pending, written, decodeQueue, polled, main, running,
                   endOfStream, renderQueue, updates, renderVars>>

(* The head of the write loop: load running, abort if it is clear.         *)
CheckRunning(t) ==
    /\ pc[t] = "check"
    /\ Goto(t, IF running THEN "write" ELSE "aborted")
    /\ UNCHANGED <<pending, written, decodeQueue, polled, main, running,
                   endOfStream, renderQueue, updates, renderVars>>

(* A plausible slip: a timed-out write counts as done, its frame is lost.  *)
MutantTimeoutDrops(t) ==
    /\ pc[t] = "write"
    /\ written' = [written EXCEPT ![t] = @ + 1]
    /\ pending' = [pending EXCEPT ![t] = @ - 1]
    /\ IF Full(t) THEN UNCHANGED decodeQueue ELSE Enqueue(t, written[t] + 1)
    /\ Goto(t, IF pending[t] = 1 THEN "fetch" ELSE "check")
    /\ UNCHANGED <<polled, main, running, endOfStream, renderQueue, updates,
                   renderVars>>

(* tryWriteUntil: the frame goes in if there is room.                      *)
TryWrite(t) ==
    /\ pc[t] = "write"
    /\ ~Full(t)
    /\ Enqueue(t, written[t] + 1)
    /\ written' = [written EXCEPT ![t] = @ + 1]
    /\ pending' = [pending EXCEPT ![t] = @ - 1]
    /\ Goto(t, IF pending[t] = 1 THEN "fetch" ELSE "check")
    /\ UNCHANGED <<polled, main, running, endOfStream, renderQueue, updates,
                   renderVars>>

(* tryWriteUntil: 80ms pass with the queue full; the loop goes round.      *)
WriteTimeout(t) ==
    /\ pc[t] = "write"
    /\ Full(t)
    /\ Goto(t, "check")
    /\ UNCHANGED <<pending, written, decodeQueue, polled, main, running,
                   endOfStream, renderQueue, updates, renderVars>>

(* A plausible slip: the exception alone is thought to be enough.          *)
MutantNoStopFrame(t) ==
    /\ pc[t] = "stopFrame"
    /\ Goto(t, "stopError")
    /\ UNCHANGED <<pending, written, decodeQueue, polled, main, running,
                   endOfStream, renderQueue, updates, renderVars>>

(* blockingWrite of the empty frame: waits for room whatever running says. *)
WriteStopFrame(t) ==
    /\ pc[t] = "stopFrame"
    /\ ~Full(t)
    /\ Enqueue(t, EndFrame)
    /\ Goto(t, "stopError")
    /\ UNCHANGED <<pending, written, polled, main, running, endOfStream,
                   renderQueue, updates, renderVars>>

(* blockingWrite of the exception, the last thing the thread does.         *)
WriteStopError(t) ==
    /\ pc[t] = "stopError"
    /\ ~Full(t)
    /\ Enqueue(t, EndError)
    /\ Goto(t, "ended")
    /\ UNCHANGED <<pending, written, polled, main, running, endOfStream,
                   renderQueue, updates, renderVars>>

StreamThread(t) ==
    \/ FetchSegment(t) \/ FetchBadResponse(t) \/ FetchUnexpected(t)
    \/ CheckRunning(t) \/ TryWrite(t) \/ WriteTimeout(t)
    \/ WriteStopFrame(t) \/ WriteStopError(t)

Finished(t) == pc[t] \in {"ended", "aborted", "failed"}

---------------------------------------------------------------------------------
(* The main thread.                                                        *)

(* available(frame) writes the flag: the empty frame raises it, a picture   *)
(* and nullptr alike clear it.                                             *)
SetAvailable(item) == endOfStream' = (item = EndFrame)

(* A plausible slip: try_enqueue, which fails once the queue's initial     *)
(* block is in use, in the place of enqueue.                               *)
MutantTryEnqueue(t, item) ==
    /\ IF item = EndError
       THEN SetAvailable(EndFrame) /\ UNCHANGED renderQueue
       ELSE /\ renderQueue' = IF DecodeEnable /\ renderQueue[t] = <<>>
                              THEN [renderQueue EXCEPT ![t] = Append(@, item)]
                              ELSE renderQueue
            /\ UNCHANGED endOfStream

(* An item read from the decode queue: the exception ends the stream, a    *)
(* frame (the empty one too) goes on to the render queue.                  *)
Deliver(t, item) ==
    /\ IF item = EndError
       THEN SetAvailable(EndFrame) /\ UNCHANGED renderQueue
       ELSE /\ renderQueue' = IF DecodeEnable
                              THEN [renderQueue EXCEPT ![t] = Append(@, item)]
                              ELSE renderQueue
            /\ UNCHANGED endOfStream

(* _nativeDashTilePtrPollUpdate returned true; the host answers with one   *)
(* texture update (external; it draws only when frames are decoded).       *)
Poll(t) ==
    /\ main = "poll"
    /\ decodeQueue[t] # <<>>
    /\ Deliver(t, Head(decodeQueue[t]))
    /\ decodeQueue' = [decodeQueue EXCEPT ![t] = Tail(@)]
    /\ polled' = [polled EXCEPT ![t] = @ + 1]
    /\ updates' = IF DecodeEnable
                  THEN [updates EXCEPT ![t] = @ + 1] ELSE updates
    /\ UNCHANGED <<threadVars, main, running, renderVars>>

(* _nativeLibraryRelease: clear running, then drop the stream executor,    *)
(* whose destructor joins the stream threads.                              *)
Release ==
    /\ main = "poll"
    /\ running' = FALSE
    /\ main' = "join"
    /\ UNCHANGED <<threadVars, decodeQueue, polled, endOfStream, renderQueue,
                   updates, renderVars>>

(* The threads are joined: reset_resource destroys the stream contexts and *)
(* clears the end-of-stream flag.  The host has stopped the render events  *)
(* by then (external).                                                     *)
JoinStreams ==
    /\ main = "join"
    /\ \A t \in Tiles : Finished(t)
    /\ main' = "released"
    /\ decodeQueue' = [t \in Tiles |-> <<>>]
    /\ renderQueue' = [t \in Tiles |-> <<>>]
    /\ endOfStream' = FALSE
    /\ frame' = [t \in Tiles |-> Nil]
    /\ textureState' = [t \in Tiles |-> {}]
    /\ texture' = [t \in Tiles |-> Blank]
    /\ updates' = [t \in Tiles |-> 0]
    /\ tile' = Nil /\ plane' = 0 /\ at' = "idle"
    /\ UNCHANGED <<threadVars, polled, running, display>>

---------------------------------------------------------------------------------
(* The render thread: on_texture_update_event.                             *)

(* The host's command buffer hands over the next update it issued.         *)
StartUpdate(t) ==
    /\ main # "released"
    /\ at = "idle"
    /\ updates[t] > 0
    /\ tile' = t /\ plane' = 0 /\ at' = "begin"
    /\ UNCHANGED <<threadVars, decodeQueue, polled, main, running, endOfStream,
                   renderQueue, frame, textureState, texture, display, updates>>

(* texData becomes data[planar_index] of the frame the stream holds.        *)
TakePlane ==
    /\ textureState' = [textureState EXCEPT ![tile] = @ \cup {plane}]
    /\ texture' = [texture EXCEPT ![tile][plane] = frame[tile]]

(* A begin event reads the flag.  It returns at once if the stream has     *)
(* ended, looks for a new frame if no plane of one has begun, and takes    *)
(* the next plane of the frame it has otherwise.                           *)
BeginEvent ==
    /\ at = "begin"
    /\ IF ~endOfStream /\ textureState[tile] = {}
       THEN at' = "peek" /\ UNCHANGED <<textureState, texture>>
       ELSE /\ at' = "end"
            /\ IF endOfStream THEN UNCHANGED <<textureState, texture>>
                              ELSE TakePlane
    /\ UNCHANGED <<threadVars, decodeQueue, polled, main, running, endOfStream,
                   renderQueue, frame, display, updates, tile, plane>>

(* render.queue.peek() and the write of the flag in available(frame).      *)
PeekFrame ==
    /\ at = "peek"
    /\ LET front == IF renderQueue[tile] = <<>> THEN Nil
                                                ELSE Head(renderQueue[tile])
       IN  /\ frame' = [frame EXCEPT ![tile] = front]
           /\ SetAvailable(front)
    /\ at' = "check"
    /\ UNCHANGED <<threadVars, decodeQueue, polled, main, running, renderQueue,
                   textureState, texture, display, updates, tile, plane>>

(* The flag is read back, from memory or from the register that was just   *)
(* stored: the event returns if it is set and takes the plane otherwise.   *)
CheckFrame ==
    /\ at = "check"
    /\ \E ended \in {endOfStream, frame[tile] = EndFrame} :
          IF ended THEN UNCHANGED <<textureState, texture>> ELSE TakePlane
    /\ at' = "end"
    /\ UNCHANGED <<threadVars, decodeQueue, polled, main, running, endOfStream,
                   renderQueue, frame, display, updates, tile, plane>>

(* The event of the next plane, or the end of this update.                 *)
NextEvent ==
    IF plane = 2
    THEN /\ tile' = Nil /\ plane' = 0 /\ at' = "idle"
         /\ updates' = [updates EXCEPT ![tile] = @ - 1]
    ELSE /\ plane' = plane + 1 /\ at' = "begin"
         /\ UNCHANGED <<tile, updates>>

(* A plausible slip: bitset::any in the place of bitset::all.              *)
MutantAnyPlane == textureState[tile] # {}

(* texture_state.all()                                                     *)
AllPlanes == textureState[tile] = Planes

(* All planes are on the device: the frame leaves the render queue (pop    *)
(* returns false on an empty queue and nobody looks at that).              *)
FinishFrame ==
    /\ display' = [display EXCEPT ![tile] = Append(@, texture[tile])]
    /\ renderQueue' = [renderQueue EXCEPT ![tile] =
                          IF @ = <<>> THEN <<>> ELSE Tail(@)]
    /\ textureState' = [textureState EXCEPT ![tile] = {}]
    /\ texture' = [texture EXCEPT ![tile] = Blank]
    /\ frame' = [frame EXCEPT ![tile] = Nil]

(* An end event does nothing once the stream has ended.                    *)
EndEvent ==
    /\ at = "end"
    /\ IF ~endOfStream /\ AllPlanes
       THEN FinishFrame
       ELSE UNCHANGED <<display, renderQueue, textureState, texture, frame>>
    /\ NextEvent
    /\ UNCHANGED <<threadVars, decodeQueue, polled, main, running, endOfStream>>

RenderEvent == BeginEvent \/ PeekFrame \/ CheckFrame \/ EndEvent

---------------------------------------------------------------------------------
Next ==
    \/ \E t \in Tiles : StreamThread(t) \/ Poll(t) \/ StartUpdate(t)
    \/ Release
    \/ JoinStreams
    \/ RenderEvent

(* The threads run, the server answers every request in the end, the host  *)
(* polls every tile in each of its frames and executes the texture updates *)
(* in the order it issued them (so each of them gets its turn).  Nothing   *)
(* makes the host release the library.                                     *)
Fairness ==
    /\ \A t \in Tiles : /\ WF_vars(StreamThread(t))
                        /\ WF_vars(Poll(t))
                        /\ SF_vars(StartUpdate(t))
    /\ WF_vars(RenderEvent)
    /\ WF_vars(JoinStreams)

Spec == Init /\ [][Next]_vars
FairSpec == Spec /\ Fairness

---------------------------------------------------------------------------------
(* Properties.                                                             *)

Items == Nat \cup {EndFrame, EndError}

(* Every variable keeps its type; a decode queue keeps within its capacity *)
(* although three statements of two loops write to it.                     *)
TypeOK ==
    /\ pc \in [Tiles -> {"fetch", "check", "write", "stopFrame", "stopError",
                         "ended", "aborted", "failed"}]
    /\ pending \in [Tiles -> Nat]
    /\ written \in [Tiles -> Nat]
    /\ decodeQueue \in [Tiles -> Seq(Items)]
    /\ \A t \in Tiles : Len(decodeQueue[t]) <= Capacity
    /\ polled \in [Tiles -> Nat]
    /\ main \in {"poll", "join", "released"}
    /\ running \in BOOLEAN
    /\ endOfStream \in BOOLEAN
    /\ renderQueue \in [Tiles -> Seq(Nat \cup {EndFrame})]
    /\ frame \in [Tiles -> Nat \cup {EndFrame, Nil}]
    /\ textureState \in [Tiles -> SUBSET Planes]
    /\ texture \in [Tiles -> [Planes -> Nat \cup {EndFrame, Nil}]]
    /\ display \in [Tiles -> Seq([Planes -> Nat \cup {EndFrame, Nil}])]
    /\ updates \in [Tiles -> Nat]
    /\ tile \in Tiles \cup {Nil}
    /\ plane \in Planes
    /\ at \in {"idle", "begin", "peek", "check", "end"}
    /\ at # "idle" <=> tile # Nil

(* What a tile's thread has put in its decode queue so far, and the n-th   *)
(* item of its stream: the frames in order, the empty frame, the exception.*)
Put(t) == written[t] + (IF pc[t] = "ended" THEN 2
                        ELSE IF pc[t] = "stopError" THEN 1 ELSE 0)
Item(t, n) == IF n <= written[t] THEN n
              ELSE IF n = written[t] + 1 THEN EndFrame ELSE EndError

(* Items of a tile's stream that have been passed to the render queue.     *)
Delivered(t) == IF polled[t] = written[t] + 2 THEN polled[t] - 1 ELSE polled[t]

(* The pictures shown, the render queue and the decode queue of a tile are *)
(* consecutive pieces of its stream.                                       *)
DecodeInOrder(t) ==
    /\ Len(decodeQueue[t]) = Put(t) - polled[t]
    /\ \A i \in 1..Len(decodeQueue[t]) :
          decodeQueue[t][i] = Item(t, polled[t] + i)
RenderInOrder(t) ==
    /\ Len(display[t]) + Len(renderQueue[t]) = Delivered(t)
    /\ \A i \in 1..Len(renderQueue[t]) :
          renderQueue[t][i] = Item(t, Len(display[t]) + i)

(* Until the tables are destroyed nothing is lost, doubled or reordered on *)
(* the way of a frame through timed-out writes, polls and texture events   *)
(* (plugin.cpp:245, 304, 311, 508).                                        *)
StreamOrder ==
    main # "released" => \A t \in Tiles :
        /\ DecodeInOrder(t)
        /\ DecodeEnable => RenderInOrder(t)

(* The assertions of on_texture_update_event (plugin.cpp:480-511) hold in  *)
(* whatever order the events meet the polls: a frame is there when a plane *)
(* is taken, planes are begun once, in order, and ended after they began.  *)
EventAssertions ==
    /\ at = "begin" /\ ~endOfStream =>
          /\ textureState[tile] = {} => plane = 0 /\ frame[tile] = Nil
          /\ textureState[tile] # {} => frame[tile] # Nil
          /\ plane \notin textureState[tile]
    /\ at = "check" => frame[tile] # Nil /\ textureState[tile] = {}
    /\ at = "end" /\ ~endOfStream =>
          /\ frame[tile] \in Nat
          /\ plane \in textureState[tile]
          /\ AllPlanes => plane = 2

(* The flag is up only if the host has been handed every frame of a tile   *)
(* whose server ran out of segments: no other event stops the panorama.    *)
EndIsGenuine ==
    endOfStream => \E t \in Tiles : /\ pc[t] \in {"stopError", "ended"}
                                    /\ polled[t] > written[t]

(* Both threads write the flag and the render thread may wipe out what the *)
(* main thread has just set (plugin.cpp:309 between 476 and 107).  The end *)
(* is not lost: the empty frame in the render queue raises the flag again, *)
(* and from then on it stays up until the host gives up polling.           *)
StopNotLost ==
    DecodeEnable => \A t \in Tiles :
        [](pc[t] = "ended" => <>[](endOfStream \/ main # "poll"))

(* Frame n of tile t has been on screen, all planes of it.                 *)
OnScreen(t, n) == \E i \in 1..Len(display[t]) : display[t][i] = [p \in Planes |-> n]

(* A frame the host has polled gets on screen unless the panorama ends.    *)
FramesShown ==
    DecodeEnable => \A t \in Tiles : \A n \in 1..MaxFrames[t] :
        (n <= written[t] /\ n <= polled[t])
            ~> (OnScreen(t, n) \/ endOfStream \/ main # "poll")

(* Room a thread still asks of its decode queue without looking at the     *)
(* running flag again.                                                     *)
RoomNeeded(t) ==
    CASE pc[t] = "write" /\ pending[t] = 1 /\ ~Full(t) -> 3
      [] pc[t] \in {"fetch", "stopFrame"}               -> 2
      [] pc[t] = "stopError"                            -> 1
      [] OTHER                                          -> 0

(* Release joins the stream threads (plugin.cpp:418) and returns, provided *)
(* every thread finds the room it still needs: nobody reads the queues of  *)
(* the threads that are being joined.                                      *)
ReleaseReturnsIfRoom ==
    (/\ main = "join"
     /\ \A t \in Tiles :
           RoomNeeded(t) > 0 => Len(decodeQueue[t]) + RoomNeeded(t) <= Capacity)
        ~> (main = "released")

(* "stream_executor = nullptr; // join 1-1" (plugin.cpp:418): Release      *)
(* joins the stream threads and goes on.                                   *)
ReleaseReturns == (main = "join") ~> (main = "released")

(* The pictures on screen are what the abstract specification allows.      *)
Shown == INSTANCE FrameStream
             WITH decoded <- written, display <- display
ShownInOrder == Shown!Spec
=================================================================================
