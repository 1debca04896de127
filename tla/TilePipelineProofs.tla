--------------------------- MODULE TilePipelineProofs ---------------------------
(***************************************************************************)
(* Theorems about the frame pipeline, for every set of tiles, every queue  *)
(* capacity and every length of the streams.                               *)
(*                                                                         *)
(* The argument: as long as no texture event has been skipped, a tile's    *)
(* outstanding updates are its render queue, one for one, plus one for the *)
(* exception (UpdatesMatch), and what the render thread holds of the       *)
(* tile's front frame is fixed by the event it is in (FrameHeld).  Once an *)
(* event has been skipped the end-of-stream flag stays up, because only a  *)
(* begin event that has seen it down can lower it.                         *)
(***************************************************************************)
EXTENDS TilePipeline, SequenceFacts

(* A thread in its write loop has a frame to write.                        *)
ThreadInv(t) ==
    /\ pc[t] \in {"check", "write"} => pending[t] > 0
    /\ written[t] + pending[t] <= MaxFrames[t]

(* No texture event has been skipped so far.                               *)
Unskipped == at \in {"peek", "check"} \/ ~endOfStream

UpdatesMatch(t) ==
    updates[t] = Len(renderQueue[t])
                 + (IF polled[t] = written[t] + 2 THEN 1 ELSE 0)

(* No plane of a frame of tile t has begun.                                *)
NoneBegun(t) == t # tile \/ at = "peek" \/ (at = "begin" /\ plane = 0)

FrameHeld(t) ==
    IF NoneBegun(t)
    THEN textureState[t] = {} /\ frame[t] = Nil
    ELSE /\ renderQueue[t] # <<>>
         /\ frame[t] = Head(renderQueue[t])
         /\ at # "check" => frame[t] \in Nat
         /\ textureState[t] = CASE at = "begin" -> 0..(plane - 1)
                                [] at = "end"   -> 0..plane
                                [] OTHER        -> {}
         /\ \A p \in textureState[t] : texture[t][p] = frame[t]

RenderInv ==
    /\ at \in {"peek", "check"} => plane = 0
    /\ at # "idle" => main # "released" /\ updates[tile] > 0
    /\ at = "check" /\ frame[tile] = EndFrame => endOfStream
    /\ ~DecodeEnable => at = "idle" /\ \A t \in Tiles : updates[t] = 0
    /\ main # "released" /\ DecodeEnable /\ Unskipped =>
          \A t \in Tiles : UpdatesMatch(t) /\ FrameHeld(t)
    /\ main = "released" => ~endOfStream

(* The pictures shown are those of the abstract specification.             *)
DisplayInv ==
    \A t \in Tiles :
        /\ Len(display[t]) <= written[t]
        /\ \A i \in 1..Len(display[t]) : display[t][i] = [p \in Planes |-> i]

IInv == /\ TypeOK
        /\ \A t \in Tiles : ThreadInv(t)
        /\ StreamOrder
        /\ EndIsGenuine
        /\ RenderInv
        /\ DisplayInv


---------------------------------------------------------------------------------
(* Where the entries of a window of a numbered stream lie.                 *)
LEMMA Window ==
    ASSUME NEW first \in Nat, NEW length \in Nat, NEW last \in Int,
           NEW read \in Nat, NEW put \in Nat,
           first + length = last, last <= read, read <= put
    PROVE  \A i \in 1..length : first + i \in 1..put
OBVIOUS

---------------------------------------------------------------------------------
(* The initial state.                                                      *)

LEMMA InitInvariant == Init => IInv
<1> SUFFICES ASSUME Init PROVE IInv
    OBVIOUS
<1>0. ASSUME NEW t \in Tiles
      PROVE  /\ pc[t] = "fetch" /\ pending[t] = 0 /\ written[t] = 0
             /\ polled[t] = 0 /\ updates[t] = 0
             /\ decodeQueue[t] = <<>> /\ renderQueue[t] = <<>>
             /\ display[t] = <<>> /\ textureState[t] = {} /\ frame[t] = Nil
             /\ t # tile
    BY PipelineAssumption DEF Init
<1>1. TypeOK
  <2>1. /\ decodeQueue \in [Tiles -> Seq(Items)]
        /\ renderQueue \in [Tiles -> Seq(Nat \cup {EndFrame})]
        /\ display \in [Tiles -> Seq([Planes -> Nat \cup {EndFrame, Nil}])]
    BY EmptySeq DEF Init
  <2>2. \A t \in Tiles : Len(decodeQueue[t]) <= Capacity
    <3> TAKE t \in Tiles
    <3>1. decodeQueue[t] = <<>>
      BY <1>0
    <3> QED BY <3>1, EmptySeq, PipelineAssumption
  <2>3. texture \in [Tiles -> [Planes -> Nat \cup {EndFrame, Nil}]]
    BY DEF Init, Blank
  <2>4. /\ textureState \in [Tiles -> SUBSET Planes]
        /\ frame \in [Tiles -> Nat \cup {EndFrame, Nil}]
        /\ plane \in Planes
    BY DEF Init, Planes
  <2> QED BY <2>1, <2>2, <2>3, <2>4 DEF Init, TypeOK
<1>2. \A t \in Tiles : ThreadInv(t)
  <2> TAKE t \in Tiles
  <2>1. pc[t] = "fetch" /\ written[t] = 0 /\ pending[t] = 0
    BY <1>0
  <2> QED BY <2>1, PipelineAssumption DEF ThreadInv
<1>3. \A t \in Tiles : /\ DecodeInOrder(t) /\ RenderInOrder(t)
                       /\ UpdatesMatch(t) /\ FrameHeld(t)
  <2> TAKE t \in Tiles
  <2>0. /\ pc[t] = "fetch" /\ written[t] = 0 /\ polled[t] = 0 /\ updates[t] = 0
        /\ Len(decodeQueue[t]) = 0 /\ Len(renderQueue[t]) = 0
        /\ Len(display[t]) = 0
    BY <1>0, EmptySeq
  <2>1. DecodeInOrder(t)
    BY <2>0 DEF DecodeInOrder, Put
  <2>2. RenderInOrder(t)
    BY <2>0 DEF RenderInOrder, Delivered
  <2>3. UpdatesMatch(t)
    BY <2>0 DEF UpdatesMatch
  <2>4. FrameHeld(t)
    BY <1>0 DEF FrameHeld, NoneBegun
  <2> QED BY <2>1, <2>2, <2>3, <2>4
<1>4. EndIsGenuine
    BY DEF Init, EndIsGenuine
<1>5. RenderInv
    BY <1>0, <1>3 DEF Init, RenderInv
<1>6. DisplayInv
  <2> SUFFICES ASSUME NEW t \in Tiles
               PROVE  /\ Len(display[t]) <= written[t]
                      /\ \A i \in 1..Len(display[t]) :
                            display[t][i] = [p \in Planes |-> i]
      BY DEF DisplayInv
  <2>1. Len(display[t]) = 0 /\ written[t] = 0
    BY <1>0, EmptySeq
  <2> QED BY <2>1
<1>7. StreamOrder
    BY <1>3 DEF StreamOrder
<1> QED BY <1>1, <1>2, <1>4, <1>5, <1>6, <1>7 DEF IInv

---------------------------------------------------------------------------------
(* The stream thread.                                                      *)

(* What a step of tile t's thread does, whichever step it is: it leaves    *)
(* the other actors and the other tiles alone, and its queue alone or      *)
(* longer by the next item of the tile's stream.                           *)
Extends(t) ==
    /\ ~Full(t)
    /\ \E x \in Items : /\ decodeQueue' = [decodeQueue EXCEPT ![t] = Append(@, x)]
                        /\ x = Item(t, Put(t))'
    /\ Put(t)' = Put(t) + 1

LEMMA ThreadShape ==
    ASSUME TypeOK, NEW t \in Tiles, ThreadInv(t), StreamThread(t)
    PROVE  /\ UNCHANGED <<polled, main, running, endOfStream, renderQueue,
                          updates, renderVars>>
           /\ pc' \in [Tiles -> {"fetch", "check", "write", "stopFrame",
                                 "stopError", "ended", "aborted", "failed"}]
           /\ pending' \in [Tiles -> Nat] /\ written' \in [Tiles -> Nat]
           /\ \A u \in Tiles \ {t} :
                 /\ pc'[u] = pc[u] /\ pending'[u] = pending[u]
                 /\ written'[u] = written[u] /\ decodeQueue'[u] = decodeQueue[u]
           /\ ThreadInv(t)'
           /\ pc[t] \in {"stopError", "ended"} =>
                 pc'[t] \in {"stopError", "ended"} /\ written'[t] = written[t]
           /\ \/ written'[t] = written[t]
              \/ written'[t] = written[t] + 1 /\ Put(t) = written[t]
           /\ \/ UNCHANGED decodeQueue /\ Put(t)' = Put(t)
              \/ Extends(t)
<1>0. /\ pc \in [Tiles -> {"fetch", "check", "write", "stopFrame",
                             "stopError", "ended", "aborted", "failed"}]
      /\ pending \in [Tiles -> Nat] /\ written \in [Tiles -> Nat]
      /\ decodeQueue \in [Tiles -> Seq(Items)]
    BY DEF TypeOK
<1> USE <1>0, PipelineAssumption DEF ThreadInv, Goto
<1>1. CASE FetchSegment(t)
  <2>1. PICK k \in 1..MaxSegment : /\ written[t] + k <= MaxFrames[t]
                                   /\ pending' = [pending EXCEPT ![t] = k]
    BY <1>1 DEF FetchSegment
  <2>2. /\ pc[t] = "fetch" /\ pc' = [pc EXCEPT ![t] = "check"]
        /\ UNCHANGED <<written, decodeQueue>>
        /\ UNCHANGED <<polled, main, running, endOfStream, renderQueue,
                       updates, renderVars>>
    BY <1>1 DEF FetchSegment
  <2>3. Put(t)' = Put(t)
    BY <2>2 DEF Put
  <2>4. /\ pending' \in [Tiles -> Nat] /\ pending'[t] = k
        /\ k \in Nat /\ k > 0 /\ pc'[t] = "check"
    BY <2>1, <2>2
  <2>5. ThreadInv(t)'
    BY <2>1, <2>2, <2>4
  <2> QED BY <2>1, <2>2, <2>3, <2>4, <2>5
<1>2. CASE FetchBadResponse(t)
    BY <1>2 DEF FetchBadResponse, Put
<1>3. CASE FetchUnexpected(t)
    BY <1>3 DEF FetchUnexpected, Put
<1>4. CASE CheckRunning(t)
    BY <1>4 DEF CheckRunning, Put
<1>5. CASE TryWrite(t)
  <2>1. /\ pc[t] = "write" /\ ~Full(t) /\ written[t] + 1 \in Items
        /\ decodeQueue' = [decodeQueue EXCEPT ![t] = Append(@, written[t] + 1)]
        /\ written' = [written EXCEPT ![t] = @ + 1]
        /\ pending' = [pending EXCEPT ![t] = @ - 1]
        /\ pc' = [pc EXCEPT ![t] = IF pending[t] = 1 THEN "fetch" ELSE "check"]
        /\ UNCHANGED <<polled, main, running, endOfStream, renderQueue,
                       updates, renderVars>>
    BY <1>5 DEF TryWrite, Enqueue, Items
  <2>2. /\ Put(t) = written[t] /\ Put(t)' = written[t] + 1
        /\ Item(t, Put(t))' = written[t] + 1
    BY <2>1 DEF Put, Item
  <2>3. Extends(t)
    BY <2>1, <2>2 DEF Extends
  <2>4. /\ pending[t] > 0 /\ pending'[t] = pending[t] - 1
        /\ written'[t] = written[t] + 1
        /\ pc'[t] = IF pending[t] = 1 THEN "fetch" ELSE "check"
    BY <2>1
  <2>5. pending' \in [Tiles -> Nat] /\ written' \in [Tiles -> Nat]
    <3>1. pending[t] - 1 \in Nat /\ written[t] + 1 \in Nat
      BY <2>4
    <3>2. pending' \in [Tiles -> Nat]
      BY <2>1, <3>1
    <3>3. written' \in [Tiles -> Nat]
      BY <2>1, <3>1
    <3> QED BY <3>2, <3>3
  <2>6. ThreadInv(t)'
    BY <2>4, written[t] \in Nat, pending[t] \in Nat
  <2> QED BY <2>1, <2>2, <2>3, <2>4, <2>5, <2>6
<1>6. CASE WriteTimeout(t)
    BY <1>6 DEF WriteTimeout, Put
<1>7. CASE WriteStopFrame(t)
  <2>1. /\ pc[t] = "stopFrame" /\ ~Full(t) /\ EndFrame \in Items
        /\ decodeQueue' = [decodeQueue EXCEPT ![t] = Append(@, EndFrame)]
        /\ pc' = [pc EXCEPT ![t] = "stopError"]
        /\ UNCHANGED <<written, pending>>
        /\ UNCHANGED <<polled, main, running, endOfStream, renderQueue,
                       updates, renderVars>>
    BY <1>7 DEF WriteStopFrame, Enqueue, Items
  <2>2. Put(t) = written[t] /\ Put(t)' = written[t] + 1
    BY <2>1 DEF Put
  <2>3. Item(t, Put(t))' = EndFrame
    BY <2>1, <2>2 DEF Item
  <2>4. Extends(t)
    BY <2>1, <2>2, <2>3 DEF Extends
  <2> QED BY <2>1, <2>2, <2>3, <2>4
<1>8. CASE WriteStopError(t)
  <2>1. /\ pc[t] = "stopError" /\ ~Full(t) /\ EndError \in Items
        /\ decodeQueue' = [decodeQueue EXCEPT ![t] = Append(@, EndError)]
        /\ pc' = [pc EXCEPT ![t] = "ended"]
        /\ UNCHANGED <<written, pending>>
        /\ UNCHANGED <<polled, main, running, endOfStream, renderQueue,
                       updates, renderVars>>
    BY <1>8 DEF WriteStopError, Enqueue, Items
  <2>2. Put(t) = written[t] + 1 /\ Put(t)' = written[t] + 2
    BY <2>1 DEF Put
  <2>3. Item(t, Put(t))' = EndError /\ Put(t)' = Put(t) + 1
    BY <2>1, <2>2 DEF Item
  <2>4. Extends(t)
    BY <2>1, <2>3 DEF Extends
  <2> QED BY <2>1, <2>2, <2>3, <2>4
<1> QED
    BY <1>1, <1>2, <1>3, <1>4, <1>5, <1>6, <1>7, <1>8 DEF StreamThread

(* A longer stream has the same items where it had any.                    *)
LEMMA ItemsKept ==
    ASSUME NEW t \in Tiles, written[t] \in Nat, polled[t] \in Nat,
           polled'[t] = polled[t], polled[t] <= Put(t),
           \/ written'[t] = written[t]
           \/ written'[t] = written[t] + 1 /\ Put(t) = written[t]
    PROVE  /\ \A n \in 1..Put(t) : Item(t, n)' = Item(t, n)
           /\ (polled'[t] = written'[t] + 2) <=> (polled[t] = written[t] + 2)
           /\ Delivered(t)' = Delivered(t)
<1>1. CASE written'[t] = written[t]
    BY <1>1 DEF Item, Delivered, Put
<1>2. CASE written'[t] = written[t] + 1 /\ Put(t) = written[t]
  <2>1. \A n \in 1..Put(t) : Item(t, n)' = n /\ Item(t, n) = n
    BY <1>2 DEF Item
  <2>2. polled[t] # written[t] + 2 /\ polled'[t] # written'[t] + 2
    BY <1>2
  <2> QED BY <2>1, <2>2 DEF Delivered
<1> QED BY <1>1, <1>2

LEMMA PutNat ==
    ASSUME NEW t \in Tiles, written[t] \in Nat
    PROVE  Put(t) \in Nat /\ Put(t) >= written[t] /\ Put(t) <= written[t] + 2
BY DEF Put

(* The decode queue after a step of the tile's thread.                     *)
LEMMA ThreadKeepsDecodeOrder ==
    ASSUME IInv, NEW t \in Tiles, StreamThread(t), DecodeInOrder(t)
    PROVE  DecodeInOrder(t)' /\ Len(decodeQueue'[t]) <= Capacity
           /\ decodeQueue' \in [Tiles -> Seq(Items)]
<1> DEFINE q == decodeQueue[t]
<1>0. /\ TypeOK /\ ThreadInv(t) /\ written[t] \in Nat /\ polled[t] \in Nat
      /\ q \in Seq(Items) /\ Len(q) \in Nat /\ Len(q) <= Capacity
      /\ Put(t) \in Nat /\ Len(q) = Put(t) - polled[t]
    BY PutNat, LenProperties DEF IInv, TypeOK, DecodeInOrder
<1>1. /\ polled' = polled
      /\ \/ UNCHANGED decodeQueue /\ Put(t)' = Put(t)
         \/ Extends(t)
      /\ \/ written'[t] = written[t]
         \/ written'[t] = written[t] + 1 /\ Put(t) = written[t]
    BY <1>0, ThreadShape
<1>2. \A n \in 1..Put(t) : Item(t, n)' = Item(t, n)
    BY <1>0, <1>1, ItemsKept
<1>3. \A i \in 1..Len(q) : polled[t] + i \in 1..Put(t)
    BY <1>0
<1>4. CASE UNCHANGED decodeQueue /\ Put(t)' = Put(t)
  <2>1. \A i \in 1..Len(q) : q[i] = Item(t, polled[t] + i)'
    BY <1>1, <1>2, <1>3 DEF DecodeInOrder
  <2>2. \A i \in 1..Len(q) : decodeQueue'[t][i] = Item(t, polled[t] + i)'
    BY <1>4, <2>1
  <2> QED BY <1>0, <1>1, <1>4, <2>2 DEF DecodeInOrder, TypeOK
<1>5. CASE Extends(t)
  <2>1. PICK x \in Items : /\ decodeQueue' = [decodeQueue EXCEPT ![t] = Append(@, x)]
                           /\ x = Item(t, Put(t))'
    BY <1>5 DEF Extends
  <2>2. /\ decodeQueue'[t] = Append(q, x)
        /\ decodeQueue' \in [Tiles -> Seq(Items)]
    BY <1>0, <2>1, AppendEntries DEF TypeOK
  <2>3. /\ Len(Append(q, x)) = Len(q) + 1
        /\ \A i \in 1..Len(q) : Append(q, x)[i] = q[i]
        /\ Append(q, x)[Len(q) + 1] = x
    BY <1>0, AppendEntries
  <2>4. Put(t)' = Put(t) + 1 /\ Len(q) < Capacity
    BY <1>0, <1>5, PipelineAssumption DEF Extends, Full
  <2>5. Len(decodeQueue'[t]) = Put(t)' - polled'[t]
    BY <1>0, <1>1, <2>2, <2>3, <2>4
  <2>6. ASSUME NEW i \in 1..Len(decodeQueue'[t])
        PROVE  decodeQueue'[t][i] = Item(t, polled[t] + i)'
    <3>1. CASE i \in 1..Len(q)
      <4>1. q[i] = Item(t, polled[t] + i) /\ polled[t] + i \in 1..Put(t)
        BY <1>3, <3>1 DEF DecodeInOrder
      <4>2. Item(t, polled[t] + i)' = Item(t, polled[t] + i)
        BY <1>1, <1>2, <4>1
      <4> QED BY <2>2, <2>3, <3>1, <4>1, <4>2
    <3>2. CASE i = Len(q) + 1
      <4>1. polled'[t] + i = Put(t)'
        BY <1>0, <1>1, <2>4, <3>2
      <4>2. x = Item(t, polled[t] + i)'
        BY <2>1, <4>1
      <4>3. decodeQueue'[t][i] = x
        BY <2>2, <2>3, <3>2
      <4> QED BY <4>2, <4>3
    <3> QED BY <1>0, <2>2, <2>3, <3>1, <3>2
  <2>7. Len(decodeQueue'[t]) <= Capacity
    BY <1>0, <2>2, <2>3, <2>4, PipelineAssumption
  <2>8. DecodeInOrder(t)'
    BY <2>5, <2>6 DEF DecodeInOrder
  <2> QED BY <2>2, <2>7, <2>8
<1> QED BY <1>1, <1>4, <1>5

(* Every step of a stream thread keeps the invariant.                      *)
LEMMA ThreadStep ==
    ASSUME IInv, NEW t \in Tiles, StreamThread(t)
    PROVE  IInv'
<1>0. TypeOK /\ ThreadInv(t)
    BY DEF IInv
<1>1. /\ UNCHANGED <<polled, main, running, endOfStream, renderQueue,
                     updates, renderVars>>
      /\ \A u \in Tiles \ {t} :
            /\ pc'[u] = pc[u] /\ pending'[u] = pending[u]
            /\ written'[u] = written[u] /\ decodeQueue'[u] = decodeQueue[u]
      /\ ThreadInv(t)'
      /\ pc[t] \in {"stopError", "ended"} =>
            pc'[t] \in {"stopError", "ended"} /\ written'[t] = written[t]
      /\ \/ written'[t] = written[t]
         \/ written'[t] = written[t] + 1 /\ Put(t) = written[t]
      /\ \/ UNCHANGED decodeQueue /\ Put(t)' = Put(t)
         \/ Extends(t)
    BY <1>0, ThreadShape
<1>2. /\ pc' \in [Tiles -> {"fetch", "check", "write", "stopFrame",
                            "stopError", "ended", "aborted", "failed"}]
      /\ pending' \in [Tiles -> Nat] /\ written' \in [Tiles -> Nat]
    BY <1>0, ThreadShape
<1>3. /\ UNCHANGED <<frame, textureState, texture, display, tile, plane, at>>
      /\ UNCHANGED <<polled, main, running, endOfStream, renderQueue, updates>>
    BY <1>1 DEF renderVars
<1>4. CASE main = "released"
  <2>1. Len(decodeQueue'[t]) <= Capacity /\ decodeQueue' \in [Tiles -> Seq(Items)]
    <3>1. CASE UNCHANGED decodeQueue
      BY <1>0, <3>1 DEF TypeOK
    <3>2. CASE Extends(t)
      <4>1. PICK x \in Items : decodeQueue' = [decodeQueue EXCEPT ![t] = Append(@, x)]
        BY <3>2 DEF Extends
      <4>2. decodeQueue[t] \in Seq(Items) /\ decodeQueue'[t] = Append(decodeQueue[t], x)
        BY <1>0, <4>1 DEF TypeOK
      <4>3. /\ Append(decodeQueue[t], x) \in Seq(Items)
            /\ Len(Append(decodeQueue[t], x)) = Len(decodeQueue[t]) + 1
            /\ Len(decodeQueue[t]) \in Nat
        BY <4>2, AppendEntries, LenProperties
      <4>4. Len(decodeQueue[t]) < Capacity
        BY <3>2, <4>3, PipelineAssumption DEF Extends, Full
      <4>5. Capacity \in Nat
        BY PipelineAssumption
      <4>6. Len(decodeQueue'[t]) <= Capacity
        <5>1. Len(decodeQueue'[t]) = Len(decodeQueue[t]) + 1
          BY <4>2, <4>3
        <5> QED BY <4>3, <4>4, <4>5, <5>1
      <4>7. decodeQueue' \in [Tiles -> Seq(Items)]
        <5>1. decodeQueue \in [Tiles -> Seq(Items)]
          BY <1>0 DEF TypeOK
        <5> QED BY <4>1, <4>2, <4>3, <5>1
      <4> QED BY <4>6, <4>7
    <3> QED BY <1>1, <3>1, <3>2
  <2>2. TypeOK'
    BY <1>0, <1>1, <1>2, <1>3, <2>1 DEF TypeOK
  <2>3. \A u \in Tiles : ThreadInv(u)'
    BY <1>1 DEF IInv, ThreadInv
  <2>4. StreamOrder' /\ EndIsGenuine'
    BY <1>3, <1>4 DEF IInv, StreamOrder, EndIsGenuine, RenderInv
  <2>5. RenderInv'
    BY <1>3, <1>4 DEF IInv, RenderInv
  <2>6. DisplayInv'
    <3> SUFFICES ASSUME NEW u \in Tiles
                 PROVE  Len(display[u]) <= written'[u]
        BY <1>3 DEF IInv, DisplayInv
    <3>1. /\ Len(display[u]) <= written[u] /\ Len(display[u]) \in Nat
          /\ written[u] \in Nat
      BY <1>0, LenProperties DEF IInv, DisplayInv, TypeOK
    <3>2. written'[u] = written[u] \/ written'[u] = written[u] + 1
      BY <1>1
    <3> QED BY <3>1, <3>2
  <2> QED BY <2>2, <2>3, <2>4, <2>5, <2>6 DEF IInv
<1>5. CASE main # "released"
  <2>1. \A u \in Tiles : DecodeInOrder(u) /\ (DecodeEnable => RenderInOrder(u))
    BY <1>5 DEF IInv, StreamOrder
  <2>2. /\ DecodeInOrder(t)' /\ Len(decodeQueue'[t]) <= Capacity
        /\ decodeQueue' \in [Tiles -> Seq(Items)]
    BY <2>1, ThreadKeepsDecodeOrder
  <2>3. TypeOK'
    BY <1>0, <1>1, <1>2, <1>3, <2>2 DEF TypeOK
  <2>4. \A u \in Tiles : ThreadInv(u)'
    BY <1>1 DEF IInv, ThreadInv
  <2>5. /\ written[t] \in Nat /\ polled[t] \in Nat /\ Put(t) \in Nat
        /\ polled[t] <= Put(t)
    <3>1. written[t] \in Nat /\ polled[t] \in Nat /\ decodeQueue[t] \in Seq(Items)
      BY <1>0 DEF TypeOK
    <3>2. Len(decodeQueue[t]) \in Nat /\ Put(t) \in Nat
      BY <3>1, LenProperties, PutNat
    <3> QED BY <2>1, <3>1, <3>2 DEF DecodeInOrder
  <2>6. /\ \A n \in 1..Put(t) : Item(t, n)' = Item(t, n)
        /\ (polled'[t] = written'[t] + 2) <=> (polled[t] = written[t] + 2)
        /\ Delivered(t)' = Delivered(t)
    BY <1>1, <1>3, <2>5, ItemsKept
  <2>7. \A u \in Tiles \ {t} : DecodeInOrder(u)'
    BY <1>1, <1>3, <2>1 DEF DecodeInOrder, Put, Item
  <2>8. \A u \in Tiles \ {t} : DecodeEnable => RenderInOrder(u)'
    <3> TAKE u \in Tiles \ {t}
    <3>1. Delivered(u)' = Delivered(u) /\ \A n : Item(u, n)' = Item(u, n)
      BY <1>1, <1>3 DEF Delivered, Item
    <3> QED BY <1>3, <2>1, <3>1 DEF RenderInOrder
  <2>9. DecodeEnable => RenderInOrder(t)'
    <3> SUFFICES ASSUME DecodeEnable PROVE RenderInOrder(t)'
        OBVIOUS
    <3>1. /\ Len(display[t]) \in Nat /\ Len(renderQueue[t]) \in Nat
          /\ Len(display[t]) + Len(renderQueue[t]) = Delivered(t)
      BY <1>0, <2>1, LenProperties DEF TypeOK, RenderInOrder
    <3>2. \A i \in 1..Len(renderQueue[t]) :
             renderQueue[t][i] = Item(t, Len(display[t]) + i)
      BY <2>1 DEF RenderInOrder
    <3>3. \A i \in 1..Len(renderQueue[t]) : Len(display[t]) + i \in 1..Put(t)
      <4>1. polled[t] \in Nat /\ Put(t) \in Nat /\ polled[t] <= Put(t)
        BY <2>5
      <4>2. Delivered(t) \in Int /\ Delivered(t) <= polled[t]
        BY <2>5 DEF Delivered
      <4> QED BY <3>1, <4>1, <4>2, Window
    <3>4. \A i \in 1..Len(renderQueue[t]) :
             renderQueue[t][i] = Item(t, Len(display[t]) + i)'
      BY <1>3, <2>6, <3>2, <3>3
    <3> QED BY <1>3, <2>6, <3>1, <3>4 DEF RenderInOrder
  <2>10. StreamOrder'
    BY <2>2, <2>7, <2>8, <2>9 DEF StreamOrder
  <2>11. EndIsGenuine'
    BY <1>1, <1>3 DEF IInv, EndIsGenuine
  <2>12. RenderInv'
    <3>1. \A u \in Tiles : UpdatesMatch(u)' <=> UpdatesMatch(u)
      BY <1>1, <1>3, <2>6 DEF UpdatesMatch
    <3>2. \A u \in Tiles : FrameHeld(u)' <=> FrameHeld(u)
      BY <1>3 DEF FrameHeld, NoneBegun
    <3>3. Unskipped' <=> Unskipped
      BY <1>3 DEF Unskipped
    <3> QED BY <1>3, <3>1, <3>2, <3>3 DEF IInv, RenderInv
  <2>13. DisplayInv'
    <3> SUFFICES ASSUME NEW u \in Tiles
                 PROVE  Len(display[u]) <= written'[u]
        BY <1>3 DEF IInv, DisplayInv
    <3>1. /\ Len(display[u]) <= written[u] /\ Len(display[u]) \in Nat
          /\ written[u] \in Nat
      BY <1>0, LenProperties DEF IInv, DisplayInv, TypeOK
    <3>2. written'[u] = written[u] \/ written'[u] = written[u] + 1
      BY <1>1
    <3> QED BY <3>1, <3>2
  <2> QED BY <2>3, <2>4, <2>10, <2>11, <2>12, <2>13 DEF IInv
<1> QED BY <1>4, <1>5

---------------------------------------------------------------------------------
(* The main thread.                                                        *)

(* Taking the item numbered n + 1 from a queue of the items n + 1, ...     *)
LEMMA TakeNext ==
    ASSUME NEW t \in Tiles, NEW S, NEW q \in Seq(S), q # <<>>, NEW n \in Nat,
           \A i \in 1..Len(q) : q[i] = Item(t, n + i)
    PROVE  /\ Head(q) = Item(t, n + 1)
           /\ \A i \in 1..Len(Tail(q)) : Tail(q)[i] = Item(t, n + 1 + i)
<1>1. /\ Len(q) \in Nat \ {0} /\ Len(Tail(q)) = Len(q) - 1 /\ Head(q) = q[1]
      /\ \A i \in 1..Len(Tail(q)) : Tail(q)[i] = q[i + 1]
    BY TailEntries
<1>2. Head(q) = Item(t, n + 1)
    BY <1>1
<1>3. ASSUME NEW i \in 1..Len(Tail(q))
      PROVE  Tail(q)[i] = Item(t, n + 1 + i)
  <2>1. i + 1 \in 1..Len(q) /\ n + (i + 1) = n + 1 + i
    BY <1>1
  <2> QED BY <1>1, <2>1
<1> QED BY <1>2, <1>3

(* Adding the next item to a queue of the items n + 1, ..., n + Len(q).    *)
LEMMA AddNext ==
    ASSUME NEW t \in Tiles, NEW S, NEW q \in Seq(S), NEW x \in S, NEW n \in Nat,
           \A i \in 1..Len(q) : q[i] = Item(t, n + i),
           x = Item(t, n + Len(q) + 1)
    PROVE  \A i \in 1..Len(Append(q, x)) : Append(q, x)[i] = Item(t, n + i)
<1>1. /\ Len(q) \in Nat /\ Len(Append(q, x)) = Len(q) + 1
      /\ \A i \in 1..Len(q) : Append(q, x)[i] = q[i]
      /\ Append(q, x)[Len(q) + 1] = x
    BY AppendEntries, LenProperties
<1> TAKE i \in 1..Len(Append(q, x))
<1>2. CASE i \in 1..Len(q)
    BY <1>1, <1>2
<1>3. CASE i = Len(q) + 1
  <2>1. n + i = n + Len(q) + 1
    BY <1>1, <1>3
  <2> QED BY <1>1, <1>3, <2>1
<1> QED BY <1>1, <1>2, <1>3

(* What the next item of a decode queue is and where it stands.            *)
LEMMA NextItem ==
    ASSUME IInv, NEW t \in Tiles, DecodeInOrder(t), decodeQueue[t] # <<>>
    PROVE  /\ Head(decodeQueue[t]) = Item(t, polled[t] + 1)
           /\ \A i \in 1..Len(Tail(decodeQueue[t])) :
                 Tail(decodeQueue[t])[i] = Item(t, polled[t] + 1 + i)
           /\ Len(Tail(decodeQueue[t])) = Len(decodeQueue[t]) - 1
           /\ Tail(decodeQueue[t]) \in Seq(Items)
           /\ Len(decodeQueue[t]) \in Nat
           /\ Put(t) \in Nat /\ polled[t] + 1 <= Put(t)
           /\ polled[t] \in Nat /\ written[t] \in Nat
           /\ IF Head(decodeQueue[t]) = EndError
              THEN polled[t] = written[t] + 1
              ELSE /\ polled[t] <= written[t]
                   /\ Head(decodeQueue[t]) \in Nat \cup {EndFrame}
<1> DEFINE q == decodeQueue[t]
<1>1. /\ q \in Seq(Items) /\ polled[t] \in Nat /\ written[t] \in Nat
      /\ Len(q) \in Nat \ {0} /\ Put(t) \in Nat /\ Put(t) <= written[t] + 2
      /\ Len(q) = Put(t) - polled[t]
    BY TailEntries, PutNat DEF IInv, TypeOK, DecodeInOrder
<1>2. polled[t] + 1 <= Put(t)
    BY <1>1
<1>3. /\ Len(Tail(q)) = Len(q) - 1 /\ Tail(q) \in Seq(Items)
    BY <1>1, TailEntries
<1>4. /\ Head(q) = Item(t, polled[t] + 1)
      /\ \A i \in 1..Len(Tail(q)) : Tail(q)[i] = Item(t, polled[t] + 1 + i)
    BY <1>1, TakeNext DEF DecodeInOrder
<1>5. IF Head(q) = EndError
      THEN polled[t] = written[t] + 1
      ELSE polled[t] <= written[t] /\ Head(q) \in Nat \cup {EndFrame}
  <2>1. CASE polled[t] + 1 <= written[t]
    <3>1. Head(q) = polled[t] + 1
      BY <1>4, <2>1 DEF Item
    <3>2. Head(q) \in Nat
      BY <1>1, <3>1
    <3>3. Head(q) # EndError /\ polled[t] <= written[t]
      BY <1>1, <2>1, <3>2, PipelineAssumption
    <3> QED BY <3>2, <3>3
  <2>2. CASE polled[t] = written[t]
    <3>1. Head(q) = EndFrame
      BY <1>1, <1>4, <2>2 DEF Item
    <3> QED BY <1>1, <2>2, <3>1, PipelineAssumption
  <2>3. CASE polled[t] = written[t] + 1
    <3>1. Head(q) = EndError
      BY <1>1, <1>4, <2>3 DEF Item
    <3> QED BY <2>3, <3>1
  <2>4. \/ polled[t] + 1 <= written[t]
        \/ polled[t] = written[t]
        \/ polled[t] = written[t] + 1
    BY <1>1, <1>2
  <2> QED BY <2>1, <2>2, <2>3, <2>4
<1> QED BY <1>1, <1>2, <1>3, <1>4, <1>5

(* A poll keeps the invariant.                                             *)
LEMMA PollStep ==
    ASSUME IInv, NEW t \in Tiles, Poll(t)
    PROVE  IInv'
<1> DEFINE q == decodeQueue[t]
<1> DEFINE x == Head(q)
<1>0. /\ TypeOK /\ main = "poll" /\ q # <<>> /\ Deliver(t, x)
      /\ decodeQueue' = [decodeQueue EXCEPT ![t] = Tail(q)]
      /\ polled' = [polled EXCEPT ![t] = @ + 1]
      /\ updates' = IF DecodeEnable THEN [updates EXCEPT ![t] = @ + 1] ELSE updates
      /\ UNCHANGED <<pc, pending, written, main, running>>
      /\ UNCHANGED <<frame, textureState, texture, display, tile, plane, at>>
    BY DEF IInv, Poll, threadVars, renderVars
<1>1. \A u \in Tiles : DecodeInOrder(u) /\ (DecodeEnable => RenderInOrder(u))
    BY <1>0 DEF IInv, StreamOrder
<1>2. /\ x = Item(t, polled[t] + 1)
      /\ \A i \in 1..Len(Tail(q)) : Tail(q)[i] = Item(t, polled[t] + 1 + i)
      /\ Len(Tail(q)) = Len(q) - 1 /\ Tail(q) \in Seq(Items)
      /\ Len(q) \in Nat /\ Put(t) \in Nat /\ polled[t] + 1 <= Put(t)
      /\ polled[t] \in Nat /\ written[t] \in Nat
      /\ IF x = EndError THEN polled[t] = written[t] + 1
         ELSE polled[t] <= written[t] /\ x \in Nat \cup {EndFrame}
    BY <1>0, <1>1, NextItem
<1>3. /\ decodeQueue'[t] = Tail(q) /\ polled'[t] = polled[t] + 1
      /\ \A u \in Tiles \ {t} : /\ decodeQueue'[u] = decodeQueue[u]
                                /\ polled'[u] = polled[u]
      /\ decodeQueue' \in [Tiles -> Seq(Items)] /\ polled' \in [Tiles -> Nat]
  <2>1. decodeQueue \in [Tiles -> Seq(Items)] /\ polled \in [Tiles -> Nat]
    BY <1>0 DEF TypeOK
  <2> HIDE DEF q
  <2>2. /\ decodeQueue'[t] = Tail(q)
        /\ \A u \in Tiles \ {t} : decodeQueue'[u] = decodeQueue[u]
        /\ decodeQueue' \in [Tiles -> Seq(Items)]
    BY <1>0, <1>2, <2>1
  <2>3. /\ polled'[t] = polled[t] + 1
        /\ \A u \in Tiles \ {t} : polled'[u] = polled[u]
        /\ polled' \in [Tiles -> Nat]
    BY <1>0, <2>1
  <2> QED BY <2>2, <2>3
<1>4. IF x = EndError
      THEN endOfStream' = TRUE /\ UNCHANGED renderQueue
      ELSE /\ renderQueue' = IF DecodeEnable
                             THEN [renderQueue EXCEPT ![t] = Append(@, x)]
                             ELSE renderQueue
           /\ UNCHANGED endOfStream
    BY <1>0 DEF Deliver, SetAvailable
<1>5. /\ renderQueue[t] \in Seq(Nat \cup {EndFrame})
      /\ Len(renderQueue[t]) \in Nat /\ Len(display[t]) \in Nat
    BY <1>0, LenProperties DEF TypeOK
<1>17. /\ renderQueue \in [Tiles -> Seq(Nat \cup {EndFrame})]
       /\ display \in [Tiles -> Seq([Planes -> Nat \cup {EndFrame, Nil}])]
       /\ written \in [Tiles -> Nat] /\ written' = written
       /\ decodeQueue \in [Tiles -> Seq(Items)]
    BY <1>0 DEF TypeOK
<1>6. x # EndError =>
         /\ Append(renderQueue[t], x) \in Seq(Nat \cup {EndFrame})
         /\ Len(Append(renderQueue[t], x)) = Len(renderQueue[t]) + 1
         /\ Append(renderQueue[t], x) # <<>>
         /\ renderQueue[t] # <<>> =>
               Head(Append(renderQueue[t], x)) = Head(renderQueue[t])
  <2> HIDE DEF x
  <2>1. x # EndError => x \in Nat \cup {EndFrame}
    BY <1>2
  <2> QED BY <1>5, <2>1, AppendEntries
<1>7. /\ renderQueue' \in [Tiles -> Seq(Nat \cup {EndFrame})]
      /\ \A u \in Tiles \ {t} : renderQueue'[u] = renderQueue[u]
      /\ renderQueue'[t] = IF DecodeEnable /\ x # EndError
                           THEN Append(renderQueue[t], x) ELSE renderQueue[t]
  <2>1. CASE DecodeEnable /\ x # EndError
    <3>1. renderQueue' = [renderQueue EXCEPT ![t] = Append(renderQueue[t], x)]
      BY <1>4, <2>1
    <3> QED BY <1>6, <1>17, <2>1, <3>1
  <2>2. CASE ~(DecodeEnable /\ x # EndError)
    <3>1. renderQueue' = renderQueue
      BY <1>4, <2>2
    <3> QED BY <1>17, <2>2, <3>1
  <2> QED BY <2>1, <2>2
<1>8. TypeOK'
  <2>1. Len(decodeQueue'[t]) <= Capacity
    BY <1>0, <1>2, <1>3, PipelineAssumption DEF TypeOK
  <2>2. \A u \in Tiles : Len(decodeQueue'[u]) <= Capacity
    BY <1>0, <1>3, <2>1 DEF TypeOK
  <2>3. updates' \in [Tiles -> Nat]
    <3>1. updates \in [Tiles -> Nat]
      BY <1>0 DEF TypeOK
    <3>2. CASE DecodeEnable
      BY <1>0, <3>1, <3>2
    <3>3. CASE ~DecodeEnable
      BY <1>0, <3>1, <3>3
    <3> QED BY <3>2, <3>3
  <2>4. endOfStream' \in BOOLEAN
    BY <1>0, <1>4 DEF TypeOK
  <2> QED BY <1>0, <1>3, <1>7, <2>2, <2>3, <2>4 DEF TypeOK
<1>9. \A u \in Tiles : ThreadInv(u)'
    BY <1>0 DEF IInv, ThreadInv
<1>10. ASSUME NEW u \in Tiles PROVE DecodeInOrder(u)'
  <2>1. Put(u)' = Put(u) /\ \A n : Item(u, n)' = Item(u, n)
    BY <1>0 DEF Put, Item
  <2>2. CASE u = t
    <3>1. Len(q) = Put(t) - polled[t]
      BY <1>1 DEF DecodeInOrder
    <3>2. Len(Tail(q)) = Put(t) - (polled[t] + 1)
      BY <1>2, <3>1
    <3>3. decodeQueue'[u] = Tail(q) /\ polled'[u] = polled[t] + 1
      BY <1>3, <2>2
    <3>4. \A i \in 1..Len(Tail(q)) : Tail(q)[i] = Item(u, polled[t] + 1 + i)
      BY <1>2, <2>2
    <3>5. Len(decodeQueue'[u]) = Put(u)' - polled'[u]
      BY <2>1, <2>2, <3>2, <3>3
    <3>6. \A i \in 1..Len(decodeQueue'[u]) :
             decodeQueue'[u][i] = Item(u, polled'[u] + i)
      BY <3>3, <3>4
    <3>7. (\A i \in 1..Len(decodeQueue[u]) :
              decodeQueue[u][i] = Item(u, polled[u] + i))'
      BY <1>0, <3>6 DEF Item
    <3> QED BY <3>5, <3>7 DEF DecodeInOrder
  <2>3. CASE u # t
    BY <1>1, <1>3, <2>1, <2>3 DEF DecodeInOrder
  <2> QED BY <2>2, <2>3
<1>11. Delivered(t) = polled[t]
       /\ Delivered(t)' = polled[t] + (IF x = EndError THEN 0 ELSE 1)
    BY <1>0, <1>2, <1>3 DEF Delivered
<1>12. ASSUME NEW u \in Tiles, DecodeEnable PROVE RenderInOrder(u)'
  <2>1. \A n : Item(u, n)' = Item(u, n)
    BY <1>0 DEF Item
  <2>2. CASE u # t
    <3>1. Delivered(u)' = Delivered(u)
      BY <1>0, <1>3, <2>2 DEF Delivered
    <3> QED BY <1>0, <1>1, <1>7, <1>12, <2>1, <2>2, <3>1 DEF RenderInOrder
  <2>3. CASE u = t /\ x = EndError
    <3>1. Delivered(t)' = Delivered(t) /\ renderQueue'[t] = renderQueue[t]
      BY <1>2, <1>7, <1>11, <2>3
    <3> QED BY <1>0, <1>1, <1>12, <2>1, <2>3, <3>1 DEF RenderInOrder
  <2>4. CASE u = t /\ x # EndError
    <3>1. /\ Len(display[t]) + Len(renderQueue[t]) = polled[t]
          /\ \A i \in 1..Len(renderQueue[t]) :
                renderQueue[t][i] = Item(t, Len(display[t]) + i)
      BY <1>1, <1>11, <1>12 DEF RenderInOrder
    <3>2. x = Item(t, Len(display[t]) + Len(renderQueue[t]) + 1)
      BY <1>2, <3>1
    <3>3. \A i \in 1..Len(Append(renderQueue[t], x)) :
             Append(renderQueue[t], x)[i] = Item(t, Len(display[t]) + i)
      <4>1. x \in Nat \cup {EndFrame}
        BY <1>2, <2>4
      <4>2. \A i \in 1..Len(renderQueue[t]) :
               renderQueue[t][i] = Item(t, Len(display[t]) + i)
        BY <3>1
      <4>3. Len(display[t]) \in Nat /\ renderQueue[t] \in Seq(Nat \cup {EndFrame})
        BY <1>5
      <4>4. PICK r \in Seq(Nat \cup {EndFrame}) : r = renderQueue[t]
        BY <4>3
      <4>5. PICK y \in Nat \cup {EndFrame} : y = x
        BY <4>1
      <4>6. PICK n \in Nat : n = Len(display[t])
        BY <4>3
      <4>7. /\ \A i \in 1..Len(r) : r[i] = Item(t, n + i)
            /\ y = Item(t, n + Len(r) + 1)
        BY <3>2, <4>2, <4>4, <4>5, <4>6
      <4>8. \A i \in 1..Len(Append(r, y)) : Append(r, y)[i] = Item(t, n + i)
        BY <4>7, AddNext
      <4> QED BY <4>4, <4>5, <4>6, <4>8
    <3>4. renderQueue'[t] = Append(renderQueue[t], x)
      BY <1>7, <1>12, <2>4
    <3>5. Len(display[t]) + Len(Append(renderQueue[t], x)) = polled[t] + 1
      <4>1. Len(Append(renderQueue[t], x)) = Len(renderQueue[t]) + 1
        BY <1>6, <2>4
      <4> QED BY <1>0, <1>2, <1>5, <3>1, <4>1 DEF TypeOK
    <3> QED BY <1>0, <1>11, <2>1, <2>4, <3>3, <3>4, <3>5 DEF RenderInOrder
  <2> QED BY <2>2, <2>3, <2>4
<1>13. StreamOrder'
    BY <1>10, <1>12 DEF StreamOrder
<1>14. EndIsGenuine'
  <2>1. CASE x = EndError
    <3>1. pc[t] \in {"stopError", "ended"}
      BY <1>2, <2>1 DEF Put
    <3> QED BY <1>0, <1>2, <1>3, <2>1, <3>1 DEF EndIsGenuine
  <2>2. CASE x # EndError
    <3> SUFFICES ASSUME endOfStream PROVE EndIsGenuine'
        BY <1>4, <2>2 DEF EndIsGenuine
    <3>1. PICK u \in Tiles : pc[u] \in {"stopError", "ended"} /\ polled[u] > written[u]
      BY DEF IInv, EndIsGenuine
    <3>2. polled'[u] > written'[u]
      BY <1>0, <1>2, <1>3, <3>1
    <3> QED BY <1>0, <3>1, <3>2 DEF EndIsGenuine
  <2> QED BY <2>1, <2>2
<1>15. RenderInv'
  <2>1. at # "idle" => main' # "released" /\ updates'[tile] > 0
    <3> SUFFICES ASSUME at # "idle" PROVE updates'[tile] > 0
        BY <1>0
    <3>1. tile \in Tiles /\ updates[tile] \in Nat /\ updates[tile] > 0
      BY <1>0 DEF IInv, TypeOK, RenderInv
    <3> QED BY <1>0, <3>1 DEF TypeOK
  <2>2. at = "check" /\ frame[tile] = EndFrame => endOfStream'
    BY <1>4 DEF IInv, RenderInv
  <2>3. ~DecodeEnable => at = "idle" /\ \A u \in Tiles : updates'[u] = 0
    BY <1>0 DEF IInv, RenderInv
  <2>4. ASSUME DecodeEnable, Unskipped', NEW u \in Tiles
        PROVE  UpdatesMatch(u)' /\ FrameHeld(u)'
    <3>1. Unskipped
      BY <1>0, <1>4, <2>4 DEF Unskipped
    <3>2. UpdatesMatch(u) /\ FrameHeld(u)
      BY <1>0, <2>4, <3>1 DEF IInv, RenderInv
    <3>3. CASE u # t
      BY <1>0, <1>3, <1>7, <3>2, <3>3 DEF UpdatesMatch, FrameHeld, NoneBegun, TypeOK
    <3>4. CASE u = t
      <4>1. /\ updates[t] \in Nat /\ updates'[t] = updates[t] + 1
            /\ polled[t] # written[t] + 2
            /\ (polled'[t] = written'[t] + 2) <=> (x = EndError)
        <5>1. updates \in [Tiles -> Nat]
          BY <1>0 DEF TypeOK
        <5>2. updates[t] \in Nat /\ updates'[t] = updates[t] + 1
          BY <1>0, <2>4, <5>1
        <5>3. PICK y \in Nat, w \in Nat : y = polled[t] /\ w = written[t]
          BY <1>2
        <5>4. polled'[t] = y + 1 /\ written'[t] = w
          BY <1>0, <1>3, <5>3
        <5>5. IF x = EndError THEN y = w + 1 ELSE y <= w
          BY <1>2, <5>3
        <5>6. y # w + 2 /\ (y + 1 = w + 2 <=> x = EndError)
          BY <5>5
        <5> QED BY <5>2, <5>3, <5>4, <5>6
      <4>2. updates[t] = Len(renderQueue[t])
        BY <1>5, <3>2, <3>4, <4>1 DEF UpdatesMatch
      <4>3. UpdatesMatch(t)'
        <5>1. CASE x = EndError
          BY <1>5, <1>7, <4>1, <4>2, <5>1 DEF UpdatesMatch
        <5>2. CASE x # EndError
          <6>1. Len(renderQueue'[t]) = Len(renderQueue[t]) + 1
            BY <1>6, <1>7, <2>4, <5>2
          <6>2. updates'[t] = Len(renderQueue'[t])
            BY <4>1, <4>2, <6>1
          <6>3. polled'[t] # written'[t] + 2
            BY <4>1, <5>2
          <6>4. Len(renderQueue'[t]) \in Nat
            BY <1>5, <1>6, <1>7, <5>2
          <6> QED BY <1>7, <6>2, <6>3, <6>4 DEF UpdatesMatch
        <5> QED BY <5>1, <5>2
      <4>4. FrameHeld(t)'
        <5>1. renderQueue[t] # <<>> => /\ renderQueue'[t] # <<>>
                                       /\ Head(renderQueue'[t]) = Head(renderQueue[t])
          BY <1>6, <1>7
        <5> QED BY <1>0, <3>2, <3>4, <5>1 DEF FrameHeld, NoneBegun
      <4> QED BY <3>4, <4>3, <4>4
    <3> QED BY <3>3, <3>4
  <2> QED BY <1>0, <2>1, <2>2, <2>3, <2>4 DEF IInv, RenderInv
<1>16. DisplayInv'
    BY <1>0 DEF IInv, DisplayInv
<1> QED BY <1>8, <1>9, <1>13, <1>14, <1>15, <1>16 DEF IInv

LEMMA ReleaseStep ==
    ASSUME IInv, Release
    PROVE  IInv'
<1>0. /\ main = "poll" /\ main' = "join" /\ running' = FALSE
      /\ UNCHANGED <<pc, pending, written, decodeQueue, polled, endOfStream,
                     renderQueue, updates>>
      /\ UNCHANGED <<frame, textureState, texture, display, tile, plane, at>>
    BY DEF Release, threadVars, renderVars
<1>1. TypeOK'
    BY <1>0 DEF IInv, TypeOK
<1>2. (\A t \in Tiles : ThreadInv(t)') /\ EndIsGenuine' /\ DisplayInv'
    BY <1>0 DEF IInv, ThreadInv, EndIsGenuine, DisplayInv
<1>3. StreamOrder'
    BY <1>0 DEF IInv, StreamOrder, DecodeInOrder, RenderInOrder, Put, Item, Delivered
<1>4. RenderInv'
    BY <1>0 DEF IInv, RenderInv, Unskipped, UpdatesMatch, FrameHeld, NoneBegun
<1> QED BY <1>1, <1>2, <1>3, <1>4 DEF IInv

LEMMA JoinStreamsStep ==
    ASSUME IInv, JoinStreams
    PROVE  IInv'
<1>0. /\ main' = "released" /\ endOfStream' = FALSE /\ at' = "idle"
      /\ tile' = Nil /\ plane' = 0
      /\ decodeQueue' = [t \in Tiles |-> <<>>]
      /\ renderQueue' = [t \in Tiles |-> <<>>]
      /\ frame' = [t \in Tiles |-> Nil]
      /\ textureState' = [t \in Tiles |-> {}]
      /\ texture' = [t \in Tiles |-> Blank]
      /\ updates' = [t \in Tiles |-> 0]
      /\ UNCHANGED <<pc, pending, written, polled, running, display>>
    BY DEF JoinStreams, threadVars
<1>1. TypeOK'
  <2>1. /\ decodeQueue' \in [Tiles -> Seq(Items)]
        /\ renderQueue' \in [Tiles -> Seq(Nat \cup {EndFrame})]
    BY <1>0, EmptySeq
  <2>2. \A t \in Tiles : Len(decodeQueue'[t]) <= Capacity
    <3> TAKE t \in Tiles
    <3>1. decodeQueue'[t] = <<>>
      BY <1>0
    <3> QED BY <3>1, EmptySeq, PipelineAssumption
  <2>3. /\ texture' \in [Tiles -> [Planes -> Nat \cup {EndFrame, Nil}]]
        /\ textureState' \in [Tiles -> SUBSET Planes]
        /\ frame' \in [Tiles -> Nat \cup {EndFrame, Nil}]
        /\ updates' \in [Tiles -> Nat] /\ plane' \in Planes
    BY <1>0 DEF Blank, Planes
  <2> QED BY <1>0, <2>1, <2>2, <2>3 DEF IInv, TypeOK
<1>2. (\A t \in Tiles : ThreadInv(t)') /\ EndIsGenuine' /\ DisplayInv'
    BY <1>0 DEF IInv, ThreadInv, EndIsGenuine, DisplayInv
<1>3. StreamOrder'
    BY <1>0 DEF StreamOrder
<1>4. RenderInv'
    BY <1>0 DEF RenderInv
<1> QED BY <1>1, <1>2, <1>3, <1>4 DEF IInv

---------------------------------------------------------------------------------
(* The render thread.                                                      *)

LEMMA StartUpdateStep ==
    ASSUME IInv, NEW t \in Tiles, StartUpdate(t)
    PROVE  IInv'
<1>0. /\ main # "released" /\ at = "idle" /\ updates[t] > 0
      /\ tile' = t /\ plane' = 0 /\ at' = "begin"
      /\ UNCHANGED <<pc, pending, written, decodeQueue, polled, main, running,
                     endOfStream, renderQueue, frame, textureState, texture,
                     display, updates>>
    BY DEF StartUpdate, threadVars
<1>1. TypeOK'
  <2>1. t # Nil /\ 0 \in Planes
    BY PipelineAssumption DEF Planes
  <2> QED BY <1>0, <2>1 DEF IInv, TypeOK
<1>2. (\A u \in Tiles : ThreadInv(u)') /\ EndIsGenuine' /\ DisplayInv'
    BY <1>0 DEF IInv, ThreadInv, EndIsGenuine, DisplayInv
<1>3. StreamOrder'
    BY <1>0 DEF IInv, StreamOrder, DecodeInOrder, RenderInOrder, Put, Item, Delivered
<1>4. DecodeEnable
  <2>1. updates[t] # 0
    BY <1>0 DEF IInv, TypeOK
  <2> QED BY <2>1 DEF IInv, RenderInv
<1>5. ASSUME Unskipped', NEW u \in Tiles
      PROVE  UpdatesMatch(u)' /\ FrameHeld(u)'
  <2>1. Unskipped /\ UpdatesMatch(u) /\ FrameHeld(u)
    BY <1>0, <1>4, <1>5 DEF IInv, RenderInv, Unskipped
  <2>2. u # tile
    BY <1>0, PipelineAssumption DEF IInv, TypeOK
  <2>3. textureState[u] = {} /\ frame[u] = Nil
    BY <2>1, <2>2 DEF FrameHeld, NoneBegun
  <2>4. FrameHeld(u)'
    BY <1>0, <2>3 DEF FrameHeld, NoneBegun
  <2>5. UpdatesMatch(u)'
    BY <1>0, <2>1 DEF UpdatesMatch
  <2> QED BY <2>4, <2>5
<1>6. RenderInv'
    BY <1>0, <1>4, <1>5 DEF RenderInv
<1> QED BY <1>1, <1>2, <1>3, <1>6 DEF IInv

(* Facts that hold whenever the render thread is inside an event.          *)
LEMMA InEvent ==
    ASSUME IInv, at # "idle"
    PROVE  /\ TypeOK /\ tile \in Tiles /\ plane \in {0, 1, 2} /\ DecodeEnable
           /\ main # "released" /\ updates[tile] \in Nat /\ updates[tile] > 0
           /\ StreamOrder /\ \A u \in Tiles : DecodeInOrder(u) /\ RenderInOrder(u)
           /\ Unskipped => \A u \in Tiles : UpdatesMatch(u) /\ FrameHeld(u)
<1>1. TypeOK /\ StreamOrder /\ RenderInv
    BY DEF IInv
<1>2. main # "released" /\ updates[tile] > 0 /\ DecodeEnable
    BY <1>1 DEF RenderInv
<1>3. tile \in Tiles /\ plane \in {0, 1, 2}
    BY <1>1 DEF TypeOK, Planes
<1> QED BY <1>1, <1>2, <1>3 DEF TypeOK, StreamOrder, RenderInv

(* Steps that leave queues, counters and pictures alone keep the order.    *)
LEMMA OrderUnchanged ==
    ASSUME IInv, UNCHANGED <<pc, pending, written, decodeQueue, polled, main,
                             renderQueue, display>>
    PROVE  StreamOrder' /\ DisplayInv' /\ \A u \in Tiles : ThreadInv(u)'
<1>1. StreamOrder'
    BY DEF IInv, StreamOrder, DecodeInOrder, RenderInOrder, Put, Item, Delivered
<1>2. DisplayInv' /\ \A u \in Tiles : ThreadInv(u)'
    BY DEF IInv, DisplayInv, ThreadInv
<1> QED BY <1>1, <1>2

LEMMA TakePlaneType ==
    ASSUME TypeOK, tile \in Tiles, TakePlane
    PROVE  /\ textureState' \in [Tiles -> SUBSET Planes]
           /\ texture' \in [Tiles -> [Planes -> Nat \cup {EndFrame, Nil}]]
           /\ textureState'[tile] = textureState[tile] \cup {plane}
           /\ texture'[tile] = [texture[tile] EXCEPT ![plane] = frame[tile]]
           /\ \A u \in Tiles \ {tile} : /\ textureState'[u] = textureState[u]
                                        /\ texture'[u] = texture[u]
BY DEF TypeOK, TakePlane

LEMMA BeginEventStep ==
    ASSUME IInv, BeginEvent
    PROVE  IInv'
<1>0. /\ at = "begin"
      /\ UNCHANGED <<pc, pending, written, decodeQueue, polled, main, running,
                     endOfStream, renderQueue, frame, display, updates, tile, plane>>
    BY DEF BeginEvent, threadVars
<1>1. /\ TypeOK /\ tile \in Tiles /\ plane \in {0, 1, 2} /\ DecodeEnable
      /\ main # "released" /\ updates[tile] > 0
      /\ Unskipped => \A u \in Tiles : UpdatesMatch(u) /\ FrameHeld(u)
    BY <1>0, InEvent
<1>2. StreamOrder' /\ DisplayInv' /\ (\A u \in Tiles : ThreadInv(u)') /\ EndIsGenuine'
    BY <1>0, OrderUnchanged DEF IInv, EndIsGenuine
<1>3. \A u \in Tiles : UpdatesMatch(u)' <=> UpdatesMatch(u)
    BY <1>0 DEF UpdatesMatch
<1>4. CASE endOfStream
  <2>1. at' = "end" /\ UNCHANGED <<textureState, texture>>
    BY <1>4 DEF BeginEvent
  <2>2. TypeOK'
    BY <1>0, <1>1, <2>1, PipelineAssumption DEF TypeOK
  <2>3. RenderInv'
    BY <1>0, <1>1, <1>4, <2>1 DEF IInv, RenderInv, Unskipped
  <2> QED BY <1>2, <2>2, <2>3 DEF IInv
<1>5. CASE ~endOfStream /\ textureState[tile] = {}
  <2>1. at' = "peek" /\ UNCHANGED <<textureState, texture>>
    BY <1>5 DEF BeginEvent
  <2>2. TypeOK'
    BY <1>0, <1>1, <2>1, PipelineAssumption DEF TypeOK
  <2>3. \A u \in Tiles : UpdatesMatch(u) /\ FrameHeld(u)
    BY <1>1, <1>5 DEF Unskipped
  <2>4. plane = 0 /\ frame[tile] = Nil
    <3>1. CASE plane = 0
      BY <1>0, <1>1, <2>3, <3>1 DEF FrameHeld, NoneBegun
    <3>2. CASE plane # 0
      <4>1. textureState[tile] = 0..(plane - 1)
        BY <1>0, <1>1, <2>3, <3>2 DEF FrameHeld, NoneBegun
      <4>2. 0 \in 0..(plane - 1)
        BY <1>1, <3>2
      <4> QED BY <1>5, <4>1, <4>2
    <3> QED BY <3>1, <3>2
  <2>5. ASSUME NEW u \in Tiles PROVE FrameHeld(u)'
    <3>1. textureState[u] = {} /\ frame[u] = Nil
      BY <1>0, <1>5, <2>3, <2>4 DEF FrameHeld, NoneBegun
    <3> QED BY <1>0, <2>1, <3>1 DEF FrameHeld, NoneBegun
  <2>6. RenderInv'
    BY <1>0, <1>1, <1>3, <2>1, <2>3, <2>4, <2>5 DEF IInv, RenderInv
  <2> QED BY <1>2, <2>2, <2>6 DEF IInv
<1>6. CASE ~endOfStream /\ textureState[tile] # {}
  <2>1. at' = "end" /\ TakePlane
    BY <1>6 DEF BeginEvent
  <2>2. /\ textureState' \in [Tiles -> SUBSET Planes]
        /\ texture' \in [Tiles -> [Planes -> Nat \cup {EndFrame, Nil}]]
        /\ textureState'[tile] = textureState[tile] \cup {plane}
        /\ texture'[tile] = [texture[tile] EXCEPT ![plane] = frame[tile]]
        /\ \A u \in Tiles \ {tile} : /\ textureState'[u] = textureState[u]
                                     /\ texture'[u] = texture[u]
    BY <1>1, <2>1, TakePlaneType
  <2>3. TypeOK'
    BY <1>0, <1>1, <2>1, <2>2, PipelineAssumption DEF TypeOK
  <2>4. \A u \in Tiles : UpdatesMatch(u) /\ FrameHeld(u)
    BY <1>1, <1>6 DEF Unskipped
  <2>5. /\ plane # 0 /\ renderQueue[tile] # <<>>
        /\ frame[tile] = Head(renderQueue[tile]) /\ frame[tile] \in Nat
        /\ textureState[tile] = 0..(plane - 1)
        /\ \A p \in textureState[tile] : texture[tile][p] = frame[tile]
    BY <1>0, <1>1, <1>6, <2>4 DEF FrameHeld, NoneBegun
  <2>6. textureState'[tile] = 0..plane
    BY <1>1, <2>2, <2>5
  <2>7. \A p \in textureState'[tile] : texture'[tile][p] = frame[tile]
    BY <1>1, <2>2, <2>5 DEF TypeOK, Planes
  <2>8. FrameHeld(tile)'
    BY <1>0, <2>1, <2>5, <2>6, <2>7 DEF FrameHeld, NoneBegun
  <2>9. \A u \in Tiles \ {tile} : FrameHeld(u)'
    BY <1>0, <2>2, <2>4 DEF FrameHeld, NoneBegun
  <2>10. RenderInv'
    BY <1>0, <1>1, <1>3, <1>6, <2>1, <2>4, <2>8, <2>9 DEF IInv, RenderInv
  <2> QED BY <1>2, <2>3, <2>10 DEF IInv
<1> QED BY <1>4, <1>5, <1>6

(* The render queue of a tile that has an update outstanding is not empty, *)
(* and its front is the item that follows the pictures shown.              *)
LEMMA FrontFrame ==
    ASSUME TypeOK, NEW t \in Tiles, DecodeInOrder(t), RenderInOrder(t),
           UpdatesMatch(t), updates[t] > 0, Len(display[t]) <= written[t]
    PROVE  /\ renderQueue[t] # <<>>
           /\ Head(renderQueue[t]) = Item(t, Len(display[t]) + 1)
           /\ \/ /\ Head(renderQueue[t]) = Len(display[t]) + 1
                 /\ Head(renderQueue[t]) \in Nat
                 /\ Len(display[t]) < written[t]
              \/ /\ Head(renderQueue[t]) = EndFrame
                 /\ polled[t] > written[t]
                 /\ pc[t] \in {"stopError", "ended"}
<1>1. PICK r \in Seq(Nat \cup {EndFrame}), d \in Nat, w \in Nat, y \in Nat,
           u \in Nat, l \in Nat :
         /\ r = renderQueue[t] /\ d = Len(display[t]) /\ w = written[t]
         /\ y = polled[t] /\ u = updates[t] /\ l = Len(decodeQueue[t])
    BY LenProperties DEF TypeOK
<1>2. /\ d + Len(r) = IF y = w + 2 THEN y - 1 ELSE y
      /\ \A i \in 1..Len(r) : r[i] = Item(t, d + i)
    BY <1>1 DEF RenderInOrder, Delivered
<1>3. u = Len(r) + (IF y = w + 2 THEN 1 ELSE 0) /\ u > 0 /\ d <= w
    BY <1>1 DEF UpdatesMatch
<1>4. Len(r) \in Nat /\ Len(r) # 0
  <2>1. Len(r) \in Nat
    BY <1>1, LenProperties
  <2> QED BY <1>2, <1>3, <2>1
<1>5. r # <<>>
    BY <1>4, EmptySeq
<1>6. Head(r) = Item(t, d + 1)
    BY <1>2, <1>5, TakeNext
<1>7. l = Put(t) - y /\ Put(t) \in Nat
    BY <1>1, PutNat DEF DecodeInOrder
<1>8. CASE d < w
  <2>1. d + 1 <= w /\ d + 1 \in Nat
    BY <1>8
  <2>2. Head(r) = d + 1
    BY <1>1, <1>6, <2>1 DEF Item
  <2> QED BY <1>1, <1>5, <1>6, <1>8, <2>1, <2>2
<1>9. CASE d = w
  <2>1. Head(r) = EndFrame
    BY <1>1, <1>6, <1>9 DEF Item
  <2>2. y > w
    BY <1>2, <1>4, <1>9
  <2>3. Put(t) > w
    BY <1>7, <2>2
  <2>4. pc[t] \in {"stopError", "ended"}
    BY <1>1, <2>3 DEF Put
  <2> QED BY <1>1, <1>5, <1>6, <2>1, <2>2, <2>4
<1> QED BY <1>3, <1>8, <1>9

LEMMA PeekFrameStep ==
    ASSUME IInv, PeekFrame
    PROVE  IInv'
<1> DEFINE front == IF renderQueue[tile] = <<>> THEN Nil
                                               ELSE Head(renderQueue[tile])
<1>0. /\ at = "peek" /\ at' = "check"
      /\ frame' = [frame EXCEPT ![tile] = front]
      /\ endOfStream' = (front = EndFrame)
      /\ UNCHANGED <<pc, pending, written, decodeQueue, polled, main, running,
                     renderQueue, textureState, texture, display, updates,
                     tile, plane>>
    BY DEF PeekFrame, SetAvailable, threadVars
<1>1. /\ TypeOK /\ tile \in Tiles /\ DecodeEnable
      /\ main # "released" /\ updates[tile] > 0 /\ plane = 0
      /\ DecodeInOrder(tile) /\ RenderInOrder(tile)
      /\ \A u \in Tiles : UpdatesMatch(u) /\ FrameHeld(u)
    BY <1>0, InEvent DEF Unskipped, IInv, RenderInv
<1>2. Len(display[tile]) <= written[tile]
    BY <1>1 DEF IInv, DisplayInv
<1>3. /\ renderQueue[tile] # <<>> /\ front = Head(renderQueue[tile])
      /\ \/ front \in Nat
         \/ /\ front = EndFrame /\ polled[tile] > written[tile]
            /\ pc[tile] \in {"stopError", "ended"}
    BY <1>1, <1>2, FrontFrame
<1>4. StreamOrder' /\ DisplayInv' /\ \A u \in Tiles : ThreadInv(u)'
    BY <1>0, OrderUnchanged
<1>5. EndIsGenuine'
    BY <1>0, <1>1, <1>3, PipelineAssumption DEF EndIsGenuine
<1>6. /\ frame' \in [Tiles -> Nat \cup {EndFrame, Nil}]
      /\ frame'[tile] = front
      /\ \A u \in Tiles \ {tile} : frame'[u] = frame[u]
    BY <1>0, <1>1, <1>3 DEF TypeOK
<1>7. TypeOK'
    BY <1>0, <1>1, <1>6 DEF TypeOK
<1>10. /\ at' = "check" /\ renderQueue' = renderQueue /\ tile' = tile
       /\ textureState' = textureState /\ texture' = texture /\ plane' = plane
    BY <1>0
<1> HIDE DEF front
<1>8. ASSUME NEW u \in Tiles PROVE UpdatesMatch(u)' /\ FrameHeld(u)'
  <2>1. UpdatesMatch(u)'
    BY <1>0, <1>1 DEF UpdatesMatch
  <2>2. textureState[u] = {} /\ frame[u] = Nil
    BY <1>0, <1>1 DEF FrameHeld, NoneBegun
  <2>3. CASE u = tile
    <3>1. /\ textureState'[u] = {} /\ renderQueue'[u] # <<>>
          /\ frame'[u] = Head(renderQueue'[u])
      BY <1>3, <1>6, <1>10, <2>2, <2>3
    <3> QED BY <1>10, <2>1, <2>3, <3>1 DEF FrameHeld, NoneBegun
  <2>4. CASE u # tile
    <3>1. NoneBegun(u)' /\ textureState'[u] = {} /\ frame'[u] = Nil
      BY <1>6, <1>10, <2>2, <2>4 DEF NoneBegun
    <3> QED BY <2>1, <3>1 DEF FrameHeld
  <2> QED BY <2>1, <2>3, <2>4
<1>9. RenderInv'
    BY <1>0, <1>1, <1>6, <1>8 DEF RenderInv
<1> QED BY <1>4, <1>5, <1>7, <1>9 DEF IInv

LEMMA CheckFrameStep ==
    ASSUME IInv, CheckFrame
    PROVE  IInv'
<1>0. /\ at = "check" /\ at' = "end"
      /\ UNCHANGED <<pc, pending, written, decodeQueue, polled, main, running,
                     endOfStream, renderQueue, frame, display, updates,
                     tile, plane>>
    BY DEF CheckFrame, threadVars
<1>1. PICK ended \in {endOfStream, frame[tile] = EndFrame} :
         IF ended THEN UNCHANGED <<textureState, texture>> ELSE TakePlane
    BY DEF CheckFrame
<1>2. /\ TypeOK /\ tile \in Tiles /\ DecodeEnable
      /\ main # "released" /\ updates[tile] > 0 /\ plane = 0
      /\ \A u \in Tiles : UpdatesMatch(u) /\ FrameHeld(u)
      /\ frame[tile] = EndFrame => endOfStream
    BY <1>0, InEvent DEF Unskipped, IInv, RenderInv
<1>3. StreamOrder' /\ DisplayInv' /\ (\A u \in Tiles : ThreadInv(u)') /\ EndIsGenuine'
    BY <1>0, OrderUnchanged DEF IInv, EndIsGenuine
<1>4. /\ textureState' \in [Tiles -> SUBSET Planes]
      /\ texture' \in [Tiles -> [Planes -> Nat \cup {EndFrame, Nil}]]
  <2>1. CASE ended
    BY <1>1, <1>2, <2>1 DEF TypeOK
  <2>2. CASE ~ended
    BY <1>1, <1>2, <2>2, TakePlaneType
  <2> QED BY <2>1, <2>2
<1>5. TypeOK'
    BY <1>0, <1>2, <1>4 DEF TypeOK
<1>6. CASE endOfStream
  <2>1. RenderInv'
    BY <1>0, <1>2, <1>6 DEF RenderInv, Unskipped
  <2> QED BY <1>3, <1>5, <2>1 DEF IInv
<1>7. CASE ~endOfStream
  <2>1. TakePlane
    <3>1. endOfStream = FALSE
      BY <1>2, <1>7 DEF TypeOK
    <3>2. (frame[tile] = EndFrame) = FALSE
      BY <1>2, <1>7
    <3>3. ended = FALSE
      BY <3>1, <3>2
    <3> QED BY <1>1, <3>3
  <2>2. /\ textureState'[tile] = textureState[tile] \cup {plane}
        /\ texture'[tile] = [texture[tile] EXCEPT ![plane] = frame[tile]]
        /\ \A u \in Tiles \ {tile} : /\ textureState'[u] = textureState[u]
                                     /\ texture'[u] = texture[u]
    BY <1>2, <2>1, TakePlaneType
  <2>3. /\ textureState[tile] = {} /\ renderQueue[tile] # <<>>
        /\ frame[tile] = Head(renderQueue[tile])
    BY <1>0, <1>2 DEF FrameHeld, NoneBegun
  <2>4. frame[tile] \in Nat
    <3>1. frame[tile] \in Nat \cup {EndFrame}
      BY <1>2, <2>3, TailEntries DEF TypeOK
    <3> QED BY <1>2, <1>7, <3>1
  <2>5. textureState'[tile] = 0..plane /\ plane = 0
    BY <1>2, <2>2, <2>3
  <2>6. \A p \in textureState'[tile] : texture'[tile][p] = frame[tile]
    BY <1>2, <2>2, <2>3 DEF TypeOK, Planes
  <2>7. FrameHeld(tile)'
    BY <1>0, <2>3, <2>4, <2>5, <2>6 DEF FrameHeld, NoneBegun
  <2>8. \A u \in Tiles \ {tile} : FrameHeld(u)'
    BY <1>0, <1>2, <2>2 DEF FrameHeld, NoneBegun
  <2>9. \A u \in Tiles : UpdatesMatch(u)'
    BY <1>0, <1>2 DEF UpdatesMatch
  <2>10. RenderInv'
    BY <1>0, <1>2, <2>7, <2>8, <2>9 DEF RenderInv
  <2> QED BY <1>3, <1>5, <2>10 DEF IInv
<1> QED BY <1>6, <1>7

(* The end of an event that leaves the frame where it is.                  *)
LEMMA NextEventType ==
    ASSUME IInv, at = "end", NextEvent
    PROVE  /\ updates' \in [Tiles -> Nat]
           /\ tile' \in Tiles \cup {Nil} /\ plane' \in Planes
           /\ at' \in {"idle", "begin"} /\ (at' # "idle" <=> tile' # Nil)
           /\ IF plane = 2
              THEN at' = "idle" /\ tile' = Nil
                   /\ updates'[tile] = updates[tile] - 1
              ELSE /\ at' = "begin" /\ tile' = tile /\ updates' = updates
                   /\ plane' = plane + 1
           /\ \A u \in Tiles \ {tile} : updates'[u] = updates[u]
<1>1. /\ TypeOK /\ tile \in Tiles /\ plane \in {0, 1, 2}
      /\ updates[tile] \in Nat /\ updates[tile] > 0
    BY InEvent
<1>2. CASE plane = 2
  <2>1. /\ tile' = Nil /\ plane' = 0 /\ at' = "idle"
        /\ updates' = [updates EXCEPT ![tile] = @ - 1]
    BY <1>2 DEF NextEvent
  <2>2. updates[tile] - 1 \in Nat
    BY <1>1
  <2>3. updates \in [Tiles -> Nat] /\ 0 \in Planes
    BY <1>1 DEF TypeOK, Planes
  <2> QED BY <1>1, <1>2, <2>1, <2>2, <2>3
<1>3. CASE plane # 2
  <2>1. plane' = plane + 1 /\ at' = "begin" /\ tile' = tile /\ updates' = updates
    BY <1>3 DEF NextEvent
  <2>2. plane + 1 \in Planes
    BY <1>1, <1>3 DEF Planes
  <2> QED BY <1>1, <1>3, <2>1, <2>2, PipelineAssumption DEF TypeOK
<1> QED BY <1>2, <1>3

(* The third end event: the frame shown is the next one of the tile.       *)
LEMMA FinishFrameShows ==
    ASSUME IInv, at = "end", ~endOfStream, AllPlanes, FinishFrame
    PROVE  /\ plane = 2
           /\ Len(display[tile]) < written[tile]
           /\ display' = [display EXCEPT ![tile] =
                             Append(@, [p \in Planes |-> Len(@) + 1])]
           /\ renderQueue[tile] # <<>>
<1>1. /\ TypeOK /\ tile \in Tiles /\ plane \in {0, 1, 2} /\ updates[tile] > 0
      /\ DecodeInOrder(tile) /\ RenderInOrder(tile)
      /\ UpdatesMatch(tile) /\ FrameHeld(tile)
    BY InEvent DEF Unskipped
<1>2. /\ renderQueue[tile] # <<>> /\ frame[tile] = Head(renderQueue[tile])
      /\ frame[tile] \in Nat /\ textureState[tile] = 0..plane
      /\ \A p \in textureState[tile] : texture[tile][p] = frame[tile]
    BY <1>1, PipelineAssumption DEF FrameHeld, NoneBegun
<1>3. plane = 2
  <2>1. 2 \in 0..plane
    <3>1. 0..plane = 0..2
      BY <1>2 DEF AllPlanes, Planes
    <3>2. 2 \in 0..2
      OBVIOUS
    <3> QED BY <3>1, <3>2
  <2> QED BY <1>1, <2>1
<1>4. /\ frame[tile] = Len(display[tile]) + 1
      /\ Len(display[tile]) < written[tile]
  <2>1. Len(display[tile]) <= written[tile]
    BY <1>1 DEF IInv, DisplayInv
  <2>2. frame[tile] # EndFrame
    BY <1>2, PipelineAssumption
  <2> QED BY <1>1, <1>2, <2>1, <2>2, FrontFrame
<1>5. texture[tile] = [p \in Planes |-> Len(display[tile]) + 1]
  <2>1. texture[tile] \in [Planes -> Nat \cup {EndFrame, Nil}]
    BY <1>1 DEF TypeOK
  <2>2. \A p \in Planes : texture[tile][p] = Len(display[tile]) + 1
    BY <1>2, <1>4 DEF AllPlanes
  <2> QED BY <2>1, <2>2
<1>6. display' = [display EXCEPT ![tile] =
                     Append(@, [p \in Planes |-> Len(@) + 1])]
    BY <1>1, <1>5 DEF FinishFrame, TypeOK
<1> QED BY <1>2, <1>3, <1>4, <1>6

LEMMA FinishStep ==
    ASSUME IInv, EndEvent, ~endOfStream, AllPlanes, NEW t \in Tiles, t = tile
    PROVE  IInv'
<1> DEFINE r == renderQueue[t]
<1> DEFINE d == display[t]
<1> DEFINE picture == [p \in Planes |-> Len(d) + 1]
<1>0. /\ at = "end" /\ FinishFrame /\ NextEvent
      /\ UNCHANGED <<pc, pending, written, decodeQueue, polled, main, running,
                     endOfStream>>
    BY DEF EndEvent, threadVars
<1>1. /\ TypeOK /\ tile \in Tiles /\ DecodeEnable /\ main # "released"
      /\ \A u \in Tiles : DecodeInOrder(u) /\ RenderInOrder(u)
      /\ \A u \in Tiles : UpdatesMatch(u) /\ FrameHeld(u)
      /\ updates[t] \in Nat
    BY <1>0, InEvent DEF Unskipped
<1>2. /\ plane = 2 /\ Len(d) < written[t] /\ r # <<>>
      /\ display' = [display EXCEPT ![t] =
                        Append(@, [p \in Planes |-> Len(@) + 1])]
    BY <1>0, FinishFrameShows
<1>3. /\ updates' \in [Tiles -> Nat] /\ tile' = Nil /\ at' = "idle"
      /\ plane' \in Planes /\ updates'[t] = updates[t] - 1
      /\ \A u \in Tiles \ {t} : updates'[u] = updates[u]
    BY <1>0, <1>2, NextEventType
<1>4. /\ renderQueue' = [renderQueue EXCEPT ![t] = Tail(@)]
      /\ textureState' = [textureState EXCEPT ![t] = {}]
      /\ texture' = [texture EXCEPT ![t] = Blank]
      /\ frame' = [frame EXCEPT ![t] = Nil]
    BY <1>0, <1>2 DEF FinishFrame
<1>5. /\ r \in Seq(Nat \cup {EndFrame})
      /\ d \in Seq([Planes -> Nat \cup {EndFrame, Nil}])
      /\ Len(d) \in Nat /\ written[t] \in Nat /\ polled[t] \in Nat
    BY <1>1, LenProperties DEF TypeOK
<1>6. /\ Tail(r) \in Seq(Nat \cup {EndFrame}) /\ Len(Tail(r)) = Len(r) - 1
      /\ Len(r) \in Nat
    BY <1>2, <1>5, TailEntries
<1>7. picture \in [Planes -> Nat \cup {EndFrame, Nil}]
    BY <1>5
<1>8. /\ Append(d, picture) \in Seq([Planes -> Nat \cup {EndFrame, Nil}])
      /\ Len(Append(d, picture)) = Len(d) + 1
      /\ \A i \in 1..Len(d) : Append(d, picture)[i] = d[i]
      /\ Append(d, picture)[Len(d) + 1] = picture
    BY <1>5, <1>7, AppendEntries
<1>9. /\ renderQueue' \in [Tiles -> Seq(Nat \cup {EndFrame})]
      /\ renderQueue'[t] = Tail(r)
      /\ \A u \in Tiles \ {t} : renderQueue'[u] = renderQueue[u]
    BY <1>1, <1>4, <1>6 DEF TypeOK
<1>10. /\ display' \in [Tiles -> Seq([Planes -> Nat \cup {EndFrame, Nil}])]
       /\ display'[t] = Append(d, picture)
       /\ \A u \in Tiles \ {t} : display'[u] = display[u]
    BY <1>1, <1>2, <1>8 DEF TypeOK
<1>11. /\ textureState' \in [Tiles -> SUBSET Planes]
       /\ texture' \in [Tiles -> [Planes -> Nat \cup {EndFrame, Nil}]]
       /\ frame' \in [Tiles -> Nat \cup {EndFrame, Nil}]
       /\ textureState'[t] = {} /\ frame'[t] = Nil
       /\ \A u \in Tiles \ {t} : /\ textureState'[u] = textureState[u]
                                    /\ frame'[u] = frame[u]
    BY <1>1, <1>4 DEF TypeOK, Blank
<1> HIDE DEF r, d, picture
<1>12. TypeOK'
    BY <1>0, <1>1, <1>3, <1>9, <1>10, <1>11 DEF TypeOK
<1>13. (\A u \in Tiles : ThreadInv(u)') /\ EndIsGenuine'
    BY <1>0 DEF IInv, ThreadInv, EndIsGenuine
<1>14. ASSUME NEW u \in Tiles
       PROVE  DecodeInOrder(u)' /\ Delivered(u)' = Delivered(u)
              /\ \A n : Item(u, n)' = Item(u, n)
    BY <1>0, <1>1 DEF DecodeInOrder, Delivered, Put, Item
<1>15. RenderInOrder(t)'
  <2>1. /\ Len(d) + Len(r) = Delivered(t)
        /\ \A i \in 1..Len(r) : r[i] = Item(t, Len(d) + i)
    BY <1>1 DEF RenderInOrder, r, d
  <2>2. \A i \in 1..Len(Tail(r)) : Tail(r)[i] = Item(t, Len(d) + 1 + i)
    <3>1. PICK n \in Nat : n = Len(d)
      BY <1>5
    <3>2. \A i \in 1..Len(r) : r[i] = Item(t, n + i)
      BY <2>1, <3>1
    <3>3. r # <<>> /\ r \in Seq(Nat \cup {EndFrame})
      BY <1>2, <1>5
    <3>4. \A i \in 1..Len(Tail(r)) : Tail(r)[i] = Item(t, n + 1 + i)
      BY <3>2, <3>3, TakeNext
    <3> QED BY <3>1, <3>4
  <2>3. Len(Append(d, picture)) + Len(Tail(r)) = Delivered(t)
    BY <1>5, <1>6, <1>8, <2>1
  <2>4. \A i \in 1..Len(Tail(r)) :
           Tail(r)[i] = Item(t, Len(Append(d, picture)) + i)
    BY <1>8, <2>2
  <2>5. Len(display'[t]) + Len(renderQueue'[t]) = Delivered(t)'
    BY <1>9, <1>10, <1>14, <2>3
  <2>6. \A i \in 1..Len(renderQueue'[t]) :
           renderQueue'[t][i] = Item(t, Len(display'[t]) + i)
    BY <1>9, <1>10, <2>4
  <2>7. (\A i \in 1..Len(renderQueue[t]) :
            renderQueue[t][i] = Item(t, Len(display[t]) + i))'
    BY <1>0, <2>6 DEF Item
  <2> QED BY <2>5, <2>7 DEF RenderInOrder
<1>16. \A u \in Tiles \ {t} : RenderInOrder(u)'
  <2> TAKE u \in Tiles \ {t}
  <2>1. RenderInOrder(u)
    BY <1>1
  <2>2. Delivered(u)' = Delivered(u) /\ \A n : Item(u, n)' = Item(u, n)
    BY <1>14
  <2>3. renderQueue'[u] = renderQueue[u] /\ display'[u] = display[u]
    BY <1>9, <1>10
  <2> QED BY <2>1, <2>2, <2>3 DEF RenderInOrder
<1>17. StreamOrder'
    BY <1>14, <1>15, <1>16 DEF StreamOrder
<1>18. UpdatesMatch(t)'
  <2>1. PICK n \in Nat, y \in Nat, w \in Nat, l \in Nat :
           /\ n = updates[t] /\ y = polled[t] /\ w = written[t] /\ l = Len(r)
    BY <1>1, <1>5, <1>6
  <2>2. n = l + (IF y = w + 2 THEN 1 ELSE 0)
    BY <1>1, <2>1 DEF UpdatesMatch, r
  <2>3. n - 1 = l - 1 + (IF y = w + 2 THEN 1 ELSE 0)
    BY <2>2
  <2>4. /\ updates'[t] = n - 1 /\ Len(renderQueue'[t]) = l - 1
        /\ polled'[t] = y /\ written'[t] = w
    BY <1>0, <1>1, <1>3, <1>6, <1>9, <2>1
  <2> QED BY <2>3, <2>4 DEF UpdatesMatch
<1>19. ASSUME NEW u \in Tiles PROVE UpdatesMatch(u)' /\ FrameHeld(u)'
  <2>1. UpdatesMatch(u)'
    <3>1. CASE u = t
      BY <1>18, <3>1
    <3>2. CASE u # t
      <4>1. UpdatesMatch(u)
        BY <1>1
      <4> QED BY <1>0, <1>3, <1>9, <3>2, <4>1 DEF UpdatesMatch
    <3> QED BY <3>1, <3>2
  <2>2. NoneBegun(u)'
    BY <1>3, PipelineAssumption DEF NoneBegun
  <2>3. textureState'[u] = {} /\ frame'[u] = Nil
    <3>1. CASE u = t
      BY <1>11, <3>1
    <3>2. CASE u # t
      <4>1. textureState[u] = {} /\ frame[u] = Nil
        BY <1>1, <3>2 DEF FrameHeld, NoneBegun
      <4> QED BY <1>11, <3>2, <4>1
    <3> QED BY <3>1, <3>2
  <2> QED BY <2>1, <2>2, <2>3 DEF FrameHeld
<1>20. RenderInv'
    BY <1>0, <1>1, <1>3, <1>19 DEF RenderInv
<1>21. DisplayInv'
  <2>1. \A u \in Tiles : /\ Len(display[u]) <= written[u]
                         /\ \A i \in 1..Len(display[u]) :
                               display[u][i] = [p \in Planes |-> i]
    BY DEF IInv, DisplayInv
  <2>2. /\ Len(Append(d, picture)) <= written[t]
        /\ \A i \in 1..Len(Append(d, picture)) :
              Append(d, picture)[i] = [p \in Planes |-> i]
    <3>1. Len(Append(d, picture)) <= written[t]
      BY <1>2, <1>5, <1>8
    <3>2. ASSUME NEW i \in 1..Len(Append(d, picture))
          PROVE  Append(d, picture)[i] = [p \in Planes |-> i]
      <4>1. CASE i \in 1..Len(d)
        <5>1. d[i] = [p \in Planes |-> i]
          BY <2>1, <4>1 DEF d
        <5> QED BY <1>8, <4>1, <5>1
      <4>2. CASE i = Len(d) + 1
        BY <1>8, <4>2 DEF picture
      <4>3. i \in 1..Len(d) \/ i = Len(d) + 1
        BY <1>5, <1>8
      <4> QED BY <4>1, <4>2, <4>3
    <3> QED BY <3>1, <3>2
  <2>3. ASSUME NEW u \in Tiles
        PROVE  /\ Len(display'[u]) <= written'[u]
               /\ \A i \in 1..Len(display'[u]) :
                     display'[u][i] = [p \in Planes |-> i]
    <3>1. CASE u = t
      <4>1. display'[u] = Append(d, picture) /\ written'[u] = written[t]
        BY <1>0, <1>10, <3>1
      <4> QED BY <2>2, <4>1
    <3>2. CASE u # t
      <4>1. display'[u] = display[u] /\ written'[u] = written[u]
        BY <1>0, <1>10, <3>2
      <4> QED BY <2>1, <4>1
    <3> QED BY <3>1, <3>2
  <2> QED BY <2>3 DEF DisplayInv
<1> QED BY <1>12, <1>13, <1>17, <1>20, <1>21 DEF IInv

LEMMA EndEventStep ==
    ASSUME IInv, EndEvent
    PROVE  IInv'
<1>0. /\ at = "end" /\ NextEvent
      /\ UNCHANGED <<pc, pending, written, decodeQueue, polled, main, running,
                     endOfStream>>
    BY DEF EndEvent, threadVars
<1>1. /\ TypeOK /\ tile \in Tiles /\ plane \in {0, 1, 2} /\ DecodeEnable
      /\ main # "released" /\ updates[tile] > 0
      /\ Unskipped => \A u \in Tiles : UpdatesMatch(u) /\ FrameHeld(u)
    BY <1>0, InEvent
<1>2. CASE ~endOfStream /\ AllPlanes
  <2>1. PICK t \in Tiles : t = tile
    BY <1>1
  <2> QED BY <1>2, <2>1, FinishStep
<1>3. CASE ~(~endOfStream /\ AllPlanes)
  <2>1. UNCHANGED <<display, renderQueue, textureState, texture, frame>>
    BY <1>3 DEF EndEvent
  <2>2. /\ updates' \in [Tiles -> Nat]
        /\ tile' \in Tiles \cup {Nil} /\ plane' \in Planes
        /\ at' \in {"idle", "begin"} /\ (at' # "idle" <=> tile' # Nil)
        /\ IF plane = 2
           THEN at' = "idle" /\ tile' = Nil
                /\ updates'[tile] = updates[tile] - 1
           ELSE /\ at' = "begin" /\ tile' = tile /\ updates' = updates
                /\ plane' = plane + 1
    BY <1>0, NextEventType
  <2>3. StreamOrder' /\ DisplayInv' /\ (\A u \in Tiles : ThreadInv(u)') /\ EndIsGenuine'
    BY <1>0, <2>1, OrderUnchanged DEF IInv, EndIsGenuine
  <2>4. TypeOK'
    BY <1>0, <1>1, <2>1, <2>2 DEF TypeOK
  <2>5. CASE endOfStream
    <3>1. RenderInv'
      BY <1>0, <1>1, <2>1, <2>2, <2>5 DEF RenderInv, Unskipped
    <3> QED BY <2>3, <2>4, <3>1 DEF IInv
  <2>6. CASE ~endOfStream /\ ~AllPlanes
    <3>1. \A u \in Tiles : UpdatesMatch(u) /\ FrameHeld(u)
      BY <1>1, <2>6 DEF Unskipped
    <3>2. /\ renderQueue[tile] # <<>>
          /\ frame[tile] = Head(renderQueue[tile]) /\ frame[tile] \in Nat
          /\ textureState[tile] = 0..plane
          /\ \A p \in textureState[tile] : texture[tile][p] = frame[tile]
      BY <1>0, <1>1, <3>1, PipelineAssumption DEF FrameHeld, NoneBegun
    <3>3. plane # 2
      <4>1. plane = 2 => textureState[tile] = 0..2
        BY <3>2
      <4> QED BY <2>6, <4>1 DEF AllPlanes, Planes
    <3>4. /\ at' = "begin" /\ tile' = tile /\ updates' = updates
          /\ plane' = plane + 1 /\ plane' # 0 /\ plane' - 1 = plane
      BY <1>1, <2>2, <3>3
    <3>5. \A u \in Tiles : UpdatesMatch(u)'
      BY <1>0, <2>1, <3>1, <3>4 DEF UpdatesMatch
    <3>6. FrameHeld(tile)'
      BY <2>1, <3>2, <3>4 DEF FrameHeld, NoneBegun
    <3>7. ASSUME NEW u \in Tiles \ {tile} PROVE FrameHeld(u)'
      <4>1. textureState[u] = {} /\ frame[u] = Nil
        BY <3>1 DEF FrameHeld, NoneBegun
      <4> QED BY <2>1, <3>4, <4>1 DEF FrameHeld, NoneBegun
    <3>8. RenderInv'
      BY <1>0, <1>1, <3>4, <3>5, <3>6, <3>7 DEF RenderInv
    <3> QED BY <2>3, <2>4, <3>8 DEF IInv
  <2> QED BY <1>3, <2>5, <2>6
<1> QED BY <1>2, <1>3

---------------------------------------------------------------------------------
(* Theorems.                                                               *)

(* Every step of the system, and none, keeps the inductive invariant.      *)
LEMMA NextInvariant == IInv /\ [Next]_vars => IInv'
<1> SUFFICES ASSUME IInv, [Next]_vars PROVE IInv'
    OBVIOUS
<1>1. ASSUME NEW t \in Tiles, StreamThread(t) PROVE IInv'
    BY <1>1, ThreadStep
<1>2. ASSUME NEW t \in Tiles, Poll(t) PROVE IInv'
    BY <1>2, PollStep
<1>3. ASSUME NEW t \in Tiles, StartUpdate(t) PROVE IInv'
    BY <1>3, StartUpdateStep
<1>4. CASE Release
    BY <1>4, ReleaseStep
<1>5. CASE JoinStreams
    BY <1>5, JoinStreamsStep
<1>6. CASE RenderEvent
    BY <1>6, BeginEventStep, PeekFrameStep, CheckFrameStep, EndEventStep
    DEF RenderEvent
<1>7. CASE UNCHANGED vars
  <2>1. /\ UNCHANGED <<pc, pending, written, decodeQueue, polled, main, running,
                       endOfStream, renderQueue>>
        /\ UNCHANGED <<frame, textureState, texture, display, updates, tile,
                       plane, at>>
    BY <1>7 DEF vars
  <2>2. TypeOK'
    BY <2>1 DEF IInv, TypeOK
  <2>3. StreamOrder' /\ DisplayInv' /\ \A u \in Tiles : ThreadInv(u)'
    BY <2>1, OrderUnchanged
  <2>4. EndIsGenuine'
    BY <2>1 DEF IInv, EndIsGenuine
  <2>5. \A u \in Tiles : /\ UpdatesMatch(u)' <=> UpdatesMatch(u)
                         /\ FrameHeld(u)' <=> FrameHeld(u)
    BY <2>1 DEF UpdatesMatch, FrameHeld, NoneBegun
  <2>6. RenderInv'
    BY <2>1, <2>5 DEF IInv, RenderInv, Unskipped
  <2> QED BY <2>2, <2>3, <2>4, <2>6 DEF IInv
<1> QED BY <1>1, <1>2, <1>3, <1>4, <1>5, <1>6, <1>7 DEF Next

(* The pipeline's inductive invariant holds in every reachable state, for  *)
(* any tiles, any queue capacity and streams of any length (plugin.cpp:    *)
(* 223-319 and 434-513 together).                                          *)
THEOREM Invariance == Spec => []IInv
BY InitInvariant, NextInvariant, PTL DEF Spec

(* Every variable keeps its type and no decode queue ever holds more than  *)
(* its capacity (the folly::MPMCQueue of plugin.context.h).                *)
THEOREM TypeCorrect == Spec => []TypeOK
<1>1. IInv => TypeOK
    BY DEF IInv
<1> QED BY <1>1, Invariance, PTL

(* No frame is lost, doubled or reordered between the decoder of a tile    *)
(* and its texture (plugin.cpp:245, 304, 311, 508).                        *)
THEOREM FrameOrder == Spec => []StreamOrder
<1>1. IInv => StreamOrder
    BY DEF IInv
<1> QED BY <1>1, Invariance, PTL

(* The end-of-stream flag is raised only for a tile whose server ran out   *)
(* of segments and whose frames have all been polled (plugin.cpp:102-112,  *)
(* 309, 483).                                                              *)
THEOREM EndGenuine == Spec => []EndIsGenuine
<1>1. IInv => EndIsGenuine
    BY DEF IInv
<1> QED BY <1>1, Invariance, PTL

(* The assertions of the texture events (plugin.cpp:480-511) hold in every *)
(* interleaving with the polls that raise the end-of-stream flag.          *)
THEOREM Assertions == Spec => []EventAssertions
<1>1. IInv => EventAssertions
  <2> SUFFICES ASSUME IInv PROVE EventAssertions
      OBVIOUS
  <2>1. CASE at = "begin" /\ ~endOfStream
    <3>1. tile \in Tiles /\ plane \in {0, 1, 2} /\ FrameHeld(tile)
      BY <2>1, InEvent DEF Unskipped
    <3>2. CASE plane = 0
      <4>1. textureState[tile] = {} /\ frame[tile] = Nil
        BY <2>1, <3>1, <3>2 DEF FrameHeld, NoneBegun
      <4> QED BY <2>1, <3>2, <4>1 DEF EventAssertions
    <3>3. CASE plane # 0
      <4>1. textureState[tile] = 0..(plane - 1) /\ frame[tile] \in Nat
        BY <2>1, <3>1, <3>3 DEF FrameHeld, NoneBegun
      <4>2. frame[tile] # Nil
        BY <4>1, PipelineAssumption
      <4>3. 0 \in textureState[tile] /\ plane \notin textureState[tile]
        BY <3>1, <3>3, <4>1
      <4> QED BY <2>1, <4>2, <4>3 DEF EventAssertions
    <3> QED BY <3>2, <3>3
  <2>2. CASE at = "check"
    <3>1. tile \in Tiles /\ FrameHeld(tile) /\ TypeOK
      BY <2>2, InEvent DEF Unskipped
    <3>2. /\ renderQueue[tile] # <<>> /\ frame[tile] = Head(renderQueue[tile])
          /\ textureState[tile] = {}
      BY <2>2, <3>1 DEF FrameHeld, NoneBegun
    <3>3. frame[tile] \in Nat \cup {EndFrame}
      BY <3>1, <3>2, TailEntries DEF TypeOK
    <3>4. frame[tile] # Nil
      BY <3>3, PipelineAssumption
    <3> QED BY <2>2, <3>2, <3>4 DEF EventAssertions
  <2>3. CASE at = "end" /\ ~endOfStream
    <3>1. tile \in Tiles /\ plane \in {0, 1, 2} /\ FrameHeld(tile)
      BY <2>3, InEvent DEF Unskipped
    <3>2. textureState[tile] = 0..plane /\ frame[tile] \in Nat
      BY <2>3, <3>1, PipelineAssumption DEF FrameHeld, NoneBegun
    <3>3. AllPlanes => plane = 2
      <4>1. AllPlanes => 0..plane = 0..2
        BY <3>2 DEF AllPlanes, Planes
      <4>2. 2 \in 0..2
        OBVIOUS
      <4>3. 0..plane = 0..2 => 2 \in 0..plane
        BY <4>2
      <4> QED BY <3>1, <4>1, <4>3
    <3>4. plane \in textureState[tile]
      BY <3>1, <3>2
    <3> QED BY <2>3, <3>2, <3>3, <3>4 DEF EventAssertions
  <2>4. CASE at \in {"idle", "peek"} \/ (at # "check" /\ endOfStream)
    BY <2>4 DEF EventAssertions
  <2>5. at \in {"idle", "begin", "peek", "check", "end"}
    BY DEF IInv, TypeOK
  <2> QED BY <2>1, <2>2, <2>3, <2>4, <2>5
<1> QED BY <1>1, Invariance, PTL

(* The pipeline implements FrameStream: in every behaviour the pictures    *)
(* shown are whole frames, in decoding order, each once and none skipped.  *)
(* A successful write is the abstract Decode and the third end event the   *)
(* abstract Show; every other step is a stutter.                           *)
THEOREM ShownInOrderHolds == Spec => ShownInOrder
<1>1. Init => Shown!Init
    BY DEF Init, Shown!Init
<1>2. IInv /\ [Next]_vars => [Shown!Next]_(Shown!vars)
  <2> SUFFICES ASSUME IInv, [Next]_vars
               PROVE  Shown!Next \/ UNCHANGED <<written, display>>
      BY DEF Shown!vars
  <2>1. ASSUME NEW t \in Tiles, TryWrite(t) PROVE Shown!Next
    <3>1. /\ pc[t] = "write" /\ display' = display
          /\ written' = [written EXCEPT ![t] = @ + 1]
      BY <2>1 DEF TryWrite, renderVars
    <3>2. /\ pending[t] > 0 /\ written[t] + pending[t] <= MaxFrames[t]
          /\ pending[t] \in Nat /\ written[t] \in Nat
      BY <3>1 DEF IInv, ThreadInv, TypeOK
    <3>3. written[t] < MaxFrames[t]
      BY <3>2, PipelineAssumption
    <3>4. Shown!Decode(t)
      BY <3>1, <3>3 DEF Shown!Decode
    <3> QED BY <3>4 DEF Shown!Next
  <2>2. ASSUME NEW t \in Tiles, StreamThread(t), ~TryWrite(t)
        PROVE  UNCHANGED <<written, display>>
    BY <2>2 DEF StreamThread, FetchSegment, FetchBadResponse, FetchUnexpected,
                CheckRunning, WriteTimeout, WriteStopFrame, WriteStopError,
                renderVars
  <2>3. ASSUME NEW t \in Tiles, Poll(t) \/ StartUpdate(t)
        PROVE  UNCHANGED <<written, display>>
    BY <2>3 DEF Poll, StartUpdate, threadVars, renderVars
  <2>4. CASE Release \/ JoinStreams
    BY <2>4 DEF Release, JoinStreams, threadVars, renderVars
  <2>5. CASE BeginEvent \/ PeekFrame \/ CheckFrame
    BY <2>5 DEF BeginEvent, PeekFrame, CheckFrame, threadVars
  <2>6. CASE EndEvent
    <3>1. at = "end" /\ written' = written
      BY <2>6 DEF EndEvent, threadVars
    <3>2. CASE ~endOfStream /\ AllPlanes
      <4>1. FinishFrame
        BY <2>6, <3>2 DEF EndEvent
      <4>2. /\ Len(display[tile]) < written[tile] /\ tile \in Tiles
            /\ display' = [display EXCEPT ![tile] =
                              Append(@, [p \in Planes |-> Len(@) + 1])]
        BY <3>1, <3>2, <4>1, FinishFrameShows, InEvent
      <4>3. Shown!Show(tile)
        BY <3>1, <4>2 DEF Shown!Show, Shown!Planes, Planes
      <4> QED BY <4>2, <4>3 DEF Shown!Next
    <3>3. CASE ~(~endOfStream /\ AllPlanes)
      BY <2>6, <3>1, <3>3 DEF EndEvent
    <3> QED BY <3>2, <3>3
  <2>7. CASE UNCHANGED vars
    BY <2>7 DEF vars
  <2> QED BY <2>1, <2>2, <2>3, <2>4, <2>5, <2>6, <2>7 DEF Next, RenderEvent
<1> QED BY <1>1, <1>2, Invariance, PTL DEF Spec, ShownInOrder, Shown!Spec

=================================================================================
