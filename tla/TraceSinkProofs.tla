----------------------------- MODULE TraceSinkProofs -----------------------------
(***************************************************************************)
(* Theorems about the trace databases, for any producers and events.       *)
(*                                                                         *)
(* The leveldb sink: the entries put and those in the queue are, read one  *)
(* after the other, in the order of each producer (Ordered, Offered), and  *)
(* what was there when the sink was cancelled stays at the front of both   *)
(* until the consumer is done (EarlyKept).  What the database has under a  *)
(* key is the entry put under it last (Latest).                            *)
(*                                                                         *)
(* The sqlite sink: what a larger bulk left in the vector has a row        *)
(* already, so storing it again adds no event (Counted).                   *)
(***************************************************************************)
EXTENDS TraceSink, SequenceFacts, FiniteSetTheorems

Items == Producers \X Nat \X Keys

Types ==
    /\ produced \in [Producers -> Nat]
    /\ checked \subseteq Producers
    /\ stored \in Seq(Items)
    /\ queue \in Seq(Items \cup {Sentinel})
    /\ early \in Seq(Items \cup {Sentinel})
    /\ \A i \in 1..Len(early) : early[i] \in Items

(* What may come before what.                                              *)
Before(a, b) == a \in Items /\ b \in Items /\ a[1] = b[1] => a[2] < b[2]

Ordered ==
    /\ \A i \in 1..Len(stored) : \A j \in 1..(i - 1) : Before(stored[j], stored[i])
    /\ \A i \in 1..Len(queue) : \A j \in 1..(i - 1) : Before(queue[j], queue[i])
    /\ \A i \in 1..Len(stored) : \A j \in 1..Len(queue) : Before(stored[i], queue[j])

(* An entry was offered before the one its producer is about to enqueue.   *)
Made(e, numbers, busy) ==
    e \in Items => /\ e[2] <= numbers[e[1]]
                   /\ e[1] \in busy => e[2] < numbers[e[1]]

Offered == /\ \A i \in 1..Len(stored) : Made(stored[i], produced, checked)
           /\ \A i \in 1..Len(queue) : Made(queue[i], produced, checked)

(* Where consumer and canceller are, and when there is a sentinel.         *)
Phases ==
    /\ active <=> cancel = "none"
    /\ timed => consumer \in {"loop", "batch", "drain", "done"}
                /\ cancel \in {"none", "wait", "done"}
    /\ ~timed => consumer \in {"block", "done"}
    /\ consumer \in {"drain", "done"} => ~active
    /\ cancel = "done" => consumer = "done"
    /\ timed \/ cancel \in {"none", "sentinel"} =>
          \A i \in 1..Len(queue) : queue[i] \in Items

EarlyKept ==
    /\ cancel = "none" => early = <<>>
    /\ \A i \in 1..Len(early) :
          /\ i <= Len(stored) => stored[i] = early[i]
          /\ i > Len(stored) => /\ consumer # "done"
                                /\ i - Len(stored) <= Len(queue)
                                /\ queue[i - Len(stored)] = early[i]

IInv == Types /\ Ordered /\ Offered /\ Phases /\ EarlyKept

(* An entry put under a key is found there, or a later one.                *)
Latest ==
    /\ store = [k \in Keys |-> store[k]]
    /\ \A i \in 1..Len(stored) : \E j \in i..Len(stored) :
          Key(stored[j]) = Key(stored[i]) /\ store[Key(stored[i])] = stored[j]

---------------------------------------------------------------------------------
(* The sentinel is no entry.                                               *)
LEMMA NoItem == \A e \in Items : e # Sentinel
<1> SUFFICES ASSUME NEW e \in Items, e = Sentinel PROVE FALSE
  OBVIOUS
<1>1. PICK p \in Producers, n \in Nat, k \in Keys : e = <<p, n, k>>
  BY DEF Items
<1>2. Len(<<p, n, k>>) = 3 /\ Len(<<>>) = 0
  OBVIOUS
<1> QED BY <1>1, <1>2 DEF Sentinel

LEMMA InitIInv == Init => IInv
<1> SUFFICES ASSUME Init PROVE IInv
  OBVIOUS
<1>1. Len(<<>>) = 0 /\ <<>> \in Seq(Items) /\ <<>> \in Seq(Items \cup {Sentinel})
  OBVIOUS
<1>2. Types
  BY <1>1 DEF Init, Types
<1>3. Ordered /\ Offered
  BY <1>1 DEF Init, Ordered, Offered
<1>4. Phases /\ EarlyKept
  BY <1>1 DEF Init, Phases, EarlyKept
<1> QED BY <1>2, <1>3, <1>4 DEF IInv

(* A producer offers an event.                                             *)
LEMMA CheckStep ==
    ASSUME IInv, NEW p \in Producers, ProduceCheck(p)
    PROVE  IInv'
<1> USE DEF IInv, ProduceCheck
<1>1. Types'
  BY DEF Types
<1>2. Ordered' /\ Phases' /\ EarlyKept'
  BY DEF Ordered, Phases, EarlyKept, Before
<1>3. ASSUME NEW e, Made(e, produced, checked) PROVE Made(e, produced', checked')
  <2> SUFFICES ASSUME e \in Items
               PROVE  e[2] <= produced'[e[1]] /\ (e[1] \in checked' => e[2] < produced'[e[1]])
    BY DEF Made
  <2>1. e[1] \in Producers /\ e[2] \in Nat
    BY DEF Items
  <2>2. e[2] <= produced[e[1]] /\ (e[1] \in checked => e[2] < produced[e[1]])
    BY <1>3 DEF Made
  <2>3. produced \in [Producers -> Nat]
    BY DEF Types
  <2>4. CASE e[1] = p
    BY <2>1, <2>2, <2>3, <2>4
  <2>5. CASE e[1] # p
    BY <2>1, <2>2, <2>3, <2>5
  <2> QED BY <2>4, <2>5
<1>4. Offered'
  BY <1>3 DEF Offered
<1> QED BY <1>1, <1>2, <1>4

(* An entry or the sentinel at the end of the queue.                       *)
LEMMA AppendStep ==
    ASSUME IInv, NEW x \in Items \cup {Sentinel}, queue' = Append(queue, x),
           UNCHANGED <<consumer, timed, stored, store, early>>, produced' \in [Producers -> Nat],
           checked' \subseteq Producers,
           \A e : Made(e, produced, checked) => Made(e, produced', checked'),
           Made(x, produced', checked'),
           \A i \in 1..Len(stored) : Before(stored[i], x),
           \A i \in 1..Len(queue) : Before(queue[i], x),
           cancel' = "none" => cancel = "none"
    PROVE  Types' /\ Ordered' /\ Offered' /\ EarlyKept'
           /\ Len(queue') = Len(queue) + 1
           /\ \A i \in 1..Len(queue') : queue'[i] = IF i <= Len(queue) THEN queue[i] ELSE x
<1> USE DEF IInv
<1>0. /\ queue' \in Seq(Items \cup {Sentinel}) /\ Len(queue') = Len(queue) + 1
      /\ Len(queue) \in Nat
      /\ \A i \in 1..Len(queue) : queue'[i] = queue[i]
      /\ queue'[Len(queue) + 1] = x
  BY AppendEntries, LenProperties DEF Types
<1>1. \A i \in 1..Len(queue') : queue'[i] = IF i <= Len(queue) THEN queue[i] ELSE x
  BY <1>0
<1>2. Types'
  BY <1>0 DEF Types
<1>3. Ordered'
  <2>1. ASSUME NEW i \in 1..Len(queue'), NEW j \in 1..(i - 1)
        PROVE  Before(queue'[j], queue'[i])
    <3>1. CASE i <= Len(queue)
      BY <1>0, <3>1 DEF Ordered
    <3>2. CASE i > Len(queue)
      BY <1>0, <3>2
    <3> QED BY <1>0, <3>1, <3>2
  <2>2. ASSUME NEW i \in 1..Len(stored), NEW j \in 1..Len(queue')
        PROVE  Before(stored[i], queue'[j])
    <3>1. CASE j <= Len(queue)
      BY <1>0, <3>1 DEF Ordered
    <3>2. CASE j > Len(queue)
      BY <1>0, <3>2
    <3> QED BY <1>0, <3>1, <3>2
  <2> QED BY <2>1, <2>2 DEF Ordered, Before
<1>4. Offered'
  <2>1. ASSUME NEW i \in 1..Len(queue') PROVE Made(queue'[i], produced', checked')
    <3>1. CASE i <= Len(queue)
      <4>1. Made(queue[i], produced, checked) /\ queue'[i] = queue[i]
        BY <1>0, <3>1 DEF Offered
      <4> QED BY <4>1
    <3>2. CASE i > Len(queue)
      BY <1>0, <3>2
    <3> QED BY <1>0, <3>1, <3>2
  <2>2. \A i \in 1..Len(stored) : Made(stored[i], produced', checked')
    BY DEF Offered
  <2> QED BY <2>1, <2>2 DEF Offered
<1>5. EarlyKept'
  <2>1. Len(stored) \in Nat /\ Len(early) \in Nat
    BY LenProperties DEF Types
  <2> QED BY <1>0, <2>1 DEF EarlyKept
<1> QED BY <1>0, <1>1, <1>2, <1>3, <1>4, <1>5

(* The producer goes on to the enqueue, whatever has happened to the flag. *)
LEMMA EnqueueStep ==
    ASSUME IInv, NEW p \in Producers, ProduceEnqueue(p)
    PROVE  IInv'
<1> USE DEF IInv
<1>a. PICK k \in Keys : queue' = Append(queue, <<p, produced[p], k>>)
  BY DEF ProduceEnqueue
<1> DEFINE x == <<p, produced[p], k>>
<1>0. /\ x \in Items /\ x[1] = p /\ x[2] = produced[p] /\ produced[p] \in Nat
      /\ x \in Items \cup {Sentinel}
  BY DEF Types, Items
<1>1. /\ queue' = Append(queue, x) /\ checked' = checked \ {p} /\ p \in checked
      /\ UNCHANGED <<active, produced, consumer, cancel, timed, stored, store, early>>
  BY <1>a DEF ProduceEnqueue
<1> HIDE DEF x
<1>2. produced' \in [Producers -> Nat] /\ checked' \subseteq Producers
  BY <1>1 DEF Types
<1>3. \A e : Made(e, produced, checked) => Made(e, produced', checked')
  BY <1>1 DEF Made
<1>4. Made(x, produced', checked')
  BY <1>0, <1>1 DEF Made
<1>5. ASSUME NEW e, Made(e, produced, checked) PROVE Before(e, x)
  BY <1>0, <1>1, <1>5 DEF Made, Before
<1>6. /\ \A i \in 1..Len(stored) : Before(stored[i], x)
      /\ \A i \in 1..Len(queue) : Before(queue[i], x)
  BY <1>5 DEF Offered
<1>7. /\ Types' /\ Ordered' /\ Offered' /\ EarlyKept'
      /\ \A i \in 1..Len(queue') : queue'[i] = IF i <= Len(queue) THEN queue[i] ELSE x
      /\ Len(queue) \in Nat /\ Len(queue') = Len(queue) + 1
  <2>1. Len(queue) \in Nat
    BY LenProperties DEF Types
  <2> QED BY <1>0, <1>1, <1>2, <1>3, <1>4, <1>6, <2>1, AppendStep
<1>8. Phases'
  <2>1. ASSUME timed \/ cancel \in {"none", "sentinel"}, NEW i \in 1..Len(queue')
        PROVE  queue'[i] \in Items
    BY <1>0, <1>7, <2>1 DEF Phases
  <2> QED BY <1>1, <2>1 DEF Phases
<1> QED BY <1>7, <1>8

(* The sentinel wakes the blocked consumer up.                             *)
LEMMA SentinelStep ==
    ASSUME IInv, CancelSentinel
    PROVE  IInv'
<1> USE DEF IInv
<1>1. /\ queue' = Append(queue, Sentinel) /\ cancel = "sentinel" /\ cancel' = "wait"
      /\ UNCHANGED <<active, produced, checked, consumer, timed, stored, store, early>>
  BY DEF CancelSentinel, WakeUp
<1>2. /\ produced' \in [Producers -> Nat] /\ checked' \subseteq Producers
      /\ Sentinel \in Items \cup {Sentinel}
  BY <1>1 DEF Types
<1>3. \A e : Made(e, produced, checked) => Made(e, produced', checked')
  BY <1>1
<1>4. Made(Sentinel, produced', checked') /\ \A e : Before(e, Sentinel)
  BY NoItem DEF Made, Before
<1>5. Types' /\ Ordered' /\ Offered' /\ EarlyKept'
  BY <1>1, <1>2, <1>3, <1>4, AppendStep
<1>6. Phases'
  BY <1>1 DEF Phases
<1> QED BY <1>5, <1>6

(* The first entry of the queue is put.                                    *)
LEMMA PutStep ==
    ASSUME IInv, queue # <<>>, Head(queue) # Sentinel, Put, UNCHANGED consumer,
           consumer # "done"
    PROVE  IInv'
<1> USE DEF IInv
<1>1. /\ queue' = Tail(queue) /\ stored' = Append(stored, Head(queue))
      /\ UNCHANGED <<active, produced, checked, cancel, timed, early, consumer>>
  BY DEF Put
<1>2. /\ Len(queue) \in Nat \ {0} /\ queue' \in Seq(Items \cup {Sentinel})
      /\ Len(queue') = Len(queue) - 1
      /\ \A i \in 1..Len(queue') : queue'[i] = queue[i + 1]
      /\ Head(queue) = queue[1] /\ Head(queue) \in Items
  BY <1>1, TailEntries DEF Types
<1>3. /\ stored' \in Seq(Items) /\ Len(stored') = Len(stored) + 1 /\ Len(stored) \in Nat
      /\ \A i \in 1..Len(stored) : stored'[i] = stored[i]
      /\ stored'[Len(stored) + 1] = queue[1]
  BY <1>1, <1>2, AppendEntries, LenProperties DEF Types
<1>4. Types'
  BY <1>1, <1>2, <1>3 DEF Types
<1>5. Ordered'
  <2>1. ASSUME NEW i \in 1..Len(stored'), NEW j \in 1..(i - 1)
        PROVE  Before(stored'[j], stored'[i])
    <3>1. CASE i <= Len(stored)
      BY <1>3, <3>1 DEF Ordered
    <3>2. CASE i = Len(stored) + 1
      <4>1. j \in 1..Len(stored) /\ 1 \in 1..Len(queue)
        BY <1>2, <1>3, <3>2
      <4> QED BY <1>3, <3>2, <4>1 DEF Ordered
    <3> QED BY <1>3, <3>1, <3>2
  <2>2. ASSUME NEW i \in 1..Len(queue'), NEW j \in 1..(i - 1)
        PROVE  Before(queue'[j], queue'[i])
    <3>1. i + 1 \in 1..Len(queue) /\ j + 1 \in 1..((i + 1) - 1) /\ j \in 1..Len(queue')
      BY <1>2
    <3> QED BY <1>2, <3>1 DEF Ordered
  <2>3. ASSUME NEW i \in 1..Len(stored'), NEW j \in 1..Len(queue')
        PROVE  Before(stored'[i], queue'[j])
    <3>1. j + 1 \in 1..Len(queue) /\ 1 \in 1..((j + 1) - 1) /\ queue'[j] = queue[j + 1]
      BY <1>2
    <3>2. CASE i <= Len(stored)
      <4>1. i \in 1..Len(stored) /\ stored'[i] = stored[i]
        BY <1>3, <3>2
      <4> QED BY <3>1, <4>1 DEF Ordered
    <3>3. CASE i = Len(stored) + 1
      BY <1>3, <3>1, <3>3 DEF Ordered
    <3> QED BY <1>3, <3>2, <3>3
  <2> QED BY <2>1, <2>2, <2>3 DEF Ordered, Before
<1>6. Offered'
  <2>1. ASSUME NEW i \in 1..Len(stored') PROVE Made(stored'[i], produced', checked')
    <3>1. 1 \in 1..Len(queue)
      BY <1>2
    <3>2. CASE i <= Len(stored)
      BY <1>1, <1>3, <3>2 DEF Offered
    <3>3. CASE i = Len(stored) + 1
      BY <1>1, <1>3, <3>1, <3>3 DEF Offered
    <3> QED BY <1>3, <3>2, <3>3
  <2>2. ASSUME NEW i \in 1..Len(queue') PROVE Made(queue'[i], produced', checked')
    <3>1. i + 1 \in 1..Len(queue) /\ queue'[i] = queue[i + 1]
      BY <1>2
    <3> QED BY <1>1, <3>1 DEF Offered
  <2> QED BY <2>1, <2>2 DEF Offered
<1>7. Phases'
  <2>1. ASSUME timed \/ cancel \in {"none", "sentinel"}, NEW i \in 1..Len(queue')
        PROVE  queue'[i] \in Items
    <3>1. i + 1 \in 1..Len(queue) /\ queue'[i] = queue[i + 1]
      BY <1>2
    <3> QED BY <2>1, <3>1 DEF Phases
  <2> QED BY <1>1, <2>1 DEF Phases
<1>8. EarlyKept'
  <2>1. ASSUME NEW i \in 1..Len(early), i <= Len(stored') PROVE stored'[i] = early[i]
    <3>1. CASE i <= Len(stored)
      BY <1>3, <3>1 DEF EarlyKept
    <3>2. CASE i = Len(stored) + 1
      <4>1. i > Len(stored) /\ i - Len(stored) = 1
        BY <1>3, <3>2
      <4> QED BY <1>3, <3>2, <4>1 DEF EarlyKept
    <3> QED BY <1>3, <2>1, <3>1, <3>2
  <2>2. ASSUME NEW i \in 1..Len(early), i > Len(stored')
        PROVE  i - Len(stored') <= Len(queue') /\ queue'[i - Len(stored')] = early[i]
    <3>1. /\ i > Len(stored) /\ i - Len(stored') = (i - Len(stored)) - 1
          /\ i - Len(stored') \in Nat \ {0}
      BY <1>3, <2>2
    <3>2. i - Len(stored) <= Len(queue) /\ queue[i - Len(stored)] = early[i]
      BY <3>1 DEF EarlyKept
    <3>3. i - Len(stored') \in 1..Len(queue')
      BY <1>2, <1>3, <3>1, <3>2
    <3>4. (i - Len(stored')) + 1 = i - Len(stored)
      BY <1>3
    <3> QED BY <1>2, <3>2, <3>3, <3>4
  <2> QED BY <1>1, <2>1, <2>2 DEF EarlyKept
<1> QED BY <1>4, <1>5, <1>6, <1>7, <1>8

(* The consumer's steps that put nothing.                                  *)
LEMMA ConsumerMoves ==
    ASSUME IInv,
           UNCHANGED <<active, queue, produced, checked, cancel, timed, stored, store, early>>,
           timed => consumer' \in {"loop", "batch", "drain", "done"},
           ~timed => consumer' \in {"block", "done"},
           consumer' \in {"drain", "done"} => ~active,
           consumer' = "done" => consumer = "done" \/ queue = <<>>,
           consumer = "done" => consumer' = "done"
    PROVE  IInv'
<1> USE DEF IInv
<1>1. Types' /\ Ordered' /\ Offered' /\ Phases'
  BY DEF Types, Ordered, Offered, Phases, Before
<1>2. EarlyKept'
  <2>1. ASSUME NEW i \in 1..Len(early), i > Len(stored), queue = <<>> PROVE FALSE
    <3>1. i - Len(stored) <= 0 /\ Len(stored) \in Nat /\ Len(early) \in Nat
      BY <2>1, LenProperties DEF EarlyKept, Types
    <3> QED BY <2>1, <3>1
  <2> QED BY <2>1 DEF EarlyKept
<1> QED BY <1>1, <1>2

(* The blocked consumer takes the sentinel.                                *)
LEMMA BlockStep ==
    ASSUME IInv, Block
    PROVE  IInv'
<1> USE DEF IInv
<1>1. CASE Head(queue) # Sentinel
  BY <1>1, PutStep DEF Block
<1>2. CASE Head(queue) = Sentinel
  <2>1. /\ queue # <<>> /\ queue' = Tail(queue) /\ consumer = "block" /\ consumer' = "done"
        /\ UNCHANGED <<active, produced, checked, cancel, timed, stored, store, early>>
    BY <1>2 DEF Block
  <2>2. /\ Len(queue) \in Nat \ {0} /\ queue' \in Seq(Items \cup {Sentinel})
        /\ Len(queue') = Len(queue) - 1
        /\ \A i \in 1..Len(queue') : queue'[i] = queue[i + 1]
        /\ queue[1] = Sentinel
    BY <1>2, <2>1, TailEntries DEF Types
  <2>3. Types'
    BY <2>1, <2>2 DEF Types
  <2>4. \A i \in 1..Len(queue') : i + 1 \in 1..Len(queue) /\ queue'[i] = queue[i + 1]
    BY <2>2
  <2>5. Ordered'
    <3>1. ASSUME NEW i \in 1..Len(queue'), NEW j \in 1..(i - 1)
          PROVE  Before(queue'[j], queue'[i])
      <4>1. j \in 1..Len(queue') /\ j + 1 \in 1..((i + 1) - 1)
        BY <2>2
      <4> QED BY <2>4, <4>1 DEF Ordered
    <3>2. ASSUME NEW i \in 1..Len(stored), NEW j \in 1..Len(queue')
          PROVE  Before(stored[i], queue'[j])
      BY <2>4 DEF Ordered
    <3>3. ASSUME NEW i \in 1..Len(stored), NEW j \in 1..(i - 1)
          PROVE  Before(stored[j], stored[i])
      BY DEF Ordered
    <3> QED BY <2>1, <3>1, <3>2, <3>3 DEF Ordered, Before
  <2>6. Offered'
    BY <2>1, <2>4 DEF Offered
  <2>7. 1 \in 1..Len(queue) /\ queue[1] \notin Items
    BY <2>2, NoItem
  <2>8. Phases'
    <3>1. ~timed /\ cancel \notin {"none", "sentinel"}
      BY <2>7 DEF Phases
    <3> QED BY <2>1, <3>1 DEF Phases
  <2>9. EarlyKept'
    <3>1. ASSUME NEW i \in 1..Len(early), i > Len(stored) PROVE FALSE
      <4> DEFINE n == Len(stored) + 1
      <4>1. Len(stored) \in Nat /\ Len(early) \in Nat
        BY LenProperties DEF Types
      <4>2. n \in 1..Len(early) /\ n > Len(stored) /\ n - Len(stored) = 1
        BY <3>1, <4>1
      <4>3. queue[1] = early[n]
        BY <4>2 DEF EarlyKept
      <4>4. early[n] \in Items
        BY <4>2 DEF Types
      <4> QED BY <2>7, <4>3, <4>4
    <3>2. cancel # "none"
      BY <2>7 DEF Phases
    <3>3. \A i \in 1..Len(early) : i <= Len(stored) => stored[i] = early[i]
      BY DEF EarlyKept
    <3> QED BY <2>1, <3>1, <3>2, <3>3 DEF EarlyKept
  <2> QED BY <2>3, <2>5, <2>6, <2>8, <2>9
<1> QED BY <1>1, <1>2

(* A timed consumer meets no sentinel.                                     *)
LEMMA TimedHead ==
    ASSUME IInv, timed, queue # <<>>
    PROVE  Head(queue) # Sentinel
<1>1. Len(queue) \in Nat \ {0} /\ Head(queue) = queue[1]
  BY TailEntries DEF IInv, Types
<1>2. queue[1] \in Items
  BY <1>1 DEF IInv, Phases
<1> QED BY <1>1, <1>2, NoItem

(* A timed consumer writes batches while the sink is active, then the rest.*)
LEMMA TimedStep ==
    ASSUME IInv, TimedLoop \/ TimedBatchPut \/ TimedBatchEnd \/ TimedDrain
    PROVE  IInv'
<1> USE DEF IInv
<1>0. timed
  BY DEF Phases, TimedLoop, TimedBatchPut, TimedBatchEnd, TimedDrain
<1>1. CASE TimedLoop \/ TimedBatchEnd \/ (TimedDrain /\ queue = <<>>)
  <2>1. /\ UNCHANGED <<active, queue, produced, checked, cancel, timed, stored, store, early>>
        /\ consumer' \in {"loop", "batch", "drain", "done"} /\ consumer # "done"
        /\ consumer' \in {"drain", "done"} => ~active
        /\ consumer' = "done" => queue = <<>>
    BY <1>1 DEF TimedLoop, TimedBatchEnd, TimedDrain, Go, Leave, Phases
  <2> QED BY <1>0, <2>1, ConsumerMoves
<1>2. CASE TimedBatchPut \/ (TimedDrain /\ queue # <<>>)
  <2>1. queue # <<>> /\ Put /\ UNCHANGED consumer /\ consumer # "done"
    BY <1>2 DEF TimedBatchPut, TimedDrain
  <2> QED BY <1>0, <2>1, TimedHead, PutStep
<1> QED BY <1>1, <1>2

(* The flag is cleared: what the queue was given by then is early.         *)
LEMMA CancelStep ==
    ASSUME IInv, Cancel
    PROVE  IInv'
<1> USE DEF IInv
<1>1. /\ cancel = "none" /\ active' = FALSE /\ early' = stored \o queue
      /\ cancel' = IF timed THEN "wait" ELSE "sentinel"
      /\ UNCHANGED <<queue, produced, checked, consumer, timed, stored, store>>
  BY DEF Cancel, Given
<1>2. /\ stored \in Seq(Items \cup {Sentinel}) /\ queue \in Seq(Items \cup {Sentinel})
      /\ Len(stored) \in Nat /\ Len(queue) \in Nat
  <2>1. \A i \in 1..Len(stored) : stored[i] \in Items \cup {Sentinel}
    BY ElementOfSeq DEF Types
  <2> QED BY <2>1, LenProperties DEF Types
<1>3. /\ early' \in Seq(Items \cup {Sentinel})
      /\ Len(early') = Len(stored) + Len(queue)
      /\ \A i \in 1..(Len(stored) + Len(queue)) :
            early'[i] = IF i <= Len(stored) THEN stored[i] ELSE queue[i - Len(stored)]
  BY <1>1, <1>2, ConcatProperties
<1>4. ASSUME NEW i \in 1..Len(early') PROVE early'[i] \in Items
  <2>1. CASE i <= Len(stored)
    <3>1. stored[i] \in Items
      BY <1>2, <1>3, <2>1, ElementOfSeq DEF Types
    <3> QED BY <1>3, <2>1, <3>1
  <2>2. CASE i > Len(stored)
    <3>1. i - Len(stored) \in 1..Len(queue)
      BY <1>2, <1>3, <2>2
    <3>2. queue[i - Len(stored)] \in Items
      BY <1>1, <3>1 DEF Phases
    <3> QED BY <1>2, <1>3, <2>2, <3>2
  <2> QED BY <1>2, <1>3, <2>1, <2>2
<1>5. Types'
  BY <1>1, <1>3, <1>4 DEF Types
<1>6. Ordered' /\ Offered'
  BY <1>1 DEF Ordered, Offered, Before
<1>7. consumer # "done"
  BY <1>1 DEF Phases
<1>8. Phases'
  BY <1>1, <1>7 DEF Phases
<1>9. EarlyKept'
  <2>1. ASSUME NEW i \in 1..Len(early')
        PROVE  /\ i <= Len(stored) => stored[i] = early'[i]
               /\ i > Len(stored) => i - Len(stored) <= Len(queue)
                                     /\ queue[i - Len(stored)] = early'[i]
    BY <1>2, <1>3
  <2>2. cancel' # "none"
    BY <1>1
  <2> QED BY <1>1, <1>7, <2>1, <2>2 DEF EarlyKept
<1> QED BY <1>5, <1>6, <1>8, <1>9

LEMMA LeveldbNext == IInv /\ [Next]_vars => IInv'
<1> SUFFICES ASSUME IInv, [Next]_vars PROVE IInv'
  OBVIOUS
<1>1. CASE UNCHANGED vars
  BY <1>1 DEF vars, IInv, Types, Ordered, Offered, Phases, EarlyKept, Before
<1>2. ASSUME NEW p \in Producers, ProduceCheck(p) \/ ProduceEnqueue(p) PROVE IInv'
  BY <1>2, CheckStep, EnqueueStep
<1>3. CASE Consumer
  BY <1>3, TimedStep, BlockStep DEF Consumer
<1>4. CASE Cancel
  BY <1>4, CancelStep
<1>5. CASE Canceller
  <2>1. CASE CancelSentinel
    BY <2>1, SentinelStep
  <2>2. CASE CancelWait
    <3>1. /\ consumer = "done" /\ cancel = "wait" /\ cancel' = "done"
          /\ UNCHANGED <<active, queue, produced, checked, consumer, timed, stored, store, early>>
      BY <2>2 DEF CancelWait
    <3>2. Types' /\ Ordered' /\ Offered' /\ EarlyKept'
      BY <3>1 DEF IInv, Types, Ordered, Offered, EarlyKept, Before
    <3>3. Phases'
      BY <3>1 DEF IInv, Phases
    <3> QED BY <3>2, <3>3 DEF IInv
  <2> QED BY <1>5, <2>1, <2>2 DEF Canceller
<1> QED BY <1>1, <1>2, <1>3, <1>4, <1>5 DEF Next

LEMMA NextIInv == IInv /\ [SinkNext]_sinkVars => IInv'
<1> SUFFICES ASSUME IInv, [SinkNext]_sinkVars PROVE IInv'
  OBVIOUS
<1>1. [Next]_vars
  BY DEF SinkNext, sinkVars
<1> QED BY <1>1, LeveldbNext

(* The entry that is put is the latest under its key.                      *)
LEMMA PutLatest ==
    ASSUME IInv, Latest, queue # <<>>, Head(queue) # Sentinel, Put
    PROVE  Latest'
<1> DEFINE x == Head(queue)
<1>1. x \in Items /\ stored \in Seq(Items)
  <2>1. Len(queue) \in Nat \ {0} /\ Head(queue) = queue[1]
    BY TailEntries DEF IInv, Types
  <2>2. queue[1] \in Items \cup {Sentinel}
    BY <2>1, ElementOfSeq DEF IInv, Types
  <2> QED BY <2>1, <2>2 DEF IInv, Types
<1>2. Key(x) \in Keys
  BY <1>1 DEF Items, Key
<1>3. stored' = Append(stored, x) /\ store' = [store EXCEPT ![Key(x)] = x]
  BY DEF Put
<1> HIDE DEF x
<1>4. /\ Len(stored) \in Nat /\ Len(stored') = Len(stored) + 1
      /\ \A i \in 1..Len(stored) : stored'[i] = stored[i]
      /\ stored'[Len(stored) + 1] = x
  BY <1>1, <1>3, AppendEntries, LenProperties
<1>5. /\ store' = [k \in Keys |-> store'[k]] /\ store'[Key(x)] = x
      /\ \A k \in Keys : k # Key(x) => store'[k] = store[k]
  BY <1>2, <1>3 DEF Latest
<1>6. ASSUME NEW i \in 1..Len(stored')
      PROVE  \E j \in i..Len(stored') :
                Key(stored'[j]) = Key(stored'[i]) /\ store'[Key(stored'[i])] = stored'[j]
  <2>1. CASE Key(stored'[i]) = Key(x)
    <3>1. Len(stored) + 1 \in i..Len(stored')
      BY <1>4
    <3> QED BY <1>4, <1>5, <2>1, <3>1
  <2>2. CASE Key(stored'[i]) # Key(x)
    <3>1. i \in 1..Len(stored) /\ stored'[i] = stored[i]
      <4>1. i # Len(stored) + 1
        BY <1>4, <2>2
      <4> QED BY <1>4, <4>1
    <3>2. Key(stored[i]) \in Keys
      BY <1>1, <3>1, ElementOfSeq DEF Items, Key
    <3>3. PICK j \in i..Len(stored) :
             Key(stored[j]) = Key(stored[i]) /\ store[Key(stored[i])] = stored[j]
      BY <3>1 DEF Latest
    <3>4. j \in i..Len(stored') /\ j \in 1..Len(stored)
      BY <1>4, <3>1
    <3> QED BY <1>4, <1>5, <2>2, <3>1, <3>2, <3>3, <3>4
  <2> QED BY <2>1, <2>2
<1> QED BY <1>5, <1>6 DEF Latest

(* Nothing but a put changes what is stored.                               *)
LEMMA LatestStep == IInv /\ Latest /\ [SinkNext]_sinkVars => Latest'
<1> SUFFICES ASSUME IInv, Latest, [SinkNext]_sinkVars PROVE Latest'
  OBVIOUS
<1>1. [Next]_vars
  BY DEF SinkNext, sinkVars
<1>2. ASSUME UNCHANGED <<stored, store>> PROVE Latest'
  BY <1>2 DEF Latest
<1>3. CASE UNCHANGED vars
  BY <1>2, <1>3 DEF vars
<1>4. ASSUME NEW p \in Producers, ProduceCheck(p) \/ ProduceEnqueue(p) PROVE Latest'
  BY <1>2, <1>4 DEF ProduceCheck, ProduceEnqueue
<1>5. CASE Cancel \/ Canceller
  BY <1>2, <1>5 DEF Cancel, Canceller, CancelSentinel, CancelWait
<1>6. CASE TimedLoop \/ TimedBatchPut \/ TimedBatchEnd \/ TimedDrain
  <2>1. timed
    BY <1>6 DEF IInv, Phases, TimedLoop, TimedBatchPut, TimedBatchEnd, TimedDrain
  <2>2. \/ UNCHANGED <<stored, store>>
        \/ queue # <<>> /\ Put
    BY <1>6 DEF TimedLoop, TimedBatchPut, TimedBatchEnd, TimedDrain, Go
  <2> QED BY <1>2, <2>1, <2>2, TimedHead, PutLatest
<1>7. CASE Block
  <2>1. \/ UNCHANGED <<stored, store>>
        \/ queue # <<>> /\ Head(queue) # Sentinel /\ Put
    BY <1>7 DEF Block
  <2> QED BY <1>2, <2>1, PutLatest
<1> QED BY <1>1, <1>3, <1>4, <1>5, <1>6, <1>7 DEF Next, Consumer

---------------------------------------------------------------------------------
(* The invariant of the leveldb sink, from which its property follows.     *)
THEOREM Invariance == SinkSpec => []IInv
<1>1. SinkInit => IInv
  BY InitIInv DEF SinkInit
<1> QED BY <1>1, NextIInv, PTL DEF SinkSpec

(* The database has the latest entry put under each key.                   *)
LEMMA LatestInvariance == SinkSpec => []Latest
<1>1. SinkInit => Latest
  <2> SUFFICES ASSUME SinkInit PROVE Latest
    OBVIOUS
  <2>1. Len(<<>>) = 0
    OBVIOUS
  <2> QED BY <2>1 DEF SinkInit, Init, Latest
<1> QED BY <1>1, LatestStep, Invariance, PTL DEF SinkSpec

(* What was in the queue when the sink was cancelled is stored before the  *)
(* wait returns, each producer's events in its order, and each key is there*)
(* with the event given under it or a later one.                           *)
THEOREM StoredOrder == SinkSpec => []StoredInOrder
<1>1. IInv /\ Latest => StoredInOrder
  <2> SUFFICES ASSUME IInv, Latest PROVE StoredInOrder
    OBVIOUS
  <2> USE DEF IInv
  <2>1. ASSUME NEW i \in 1..Len(stored), NEW j \in 1..(i - 1)
        PROVE  /\ stored[i] # stored[j]
               /\ stored[i][1] = stored[j][1] => stored[j][2] < stored[i][2]
    <3>1. Len(stored) \in Nat /\ j \in 1..Len(stored)
      BY LenProperties DEF Types
    <3>2. stored[i] \in Items /\ stored[j] \in Items
      BY <3>1, ElementOfSeq DEF Types
    <3>3. stored[i][1] = stored[j][1] => stored[j][2] < stored[i][2]
      BY <3>2 DEF Ordered, Before
    <3>4. stored[i][2] \in Nat
      BY <3>2 DEF Items
    <3>5. ~(stored[i][2] < stored[i][2])
      BY <3>4
    <3> QED BY <3>3, <3>5
  <2>2. ASSUME cancel = "done"
        PROVE  /\ Len(early) <= Len(stored) /\ SubSeq(stored, 1, Len(early)) = early
               /\ \A i \in 1..Len(early) : \E j \in i..Len(stored) :
                     /\ Key(stored[j]) = Key(early[i])
                     /\ store[Key(early[i])] = stored[j]
    <3>1. Len(early) \in Nat /\ Len(stored) \in Nat
      BY LenProperties DEF Types
    <3>2. \A i \in 1..Len(early) : i <= Len(stored) /\ stored[i] = early[i]
      BY <2>2, <3>1 DEF Phases, EarlyKept
    <3>3. Len(early) <= Len(stored)
      BY <3>1, <3>2
    <3> DEFINE front == SubSeq(stored, 1, Len(early))
    <3>4. \A i \in 1..Len(early) : stored[i] \in Items
      BY <3>1, <3>3, ElementOfSeq DEF Types
    <3>5. /\ front \in Seq(Items)
          /\ Len(front) = IF 1 <= Len(early) THEN Len(early) - 1 + 1 ELSE 0
          /\ \A i \in 1..(Len(early) - 1 + 1) : front[i] = stored[1 + i - 1]
      BY <3>1, <3>4, SubSeqProperties
    <3> HIDE DEF front
    <3>6. Len(front) = Len(early)
      BY <3>1, <3>5
    <3>7. ASSUME NEW i \in 1..Len(early) PROVE front[i] = early[i]
      <4>1. i \in 1..(Len(early) - 1 + 1) /\ 1 + i - 1 = i
        BY <3>1
      <4> QED BY <3>2, <3>5, <4>1
    <3>8. front = early
      BY <3>5, <3>6, <3>7, SeqEqual DEF Types
    <3>9. ASSUME NEW i \in 1..Len(early)
          PROVE  \E j \in i..Len(stored) :
                    Key(stored[j]) = Key(early[i]) /\ store[Key(early[i])] = stored[j]
      <4>1. i \in 1..Len(stored) /\ stored[i] = early[i]
        BY <3>1, <3>2
      <4>2. PICK j \in i..Len(stored) :
               Key(stored[j]) = Key(stored[i]) /\ store[Key(stored[i])] = stored[j]
        BY <4>1 DEF Latest
      <4> QED BY <4>1, <4>2
    <3> QED BY <3>3, <3>8, <3>9 DEF front
  <2> QED BY <2>1, <2>2 DEF StoredInOrder
<1> QED BY <1>1, Invariance, LatestInvariance, PTL

---------------------------------------------------------------------------------
(* The events that have a row, and the invariant of the sqlite sink.       *)
Rows == Sqlite!StoredEvents

SqliteTypes ==
    /\ submitted \subseteq Events /\ eventQueue \subseteq submitted
    /\ IsFiniteSet(submitted)
    /\ entries \in [1..Bulk -> Events \cup {Sqlite!Blank}]
    /\ rows \in Seq(Events \cup {Sqlite!Blank})

Counted ==
    /\ Rows = submitted \ eventQueue
    /\ sinkCount = Cardinality(Rows)
    /\ \A i \in 1..Bulk : entries[i] \in Rows \cup {Sqlite!Blank}

SqliteInv == SqliteTypes /\ Counted

(* The two instances of the library are one.                               *)
LEMMA SameCardinality == \A S : Sqlite!Cardinality(S) = Cardinality(S)
BY DEF Sqlite!Cardinality, Cardinality

(* A sequence of all elements of a set, each once.                         *)
LEMMA AllElements ==
    ASSUME NEW S, IsFiniteSet(S), NEW f \in Sqlite!SetToSeqs(S)
    PROVE  /\ Cardinality(S) \in Nat
           /\ f \in [1..Cardinality(S) -> S]
           /\ Len(f) = Cardinality(S)
           /\ {f[i] : i \in 1..Len(f)} = S
<1> DEFINE n == Cardinality(S)
<1>1. n \in Nat
  BY FS_CardinalityType
<1>2. f \in [1..n -> S] /\ \A i, j \in 1..n : i # j => f[i] # f[j]
  BY SameCardinality DEF Sqlite!SetToSeqs
<1> HIDE DEF n
<1>3. f \in Injection(1..n, S)
  BY <1>2 DEF Injection, IsInjective
<1>4. IsFiniteSet(1..n) /\ Cardinality(1..n) = n
  BY <1>1, FS_Interval
<1>5. f \in Surjection(1..n, S)
  BY <1>3, <1>4, FS_Injection DEF n
<1>6. f \in Seq(S) /\ Len(f) = n
  BY <1>1, <1>2
<1>7. {f[i] : i \in 1..n} = S
  BY <1>2, <1>5 DEF Surjection
<1> QED BY <1>1, <1>2, <1>6, <1>7 DEF n

LEMMA InitSqlite == Sqlite!Init => SqliteInv
<1> SUFFICES ASSUME Sqlite!Init PROVE SqliteInv
  OBVIOUS
<1> USE DEF Sqlite!Init
<1>1. Len(rows) = 0 /\ rows \in Seq(Events \cup {Sqlite!Blank})
  BY EmptySeq
<1>2. Rows = {}
  BY <1>1 DEF Rows, Sqlite!StoredEvents
<1>3. IsFiniteSet({}) /\ Cardinality({}) = 0
  BY FS_EmptySet
<1>4. SqliteTypes
  BY <1>1, <1>3 DEF SqliteTypes
<1>5. Counted
  BY <1>2, <1>3 DEF Counted
<1> QED BY <1>4, <1>5 DEF SqliteInv

(* The whole vector goes behind the rows.                                  *)
LEMMA RowsAdded ==
    ASSUME SqliteTypes, NEW new \in [1..Bulk -> Events \cup {Sqlite!Blank}]
    PROVE  /\ rows \o new \in Seq(Events \cup {Sqlite!Blank})
           /\ {(rows \o new)[i] : i \in 1..Len(rows \o new)} =
                 {rows[i] : i \in 1..Len(rows)} \cup {new[i] : i \in 1..Bulk}
<1> DEFINE T == Events \cup {Sqlite!Blank}
<1>0. Bulk \in Nat
  BY SinkAssumption DEF Sqlite!SqliteAssumption
<1>1. rows \in Seq(T) /\ Len(rows) \in Nat
  BY LenProperties DEF SqliteTypes
<1>2. new \in Seq(T) /\ Len(new) = Bulk
  BY <1>0
<1> HIDE DEF T
<1> DEFINE all == rows \o new
<1>3. /\ all \in Seq(T) /\ Len(all) = Len(rows) + Bulk
      /\ \A i \in 1..(Len(rows) + Bulk) :
            all[i] = IF i <= Len(rows) THEN rows[i] ELSE new[i - Len(rows)]
  BY <1>1, <1>2, ConcatProperties
<1> HIDE DEF all
<1>4. ASSUME NEW i \in 1..Len(all)
      PROVE  \/ \E j \in 1..Len(rows) : all[i] = rows[j]
             \/ \E j \in 1..Bulk : all[i] = new[j]
  <2>1. CASE i <= Len(rows)
    <3>1. i \in 1..Len(rows) /\ all[i] = rows[i]
      BY <1>0, <1>1, <1>3, <2>1
    <3> QED BY <3>1
  <2>2. CASE i > Len(rows)
    <3>1. i - Len(rows) \in 1..Bulk /\ all[i] = new[i - Len(rows)]
      BY <1>0, <1>1, <1>3, <2>2
    <3> QED BY <3>1
  <2> QED BY <1>0, <1>1, <1>3, <2>1, <2>2
<1>5. ASSUME NEW j \in 1..Len(rows) PROVE j \in 1..Len(all) /\ all[j] = rows[j]
  BY <1>0, <1>1, <1>3
<1>6. ASSUME NEW j \in 1..Bulk
      PROVE  j + Len(rows) \in 1..Len(all) /\ all[j + Len(rows)] = new[j]
  <2>1. /\ j + Len(rows) \in 1..(Len(rows) + Bulk)
        /\ ~(j + Len(rows) <= Len(rows))
        /\ (j + Len(rows)) - Len(rows) = j
    BY <1>0, <1>1
  <2>2. all[j + Len(rows)] = new[(j + Len(rows)) - Len(rows)]
    BY <1>3, <2>1
  <2> QED BY <1>3, <2>1, <2>2
<1>7. {all[i] : i \in 1..Len(all)} =
        {rows[i] : i \in 1..Len(rows)} \cup {new[i] : i \in 1..Bulk}
  <2> DEFINE A == {all[i] : i \in 1..Len(all)}
  <2> DEFINE R == {rows[i] : i \in 1..Len(rows)}
  <2> DEFINE N == {new[i] : i \in 1..Bulk}
  <2>1. A \subseteq R \cup N
    BY <1>4
  <2>2. R \subseteq A
    BY <1>5
  <2>3. N \subseteq A
    <3> SUFFICES ASSUME NEW j \in 1..Bulk PROVE new[j] \in A
      OBVIOUS
    <3> QED BY <1>6
  <2> HIDE DEF A, R, N
  <2>4. A = R \cup N
    BY <2>1, <2>2, <2>3
  <2> QED BY <2>4 DEF A, R, N
<1> QED BY <1>3, <1>7 DEF all, T

(* A bulk is taken out of the queue and stored.                            *)
LEMMA DequeueStep ==
    ASSUME SqliteInv, Sqlite!Dequeue
    PROVE  SqliteInv'
<1> USE DEF SqliteInv
<1>0. Bulk \in Nat /\ Sqlite!Blank \notin Events
  BY SinkAssumption DEF Sqlite!SqliteAssumption
<1>1. PICK taken \in SUBSET eventQueue :
        /\ Sqlite!Cardinality(taken) <= Bulk
        /\ \E bulk \in Sqlite!SetToSeqs(taken) :
              /\ entries' = [i \in 1..Bulk |-> IF i <= Len(bulk) THEN bulk[i] ELSE entries[i]]
              /\ sinkCount' = sinkCount + Sqlite!Dequeued(bulk)
        /\ eventQueue' = eventQueue \ taken
        /\ rows' = rows \o entries'
        /\ submitted' = submitted
  BY DEF Sqlite!Dequeue
<1>2. PICK bulk \in Sqlite!SetToSeqs(taken) :
        /\ entries' = [i \in 1..Bulk |-> IF i <= Len(bulk) THEN bulk[i] ELSE entries[i]]
        /\ sinkCount' = sinkCount + Len(bulk)
  BY <1>1 DEF Sqlite!Dequeued
<1>3. /\ IsFiniteSet(taken) /\ Cardinality(taken) <= Bulk
      /\ taken \subseteq submitted /\ taken \subseteq Events
  <2>1. taken \subseteq submitted /\ taken \subseteq Events /\ IsFiniteSet(submitted)
    BY DEF SqliteTypes
  <2>2. IsFiniteSet(taken)
    BY <2>1, FS_Subset
  <2> QED BY <1>1, <2>1, <2>2, SameCardinality
<1>4. /\ Len(bulk) \in Nat /\ Len(bulk) <= Bulk /\ Len(bulk) = Cardinality(taken)
      /\ bulk \in [1..Len(bulk) -> taken]
      /\ {bulk[i] : i \in 1..Len(bulk)} = taken
  BY <1>3, AllElements
<1>5. entries' \in [1..Bulk -> Events \cup {Sqlite!Blank}]
  <2>1. ASSUME NEW i \in 1..Bulk
        PROVE  (IF i <= Len(bulk) THEN bulk[i] ELSE entries[i]) \in Events \cup {Sqlite!Blank}
    <3>1. CASE i <= Len(bulk)
      BY <1>0, <1>3, <1>4, <3>1
    <3>2. CASE ~(i <= Len(bulk))
      BY <3>2 DEF SqliteTypes
    <3> QED BY <3>1, <3>2
  <2> QED BY <1>2, <2>1
<1>6. \A i \in 1..Bulk : entries'[i] = IF i <= Len(bulk) THEN bulk[i] ELSE entries[i]
  BY <1>2
<1> DEFINE new == {entries'[i] : i \in 1..Bulk}
<1>7. taken \subseteq new /\ new \subseteq taken \cup Rows \cup {Sqlite!Blank}
  <2>1. ASSUME NEW e \in taken PROVE e \in new
    <3>1. PICK i \in 1..Len(bulk) : e = bulk[i]
      BY <1>4
    <3>2. i \in 1..Bulk /\ entries'[i] = e
      BY <1>0, <1>4, <1>6, <3>1
    <3> QED BY <3>2
  <2>2. ASSUME NEW i \in 1..Bulk PROVE entries'[i] \in taken \cup Rows \cup {Sqlite!Blank}
    <3>1. CASE i <= Len(bulk)
      BY <1>0, <1>4, <1>6, <3>1
    <3>2. CASE ~(i <= Len(bulk))
      BY <1>6, <3>2 DEF Counted
    <3> QED BY <3>1, <3>2
  <2> QED BY <2>1, <2>2
<1>8. /\ rows' \in Seq(Events \cup {Sqlite!Blank})
      /\ {rows'[i] : i \in 1..Len(rows')} = {rows[i] : i \in 1..Len(rows)} \cup new
  BY <1>1, <1>5, RowsAdded
<1> HIDE DEF new
<1>9. Rows' = Rows \cup taken
  <2>1. Rows' = ({rows[i] : i \in 1..Len(rows)} \cup new) \ {Sqlite!Blank}
    BY <1>8 DEF Rows, Sqlite!StoredEvents
  <2>2. Rows = {rows[i] : i \in 1..Len(rows)} \ {Sqlite!Blank}
    BY DEF Rows, Sqlite!StoredEvents
  <2> QED BY <1>0, <1>3, <1>7, <2>1, <2>2
<1>10. SqliteTypes'
  BY <1>1, <1>5, <1>8 DEF SqliteTypes
<1>11. Cardinality(Rows') = Cardinality(Rows) + Len(bulk)
  <2>1. Rows \subseteq submitted /\ Rows \cap taken = {}
    BY DEF Counted
  <2>2. IsFiniteSet(Rows)
    BY <2>1, FS_Subset DEF SqliteTypes
  <2>3. Cardinality(Rows \cup taken) =
          Cardinality(Rows) + Cardinality(taken) - Cardinality(Rows \cap taken)
    BY <1>3, <2>2, FS_Union
  <2>4. Cardinality({}) = 0 /\ Cardinality(Rows) \in Nat /\ Cardinality(taken) \in Nat
    BY <1>3, <2>2, FS_EmptySet, FS_CardinalityType
  <2>5. Cardinality(Rows \cap taken) = 0
    BY <2>1, <2>4
  <2> HIDE DEF Rows
  <2>6. Cardinality(Rows \cup taken) = Cardinality(Rows) + Cardinality(taken)
    BY <2>3, <2>4, <2>5
  <2> QED BY <1>4, <1>9, <2>6
<1>12. Counted'
  <2>1. Rows' = submitted' \ eventQueue'
    BY <1>1, <1>3, <1>9 DEF Counted
  <2>2. sinkCount' = Cardinality(Rows')
    BY <1>2, <1>11 DEF Counted
  <2>3. \A i \in 1..Bulk : entries'[i] \in Rows' \cup {Sqlite!Blank}
    BY <1>7, <1>9 DEF new
  <2> QED BY <2>1, <2>2, <2>3 DEF Counted
<1> QED BY <1>10, <1>12

LEMMA SqliteNext == SqliteInv /\ [Sqlite!Next]_sqliteVars => SqliteInv'
<1> SUFFICES ASSUME SqliteInv, [Sqlite!Next]_sqliteVars PROVE SqliteInv'
  OBVIOUS
<1>1. ASSUME UNCHANGED <<eventQueue, entries, rows, sinkCount, submitted>>
      PROVE  SqliteInv'
  BY <1>1 DEF SqliteInv, SqliteTypes, Counted, Rows, Sqlite!StoredEvents
<1>2. CASE UNCHANGED sqliteVars
  BY <1>1, <1>2 DEF sqliteVars
<1>3. ASSUME NEW e \in Events, Sqlite!SubmitEntry(e) PROVE SqliteInv'
  <2> USE DEF SqliteInv
  <2>1. /\ e \notin submitted /\ submitted' = submitted \cup {e}
        /\ eventQueue' = eventQueue \cup {e}
        /\ UNCHANGED <<entries, rows, sinkCount>>
    BY <1>3 DEF Sqlite!SubmitEntry
  <2>2. IsFiniteSet(submitted')
    BY <2>1, FS_AddElement DEF SqliteTypes
  <2>3. SqliteTypes'
    BY <2>1, <2>2 DEF SqliteTypes
  <2>4. Rows' = Rows
    BY <2>1 DEF Rows, Sqlite!StoredEvents
  <2>5. Counted'
    BY <2>1, <2>4 DEF Counted, SqliteTypes
  <2> QED BY <2>3, <2>5
<1>4. CASE Sqlite!SubmitCommand \/ Sqlite!Peek
  BY <1>1, <1>4 DEF Sqlite!SubmitCommand, Sqlite!Peek
<1>5. CASE Sqlite!WaitDequeueBulk
  BY <1>5, DequeueStep DEF Sqlite!WaitDequeueBulk
<1>6. CASE Sqlite!TryDequeueBulk
  <2>1. CASE eventQueue = {}
    BY <1>1, <1>6, <2>1 DEF Sqlite!TryDequeueBulk
  <2>2. CASE eventQueue # {}
    BY <1>6, <2>2, DequeueStep DEF Sqlite!TryDequeueBulk
  <2> QED BY <2>1, <2>2
<1> QED BY <1>2, <1>3, <1>4, <1>5, <1>6 DEF Sqlite!Next, Sqlite!Writer

(* Each event is in the queue or has a row, and is counted once, although  *)
(* a smaller bulk stores what a larger one left in the vector again.       *)
THEOREM CountMatches == SinkSpec => []CountMatchesRows
<1>1. SinkInit => SqliteInv
  BY InitSqlite DEF SinkInit
<1>2. SqliteInv /\ [SinkNext]_sinkVars => SqliteInv'
  <2>1. [SinkNext]_sinkVars => [Sqlite!Next]_sqliteVars
    BY DEF SinkNext, sinkVars
  <2> QED BY <2>1, SqliteNext
<1>3. SqliteInv => CountMatchesRows
  BY SameCardinality
     DEF SqliteInv, Counted, Rows, CountMatchesRows, Sqlite!CountMatchesRows
<1> QED BY <1>1, <1>2, <1>3, PTL DEF SinkSpec
==================================================================================
