------------------------------- MODULE LeveldbSink -------------------------------
(***************************************************************************)
(* The trace database on leveldb (src/gallery/database.leveldb.h): threads *)
(* that trace put events into a queue, a consumer task writes them, in     *)
(* batches of some time (timed) or one by one as they come, and the owner  *)
(* cancels and waits.  leveldb locks the directory, so there is one        *)
(* consumer.                                                               *)
(***************************************************************************)
EXTENDS Naturals, Sequences

CONSTANTS Producers,  \* threads that call the produce_callback
          MaxEvents,  \* bound: events of each
          Keys        \* times, as the clock shows them, with an instance

ASSUME LeveldbAssumption == MaxEvents \in Nat

VARIABLES
    active,     \* active_
    queue,      \* sink_entry_queue_, of <<producer, number, key>> or the
                \* sentinel
    produced,   \* the number of events each producer has offered
    checked,    \* producers between their look at active_ and the enqueue
    consumer,   \* where the consumer is
    cancel,     \* where wait_consume_cancel is
    timed,      \* the consumer's and the cancel's argument
    stored,     \* history: the entries put, in order
    store,      \* what the database has under each key
    early       \* history: what the queue had been given when it was cancelled

vars == <<active, queue, produced, checked, consumer, cancel, timed, stored, store,
          early>>

Sentinel == <<>>
Missing == <<>>
Key(e) == e[3]
Given == stored \o queue

(* make_opened, then the consume_task runs.                                *)
Init ==
    /\ active = TRUE
    /\ queue = <<>>
    /\ produced = [p \in Producers |-> 0]
    /\ checked = {}
    /\ timed \in BOOLEAN
    /\ consumer = IF timed THEN "loop" ELSE "block"
    /\ cancel = "none"
    /\ stored = <<>> /\ store = [k \in Keys |-> Missing]
    /\ early = <<>>

(* produce_callback: look at the flag...                                   *)
ProduceCheck(p) ==
    /\ p \notin checked
    /\ produced[p] < MaxEvents
    /\ produced' = [produced EXCEPT ![p] = @ + 1]
    /\ checked' = IF active THEN checked \cup {p} ELSE checked
    /\ UNCHANGED <<active, queue, consumer, cancel, timed, stored, store, early>>

(* ... then enqueue under the time and the instance, whatever has happened *)
(* to the flag; the clock may show two events the same time.               *)
ProduceEnqueue(p) ==
    /\ p \in checked
    /\ \E k \in Keys : queue' = Append(queue, <<p, produced[p], k>>)
    /\ checked' = checked \ {p}
    /\ UNCHANGED <<active, produced, consumer, cancel, timed, stored, store, early>>

(* DB::Put replaces what the key had.                                      *)
Put == /\ queue' = Tail(queue)
       /\ stored' = Append(stored, Head(queue))
       /\ store' = [store EXCEPT ![Key(Head(queue))] = Head(queue)]
       /\ UNCHANGED <<active, produced, checked, cancel, timed, early>>
Go(place) == /\ consumer' = place
             /\ UNCHANGED <<active, queue, produced, checked, cancel, timed,
                            stored, store, early>>

(* A plausible slip: after the loop there is nothing left to do.           *)
MutantLeave == IF active THEN "batch" ELSE "done"

(* What follows the look at the flag.                                      *)
Leave == IF active THEN "batch" ELSE "drain"

(* timed_consume_entry: look at the flag, write for a while with the       *)
(* database open, close it and sleep, and start over.                      *)
TimedLoop == consumer = "loop" /\ Go(Leave)
TimedBatchPut == consumer = "batch" /\ queue # <<>> /\ Put /\ UNCHANGED consumer
TimedBatchEnd == consumer = "batch" /\ Go("loop")

(* After the loop, what is there is written until the queue is empty.      *)
TimedDrain ==
    /\ consumer = "drain"
    /\ IF queue # <<>> THEN Put /\ UNCHANGED consumer ELSE Go("done")

(* block_consume_entry: until the sentinel comes.                          *)
Block ==
    /\ consumer = "block"
    /\ queue # <<>>
    /\ IF Head(queue) = Sentinel
       THEN /\ queue' = Tail(queue) /\ consumer' = "done"
            /\ UNCHANGED <<active, produced, checked, cancel, timed, stored, store, early>>
       ELSE Put /\ UNCHANGED consumer

(* wait_consume_cancel, step by step: clear the flag...                    *)
Cancel ==
    /\ cancel = "none"
    /\ active' = FALSE
    /\ early' = Given
    /\ cancel' = IF timed THEN "wait" ELSE "sentinel"
    /\ UNCHANGED <<queue, produced, checked, consumer, timed, stored, store>>

(* A plausible slip: the blocked consumer is not woken up.                 *)
MutantWakeUp == UNCHANGED queue
WakeUp == queue' = Append(queue, Sentinel)

(* ... wake the consumer up if it blocks...                                *)
CancelSentinel ==
    /\ cancel = "sentinel"
    /\ WakeUp
    /\ cancel' = "wait"
    /\ UNCHANGED <<active, produced, checked, consumer, timed, stored, store, early>>

(* ... and wait for it.                                                    *)
CancelWait ==
    /\ cancel = "wait"
    /\ consumer = "done"
    /\ cancel' = "done"
    /\ UNCHANGED <<active, queue, produced, checked, consumer, timed, stored, store, early>>

Consumer == TimedLoop \/ TimedBatchPut \/ TimedBatchEnd \/ TimedDrain \/ Block
Canceller == CancelSentinel \/ CancelWait

Next == \/ \E p \in Producers : ProduceCheck(p) \/ ProduceEnqueue(p)
        \/ Consumer \/ Cancel \/ Canceller

(* The consumer's thread runs, and the batch's time passes.                *)
Fairness == /\ WF_vars(TimedLoop \/ TimedDrain \/ Block) /\ WF_vars(TimedBatchEnd)
            /\ WF_vars(Canceller)

---------------------------------------------------------------------------------
(* What was in the queue when it was cancelled is written, before the wait *)
(* returns, in the order it was given; an event that comes later is lost or*)
(* written after it (database.leveldb.h:33-51, 95).  So the database has   *)
(* each key it was given by then, with that event or a later one.          *)
StoredInOrder ==
    /\ \A i \in 1..Len(stored) : \A j \in 1..(i - 1) :
          stored[i] # stored[j]
            /\ (stored[i][1] = stored[j][1] => stored[j][2] < stored[i][2])
    /\ cancel = "done" => /\ Len(early) <= Len(stored)
                          /\ SubSeq(stored, 1, Len(early)) = early
                          /\ \A i \in 1..Len(early) : \E j \in i..Len(stored) :
                                /\ Key(stored[j]) = Key(early[i])
                                /\ store[Key(early[i])] = stored[j]

(* The wait for the consumer ends; the consumer that blocks does not end   *)
(* before (the assertion at database.leveldb.h:114).                       *)
CancelReturns ==
    /\ [](consumer = "done" => ~active)
    /\ (cancel # "none") ~> (cancel = "done")
=================================================================================
