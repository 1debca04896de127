------------------------------- MODULE SqliteSink -------------------------------
(***************************************************************************)
(* The trace database on sqlite (src/gallery/database.sqlite.h): threads   *)
(* submit events, one thread submits a command, and a writer stores the    *)
(* events in bulks until it sees a command, then what is left.             *)
(***************************************************************************)
EXTENDS Naturals, Sequences, FiniteSets, SequencesExt

CONSTANTS Events,  \* all events ever submitted
          Bulk     \* bulk_size

Blank == "blank"

(* An event that was submitted is not a default element of the vector.     *)
SqliteAssumption == Bulk \in Nat \ {0} /\ Blank \notin Events

VARIABLES
    eventQueue,  \* sink_event_queue: concurrent producers, no order
    commands,    \* how many commands are in command_queue
    entries,     \* the vector of bulk_size elements, Blank if default
    writer,      \* where insert_entry_persistently is
    rows,        \* the rows of the table
    sinkCount,   \* sink_count
    submitted    \* the events submitted so far

vars == <<eventQueue, commands, entries, writer, rows, sinkCount, submitted>>

Init ==
    /\ eventQueue = {} /\ commands = 0
    /\ entries = [i \in 1..Bulk |-> Blank]
    /\ writer = "peek"
    /\ rows = <<>> /\ sinkCount = 0
    /\ submitted = {}

SubmitEntry(e) ==
    /\ e \notin submitted
    /\ submitted' = submitted \cup {e}
    /\ eventQueue' = eventQueue \cup {e}
    /\ UNCHANGED <<commands, entries, writer, rows, sinkCount>>

(* submit_command, of whatever kind: the writer only peeks.                *)
SubmitCommand ==
    /\ commands = 0
    /\ commands' = 1
    /\ UNCHANGED <<eventQueue, entries, writer, rows, sinkCount, submitted>>

(* peek: a command is there, or not.                                       *)
Peek ==
    /\ writer = "peek"
    /\ writer' = IF commands > 0 THEN "rest" ELSE "wait"
    /\ UNCHANGED <<eventQueue, commands, entries, rows, sinkCount, submitted>>

(* A plausible slip: the size of the vector is counted, as it is inserted. *)
MutantDequeued(bulk) == Bulk
Dequeued(bulk) == Len(bulk)

(* Up to bulk_size events go to the front of the vector; what a larger     *)
(* bulk left behind them stays; insert_range stores the whole vector.      *)
Dequeue ==
    \E taken \in SUBSET eventQueue :
        /\ taken # {} /\ Cardinality(taken) <= Bulk
        /\ \E bulk \in SetToSeqs(taken) :
              /\ entries' = [i \in 1..Bulk |-> IF i <= Len(bulk) THEN bulk[i]
                                                               ELSE entries[i]]
              /\ sinkCount' = sinkCount + Dequeued(bulk)
        /\ eventQueue' = eventQueue \ taken
        /\ rows' = rows \o entries'
        /\ UNCHANGED <<commands, submitted>>

(* A plausible slip: the commands are not looked at again.                 *)
MutantAfterBulk == "wait"
AfterBulk == "peek"

(* wait_dequeue_bulk has no limit.                                         *)
WaitDequeueBulk ==
    /\ writer = "wait"
    /\ Dequeue
    /\ writer' = AfterBulk

(* try_dequeue_bulk until nothing is left.                                 *)
TryDequeueBulk ==
    /\ writer = "rest"
    /\ IF eventQueue = {}
       THEN /\ writer' = "done"
            /\ UNCHANGED <<eventQueue, commands, entries, rows, sinkCount, submitted>>
       ELSE Dequeue /\ UNCHANGED writer

Writer == Peek \/ WaitDequeueBulk \/ TryDequeueBulk

Next == (\E e \in Events : SubmitEntry(e)) \/ SubmitCommand \/ Writer

Fairness == WF_vars(Writer)

---------------------------------------------------------------------------------
StoredEvents == {rows[i] : i \in 1..Len(rows)} \ {Blank}

(* Each event is in the queue or has a row, and is counted once, although  *)
(* the table may have rows twice or blank (database.sqlite.h:111).         *)
CountMatchesRows ==
    /\ StoredEvents = submitted \ eventQueue
    /\ sinkCount = Cardinality(StoredEvents)

(* A command ends the writer when it comes before the writer looks, else   *)
(* only with one more event (database.sqlite.h:115): the writer does not   *)
(* look at commands while it waits.                                        *)
CommandEnds ==
    commands > 0 /\ (writer # "wait" \/ eventQueue # {}) ~> writer = "done"
================================================================================
