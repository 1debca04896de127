------------------------------- MODULE Connector -------------------------------
(***************************************************************************)
(* The connector of the network library (src/network/connector.cpp): it    *)
(* resolves host names one after the other and opens a socket for every    *)
(* call of connect_socket.  Its list of tokens belongs to a strand; a      *)
(* socket that is being connected has left the list, and the handler of    *)
(* that operation runs beside the strand, on any io thread.                *)
(***************************************************************************)
EXTENDS Naturals, Sequences, FiniteSets

CONSTANTS Callers,  \* those who call connect_socket, once each
          Threads   \* configs().concurrency.network, the io threads

ConnectorAssumption ==
    /\ Threads \in Nat \ {0}
    /\ Callers \cap {"resolved", "unresolved", "failed"} = {}

VARIABLES
    strand,       \* connect_sequence_: handlers waiting to run, in order
    connectList,  \* connect_list_
    resolving,    \* how many async_resolve operations are in flight
    connecting,   \* callers whose promise an async_connect has taken along
    outcome,      \* what a caller's promise holds
    threads       \* io threads that still run the io_context

vars == <<strand, connectList, resolving, connecting, outcome, threads>>

Init ==
    /\ strand = <<>>
    /\ connectList = <<>>
    /\ resolving = 0
    /\ connecting = {}
    /\ outcome = [c \in Callers |-> "uncalled"]
    /\ threads = Threads

(* connect_socket: make the promise and post its token to the strand.      *)
ConnectSocket(c) ==
    /\ outcome[c] = "uncalled"
    /\ outcome' = [outcome EXCEPT ![c] = "pending"]
    /\ strand' = Append(strand, c)
    /\ UNCHANGED <<connectList, resolving, connecting, threads>>

(* A plausible slip: every token starts to resolve at once.                *)
MutantFirst(list) == TRUE

(* The token has found the list empty: no resolve is in flight.            *)
First(list) == Len(list) = 1

(* A handler of the strand runs on some io thread.                         *)
Runs(handlers) ==
    /\ threads > 0
    /\ strand # <<>>
    /\ Head(strand) \in handlers

(* The lambda that connect_socket posted.                                  *)
RunPosted ==
    /\ Runs(Callers)
    /\ connectList' = Append(connectList, Head(strand))
    /\ resolving' = IF First(connectList') THEN resolving + 1 ELSE resolving
    /\ strand' = Tail(strand)
    /\ UNCHANGED <<connecting, outcome, threads>>

(* The resolver has finished.  An operation that was cancelled fails or,   *)
(* if it was too late for that, does not; one that was not may fail too.   *)
Resolve ==
    /\ resolving > 0
    /\ resolving' = resolving - 1
    /\ \E result \in {"resolved", "unresolved"} : strand' = Append(strand, result)
    /\ UNCHANGED <<connectList, connecting, outcome, threads>>

(* A plausible slip: the token stays in the list while it is connected.    *)
MutantRest(list) == list

(* What is left when the front token has been handed to async_connect.     *)
Rest(list) == Tail(list)

ResolveNext(list) == resolving' = IF list = <<>> THEN resolving ELSE resolving + 1

(* on_resolve with endpoints: connect the front, resolve for the next.     *)
OnResolve ==
    /\ Runs({"resolved"})
    /\ connecting' = connecting \cup {Head(connectList)}
    /\ connectList' = Rest(connectList)
    /\ ResolveNext(connectList')
    /\ strand' = Tail(strand)
    /\ UNCHANGED <<outcome, threads>>

Settled(c) == outcome[c] # "pending"

(* fail_socket_then_cancel fails every promise in the list and leaves them *)
(* there.  It stops at one that is settled: folly throws, and the          *)
(* exception ends the io thread.  (Cancelling the resolver makes an error  *)
(* likely, which Resolve allows in any case.)                              *)
FailSocketThenCancel ==
    /\ outcome' = [c \in Callers |->
          IF \E i \in 1..Len(connectList) :
                connectList[i] = c /\ \A j \in 1..i : ~Settled(connectList[j])
          THEN "error" ELSE outcome[c]]
    /\ threads' = IF \E i \in 1..Len(connectList) : Settled(connectList[i])
                  THEN threads - 1 ELSE threads

(* on_resolve with an error, or the lambda posted by a failed connect.     *)
RunFailure ==
    /\ Runs({"unresolved", "failed"})
    /\ FailSocketThenCancel
    /\ strand' = Tail(strand)
    /\ UNCHANGED <<connectList, resolving, connecting>>

(* A plausible slip: a connect that fails keeps its promise.               *)
MutantRefused(c) ==
    strand' = Append(strand, "failed") /\ UNCHANGED outcome

(* The connection is refused: fail its promise, then all in the list.      *)
Refused(c) ==
    /\ outcome' = [outcome EXCEPT ![c] = "error"]
    /\ strand' = Append(strand, "failed")

(* The connection is there: the promise gets the socket.                   *)
Connected(c) ==
    /\ outcome' = [outcome EXCEPT ![c] = "socket"]
    /\ UNCHANGED strand

(* on_connect, on any io thread.  A promise that was failed while it was   *)
(* in the list cannot be settled again: folly throws.                      *)
OnConnect(c) ==
    /\ threads > 0
    /\ c \in connecting
    /\ connecting' = connecting \ {c}
    /\ IF Settled(c)
       THEN threads' = threads - 1 /\ UNCHANGED <<outcome, strand>>
       ELSE (Refused(c) \/ Connected(c)) /\ UNCHANGED threads
    /\ UNCHANGED <<connectList, resolving>>

Handler == RunPosted \/ OnResolve \/ RunFailure

(* What the io threads and the resolver do.                                *)
Operation == Handler \/ Resolve \/ \E c \in Callers : OnConnect(c)

Next == Operation \/ \E c \in Callers : ConnectSocket(c)

Spec == Init /\ [][Next]_vars

---------------------------------------------------------------------------------
(* Properties.                                                             *)

TypeOK ==
    /\ strand \in Seq(Callers \cup {"resolved", "unresolved", "failed"})
    /\ connectList \in Seq(Callers)
    /\ resolving \in Nat
    /\ connecting \subseteq Callers
    /\ outcome \in [Callers -> {"uncalled", "pending", "socket", "error"}]
    /\ threads \in 0..Threads

(* Where a queue holds entries of some kind.                               *)
Places(queue, entries) == {i \in 1..Len(queue) : queue[i] \in entries}

(* Resolve operations in flight or with their handler waiting to run.      *)
Outstanding ==
    resolving + Cardinality(Places(strand, {"resolved", "unresolved"}))

(* There is never more than one resolve operation, and the list is not     *)
(* empty when it ends (connector.cpp:38 takes the front of a deque without *)
(* asking); until a first call fails a list that is not empty has one, so  *)
(* that none of its callers is forgotten.                                  *)
OneResolve ==
    /\ Outstanding <= 1
    /\ Outstanding = 1 => connectList # <<>>
    /\ (\A c \in Callers : outcome[c] # "error") =>
          (connectList # <<>> => Outstanding = 1)

(* A failure found other calls in the list: they stay there for good       *)
(* although their promises are settled (connector.cpp:20-22).              *)
Poisoned == \E i \in 1..Len(connectList) : Settled(connectList[i])

(* No promise is held by two parties, and an open call is held by one: the *)
(* strand, the list or the operation that connects it.                     *)
Holders(c) ==
    Cardinality(Places(strand, {c}))
      + Cardinality(Places(connectList, {c}))
      + (IF c \in connecting THEN 1 ELSE 0)
OneHolder ==
    \A c \in Callers : /\ Holders(c) <= 1
                       /\ outcome[c] = "pending" => Holders(c) = 1
================================================================================
