------------------------------ MODULE ServerProofs ------------------------------
(***************************************************************************)
(* Theorems about the server, for any connections, requests, threads and   *)
(* configurations.                                                         *)
(*                                                                         *)
(* That a handler finds its session rests on two facts: a socket that is   *)
(* being accepted belongs to no connection in progress, and a session has  *)
(* an operation only while it is open and not completed (Ownership).  That *)
(* responses match requests needs what the operation in flight says of the *)
(* request read last (Matched).  What the schedule worker and the sessions *)
(* are configured with is settled before the main loop (SetupInv).         *)
(***************************************************************************)
EXTENDS Server, SequenceFacts

(* The types the proofs need.                                              *)
Types ==
    /\ requests \in [Connections -> Seq(Requests)]
    /\ received \in [Connections -> Nat]
    /\ replies \in [Connections -> Seq({"ok", "bad_request"})]
    /\ operation \in [Connections -> {"none", "read", "ok", "bad_request"}]
    /\ completion \in [Connections -> {"pending", "value", "exception"}]
    /\ stage \in [Connections -> {"none", "accepted", "open", "erased", "failed"}]

(* Who may use a session, and what the main thread has waited for.         *)
Ownership ==
    /\ map = {c \in Connections : stage[c] = "open"}
    /\ \A c \in Connections : operation[c] # "none" =>
          stage[c] = "open" /\ completion[c] = "pending"
    /\ \A c \in Connections : stage[c] \in {"none", "accepted"} =>
          received[c] = 0 /\ replies[c] = <<>> /\ completion[c] = "pending"
    /\ accept \in Connections => stage[accept] = "none"
    /\ main = "done" => \A c \in Connections : stage[c] \in {"none", "erased", "failed"}

(* The status a request deserves.                                          *)
Status(request) == IF request.exists THEN "ok" ELSE "bad_request"

(* The responses written on connection c, and the one in flight.           *)
Matched(c) ==
    /\ received[c] <= Len(requests[c]) /\ Len(replies[c]) <= received[c]
    /\ \A i \in 1..Len(replies[c]) :
          /\ requests[c][i].keep /\ replies[c][i] = Status(requests[c][i])
          /\ i < Len(replies[c]) \/ received[c] > i \/ operation[c] # "none" =>
                replies[c][i] = "ok"
    /\ operation[c] = "read" => received[c] = Len(replies[c])
    /\ operation[c] \in {"ok", "bad_request"} =>
          /\ received[c] = Len(replies[c]) + 1
          /\ requests[c][received[c]].keep
          /\ operation[c] = Status(requests[c][received[c]])

IInv == Types /\ Ownership /\ \A c \in Connections : Matched(c)

---------------------------------------------------------------------------------
LEMMA InitIInv == Init => IInv
<1> SUFFICES ASSUME Init PROVE IInv
  OBVIOUS
<1> USE DEF Init, Session!Init
<1>1. Types
  BY EmptySeq DEF Types
<1>2. Ownership
  BY ServerAssumption DEF Ownership
<1>3. \A c \in Connections : Matched(c)
  BY EmptySeq DEF Matched
<1> QED BY <1>1, <1>2, <1>3 DEF IInv

(* Steps that leave the sessions and the continuations alone.              *)
LEMMA SessionsUnchanged ==
    ASSUME IInv, UNCHANGED <<sessionVars, stage, map>>,
           accept' \in Connections => stage[accept'] = "none",
           main' = "done" => main = "done"
                             \/ \A c \in Connections : stage[c] \in {"none", "erased", "failed"}
    PROVE  IInv'
<1> USE DEF IInv, sessionVars
<1>1. Types'
  BY DEF Types
<1>2. Ownership'
  BY DEF Ownership
<1>3. \A c \in Connections : Matched(c)'
  BY DEF Matched
<1> QED BY <1>1, <1>2, <1>3

(* The main thread: only Accepted hands a connection to the continuations. *)
LEMMA MainStep ==
    ASSUME IInv, Main
    PROVE  IInv'
<1>0. /\ accept \in Connections => stage[accept] = "none"
      /\ Types
  BY DEF IInv, Ownership
<1>1. CASE ParseOptions \/ Construct \/ LeaveLoop \/ Collect
  <2>1. /\ UNCHANGED <<sessionVars, stage, map, accept>>
        /\ main' = "done" => \A c \in Connections : stage[c] \in {"none", "erased", "failed"}
    BY <1>1 DEF ParseOptions, Construct, LeaveLoop, Collect, mapVars, acceptVars
  <2> QED BY <1>0, <2>1, SessionsUnchanged
<1>2. CASE AcceptSocket
  <2>1. /\ UNCHANGED <<sessionVars, stage, map>> /\ accept' \notin Connections
        /\ main' # "done"
    BY <1>2, ServerAssumption DEF AcceptSocket, mapVars
  <2> QED BY <2>1, SessionsUnchanged
<1>3. CASE Accepted
  <2>1. /\ UNCHANGED <<requests, received, replies, operation, completion, map>>
        /\ stage' = [c \in Connections |-> IF c = accept THEN "accepted" ELSE stage[c]]
        /\ accept' \notin Connections /\ main' # "done"
    BY <1>3, ServerAssumption DEF Accepted, sessionVars
  <2>2. Types'
    BY <1>0, <2>1 DEF Types
  <2>3. \A c \in Connections : \/ stage'[c] = stage[c]
                               \/ stage[c] = "none" /\ stage'[c] = "accepted"
    BY <1>0, <2>1
  <2>4. Ownership'
    BY <2>1, <2>3 DEF IInv, Ownership
  <2>5. \A c \in Connections : Matched(c)'
    BY <2>1 DEF IInv, Matched
  <2> QED BY <2>2, <2>4, <2>5 DEF IInv
<1> QED BY <1>1, <1>2, <1>3 DEF Main

(* The acceptor and the signal handler.                                    *)
LEMMA AcceptorStep ==
    ASSUME IInv, Connect \/ AcceptHandler \/ OnSignal \/ Signal
    PROVE  IInv'
<1>0. accept \in Connections => stage[accept] = "none"
  BY DEF IInv, Ownership
<1>1. UNCHANGED <<sessionVars, stage, map, main>>
  BY DEF Connect, AcceptHandler, OnSignal, Signal, OnSignalClose, OnSignalStop,
         mainVars, mapVars
<1>2. accept' \in Connections => stage[accept'] = "none"
  <2>1. CASE Connect
    <3>1. accept' \in Fresh \/ accept' = "failing"
      BY <2>1 DEF Connect
    <3> QED BY <3>1, ServerAssumption DEF Fresh
  <2>2. CASE AcceptHandler \/ OnSignal \/ Signal
    <3>1. accept' = accept \/ accept' \in {"exception", "failing"}
      BY <2>2 DEF AcceptHandler, OnAccept, OnSignal, Signal, OnSignalClose,
                  OnSignalStop, acceptVars
    <3> QED BY <1>0, <3>1, ServerAssumption
  <2> QED BY <2>1, <2>2
<1> QED BY <1>1, <1>2, SessionsUnchanged

---------------------------------------------------------------------------------
(* The continuations.                                                      *)

LEMMA ContinuationStep ==
    ASSUME IInv, NEW c \in Connections, Continuation(c)
    PROVE  IInv'
<1>0. Types /\ Ownership /\ Matched(c)
  BY DEF IInv
<1>1. CASE CreateFails(c) \/ (CreateThenEmplace(c) /\ Duplicate(c))
  <2>1. /\ UNCHANGED <<requests, received, replies, operation, completion, map, main, accept>>
        /\ stage[c] = "accepted" /\ stage' = [stage EXCEPT ![c] = "failed"]
    BY <1>1 DEF CreateFails, CreateThenEmplace, Become, sessionVars, mainVars, acceptVars
  <2>2. Types'
    BY <1>0, <2>1 DEF Types
  <2>3. stage'[c] = "failed" /\ \A d \in Connections \ {c} : stage'[d] = stage[d]
    BY <1>0, <2>1 DEF Types
  <2>4. Ownership'
    BY <1>0, <2>1, <2>3 DEF Ownership
  <2>5. \A d \in Connections : Matched(d)'
    BY <2>1 DEF IInv, Matched
  <2> QED BY <2>2, <2>4, <2>5 DEF IInv
<1>2. CASE CreateThenEmplace(c) /\ ~Duplicate(c)
  <2>1. /\ UNCHANGED <<requests, received, replies, completion, main, accept>>
        /\ stage[c] = "accepted" /\ stage' = [stage EXCEPT ![c] = "open"]
        /\ map' = map \cup {c}
        /\ operation' = [operation EXCEPT ![c] = "read"]
    BY <1>2 DEF CreateThenEmplace, Become, Session!ProcessRequests, Session!Start,
                mainVars, acceptVars
  <2>2. Types'
    BY <1>0, <2>1 DEF Types
  <2>3. /\ stage'[c] = "open" /\ operation'[c] = "read"
        /\ \A d \in Connections \ {c} : stage'[d] = stage[d] /\ operation'[d] = operation[d]
    BY <1>0, <2>1 DEF Types
  <2>4. received[c] = 0 /\ replies[c] = <<>> /\ completion[c] = "pending"
    BY <1>0, <2>1 DEF Ownership
  <2>5. Ownership'
    BY <1>0, <2>1, <2>3, <2>4 DEF Ownership
  <2>6. Matched(c)'
    BY <1>0, <2>1, <2>3, <2>4, EmptySeq DEF Matched
  <2>7. \A d \in Connections \ {c} : Matched(d)'
    BY <2>1, <2>3 DEF IInv, Matched
  <2> QED BY <2>2, <2>5, <2>6, <2>7 DEF IInv
<1>3. CASE Erase(c)
  <2>1. /\ UNCHANGED <<requests, received, replies, operation, completion, main, accept>>
        /\ stage[c] = "open" /\ completion[c] # "pending"
        /\ stage' = [stage EXCEPT ![c] = "erased"] /\ map' = map \ {c}
    BY <1>3 DEF Erase, Ended, Become, sessionVars, mainVars, acceptVars
  <2>2. Types'
    BY <1>0, <2>1 DEF Types
  <2>3. stage'[c] = "erased" /\ \A d \in Connections \ {c} : stage'[d] = stage[d]
    BY <1>0, <2>1 DEF Types
  <2>4. operation[c] = "none"
    BY <1>0, <2>1 DEF Ownership
  <2>5. Ownership'
    BY <1>0, <2>1, <2>3, <2>4 DEF Ownership
  <2>6. \A d \in Connections : Matched(d)'
    BY <2>1 DEF IInv, Matched
  <2> QED BY <2>2, <2>5, <2>6 DEF IInv
<1> QED BY <1>1, <1>2, <1>3 DEF Continuation

---------------------------------------------------------------------------------
(* The sessions.                                                           *)

(* What a step of session c may do to who owns what: it goes on with an    *)
(* operation, or it completes and has none.                                *)
LEMMA OwnershipKept ==
    ASSUME IInv, NEW c \in Connections, operation[c] # "none",
           UNCHANGED <<stage, map, main, accept>>,
           \A d \in Connections \ {c} :
              /\ operation'[d] = operation[d] /\ completion'[d] = completion[d]
              /\ received'[d] = received[d] /\ replies'[d] = replies[d],
           operation'[c] # "none" => completion'[c] = completion[c]
    PROVE  Ownership'
BY DEF IInv, Ownership

(* Close completes a session that has no operation left.                   *)
LEMMA CloseShape ==
    ASSUME Types, NEW c \in Connections, Session!Close(c)
    PROVE  /\ operation' \in [Connections -> {"none", "read", "ok", "bad_request"}]
           /\ completion' \in [Connections -> {"pending", "value", "exception"}]
           /\ operation'[c] = "none"
           /\ \A d \in Connections \ {c} : /\ operation'[d] = operation[d]
                                           /\ completion'[d] = completion[d]
BY DEF Types, Session!Close, Session!Start

LEMMA ReceiveStep ==
    ASSUME IInv, NEW c \in Connections, Session!OnRecvRequest(c),
           UNCHANGED <<stage, map, main, accept>>
    PROVE  IInv'
<1> DEFINE n == received[c]
<1> DEFINE request == requests[c][n + 1]
<1>0. /\ Types /\ Matched(c) /\ n \in Nat
      /\ Len(requests[c]) \in Nat /\ Len(replies[c]) \in Nat
  BY LenProperties DEF IInv, Types
<1>1. /\ operation[c] = "read" /\ n < Len(requests[c])
      /\ received' = [received EXCEPT ![c] = n + 1]
      /\ UNCHANGED <<requests, replies>>
      /\ IF request.keep
         THEN /\ Session!Start(c, IF request.exists THEN "ok" ELSE "bad_request")
              /\ UNCHANGED completion
         ELSE Session!Close(c)
  BY DEF Session!OnRecvRequest
<1>2. /\ received' \in [Connections -> Nat] /\ received'[c] = n + 1
      /\ \A d \in Connections \ {c} : received'[d] = received[d]
  BY <1>0, <1>1 DEF Types
<1>3. /\ n = Len(replies[c])
      /\ \A i \in 1..n : /\ requests[c][i].keep /\ replies[c][i] = Status(requests[c][i])
                         /\ replies[c][i] = "ok"
  BY <1>0, <1>1 DEF Matched
<1> HIDE DEF n
<1>4. CASE request.keep
  <2>1. operation' = [operation EXCEPT ![c] = Status(request)] /\ completion' = completion
    BY <1>1, <1>4 DEF Session!Start, Status
  <2>2. /\ operation' \in [Connections -> {"none", "read", "ok", "bad_request"}]
        /\ operation'[c] = Status(request) /\ Status(request) \in {"ok", "bad_request"}
        /\ \A d \in Connections \ {c} : operation'[d] = operation[d]
    BY <1>0, <2>1 DEF Types, Status
  <2>3. Types'
    BY <1>0, <1>1, <1>2, <2>1, <2>2 DEF IInv, Types
  <2>4. Ownership'
    BY <1>1, <1>2, <2>1, <2>2, OwnershipKept
  <2>5. Matched(c)'
    <3>1. n + 1 <= Len(requests[c]) /\ Len(replies[c]) <= n + 1
      BY <1>0, <1>1, <1>3
    <3> QED BY <1>0, <1>1, <1>2, <1>3, <1>4, <2>2, <3>1 DEF Matched
  <2>6. \A d \in Connections \ {c} : Matched(d)'
    BY <1>1, <1>2, <2>2 DEF IInv, Matched
  <2> QED BY <2>3, <2>4, <2>5, <2>6 DEF IInv
<1>5. CASE ~request.keep
  <2>1. Session!Close(c)
    BY <1>1, <1>5
  <2>2. Types'
    BY <1>0, <1>1, <1>2, <2>1, CloseShape DEF Types
  <2>3. Ownership'
    BY <1>0, <1>1, <1>2, <2>1, CloseShape, OwnershipKept
  <2>4. Matched(c)'
    <3>1. n + 1 <= Len(requests[c]) /\ Len(replies[c]) <= n + 1
      BY <1>0, <1>1, <1>3
    <3>2. operation'[c] = "none"
      BY <1>0, <2>1, CloseShape
    <3> QED BY <1>0, <1>1, <1>2, <1>3, <3>1, <3>2 DEF Matched
  <2>5. \A d \in Connections \ {c} : Matched(d)'
    BY <1>0, <1>1, <1>2, <2>1, CloseShape DEF IInv, Matched
  <2> QED BY <2>2, <2>3, <2>4, <2>5 DEF IInv
<1> QED BY <1>4, <1>5

LEMMA SendStep ==
    ASSUME IInv, NEW c \in Connections, Session!OnSendResponse(c),
           UNCHANGED <<stage, map, main, accept>>
    PROVE  IInv'
<1> DEFINE n == Len(replies[c])
<1>0. /\ Types /\ Matched(c) /\ received[c] \in Nat /\ n \in Nat
      /\ Len(requests[c]) \in Nat /\ replies[c] \in Seq({"ok", "bad_request"})
  BY LenProperties DEF IInv, Types
<1>1. /\ operation[c] \in {"ok", "bad_request"}
      /\ replies' = [replies EXCEPT ![c] = Append(@, operation[c])]
      /\ UNCHANGED <<requests, received>>
      /\ IF operation[c] = "bad_request"
         THEN Session!Close(c)
         ELSE Session!Start(c, "read") /\ UNCHANGED completion
  BY DEF Session!OnSendResponse, Session!NeedEof
<1>2. /\ replies' \in [Connections -> Seq({"ok", "bad_request"})]
      /\ Len(replies'[c]) = n + 1
      /\ \A i \in 1..n : replies'[c][i] = replies[c][i]
      /\ replies'[c][n + 1] = operation[c]
      /\ \A d \in Connections \ {c} : replies'[d] = replies[d]
  <2>1. replies'[c] = Append(replies[c], operation[c])
    BY <1>0, <1>1 DEF Types
  <2>2. /\ Append(replies[c], operation[c]) \in Seq({"ok", "bad_request"})
        /\ Len(Append(replies[c], operation[c])) = n + 1
        /\ \A i \in 1..n : Append(replies[c], operation[c])[i] = replies[c][i]
        /\ Append(replies[c], operation[c])[n + 1] = operation[c]
    BY <1>0, <1>1, AppendEntries
  <2> QED BY <1>0, <1>1, <2>1, <2>2 DEF Types
<1>3. /\ received[c] = n + 1 /\ n + 1 <= Len(requests[c])
      /\ requests[c][n + 1].keep /\ operation[c] = Status(requests[c][n + 1])
      /\ \A i \in 1..n : /\ requests[c][i].keep /\ replies[c][i] = Status(requests[c][i])
                         /\ replies[c][i] = "ok"
  BY <1>0, <1>1 DEF Matched
<1> HIDE DEF n
<1>4. \A i \in 1..(n + 1) : /\ requests[c][i].keep
                            /\ replies'[c][i] = Status(requests[c][i])
                            /\ i < n + 1 => replies'[c][i] = "ok"
  <2> SUFFICES ASSUME NEW i \in 1..(n + 1)
               PROVE  /\ requests[c][i].keep /\ replies'[c][i] = Status(requests[c][i])
                      /\ i < n + 1 => replies'[c][i] = "ok"
    OBVIOUS
  <2>1. i \in 1..n \/ i = n + 1
    BY <1>0
  <2> QED BY <1>0, <1>2, <1>3, <2>1
<1>5. CASE operation[c] = "bad_request"
  <2>1. Session!Close(c)
    BY <1>1, <1>5
  <2>2. Types'
    BY <1>0, <1>1, <1>2, <2>1, CloseShape DEF Types
  <2>3. Ownership'
    BY <1>0, <1>1, <1>2, <2>1, CloseShape, OwnershipKept
  <2>4. Matched(c)'
    <3>1. operation'[c] = "none"
      BY <1>0, <2>1, CloseShape
    <3> QED BY <1>0, <1>1, <1>2, <1>3, <1>4, <3>1 DEF Matched
  <2>5. \A d \in Connections \ {c} : Matched(d)'
    BY <1>0, <1>1, <1>2, <2>1, CloseShape DEF IInv, Matched
  <2> QED BY <2>2, <2>3, <2>4, <2>5 DEF IInv
<1>6. CASE operation[c] = "ok"
  <2>1. operation' = [operation EXCEPT ![c] = "read"] /\ completion' = completion
    BY <1>1, <1>6 DEF Session!Start
  <2>2. /\ operation' \in [Connections -> {"none", "read", "ok", "bad_request"}]
        /\ operation'[c] = "read"
        /\ \A d \in Connections \ {c} : operation'[d] = operation[d]
    BY <1>0, <2>1 DEF Types
  <2>3. Types'
    BY <1>0, <1>1, <1>2, <2>1, <2>2 DEF Types
  <2>4. Ownership'
    BY <1>1, <1>2, <2>1, <2>2, OwnershipKept
  <2>5. Matched(c)'
    <3>1. \A i \in 1..(n + 1) : replies'[c][i] = "ok"
      BY <1>0, <1>2, <1>4, <1>6
    <3> QED BY <1>0, <1>1, <1>2, <1>3, <1>4, <2>2, <3>1 DEF Matched
  <2>6. \A d \in Connections \ {c} : Matched(d)'
    BY <1>1, <1>2, <2>2 DEF IInv, Matched
  <2> QED BY <2>3, <2>4, <2>5, <2>6 DEF IInv
<1> QED BY <1>1, <1>5, <1>6

LEMMA ErrorStep ==
    ASSUME IInv, NEW c \in Connections, Session!OnError(c),
           UNCHANGED <<stage, map, main, accept>>
    PROVE  IInv'
<1>0. Types /\ Matched(c) /\ Session!Close(c) /\ operation[c] # "none"
      /\ UNCHANGED <<requests, received, replies>>
  BY DEF IInv, Session!OnError
<1>1. Types'
  BY <1>0, CloseShape DEF Types
<1>2. Ownership'
  BY <1>0, CloseShape, OwnershipKept
<1>3. operation'[c] = "none" /\ \A d \in Connections \ {c} : operation'[d] = operation[d]
  BY <1>0, CloseShape
<1>4. \A d \in Connections : Matched(d)'
  BY <1>0, <1>3 DEF IInv, Matched
<1> QED BY <1>1, <1>2, <1>4 DEF IInv

(* A client's request comes behind those that were read.                   *)
LEMMA ClientStep ==
    ASSUME IInv, NEW c \in Connections, ClientSends(c)
    PROVE  IInv'
<1>1. PICK r \in Requests : requests' = [requests EXCEPT ![c] = Append(@, r)]
  BY DEF ClientSends, Session!Send
<1>2. UNCHANGED <<received, replies, operation, completion, stage, map, main, accept>>
  BY DEF ClientSends, Session!Send, mainVars, acceptVars, mapVars
<1>0. Types /\ Ownership /\ Matched(c) /\ requests[c] \in Seq(Requests)
      /\ received[c] \in Nat /\ Len(requests[c]) \in Nat /\ Len(replies[c]) \in Nat
  BY LenProperties DEF IInv, Types
<1>3. /\ requests' \in [Connections -> Seq(Requests)]
      /\ Len(requests'[c]) = Len(requests[c]) + 1
      /\ \A i \in 1..Len(requests[c]) : requests'[c][i] = requests[c][i]
      /\ \A d \in Connections \ {c} : requests'[d] = requests[d]
  <2>1. requests'[c] = Append(requests[c], r)
    BY <1>0, <1>1 DEF Types
  <2>2. /\ Append(requests[c], r) \in Seq(Requests)
        /\ Len(Append(requests[c], r)) = Len(requests[c]) + 1
        /\ \A i \in 1..Len(requests[c]) : Append(requests[c], r)[i] = requests[c][i]
    BY <1>0, AppendEntries
  <2> QED BY <1>0, <1>1, <2>1, <2>2 DEF Types
<1>4. Types'
  BY <1>0, <1>2, <1>3 DEF Types
<1>5. Ownership'
  BY <1>0, <1>2 DEF Ownership
<1>6. Matched(c)'
  <2>1. \A i \in 1..received[c] : requests'[c][i] = requests[c][i]
    BY <1>0, <1>3 DEF Matched
  <2>2. 1..Len(replies[c]) \subseteq 1..received[c]
    BY <1>0 DEF Matched
  <2>3. operation[c] \in {"ok", "bad_request"} => received[c] \in 1..received[c]
    BY <1>0 DEF Matched
  <2>4. received[c] <= Len(requests'[c])
    BY <1>0, <1>3 DEF Matched
  <2> QED BY <1>0, <1>2, <2>1, <2>2, <2>3, <2>4 DEF Matched
<1>7. \A d \in Connections \ {c} : Matched(d)'
  BY <1>2, <1>3 DEF IInv, Matched
<1> QED BY <1>4, <1>5, <1>6, <1>7 DEF IInv

---------------------------------------------------------------------------------
(* The inductive invariant, for any step.                                  *)
LEMMA NextIInv == IInv /\ [Next]_vars => IInv'
<1> SUFFICES ASSUME IInv, [Next]_vars PROVE IInv'
  OBVIOUS
<1>1. CASE Main
  BY <1>1, MainStep
<1>2. CASE Connect \/ AcceptHandler \/ OnSignal \/ Signal
  BY <1>2, AcceptorStep
<1>3. ASSUME NEW c \in Connections, Continuation(c) PROVE IInv'
  BY <1>3, ContinuationStep
<1>4. ASSUME NEW c \in Connections, SessionHandler(c) PROVE IInv'
  <2>1. Session!Handler(c) /\ UNCHANGED <<stage, map, main, accept>>
    BY <1>4 DEF SessionHandler, mainVars, acceptVars, mapVars
  <2> QED BY <2>1, ReceiveStep, SendStep, ErrorStep DEF Session!Handler
<1>5. ASSUME NEW c \in Connections, ClientSends(c) PROVE IInv'
  BY <1>5, ClientStep
<1>6. CASE UNCHANGED vars
  <2>1. UNCHANGED <<sessionVars, stage, map, main, accept>>
    BY <1>6 DEF vars, mapVars, mainVars, acceptVars
  <2> QED BY <2>1, SessionsUnchanged DEF IInv, Ownership
<1> QED BY <1>1, <1>2, <1>3, <1>4, <1>5, <1>6 DEF Next

(* The inductive invariant holds of every behaviour of the server.         *)
THEOREM Invariance == Spec => []IInv
BY InitIInv, NextIInv, PTL DEF Spec

(* A handler that runs on an io thread with the bare session it captured   *)
(* finds that session in the map (server.hpp:96-107), and the server       *)
(* returns with an empty map.                                              *)
THEOREM SessionsOutlive == Spec => []SessionOutlivesHandlers
<1>1. IInv => SessionOutlivesHandlers
  BY DEF IInv, Ownership, SessionOutlivesHandlers
<1> QED BY <1>1, Invariance, PTL

(* Responses come in the order of the requests, with the right status, and *)
(* none after one that ends the session (session.server.cpp:53-93).        *)
THEOREM ResponsesMatch == Spec => []AnsweredInOrder
<1>1. IInv => AnsweredInOrder
  BY DEF IInv, Matched, Status, AnsweredInOrder, Session!AnsweredInOrder
<1> QED BY <1>1, Invariance, PTL

---------------------------------------------------------------------------------
(* The configuration, and what follows from it.                            *)

(* The program has not come to its loop, and may never do so.              *)
Starting == main \in {"options", "exited", "construct", "quit"}

(* What the other variables hold; nothing is served before the loop.       *)
StateInv ==
    /\ main \in {"options", "exited", "construct", "quit",
                 "loop", "wait", "collect", "done"}
    /\ accept \in {"none", "pending", "failing", "exception"} \cup Connections
    /\ signal \in {"none", "post", "close", "stop"}
    /\ threads \in 0..Threads
    /\ schedule \in BOOLEAN
    /\ Starting =>
          accept = "none" /\ ~schedule /\ \A c \in Connections : stage[c] = "none"

(* Where config.json is looked for, and where it was found.                *)
ConfigInv ==
    /\ launch \in Arguments /\ enabled \in BOOLEAN
    /\ enabled => launch.limit
    /\ main = "options" => paths = WorksetPaths
    /\ main = "construct" =>
          paths = IF Config!IsDirectory(launch.config)
                  THEN Append(WorksetPaths, launch.config) ELSE WorksetPaths
    /\ main \in {"options", "exited", "construct"} => located = "none"
    /\ main \notin {"options", "exited", "construct"} =>
          /\ located # "none"
          /\ IF Config!IsDirectory(launch.config)
             THEN located = launch.config
             ELSE located \in {WorksetPaths[i] : i \in 1..Len(WorksetPaths)}

(* The schedule worker is there for no other reason than the limit, and as *)
(* long as there are sessions.                                             *)
ScheduleInv ==
    /\ schedule => ~Starting /\ Limit = "true"
    /\ Limit = "true" /\ map # {} => schedule

SetupInv == StateInv /\ ConfigInv /\ ScheduleInv

(* The directory that is found is the last there is.                       *)
LEMMA ConfigPathFound ==
    ASSUME ConfigInv, main = "construct"
    PROVE  /\ Config!ConfigPath # "none"
           /\ IF Config!IsDirectory(launch.config)
              THEN Config!ConfigPath = launch.config
              ELSE Config!ConfigPath \in {WorksetPaths[i] : i \in 1..Len(WorksetPaths)}
<1> DEFINE n == Len(paths)
<1> DEFINE I == {i \in 1..n : Config!IsDirectory(paths[i])}
<1> DEFINE last == CHOOSE i \in 1..Len(paths) :
                      /\ Config!IsDirectory(paths[i])
                      /\ \A j \in (i + 1)..Len(paths) : ~Config!IsDirectory(paths[j])
<1> DEFINE w == Len(WorksetPaths)
<1>1. /\ WorksetPaths \in Seq(STRING) /\ launch.config \in STRING /\ w \in Nat
      /\ \E i \in 1..w : Config!IsDirectory(WorksetPaths[i])
  BY PartsAssumption, LenProperties DEF Config!ConfigAssumption, Config!IsDirectory, ConfigInv
<1>2. /\ paths \in Seq(STRING) /\ n \in Nat /\ I # {}
      /\ Config!IsDirectory(launch.config) =>
            n = w + 1 /\ paths[n] = launch.config
      /\ ~Config!IsDirectory(launch.config) => paths = WorksetPaths
  <2>1. CASE Config!IsDirectory(launch.config)
    <3>1. paths = Append(WorksetPaths, launch.config)
      BY <2>1 DEF ConfigInv
    <3>2. paths \in Seq(STRING) /\ n = w + 1 /\ paths[w + 1] = launch.config
      BY <1>1, <3>1, AppendEntries
    <3>3. n \in I
      BY <1>1, <2>1, <3>2
    <3> QED BY <1>1, <2>1, <3>2, <3>3
  <2>2. CASE ~Config!IsDirectory(launch.config)
    BY <1>1, <2>2 DEF ConfigInv
  <2> QED BY <2>1, <2>2
<1>3. Config!ConfigPath = paths[last]
  BY DEF Config!ConfigPath, ConfigInv
<1>4. /\ last \in 1..n /\ Config!IsDirectory(paths[last])
      /\ \A j \in (last + 1)..n : ~Config!IsDirectory(paths[j])
  <2>1. I \in SUBSET (1..n)
    OBVIOUS
  <2> HIDE DEF n
  <2>2. PICK i \in I : \A j \in I : j <= i
    <3> HIDE DEF I
    <3> QED BY <1>2, <2>1, LastPlace
  <2>3. \A j \in (i + 1)..n : j \notin I
    BY <1>2, <2>2
  <2>4. \A j \in (i + 1)..n : j \in 1..n
    BY <1>2, <2>2
  <2>5. /\ i \in 1..n /\ Config!IsDirectory(paths[i])
        /\ \A j \in (i + 1)..n : ~Config!IsDirectory(paths[j])
    BY <2>2, <2>3, <2>4
  <2> QED BY <2>5 DEF n
<1> HIDE DEF last, n, w, I
<1>5. Config!IsDirectory(launch.config) => last = n
  BY <1>1, <1>2, <1>4
<1>6. paths[last] # "none"
  BY <1>4, PartsAssumption DEF Config!IsDirectory, Config!ConfigAssumption
<1>7. CASE Config!IsDirectory(launch.config)
  BY <1>2, <1>3, <1>5, <1>6, <1>7
<1>8. CASE ~Config!IsDirectory(launch.config)
  BY <1>2, <1>3, <1>4, <1>6, <1>8 DEF n
<1> QED BY <1>7, <1>8

LEMMA InitSetup == Init => SetupInv
<1> SUFFICES ASSUME Init PROVE SetupInv
  OBVIOUS
<1> USE DEF Init, Config!Init
<1>1. StateInv
  <2>1. 0 \in 0..Threads
    BY ServerAssumption
  <2>2. \A c \in Connections : stage[c] = "none"
    OBVIOUS
  <2> QED BY <2>1, <2>2 DEF StateInv, Starting
<1>2. ConfigInv
  BY DEF ConfigInv
<1>3. ScheduleInv
  BY DEF ScheduleInv
<1> QED BY <1>1, <1>2, <1>3 DEF SetupInv

(* The limit depends on the configuration alone.                           *)
LEMMA LimitKept ==
    ASSUME UNCHANGED <<paths, located, enabled>>
    PROVE  Limit' = Limit
BY DEF Limit, Config!LoadElement, Config!ConfigEntry, Config!ConfigPath, Config!IsDirectory

(* No step after the start touches the configuration.                      *)
LEMMA ConfigKept ==
    ASSUME ConfigInv, UNCHANGED configVars,
           main' = main \/ {main, main'} \subseteq {"quit", "loop", "wait", "collect", "done"}
    PROVE  ConfigInv'
BY DEF ConfigInv, configVars, Config!IsDirectory

(* The options are read, and the configuration is looked for.              *)
LEMMA StartStep ==
    ASSUME IInv, SetupInv, ParseOptions \/ Construct
    PROVE  SetupInv'
<1>0. Starting /\ map = {} /\ StateInv /\ ConfigInv /\ ~schedule
  BY DEF ParseOptions, Construct, Starting, SetupInv, StateInv, IInv, Ownership
<1>1. CASE ParseOptions
  <2>1. /\ main = "options" /\ main' = IF launch.help THEN "exited" ELSE "construct"
        /\ paths' = IF launch.config = "none" THEN paths
                    ELSE Config!AddConfigPath(launch.config)
        /\ enabled' = (launch.limit /\ ~launch.help)
        /\ UNCHANGED <<launch, located, accept, threads, signal, schedule, stage, map>>
    BY <1>1 DEF ParseOptions, Config!ParseOptions, acceptVars, mapVars
  <2>2. launch.limit \in BOOLEAN /\ launch.help \in BOOLEAN
    BY <1>0, PartsAssumption DEF ConfigInv, Config!ConfigAssumption
  <2>3. StateInv' /\ ScheduleInv'
    BY <1>0, <2>1 DEF StateInv, Starting, ScheduleInv
  <2>4. paths' = IF Config!IsDirectory(launch.config)
                 THEN Append(WorksetPaths, launch.config) ELSE WorksetPaths
    BY <1>0, <2>1, PartsAssumption
       DEF ConfigInv, Config!AddConfigPath, Config!IsDirectory, Config!ConfigAssumption
  <2>5. ConfigInv'
    BY <1>0, <2>1, <2>2, <2>4 DEF ConfigInv, Config!IsDirectory
  <2> QED BY <2>3, <2>5 DEF SetupInv
<1>2. CASE Construct
  <2>1. /\ main = "construct" /\ main' \in {"loop", "quit"}
        /\ located' = Config!ConfigPath /\ threads' \in {Threads, threads}
        /\ UNCHANGED <<launch, paths, enabled, accept, signal, schedule, stage, map>>
    BY <1>2 DEF Construct, Config!Locate, MakePool, mapVars
  <2>2. StateInv' /\ ScheduleInv'
    BY <1>0, <2>1, ServerAssumption DEF StateInv, Starting, ScheduleInv
  <2>3. ConfigInv'
    BY <1>0, <2>1, ConfigPathFound DEF ConfigInv, Config!IsDirectory
  <2> QED BY <2>2, <2>3 DEF SetupInv
<1> QED BY <1>1, <1>2

(* Steps that leave the map and the schedule worker alone.                 *)
LEMMA ServingStep ==
    ASSUME SetupInv, StateInv', UNCHANGED <<map, schedule, configVars>>,
           main' = main \/ {main, main'} \subseteq {"loop", "wait", "collect", "done"}
    PROVE  SetupInv'
<1>1. ConfigInv'
  BY ConfigKept DEF SetupInv
<1>2. Limit' = Limit
  BY LimitKept DEF configVars
<1>3. ScheduleInv'
  BY <1>2 DEF SetupInv, ScheduleInv, Starting
<1> QED BY <1>1, <1>3 DEF SetupInv

(* The main thread in its loop, and after it.                              *)
LEMMA LoopStep ==
    ASSUME SetupInv, AcceptSocket \/ Accepted \/ LeaveLoop \/ Collect
    PROVE  SetupInv'
<1>1. /\ UNCHANGED <<map, schedule, configVars, signal, threads>>
      /\ main \in {"loop", "wait", "collect"} /\ main' \in {"loop", "wait", "collect", "done"}
      /\ accept' \in {"none", "pending", "failing", "exception"} \cup Connections
  BY DEF AcceptSocket, Accepted, LeaveLoop, Collect, mapVars, acceptVars, SetupInv, StateInv
<1>2. StateInv'
  BY <1>1 DEF SetupInv, StateInv, Starting
<1>3. {main, main'} \subseteq {"loop", "wait", "collect", "done"}
  BY <1>1
<1> QED BY <1>1, <1>2, <1>3, ServingStep

(* The acceptor and the signal handler.                                    *)
LEMMA IoStep ==
    ASSUME IInv, SetupInv,
           Connect \/ AcceptHandler \/ OnSignal \/ Signal
    PROVE  SetupInv'
<1>1. UNCHANGED <<map, schedule, configVars, main, stage>>
  BY DEF Connect, AcceptHandler, OnSignal, Signal, OnSignalClose, OnSignalStop,
         mainVars, mapVars
<1>2. /\ accept' \in {"none", "pending", "failing", "exception"} \cup Connections
      /\ accept' # accept => accept # "none"
  <2>1. Fresh # {} => (CHOOSE d \in Fresh : TRUE) \in Connections
    BY DEF Fresh
  <2> QED BY <2>1, ServerAssumption
          DEF Connect, AcceptHandler, OnAccept, OnSignal, Signal, OnSignalClose,
              OnSignalStop, acceptVars, SetupInv, StateInv
<1>3. threads' \in 0..Threads
  <2>1. threads' = threads \/ (IoThread /\ threads' = threads - 1)
    BY DEF Connect, AcceptHandler, OnAccept, OnSignal, Signal, OnSignalClose, OnSignalStop
  <2> QED BY <2>1, ServerAssumption DEF SetupInv, StateInv, IoThread
<1>4. signal' \in {"none", "post", "close", "stop"}
  BY DEF Connect, AcceptHandler, OnSignal, Signal, OnSignalClose, OnSignalStop, SetupInv,
         StateInv
<1>5. StateInv'
  BY <1>1, <1>2, <1>3, <1>4 DEF SetupInv, StateInv, Starting
<1> QED BY <1>1, <1>5, ServingStep

(* The schedule worker is made for the first session, and joined after     *)
(* the last.                                                               *)
LEMMA ScheduleStep ==
    ASSUME IInv, SetupInv, NEW c \in Connections, Continuation(c)
    PROVE  SetupInv'
<1>0. /\ StateInv /\ ConfigInv /\ ScheduleInv
      /\ stage[c] # "none" /\ UNCHANGED <<configVars, main, accept, signal, threads>>
  BY DEF SetupInv, Continuation, CreateFails, CreateThenEmplace, Erase, mainVars, acceptVars
<1>1. ~Starting
  BY <1>0 DEF StateInv
<1>2. ConfigInv' /\ Limit' = Limit
  BY <1>0, ConfigKept, LimitKept DEF configVars
<1>3. \/ /\ map' = map /\ schedule' \in {schedule, EnsureSchedule}
      \/ /\ map' = map \cup {c} /\ schedule' = EnsureSchedule
      \/ /\ map' = map \ {c} /\ schedule' = (schedule /\ map' # {})
  BY DEF Continuation, CreateFails, CreateThenEmplace, Erase
<1>4. StateInv'
  BY <1>0, <1>1, <1>3 DEF StateInv, Starting, EnsureSchedule
<1>5. ScheduleInv'
  BY <1>0, <1>1, <1>2, <1>3 DEF ScheduleInv, StateInv, Starting, EnsureSchedule
<1> QED BY <1>2, <1>4, <1>5 DEF SetupInv

LEMMA NextSetup == IInv /\ SetupInv /\ [Next]_vars => SetupInv'
<1> SUFFICES ASSUME IInv, SetupInv, [Next]_vars PROVE SetupInv'
  OBVIOUS
<1>1. CASE Main
  BY <1>1, StartStep, LoopStep DEF Main
<1>2. CASE Connect \/ AcceptHandler \/ OnSignal \/ Signal
  BY <1>2, IoStep
<1>3. ASSUME NEW c \in Connections, Continuation(c) PROVE SetupInv'
  BY <1>3, ScheduleStep
<1>4. ASSUME NEW c \in Connections, SessionHandler(c) \/ ClientSends(c) PROVE SetupInv'
  <2>1. UNCHANGED <<main, accept, signal, threads, stage, map, schedule, configVars>>
    BY <1>4 DEF SessionHandler, ClientSends, mainVars, acceptVars, mapVars
  <2>2. StateInv'
    BY <2>1 DEF SetupInv, StateInv, Starting
  <2> QED BY <2>1, <2>2, ServingStep
<1>5. CASE UNCHANGED vars
  <2>1. UNCHANGED <<main, accept, signal, threads, stage, map, schedule, configVars>>
    BY <1>5 DEF vars, mainVars, acceptVars, mapVars
  <2>2. StateInv'
    BY <2>1 DEF SetupInv, StateInv, Starting
  <2> QED BY <2>1, <2>2, ServingStep
<1> QED BY <1>1, <1>2, <1>3, <1>4, <1>5 DEF Next

(* What was set up holds of every behaviour of the server.                 *)
THEOREM SetupInvariance == Spec => []SetupInv
BY InitSetup, NextSetup, Invariance, PTL DEF Spec

(* Every variable of the server keeps its type, a session reads no more    *)
(* than was sent, and the schedule worker is there while a limited server  *)
(* has sessions (server.hpp:74-79, 107).                                   *)
THEOREM TypeCorrect == Spec => []TypeOK
<1>1. IInv /\ SetupInv => TypeOK
  BY DEF IInv, Types, Matched, SetupInv, StateInv, ScheduleInv, TypeOK, Session!TypeOK
<1> QED BY <1>1, Invariance, SetupInvariance, PTL

(* The document read is that of the directory asked for, whatever other    *)
(* directories there are, and the bandwidth is limited only if the option  *)
(* and this document ask for it (net.cpp:19-41, app.cpp:35).               *)
THEOREM ConfigurationAsAsked == Spec => []ConfiguredAsAsked
<1>1. SetupInv => ConfiguredAsAsked
  <2> SUFFICES ASSUME SetupInv PROVE Config!AsAsked(schedule)
    BY DEF ConfiguredAsAsked
  <2>1. ConfigInv /\ ScheduleInv
    BY DEF SetupInv
  <2>2. ASSUME located # "none"
        PROVE  /\ Config!IsDirectory(launch.config) => located = launch.config
               /\ ~Config!IsDirectory(launch.config) => located \in Config!ToSet(WorksetPaths)
    <3>1. Config!ToSet(WorksetPaths) = {WorksetPaths[i] : i \in 1..Len(WorksetPaths)}
      BY PartsAssumption, LenProperties DEF Config!ToSet, Config!ConfigAssumption
    <3> QED BY <2>1, <2>2, <3>1 DEF ConfigInv
  <2>3. ASSUME schedule PROVE launch.limit /\ Documents[located].fluctuate = "true"
    <3>1. Limit = "true" /\ located # "none"
      BY <2>1, <2>3 DEF ScheduleInv, ConfigInv, Starting
    <3>2. enabled /\ Documents[located].fluctuate = "true"
      BY <3>1 DEF Limit, Config!LoadElement, Config!ConfigEntry, Config!ConfigPath
    <3> QED BY <2>1, <3>2 DEF ConfigInv
  <2> QED BY <2>2, <2>3 DEF Config!AsAsked
<1> QED BY <1>1, SetupInvariance, PTL
=================================================================================
