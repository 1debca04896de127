------------------------------ MODULE ServerSession ------------------------------
(***************************************************************************)
(* The sessions of the HTTP file server (src/network/session.server.cpp):  *)
(* each reads a request, writes the response, and reads again, with one    *)
(* asynchronous operation at a time whose handler runs on any io thread    *)
(* and captures the bare session.  The first error, or a message that ends *)
(* the connection, closes the socket and completes the session.            *)
(***************************************************************************)
EXTENDS Naturals, Sequences, FiniteSetsExt

CONSTANTS Connections,  \* accepted connections
          Requests,     \* requests a client makes, records as below
          MaxRequests   \* bound: requests of all connections

(* keep: the request keeps the connection alive; exists: its target does.  *)
SessionAssumption ==
    /\ Requests \subseteq [keep : BOOLEAN, exists : BOOLEAN]
    /\ MaxRequests \in Nat

VARIABLES
    requests,    \* what the client of a connection has sent
    received,    \* how many of these the session has read
    replies,     \* the status of each response written
    operation,   \* the session's asynchronous operation
    completion   \* completion_

vars == <<requests, received, replies, operation, completion>>

Init ==
    /\ requests = [c \in Connections |-> <<>>]
    /\ received = [c \in Connections |-> 0]
    /\ replies = [c \in Connections |-> <<>>]
    /\ operation = [c \in Connections |-> "none"]
    /\ completion = [c \in Connections |-> "pending"]

(* The client sends a request, without waiting for responses.              *)
Send(c) ==
    /\ MapThenSumSet(LAMBDA d : Len(requests[d]), Connections) < MaxRequests
    /\ \E r \in Requests : requests' = [requests EXCEPT ![c] = Append(@, r)]
    /\ UNCHANGED <<received, replies, operation, completion>>

Start(c, op) == operation' = [operation EXCEPT ![c] = op]

(* process_requests: the first receive_request.                            *)
ProcessRequests(c) ==
    /\ Start(c, "read")
    /\ UNCHANGED <<requests, received, replies, completion>>

(* A plausible slip: no return after the completion.                       *)
MutantClose(c) ==
    /\ completion' \in {[completion EXCEPT ![c] = "value"],
                        [completion EXCEPT ![c] = "exception"]}
    /\ Start(c, "read")

(* close_socket_then_complete: if the shutdown throws (the peer is gone),  *)
(* the exception is the completion.                                        *)
Close(c) ==
    /\ completion' \in {[completion EXCEPT ![c] = "value"],
                        [completion EXCEPT ![c] = "exception"]}
    /\ Start(c, "none")

(* on_recv_request with a request: one that wants the connection to end is *)
(* not answered.                                                           *)
OnRecvRequest(c) ==
    /\ operation[c] = "read"
    /\ received[c] < Len(requests[c])
    /\ received' = [received EXCEPT ![c] = @ + 1]
    /\ LET request == requests[c][received[c] + 1]
       IN  IF request.keep
           THEN /\ Start(c, IF request.exists THEN "ok" ELSE "bad_request")
                /\ UNCHANGED completion
           ELSE Close(c)
    /\ UNCHANGED <<requests, replies>>

(* A plausible slip: need_eof() is not asked for.                          *)
MutantNeedEof(response) == FALSE

(* response->need_eof(): the empty response has no length.                 *)
NeedEof(response) == response = "bad_request"

(* on_send_response.                                                       *)
OnSendResponse(c) ==
    /\ operation[c] \in {"ok", "bad_request"}
    /\ replies' = [replies EXCEPT ![c] = Append(@, operation[c])]
    /\ IF NeedEof(operation[c])
       THEN Close(c)
       ELSE Start(c, "read") /\ UNCHANGED completion
    /\ UNCHANGED <<requests, received>>

(* Either handler with an error: the peer is gone or has sent nonsense.    *)
OnError(c) ==
    /\ operation[c] # "none"
    /\ Close(c)
    /\ UNCHANGED <<requests, received, replies>>

Handler(c) == OnRecvRequest(c) \/ OnSendResponse(c) \/ OnError(c)

---------------------------------------------------------------------------------
(* The types; a session reads no more than was sent.                       *)
TypeOK ==
    /\ requests \in [Connections -> Seq(Requests)]
    /\ received \in [Connections -> Nat]
    /\ \A c \in Connections : received[c] <= Len(requests[c])
    /\ replies \in [Connections -> Seq({"ok", "bad_request"})]
    /\ operation \in [Connections -> {"none", "read", "ok", "bad_request"}]
    /\ completion \in [Connections -> {"pending", "value", "exception"}]

(* Responses come in the order of the requests, each with the status its   *)
(* target deserves; nothing is answered after a request that ends the      *)
(* connection or has no target, and a session has not completed unless the *)
(* code or its peer ended it.                                              *)
AnsweredInOrder ==
    \A c \in Connections : \A i \in 1..Len(replies[c]) :
        /\ requests[c][i].keep
        /\ replies[c][i] = IF requests[c][i].exists THEN "ok" ELSE "bad_request"
        /\ i < Len(replies[c]) \/ received[c] > i => replies[c][i] = "ok"
==================================================================================
