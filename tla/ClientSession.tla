------------------------------ MODULE ClientSession ------------------------------
(***************************************************************************)
(* The HTTP client sessions of the network library (src/network/           *)
(* session.client.cpp, session.client.h, session.base.h) on the threads of *)
(* their io_context (src/network/net.cpp), used by the tile streamers of   *)
(* src/network/dash.manager.cpp.                                           *)
(*                                                                         *)
(* A session has one connection and a strand: its handlers run one at a    *)
(* time, on any io thread that is left.  Callers post their requests to    *)
(* the strand; the session writes the front request, reads its response,   *)
(* and only then goes on to the next.  The server answers a connection's   *)
(* requests one by one; it may shut the connection down, or the connection *)
(* may be reset at any time.                                               *)
(***************************************************************************)
EXTENDS Naturals, Sequences

CONSTANTS
    Sessions,    \* client sessions that share the io_context
    Threads,     \* configs().concurrency.network, threads of the io_context
    MaxRequests  \* bound: requests sent by one session

ASSUME SessionAssumption ==
    /\ Threads \in Nat \ {0}
    /\ MaxRequests \in Nat

Requests == 1..MaxRequests   \* 1 is a tile's initial segment

VARIABLES
    posted,      \* requests posted to the strand and not run yet
    requestList, \* request_list_
    active,      \* active_
    writing,     \* requests handed to async_write, in flight
    reading,     \* how many async_read operations are in flight
    promise,     \* the promise of each request
    answer,      \* history: the request that a promise's response answered
    toServer,    \* requests on their way to the server
    toClient,    \* responses on their way back
    conn,        \* the connection: open, shut down by the server, reset
    threads      \* io threads that still run the io_context

listVars == <<posted, requestList, active, writing, reading>>
vars == <<posted, requestList, active, writing, reading, promise, answer,
          toServer, toClient, conn, threads>>

Init ==
    /\ posted = [s \in Sessions |-> <<>>]
    /\ requestList = [s \in Sessions |-> <<>>]
    /\ active = [s \in Sessions |-> TRUE]
    /\ writing = [s \in Sessions |-> <<>>]
    /\ reading = [s \in Sessions |-> 0]
    /\ promise = [s \in Sessions |-> [r \in Requests |-> "unsent"]]
    /\ answer = [s \in Sessions |-> [r \in Requests |-> 0]]
    /\ toServer = [s \in Sessions |-> <<>>]
    /\ toClient = [s \in Sessions |-> <<>>]
    /\ conn = [s \in Sessions |-> "open"]
    /\ threads = Threads

Settle(s, r, outcome) == promise' = [promise EXCEPT ![s][r] = outcome]

---------------------------------------------------------------------------------
(* A plausible slip: the streamer asks ahead without waiting.              *)
MutantSendRequest(s) ==
    \E r \in Requests :
        /\ promise[s][r] = "unsent"
        /\ \A q \in 1..(r - 1) : promise[s][q] # "unsent"
        /\ Settle(s, r, "pending")
        /\ posted' = [posted EXCEPT ![s] = Append(@, r)]
        /\ UNCHANGED <<requestList, active, writing, reading, answer, toServer,
                       toClient, conn, threads>>

(* The callers: tile_streamer sends the initial segment's request and the  *)
(* first tile request back to back, every other one when the stream thread *)
(* has been given the response before it.                                  *)
SendRequest(s) ==
    \E r \in Requests :
        /\ promise[s][r] = "unsent"
        /\ \A q \in 1..(r - 1) : IF r = 2 THEN promise[s][q] # "unsent"
                                           ELSE promise[s][q] = "value"
        /\ Settle(s, r, "pending")
        /\ posted' = [posted EXCEPT ![s] = Append(@, r)]
        /\ UNCHANGED <<requestList, active, writing, reading, answer, toServer,
                       toClient, conn, threads>>

---------------------------------------------------------------------------------
(* The strand of a session: every handler is one step of some io thread.   *)

(* send_front_request: async_write of the front of the list.               *)
SendFront(s, list) == writing' = [writing EXCEPT ![s] = Append(@, Head(list))]

(* A plausible slip: every request is written as soon as it is in the list.*)
MutantStarts(list) == TRUE

(* A request that finds the list empty has to start the writing.           *)
Starts(list) == Len(list) = 1

(* The lambda that send_request posts.                                     *)
RunPosted(s) ==
    /\ threads > 0
    /\ posted[s] # <<>>
    /\ posted' = [posted EXCEPT ![s] = Tail(@)]
    /\ LET r == Head(posted[s])
           list == Append(requestList[s], r)
       IN  IF active[s]
           THEN /\ requestList' = [requestList EXCEPT ![s] = list]
                /\ IF Starts(list) THEN SendFront(s, list)
                                   ELSE UNCHANGED writing
                /\ UNCHANGED promise
           ELSE /\ Settle(s, r, "session_closed")
                /\ UNCHANGED <<requestList, writing>>
    /\ UNCHANGED <<active, reading, answer, toServer, toClient, conn, threads>>

(* Every request in the list fails; the list is cleared.                   *)
FailList(s, error) ==
    /\ promise' = [promise EXCEPT ![s] = [r \in Requests |->
          IF \E i \in 1..Len(requestList[s]) : requestList[s][i] = r
          THEN error ELSE @[r]]]
    /\ requestList' = [requestList EXCEPT ![s] = <<>>]

(* close_socket: shutting a socket down whose connection was reset throws  *)
(* on some platforms and not on others.                                    *)
CloseSocketThrows(s) == IF conn[s] = "reset" THEN BOOLEAN ELSE {FALSE}

(* An exception leaves a handler and io_context::run: the thread logs it   *)
(* and ends.                                                               *)
ThreadEnds == threads' = threads - 1

(* fail_request_then_close.  If close_socket throws, the last statement is *)
(* not reached and the session stays active.                               *)
FailThenClose(s, error) ==
    /\ FailList(s, error)
    /\ \E throws \in CloseSocketThrows(s) :
          IF throws
          THEN ThreadEnds /\ UNCHANGED active
          ELSE active' = [active EXCEPT ![s] = FALSE] /\ UNCHANGED threads
    /\ UNCHANGED <<posted, answer, toServer, conn>>

(* on_send_request: the request is out, start to read its response.        *)
WriteDone(s) ==
    /\ threads > 0
    /\ writing[s] # <<>> /\ conn[s] # "reset"
    /\ toServer' = [toServer EXCEPT ![s] = Append(@, Head(writing[s]))]
    /\ writing' = [writing EXCEPT ![s] = Tail(@)]
    /\ reading' = [reading EXCEPT ![s] = @ + 1]
    /\ UNCHANGED <<posted, requestList, active, promise, answer, toClient,
                   conn, threads>>

(* on_send_request with an error code.                                     *)
WriteFailed(s) ==
    /\ threads > 0
    /\ writing[s] # <<>> /\ conn[s] = "reset"
    /\ writing' = [writing EXCEPT ![s] = Tail(@)]
    /\ FailThenClose(s, "bad_request")
    /\ UNCHANGED <<reading, toClient>>

(* A plausible slip: the next request waits for the next send_request.     *)
MutantContinue(s, rest) == UNCHANGED writing

(* The next request in the list is written.                                *)
Continue(s, rest) == IF rest # <<>> THEN SendFront(s, rest)
                                    ELSE UNCHANGED writing

(* A plausible slip: request_list_.back() in the place of front().         *)
MutantAwaiting(s) == requestList[s][Len(requestList[s])]

(* The request whose response is being read.                               *)
Awaiting(s) == Head(requestList[s])

(* on_recv_response with status 200.                                       *)
ReadValue(s) ==
    /\ threads > 0
    /\ reading[s] > 0 /\ toClient[s] # <<>> /\ Head(toClient[s]).ok
    /\ reading' = [reading EXCEPT ![s] = @ - 1]
    /\ toClient' = [toClient EXCEPT ![s] = Tail(@)]
    /\ Settle(s, Awaiting(s), "value")
    /\ answer' = [answer EXCEPT ![s][Awaiting(s)] = Head(toClient[s]).req]
    /\ requestList' = [requestList EXCEPT ![s] = Tail(@)]
    /\ Continue(s, Tail(requestList[s]))
    /\ UNCHANGED <<posted, active, toServer, conn, threads>>

(* on_recv_response with any other status.                                 *)
ReadBad(s) ==
    /\ threads > 0
    /\ reading[s] > 0 /\ toClient[s] # <<>> /\ ~Head(toClient[s]).ok
    /\ reading' = [reading EXCEPT ![s] = @ - 1]
    /\ toClient' = [toClient EXCEPT ![s] = Tail(@)]
    /\ FailThenClose(s, "bad_response")
    /\ UNCHANGED writing

(* on_recv_response with an error code: no response will come any more.    *)
ReadFailed(s) ==
    /\ threads > 0
    /\ reading[s] > 0 /\ toClient[s] = <<>> /\ conn[s] # "open"
    /\ reading' = [reading EXCEPT ![s] = @ - 1]
    /\ FailThenClose(s, "bad_response")
    /\ UNCHANGED <<writing, toClient>>

Strand(s) == \/ RunPosted(s) \/ WriteDone(s) \/ WriteFailed(s)
             \/ ReadValue(s) \/ ReadBad(s) \/ ReadFailed(s)

---------------------------------------------------------------------------------
(* The server and the connection.                                          *)

(* The server session answers its next request: with the file, or with     *)
(* status 400 and an empty body that only the end of the stream delimits,  *)
(* after which it shuts its side of the connection down.                   *)
Respond(s) ==
    /\ conn[s] = "open"
    /\ toServer[s] # <<>>
    /\ toServer' = [toServer EXCEPT ![s] = Tail(@)]
    /\ \E ok \in BOOLEAN :
          /\ toClient' = [toClient EXCEPT ![s] =
                             Append(@, [req |-> Head(toServer[s]), ok |-> ok])]
          /\ conn' = [conn EXCEPT ![s] = IF ok THEN "open" ELSE "eof"]
    /\ UNCHANGED <<listVars, promise, answer, threads>>

(* The server process ends and closes its sockets.                         *)
ServerCloses(s) ==
    /\ conn[s] = "open"
    /\ conn' = [conn EXCEPT ![s] = "eof"]
    /\ UNCHANGED <<listVars, promise, answer, toServer, toClient, threads>>

(* The connection is reset; what has not been read may be lost.            *)
Reset(s) ==
    /\ conn[s] # "reset"
    /\ conn' = [conn EXCEPT ![s] = "reset"]
    /\ toServer' = [toServer EXCEPT ![s] = <<>>]
    /\ \E rest \in {<<>>, toClient[s]} : toClient' = [toClient EXCEPT ![s] = rest]
    /\ UNCHANGED <<listVars, promise, answer, threads>>

---------------------------------------------------------------------------------
Next == \E s \in Sessions : \/ SendRequest(s) \/ Strand(s)
                            \/ Respond(s) \/ ServerCloses(s) \/ Reset(s)

(* The io threads run the handlers that are ready, and the server answers  *)
(* the requests it has received unless the connection goes down.           *)
Fairness == \A s \in Sessions : WF_vars(Strand(s)) /\ WF_vars(Respond(s))

Spec == Init /\ [][Next]_vars
FairSpec == Spec /\ Fairness

---------------------------------------------------------------------------------
(* Properties.                                                             *)

Outcomes == {"unsent", "pending", "value", "bad_request", "bad_response",
             "session_closed"}

(* Every variable keeps its type, and the streamers never have more than   *)
(* two requests open on a session (plugin.cpp:227-231).                    *)
TypeOK ==
    /\ \A s \in Sessions : Len(posted[s]) + Len(requestList[s]) <= 2
    /\ posted \in [Sessions -> Seq(Requests)]
    /\ requestList \in [Sessions -> Seq(Requests)]
    /\ active \in [Sessions -> BOOLEAN]
    /\ writing \in [Sessions -> Seq(Requests)]
    /\ reading \in [Sessions -> Nat]
    /\ promise \in [Sessions -> [Requests -> Outcomes]]
    /\ answer \in [Sessions -> [Requests -> Nat]]
    /\ toServer \in [Sessions -> Seq(Requests)]
    /\ toClient \in [Sessions -> Seq([req : Requests, ok : BOOLEAN])]
    /\ conn \in [Sessions -> {"open", "eof", "reset"}]
    /\ threads \in 0..Threads

(* One operation is in flight exactly as long as there is a request in the *)
(* list, and a write is that of its front: async_write keeps a reference   *)
(* into the list and async_read one to the one response_parser_            *)
(* (session.client.cpp:80, 91), so a second operation, or one that         *)
(* outlives its list entry, would be undefined; and a list without an      *)
(* operation would wait for ever.                                          *)
OneOperation ==
    \A s \in Sessions :
        /\ Len(writing[s]) + reading[s] = (IF requestList[s] = <<>> THEN 0 ELSE 1)
        /\ writing[s] # <<>> => Head(writing[s]) = Head(requestList[s])

(* Every request is settled in the end, as long as an io thread is left.   *)
Settled ==
    \A s \in Sessions : \A r \in Requests :
        (promise[s][r] = "pending") ~> (promise[s][r] # "pending" \/ threads = 0)

(* "stream_executor catch unexpected exception" (plugin.cpp:266): a tile   *)
(* request fails only with the bad_response_error that ends its stream.    *)
FailuresExpected ==
    \A s \in Sessions : \A r \in Requests \ {1} :
        promise[s][r] \notin {"bad_request", "session_closed"}

(* The callers see the ordered calls of the abstract specification.        *)
Calls == INSTANCE OrderedCalls
CallsInOrder == Calls!Spec
==================================================================================
