------------------------------ MODULE DashManager ------------------------------
(***************************************************************************)
(* The DASH manager (src/network/dash.manager.cpp) as the plugin uses it:  *)
(* the stream index is requested over a session of its own; then every     *)
(* tile's stream thread makes a session for its tile and asks for segment  *)
(* after segment, each in a representation the predictor chooses, together *)
(* with that representation's initial segment, which is asked for once and *)
(* kept.  The sockets come from the Connector; a session keeps the promise *)
(* that ClientSession is shown to keep, OrderedCalls.                      *)
(***************************************************************************)
EXTENDS Naturals, Sequences, FiniteSets

CONSTANTS Tiles, Index,   \* who asks for sessions: the tiles, the index
          Represents,     \* representations of an adaptation set
          Threads,        \* configs().concurrency.network
          MaxRequests     \* bound: requests made on one session

Callers == Tiles \cup {Index}

ASSUME ManagerAssumption ==
    /\ Index \notin Tiles
    /\ Represents # {}
    /\ MaxRequests \in Nat

VARIABLES
    strand, connectList, resolving, connecting, outcome, threads, \* Connector
    promise, answer,   \* OrderedCalls: the requests of each session
    index,             \* the future of request_stream_index
    pc,                \* where a tile's stream thread is
    traceIndex,        \* context->trace_index
    represent,         \* the representation predicted last
    todo,              \* requests the current streamer call has still to send
    asked,             \* what a session's requests asked for, in order
    got                \* history: the buffer sequences handed to the decoder

connectorVars == <<strand, connectList, resolving, connecting, outcome, threads>>
callVars == <<promise, answer>>
streamVars == <<pc, traceIndex, represent, todo, asked, got>>
vars == <<connectorVars, callVars, index, streamVars>>

Net == INSTANCE Connector
Calls == INSTANCE OrderedCalls WITH Sessions <- Callers

ASSUME NetAssumption == Net!ConnectorAssumption

Initial == 0    \* asked for the initial segment; n > 0: for media segment n

Init ==
    /\ Net!Init
    /\ Calls!Init
    /\ index = "none"
    /\ pc = [t \in Tiles |-> "off"]
    /\ traceIndex = [t \in Tiles |-> 0]
    /\ represent = [t \in Tiles |-> CHOOSE r \in Represents : TRUE]
    /\ todo = [t \in Tiles |-> <<>>]
    /\ asked = [t \in Tiles |-> <<>>]
    /\ got = [t \in Tiles |-> <<>>]

---------------------------------------------------------------------------------
(* The stream index.                                                       *)

(* request_stream_index: a session, then the mpd document.                 *)
RequestStreamIndex ==
    /\ index = "none"
    /\ Net!ConnectSocket(Index)
    /\ index' = "session"
    /\ UNCHANGED <<callVars, streamVars>>

(* The first continuation: the session is there, or there is an exception. *)
IndexSession ==
    /\ index = "session"
    /\ \/ /\ outcome[Index] = "socket"
          /\ Calls!Call(Index)
          /\ index' = "document"
       \/ /\ outcome[Index] = "error"
          /\ index' = "failed"
          /\ UNCHANGED callVars
    /\ UNCHANGED <<connectorVars, streamVars>>

(* send_request_for: the body of a response, or the error of the request.  *)
HasBody(call) == call = "value"

(* The second continuation: make the parser from the response.             *)
IndexDocument ==
    /\ index = "document"
    /\ promise[Index][1] # "pending"
    /\ index' = IF HasBody(promise[Index][1]) THEN "ready" ELSE "failed"
    /\ UNCHANGED <<connectorVars, callVars, streamVars>>

---------------------------------------------------------------------------------
(* The stream thread of tile t: stream_mpeg_dash and the streamer it calls.*)

Goto(t, label) == pc' = [pc EXCEPT ![t] = label]

(* tile_streamer: store the future of a new session in the tile's context. *)
TileStreamer(t) ==
    /\ index = "ready"
    /\ pc[t] = "off"
    /\ Net!ConnectSocket(t)
    /\ Goto(t, "predict")
    /\ UNCHANGED <<callVars, index, traceIndex, represent, todo, asked, got>>

(* represent.initial_buffer is set, whatever became of the request.        *)
HasInitial(t, r) == <<r, Initial>> \in {asked[t][i] : i \in 1..Len(asked[t])}

(* A plausible slip: the segments are counted for each representation.     *)
MutantNumber(t, r) ==
    1 + Cardinality({i \in 1..Len(asked[t]) :
                        asked[t][i][1] = r /\ asked[t][i][2] # Initial})

(* The media segment to ask for next, whatever its representation.         *)
Number(t, r) == traceIndex[t] + 1

(* A plausible slip: the media request goes out first.                     *)
MutantRequests(t, r) ==
    <<<<r, Number(t, r)>>>>
      \o (IF HasInitial(t, r) THEN <<>> ELSE <<<<r, Initial>>>>)

(* The initial segment if it was not asked for yet, then the next media    *)
(* segment.                                                                *)
Requests(t, r) ==
    (IF HasInitial(t, r) THEN <<>> ELSE <<<<r, Initial>>>>)
      \o <<<<r, Number(t, r)>>>>

(* predict_represent: choose, trace, count.                                *)
PredictRepresent(t) ==
    /\ pc[t] = "predict"
    /\ Len(asked[t]) + 2 <= MaxRequests
    /\ traceIndex' = [traceIndex EXCEPT ![t] = @ + 1]
    /\ \E r \in Represents :
          /\ represent' = [represent EXCEPT ![t] = r]
          /\ todo' = [todo EXCEPT ![t] = Requests(t, r)]
    /\ Goto(t, "send")
    /\ UNCHANGED <<connectorVars, callVars, index, asked, got>>

(* A plausible slip: the streamer is called again before get().            *)
MutantNextStep(t) == IF Len(todo[t]) = 1 THEN "predict" ELSE "send"

NextStep(t) == IF Len(todo[t]) = 1 THEN "get" ELSE "send"

(* make_http_request: get the target, keep the connection.                 *)
MakeHttpRequest(t) == asked' = [asked EXCEPT ![t] = Append(@, Head(todo[t]))]

(* request_send waits for the session, without a limit, and sends.         *)
RequestSend(t) ==
    /\ pc[t] = "send"
    /\ outcome[t] = "socket"
    /\ Calls!Call(t)
    /\ MakeHttpRequest(t)
    /\ todo' = [todo EXCEPT ![t] = Tail(@)]
    /\ Goto(t, NextStep(t))
    /\ UNCHANGED <<connectorVars, index, traceIndex, represent, got>>

(* There is no session: value() throws, before the thread's try block (the *)
(* first call is the one that finds out).  The thread ends unseen.         *)
NoSession(t) ==
    /\ pc[t] = "send"
    /\ outcome[t] = "error"
    /\ Goto(t, "escaped")
    /\ UNCHANGED <<connectorVars, callVars, index, traceIndex, represent, todo,
                   asked, got>>

(* The last of tile t's requests that is among the wanted ones.            *)
LastCall(t, wanted) ==
    CHOOSE i \in 1..Len(asked[t]) :
        /\ asked[t][i] \in wanted
        /\ \A j \in (i + 1)..Len(asked[t]) : asked[t][j] \notin wanted
InitialCall(t) == promise[t][LastCall(t, {<<represent[t], Initial>>})]
Data(t) == LastCall(t, Represents \X (Nat \ {Initial}))
DataCall(t) == promise[t][Data(t)]

(* collectAllSemiFuture: get() returns when both requests are settled.     *)
BothSettled(t) == /\ pc[t] = "get"
                  /\ DataCall(t) # "pending"
                  /\ InitialCall(t) # "pending"

(* Both are values: on to the decoder, and the streamer is called again.   *)
GetBuffers(t) ==
    /\ BothSettled(t)
    /\ HasBody(DataCall(t)) /\ HasBody(InitialCall(t))
    /\ got' = [got EXCEPT ![t] = Append(@, asked[t][answer[t][Data(t)]])]
    /\ Goto(t, "predict")
    /\ UNCHANGED <<connectorVars, callVars, index, traceIndex, represent, todo, asked>>

(* data_buffer.throwIfFailed(), or else the failed initial buffer throws   *)
(* when it is dereferenced.                                                *)
GetThrows(t) ==
    /\ BothSettled(t)
    /\ LET error == IF HasBody(DataCall(t)) THEN InitialCall(t) ELSE DataCall(t)
       IN  /\ ~HasBody(error)
           /\ Goto(t, IF error = "bad_response" THEN "ended" ELSE "unexpected")
    /\ UNCHANGED <<connectorVars, callVars, index, traceIndex, represent, todo,
                   asked, got>>

StreamThread(t) == \/ TileStreamer(t) \/ PredictRepresent(t) \/ RequestSend(t)
                   \/ NoSession(t) \/ GetBuffers(t) \/ GetThrows(t)

---------------------------------------------------------------------------------
(* The sessions and the connector.                                         *)

(* The io threads settle requests; a close that throws ends one of them.   *)
Session(s) ==
    /\ threads > 0
    /\ \/ Calls!Answer(s) /\ UNCHANGED threads
       \/ Calls!Fail(s) /\ threads' \in {threads, threads - 1}
    /\ UNCHANGED <<strand, connectList, resolving, connecting, outcome, index,
                   streamVars>>

Connect ==
    /\ Net!Operation
    /\ UNCHANGED <<callVars, index, streamVars>>

Next ==
    \/ RequestStreamIndex \/ IndexSession \/ IndexDocument
    \/ Connect
    \/ \E t \in Tiles : StreamThread(t)
    \/ \E s \in Callers : Session(s)

(* The stream threads and the executor run, the io threads run what is     *)
(* ready, the resolver, the peers and the server answer in the end.        *)
Fairness ==
    /\ WF_vars(IndexSession) /\ WF_vars(IndexDocument)
    /\ WF_vars(Connect /\ Net!Handler) /\ WF_vars(Connect /\ Net!Resolve)
    /\ \A c \in Callers : /\ WF_vars(Connect /\ Net!OnConnect(c))
                          /\ WF_vars(Session(c))
    /\ \A t \in Tiles : WF_vars(StreamThread(t))

Spec == Init /\ [][Next]_vars
FairSpec == Spec /\ Fairness

---------------------------------------------------------------------------------
(* Properties.                                                             *)

(* Every variable keeps its type, those of the connector too, and no       *)
(* session has more than two requests open (the discipline ClientSession   *)
(* takes from its callers).                                                *)
TypeOK ==
    /\ Net!TypeOK
    /\ \A s \in Callers :
          Cardinality({r \in 1..MaxRequests : promise[s][r] = "pending"}) <= 2
    /\ index \in {"none", "session", "document", "ready", "failed"}
    /\ pc \in [Tiles -> {"off", "predict", "send", "get", "ended", "unexpected",
                         "escaped"}]
    /\ traceIndex \in [Tiles -> Nat]
    /\ represent \in [Tiles -> Represents]
    /\ \A t \in Tiles : Len(todo[t]) <= 2

(* The connector serves one caller after the other: see Connector.         *)
OneResolve == Net!OneResolve
OneHolder == Net!OneHolder

(* The decoder of a tile is given media segments 1, 2, 3, ... without gap  *)
(* or repetition across changes of the representation (dash.manager.cpp:92,*)
(* 115, 224-226).                                                          *)
SegmentsInOrder ==
    \A t \in Tiles : \A i \in 1..Len(got[t]) :
        got[t][i][2] = i

(* **initial_buffer (dash.manager.cpp:235) is never a failed Try once the  *)
(* data is there: an initial segment is asked for once, before all media   *)
(* of its representation, on a session that answers nothing after a        *)
(* failure.                                                                *)
InitialBeforeMedia ==
    \A t \in Tiles : \A c \in 1..Len(asked[t]) :
        asked[t][c][2] # Initial /\ promise[t][c] = "value" =>
            \E i \in 1..Len(asked[t]) : /\ asked[t][i] = <<asked[t][c][1], Initial>>
                                        /\ promise[t][i] = "value"

(* A thread that waits for its session or for a segment goes on in the end *)
(* and so does the index request, unless a failure has left tokens in the  *)
(* connector's list (connector.cpp:20) or has ended the last io thread.    *)
WaitsEnd ==
    /\ \A t \in Tiles : pc[t] \in {"send", "get"} ~>
          (pc[t] \notin {"send", "get"} \/ Net!Poisoned \/ threads = 0)
    /\ index \in {"session", "document"} ~>
          (index \in {"ready", "failed"} \/ threads = 0)
================================================================================
