--------------------------------- MODULE Server ---------------------------------
(***************************************************************************)
(* The file server (src/server/server.hpp and the acceptor it uses): the   *)
(* main thread accepts one connection after the other; a worker makes the  *)
(* session, a serial executor puts it in the map, and takes it out when it *)
(* has completed.  A signal stops the acceptor and the io threads.  Before *)
(* all this the program reads its options and its configuration.           *)
(***************************************************************************)
EXTENDS Naturals, Sequences, FiniteSets

CONSTANTS Connections, Requests, MaxRequests,  \* see ServerSession
          Arguments, WorksetPaths, Documents,  \* see ServerConfig
          Endpoints,   \* remote endpoints clients connect from
          Threads,     \* io threads of the asio pool
          MaxAccepts   \* bound: how often the main loop is entered

ASSUME ServerAssumption ==
    /\ Threads \in Nat \ {0}
    /\ MaxAccepts \in Nat
    /\ Connections \cap {"none", "pending", "failing", "exception"} = {}

VARIABLES
    requests, received, replies, operation, completion, \* ServerSession
    launch, paths, located, enabled,  \* ServerConfig
    main,       \* the main thread: starting, in the loop, waiting, collecting, done
    accepts,    \* how many sockets were waited for
    accept,     \* the acceptor's operation: its promise, or a connection
    handled,    \* the accept handler has run
    listening,  \* acceptor_.is_open()
    posted,     \* acceptor_cancellation_
    signal,     \* the steps of the signal handler
    threads,    \* io threads that still run the io_context
    endpoint,   \* the remote endpoint of each connection
    stage,      \* the continuations of each connection
    map,        \* session_map_
    schedule    \* schedule_worker_ exists

sessionVars == <<requests, received, replies, operation, completion>>
acceptVars == <<accept, handled, listening>>
mainVars == <<main, accepts>>
mapVars == <<endpoint, stage, map, schedule>>
configVars == <<launch, paths, located, enabled>>
vars == <<sessionVars, acceptVars, mainVars, mapVars, posted, signal, threads,
          configVars>>

Session == INSTANCE ServerSession
Config == INSTANCE ServerConfig

ASSUME PartsAssumption == Session!SessionAssumption /\ Config!ConfigAssumption

Init ==
    /\ Session!Init
    /\ Config!Init
    /\ main = "options" /\ accepts = 0
    /\ accept = "none" /\ handled = FALSE /\ listening = FALSE
    /\ posted = FALSE /\ signal = "none" /\ threads = 0
    /\ endpoint \in [Connections -> Endpoints]
    /\ stage = [c \in Connections |-> "none"]
    /\ map = {} /\ schedule = FALSE

---------------------------------------------------------------------------------
(* The start of the program.                                               *)

(* main: --help prints and exits, an option it does not know throws.       *)
ParseOptions ==
    /\ main = "options"
    /\ Config!ParseOptions
    /\ main' = IF launch.help THEN "exited" ELSE "construct"
    /\ UNCHANGED <<sessionVars, accepts, acceptVars, mapVars, posted, signal, threads>>

(* make_asio_pool: a work guard keeps every thread in io_context::run.     *)
MakePool == threads' = Threads

(* The acceptor's constructor opens, binds and listens.                    *)
Listen == listening' = TRUE

(* The server's constructor: the pool's threads start, the acceptor opens, *)
(* and signals are waited for; but an entry that is missing throws, and so *)
(* does a root that is no directory, and run() catches it and quits.       *)
Construct ==
    /\ main = "construct"
    /\ Config!Locate
    /\ IF Config!ConfigEntry("serves")
       THEN main' = "loop" /\ MakePool /\ Listen
       ELSE main' = "quit" /\ UNCHANGED <<threads, listening>>
    /\ UNCHANGED <<sessionVars, accepts, accept, handled, mapVars, posted, signal>>

---------------------------------------------------------------------------------
(* The main thread, establish_sessions.                                    *)

(* accept_socket: start to accept; a closed acceptor fails at once.        *)
AcceptSocket ==
    /\ main = "loop" /\ ~posted
    /\ accepts < MaxAccepts
    /\ accepts' = accepts + 1
    /\ accept' = IF listening THEN "pending" ELSE "failing"
    /\ handled' = FALSE
    /\ main' = "wait"
    /\ UNCHANGED <<sessionVars, listening, mapVars, posted, signal, threads, configVars>>

(* wait() returns; the continuations are attached via the pool.            *)
Accepted ==
    /\ main = "wait" /\ handled
    /\ stage' = [c \in Connections |-> IF c = accept THEN "accepted" ELSE stage[c]]
    /\ accept' = "none"
    /\ main' = "loop"
    /\ UNCHANGED <<sessionVars, accepts, handled, listening, endpoint, map, schedule,
                   posted, signal, threads, configVars>>

LeaveLoop ==
    /\ main = "loop" /\ posted
    /\ main' = "collect"
    /\ UNCHANGED <<sessionVars, accepts, acceptVars, mapVars, posted, signal,
                   threads, configVars>>

(* collectAll(procedure_list).get().                                       *)
Collect ==
    /\ main = "collect"
    /\ \A c \in Connections : stage[c] \in {"none", "erased", "failed"}
    /\ main' = "done"
    /\ UNCHANGED <<sessionVars, accepts, acceptVars, mapVars, posted, signal,
                   threads, configVars>>

---------------------------------------------------------------------------------
(* The acceptor.                                                           *)

(* An io thread is there to run a handler, beside the signal handler.      *)
IoThread == threads > (IF signal \in {"post", "close"} THEN 1 ELSE 0)

SocketClosed(c) == stage[c] \in {"none", "erased", "failed"}
                     \/ completion[c] # "pending"

Fresh == {c \in Connections : stage[c] = "none"}

(* A client connects, from an endpoint with no other connection open; or   *)
(* the operating system fails to accept.                                   *)
Connect ==
    /\ accept = "pending"
    /\ \/ /\ Fresh # {}
          /\ LET c == CHOOSE d \in Fresh : TRUE
             IN  /\ \A d \in Connections : endpoint[d] = endpoint[c] => SocketClosed(d)
                 /\ accept' = c
       \/ accept' = "failing"
    /\ UNCHANGED <<sessionVars, mainVars, handled, listening, mapVars, posted,
                   signal, threads, configVars>>

(* on_accept: an error fails the promise and closes the acceptor; a socket *)
(* goes to the promise.  If the peer has gone already, remote_endpoint()   *)
(* throws out of the handler: the promise breaks, the io thread ends.      *)
OnAccept ==
    \/ /\ accept = "failing"
       /\ accept' = "exception" /\ handled' = TRUE
       /\ listening' = FALSE
       /\ UNCHANGED threads
    \/ /\ accept \in Connections
       /\ handled' = TRUE
       /\ \/ UNCHANGED <<accept, threads>>
          \/ accept' = "exception" /\ threads' = threads - 1
       /\ UNCHANGED listening

AcceptHandler ==
    /\ IoThread /\ signal # "stop"
    /\ ~handled
    /\ OnAccept
    /\ UNCHANGED <<sessionVars, mainVars, mapVars, posted, signal, configVars>>

(* A plausible slip: the baton is not posted.                              *)
MutantPost == UNCHANGED posted

Post == posted' = TRUE

(* SIGINT or SIGTERM, on an io thread.                                     *)
OnSignal ==
    /\ signal = "none" /\ threads > 0
    /\ signal' = "post"
    /\ Post
    /\ UNCHANGED <<sessionVars, mainVars, acceptVars, mapVars, threads, configVars>>

(* The acceptor is closed: an accept operation in flight is aborted.       *)
OnSignalClose ==
    /\ signal = "post"
    /\ signal' = "close"
    /\ listening' = FALSE
    /\ accept' = IF accept = "pending" THEN "failing" ELSE accept
    /\ UNCHANGED <<sessionVars, mainVars, handled, mapVars, posted, threads, configVars>>

(* The io_context is stopped: no further handler runs.                     *)
OnSignalStop ==
    /\ signal = "close"
    /\ signal' = "stop"
    /\ UNCHANGED <<sessionVars, mainVars, acceptVars, mapVars, posted, threads, configVars>>

---------------------------------------------------------------------------------
(* The continuations of a connection.                                      *)

Become(c, s) == stage' = [stage EXCEPT ![c] = s]

(* load_element(bandwidth_limit).                                          *)
Limit == Config!LoadElement

(* A plausible slip: the worker is made for every session but the first.   *)
MutantEnsureSchedule == schedule \/ (map # {} /\ Limit = "true")

(* The schedule worker is made for the first session.                      *)
EnsureSchedule == schedule \/ (map = {} /\ Limit = "true")

Duplicate(c) == \E d \in map : endpoint[d] = endpoint[c]

(* A worker makes the session, and the serial executor puts it in the map; *)
(* either fails if the peer is gone, as remote_endpoint() throws, and the  *)
(* first if it asks for a limit that is not configured.  If a session is   *)
(* still there under this endpoint, though its socket is closed, the main  *)
(* loop is ended.                                                          *)
CreateFails(c) ==
    /\ stage[c] = "accepted"
    /\ Become(c, "failed")
    /\ schedule' \in {schedule, EnsureSchedule}
    /\ UNCHANGED <<sessionVars, mainVars, acceptVars, endpoint, map, posted, signal,
                   threads, configVars>>

CreateThenEmplace(c) ==
    /\ stage[c] = "accepted"
    /\ map = {} => Limit # "missing"
    /\ schedule' = EnsureSchedule
    /\ \/ /\ ~Duplicate(c)
          /\ Become(c, "open") /\ map' = map \cup {c}
          /\ Session!ProcessRequests(c)
          /\ UNCHANGED posted
       \/ /\ Duplicate(c)
          /\ posted' = TRUE
          /\ Become(c, "failed")
          /\ UNCHANGED <<sessionVars, map>>
    /\ UNCHANGED <<mainVars, acceptVars, endpoint, signal, threads, configVars>>

(* collectAll: the completion is there, a value or an exception.           *)
Ended(c) == completion[c] # "pending"

(* On the serial executor: erase the session, join the schedule worker     *)
(* after the last one.                                                     *)
Erase(c) ==
    /\ stage[c] = "open" /\ Ended(c)
    /\ Become(c, "erased")
    /\ map' = map \ {c}
    /\ schedule' = (schedule /\ map' # {})
    /\ UNCHANGED <<sessionVars, mainVars, acceptVars, endpoint, posted, signal,
                   threads, configVars>>

(* The session's handlers, and its client.                                 *)
SessionHandler(c) ==
    /\ IoThread /\ signal # "stop"
    /\ Session!Handler(c)
    /\ UNCHANGED <<mainVars, acceptVars, mapVars, posted, signal, threads, configVars>>

ClientSends(c) ==
    /\ stage[c] = "open" /\ completion[c] = "pending"
    /\ Session!Send(c)
    /\ UNCHANGED <<mainVars, acceptVars, mapVars, posted, signal, threads, configVars>>

Main == \/ ParseOptions \/ Construct
        \/ AcceptSocket \/ Accepted \/ LeaveLoop \/ Collect
Signal == OnSignalClose \/ OnSignalStop
Continuation(c) == CreateFails(c) \/ CreateThenEmplace(c) \/ Erase(c)

Next ==
    \/ Main \/ Connect \/ AcceptHandler \/ OnSignal \/ Signal
    \/ \E c \in Connections : Continuation(c) \/ SessionHandler(c) \/ ClientSends(c)

(* The main thread, the workers and the signal handler run; so do handlers *)
(* as long as there are io threads.  Nobody has to connect or to signal.   *)
Fairness ==
    /\ WF_vars(Main) /\ WF_vars(Signal) /\ WF_vars(AcceptHandler)
    /\ \A c \in Connections : WF_vars(Continuation(c))

Spec == Init /\ [][Next]_vars /\ Fairness

---------------------------------------------------------------------------------
(* Properties.                                                             *)

(* Every variable keeps its type; the schedule worker is there while the   *)
(* map is not empty, if the bandwidth is limited (server.hpp:74-79, 107).  *)
TypeOK ==
    /\ Session!TypeOK
    /\ main \in {"options", "exited", "construct", "quit",
                "loop", "wait", "collect", "done"}
    /\ accept \in {"none", "pending", "failing", "exception"} \cup Connections
    /\ signal \in {"none", "post", "close", "stop"}
    /\ threads \in 0..Threads
    /\ stage \in [Connections -> {"none", "accepted", "open", "erased", "failed"}]
    /\ Limit = "true" /\ map # {} => schedule

(* A handler that captured a session finds it in the map that owns it: it  *)
(* is erased after its last operation only (session.server.cpp:44, 97,     *)
(* server.hpp:102), and when the server returns none is left.              *)
SessionOutlivesHandlers ==
    /\ \A c \in Connections : operation[c] # "none" => c \in map
    /\ main = "done" => map = {}

(* The configuration is the one that was asked for: see ServerConfig.      *)
ConfiguredAsAsked == Config!AsAsked(schedule)

(* Responses match requests: see ServerSession.                            *)
AnsweredInOrder == Session!AnsweredInOrder

(* What keeps the main thread once it should stop: the accept operation's  *)
(* handler, or an open session's, that no io thread will run.              *)
Stranded ==
    /\ ~IoThread \/ signal = "stop"
    /\ main = "wait" \/ \E c \in map : completion[c] = "pending"

(* After the cancellation the server returns once no connection is open,   *)
(* unless the io threads were stopped before they ran the handlers it waits*)
(* for (server.hpp:57); a session that has completed, well or not, leaves  *)
(* the map (session.server.cpp:97); and a signal is never overlooked.      *)
ServerStops ==
    /\ signal = "stop" ~> main = "done" \/ Stranded
    /\ posted ~> \/ main = "done" \/ Stranded
                 \/ \E c \in map : completion[c] = "pending"
                 \/ main = "wait" /\ accept = "pending"
    /\ \A c \in Connections : completion[c] # "pending" ~> c \notin map
==================================================================================
