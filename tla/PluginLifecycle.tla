----------------------------- MODULE PluginLifecycle -----------------------------
(***************************************************************************)
(* The life of the plugin's library resources (src/gallery/plugin.cpp):    *)
(* load a configuration, initialize, create the DASH manager, ask it for   *)
(* the panorama, create a stream context per tile, prefetch, release, and  *)
(* perhaps all of it again.  The host makes these calls one by one on its  *)
(* main thread and may release at any point.  Meanwhile the stream index   *)
(* is requested: a chain of continuations on the compute executor, each    *)
(* of which keeps the manager's impl, and with it the executor and the io  *)
(* threads, alive.  The handlers of the sessions, on the io threads, keep  *)
(* nothing alive.                                                          *)
(***************************************************************************)
EXTENDS Naturals, FiniteSets

CONSTANTS Cols, Rows,   \* the grid of the panorama
          Workers,      \* configs().concurrency.executor
          IoThreads,    \* configs().concurrency.network
          MaxRounds     \* bound: how often the host initializes the library

ASSUME LifecycleAssumption ==
    /\ Cols \in Nat \ {0} /\ Rows \in Nat \ {0}
    /\ Workers \in Nat \ {0} /\ IoThreads \in Nat \ {0}
    /\ MaxRounds \in Nat

VARIABLES
    host,       \* the host's call in progress or completed last
    rounds,     \* how often the library was initialized
    trace,      \* configs().trace.enable
    registry,   \* names of the loggers registered with spdlog
    manager,    \* the future<dash_manager>
    chain,      \* the stream index request, a chain of continuations
    impl,       \* dash_manager::impl: none, alive, without sessions, with
                \* its io_context stopped
    destroyer,  \* the thread that runs the impl's destructor
    running,    \* state::stream::running
    streaming,  \* how many stream threads have not ended
    reading,    \* operations of the tiles' sessions that are in flight
    handling,   \* session handlers that are running, on io threads
    table,      \* tile_stream_table: coordinates that have a context
    cache       \* tile_stream_cache: the context at each index, if any

chainVars == <<manager, chain>>
implVars == <<impl, destroyer>>
ioVars == <<reading, handling>>
tileVars == <<table, cache>>
vars == <<host, rounds, trace, registry, chainVars, implVars, running,
          streaming, ioVars, tileVars>>

Coordinates == (0..(Cols - 1)) \X (0..(Rows - 1))
Nothing == <<>>

(* A plausible slip: the rows counted instead of the columns.              *)
MutantTileIndex(c, r) == c + r * Rows + 1

(* The index the host gives a tile when it creates its stream.             *)
TileIndex(c, r) == c + r * Cols + 1

(* stream_options: what identifies the context made for a tile.            *)
Options(t) == [coordinate |-> t, index |-> TileIndex(t[1], t[2])]

Init ==
    /\ host = "idle" /\ rounds = 0
    /\ trace = FALSE
    /\ registry = {}
    /\ manager = "empty" /\ chain = "none"
    /\ impl = "none" /\ destroyer = "nobody"
    /\ running = FALSE /\ streaming = 0
    /\ reading = 0 /\ handling = 0
    /\ table = {} /\ cache = Nothing

---------------------------------------------------------------------------------
(* The host's calls up to the prefetch.                                    *)

(* config_from_template, for a given url, never traces.  A bad url throws. *)
FromTemplate == trace' = FALSE /\ host' \in {"configured", "idle"}

(* from_json: the flag comes first; what follows in the document may throw.*)
FromDocument ==
    \/ trace' \in BOOLEAN /\ host' \in {"configured", "idle"}
    \/ UNCHANGED trace /\ host' = "idle"

(* _nativeLibraryConfigLoad.  Without a configuration the host does not go *)
(* on.                                                                     *)
ConfigLoad ==
    /\ host \in {"idle", "configured", "released"}
    /\ FromTemplate \/ FromDocument
    /\ UNCHANGED <<rounds, registry, chainVars, implVars, running, streaming,
                   ioVars, tileVars>>

PluginLoggers == {"plugin", "plugin.update", "plugin.render"}

(* Making an asynchronous logger or a null logger registers it.            *)
MakeLogger(names) == registry' = registry \cup names
NameTaken(names) == names \cap registry # {}

(* reset_resource: no tiles.                                               *)
ResetResource == table' = {} /\ cache' = Nothing

(* _nativeLibraryInitialize.  Every logger made, the null loggers too, is  *)
(* registered by name, and spdlog throws if the name is taken.             *)
Initialize ==
    /\ host = "configured" /\ rounds < MaxRounds
    /\ rounds' = rounds + 1
    /\ ResetResource
    /\ running' = TRUE
    /\ manager' = "empty"
    /\ IF NameTaken(PluginLoggers)
       THEN host' = "threw" /\ UNCHANGED registry
       ELSE host' = "initialized" /\ MakeLogger(PluginLoggers)
    /\ UNCHANGED <<trace, chain, implVars, streaming, ioVars>>

(* _nativeDashCreate: makeFutureWith catches what trace_by throws if the   *)
(* manager's logger exists; the manager made so far is destroyed at once.  *)
DashCreate ==
    /\ host = "initialized"
    /\ host' = "created"
    /\ IF NameTaken({"dash.manager"})
       THEN manager' = "exception" /\ UNCHANGED <<registry, chain, implVars>>
       ELSE /\ MakeLogger({"dash.manager"})
            /\ manager' = "pending" /\ chain' = "connect"
            /\ impl' = "alive"
            /\ UNCHANGED destroyer
    /\ UNCHANGED <<rounds, trace, running, streaming, ioVars, tileVars>>

(* _nativeDashGraphicInfo waits for the index.                             *)
DashGraphicInfo ==
    /\ host = "created"
    /\ manager \in {"value", "exception"}
    /\ host' = IF manager = "value" THEN "informed" ELSE "uninformed"
    /\ UNCHANGED <<rounds, trace, registry, chainVars, implVars, running,
                   streaming, ioVars, tileVars>>

(* _nativeDashCreateTileStream for any tile that has none yet.             *)
DashCreateTileStream ==
    /\ host = "informed"
    /\ \E t \in Coordinates \ table :
          /\ table' = table \cup {t}
          /\ cache' = [(IF cache = Nothing THEN [i \in 1..(Cols * Rows) |-> Nothing]
                                           ELSE cache)
                          EXCEPT ![Options(t).index] = Options(t)]
    /\ UNCHANGED <<host, rounds, trace, registry, chainVars, implVars, running,
                   streaming, ioVars>>

(* _nativeDashPrefetch: one stream thread for each context.                *)
DashPrefetch ==
    /\ host = "informed"
    /\ Cardinality(table) = Cols * Rows
    /\ host' = "prefetched"
    /\ streaming' = Cardinality(table)
    /\ UNCHANGED <<rounds, trace, registry, chainVars, implVars, running, ioVars,
                   tileVars>>

(* A stream thread asks for the next segment before it decodes the one it  *)
(* has got.                                                                *)
StreamAsks ==
    /\ streaming > 0 /\ reading < Cols * Rows
    /\ reading' = reading + 1
    /\ UNCHANGED <<host, rounds, trace, registry, chainVars, implVars, running,
                   streaming, handling, tileVars>>

(* A stream thread ends: its stream has ended, or running is clear.  What  *)
(* it has asked for may be in flight.                                      *)
StreamEnds ==
    /\ streaming > 0
    /\ streaming' = streaming - 1
    /\ UNCHANGED <<host, rounds, trace, registry, chainVars, implVars, running,
                   ioVars, tileVars>>

---------------------------------------------------------------------------------
(* The io threads and the handlers of the sessions.                        *)

HandlersOnly == UNCHANGED <<host, rounds, trace, registry, chainVars, implVars,
                            running, streaming, tileVars>>

(* An operation completes, in the end because its socket is destroyed, and *)
(* a handler is entered, unless the io_context has been stopped.           *)
HandlerEnters ==
    /\ reading > 0 /\ handling < IoThreads
    /\ impl \in {"alive", "sessionless"}
    /\ reading' = reading - 1 /\ handling' = handling + 1
    /\ HandlersOnly

HandlerReturns ==
    /\ handling > 0
    /\ handling' = handling - 1
    /\ UNCHANGED reading
    /\ HandlersOnly

---------------------------------------------------------------------------------
(* request_stream_index: connect, then send on a worker, then the document *)
(* arrives, then parse it on a worker, then hand the result to the future. *)

Goto(step) == /\ chain' = step
              /\ UNCHANGED <<host, rounds, trace, registry, manager, implVars,
                             running, streaming, reading, tileVars>>

(* An io thread: the connection is there, or not.                          *)
Connected == chain = "connect" /\ (Goto("send") \/ Goto("failed")) /\ UNCHANGED handling

(* An io thread: the document is there, or not.  The promise that is set   *)
(* wakes a worker while the handler goes on.                               *)
Received ==
    /\ chain = "receive" /\ handling < IoThreads
    /\ Goto("parse") \/ Goto("failed")
    /\ handling' = handling + 1

(* A worker sends the request.                                             *)
Send == chain = "send" /\ Goto("receive") /\ UNCHANGED handling

(* A worker parses: it hands parts to the same executor and waits for them *)
(* (the parser's constructor), for which another worker has to be there.   *)
Parse ==
    /\ chain = "parse" /\ Workers >= 2
    /\ Goto("done") \/ Goto("failed")
    /\ UNCHANGED handling

Destroy(thread) == destroyer' = thread

(* A plausible slip: without via() a continuation runs where the document  *)
(* came in.                                                                *)
MutantContinuationThread == "io"

(* The continuations were attached via the executor.                       *)
ContinuationThread == "worker"

(* The manager is handed to the future if the host still has it; if not,   *)
(* or if the request failed, this thread drops the last reference.         *)
Finish ==
    /\ chain \in {"done", "failed"}
    /\ manager' = IF manager # "pending" THEN manager
                  ELSE IF chain = "done" THEN "value" ELSE "exception"
    /\ IF manager = "pending" /\ chain = "done"
       THEN chain' = "none" /\ UNCHANGED destroyer
       ELSE chain' = "drop" /\ Destroy(ContinuationThread)
    /\ UNCHANGED <<host, rounds, trace, registry, impl, running, streaming,
                   ioVars, tileVars>>

(* impl's destructor: the connector, the parser with the tiles' sessions   *)
(* and the index session go first, the reference to the executor too; the  *)
(* io threads still run, and what is in flight is aborted...               *)
DestroySessions ==
    /\ destroyer # "nobody" /\ impl = "alive"
    /\ impl' = "sessionless"
    /\ UNCHANGED <<host, rounds, trace, registry, chainVars, destroyer, running,
                   streaming, ioVars, tileVars>>

(* ... and the io_context last: asio_deleter stops it, so that no handler  *)
(* is entered any more...                                                  *)
StopContext ==
    /\ destroyer # "nobody" /\ impl = "sessionless"
    /\ impl' = "stopped"
    /\ reading' = 0
    /\ UNCHANGED <<host, rounds, trace, registry, chainVars, destroyer, running,
                   streaming, handling, tileVars>>

(* A plausible slip: the threads are detached.                             *)
MutantJoined == TRUE

(* thread.join(): its handler has returned.                                *)
Joined == handling = 0

(* ... and joins its threads.                                              *)
JoinThreads ==
    /\ destroyer # "nobody" /\ impl = "stopped"
    /\ Joined
    /\ impl' = "none" /\ destroyer' = "nobody"
    /\ chain' = IF destroyer = ContinuationThread THEN "none" ELSE chain
    /\ UNCHANGED <<host, rounds, trace, registry, manager, running, streaming,
                   ioVars, tileVars>>

---------------------------------------------------------------------------------
(* _nativeLibraryRelease, step by step.                                    *)

(* A plausible slip: the flag is left as it is.                            *)
MutantStop == UNCHANGED running

Stop == running' = FALSE

(* Clear running, then wait for the stream threads (join 1).               *)
Release ==
    /\ host \in {"initialized", "created", "uninformed", "informed", "prefetched"}
    /\ Stop
    /\ host' = "join1"
    /\ UNCHANGED <<rounds, trace, registry, chainVars, implVars, streaming,
                   ioVars, tileVars>>

(* The stream threads have ended; drop the loggers if this is a traced run.*)
DropLoggers ==
    /\ host = "join1" /\ streaming = 0
    /\ registry' = IF trace THEN {} ELSE registry
    /\ host' = "join2"
    /\ UNCHANGED <<rounds, trace, chainVars, implVars, running, streaming, ioVars,
                   tileVars>>

(* A plausible slip: continuations that capture the bare impl pointer.     *)
MutantLastReference == impl = "alive"

(* The future holds the only reference: no continuation is left.           *)
LastReference == manager = "value"

(* The manager future is emptied (join 2).                                 *)
DropManager ==
    /\ host = "join2"
    /\ manager' = "empty"
    /\ IF LastReference THEN Destroy("main") ELSE UNCHANGED destroyer
    /\ host' = "join3"
    /\ UNCHANGED <<rounds, trace, registry, chain, impl, running, streaming,
                   ioVars, tileVars>>

(* A plausible slip: the executor is stopped without waiting for tasks.    *)
MutantExecutorIdle == TRUE

(* Neither a task nor a continuation that still has to run (the executor's *)
(* keep-alive tokens) is left.                                             *)
ExecutorIdle == chain = "none"

(* The executor is joined (join 3), on the main thread, which is not busy  *)
(* with the impl any more.                                                 *)
JoinExecutor ==
    /\ host = "join3" /\ destroyer # "main"
    /\ ExecutorIdle
    /\ host' = "joined"
    /\ UNCHANGED <<rounds, trace, registry, chainVars, implVars, running,
                   streaming, ioVars, tileVars>>

(* The assertion on the executor's use count, then the rest.               *)
Released ==
    /\ host = "joined"
    /\ ResetResource
    /\ host' = "released"
    /\ UNCHANGED <<rounds, trace, registry, chainVars, implVars, running,
                   streaming, ioVars>>

---------------------------------------------------------------------------------
ReleaseStep == DropLoggers \/ DropManager \/ JoinExecutor \/ Released
IndexStep == Connected \/ Send \/ Received \/ Parse \/ Finish
ImplStep == DestroySessions \/ StopContext \/ JoinThreads

Next ==
    \/ ConfigLoad \/ Initialize \/ DashCreate \/ DashGraphicInfo
    \/ DashCreateTileStream \/ DashPrefetch \/ Release
    \/ StreamAsks \/ StreamEnds \/ HandlerEnters \/ HandlerReturns
    \/ IndexStep \/ ImplStep \/ ReleaseStep

(* A call that has begun goes on, the workers run, the network answers or  *)
(* fails in the end, handlers return, and stream threads leave once        *)
(* running is clear.                                                       *)
Fairness ==
    /\ WF_vars(IndexStep) /\ WF_vars(ImplStep) /\ WF_vars(ReleaseStep)
    /\ WF_vars(HandlerReturns)
    /\ WF_vars(~running /\ StreamEnds)

Spec == Init /\ [][Next]_vars
FairSpec == Spec /\ Fairness

---------------------------------------------------------------------------------
(* Properties.                                                             *)

Calls == {"idle", "configured", "initialized", "threw", "created", "uninformed",
          "informed", "prefetched", "join1", "join2", "join3", "joined", "released"}

(* Every variable keeps its type; the impl is destroyed by the main thread *)
(* or a worker, never by one of the io threads it would join               *)
(* (net.cpp:131), and only once nobody else refers to it.                  *)
TypeOK ==
    /\ host \in Calls /\ rounds \in 0..MaxRounds
    /\ trace \in BOOLEAN /\ running \in BOOLEAN
    /\ registry \subseteq PluginLoggers \cup {"dash.manager"}
    /\ manager \in {"empty", "pending", "value", "exception"}
    /\ chain \in {"none", "connect", "send", "receive", "parse", "done", "failed",
                  "drop"}
    /\ impl \in {"none", "alive", "sessionless", "stopped"}
    /\ destroyer \in {"nobody", "main", "worker"}
    /\ streaming \in 0..(Cols * Rows) /\ reading \in 0..(Cols * Rows)
    /\ handling \in 0..IoThreads
    /\ table \subseteq Coordinates

(* assert(compute_executor.use_count() == 1) (plugin.cpp:429): when the    *)
(* executor has been joined, the impl and the parser that hold it are gone,*)
(* although the index request may have been pending when the release began.*)
ExecutorUnique == host \in {"joined", "released"} => impl = "none" /\ chain = "none"

(* A continuation still to run finds the sessions and io threads of the    *)
(* impl it captured (dash.manager.cpp:160-174), and so does every stream   *)
(* thread, which refers to the manager without owning it (plugin.cpp:224). *)
(* The io_context outlives every handler that runs on its threads and every*)
(* operation that may still complete (net.cpp:123-140).                    *)
ImplOutlivesUsers ==
    /\ chain \notin {"none", "drop"} \/ streaming > 0 =>
          impl = "alive" /\ destroyer = "nobody"
    /\ reading > 0 \/ handling > 0 => impl # "none"

(* "assert(request_sequence_.running_in_this_thread());" in each handler   *)
(* (session.client.cpp:45, 73): it looks at its session's strand first, so *)
(* it is entered only while the session is there.                          *)
HandlersFindSessions == [][HandlerEnters => impl = "alive"]_vars

(* The texture events reach the context of the tile whose index they carry *)
(* and the prefetch leaves no index without one (plugin.cpp:211-220, 477). *)
CacheMatchesTable ==
    /\ \A i \in DOMAIN cache : cache[i] # Nothing => cache[i].index = i
    /\ table = {cache[i].coordinate : i \in {j \in DOMAIN cache : cache[j] # Nothing}}
    /\ host = "prefetched" => \A i \in DOMAIN cache : cache[i] # Nothing

(* _nativeLibraryRelease returns, with the index request pending or not    *)
(* (TilePipeline treats what may keep a stream thread from leaving).       *)
ReleaseReturns == host = "join1" ~> host = "released"

(* "_nativeLibraryInitialize();" in a second test of one process           *)
(* (gallery.test.cpp:169, after the release in 124): the library can be    *)
(* initialized again.                                                      *)
InitializeSucceeds == host # "threw"
==================================================================================
