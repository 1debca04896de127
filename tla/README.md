# Verification of gallery360

TLA+ specifications, TLC model-checking runs and TLAPS proofs for gallery360: a
player of tiled 360° video whose native Unity plugin (`src/gallery`) fetches
DASH segments over HTTP (`src/network`), decodes them (`src/multimedia`) and
hands the planes of every frame to the render thread, together with the HTTP
server that serves the segments (`src/server`).

Tools: `tlc -config <file>.cfg <Module>` checks a run; `tlapm <Module>.tla` checks
the proofs. `PROJECT.json` holds the machine-readable side of this page: the
runs, the mutants that show each property can fail, the source lines every
definition stands for, the hazards and the theorems.

## 1. Inventory

| Part | State it keeps | Operations | Talks to | What is hard, and what must hold | Module |
| --- | --- | --- | --- | --- | --- |
| Tile pipeline, `gallery/plugin.cpp`, `plugin.context.h` | per tile: bounded decode queue, render queue, peeked frame, plane bits; global: `running`, end-of-stream flag | stream thread loop, poll, texture begin/end events, release | decoder, manager, host | three kinds of thread, an unlocked flag, blocking writes against a join. No frame lost or mixed, end of stream not lost, release returns | `TilePipeline`, `FrameStream` |
| Plugin lifecycle, `gallery/plugin.cpp`, `plugin.config.h` | configuration, loggers, executors, manager future, tile tables | load, initialize, create, prefetch, release | everything | releases with the index request pending, three joins, who drops the last reference, handlers that own nothing. Nothing used after it is gone | `PluginLifecycle` |
| Graphics, `gallery/graphic.cpp` | device, stored textures; a texture ring that stays empty | device events, textures stored and made for the host | host | textures of a device that is gone | `Graphic` |
| Trace databases, `gallery/database.leveldb.h`, `database.sqlite.h` | queue of entries, active flag, consumer | submit, persist, stop | threads that would trace: no program here makes one of these databases | producers racing the sentinel, keys given twice, partial batches. Nothing accepted before the stop is lost | `LeveldbSink`, `SqliteSink` |
| HTTP client session, `network/session.client.*`, `session.base.h` | request list, one parser, `active_`, strand | send, write done, response read, fail and close | io threads, manager, server | failures while requests are queued, exceptions out of handlers. Own answer, once, in order | `ClientSession`, `OrderedCalls` |
| Connector, `network/connector.*` | resolver, list of promises | resolve, connect, fail | io threads, manager | a failure with several tokens in the list. One holder for each promise | `Connector` |
| Asio pool, `network/net.cpp` | io_context, threads, work guard | run, stop, join | sessions, server | a handler's exception ends its thread; a thread that would join itself | in the modules above and below |
| DASH manager, `network/dash.manager.*` | parser, a session and cached initial segments per tile, trace index | stream index, tile streamer, session creation | connector, sessions, plugin | initial segments cached for ever, representation changes, pipelining | `DashManager` |
| DASH parser, `network/dash.protocal.*` | the parsed document | separate the audio set, three tasks | manager, executor | order of tasks, leftovers of `remove_if` | `DashParser` |
| Server session, `network/session.server.*` | completion promise, buffers | receive, answer, close | client | completion after every error, once; answers in order | `ServerSession` |
| Acceptor and server, `network/acceptor.*`, `server/*` | acceptor, promise, table of sessions, baton, options | options, accept, establish, stop | server sessions | stop racing accept. Stop returns, every session completes | `Server`, `ServerConfig` |
| Segmentor and cursors, `multimedia/io.*` | buffer list, offset, remaining frames | read, seek, consume | FFmpeg | block boundaries, end of data, frames kept back | `IoCursor`, `Segmentor` |
| Codec, `multimedia/context.*`, `media.*` | FFmpeg contexts, `flushed_` | decode, flush | segmentor | nothing sent after the flush. All frames, in order | `Segmentor` |
| Command line tools, `multimedia/command.*` | directories of files | crop, encode, package, segment, merge | FFmpeg, MP4Box | batches, files left by earlier commands, ids of merged sets | `Command`, `DashIndex` |
| Core library, `core/*` | barrier, latch, chains, executors | – | all | the concurrency headers are not used by the program | – |
| Unity scripts, `gallery/unity` | – | – | plugin | they use an older plugin interface | – |

## 2. What the modules model

### `TilePipeline` (with the abstract `FrameStream`)

The frame path of the plugin, the part on which everything the user sees
depends. One action is one step another thread can see the effect of.

| State | Code |
| --- | --- |
| `pc`, `pending` | where `stream_mpeg_dash` (plugin.cpp:223-270) is, and the frames of `frame_list` it has still to write |
| `written`, `decodeQueue`, `polled` | `decode.count`, `decode.queue`, `update.decode_success`. Frames are numbered as they are decoded; the number stands for the picture |
| `renderQueue`, `frame`, `textureState` | `render.queue`, `render.frame`, `update.texture_state` |
| `texture` | what `texData` pointed to for each plane |
| `endOfStream`, `running` | the static inside `state::stream::available` (102-112), `state::stream::running` |
| `main`, `tile`, `plane`, `at` | the main thread in or before `_nativeLibraryRelease`; the render thread inside `on_texture_update_event` |
| `updates`, `display` | texture updates the host has issued and not finished; history of the pictures completed |

The stream thread checks `running`, tries to write with an 80 ms timeout, and
goes round; after a `bad_response_error` it writes the empty frame and the
exception with `blockingWrite`, which does not look at `running`. The main thread
polls any tile and finally releases. The render thread's events are split where
they touch the shared end-of-stream flag: the test on entry (`BeginEvent`,
`EndEvent`), the write after `peek` (`PeekFrame`), and the test of what was
written (`CheckFrame`). The flag is a plain `bool` two threads write, so the last
test may see what the register holds or what memory holds by then; `CheckFrame`
allows both.

External, modelled from how `plugin.cpp` uses them: the two queues (folly,
moodycamel), the executor whose destructor joins, and the host, which issues one
texture update (planes 0, 1, 2, begin and end each) for each successful poll and
stops the render events before it destroys the tables.

`FrameStream` is the promise: decoding makes frames; showing puts the next frame
on screen, all three planes of it. `TilePipeline` implements it with
`decoded <- written`, `display <- display`.

### `ClientSession` (with the abstract `OrderedCalls`)

The HTTP client sessions on the threads of one `io_context`. The strand of a
session runs one handler at a time, so a handler is one action; what happens
between handlers is what the model interleaves: other sessions, the server's
answers, its shutting a connection down, resets.

| State | Code |
| --- | --- |
| `posted` | lambdas of `send_request` waiting in the strand (session.client.cpp:101-119) |
| `requestList`, `active` | `request_list_`, `active_` |
| `writing`, `reading` | the `async_write` and `async_read` operations in flight |
| `promise`, `answer` | the promise of each request; for which request its response was sent |
| `toServer`, `toClient`, `conn` | the connection (external TCP; the answers follow session.server.cpp:44-73) |
| `threads` | io threads that have not ended with an exception (net.cpp:147-167) |

The callers keep the discipline of `tile_streamer` and the stream thread: the
initial segment's request and the first tile request back to back, every other
tile request after the response before it. `FailThenClose` includes the throwing
`shutdown` of `close_socket`: on a reset connection it may throw, and then
`active_` stays true and the io thread ends.

`OrderedCalls` is the promise to the callers: calls are settled in order, once,
each with its own answer, and none is answered after a failure. The `DashManager`
uses this abstraction in the place of the sessions.

### `PluginLifecycle`, `Graphic`, composed in `Plugin`

`PluginLifecycle` is everything in `plugin.cpp` around the pipeline: the calls of the
host, which come one at a time, and what runs beside them.

| State | Code |
| --- | --- |
| `host`, `rounds` | the call in progress or completed; how often the library was initialized |
| `trace`, `registry` | `configs().trace.enable`; the names spdlog knows (every logger made is registered, the null loggers too) |
| `manager` | the `future<dash_manager>`: empty, pending, a value, an exception |
| `chain` | the continuations of `request_stream_index` (dash.manager.cpp:159-175), from the connection to the parser |
| `impl`, `destroyer` | `dash_manager::impl`: alive, with its sessions gone, with its io_context stopped, gone; the thread that runs its destructor |
| `reading`, `handling` | operations of the tiles' sessions in flight; handlers that are running on io threads |
| `streaming`, `running` | stream threads not ended; `state::stream::running` |
| `table`, `cache` | `tile_stream_table`, `tile_stream_cache` |

`_nativeLibraryRelease` is five actions, one for each thing it waits for or hands
over: the flag, the join of the stream threads with the loggers, the manager
future, the join of the executor, the rest. The manager is reference counted: the
chain holds a reference as long as it runs, then the future does; whoever drops the
last one destroys the impl, whose io_context stops and joins its threads. `Parse`
needs a second worker, because the parser waits for tasks on its own executor.

The handlers of the sessions are neither continuations nor owners: they hold a bare
`this` (session.client.cpp:43, 71, 107). A handler that sets a promise wakes a worker and
goes on (`Received`, `HandlerReturns`). The destructor of the impl destroys the sessions
(`DestroySessions`), then stops the io_context (`StopContext`), then joins its threads
(`JoinThreads`), which waits for the handlers; in between an aborted operation may still
enter one (`HandlerEnters`). `ImplOutlivesUsers` counts continuations and stream threads, who
need all of the impl, and for operations and handlers the io_context alone: that their
sessions outlive them is not so (run `plugin_handlers`).

A tile's index is an argument of the host; `TileIndex` is how the test that drives the plugin
computes it (gallery.test.cpp:81). `tile_index` and `tile_coordinate` in `plugin.cpp` have no
caller.

`Graphic` is the optional graphics entity: every device event, the textures the host stores
and those that are made for it. `Plugin` puts the two side by side; they share nothing but the
host.

### `Connector`, `DashManager`

`Connector` has one action per handler of `connector.cpp`. The list of tokens belongs
to a strand (`strand` holds the handlers that wait, in order), but `on_connect` runs
on any io thread, because its operation was started without the strand.
`fail_socket_then_cancel` is modelled as it is: it fails the promises in the list and
leaves them in it, and at the first that is settled already folly throws and the
io thread ends. The operator `Poisoned` says that this has happened.

`DashManager` composes it (`Net`) with one `OrderedCalls` per session (`Calls`; that a
session keeps this promise is what `ClientSession` is checked and proved for) and the
stream thread of each tile: session, predicted representation, initial segment if
it was never asked for, media segment, both futures. `asked` is what the requests of
a session stand for, `got` what the decoder is given.

### `ServerSession`, `ServerConfig`, composed in `Server`

`ServerSession` has one asynchronous operation at a time for each connection and one
action per handler; a response without a length (`NeedEof`) or any error closes the
socket and completes the session, with a value or, if the shutdown throws, an
exception. `ServerConfig` is options and configuration documents: which directory is
found, once, and what the entries say. `Server` is `main`, `server.hpp` and the acceptor:
the main thread's loop, the accept operation, the signal handler in three steps
(post the baton, close the acceptor, stop the pool), and the continuations of each
connection on the workers and on the serial executor. A stopped pool runs no
handler; `Stranded` names what then keeps the main thread.

### `LeveldbSink`, `SqliteSink`, composed in `TraceSink`

The two trace databases. Producers look at `active_` and enqueue in two steps; the
leveldb consumer runs in batches (`timed`) or blocks until the sentinel comes; the
canceller clears the flag, wakes the consumer and waits. An entry's key is the time and the
instance, and `Put` replaces what `store` has under it; `stored` is the history of the puts.
There is one consumer, so that what it has seen in the queue is still there when it takes
it: looking and taking are one step. The sqlite writer peeks for
a command, waits for a bulk, inserts the whole vector, and drains the queue at the
end. A program would include one of the two headers: `TraceSink` chooses the `backend`. They
stand in the plugin's directory and namespace, but nothing in this repository makes such a
database, so who produces, cancels and commands is read off the classes themselves.

### `IoCursor`, `Segmentor`; `Command`, `DashParser`, `DashIndex`; all in `Content`

`IoCursor` is `buffer_list_cursor`: reads and seeks of the demuxer over the list of
buffers, bytes named by their place. `Segmentor` is the demuxer's and the decoder's
loop on top of it, for each of the five ways a caller asks (`mode`). `Command` is the
preparation of the content: which tiles which directory holds after each command,
and the merge of the tiles' documents. `DashParser` reads such a document in tasks;
`DashIndex` composes the two, with an audio set added by hand or not. `Content` follows
one of the two halves, which do not interact.

## 3. Runs

| Run | Checks | Bounds |
| --- | --- | --- |
| `pipeline` (TilePipeline_MC.cfg) | `TypeOK`, `StreamOrder`, `EventAssertions`, `EndIsGenuine`, refinement `ShownInOrder` | 2 tiles, capacity 2, 3 frames per tile, segments of 1 or 2 frames |
| `pipeline_progress` (TilePipeline_Progress.cfg) | `StopNotLost`, `FramesShown`, `ReleaseReturnsIfRoom` | 2 tiles, capacity 2; one streams 3 frames, the other's first segment is refused |
| `pipeline_release` (TilePipeline_Release.cfg) | `ReleaseReturns`, violated | 1 tile, capacity 2, 2 frames |
| `session` (ClientSession_MC.cfg) | `TypeOK`, `OneOperation`, refinement `CallsInOrder`, `Settled` | 2 sessions, 2 threads, 4 requests each |
| `session_failure` (ClientSession_Failure.cfg) | `FailuresExpected`, violated | 1 session, 2 threads, 4 requests |
| `manager` (DashManager_MC.cfg) | `TypeOK`, `OneResolve`, `OneHolder`, `SegmentsInOrder`, `InitialBeforeMedia`, `WaitsEnd` | 2 tiles and the index, 2 representations, 2 threads, 5 requests per session |
| `plugin` (Plugin_MC.cfg) | `TypeOK`, `ExecutorUnique`, `ImplOutlivesUsers`, `CacheMatchesTable`, `ReleaseReturns`, `DeviceCurrent` | a 3x2 grid, 2 workers, 2 io threads, 2 rounds, 2 devices |
| `plugin_again` (Plugin_Again.cfg) | `InitializeSucceeds`, violated | a 1x1 grid, 2 rounds |
| `plugin_handlers` (Plugin_Handlers.cfg) | `HandlersFindSessions`, violated | a 1x1 grid, 2 io threads, 1 round |
| `server` (Server_MC.cfg) | `TypeOK`, `SessionOutlivesHandlers`, `AnsweredInOrder`, `ConfiguredAsAsked`, `ServerStops` | 2 connections, 2 endpoints, 1 io thread, 2 requests, 3 accepts, 5 launches |
| `trace` (TraceSink_MC.cfg) | `StoredInOrder`, `CountMatchesRows`, `CancelReturns`, `CommandEnds` | 2 producers with 3 events each, 2 keys; 4 events, bulks of 3 |
| `content` (Content_MC.cfg) | `BatchesComplete`, `MergeComplete`, `IndexMatchesPanorama`, `CursorConsistent`, `FramesComplete`, `CallsEnd` | 3x2 tiles, 2 qualities, stride 4, 1 tool failure; buffers of 3, 1, 4, 6 bytes, 7 packets, decoder delay 2 |

Why the bounds are enough. *Pipeline*: two tiles are what the end-of-stream flag
needs: it is the only state tiles share, and every race on it is between one tile's
poll and another tile's texture event. A third frame makes the decode queue of
capacity 2 overflow, so that writes time out; segments of one and two frames put
the end of a segment before, at and after the queue's limit. `pipeline_progress` has two
tiles that differ: three frames overflow the queue of the one, and the empty frame and
the exception of the other fill its queue exactly. Either tile's poll raises the flag while the
other's events may still clear it. *Session*: two sessions compete for two io threads, which
resets can end; of four requests the first two are pipelined and the others
sequential. *Manager*: three callers put one token at the front of the connector's
list, one behind it and one in the strand. With five requests a tile may stay with a
representation and then change it, or change it at once; a choice needs room for two
requests, so none is made after the fourth, and no tile comes back to a representation that
it left. That case is left to `SegmentOrder` and `InitialFirst`, which hold for every bound.
*Plugin*: 3x2 tells columns from rows; the second round meets what the first left; a second
device meets what the first left in the entity. Two io threads let a handler run while the
next one is entered. *Server*: one io thread is the case in which an
exception leaves none; three accepts are one more than connections. *Trace*: three
events of two producers put events before, between and after the flag and the
sentinel; with two keys, events of one key and of the other lie between them; four
events do not fit a bulk of three. *Content*: the stride 4 does not
divide 6 tiles; packets of 2 bytes straddle every border of the buffers; two packets
are not video, one of them between frames the decoder holds.

The tiles are symmetric in `pipeline` (no liveness is checked there). Deadlock checking
is off since the systems do come to an end: released, settled, stopped, drained.

What `pipeline_release` shows: `_nativeLibraryRelease` clears `running` and joins the
stream threads (plugin.cpp:417-418). A thread that meets the end of its stream
while its decode queue is full is then in `blockingWrite` (259 or 260); nobody
polls any more, and the join never returns. `ReleaseReturnsIfRoom` is the other
half: with room for what each thread has still to write, it does return.

What `session_failure` shows: `stream_mpeg_dash` expects a tile request to fail with
`bad_response_error` and asserts that anything else is unexpected (262, 266). If
the connection is reset while a request waits to be written, the error is
`bad_request_error`: the assertion fails, and a build without assertions ends the
stream thread without putting the empty frame and the exception in the queue, so
the end of the stream never reaches the host.

What `plugin_again` shows: a process that has released the library without tracing
cannot initialize it again, because the null loggers are still registered with
spdlog (plugin.cpp:394-412, 419), although a second test of gallery.test.cpp does so.

What `plugin_handlers` shows: the first thing every handler of a session does is to ask the
session's strand whether it runs there (session.client.cpp:45, 73). A stream thread asks for
the next segment and ends, because `running` is clear; the release drops the manager; the
impl destroys its sessions, which aborts the operation; its io_context, the first member
(dash.manager.cpp:56), is stopped only after that, and an io thread enters the handler of the
aborted operation when the session is gone. The release is safe from it only if no request
is in flight, or if the io_context is stopped and joined before the sessions are destroyed.
The same holds of a handler that has set its promise and goes on (session.client.h:77-81).

Some passing properties have to name what the code does not promise, and what they excuse is
not covered by them:

- `Settled`, `WaitsEnd` and `ServerStops` allow for a pool without threads; `ServerStops` also for
  one that is stopped with the accept handler still to run (`Stranded`), so the handler that is
  lost at server.hpp:62 is named by it and not caught;
- `WaitsEnd` allows for a connector whose list holds settled promises (`Poisoned`), so that later
  calls wait for ever after connector.cpp:20 is the escape; what is checked there is that no
  promise has two holders (`OneHolder`). It speaks of the wait only: the host is not told of a
  stream that ended before its first segment (plugin.cpp:226);
- `CommandEnds` leaves out a writer that waits with nothing queued (database.sqlite.h:115), and
  `CountMatchesRows` says nothing of rows that are doubled or blank;
- `ReleaseReturns` has two workers, as plugin.cpp:199 asserts, so the parser's wait
  (dash.protocal.cpp:187) always ends; with one worker `Parse` is never enabled;
- `IndexMatchesPanorama` promises all tiles only if no tool has failed (command.cpp:319), and
  the audio set only if it is the last (dash.protocal.cpp:164).

## 4. Fairness

Every fairness condition is weak fairness of threads, handlers or an answering
peer, with one exception; nothing makes a user act.

- `TilePipeline`: the threads are scheduled and the server answers in the end (`WF` of
  `StreamThread`); the host polls each tile in every one of its frames (`WF` of `Poll`);
  the render thread executes what it is given (`WF` of `RenderEvent`), and since
  updates are executed in the order of issue each tile gets its turn (`SF` of
  `StartUpdate`, which is disabled whenever another tile is being updated). The join
  ends when the threads have ended (`WF` of `JoinStreams`).
- `ClientSession`: io threads run handlers that are ready, and the server answers what
  it has received while the connection is open. No fairness on resets and
  shutdowns. Each exception out of `close_socket` ends a thread.
- `DashManager`: handlers, resolver, peers, continuations and stream threads; sessions
  settle their calls, which is `ClientSession!Settled`.
- `PluginLifecycle`: a call of the host that has begun goes on, workers run, requests are
  settled, handlers return, and a stream thread leaves once `running` is clear. The last is an
  assumption here: `TilePipeline` shows when it holds (`pipeline_release`,
  `ReleaseReturnsIfRoom`).
- `Server`: main thread, signal handler, continuations and, while there are io threads,
  the accept handler. No fairness on clients or signals.
- `LeveldbSink`, `SqliteSink`: consumer and canceller are scheduled, a batch's time ends.
- `Segmentor`: the caller goes on asking and libav reading.

## 5. Proofs

Each theorem holds for every value of the constants that satisfies the named
assumption of its module (`PipelineAssumption`: the capacity is positive, the bounds
are numbers, the marker values distinct; `LifecycleAssumption`: a grid with at least
one tile, at least one worker and one io thread; `SessionAssumption`: at least one io thread;
`PluginAssumption`: the number of devices is a number; `SinkAssumption`: room for an event in a bulk, and
no event is a default one; `ServerAssumption`: at least one io thread, and the states of an
accept operation are no connections; `ManagerAssumption`: the caller that asks for the stream
index is no tile, and a tile has a representation; `CommandAssumption`: at least one tile, a
stride of at least one, finitely many quantizers; `ParserAssumption`: a tile has a size;
`CursorAssumption`: no buffer is empty; `SegmentorAssumption`: packets have bytes, and the buffers
hold exactly the packets; `ConfigAssumption`: the types of options and documents; the paths of
the workset are strings, and one of them is a directory).

| Module | Theorem | States |
| --- | --- | --- |
| `TilePipelineProofs` | `Invariance` | `Spec => []IInv`, the inductive invariant |
| | `TypeCorrect` | `[]TypeOK` |
| | `FrameOrder` | `[]StreamOrder` |
| | `EndGenuine` | `[]EndIsGenuine` |
| | `Assertions` | `[]EventAssertions` |
| | `ShownInOrderHolds` | `Spec => ShownInOrder`, the refinement of `FrameStream` |
| `ClientSessionProofs` | `Invariance` | `Spec => []IInv` |
| | `TypeCorrect` | `[]TypeOK` |
| | `OneOperationHolds` | `[]OneOperation` |
| | `CallsInOrderHolds` | `Spec => CallsInOrder`, the refinement of `OrderedCalls` |
| `PluginProofs` | `LifeInvariance` | `Spec => []LifeInv` |
| | `LifeTypeCorrect` | `[]TypeOK` |
| | `ExecutorUniqueHolds` | `[]ExecutorUnique` |
| | `ImplOutlives` | `[]ImplOutlivesUsers` |
| | `CacheMatches` | `[]CacheMatchesTable` |
| | `PluginLives` | `PluginSpec => Spec`: with the graphics beside it the life is the same |
| | `TexturesCurrent` | `[]DeviceCurrent` |
| `ServerProofs` | `Invariance` | `Spec => []IInv` |
| | `SessionsOutlive` | `[]SessionOutlivesHandlers` |
| | `ResponsesMatch` | `[]AnsweredInOrder` |
| | `SetupInvariance` | `Spec => []SetupInv`, of the configuration and the schedule worker |
| | `TypeCorrect` | `[]TypeOK` |
| | `ConfigurationAsAsked` | `[]ConfiguredAsAsked` |
| `DashManagerProofs` | `Invariance` | `Spec => []IInv` |
| | `SegmentOrder` | `[]SegmentsInOrder` |
| | `InitialFirst` | `[]InitialBeforeMedia` |
| | `ConnectorInvariance` | `Spec => []NetInv`, of the connector |
| | `OneResolveAtATime` | `[]OneResolve` |
| | `OnePromiseHolder` | `[]OneHolder` |
| | `TypeCorrect` | `[]TypeOK` |
| `TraceSinkProofs` | `Invariance` | `SinkSpec => []IInv`, of the leveldb sink |
| | `StoredOrder` | `[]StoredInOrder` |
| | `CountMatches` | `[]CountMatchesRows` |
| `ContentProofs` | `CursorConsistency` | `ContentSpec => []CursorConsistent` |
| | `FramesCompleteness` | `[]FramesComplete` |
| | `FilesInvariance` | `[]FilesInv`, of the commands' files |
| | `BatchesCompleteness` | `[]BatchesComplete` |
| | `MergeInvariance` | `[]MergeInv`, of the document being merged |
| | `MergeCompleteness` | `[]MergeComplete` |
| | `IndexInvariance` | `[]IndexInv`, of the parser |
| | `IndexIsPanorama` | `[]IndexMatchesPanorama` |

So every invariant that a run checks is proved, and both refinements. `SequenceFacts` holds
what the other modules cite: appending to a queue and taking from it, entries that a queue
holds once (`Has`, `Once`, `OnePlace`), splitting and joining sequences, division with
remainder, and induction. The library's induction theorems take a predicate, which the
provers cannot be given; `AllNumbers` and `NumbersUpTo` say the same of a set of numbers, and
the induction hypothesis is then that a number is in the set. `Recursion` is that a function
defined by its previous value exists, so that the recursive functions of the models
(`Partial`, `Rounds`, `WantedUpTo`, `VideoSets`) have the values their definitions give.

### The pipeline

`StreamOrder` alone is not inductive. When an end event pops the render queue one
must know that the queue is not empty and that its front is the frame whose
planes were taken. So `IInv` adds:

- `UpdatesMatch`: a tile's outstanding updates are its queued frames, one for one,
  plus one for a polled exception;
- `FrameHeld`: which frame, and which of its planes, the render thread holds is
  fixed by the event it is in;
- both only while no event has been skipped (`Unskipped`). Once an event has
  returned early because the flag was up, the count of updates no longer matches
  the queue; but then the flag stays up, because only a begin event that found it
  down can lower it (`PeekFrame`). While the render thread is between that test
  and its write, raising the flag is harmless and may be undone;
- `FrontFrame` (lemma): with an update outstanding the render queue is not empty. If
  it were, the exception would have been polled, so the empty frame before it
  would have been counted among the pictures shown, which `DisplayInv` excludes;
- `ThreadInv`: a thread in its write loop has a frame to write, within `MaxFrames`,
  which the refinement needs for `Decode`.

Each action has one lemma `...Step` that it preserves `IInv`; `AppendEntries`, `TailEntries`,
`TakeNext` and `AddNext` are what the queue operations do to numbered items.

### The client sessions

`OneOperation` does not say which requests are in the list, so it does not survive a
step that goes on to the next one. `IInv` says:

- `Window`: there are numbers k and n such that the requests up to k are settled,
  those up to n sent; list and posted lambdas together are exactly k+1..n, in order,
  and n is at most k+2, by the discipline of the callers;
- `OperationInv`: `OneOperation` of one session;
- `WireInv`: what is on the wire is the request at the front, and only while its
  response is awaited; an inactive session has an empty list and a closed
  connection;
- `FailedInv`: once a request has failed nothing is read; and if the session is still
  active then its connection was reset, which is the case of a `close_socket` that
  threw. Without it a later request could be answered after the failure, which
  `OrderedCalls` forbids.

A step changes one session only (`Elsewhere`), so there is one lemma per handler for
that session; the three failures share `FailStep`. For the refinement, a posted
request that is refused and a failed list are both `Fail`, with the last request
that fails as witness (`FailRefines`); reading a value is `Answer` of request k+1.

### The plugin's life

`ExecutorUnique` speaks of the end of the release and says nothing about how one gets
there. `LifeInv` adds `Contexts` (a stopped io_context has no operation left to enter a handler,
and one that is gone has no handler running), `Ownership` (as long as the chain runs it owns an impl that is
alive; when it has run, either the future owns it or one thread is destroying it) and
`Phases` (what the host's call in progress says of chain, future and stream
threads). `CacheMatches` rests on its own invariant `TableInv` and on two lemmas about
division with remainder: on every grid the index the host computes names one place of the
cache, and the tile is found back from it (`TileCoordinate`, in the proof only).

### The graphics

`DeviceCurrent` is inductive but for the step that makes a texture, for which `GraphicInv` adds
that an entity that is there has the host's device. A device event makes the entity anew, so
nothing of an old device is left, though `clear()` would leave the temporary textures alone.

### The server

`SessionOutlivesHandlers` holds because of `Ownership`: the map holds exactly the open
connections, an operation is in flight only on a connection that is open and not
completed, and the socket that is being accepted belongs to none in progress.
`AnsweredInOrder` needs `Matched`: the request read last has its response in flight, with
the status it deserves, or has been answered, and only the last response of a connection
can be an error, since a failed one ends the session.

### The manager

`SegmentsInOrder` speaks of what a stream thread has got, while the code only knows
futures. `SessionInv` says that a session settles its calls in the order they were made,
each with its own answer, for which the step of the session is `ClientSession`'s promise
(`OrderedCalls`, proved above); `CallsCounted` that the n-th request of a tile is the n-th
call on its session; `InitialAsked` that no media segment is asked for before the initial
segment of its representation; `Progress` how far the thread is between choosing a
representation and getting the last answer (`DataIsLast`).

### The trace databases

`StoredInOrder` looks at what was stored only, but its order was made when the events were
put into the queue, and it must hold whether a producer that saw the flag up enqueues before
or after the cancel. `IInv` has `Ordered` and `Offered` (entries stored and entries queued,
read one after the other, are in each producer's order, and older than what it is about to
enqueue) and `EarlyKept` (what was there at the cancel is a prefix of both until the consumer
is done). A blocked consumer ends at the sentinel, which is no entry (`NoItem`) and so lies
behind that prefix. `Latest` is that an entry put under a key is found there or has been
replaced by a later one, which only `Put` could disturb (`PutLatest`). `CountMatchesRows` rests on `Counted`: what a larger bulk left in the
vector has a row already, so that storing the whole vector again adds no event; a bulk
adds as many as it has elements (`AllElements`, `RowsAdded`).

### The connector

Both properties count entries of queues. `NetInv` says who holds a promise instead:
`HolderInv` that a caller is at most once in the strand and at most once in the list, in one
of strand, list and connect operation only, and in one of them while its promise is open;
`ResolveInv` that a resolve operation in flight has no handler waiting and the other way
round, that the list is then not empty, and that a list without resolve operation is what a
failure left, of which some caller has learnt. The counts follow (`OnePlace`), even from the
states in which a failure has left settled promises in the list.

`TypeOK` of the manager bounds the futures that a tile waits for. `OpenInv` has the reason: the
open requests of a tile are among the two that its thread sent last.

### The server's setup

`ConfiguredAsAsked` is about the time after the configuration was read. `ConfigInv` follows the
list of directories to that time: `ConfigPathFound` is that the last one that exists is found,
which is the one asked for if it exists. `ScheduleInv` ties the schedule worker to the limit
and to the sessions.

### The cursor and the frames

A read is a loop, so `CursorStep` is an induction over its rounds: after each the bytes copied
are those up to the place (`RoundReads`). A loop of as many rounds as there are buffers has
either read enough or reached the end. For a seek, the buffer that `find_if` finds is the
first that ends behind the target, so it begins before it (`BytesBefore`).

`FramesComplete` says nothing of frames that are still in the decoder. `FramesInv`: what the
caller got, what waits in `remain_consume` and what the decoder holds, in this order, is what
is wanted of the packets read (`Frames`), and after the flush nothing is held (`CallInv`).

### The commands, the merge and the index

`FilesInv`: while no tool has failed, the tiles with a number below that of the next batch are
encoded, and those whose turn was earlier are packaged, `Turn` being the order of the loops; a
mesh that is segmented has what was packaged. `MergeInv`: the sets of the document are in the
order of their coordinates and no coordinate that is still to be read lies before the last of
them (`Ordered`, `Ahead`), because documents are read in that order; hence a coordinate that
is not that of the last set has no set yet. `Covers` says that the places of the document and
the documents read are as many and correspond; one more of each keeps it (`CoversOneMore`),
whether the set is new (`AddSet`) or there already (`AddRepresentation`). `IndexInv`: once
parsing has begun nothing changes the document (`MergedLasts`); the video sets are those that
were merged wherever the audio set was put (`VideoOfMerged`), and what a task leaves depends
on the document and on the tasks it waits for, not on the others. The sizes come back by
`SizesBack`.

### Only model-checked

Everything under fairness (`StopNotLost`, `FramesShown`, `ReleaseReturnsIfRoom`, `Settled`,
`WaitsEnd`, `ReleaseReturns`, `ServerStops`, `CancelReturns`, `CommandEnds`, `CallsEnd`), which the
prover cannot treat. Nothing else that a run checks is without a proof.

## 6. Not modelled

- The core library's `barrier.hpp`, `latch.hpp`, `async_chain.hpp` and `synchronize.hpp`: no
  translation unit of the program includes them.
- `random_access_cursor`, `generic_cursor` and `file_cursor` of `io.cursor.cpp`, and the
  `cursor` they seek with: no caller in the plugin or the tools.
- `graphic.cpp`: the bodies of the Direct3D calls; the update and render event paths
  under `PLUGIN_RENDER_CALLBACK`, which no build defines; the texture ring with all of its
  operations (`emplace_ring_back_if_vacant`, `copy_backward_texture_region`,
  `rotate_ring_front_if_full`, `has_rendered_texture`, `available_texture_slot`), which nothing
  calls, so that the ring is always empty.
- `plugin.cpp`: `tile_index` and `tile_coordinate` (116-126), which nothing calls.
- `context.cpp`, `media.cpp`: the wrapping of FFmpeg's handles, formats and pixels. The
  decoder is what `Segmentor` says of it: it may keep frames back, in order, until it is
  flushed.
- `dash.protocal.cpp`: numbers and durations out of attribute strings.
- `command.cpp`: `resize`, which only calls ffmpeg and keeps no state. That MP4Box refuses
  a stray document in a directory of containers is a guard of `DashSegment`.
- The Unity scripts, which call an interface the plugin no longer has. The host is
  external: it makes its calls one at a time and stops its render events before it
  releases the library. The code cannot enforce either (`on_texture_update_event`
  indexes the cache that `_nativeLibraryRelease` empties).
- Lengths: sizes and counters are unbounded numbers; none in the modelled code comes
  near its width.

What would add most from here: the safety that the liveness properties rest on, proved as
invariants (who is scheduled when a wait is open); that each session of `DashManager`, which
keeps the promise of `OrderedCalls`, may be replaced by `ClientSession` (the refinement is proved
for the latter alone); a composition of `TilePipeline` with `DashManager` in one state space,
which is out of TLC's reach at the bounds above but not of the prover's.
