------------------------------ MODULE PluginProofs ------------------------------
(***************************************************************************)
(* Theorems about the plugin.  First the life of its library resources,    *)
(* for every grid of tiles, every number of workers and of rounds.         *)
(*                                                                         *)
(* The argument: the chain of continuations owns the impl as long as it    *)
(* runs; when it has run, either the future owns the impl or the thread    *)
(* that dropped the last reference is destroying it (Ownership).  What the *)
(* host's call in progress says of the future and of the stream threads    *)
(* (Phases) then decides who still uses what.  The io_context is the last  *)
(* of the impl to go: stopped, it enters no handler, and it is not gone    *)
(* before those that run have returned (Contexts).                         *)
(*                                                                         *)
(* Beside it, the graphics entity, for any number of devices: a device     *)
(* event makes it anew, so that what it keeps is of the host's device.     *)
(***************************************************************************)
EXTENDS Plugin, SequenceFacts

(* Who owns the impl, and who destroys it.                                 *)
Ownership ==
    /\ manager = "pending" => chain \notin {"none", "drop"}
    /\ manager = "value" => chain = "none"
    /\ chain \notin {"none", "drop"} => impl = "alive" /\ destroyer = "nobody"
    /\ chain = "drop" => impl # "none" /\ destroyer = "worker"
    /\ chain = "none" =>
          \/ destroyer = "main" /\ impl # "none" /\ host = "join3"
          \/ destroyer = "nobody" /\ impl = (IF manager = "value" THEN "alive" ELSE "none")

(* What holds between and during the host's calls.                         *)
Phases ==
    /\ host \in {"idle", "configured", "initialized", "threw", "joined", "released"} =>
          chain = "none" /\ destroyer = "nobody" /\ manager = "empty"
    /\ host = "join3" => manager = "empty"
    /\ host \in {"informed", "prefetched"} => manager = "value"
    /\ streaming > 0 => manager = "value" /\ host \in {"prefetched", "join1"}

(* How long operations are in flight and handlers run.                     *)
Contexts ==
    /\ impl \in {"none", "stopped"} => reading = 0
    /\ impl = "none" => handling = 0

LifeInv == TypeOK /\ Ownership /\ Phases /\ Contexts

---------------------------------------------------------------------------------
LEMMA GridSize == Cols * Rows \in Nat \ {0}
BY LifecycleAssumption

LEMMA InitLife == Init => LifeInv
<1> SUFFICES ASSUME Init PROVE LifeInv
  OBVIOUS
<1>1. /\ streaming \in 0..(Cols * Rows) /\ reading \in 0..(Cols * Rows)
      /\ handling \in 0..IoThreads
  BY GridSize, LifecycleAssumption DEF Init
<1>2. rounds \in 0..MaxRounds
  BY LifecycleAssumption DEF Init
<1>3. TypeOK
  BY <1>1, <1>2 DEF Init, TypeOK, Calls
<1>4. Ownership /\ Phases /\ Contexts
  BY GridSize DEF Init, Ownership, Phases, Contexts
<1> QED BY <1>3, <1>4 DEF LifeInv

LEMMA NextLife == LifeInv /\ [Next]_vars => LifeInv'
<1> SUFFICES ASSUME LifeInv, [Next]_vars PROVE LifeInv'
  OBVIOUS
<1> USE DEF LifeInv
<1>a. CASE ConfigLoad
  BY <1>a DEF ConfigLoad, FromTemplate, FromDocument, TypeOK, Ownership, Phases, Contexts,
              Calls, chainVars, implVars, ioVars, tileVars
<1>b. CASE Initialize
  BY <1>b, LifecycleAssumption
     DEF Initialize, ResetResource, MakeLogger, TypeOK, Ownership, Phases, Contexts,
         Calls, implVars, ioVars
<1>c. CASE DashCreate
  BY <1>c DEF DashCreate, MakeLogger, TypeOK, Ownership, Phases, Contexts, Calls, implVars,
              ioVars, tileVars
<1>d. CASE DashGraphicInfo
  BY <1>d DEF DashGraphicInfo, TypeOK, Ownership, Phases, Contexts, Calls, chainVars,
              implVars, ioVars, tileVars
<1>e. CASE DashCreateTileStream
  BY <1>e DEF DashCreateTileStream, TypeOK, Ownership, Phases, Contexts, Calls, chainVars,
              implVars, ioVars
<1>f. CASE DashPrefetch
  BY <1>f, LifecycleAssumption
     DEF DashPrefetch, TypeOK, Ownership, Phases, Contexts, Calls, chainVars, implVars,
         ioVars, tileVars
<1>g. CASE StreamAsks \/ StreamEnds
  BY <1>g, LifecycleAssumption, GridSize
     DEF StreamAsks, StreamEnds, TypeOK, Ownership, Phases, Contexts, Calls, chainVars,
         implVars, ioVars, tileVars
<1>h. CASE IndexStep
  <2>1. CASE Connected \/ Send \/ Parse
    BY <2>1 DEF Connected, Send, Parse, Goto, TypeOK, Ownership, Phases, Contexts, Calls,
                implVars, tileVars
  <2>2. CASE Received
    BY <2>2, LifecycleAssumption
       DEF Received, Goto, TypeOK, Ownership, Phases, Contexts, Calls, implVars, tileVars
  <2>3. CASE Finish
    BY <2>3 DEF Finish, Destroy, ContinuationThread, TypeOK, Ownership, Phases, Contexts,
                Calls, ioVars, tileVars
  <2> QED BY <1>h, <2>1, <2>2, <2>3 DEF IndexStep
<1>i. CASE ImplStep
  <2>1. CASE DestroySessions
    BY <2>1 DEF DestroySessions, TypeOK, Ownership, Phases, Contexts, Calls, chainVars,
                ioVars, tileVars
  <2>2. CASE StopContext
    BY <2>2, GridSize
       DEF StopContext, TypeOK, Ownership, Phases, Contexts, Calls, chainVars, tileVars
  <2>3. CASE JoinThreads
    BY <2>3 DEF JoinThreads, Joined, ContinuationThread, TypeOK, Ownership, Phases,
                Contexts, Calls, ioVars, tileVars
  <2> QED BY <1>i, <2>1, <2>2, <2>3 DEF ImplStep
<1>j. CASE Release
  BY <1>j DEF Release, Stop, TypeOK, Ownership, Phases, Contexts, Calls, chainVars,
              implVars, ioVars, tileVars
<1>k. CASE ReleaseStep
  BY <1>k DEF ReleaseStep, DropLoggers, DropManager, JoinExecutor, Released,
              LastReference, ExecutorIdle, ResetResource, Destroy, TypeOK, Ownership,
              Phases, Contexts, Calls, chainVars, implVars, ioVars, tileVars
<1>m. CASE HandlerEnters \/ HandlerReturns
  BY <1>m, LifecycleAssumption, GridSize
     DEF HandlerEnters, HandlerReturns, HandlersOnly, TypeOK, Ownership, Phases, Contexts,
         Calls, chainVars, implVars, tileVars
<1>l. CASE UNCHANGED vars
  BY <1>l DEF vars, TypeOK, Ownership, Phases, Contexts, Calls, chainVars, implVars, ioVars,
              tileVars
<1> QED BY <1>a, <1>b, <1>c, <1>d, <1>e, <1>f, <1>g, <1>h, <1>i, <1>j, <1>k, <1>l, <1>m
           DEF Next

(* In every state somebody owns the impl, or it is destroyed.              *)
THEOREM LifeInvariance == Spec => []LifeInv
BY InitLife, NextLife, PTL DEF Spec

---------------------------------------------------------------------------------
(* What the run checks of the resources' life.                             *)

(* The plugin's resources keep their types, and the impl is never destroyed*)
(* by an io thread it would have to join (net.cpp:131).                    *)
THEOREM LifeTypeCorrect == Spec => []TypeOK
BY LifeInvariance, PTL DEF LifeInv

(* The executor is the only one left to refer to itself when it is joined  *)
(* and the library released (the assertion at plugin.cpp:429).             *)
THEOREM ExecutorUniqueHolds == Spec => []ExecutorUnique
<1>1. LifeInv => ExecutorUnique
  BY DEF LifeInv, TypeOK, Ownership, Phases, ExecutorUnique
<1> QED BY <1>1, LifeInvariance, PTL

(* Nobody who uses the manager's sessions and io threads finds them gone   *)
(* (dash.manager.cpp:160-174, plugin.cpp:224), and the io_context outlives *)
(* its handlers (net.cpp:123-140).                                         *)
THEOREM ImplOutlives == Spec => []ImplOutlivesUsers
<1>1. LifeInv => ImplOutlivesUsers
  <2> SUFFICES ASSUME LifeInv PROVE ImplOutlivesUsers
    OBVIOUS
  <2>1. CASE chain \notin {"none", "drop"}
    BY <2>1 DEF LifeInv, Ownership, ImplOutlivesUsers
  <2>2. ASSUME streaming > 0 PROVE impl = "alive" /\ destroyer = "nobody"
    BY <2>2 DEF LifeInv, Ownership, Phases
  <2>3. reading > 0 \/ handling > 0 => impl # "none"
    BY DEF LifeInv, Contexts
  <2> QED BY <2>1, <2>2, <2>3 DEF ImplOutlivesUsers
<1> QED BY <1>1, LifeInvariance, PTL

---------------------------------------------------------------------------------
(* The grid of tiles.                                                      *)

Indices == 1..(Cols * Rows)

(* The tile that the host gives an index to.                               *)
TileCoordinate(i) == <<(i - 1) % Cols, (i - 1) \div Cols>>

(* A tile's index is one of the cache, and the tile is found back from it. *)
LEMMA IndexOfCoordinate ==
    ASSUME NEW t \in Coordinates
    PROVE  /\ Options(t).index \in Indices
           /\ TileCoordinate(Options(t).index) = t
<1> DEFINE c == t[1]  r == t[2]
<1>1. c \in 0..(Cols - 1) /\ r \in 0..(Rows - 1) /\ t = <<c, r>>
  BY DEF Coordinates
<1>2. r * Cols \in Nat /\ (r + 1) * Cols <= Cols * Rows
  BY <1>1, LifecycleAssumption
<1>3. Options(t).index = c + r * Cols + 1
  BY DEF Options, TileIndex
<1>4. Options(t).index \in Indices
  BY <1>1, <1>2, <1>3, GridSize, LifecycleAssumption DEF Indices
<1>5. (c + r * Cols) % Cols = c /\ (c + r * Cols) \div Cols = r
  BY <1>1, Division, LifecycleAssumption
<1>6. c + r * Cols \in Nat
  BY <1>1, <1>2, LifecycleAssumption
<1>7. \A k \in Nat : TileCoordinate(k + 1) = <<k % Cols, k \div Cols>>
  BY DEF TileCoordinate
<1>8. TileCoordinate(Options(t).index) = <<c, r>>
  BY <1>3, <1>5, <1>6, <1>7
<1> QED BY <1>1, <1>4, <1>8

(* Every index of the cache is that of one tile of the panorama.           *)
LEMMA CoordinateOfIndex ==
    ASSUME NEW i \in Indices
    PROVE  /\ TileCoordinate(i) \in Coordinates
           /\ Options(TileCoordinate(i)).index = i
<1> DEFINE c == (i - 1) % Cols  r == (i - 1) \div Cols
<1>1. i - 1 \in Nat /\ i - 1 < Cols * Rows
  BY GridSize DEF Indices
<1>2. c \in 0..(Cols - 1) /\ r \in Nat /\ i - 1 = c + r * Cols
  BY <1>1, Remainder, LifecycleAssumption
<1>3. r < Rows
  <2>1. ASSUME Rows <= r PROVE FALSE
    <3>1. PICK d \in Nat : r = Rows + d
      <4>1. r - Rows \in Nat /\ r = Rows + (r - Rows)
        BY <1>2, <2>1, LifecycleAssumption
      <4> QED BY <4>1
    <3>2. r * Cols = Rows * Cols + d * Cols /\ d * Cols \in Nat
      BY <3>1, LifecycleAssumption
    <3> HIDE DEF c, r
    <3> QED BY <1>1, <1>2, <3>2, GridSize, LifecycleAssumption
  <2> QED BY <2>1, <1>2, LifecycleAssumption
<1>4. TileCoordinate(i) = <<c, r>>
  BY DEF TileCoordinate
<1>5. TileCoordinate(i) \in Coordinates
  BY <1>2, <1>3, <1>4, LifecycleAssumption DEF Coordinates
<1>6. Options(TileCoordinate(i)).index = c + r * Cols + 1
  BY <1>4 DEF Options, TileIndex
<1>7. c + r * Cols + 1 = i
  <2> HIDE DEF c, r
  <2>1. i \in Int /\ i - 1 = c + r * Cols
    BY <1>2, GridSize DEF Indices
  <2> QED BY <2>1, <1>2, LifecycleAssumption
<1> QED BY <1>5, <1>6, <1>7

LEMMA CoordinateCount == IsFiniteSet(Coordinates) /\ Cardinality(Coordinates) = Cols * Rows
<1>1. /\ IsFiniteSet(0..(Cols - 1)) /\ Cardinality(0..(Cols - 1)) = Cols
      /\ IsFiniteSet(0..(Rows - 1)) /\ Cardinality(0..(Rows - 1)) = Rows
  <2>1. ASSUME NEW n \in Nat \ {0}
        PROVE  IsFiniteSet(0..(n - 1)) /\ Cardinality(0..(n - 1)) = n
    <3>1. 0 \in Int /\ n - 1 \in Int /\ ~(0 > n - 1) /\ (n - 1) - 0 + 1 = n
      OBVIOUS
    <3> QED BY <3>1, FS_Interval
  <2> QED BY <2>1, LifecycleAssumption
<1>2. /\ IsFiniteSet(Coordinates)
      /\ Cardinality(Coordinates)
           = Cardinality(0..(Cols - 1)) * Cardinality(0..(Rows - 1))
  BY <1>1, FS_Product DEF Coordinates
<1> QED BY <1>1, <1>2

---------------------------------------------------------------------------------
(* The tile tables.                                                        *)

LEMMA EntryIsSomething ==
    ASSUME NEW t
    PROVE  Options(t) # Nothing
<1>1. DOMAIN Options(t) = {"coordinate", "index"} /\ DOMAIN Nothing = {}
  BY DEF Options, Nothing
<1> QED BY <1>1

(* The cache, once it is made, has an entry for each index that has one.   *)
CacheInv ==
    \/ cache = Nothing /\ table = {}
    \/ /\ DOMAIN cache = Indices /\ cache = [i \in Indices |-> cache[i]]
       /\ \A i \in Indices :
             cache[i] = IF TileCoordinate(i) \in table THEN Options(TileCoordinate(i))
                                                       ELSE Nothing

TableInv ==
    /\ CacheInv
    /\ host = "prefetched" => Cardinality(table) = Cols * Rows

(* A context goes to the place in the cache that its index names.          *)
LEMMA TableStep == LifeInv /\ TableInv /\ [Next]_vars => TableInv'
<1> SUFFICES ASSUME LifeInv, TableInv, [Next]_vars PROVE TableInv'
  OBVIOUS
<1>1. CASE DashCreateTileStream
  <2> DEFINE made == IF cache = Nothing THEN [i \in Indices |-> Nothing] ELSE cache
  <2>1. PICK t \in Coordinates \ table :
           /\ table' = table \cup {t}
           /\ cache' = [made EXCEPT ![Options(t).index] = Options(t)]
           /\ host' = host /\ host = "informed"
    BY <1>1 DEF DashCreateTileStream, Indices
  <2>2. /\ made = [i \in Indices |-> made[i]]
        /\ \A i \in Indices :
             made[i] = IF TileCoordinate(i) \in table THEN Options(TileCoordinate(i))
                                                      ELSE Nothing
    <3>1. CASE cache = Nothing
      <4>1. table = {}
        <5>1. DOMAIN cache = {}
          BY <3>1 DEF Nothing
        <5>2. 1 \in Indices
          BY GridSize DEF Indices
        <5> QED BY <5>1, <5>2 DEF TableInv, CacheInv
      <4> QED BY <3>1, <4>1
    <3>2. CASE cache # Nothing
      BY <3>2 DEF TableInv, CacheInv
    <3> QED BY <3>1, <3>2
  <2>3. Options(t).index \in Indices /\ TileCoordinate(Options(t).index) = t
    BY <2>1, IndexOfCoordinate
  <2>4. DOMAIN cache' = Indices /\ cache' = [i \in Indices |-> cache'[i]]
    <3> HIDE DEF made
    <3> QED BY <2>1, <2>2
  <2>5. ASSUME NEW i \in Indices
        PROVE  cache'[i] = IF TileCoordinate(i) \in table' THEN Options(TileCoordinate(i))
                                                           ELSE Nothing
    <3> HIDE DEF made
    <3>1. CASE i = Options(t).index
      BY <3>1, <2>1, <2>2, <2>3
    <3>2. CASE i # Options(t).index
      <4>1. TileCoordinate(i) # t
        BY <3>2, CoordinateOfIndex
      <4>2. cache'[i] = made[i]
        BY <2>1, <2>2, <3>2
      <4> QED BY <2>1, <2>2, <4>1, <4>2
    <3> QED BY <3>1, <3>2
  <2> QED BY <2>1, <2>4, <2>5 DEF TableInv, CacheInv
<1>2. CASE DashPrefetch
  BY <1>2 DEF DashPrefetch, TableInv, CacheInv, tileVars
<1>3. CASE Initialize \/ Released
  BY <1>3 DEF Initialize, Released, ResetResource, TableInv, CacheInv
<1>4. CASE ConfigLoad \/ DashCreate \/ DashGraphicInfo \/ Release
  BY <1>4 DEF ConfigLoad, FromTemplate, FromDocument, DashCreate, DashGraphicInfo, Release,
              TableInv, CacheInv, tileVars
<1>5. CASE StreamAsks \/ StreamEnds \/ HandlerEnters \/ HandlerReturns
  BY <1>5 DEF StreamAsks, StreamEnds, HandlerEnters, HandlerReturns, HandlersOnly, TableInv,
              CacheInv, tileVars
<1>8. CASE IndexStep \/ ImplStep
  BY <1>8 DEF IndexStep, Connected, Received, Send, Parse, Goto, Finish, ImplStep,
              DestroySessions, StopContext, JoinThreads, TableInv, CacheInv, tileVars
<1>6. CASE DropLoggers \/ DropManager \/ JoinExecutor
  BY <1>6 DEF DropLoggers, DropManager, JoinExecutor, TableInv, CacheInv, tileVars
<1>7. CASE UNCHANGED vars
  BY <1>7 DEF vars, TableInv, CacheInv, tileVars
<1> QED BY <1>1, <1>2, <1>3, <1>4, <1>5, <1>6, <1>7, <1>8
           DEF Next, ReleaseStep

LEMMA TableInvariance == Spec => []TableInv
<1>1. Init => TableInv
  BY DEF Init, TableInv, CacheInv
<1> QED BY <1>1, TableStep, LifeInvariance, PTL DEF Spec

(* The texture events find the context of the tile whose index they carry  *)
(* and the prefetch leaves no index without one (plugin.cpp:211-220, 477). *)
THEOREM CacheMatches == Spec => []CacheMatchesTable
<1>1. LifeInv /\ TableInv => CacheMatchesTable
  <2> SUFFICES ASSUME LifeInv, TableInv PROVE CacheMatchesTable
    OBVIOUS
  <2>1. CASE cache = Nothing /\ table = {}
    <3>1. DOMAIN cache = {}
      BY <2>1 DEF Nothing
    <3>2. host # "prefetched"
      BY <2>1, FS_EmptySet, GridSize DEF TableInv
    <3> QED BY <3>1, <3>2, <2>1 DEF CacheMatchesTable
  <2>2. CASE ~(cache = Nothing /\ table = {})
    <3>1. DOMAIN cache = Indices
      BY <2>2 DEF TableInv, CacheInv
    <3>2. ASSUME NEW i \in Indices
          PROVE  /\ cache[i] # Nothing <=> TileCoordinate(i) \in table
                 /\ cache[i] # Nothing => cache[i] = Options(TileCoordinate(i))
      BY <2>2, EntryIsSomething DEF TableInv, CacheInv
    <3>3. ASSUME NEW i \in Indices, cache[i] # Nothing
          PROVE  cache[i].index = i /\ cache[i].coordinate = TileCoordinate(i)
      <4>1. cache[i] = Options(TileCoordinate(i))
        BY <3>2, <3>3
      <4>2. Options(TileCoordinate(i)).coordinate = TileCoordinate(i)
        BY DEF Options
      <4> QED BY <4>1, <4>2, CoordinateOfIndex
    <3>4. table = {TileCoordinate(i) : i \in {j \in Indices : cache[j] # Nothing}}
      <4>1. ASSUME NEW t \in table
            PROVE  \E i \in Indices : cache[i] # Nothing /\ t = TileCoordinate(i)
        <5>1. t \in Coordinates
          BY DEF LifeInv, TypeOK
        <5> QED BY <5>1, <3>2, IndexOfCoordinate
      <4> QED BY <4>1, <3>2
    <3>5. ASSUME host = "prefetched", NEW i \in Indices PROVE cache[i] # Nothing
      <4>1. table = Coordinates
        BY <3>5, CoordinateCount, FS_Subset DEF TableInv, LifeInv, TypeOK
      <4> QED BY <4>1, <3>2, CoordinateOfIndex
    <3> QED BY <3>1, <3>3, <3>4, <3>5 DEF CacheMatchesTable
  <2> QED BY <2>1, <2>2
<1> QED BY <1>1, LifeInvariance, TableInvariance, PTL

---------------------------------------------------------------------------------
(* The graphics entity.                                                    *)

(* What the entity keeps, and what was made last, is of the host's device. *)
GraphicInv ==
    /\ devices \in Nat
    /\ entity => device_ = device
    /\ DeviceCurrent

LEMMA InitGraphic == PluginInit => GraphicInv
BY DEF PluginInit, Graphics!Init, GraphicInv, DeviceCurrent, Graphics!DeviceCurrent

(* A new device finds nothing of the one before; between device events     *)
(* only textures of this device come.                                      *)
LEMMA NextGraphic == GraphicInv /\ [PluginNext]_pluginVars => GraphicInv'
<1> SUFFICES ASSUME GraphicInv, [PluginNext]_pluginVars PROVE GraphicInv'
  OBVIOUS
<1> USE DEF GraphicInv, DeviceCurrent, Graphics!DeviceCurrent
<1>1. CASE Graphics!DeviceInitialize
  BY <1>1 DEF Graphics!DeviceInitialize, Graphics!Emplace
<1>2. CASE Graphics!OnShutdown
  BY <1>2 DEF Graphics!OnShutdown, Graphics!Fresh
<1>3. CASE Graphics!UnityPluginUnload
  BY <1>3 DEF Graphics!UnityPluginUnload, Graphics!content
<1>4. CASE Graphics!SetTextures
  BY <1>4 DEF Graphics!SetTextures, Graphics!StoreTextures, Graphics!StoreTempTextures
<1>5. CASE Graphics!CreateTextures
  BY <1>5 DEF Graphics!CreateTextures, Graphics!MakeResource, Graphics!MakeDynamicTexture,
              Graphics!content
<1>6. CASE UNCHANGED graphicVars
  BY <1>6 DEF graphicVars
<1>7. Graphics!Next \/ UNCHANGED graphicVars
  BY DEF PluginNext, pluginVars
<1> QED BY <1>1, <1>2, <1>3, <1>4, <1>5, <1>6, <1>7
           DEF Graphics!Next, Graphics!UnityPluginLoad, Graphics!OnInitialize

(* No texture outlives its device, though clear() leaves the temporary     *)
(* textures alone (graphic.cpp:305-309): not one that the entity keeps, nor*)
(* one that it made for the host.                                          *)
THEOREM TexturesCurrent == PluginSpec => []DeviceCurrent
<1>1. GraphicInv => DeviceCurrent
  BY DEF GraphicInv
<1> QED BY <1>1, InitGraphic, NextGraphic, PTL DEF PluginSpec

(* The graphics entity takes nothing from the library's life: a plugin is  *)
(* a life of the library resources, and all that is proved of these holds  *)
(* of it.                                                                  *)
THEOREM PluginLives == PluginSpec => Spec
<1>1. PluginInit => Init
  BY DEF PluginInit
<1>2. [PluginNext]_pluginVars => [Next]_vars
  BY DEF PluginNext, pluginVars
<1> QED BY <1>1, <1>2, PTL DEF PluginSpec, Spec
=================================================================================
