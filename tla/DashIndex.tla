-------------------------------- MODULE DashIndex --------------------------------
(***************************************************************************)
(* From the panorama to the index the plugin works with: the document that *)
(* the commands merged, perhaps with an audio set added to it by hand, is  *)
(* read by the parser.                                                     *)
(***************************************************************************)
EXTENDS Command

CONSTANTS TileWidth, TileHeight   \* see DashParser

VARIABLES elements, audioAt, tasks, videoSets, audioSet, grid, scale, \* DashParser
          audio                   \* where the audio set was added: 0 for nowhere

parserVars == <<elements, audioAt, tasks, videoSets, audioSet, grid, scale>>
indexVars == <<vars, parserVars, audio>>

Parser == INSTANCE DashParser

ASSUME IndexAssumption == Parser!ParserAssumption

AudioSet == [mime |-> "audio", srd |-> <<>>, represents |-> <<>>]

IndexInit == Init /\ Parser!Init /\ audio = 0

(* The plugin has the document and makes a parser.                         *)
Parse ==
    /\ job = <<"merged">> /\ elements = <<>> /\ document # <<>>
    /\ audio' \in {0, 1, Len(document) + 1}
    /\ Parser!Begin(IF audio' = 0 THEN document ELSE InsertAt(document, audio', AudioSet))
    /\ UNCHANGED vars

IndexNext ==
    \/ Next /\ UNCHANGED <<parserVars, audio>>
    \/ Parse
    \/ Parser!Next /\ UNCHANGED <<vars, audio>>

IndexSpec == IndexInit /\ [][IndexNext]_indexVars

(* dash_manager::tile_size, from what the parser's scale and grid return.  *)
TileSize == <<scale[1] \div grid[1], scale[2] \div grid[2]>>
TileCount == grid[1] * grid[2]

---------------------------------------------------------------------------------
(* Properties.                                                             *)

(* What the plugin learns is what the commands made: every tile that was   *)
(* segmented is in the map, with its representations, the grid has a tile  *)
(* at every coordinate and a tile has its size, whatever the order         *)
(* of the tasks, unless an invocation of a tool has failed unseen; and the *)
(* audio set is found if it is the last (dash.protocal.cpp:164-186).       *)
IndexMatchesPanorama ==
    Parser!Parsed =>
        /\ DOMAIN videoSets = UNION {dash[q] : q \in Qps}
        /\ \A t \in DOMAIN videoSets :
              {videoSets[t][i].qp : i \in 1..Len(videoSets[t])} = {q \in Qps : t \in dash[q]}
        /\ grid = <<WCrop, HCrop>>
        /\ failures = 0 => /\ DOMAIN videoSets = Tiles
                           /\ TileCount = Cardinality(DOMAIN videoSets)
                           /\ TileSize = <<TileWidth, TileHeight>>
        /\ audio = Len(document) + 1 => audioSet = "audio"
        /\ audio = 0 => audioSet = "none"
==================================================================================
