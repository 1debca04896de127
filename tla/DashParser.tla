-------------------------------- MODULE DashParser --------------------------------
(***************************************************************************)
(* The parser of a merged mpd document (src/network/dash.protocal.cpp): it *)
(* separates the audio set from the video sets, then parses both and the   *)
(* grid in three tasks of the executor, and the scale after video and grid.*)
(* A task that throws does so unseen.                                      *)
(***************************************************************************)
EXTENDS Integers, Sequences, SequencesExt, FiniteSetsExt

CONSTANTS TileWidth, TileHeight   \* maxWidth, maxHeight of every tile's set

ParserAssumption == TileWidth \in Nat \ {0} /\ TileHeight \in Nat \ {0}

VARIABLES
    elements,   \* adaptation_sets, after remove_if
    audioAt,    \* audio_set_iter, a place in the elements or behind them
    tasks,      \* tasks that have not run yet
    videoSets,  \* video_adaptation_sets, by coordinate
    audioSet,   \* the mime type audio_adaptation_set was parsed from
    grid,       \* grid: its col and row
    scale       \* scale: width and height

vars == <<elements, audioAt, tasks, videoSets, audioSet, grid, scale>>
results == <<videoSets, audioSet, grid, scale>>

Init ==
    /\ elements = <<>> /\ audioAt = 0
    /\ tasks = {}
    /\ videoSets = <<>> /\ audioSet = "none"
    /\ grid = <<0, 0>> /\ scale = <<0, 0>>

IsVideo(set) == set.mime = "video"

(* The video sets of a document, in its order.                             *)
VideoSets(document) ==
    LET kept[n \in 0..Len(document)] ==
            IF n = 0 THEN <<>>
            ELSE IF IsVideo(document[n]) THEN Append(kept[n - 1], document[n])
            ELSE kept[n - 1]
    IN  kept[Len(document)]

(* The constructor: remove_if moves the video sets to the front; behind    *)
(* them it leaves what it likes, unless it had nothing to move.            *)
Begin(document) ==
    LET video == VideoSets(document)
        leftOver == IF IsPrefix(video, document)
                    THEN {SubSeq(document, Len(video) + 1, Len(document))}
                    ELSE [1..(Len(document) - Len(video)) -> ToSet(document)]
    IN  /\ \E rest \in leftOver : elements' = video \o rest
        /\ audioAt' = Len(video) + 1
        /\ tasks' = {"video", "grid", "scale", "audio"}
        /\ UNCHANGED results

(* split_spatial_description: the first number, the source, is dropped.    *)
Split(srd) == Tail(srd)

(* parse_video_adaptation_set: a map by coordinate, x then y.              *)
ParseVideo ==
    /\ "video" \in tasks
    /\ tasks' = tasks \ {"video"}
    /\ LET sets == {elements[i] : i \in 1..(audioAt - 1)}
           Coordinate(set) == <<Split(set.srd)[1], Split(set.srd)[2]>>
       IN  videoSets' = [c \in {Coordinate(s) : s \in sets} |->
                            (CHOOSE s \in sets : Coordinate(s) = c).represents]
    /\ UNCHANGED <<elements, audioAt, audioSet, grid, scale>>

(* parse_grid_size of the first set.                                       *)
ParseGrid ==
    /\ "grid" \in tasks
    /\ tasks' = tasks \ {"grid"}
    /\ grid' = <<Split(elements[1].srd)[5], Split(elements[1].srd)[6]>>
    /\ UNCHANGED <<elements, audioAt, videoSets, audioSet, scale>>

(* A plausible slip: widths divided by columns, heights by rows.           *)
MutantScaled(width, height) == <<width \div grid[1], height \div grid[2]>>

(* The widths of all rows were added, and the heights of all columns.      *)
Scaled(width, height) == <<width \div grid[2], height \div grid[1]>>

(* parse_scale_size, once both are there.                                  *)
ParseScale ==
    /\ tasks \cap {"video", "grid", "scale"} = {"scale"}
    /\ tasks' = tasks \ {"scale"}
    /\ scale' = Scaled(Cardinality(DOMAIN videoSets) * TileWidth,
                       Cardinality(DOMAIN videoSets) * TileHeight)
    /\ UNCHANGED <<elements, audioAt, videoSets, audioSet, grid>>

(* parse_audio_adaptation_set of the element behind the video sets: it     *)
(* throws if that is none, for want of a sampling rate.                    *)
ParseAudio ==
    /\ "audio" \in tasks
    /\ tasks' = tasks \ {"audio"}
    /\ audioSet' = IF audioAt <= Len(elements) THEN elements[audioAt].mime ELSE "none"
    /\ UNCHANGED <<elements, audioAt, videoSets, grid, scale>>

Next == ParseVideo \/ ParseGrid \/ ParseScale \/ ParseAudio

Parsed == elements # <<>> /\ tasks = {}
===================================================================================
