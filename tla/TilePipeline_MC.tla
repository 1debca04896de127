--------------------------- MODULE TilePipeline_MC ---------------------------
(* Model values for the runs of TilePipeline.                               *)
EXTENDS TilePipeline, TLC

TileSymmetry == Permutations(Tiles)

TwoFrames   == [t \in Tiles |-> 2]
ThreeFrames == [t \in Tiles |-> 3]

\* three frames for one tile; the first segment of the others is refused
OneStreams ==
    [t \in Tiles |-> IF t = CHOOSE u \in Tiles : TRUE THEN 3 ELSE 0]
==============================================================================
