------------------------------ MODULE FrameStream ------------------------------
(***************************************************************************)
(* What the plugin promises its host for every tile, whatever its threads  *)
(* do: the frames decoded for a tile are put on screen in decoding order,  *)
(* each once and none skipped, and every picture is made of the three      *)
(* planes of one and the same frame.  The host may see the stream end      *)
(* early (a frame decoded but not shown yet is then dropped), never a gap. *)
(***************************************************************************)
EXTENDS Naturals, Sequences

CONSTANTS Tiles,     \* the tiles of the panorama, one texture each
          MaxFrames  \* bound: frames decoded for each tile

Planes == 0..2       \* the Y, U and V planes of a picture

VARIABLES decoded,   \* how many frames of a tile have left its decoder
          display    \* the pictures a tile's texture has shown, oldest first

vars == <<decoded, display>>

Init == /\ decoded = [t \in Tiles |-> 0]
        /\ display = [t \in Tiles |-> <<>>]

Decode(t) ==
    /\ decoded[t] < MaxFrames[t]
    /\ decoded' = [decoded EXCEPT ![t] = @ + 1]
    /\ UNCHANGED display

(* The next picture of a tile: every plane comes from the frame that       *)
(* follows the last one shown.                                             *)
Show(t) ==
    /\ Len(display[t]) < decoded[t]
    /\ display' = [display EXCEPT ![t] =
                      Append(@, [p \in Planes |-> Len(@) + 1])]
    /\ UNCHANGED decoded

Next == \E t \in Tiles : Decode(t) \/ Show(t)

Spec == Init /\ [][Next]_vars

================================================================================
