--------------------------- MODULE ClientSession_MC ---------------------------
(* Model values for the runs of ClientSession.                               *)
EXTENDS ClientSession, TLC

SessionSymmetry == Permutations(Sessions)
===============================================================================
