------------------------------ MODULE TraceSink_MC ------------------------------
(* Model values for the runs of TraceSink.                                     *)
EXTENDS TraceSink, TLC
=================================================================================
