-------------------------------- MODULE Plugin_MC --------------------------------
(* Model values for the runs of Plugin.                                       *)
EXTENDS Plugin, TLC
==================================================================================
