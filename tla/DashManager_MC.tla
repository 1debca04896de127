----------------------------- MODULE DashManager_MC -----------------------------
(* Model values for the runs of DashManager.                                 *)
EXTENDS DashManager, TLC
==================================================================================
