-------------------------------- MODULE Server_MC --------------------------------
(* Model values for the runs of Server.                                         *)
EXTENDS Server, TLC

CONSTANTS c1, c2, e1, e2

MCConnections == {c1, c2}
MCEndpoints == {e1, e2}
MCRequests == [keep : BOOLEAN, exists : BOOLEAN] \ {[keep |-> FALSE, exists |-> FALSE]}

(* Launches: without options; with the limit and a directory that configures   *)
(* it, one that does not exist, one without a port; and to ask for help.       *)
MCArguments ==
    {[help |-> FALSE, limit |-> FALSE, config |-> "none"],
     [help |-> FALSE, limit |-> TRUE, config |-> "given"],
     [help |-> FALSE, limit |-> TRUE, config |-> "typo"],
     [help |-> FALSE, limit |-> TRUE, config |-> "bare"],
     [help |-> TRUE, limit |-> FALSE, config |-> "given"]}
MCWorksetPaths == <<"work", "built">>
MCDocuments ==
    [d \in {"work", "built", "given", "bare"} |->
        [serves |-> d # "bare",
         fluctuate |-> IF d = "given" THEN "true" ELSE "missing"]]
=================================================================================
