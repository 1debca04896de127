-------------------------------- MODULE TraceSink --------------------------------
(***************************************************************************)
(* The trace databases.  Both headers define plugin::database, so a program*)
(* has one of them; none in this repository makes one yet.                 *)
(***************************************************************************)
EXTENDS LeveldbSink

CONSTANTS Events, Bulk    \* see SqliteSink

VARIABLES eventQueue, commands, entries, writer, rows, sinkCount, submitted, \* SqliteSink
          backend         \* which header the program includes

sqliteVars == <<eventQueue, commands, entries, writer, rows, sinkCount, submitted>>
sinkVars == <<vars, sqliteVars, backend>>

Sqlite == INSTANCE SqliteSink

ASSUME SinkAssumption == Sqlite!SqliteAssumption

SinkInit == Init /\ Sqlite!Init /\ backend \in {"leveldb", "sqlite"}

SinkNext ==
    \/ backend = "leveldb" /\ Next /\ UNCHANGED <<sqliteVars, backend>>
    \/ backend = "sqlite" /\ Sqlite!Next /\ UNCHANGED <<vars, backend>>

SinkSpec ==
    /\ SinkInit /\ [][SinkNext]_sinkVars
    /\ backend = "leveldb" => Fairness
    /\ backend = "sqlite" => Sqlite!Fairness

(* See SqliteSink: each event has a row and is counted once.               *)
CountMatchesRows == Sqlite!CountMatchesRows

(* See SqliteSink: a command ends a writer that sees it.                   *)
CommandEnds == Sqlite!CommandEnds
==================================================================================
