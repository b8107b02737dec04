---------------------------- MODULE MCGtMonitor ----------------------------
(***************************************************************************)
(* GtMonitor with windows of six cycles, in which the clock ticks three or *)
(* six times; a sample may be off by one at either end of a window.        *)
(***************************************************************************)
EXTENDS GtMonitor

MCTargets  == {"500M", "1000M"}
MCSpeed    == [t \in MCTargets |-> IF t = "500M" THEN 1 ELSE 2]
MCMinCount == [t \in MCTargets |-> IF t = "500M" THEN 2 ELSE 5]
MCMaxCount == [t \in MCTargets |-> IF t = "500M" THEN 4 ELSE 7]
=============================================================================
