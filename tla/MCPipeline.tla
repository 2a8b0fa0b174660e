------------------------------ MODULE MCPipeline ------------------------------
(* Small instances of Pipeline for TLC. *)
EXTENDS Pipeline, TLC

CONSTANTS a1, a2, w1, w2, d1, none

MCApps1 == {a1}
MCApps2 == {a1, a2}
MCWorkers1 == {w1}
MCWorkers2 == {w1, w2}
MCDesks1 == {d1}
MCNobody == {}
MCPatches == {"abandoned", "ready", "confirmed"}

WorkerSymmetry == Permutations(Workers)
=============================================================================
