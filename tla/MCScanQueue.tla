---------------------------- MODULE MCScanQueue ----------------------------
(* Small instances of ScanQueue for TLC. *)
EXTENDS ScanQueue, TLC

CONSTANTS a, b, c, w1, w2

MCPaths2 == {a, b}
MCPaths3 == {a, b, c}
MCLaneOf2 == (a :> "exec") @@ (b :> "churn")
MCLaneOf3 == (a :> "exec") @@ (b :> "churn") @@ (c :> "media")
MCWorkers1 == {w1}
MCWorkers2 == {w1, w2}
WorkerSymmetry == Permutations(MCWorkers2)
=============================================================================
