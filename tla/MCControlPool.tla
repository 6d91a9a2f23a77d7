--------------------------- MODULE MCControlPool ---------------------------
(* Constants and symmetry for the model-checking run of ControlPool.       *)
EXTENDS ControlPool, TLC

CONSTANTS w1, w2, w3, x, y

WorkerSymmetry == Permutations({w1, w2, w3}) \cup Permutations({x, y})
=============================================================================
