------------------------------ MODULE MCRing ------------------------------
(* Constants and symmetry for the model-checking runs of module Ring.      *)
EXTENDS Ring, TLC

CONSTANTS p1, p2, c1, c2, x, y

AllBlocking == Threads
(* A submitter of the submission queue polls; its workers block.           *)
OnePollingProducer == {p1, c1, c2}

ConsumerSymmetry == Permutations({c1, c2}) \cup Permutations({x, y})
===========================================================================
