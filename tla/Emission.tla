------------------------------ MODULE Emission ------------------------------
(***************************************************************************)
(* What a topological serialisation of a graph of shared terms promises,   *)
(* whatever order it picks: a node is emitted once, after the nodes it     *)
(* applies.                                                                *)
(***************************************************************************)
EXTENDS Naturals, Sequences

CONSTANT Size
VARIABLES lft, rgt, dagOrder

Emitted == {dagOrder[i] : i \in 1 .. Len(dagOrder)}
Emit(n) ==
  /\ n \notin Emitted
  /\ lft[n] # 0 => lft[n] \in Emitted /\ rgt[n] \in Emitted
  /\ dagOrder' = Append(dagOrder, n)
  /\ UNCHANGED <<lft, rgt>>
Spec == dagOrder = <<>> /\ [][\E n \in 1 .. Size : Emit(n)]_<<lft, rgt, dagOrder>>
=============================================================================
