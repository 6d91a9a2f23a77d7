------------------------------ MODULE TopoOrder ------------------------------
(***************************************************************************)
(* The order in which topoDagWire.ts serialises a shared term: an explicit *)
(* stack instead of recursion (collectTopoDagOrder).  A node is an object, *)
(* named by a number; an application (non-terminal) has two children that  *)
(* were built before it, hence have smaller numbers; 0 is no child.        *)
(***************************************************************************)
EXTENDS Naturals, Sequences

CONSTANT Size     \* bound: the number of objects
ASSUME SizeAssumption == Size \in Nat \ {0}

VARIABLES lft, rgt,   \* the children of each object
          root,       \* the object that is serialised
          stack, expanded, emitted, dagOrder
dag == <<lft, rgt, root>>
orderVars == <<lft, rgt, root, stack, expanded, emitted, dagOrder>>

Node == 1 .. Size
Children == {f \in [Node -> 0 .. Size] : \A n \in Node : f[n] < n}
IsApp(n) == lft[n] # 0

OrderTypeOK ==
  /\ lft \in Children /\ rgt \in Children
  /\ \A n \in Node : lft[n] = 0 <=> rgt[n] = 0
  /\ root \in Node
  /\ stack \in Seq(Node)
  /\ expanded \subseteq Node /\ emitted \subseteq Node
  /\ dagOrder \in Seq(Node)

OrderInit ==
  /\ lft \in Children /\ rgt \in Children
  /\ \A n \in Node : lft[n] = 0 <=> rgt[n] = 0
  /\ root \in Node
  /\ stack = <<root>> /\ expanded = {} /\ emitted = {} /\ dagOrder = <<>>

Top == stack[Len(stack)]
Popped == SubSeq(stack, 1, Len(stack) - 1)

PopEmitted ==
  /\ stack # <<>>
  /\ Top \in emitted
  /\ stack' = Popped
  /\ UNCHANGED <<dag, expanded, emitted, dagOrder>>

EmitTop ==
  /\ emitted' = emitted \cup {Top}
  /\ dagOrder' = Append(dagOrder, Top)
  /\ stack' = Popped
  /\ UNCHANGED <<dag, expanded>>

EmitLeaf == stack # <<>> /\ Top \notin emitted /\ ~ IsApp(Top) /\ EmitTop

EmitExpanded ==
  /\ stack # <<>> /\ Top \notin emitted /\ IsApp(Top)
  /\ Top \in expanded
  /\ EmitTop

(* A fault: a child is put under what waits.                               *)
PushBelow(s, n) == IF n \in emitted THEN s ELSE <<n>> \o s
Push(s, n) == IF n \in emitted THEN s ELSE Append(s, n)

Expand ==
  /\ stack # <<>> /\ Top \notin emitted /\ IsApp(Top)
  /\ Top \notin expanded
  /\ expanded' = expanded \cup {Top}
  /\ stack' = Push(Push(stack, rgt[Top]), lft[Top])
  /\ UNCHANGED <<dag, emitted, dagOrder>>

OrderNext == PopEmitted \/ EmitLeaf \/ EmitExpanded \/ Expand
OrderSpec == OrderInit /\ [][OrderNext]_orderVars

-----------------------------------------------------------------------------
(* Children come before the applications that use them, and an object that *)
(* is shared is emitted once.                                              *)
Abstract == INSTANCE Emission
ImplementsEmission == Abstract!Spec

(* An expanded object waits in the stack: above it there are only smaller  *)
(* ones, among them the children that are not emitted yet.                 *)
WaitsBelow ==
  \A m \in expanded \ emitted :
    /\ IsApp(m)
    /\ \E i \in 1 .. Len(stack) :
         /\ stack[i] = m
         /\ \A j \in i + 1 .. Len(stack) : stack[j] < m
         /\ \A c \in {lft[m], rgt[m]} :
              c \in emitted \/ \E j \in i + 1 .. Len(stack) : stack[j] = c
OrderIsEmitted == emitted = {dagOrder[i] : i \in 1 .. Len(dagOrder)}

(* The root is emitted last: a reader takes the last record for it.        *)
RootIsLast ==
  stack = <<>> => /\ dagOrder # <<>>
                  /\ dagOrder[Len(dagOrder)] = root
                  /\ root \in emitted
=============================================================================
