-------------------------- MODULE TopoOrderProofs --------------------------
(***************************************************************************)
(* Proofs about module TopoOrder, for any number of objects: the loop with *)
(* an explicit stack is a topological emission, and it ends with the root. *)
(***************************************************************************)
EXTENDS TopoOrder, SequenceTheorems, TLAPS

OrderInv == OrderTypeOK /\ WaitsBelow /\ OrderIsEmitted

(* The top of a stack that is not empty, and the stack without it.         *)
LEMMA TopFacts ==
  ASSUME OrderTypeOK, stack # <<>>
  PROVE  /\ Len(stack) \in Nat /\ Len(stack) >= 1 /\ Top \in Node
         /\ Popped \in Seq(Node) /\ Len(Popped) = Len(stack) - 1
         /\ \A i \in 1 .. Len(Popped) : Popped[i] = stack[i]
         /\ \A i \in 1 .. Len(stack) : stack[i] \in Node
<1>1. stack \in Seq(Node) /\ Len(stack) \in Nat /\ Len(stack) >= 1
  BY DEF OrderTypeOK
<1>2. \A i \in 1 .. Len(stack) : stack[i] \in Node
  BY <1>1
<1> DEFINE n == Len(stack) - 1
<1>a. n \in Int /\ n >= 0 /\ \A i \in 1 .. n : stack[i] \in Node
  BY <1>1, <1>2
<1>b. /\ SubSeq(stack, 1, n) \in Seq(Node)
      /\ Len(SubSeq(stack, 1, n)) = IF 1 <= n THEN n - 1 + 1 ELSE 0
      /\ \A i \in 1 .. n - 1 + 1 : SubSeq(stack, 1, n)[i] = stack[1 + i - 1]
  <2> HIDE DEF n
  <2> QED
    BY <1>a, SubSeqProperties
<1>3. Popped \in Seq(Node) /\ Len(Popped) = Len(stack) - 1
  <2>1. Popped = SubSeq(stack, 1, n)
    BY DEF Popped
  <2>2. n = Len(stack) - 1
    OBVIOUS
  <2> HIDE DEF n
  <2>3. Len(Popped) = n
    BY <1>a, <1>b, <2>1
  <2> QED
    BY <1>b, <2>1, <2>2, <2>3
<1>4. \A i \in 1 .. Len(Popped) : Popped[i] = stack[i]
  BY <1>a, <1>b, <1>3 DEF Popped
<1> QED
  BY <1>1, <1>2, <1>3, <1>4 DEF Top

(* What pushing does to a stack.                                           *)
LEMMA PushFacts ==
  ASSUME NEW s \in Seq(Node), NEW n \in Node
  PROVE  /\ Push(s, n) \in Seq(Node)
         /\ Len(Push(s, n)) >= Len(s)
         /\ \A i \in 1 .. Len(s) : Push(s, n)[i] = s[i]
         /\ \A i \in Len(s) + 1 .. Len(Push(s, n)) : Push(s, n)[i] = n
         /\ n \in emitted \/ \E i \in Len(s) + 1 .. Len(Push(s, n)) : Push(s, n)[i] = n
BY DEF Push

(* Expanding adds one or both children above the top, and nothing else.    *)
LEMMA ExpandFacts ==
  ASSUME OrderTypeOK, Expand
  PROVE  /\ stack' \in Seq(Node)
         /\ Len(stack') >= Len(stack)
         /\ \A i \in 1 .. Len(stack) : stack'[i] = stack[i]
         /\ \A i \in Len(stack) + 1 .. Len(stack') : stack'[i] \in {lft[Top], rgt[Top]}
         /\ \A c \in {lft[Top], rgt[Top]} :
              c \in emitted \/ \E i \in Len(stack) + 1 .. Len(stack') : stack'[i] = c
         /\ lft[Top] \in Node /\ rgt[Top] \in Node /\ lft[Top] < Top /\ rgt[Top] < Top
<1> DEFINE s1 == Push(stack, rgt[Top])
<1>1. Top \in Node /\ lft[Top] # 0 /\ Len(stack) \in Nat
  BY TopFacts DEF Expand, IsApp
<1>2. lft[Top] \in Node /\ rgt[Top] \in Node /\ lft[Top] < Top /\ rgt[Top] < Top
  BY <1>1, SizeAssumption DEF OrderTypeOK, Children, Node
<1>3. stack' = Push(s1, lft[Top])
  BY DEF Expand
<1>4. stack \in Seq(Node)
  BY DEF OrderTypeOK
<1>5. /\ s1 \in Seq(Node) /\ Len(s1) >= Len(stack)
      /\ \A i \in 1 .. Len(stack) : s1[i] = stack[i]
      /\ \A i \in Len(stack) + 1 .. Len(s1) : s1[i] = rgt[Top]
      /\ rgt[Top] \in emitted \/ \E i \in Len(stack) + 1 .. Len(s1) : s1[i] = rgt[Top]
  BY <1>2, <1>4, PushFacts
<1>6. /\ stack' \in Seq(Node) /\ Len(stack') >= Len(s1)
      /\ \A i \in 1 .. Len(s1) : stack'[i] = s1[i]
      /\ \A i \in Len(s1) + 1 .. Len(stack') : stack'[i] = lft[Top]
      /\ lft[Top] \in emitted \/ \E i \in Len(s1) + 1 .. Len(stack') : stack'[i] = lft[Top]
  <2>1. \A s \in Seq(Node), n \in Node :
          /\ Push(s, n) \in Seq(Node) /\ Len(Push(s, n)) >= Len(s)
          /\ \A i \in 1 .. Len(s) : Push(s, n)[i] = s[i]
          /\ \A i \in Len(s) + 1 .. Len(Push(s, n)) : Push(s, n)[i] = n
          /\ n \in emitted \/ \E i \in Len(s) + 1 .. Len(Push(s, n)) : Push(s, n)[i] = n
    BY PushFacts
  <2> HIDE DEF s1
  <2>2. s1 \in Seq(Node) /\ lft[Top] \in Node
    BY <1>2, <1>5
  <2> DEFINE new == Push(s1, lft[Top])
  <2>3. /\ new \in Seq(Node) /\ Len(new) >= Len(s1)
        /\ \A i \in 1 .. Len(s1) : new[i] = s1[i]
        /\ \A i \in Len(s1) + 1 .. Len(new) : new[i] = lft[Top]
        /\ lft[Top] \in emitted \/ \E i \in Len(s1) + 1 .. Len(new) : new[i] = lft[Top]
    BY <2>1, <2>2
  <2>4. stack' = new
    BY <1>3
  <2> HIDE DEF new
  <2> QED
    BY <2>3, <2>4
<1> HIDE DEF s1
<1>7. Len(s1) \in Nat /\ Len(stack') \in Nat
  BY <1>5, <1>6
<1> QED
  BY <1>1, <1>2, <1>5, <1>6, <1>7

(* The emission of the top: its children are emitted already.              *)
LEMMA ChildrenEmitted ==
  ASSUME OrderInv, EmitExpanded
  PROVE  lft[Top] \in emitted /\ rgt[Top] \in emitted
<1>1. Top \in expanded \ emitted
  BY DEF EmitExpanded
<1>2. PICK i \in 1 .. Len(stack) :
        /\ stack[i] = Top
        /\ \A j \in i + 1 .. Len(stack) : stack[j] < Top
        /\ \A c \in {lft[Top], rgt[Top]} :
             c \in emitted \/ \E j \in i + 1 .. Len(stack) : stack[j] = c
  BY <1>1 DEF OrderInv, WaitsBelow
<1>3. Len(stack) \in Nat /\ Top \in Node /\ Top = stack[Len(stack)] /\ Len(stack) >= 1
  BY TopFacts DEF OrderInv, EmitExpanded, Top
<1>4. i = Len(stack)
  BY <1>2, <1>3, SizeAssumption DEF Node
<1> QED
  BY <1>2, <1>3, <1>4

-----------------------------------------------------------------------------
LEMMA TypeInductive == OrderTypeOK /\ [OrderNext]_orderVars => OrderTypeOK'
<1> SUFFICES ASSUME OrderTypeOK, [OrderNext]_orderVars PROVE OrderTypeOK'
  OBVIOUS
<1>1. CASE PopEmitted
  BY <1>1, TopFacts DEF PopEmitted, OrderTypeOK, dag
<1>2. ASSUME EmitTop, stack # <<>> PROVE OrderTypeOK'
  <2>1. Top \in Node /\ Popped \in Seq(Node)
    BY <1>2, TopFacts
  <2>2. dagOrder' \in Seq(Node)
    BY <1>2, <2>1 DEF EmitTop, OrderTypeOK
  <2> QED
    BY <1>2, <2>1, <2>2 DEF EmitTop, OrderTypeOK, dag
<1>3. CASE Expand
  <2>1. stack' \in Seq(Node)
    BY <1>3, ExpandFacts
  <2>2. Top \in Node
    BY <1>3, TopFacts DEF Expand
  <2> QED
    BY <1>3, <2>1, <2>2 DEF Expand, OrderTypeOK, dag
<1>4. CASE UNCHANGED orderVars
  BY <1>4 DEF orderVars, OrderTypeOK
<1> QED
  BY <1>1, <1>2, <1>3, <1>4 DEF OrderNext, EmitLeaf, EmitExpanded

LEMMA EmittedInductive == OrderTypeOK /\ OrderIsEmitted /\ [OrderNext]_orderVars => OrderIsEmitted'
<1> SUFFICES ASSUME OrderTypeOK, OrderIsEmitted, [OrderNext]_orderVars PROVE OrderIsEmitted'
  OBVIOUS
<1>1. ASSUME EmitTop, stack # <<>> PROVE OrderIsEmitted'
  <2>1. dagOrder \in Seq(Node) /\ Top \in Node
    BY <1>1, TopFacts DEF OrderTypeOK
  <2>2. dagOrder' = Append(dagOrder, Top) /\ emitted' = emitted \cup {Top}
    BY <1>1 DEF EmitTop
  <2>3. {dagOrder'[i] : i \in 1 .. Len(dagOrder')} = {dagOrder[i] : i \in 1 .. Len(dagOrder)} \cup {Top}
    BY <2>1, <2>2
  <2> QED
    BY <2>2, <2>3 DEF OrderIsEmitted
<1>2. CASE PopEmitted
  BY <1>2 DEF PopEmitted, OrderIsEmitted
<1>3. CASE Expand
  BY <1>3 DEF Expand, OrderIsEmitted
<1>4. CASE UNCHANGED orderVars
  BY <1>4 DEF orderVars, OrderIsEmitted
<1> QED
  BY <1>1, <1>2, <1>3, <1>4 DEF OrderNext, EmitLeaf, EmitExpanded

(* Popping an object that is emitted afterwards keeps the others waiting.  *)
LEMMA WaitsAfterPop ==
  ASSUME OrderTypeOK, WaitsBelow, stack # <<>>, stack' = Popped, expanded' = expanded,
         UNCHANGED dag, emitted \subseteq emitted', Top \in emitted'
  PROVE  WaitsBelow'
<1> SUFFICES ASSUME NEW m \in expanded' \ emitted' PROVE
      /\ IsApp(m)'
      /\ \E i \in 1 .. Len(stack') :
           /\ stack'[i] = m
           /\ \A j \in i + 1 .. Len(stack') : stack'[j] < m
           /\ \A c \in {lft'[m], rgt'[m]} :
                c \in emitted' \/ \E j \in i + 1 .. Len(stack') : stack'[j] = c
  BY DEF WaitsBelow
<1>1. m \in expanded \ emitted /\ m # Top /\ lft' = lft /\ rgt' = rgt
  BY DEF dag
<1>2. PICK i \in 1 .. Len(stack) :
        /\ stack[i] = m
        /\ \A j \in i + 1 .. Len(stack) : stack[j] < m
        /\ \A c \in {lft[m], rgt[m]} :
             c \in emitted \/ \E j \in i + 1 .. Len(stack) : stack[j] = c
  BY <1>1 DEF WaitsBelow
<1>3. /\ Len(stack) \in Nat /\ Len(stack') = Len(stack) - 1
      /\ \A j \in 1 .. Len(stack') : stack'[j] = stack[j]
      /\ Top = stack[Len(stack)]
  BY TopFacts DEF Top
<1>4. i \in 1 .. Len(stack')
  BY <1>1, <1>2, <1>3
<1>5. \A j \in i + 1 .. Len(stack') : stack'[j] < m
  BY <1>2, <1>3
<1>6. ASSUME NEW c \in {lft[m], rgt[m]}
      PROVE  c \in emitted' \/ \E j \in i + 1 .. Len(stack') : stack'[j] = c
  <2>1. CASE c \in emitted
    BY <2>1
  <2>2. CASE \E j \in i + 1 .. Len(stack) : stack[j] = c
    BY <2>2, <1>3
  <2> QED
    BY <1>2, <2>1, <2>2
<1> QED
  BY <1>1, <1>2, <1>3, <1>4, <1>5, <1>6 DEF WaitsBelow, IsApp

LEMMA WaitsAfterExpand == ASSUME OrderTypeOK, WaitsBelow, Expand PROVE WaitsBelow'
<1> SUFFICES ASSUME NEW m \in expanded' \ emitted' PROVE
      /\ IsApp(m)'
      /\ \E i \in 1 .. Len(stack') :
           /\ stack'[i] = m
           /\ \A j \in i + 1 .. Len(stack') : stack'[j] < m
           /\ \A c \in {lft'[m], rgt'[m]} :
                c \in emitted' \/ \E j \in i + 1 .. Len(stack') : stack'[j] = c
  BY DEF WaitsBelow
<1>1. lft' = lft /\ rgt' = rgt /\ emitted' = emitted /\ expanded' = expanded \cup {Top}
  BY DEF Expand, dag
<1>2. /\ Len(stack) \in Nat /\ Len(stack) >= 1 /\ Top = stack[Len(stack)] /\ Top \in Node
  BY TopFacts DEF Expand, Top
<1>3. Len(stack') \in Nat
  BY ExpandFacts
<1>4. CASE m = Top
  <2>1. IsApp(m)
    BY <1>4 DEF Expand
  <2>2. /\ Len(stack) \in 1 .. Len(stack')
        /\ stack'[Len(stack)] = m
        /\ \A j \in Len(stack) + 1 .. Len(stack') : stack'[j] < m
        /\ \A c \in {lft[m], rgt[m]} :
             c \in emitted \/ \E j \in Len(stack) + 1 .. Len(stack') : stack'[j] = c
    BY <1>2, <1>3, <1>4, ExpandFacts
  <2> QED
    BY <1>1, <2>1, <2>2 DEF IsApp
<1>5. CASE m # Top
  <2>1. m \in expanded \ emitted
    BY <1>1, <1>5
  <2>2. PICK i \in 1 .. Len(stack) :
        /\ stack[i] = m
        /\ \A j \in i + 1 .. Len(stack) : stack[j] < m
        /\ \A c \in {lft[m], rgt[m]} :
             c \in emitted \/ \E j \in i + 1 .. Len(stack) : stack[j] = c
    BY <2>1 DEF WaitsBelow
  <2>3. i < Len(stack) /\ m \in Node
    BY <2>2, <1>2, <1>5, TopFacts DEF Expand
  <2>4. Top < m
    BY <2>2, <2>3, <1>2
  <2>5. i \in 1 .. Len(stack') /\ stack'[i] = m
    BY <2>2, <1>2, <1>3, ExpandFacts
  <2>6. ASSUME NEW j \in i + 1 .. Len(stack') PROVE stack'[j] < m
    <3>1. CASE j <= Len(stack)
      BY <3>1, <2>2, <1>2, <1>3, ExpandFacts
    <3>2. CASE j > Len(stack)
      <4>1. stack'[j] \in {lft[Top], rgt[Top]}
        BY <3>2, <1>2, <1>3, ExpandFacts
      <4>2. stack'[j] \in Nat /\ stack'[j] < Top
        BY <4>1, ExpandFacts DEF Node
      <4> QED
        BY <4>2, <2>3, <2>4, <1>2, SizeAssumption DEF Node
    <3> QED
      BY <3>1, <3>2, <1>2, <1>3
  <2>7. ASSUME NEW c \in {lft[m], rgt[m]}
        PROVE  c \in emitted \/ \E j \in i + 1 .. Len(stack') : stack'[j] = c
    <3>1. CASE \E j \in i + 1 .. Len(stack) : stack[j] = c
      BY <3>1, <1>2, <1>3, ExpandFacts
    <3> QED
      BY <2>2, <3>1
  <2>8. IsApp(m)
    BY <2>1 DEF WaitsBelow
  <2> QED
    BY <1>1, <2>5, <2>6, <2>7, <2>8 DEF IsApp
<1> QED
  BY <1>4, <1>5

LEMMA WaitsInductive == OrderTypeOK /\ WaitsBelow /\ [OrderNext]_orderVars => WaitsBelow'
<1> SUFFICES ASSUME OrderTypeOK, WaitsBelow, [OrderNext]_orderVars PROVE WaitsBelow'
  OBVIOUS
<1>1. CASE PopEmitted
  <2>1. stack # <<>> /\ stack' = Popped /\ expanded' = expanded /\ UNCHANGED dag
    BY <1>1 DEF PopEmitted
  <2>2. emitted \subseteq emitted' /\ Top \in emitted'
    BY <1>1 DEF PopEmitted
  <2> QED
    BY <2>1, <2>2, WaitsAfterPop
<1>2. ASSUME EmitTop, stack # <<>> PROVE WaitsBelow'
  <2>1. stack' = Popped /\ expanded' = expanded /\ UNCHANGED dag
    BY <1>2 DEF EmitTop
  <2>2. emitted \subseteq emitted' /\ Top \in emitted'
    BY <1>2 DEF EmitTop
  <2> QED
    BY <1>2, <2>1, <2>2, WaitsAfterPop
<1>3. CASE Expand
  BY <1>3, WaitsAfterExpand
<1>4. CASE UNCHANGED orderVars
  BY <1>4 DEF orderVars, WaitsBelow, IsApp
<1> QED
  BY <1>1, <1>2, <1>3, <1>4 DEF OrderNext, EmitLeaf, EmitExpanded

LEMMA OrderInitially == OrderInit => OrderInv
<1> SUFFICES ASSUME OrderInit PROVE OrderInv
  OBVIOUS
<1>1. OrderTypeOK
  BY DEF OrderInit, OrderTypeOK, Children
<1> QED
  BY <1>1 DEF OrderInit, OrderInv, WaitsBelow, OrderIsEmitted

(* The types, what waits in the stack and the record of what is emitted    *)
(* are invariants of collectTopoDagOrder.                                  *)
THEOREM OrderInvariant == OrderSpec => []OrderInv
<1>1. OrderInv /\ [OrderNext]_orderVars => OrderInv'
  BY TypeInductive, WaitsInductive, EmittedInductive DEF OrderInv
<1> QED
  BY OrderInitially, <1>1, PTL DEF OrderSpec

(* Children are emitted before the applications that use them and nothing  *)
(* twice: the loop implements the abstract emission.                       *)
THEOREM OrderImplements == OrderSpec => ImplementsEmission
<1>1. OrderInit => dagOrder = <<>>
  BY DEF OrderInit
<1>2. ASSUME OrderInv, [OrderNext]_orderVars
      PROVE  [\E n \in 1 .. Size : Abstract!Emit(n)]_<<lft, rgt, dagOrder>>
  <2>1. ASSUME EmitTop, stack # <<>>, Top \notin emitted,
               lft[Top] # 0 => lft[Top] \in emitted /\ rgt[Top] \in emitted
        PROVE  \E n \in 1 .. Size : Abstract!Emit(n)
    <3>1. Top \in 1 .. Size
      BY <1>2, <2>1, TopFacts DEF OrderInv, Node
    <3>2. Abstract!Emitted = emitted
      BY <1>2 DEF OrderInv, OrderIsEmitted, Abstract!Emitted
    <3>3. Abstract!Emit(Top)
      BY <2>1, <3>2 DEF Abstract!Emit, EmitTop, dag
    <3> QED
      BY <3>1, <3>3
  <2>2. CASE EmitLeaf
    BY <2>2, <2>1 DEF EmitLeaf, IsApp
  <2>3. CASE EmitExpanded
    BY <1>2, <2>3, <2>1, ChildrenEmitted DEF EmitExpanded
  <2>4. CASE PopEmitted \/ Expand \/ UNCHANGED orderVars
    BY <2>4 DEF PopEmitted, Expand, orderVars, dag
  <2> QED
    BY <1>2, <2>2, <2>3, <2>4 DEF OrderNext
<1> QED
  BY <1>1, <1>2, OrderInvariant, PTL DEF OrderSpec, ImplementsEmission, Abstract!Spec

-----------------------------------------------------------------------------
(* The root lies under objects that are smaller until it is emitted.       *)
RootIsFirst ==
  stack # <<>> =>
    /\ stack[1] = root /\ root \notin emitted
    /\ \A i \in 2 .. Len(stack) : stack[i] < root

LEMMA RootInductive ==
  OrderTypeOK /\ RootIsFirst /\ RootIsLast /\ [OrderNext]_orderVars => RootIsFirst' /\ RootIsLast'
<1> SUFFICES ASSUME OrderTypeOK, RootIsFirst, RootIsLast, [OrderNext]_orderVars
             PROVE  RootIsFirst' /\ RootIsLast'
  OBVIOUS
<1>1. CASE PopEmitted
  <2>1. Len(stack) > 1
    BY <1>1, TopFacts DEF PopEmitted, Top, RootIsFirst
  <2> QED
    BY <1>1, <2>1, TopFacts DEF PopEmitted, RootIsFirst, RootIsLast, dag
<1>2. ASSUME EmitTop, stack # <<>> PROVE RootIsFirst' /\ RootIsLast'
  <2>1. /\ root' = root /\ stack' = Popped /\ dagOrder' = Append(dagOrder, Top)
        /\ emitted' = emitted \cup {Top} /\ dagOrder \in Seq(Node)
    BY <1>2 DEF EmitTop, dag, OrderTypeOK
  <2>2. CASE Len(stack) = 1
    <3>1. Top = root /\ stack' = <<>>
      BY <1>2, <2>1, <2>2, TopFacts DEF Top, RootIsFirst
    <3> QED
      BY <2>1, <3>1 DEF RootIsFirst, RootIsLast
  <2>3. CASE Len(stack) # 1
    <3>a. Len(stack) \in 2 .. Len(stack) /\ Top \in Node
      BY <1>2, <2>3, TopFacts
    <3>1. Top \in Node /\ Top < root /\ root \in Node
      BY <1>2, <3>a DEF Top, RootIsFirst, OrderTypeOK
    <3>2. Top # root
      BY <3>1, SizeAssumption DEF Node
    <3>3. stack' # <<>> /\ stack'[1] = root /\ \A i \in 2 .. Len(stack') : stack'[i] < root
      BY <1>2, <2>1, <2>3, TopFacts DEF RootIsFirst
    <3> QED
      BY <1>2, <2>1, <3>2, <3>3 DEF RootIsFirst, RootIsLast
  <2> QED
    BY <2>2, <2>3
<1>3. CASE Expand
  <2>1. /\ root' = root /\ emitted' = emitted /\ stack # <<>> /\ root \in Node
    BY <1>3 DEF Expand, dag, OrderTypeOK
  <2>2. Len(stack) \in Nat /\ Len(stack) >= 1 /\ Top \in Node /\ Top = stack[Len(stack)]
    BY <2>1, TopFacts DEF Top
  <2>3. Len(stack') \in Nat /\ Len(stack') >= Len(stack)
    BY <1>3, ExpandFacts
  <2>4. Top <= root
    BY <2>1, <2>2, SizeAssumption DEF RootIsFirst, Node
  <2>5. ASSUME NEW i \in 2 .. Len(stack') PROVE stack'[i] < root
    <3>1. CASE i <= Len(stack)
      BY <1>3, <3>1, <2>1, <2>2, <2>3, ExpandFacts DEF RootIsFirst
    <3>2. CASE i > Len(stack)
      <4>1. stack'[i] \in {lft[Top], rgt[Top]}
        BY <1>3, <3>2, <2>2, <2>3, ExpandFacts
      <4>2. stack'[i] \in Nat /\ stack'[i] < Top
        BY <1>3, <4>1, ExpandFacts DEF Node
      <4> QED
        BY <4>2, <2>1, <2>2, <2>4, SizeAssumption DEF Node
    <3> QED
      BY <3>1, <3>2, <2>2, <2>3
  <2>6. stack' # <<>> /\ stack'[1] = root
    BY <1>3, <2>1, <2>2, <2>3, ExpandFacts DEF RootIsFirst
  <2> QED
    BY <2>1, <2>5, <2>6 DEF RootIsFirst, RootIsLast
<1>4. CASE UNCHANGED orderVars
  BY <1>4 DEF orderVars, RootIsFirst, RootIsLast
<1> QED
  BY <1>1, <1>2, <1>3, <1>4 DEF OrderNext, EmitLeaf, EmitExpanded

(* When the stack is empty the last object emitted is the root, which is   *)
(* what a decoder takes for the term (fromTopoDagWire).                    *)
THEOREM RootComesLast == OrderSpec => []RootIsLast
<1>1. OrderInit => RootIsFirst /\ RootIsLast
  BY DEF OrderInit, RootIsFirst, RootIsLast
<1>2. OrderTypeOK /\ RootIsFirst /\ RootIsLast /\ [OrderNext]_orderVars
        => RootIsFirst' /\ RootIsLast'
  BY RootInductive
<1>3. OrderSpec => []OrderTypeOK
  BY OrderInvariant, PTL DEF OrderInv
<1> QED
  BY <1>1, <1>2, <1>3, PTL DEF OrderSpec
=============================================================================
