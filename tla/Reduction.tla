----------------------------- MODULE Reduction -----------------------------
(***************************************************************************)
(* What it means that one term reduces to another, independently of the    *)
(* order in which module Reducer contracts: the rules of SKI at any        *)
(* position, any number of times.  A read may get any byte.  The facts     *)
(* here are about the terms only; ReducerProofs applies them to the worker.*)
(***************************************************************************)
EXTENDS SKI, FiniteSetTheorems, TLAPS

(* A finite or shared term: N holds it and the nodes below it.             *)
IsNode(x, N) ==
  \/ x \in Leaves
  \/ x = allocCons(x.left, x.right) /\ x.left \in N /\ x.right \in N
IsTerm(t) == \E N : t \in N /\ \A x \in N : IsNode(x, N)

(* Nothing in t can be contracted, read or written.                        *)
Normal(t) ==
  \E N : t \in N /\ \A x \in N : ~ Steps(x) /\ (IsApp(x) => x.left \in N /\ x.right \in N)

(* One contraction, read or write at the top of t.                         *)
Contracts(t, u) ==
  \/ IsRedex(t) /\ u = Contractum(t)
  \/ IsRead(t) /\ \E b \in Bytes : u = AfterRead(t, b)
  \/ IsWrite(t) /\ u = AfterWrite(t)

(* A derivation is a list of reductions of which each is a contraction, or *)
(* follows from earlier ones: one after the other, or below an application.*)
Follows(d, k) ==
  \/ Contracts(d[k].from, d[k].to)
  \/ \E i, j \in 1 .. k - 1 :
       d[i].from = d[k].from /\ d[i].to = d[j].from /\ d[j].to = d[k].to
  \/ \E i \in 1 .. k - 1 : /\ IsApp(d[k].from)
                           /\ d[i].from = d[k].from.left
                           /\ d[k].to = allocCons(d[i].to, d[k].from.right)
  \/ \E i \in 1 .. k - 1 : /\ IsApp(d[k].from)
                           /\ d[i].from = d[k].from.right
                           /\ d[k].to = allocCons(d[k].from.left, d[i].to)
IsDerivation(d, n) == n \in Nat \ {0} /\ \A k \in 1 .. n : Follows(d, k)

(* In one step or more; in any number of steps.                            *)
Reduces(t, u) == \E d, n : IsDerivation(d, n) /\ d[n] = [from |-> t, to |-> u]
ReducesOrIs(t, u) == t = u \/ Reduces(t, u)

(* A term from which there is nowhere to go, or a way back.                *)
Settled(t) == Normal(t) \/ Reduces(t, t)

(* What a reducer that was given t may return as u: a changed term that t  *)
(* reduces to, or t itself, when it is settled.                            *)
Returns(t, u) == Reduces(t, u) \/ (u = t /\ Normal(t))

-----------------------------------------------------------------------------
(* Induction, for a set in the place of a predicate.                       *)

(* A set of natural numbers has a least element.                           *)
LEMMA LeastElement ==
  ASSUME NEW S, S \subseteq Nat, S # {}
  PROVE  \E x \in S : \A y \in S : x <= y
<1> DEFINE upto(x) == {y \in S : y <= x}
<1>1. PICK n \in S : TRUE
  OBVIOUS
<1>2. n \in Nat /\ \A y \in S : y \in Nat
  BY <1>1
<1> DEFINE T == {upto(x) : x \in upto(n)}
<1>3. IsFiniteSet(0 .. n)
  BY <1>2, FS_Interval
<1>4. ASSUME NEW x \in upto(n) PROVE upto(x) \in FiniteSubsetsOf(Nat)
  <2>0. x \in Nat /\ x <= n
    BY <1>2, <1>4
  <2>1. ASSUME NEW y \in upto(x) PROVE y \in 0 .. n
    <3>1. y \in Nat /\ y <= x
      BY <1>2, <2>1
    <3> QED
      BY <1>2, <2>0, <3>1
  <2>2. IsFiniteSet(upto(x))
    BY <1>3, <2>1, FS_Subset
  <2>3. upto(x) \subseteq Nat
    BY <1>2
  <2> QED
    BY <2>2, <2>3 DEF FiniteSubsetsOf
<1>5. T \subseteq FiniteSubsetsOf(Nat)
  BY <1>4
<1>6. n \in upto(n)
  BY <1>2
<1>7. T # {}
  BY <1>6
<1>8. IsWellFoundedOn(StrictSubsetOrdering(Nat), FiniteSubsetsOf(Nat))
  BY FS_StrictSubsetOrderingWellFounded
<1> HIDE DEF T
<1>9. PICK s \in T : \A t \in T : ~ (<<t, s>> \in StrictSubsetOrdering(Nat))
  BY <1>5, <1>7, <1>8, WFMin
<1>10. PICK x \in upto(n) : s = upto(x)
  BY <1>9 DEF T
<1>11. ASSUME NEW y \in S, y < x PROVE FALSE
  <2>0. x \in Nat /\ y \in Nat /\ x \in S /\ x <= n
    BY <1>2, <1>10
  <2>1. y \in upto(n)
    BY <1>2, <1>11, <2>0
  <2>2. upto(y) \in T
    BY <2>1 DEF T
  <2>3. ASSUME NEW z \in upto(y) PROVE z \in upto(x)
    <3>1. z \in S /\ z \in Nat /\ z <= y
      BY <1>2, <2>3
    <3> QED
      BY <1>11, <2>0, <3>1
  <2>4. x \in upto(x) /\ x \notin upto(y)
    BY <1>11, <2>0
  <2>5. s \subseteq Nat /\ upto(y) \subseteq Nat /\ upto(y) \subseteq s /\ upto(y) # s
    BY <1>2, <1>10, <2>3, <2>4
  <2>6. <<upto(y), s>> \in StrictSubsetOrdering(Nat)
    BY <2>5 DEF StrictSubsetOrdering
  <2> QED
    BY <1>9, <2>2, <2>6
<1>12. x \in S /\ x \in Nat
  BY <1>2, <1>10
<1> QED
  BY <1>2, <1>11, <1>12

(* Induction: what holds 0 and each successor of a member holds Nat.       *)
LEMMA SetInduction ==
  ASSUME NEW S, 0 \in S, \A n \in Nat : n \in S => n + 1 \in S
  PROVE  \A n \in Nat : n \in S
<1> DEFINE T == {n \in Nat : n \notin S}
<1>1. SUFFICES ASSUME T # {} PROVE FALSE
  OBVIOUS
<1>2. PICK x \in T : \A y \in T : x <= y
  <2>1. T \subseteq Nat
    OBVIOUS
  <2> HIDE DEF T
  <2> QED
    BY <1>1, <2>1, LeastElement
<1>3. x \in Nat /\ x \notin S /\ x # 0
  BY <1>2
<1>4. x - 1 \in Nat /\ x - 1 < x /\ (x - 1) + 1 = x
  BY <1>3
<1>5. x - 1 \notin T
  BY <1>2, <1>3, <1>4
<1>6. x - 1 \in S
  BY <1>4, <1>5
<1> QED
  BY <1>3, <1>4, <1>6

-----------------------------------------------------------------------------
(* Derivations, and the rules of reduction they give.                      *)

(* A derivation stays one behind others.                                   *)
LEMMA FollowsBehind ==
  ASSUME NEW d, NEW e, NEW k \in Nat, NEW c \in Nat, Follows(d, k),
         \A i \in 1 .. k : e[i + c] = d[i], k >= 1
  PROVE  Follows(e, k + c)
<1>1. e[k + c] = d[k]
  OBVIOUS
<1>2. \A i \in 1 .. k - 1 : i + c \in 1 .. (k + c) - 1 /\ e[i + c] = d[i]
  OBVIOUS
<1>3. CASE Contracts(d[k].from, d[k].to)
  BY <1>1, <1>3 DEF Follows
<1>4. CASE \E i, j \in 1 .. k - 1 :
             d[i].from = d[k].from /\ d[i].to = d[j].from /\ d[j].to = d[k].to
  <2>1. PICK i \in 1 .. k - 1, j \in 1 .. k - 1 :
          d[i].from = d[k].from /\ d[i].to = d[j].from /\ d[j].to = d[k].to
    BY <1>4
  <2> DEFINE a == i + c
             b == j + c
  <2>2. a \in 1 .. (k + c) - 1 /\ b \in 1 .. (k + c) - 1 /\ e[a] = d[i] /\ e[b] = d[j]
    BY <1>2
  <2> HIDE DEF a, b
  <2> QED
    BY <1>1, <2>1, <2>2 DEF Follows
<1>5. CASE \E i \in 1 .. k - 1 : /\ IsApp(d[k].from)
                                 /\ d[i].from = d[k].from.left
                                 /\ d[k].to = allocCons(d[i].to, d[k].from.right)
  <2>1. PICK i \in 1 .. k - 1 : /\ IsApp(d[k].from)
                                /\ d[i].from = d[k].from.left
                                /\ d[k].to = allocCons(d[i].to, d[k].from.right)
    BY <1>5
  <2> DEFINE a == i + c
  <2>2. a \in 1 .. (k + c) - 1 /\ e[a] = d[i]
    BY <1>2
  <2> HIDE DEF a
  <2> QED
    BY <1>1, <2>1, <2>2 DEF Follows
<1>6. CASE \E i \in 1 .. k - 1 : /\ IsApp(d[k].from)
                                 /\ d[i].from = d[k].from.right
                                 /\ d[k].to = allocCons(d[k].from.left, d[i].to)
  <2>1. PICK i \in 1 .. k - 1 : /\ IsApp(d[k].from)
                                /\ d[i].from = d[k].from.right
                                /\ d[k].to = allocCons(d[k].from.left, d[i].to)
    BY <1>6
  <2> DEFINE a == i + c
  <2>2. a \in 1 .. (k + c) - 1 /\ e[a] = d[i]
    BY <1>2
  <2> HIDE DEF a
  <2> QED
    BY <1>1, <2>1, <2>2 DEF Follows
<1> QED
  BY <1>3, <1>4, <1>5, <1>6 DEF Follows

(* A derivation and one more reduction.                                    *)
Extended(d, n, x) == [k \in 1 .. n + 1 |-> IF k = n + 1 THEN x ELSE d[k]]
LEMMA ExtendDerivation ==
  ASSUME NEW d, NEW n, IsDerivation(d, n), NEW t, NEW u,
         Follows(Extended(d, n, [from |-> t, to |-> u]), n + 1)
  PROVE  Reduces(t, u)
<1> DEFINE e == Extended(d, n, [from |-> t, to |-> u])
<1>1. n \in Nat \ {0} /\ n + 1 \in Nat \ {0}
  BY DEF IsDerivation
<1>2. \A k \in 1 .. n : e[k] = d[k]
  BY <1>1 DEF Extended
<1>3. e[n + 1] = [from |-> t, to |-> u]
  BY <1>1 DEF Extended
<1>4. Follows(e, n + 1)
  OBVIOUS
<1> HIDE DEF e
<1>5. ASSUME NEW k \in 1 .. n PROVE Follows(e, k)
  <2>1. Follows(d, k)
    BY <1>5 DEF IsDerivation
  <2>2. k \in Nat /\ k >= 1 /\ 0 \in Nat
    BY <1>1
  <2>3. \A i \in 1 .. k : e[i + 0] = d[i]
    BY <1>1, <1>2, <2>2
  <2>4. Follows(e, k + 0)
    BY <2>1, <2>2, <2>3, FollowsBehind
  <2> QED
    BY <2>2, <2>4
<1>6. \A k \in 1 .. n + 1 : k \in 1 .. n \/ k = n + 1
  BY <1>1
<1>7. IsDerivation(e, n + 1)
  BY <1>1, <1>4, <1>5, <1>6 DEF IsDerivation
<1> QED
  BY <1>3, <1>7 DEF Reduces

LEMMA ContractionReduces ==
  ASSUME NEW t, NEW u, Contracts(t, u)
  PROVE  Reduces(t, u)
<1> DEFINE d == [k \in 1 .. 1 |-> [from |-> t, to |-> u]]
<1>1. d[1] = [from |-> t, to |-> u]
  OBVIOUS
<1>2. Follows(d, 1)
  BY <1>1 DEF Follows
<1>3. \A k \in 1 .. 1 : k = 1
  OBVIOUS
<1>4. IsDerivation(d, 1)
  BY <1>2, <1>3 DEF IsDerivation
<1> QED
  BY <1>1, <1>4 DEF Reduces

(* Reductions one after the other.                                         *)
LEMMA ReducesFurther ==
  ASSUME NEW t, NEW u, NEW v, Reduces(t, u), Reduces(u, v)
  PROVE  Reduces(t, v)
<1>1. PICK d, m : IsDerivation(d, m) /\ d[m] = [from |-> t, to |-> u]
  BY DEF Reduces
<1>2. PICK e, n : IsDerivation(e, n) /\ e[n] = [from |-> u, to |-> v]
  BY DEF Reduces
<1>3. m \in Nat \ {0} /\ n \in Nat \ {0} /\ m + n \in Nat \ {0}
  BY <1>1, <1>2 DEF IsDerivation
<1> DEFINE f == [k \in 1 .. m + n |-> IF k <= m THEN d[k] ELSE e[k - m]]
<1>4. \A k \in 1 .. m : f[k] = d[k]
  BY <1>3
<1>5. \A k \in 1 .. n : f[k + m] = e[k]
  BY <1>3
<1> HIDE DEF f
<1>6. ASSUME NEW k \in 1 .. m PROVE Follows(f, k)
  <2>1. Follows(d, k) /\ k \in Nat /\ k >= 1 /\ \A i \in 1 .. k : f[i + 0] = d[i]
    BY <1>1, <1>3, <1>4, <1>6 DEF IsDerivation
  <2>2. Follows(f, k + 0)
    BY <2>1, FollowsBehind
  <2> QED
    BY <2>1, <2>2
<1>7. ASSUME NEW k \in 1 .. n PROVE Follows(f, k + m)
  <2>1. Follows(e, k) /\ k \in Nat /\ k >= 1 /\ \A i \in 1 .. k : f[i + m] = e[i]
    BY <1>2, <1>3, <1>5, <1>7 DEF IsDerivation
  <2> QED
    BY <1>3, <2>1, FollowsBehind
<1>8. ASSUME NEW k \in 1 .. m + n PROVE Follows(f, k)
  <2>1. CASE k <= m
    BY <1>3, <1>6, <2>1
  <2>2. CASE k > m
    <3>1. k - m \in 1 .. n /\ (k - m) + m = k
      BY <1>3, <2>2
    <3> QED
      BY <1>7, <3>1
  <2> QED
    BY <1>3, <2>1, <2>2
<1>9. IsDerivation(f, m + n)
  BY <1>3, <1>8 DEF IsDerivation
<1> DEFINE x == [from |-> t, to |-> v]
           g == Extended(f, m + n, x)
<1>10. /\ m \in 1 .. (m + n + 1) - 1 /\ m + n \in 1 .. (m + n + 1) - 1
       /\ g[m] = d[m] /\ g[m + n] = e[n] /\ g[m + n + 1] = x
  BY <1>3, <1>4, <1>5 DEF Extended
<1> HIDE DEF g
<1>11. Follows(g, m + n + 1)
  <2>1. \E i, j \in 1 .. (m + n + 1) - 1 :
          /\ g[i].from = g[m + n + 1].from /\ g[i].to = g[j].from
          /\ g[j].to = g[m + n + 1].to
    BY <1>1, <1>2, <1>10
  <2> QED
    BY <2>1 DEF Follows
<1> QED
  BY <1>9, <1>11, ExtendDerivation DEF g

(* A reduction below an application.                                       *)
LEMMA ReducesLeft ==
  ASSUME NEW t, IsApp(t), NEW l, Reduces(t.left, l)
  PROVE  Reduces(t, allocCons(l, t.right))
<1>1. PICK d, n : IsDerivation(d, n) /\ d[n] = [from |-> t.left, to |-> l]
  BY DEF Reduces
<1>2. n \in Nat \ {0}
  BY <1>1 DEF IsDerivation
<1> DEFINE x == [from |-> t, to |-> allocCons(l, t.right)]
           e == Extended(d, n, x)
<1>3. n \in 1 .. (n + 1) - 1 /\ e[n] = d[n] /\ e[n + 1] = x
  BY <1>2 DEF Extended
<1>4. Follows(e, n + 1)
  <2> HIDE DEF e
  <2>1. /\ IsApp(e[n + 1].from)
        /\ e[n].from = e[n + 1].from.left
        /\ e[n + 1].to = allocCons(e[n].to, e[n + 1].from.right)
    BY <1>1, <1>3
  <2> QED
    BY <1>3, <2>1 DEF Follows
<1> QED
  BY <1>1, <1>4, ExtendDerivation

LEMMA ReducesRight ==
  ASSUME NEW t, IsApp(t), NEW r, Reduces(t.right, r)
  PROVE  Reduces(t, allocCons(t.left, r))
<1>1. PICK d, n : IsDerivation(d, n) /\ d[n] = [from |-> t.right, to |-> r]
  BY DEF Reduces
<1>2. n \in Nat \ {0}
  BY <1>1 DEF IsDerivation
<1> DEFINE x == [from |-> t, to |-> allocCons(t.left, r)]
           e == Extended(d, n, x)
<1>3. n \in 1 .. (n + 1) - 1 /\ e[n] = d[n] /\ e[n + 1] = x
  BY <1>2 DEF Extended
<1>4. Follows(e, n + 1)
  <2> HIDE DEF e
  <2>1. /\ IsApp(e[n + 1].from)
        /\ e[n].from = e[n + 1].from.right
        /\ e[n + 1].to = allocCons(e[n + 1].from.left, e[n].to)
    BY <1>1, <1>3
  <2> QED
    BY <1>3, <2>1 DEF Follows
<1> QED
  BY <1>1, <1>4, ExtendDerivation

-----------------------------------------------------------------------------
(* Terms and normal forms, part by part.                                   *)

LEMMA LeafFacts ==
  ASSUME NEW t \in Leaves
  PROVE  ~ IsApp(t) /\ ~ Steps(t)
<1>1. ~ IsApp(t)
  BY DEF Leaves, allocTerminal, allocU8, IsApp
<1> QED
  BY <1>1 DEF Steps, IsRedex, IsRead, IsWrite, IsByteRedex, Applied1, Applied2, Applied3, Applied4

LEMMA AppFacts ==
  ASSUME NEW l, NEW r
  PROVE  IsApp(allocCons(l, r)) /\ allocCons(l, r).left = l /\ allocCons(l, r).right = r
BY DEF allocCons, IsApp

LEMMA TermParts ==
  ASSUME NEW t, IsTerm(t)
  PROVE  \/ t \in Leaves
         \/ IsApp(t) /\ t = allocCons(t.left, t.right) /\ IsTerm(t.left) /\ IsTerm(t.right)
<1>1. PICK N : t \in N /\ \A x \in N : IsNode(x, N)
  BY DEF IsTerm
<1>2. CASE t = allocCons(t.left, t.right) /\ t.left \in N /\ t.right \in N
  <2>1. IsTerm(t.left) /\ IsTerm(t.right)
    BY <1>1, <1>2 DEF IsTerm
  <2> QED
    BY <1>2, <2>1, AppFacts
<1> QED
  BY <1>1, <1>2 DEF IsNode

LEMMA LeafIsTerm ==
  ASSUME NEW t \in Leaves
  PROVE  IsTerm(t)
<1>1. t \in {t} /\ \A x \in {t} : IsNode(x, {t})
  BY DEF IsNode
<1> QED
  BY <1>1 DEF IsTerm

LEMMA ConsIsTerm ==
  ASSUME NEW l, NEW r, IsTerm(l), IsTerm(r)
  PROVE  IsTerm(allocCons(l, r))
<1>1. PICK M : l \in M /\ \A x \in M : IsNode(x, M)
  BY DEF IsTerm
<1>2. PICK N : r \in N /\ \A x \in N : IsNode(x, N)
  BY DEF IsTerm
<1> DEFINE t == allocCons(l, r)
           P == M \cup N \cup {t}
<1>3. t = allocCons(t.left, t.right) /\ t.left \in P /\ t.right \in P
  BY <1>1, <1>2, AppFacts
<1> HIDE DEF t
<1>4. \A x \in P : IsNode(x, P)
  BY <1>1, <1>2, <1>3 DEF IsNode
<1>5. t \in P
  OBVIOUS
<1> HIDE DEF P
<1>6. IsTerm(t)
  BY <1>4, <1>5 DEF IsTerm
<1> QED
  BY <1>6 DEF t

LEMMA NormalParts ==
  ASSUME NEW t, Normal(t)
  PROVE  ~ Steps(t) /\ (IsApp(t) => Normal(t.left) /\ Normal(t.right))
<1>1. PICK N : t \in N /\ \A x \in N : ~ Steps(x) /\ (IsApp(x) => x.left \in N /\ x.right \in N)
  BY DEF Normal
<1>2. ~ Steps(t) /\ (IsApp(t) => t.left \in N /\ t.right \in N)
  BY <1>1
<1>3. ASSUME NEW x \in N PROVE Normal(x)
  BY <1>1, <1>3 DEF Normal
<1> QED
  BY <1>2, <1>3

LEMMA LeafIsNormal ==
  ASSUME NEW t, ~ IsApp(t)
  PROVE  Normal(t)
<1>1. ~ Steps(t)
  BY DEF Steps, IsRedex, IsRead, IsWrite, IsByteRedex, Applied1, Applied2, Applied3, Applied4
<1>2. t \in {t} /\ \A x \in {t} : ~ Steps(x) /\ (IsApp(x) => x.left \in {t} /\ x.right \in {t})
  BY <1>1
<1> QED
  BY <1>2 DEF Normal

LEMMA NormalApplication ==
  ASSUME NEW t, IsApp(t), ~ Steps(t), Normal(t.left), Normal(t.right)
  PROVE  Normal(t)
<1>1. PICK M : t.left \in M /\ \A x \in M : ~ Steps(x) /\ (IsApp(x) => x.left \in M /\ x.right \in M)
  BY DEF Normal
<1>2. PICK N : t.right \in N /\ \A x \in N : ~ Steps(x) /\ (IsApp(x) => x.left \in N /\ x.right \in N)
  BY DEF Normal
<1> DEFINE P == M \cup N \cup {t}
<1>3. \A x \in P : ~ Steps(x) /\ (IsApp(x) => x.left \in P /\ x.right \in P)
  BY <1>1, <1>2
<1>4. t \in P
  OBVIOUS
<1> HIDE DEF P
<1> QED
  BY <1>3, <1>4 DEF Normal

(* A settled left and a returned right subterm of an application that does *)
(* not contract at its top: the application is returned.                   *)
LEMMA ReturnsApplication ==
  ASSUME NEW t, IsApp(t), t = allocCons(t.left, t.right), ~ Steps(t), Settled(t.left),
         NEW r, Returns(t.right, r)
  PROVE  Returns(t, allocCons(t.left, r))
<1>1. CASE Reduces(t.right, r)
  BY <1>1, ReducesRight DEF Returns
<1>2. CASE r = t.right /\ Normal(r) /\ Normal(t.left)
  <2>1. Normal(t)
    BY <1>2, NormalApplication
  <2> QED
    BY <1>2, <2>1 DEF Returns
<1>3. CASE r = t.right /\ Reduces(t.left, t.left)
  BY <1>3, ReducesLeft DEF Returns
<1> QED
  BY <1>1, <1>2, <1>3 DEF Settled, Returns

(* After any number of steps.                                              *)
LEMMA ReturnsAfter ==
  ASSUME NEW t, NEW u, NEW v, ReducesOrIs(t, u), Returns(u, v)
  PROVE  Returns(t, v)
BY ReducesFurther DEF ReducesOrIs, Returns

LEMMA ReducesOrIsFurther ==
  ASSUME NEW t, NEW u, NEW v, ReducesOrIs(t, u), ReducesOrIs(u, v)
  PROVE  ReducesOrIs(t, v)
BY ReducesFurther DEF ReducesOrIs

LEMMA ReturnsReduces ==
  ASSUME NEW t, NEW u, Returns(t, u)
  PROVE  /\ ReducesOrIs(t, u)
         /\ u # t => Reduces(t, u)
         /\ u = t => Settled(u)
BY DEF ReducesOrIs, Returns, Settled

(* A normal form is final: no reduction starts from it.                    *)
THEOREM NormalIsFinal ==
  ASSUME NEW t, NEW u, Normal(t)
  PROVE  ~ Reduces(t, u)
<1>1. SUFFICES ASSUME NEW d, NEW n, IsDerivation(d, n), d[n] = [from |-> t, to |-> u]
               PROVE  FALSE
  BY DEF Reduces
<1>2. n \in Nat \ {0}
  BY <1>1 DEF IsDerivation
<1> DEFINE S == {k \in Nat : \A i \in 1 .. k : i <= n => ~ Normal(d[i].from)}
<1>3. 0 \in S
  OBVIOUS
<1>4. ASSUME NEW k \in Nat, k \in S PROVE k + 1 \in S
  <2>1. \A i \in 1 .. k + 1 : i \in 1 .. k \/ i = k + 1
    BY <1>4
  <2>2. SUFFICES ASSUME k + 1 <= n, Normal(d[k + 1].from) PROVE FALSE
    BY <1>4, <2>1
  <2>3. \A i \in 1 .. (k + 1) - 1 : ~ Normal(d[i].from)
    BY <1>2, <1>4, <2>2
  <2>4. Follows(d, k + 1)
    BY <1>1, <1>2, <2>2 DEF IsDerivation
  <2>5. /\ ~ Steps(d[k + 1].from)
        /\ IsApp(d[k + 1].from) => Normal(d[k + 1].from.left) /\ Normal(d[k + 1].from.right)
    BY <2>2, NormalParts
  <2>6. ~ Contracts(d[k + 1].from, d[k + 1].to)
    BY <2>5 DEF Contracts, Steps
  <2> QED
    BY <2>2, <2>3, <2>4, <2>5, <2>6 DEF Follows
<1> HIDE DEF S
<1>5. n \in S
  BY <1>2, <1>3, <1>4, SetInduction
<1>6. n \in 1 .. n /\ d[n].from = t
  BY <1>1, <1>2
<1> QED
  BY <1>2, <1>5, <1>6 DEF S

(* A contraction makes a term of the arguments.                            *)
LEMMA AppParts ==
  ASSUME NEW t, IsTerm(t), IsApp(t)
  PROVE  t = allocCons(t.left, t.right) /\ IsTerm(t.left) /\ IsTerm(t.right)
BY TermParts, LeafFacts

LEMMA ByteResultIsTerm ==
  ASSUME NEW o \in ByteOps, NEW a \in Bytes, NEW b \in Bytes
  PROVE  IsTerm(ByteResult(o, a, b))
<1>1. \A c \in Bytes : IsTerm(allocU8(c))
  BY LeafIsTerm DEF Leaves
<1>2. IsTerm(arenaTrue) /\ IsTerm(arenaFalse)
  <2>1. IsTerm(allocTerminal("K")) /\ IsTerm(allocTerminal("I"))
    BY LeafIsTerm DEF Leaves, Symbols
  <2> QED
    BY <2>1, ConsIsTerm DEF arenaTrue, arenaFalse
<1>3. a \in Nat /\ b \in Nat /\ a <= 255 /\ b <= 255
  BY DEF Bytes
<1>4. 0 \in Bytes /\ (a + b) % 256 \in Bytes /\ (a + 256 - b) % 256 \in Bytes
  BY <1>3 DEF Bytes
<1>5. b # 0 => a % b \in Bytes
  BY <1>3 DEF Bytes
<1>6. b # 0 => a \div b \in Bytes
  BY <1>3, SMTT(30) DEF Bytes
<1> QED
  BY <1>1, <1>2, <1>4, <1>5, <1>6 DEF ByteResult, ByteOps

LEMMA ByteFacts ==
  ASSUME NEW t, IsTerm(t), IsByte(t)
  PROVE  t.byte \in Bytes /\ ~ IsApp(t)
<1>1. ~ IsApp(t)
  BY DEF IsByte, IsApp
<1>2. t \in Leaves
  BY <1>1, TermParts
<1> QED
  BY <1>1, <1>2 DEF Leaves, allocTerminal, allocU8, IsByte

LEMMA ContractumIsTerm ==
  ASSUME NEW t, IsTerm(t), IsRedex(t)
  PROVE  IsTerm(Contractum(t))
<1> DEFINE z == t.right
           y == t.left.right
           x == t.left.left.right
           w == t.left.left.left.right
<1>1. ASSUME NEW c, Applied1(t, c) PROVE IsApp(t) /\ IsTerm(z) /\ IsTerm(t.left)
  BY <1>1, AppParts DEF Applied1
<1>2. ASSUME NEW c, Applied2(t, c)
      PROVE  IsApp(t.left) /\ IsTerm(z) /\ IsTerm(y) /\ IsTerm(t.left.left)
  <2>1. IsApp(t) /\ IsApp(t.left)
    BY <1>2 DEF Applied2, Applied1
  <2>2. IsTerm(z) /\ IsTerm(t.left)
    BY <2>1, AppParts
  <2> QED
    BY <2>1, <2>2, AppParts
<1>3. ASSUME NEW c, Applied3(t, c)
      PROVE  IsTerm(z) /\ IsTerm(y) /\ IsTerm(x) /\ IsTerm(t.left.left.left)
  <2>1. IsApp(t) /\ IsApp(t.left) /\ IsApp(t.left.left)
    BY <1>3 DEF Applied3, Applied2, Applied1
  <2>2. IsTerm(z) /\ IsTerm(t.left)
    BY <2>1, AppParts
  <2>3. IsTerm(y) /\ IsTerm(t.left.left)
    BY <2>1, <2>2, AppParts
  <2> QED
    BY <2>1, <2>2, <2>3, AppParts
<1>4. ASSUME NEW c, Applied4(t, c)
      PROVE  IsTerm(z) /\ IsTerm(y) /\ IsTerm(x) /\ IsTerm(w)
  <2>1. IsApp(t) /\ IsApp(t.left) /\ IsApp(t.left.left) /\ IsApp(t.left.left.left)
    BY <1>4 DEF Applied4, Applied3, Applied2, Applied1
  <2>2. IsTerm(z) /\ IsTerm(t.left)
    BY <2>1, AppParts
  <2>3. IsTerm(y) /\ IsTerm(t.left.left)
    BY <2>1, <2>2, AppParts
  <2>4. IsTerm(x) /\ IsTerm(t.left.left.left)
    BY <2>1, <2>3, AppParts
  <2> QED
    BY <2>1, <2>2, <2>3, <2>4, AppParts
<1>5. Applied1(t, "I") => IsTerm(z)
  BY <1>1
<1>6. Applied2(t, "K") => IsTerm(y)
  BY <1>2
<1>7. IsByteRedex(t) => IsTerm(ByteResult(t.left.left.sym, y.byte, z.byte))
  <2> SUFFICES ASSUME IsByteRedex(t) PROVE IsTerm(ByteResult(t.left.left.sym, y.byte, z.byte))
    OBVIOUS
  <2>1. PICK o \in ByteOps : Applied2(t, o)
    BY DEF IsByteRedex
  <2>2. IsTerm(z) /\ IsTerm(y) /\ IsByte(y) /\ IsByte(z)
    BY <1>2, <2>1 DEF IsByteRedex
  <2>3. t.left.left = allocTerminal(o)
    BY <2>1 DEF Applied2, Applied1
  <2>4. t.left.left.sym = o
    BY <2>3 DEF allocTerminal
  <2> QED
    BY <2>1, <2>2, <2>4, ByteFacts, ByteResultIsTerm
<1>8. Applied3(t, "S") => IsTerm(allocCons(allocCons(x, z), allocCons(y, z)))
  BY <1>3, ConsIsTerm
<1>9. Applied3(t, "B") => IsTerm(allocCons(x, allocCons(y, z)))
  BY <1>3, ConsIsTerm
<1>10. Applied3(t, "C") => IsTerm(allocCons(allocCons(x, z), y))
  BY <1>3, ConsIsTerm
<1>11. Applied4(t, "S'") => IsTerm(allocCons(allocCons(w, allocCons(x, z)), allocCons(y, z)))
  BY <1>4, ConsIsTerm
<1>12. Applied4(t, "B'") => IsTerm(allocCons(allocCons(w, x), allocCons(y, z)))
  BY <1>4, ConsIsTerm
<1>13. Applied4(t, "C'") => IsTerm(allocCons(allocCons(w, allocCons(x, z)), y))
  BY <1>4, ConsIsTerm
<1> HIDE DEF x, y, z, w
<1>14. \/ Applied1(t, "I") \/ Applied2(t, "K") \/ IsByteRedex(t)
       \/ Applied3(t, "S") \/ Applied3(t, "B") \/ Applied3(t, "C")
       \/ Applied4(t, "S'") \/ Applied4(t, "B'") \/ Applied4(t, "C'")
  BY DEF IsRedex
<1> QED
  BY <1>5, <1>6, <1>7, <1>8, <1>9, <1>10, <1>11, <1>12, <1>13, <1>14
     DEF Contractum, x, y, z, w

(* Contractions keep terms terms, and bytes bytes.                         *)
LEMMA ContractsToTerm ==
  ASSUME NEW t, NEW u, IsTerm(t), Contracts(t, u)
  PROVE  IsTerm(u)
<1>1. CASE IsRedex(t) /\ u = Contractum(t)
  BY <1>1, ContractumIsTerm
<1>2. CASE IsRead(t) /\ \E b \in Bytes : u = AfterRead(t, b)
  <2>1. PICK b \in Bytes : u = allocCons(t.right, allocU8(b))
    BY <1>2 DEF AfterRead
  <2>2. IsTerm(allocU8(b))
    BY LeafIsTerm DEF Leaves
  <2>3. IsTerm(t.right)
    BY <1>2, AppParts DEF IsRead, Applied1
  <2> QED
    BY <2>1, <2>2, <2>3, ConsIsTerm
<1>3. CASE IsWrite(t) /\ u = AfterWrite(t)
  <2>1. IsApp(t) /\ IsApp(t.left)
    BY <1>3 DEF IsWrite, Applied2, Applied1
  <2>2. IsTerm(t.right) /\ IsTerm(t.left)
    BY <2>1, AppParts
  <2>3. IsTerm(t.left.right)
    BY <2>1, <2>2, AppParts
  <2> QED
    BY <1>3, <2>2, <2>3, ConsIsTerm DEF AfterWrite
<1> QED
  BY <1>1, <1>2, <1>3 DEF Contracts

(* What a term reduces to is a term.                                       *)
LEMMA ReductIsTerm ==
  ASSUME NEW t, NEW u, IsTerm(t), Reduces(t, u)
  PROVE  IsTerm(u)
<1>1. PICK d, n : IsDerivation(d, n) /\ d[n] = [from |-> t, to |-> u]
  BY DEF Reduces
<1>2. n \in Nat \ {0}
  BY <1>1 DEF IsDerivation
<1> DEFINE S == {k \in Nat : \A i \in 1 .. k : i <= n /\ IsTerm(d[i].from) => IsTerm(d[i].to)}
<1>3. 0 \in S
  OBVIOUS
<1>4. ASSUME NEW k \in Nat, k \in S PROVE k + 1 \in S
  <2>1. \A i \in 1 .. k + 1 : i \in 1 .. k \/ i = k + 1
    BY <1>4
  <2>2. SUFFICES ASSUME k + 1 <= n, IsTerm(d[k + 1].from) PROVE IsTerm(d[k + 1].to)
    BY <1>4, <2>1
  <2>3. \A i \in 1 .. (k + 1) - 1 : IsTerm(d[i].from) => IsTerm(d[i].to)
    BY <1>2, <1>4, <2>2
  <2>4. Follows(d, k + 1)
    BY <1>1, <1>2, <2>2 DEF IsDerivation
  <2>5. CASE Contracts(d[k + 1].from, d[k + 1].to)
    BY <2>2, <2>5, ContractsToTerm
  <2>6. CASE \E i, j \in 1 .. (k + 1) - 1 :
          d[i].from = d[k + 1].from /\ d[i].to = d[j].from /\ d[j].to = d[k + 1].to
    <3>1. PICK i, j \in 1 .. (k + 1) - 1 :
            d[i].from = d[k + 1].from /\ d[i].to = d[j].from /\ d[j].to = d[k + 1].to
      BY <2>6
    <3>2. IsTerm(d[j].from)
      BY <2>2, <2>3, <3>1
    <3> QED
      BY <2>3, <3>1, <3>2
  <2>7. CASE \E i \in 1 .. (k + 1) - 1 :
          /\ IsApp(d[k + 1].from)
          /\ d[i].from = d[k + 1].from.left
          /\ d[k + 1].to = allocCons(d[i].to, d[k + 1].from.right)
    BY <2>2, <2>3, <2>7, AppParts, ConsIsTerm
  <2>8. CASE \E i \in 1 .. (k + 1) - 1 :
          /\ IsApp(d[k + 1].from)
          /\ d[i].from = d[k + 1].from.right
          /\ d[k + 1].to = allocCons(d[k + 1].from.left, d[i].to)
    BY <2>2, <2>3, <2>8, AppParts, ConsIsTerm
  <2> QED
    BY <2>4, <2>5, <2>6, <2>7, <2>8 DEF Follows
<1> HIDE DEF S
<1>5. n \in S
  BY <1>2, <1>3, <1>4, SetInduction
<1>6. n \in 1 .. n /\ d[n].from = t /\ d[n].to = u
  BY <1>1, <1>2
<1> QED
  BY <1>2, <1>5, <1>6 DEF S
=============================================================================
