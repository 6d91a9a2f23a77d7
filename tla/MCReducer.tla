----------------------------- MODULE MCReducer -----------------------------
(* Requests for the model-checking runs of module ReducerMeaning.          *)
EXTENDS ReducerMeaning

s == allocTerminal("S")
k == allocTerminal("K")
i == allocTerminal("I")
read  == allocTerminal("READ_ONE")
write == allocTerminal("WRITE_ONE")
op(sym) == allocTerminal(sym)
u8(n) == allocU8(n)
ap(f, x) == allocCons(f, x)
ap2(f, x, y) == ap(ap(f, x), y)
ap3(f, x, y, z) == ap(ap2(f, x, y), z)
ap4(f, w, x, y, z) == ap(ap3(f, w, x, y), z)

(* All terms over S, K and I with n leaves.                                *)
RECURSIVE Terms(_)
Terms(n) == IF n = 1 THEN {s, k, i}
            ELSE UNION {{ap(l, r) : l \in Terms(m), r \in Terms(n - m)} : m \in 1 .. n - 1}

Job(term, budget, file, given, later) ==
  [term |-> term, budget |-> budget, file |-> file, given |-> given, late |-> later]
Limit == 12

(* Every small term, on the rings and on mapped files.                     *)
Pure == {<<Job(t, Limit, f, <<>>, <<>>)>> :
           t \in UNION {Terms(n) : n \in 1 .. 5}, f \in BOOLEAN}

(* Requests that meet the links of those before them.                      *)
SharedTerms == {ap(i, ap(i, k)), ap2(i, i, k), ap(ap(i, i), ap2(k, s, i)),
                ap2(s, ap(i, k), ap(i, i)), ap3(s, ap(i, k), ap(i, i), ap(i, i))}
Shared == {<<Job(a, Limit, FALSE, <<>>, <<>>), Job(b, n, FALSE, <<>>, <<>>),
             Job(a, Limit, FALSE, <<>>, <<>>)>> :
             a \in SharedTerms, b \in SharedTerms, n \in {0, 1, Limit}}

(* Programs with effects: echo, read two, write two, read in an argument,  *)
(* arithmetic on what is read.                                             *)
Echo == ap(read, ap2(op("C"), write, i))
Sum == ap(read, ap(read, op("ADD_U8")))
WriteTwo == ap2(write, u8(1), ap(k, ap2(write, u8(2), i)))
Effects == {Echo, Sum, ap2(i, read, i), WriteTwo, ap(k, ap(read, i))}
Inputs == {<<>>, <<7>>, <<7, 250>>}
Programs == {<<Job(t, n, f, in, IF f THEN <<>> ELSE late1)>> :
               t \in Effects, n \in {2, Limit}, f \in BOOLEAN,
               in \in Inputs, late1 \in {<<>>, <<9>>}}

Combinators ==
  {<<Job(t, Limit, FALSE, <<>>, <<>>)>> :
     t \in {ap3(op("B"), k, i, s), ap3(op("C"), k, i, s),
            ap4(op("S'"), k, i, i, s), ap4(op("B'"), k, s, i, k), ap4(op("C'"), k, i, i, s)}
           \cup {ap2(op(b), u8(x), u8(y)) : b \in ByteOps, x \in {0, 200}, y \in {0, 7, 200}}}

(* A term that five contractions turn back into itself: it has no normal   *)
(* form.  As a call, as a left subterm, and called again over its links.   *)
q == ap2(op("B"), ap(s, ap(op("C"), i)), i)
Loop == ap3(s, ap(op("C"), i), q, q)
Loops ==
  {<<Job(Loop, Limit, f, <<>>, <<>>)>> : f \in BOOLEAN}
  \cup {<<Job(ap(Loop, t), n, FALSE, <<>>, <<>>), Job(u, m, FALSE, <<>>, <<>>)>> :
          t \in {k, ap(i, k), Loop}, n \in {7, Limit}, m \in {1, Limit},
          u \in {Loop, ap(i, Loop), ap(k, Loop), ap(i, ap2(s, ap(i, k), ap(i, i)))}}

AllSessions == Pure \cup Shared \cup Programs \cup Combinators \cup Loops

(* A read in an argument, its byte still to come; and twice the same       *)
(* program with one byte of input.                                         *)
LateByte == {<<Job(ap(k, ap(read, i)), Limit, FALSE, <<>>, <<7>>)>>}
ReadTwice == {<<Job(ap(k, ap(read, i)), Limit, FALSE, <<7>>, <<>>),
                Job(ap(k, ap(read, i)), Limit, FALSE, <<>>, <<>>)>>}

(* The nodes of the terms of those requests.                               *)
RECURSIVE Nodes(_)
Nodes(t) == {t} \cup IF IsApp(t) THEN Nodes(t.left) \cup Nodes(t.right) ELSE {}
AllLoaded == UNION {UNION {Nodes(x[n].term) : n \in DOMAIN x} :
                      x \in AllSessions \cup LateByte \cup ReadTwice}
=============================================================================
