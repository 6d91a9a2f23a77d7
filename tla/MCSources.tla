------------------------------ MODULE MCSources ------------------------------
(* Small terms in which a free y or z is under binders of x, of x_0 and of *)
(* type names, and replacements with the free names x, x_0 and A; modules  *)
(* of a data definition, up to four terms that use each other, an imported *)
(* name under binders of that name, and matches in both orders.            *)
EXTENDS FrontEnd
x == Var("x")
x0 == Var("x_0")
y == Var("y")
z == Var("z")
A == TypeVar("A")
B == TypeVar("B")

Cores == {App(x, y), App(y, z), App(Var("0"), y), Abs("x", B, App(x, y)), Abs("y", A, App(y, x))}
Under(n, c) ==
  {Abs(n, A, c), Let(n, z, c), Match(z, B, <<Arm("c", <<n>>, c), Arm("d", <<"w">>, App(Var("w"), y))>>)}
Twice == UNION {UNION {Under("x_0", d) : d \in Under("x", c)} : c \in {App(App(x, y), x0), App(y, x0)}}
Typed ==
  {TypeAbs("A", Abs("x", Arrow(A, B), TypeApp(y, TypeOf(A, B)))), TypeApp(y, Forall("A", Arrow(A, Forall("B", Arrow(B, A))))),
   Abs("x", Forall("A", Arrow(A, B)), App(x, y)), TypeAbs("A", TypeAbs("B", TypeApp(y, Arrow(A, B)))),
   TypeApp(TypeApp(y, Forall("A", Arrow(A, B))), A)}
(* Terms in which a binder is lost: the new name x_0 is free in the scope, *)
(* or bound there; a let has the name of its binder in its value; a type   *)
(* abstraction uses a name from above; two parameters of an arm are free in*)
(* what is put in, or one is to be replaced.                               *)
Lossy ==
  Under("x", App(y, x0)) \cup UNION {Under("x", d) : d \in Under("x_0", App(x, y))}
    \cup {Let("x", x, App(x, y)), Let("x", Abs("x", B, x0), App(x, y)), Abs("x", B, TypeAbs("C", App(y, x))), Abs("y", B, TypeAbs("A", App(y, z)))}
    \cup {Match(z, B, <<Arm("c", ps, App(App(x, y), z))>>) : ps \in {<<"x", "y">>, <<"w", "y">>, <<"y", "x">>, <<"z">>}}
    \cup {TypeApp(y, Forall("A", Arrow(B, TypeVar("A_0")))), TypeApp(y, Forall("A", Forall("A_0", Arrow(B, A))))}
MCSubjects == UNION {Under("x", c) \cup Under("w", c) : c \in Cores} \cup Twice \cup Typed \cup Lossy
MCTerms ==
  {[n \in {"y"} |-> App(x, z)], [n \in {"z"} |-> Var("w")], [n \in {"y", "z"} |-> IF n = "y" THEN z ELSE App(x, y)],
   [n \in {"y"} |-> TypeApp(z, A)], [n \in {"y"} |-> TypeAbs("x", x)],
   [n \in {"y"} |-> Abs("z", Forall("C", TypeVar("C")), App(z, x))], [n \in {"x", "z"} |-> IF n = "x" THEN y ELSE Let("y", x, y)]}
MCTypes ==
  {[n \in {"B"} |-> A], [n \in {"B"} |-> Forall("B", Arrow(B, A))], [n \in {"A"} |-> Arrow(B, A)]}

-----------------------------------------------------------------------------
T == TypeVar("T")
f == Var("f")
g == Var("g")
Top == <<Plain("module", "M"), Import("N", "x"), Import("N", "x_0")>>
(* A data type of another module, and a definition with a field of type R. *)
Maybe == Data("Maybe", <<"E">>, <<Ctor("None", "none", <<>>), Ctor("Some", "some", <<TypeVar("E")>>)>>)
MCImportedData == {Maybe}
Options == <<Import("L", "None"), Import("L", "Some"), Import("L", "R")>>
WithR == Data("Free", <<"S">>, <<Ctor("Wrap", "wrap", <<TypeVar("R"), TypeVar("S")>>)>>)
Bool == Data("Bool", <<>>, <<Ctor("False", "false", <<>>), Ctor("True", "true", <<>>)>>)
Pair == Data("Pair", <<"R", "S">>, <<Ctor("Mk", "mk", <<TypeVar("R"), TypeVar("S")>>)>>)
Tree == Data("Tree", <<>>, <<Ctor("Leaf", "leaf", <<>>), Ctor("Node", "node", <<TypeVar("T"), TypeVar("T")>>)>>)
TypeT == TypeDef("T", Forall("B", Arrow(TypeVar("B"), TypeVar("B"))))
NatType == TypeDef("Nat", Forall("N", TypeVar("N")))

Fs == {x, App(x, Var("0")), Abs("y", T, App(x, Var("y"))), App(Var("c"), TypeApp(x, T)), App(f, x)}
Gs == {f, Abs("x", T, App(f, Var("x_0"))), Let("x", x, App(x, f)), Abs("x", T, TypeAbs("A", App(f, x))), Abs("x", T, App(f, x)), Let("x", Var("1"), App(x, f)), Abs("f", T, App(f, x)), App(Abs("x", T, f), App(f, T)),
       App(f, Var("T"))}
Hs == {App(f, g), Abs("g", T, App(App(g, f), Var("missing"))), TypeAbs("A", Abs("x", A, App(g, x))),
       Abs("x", T, Abs("f", T, App(g, App(f, x))))}
Chains(define(_, _)) ==
  {Top \o <<TypeT>> \o nat \o <<Combinator("c"), define("f", a), Poly("g", b), Poly("h", c)>> :
     nat \in {<<>>, <<NatType>>}, a \in Fs, b \in Gs, c \in Hs}

Pick == {<<Arm("False", <<>>, x), Arm("True", <<>>, App(x, Var("b")))>>,
         <<Arm("True", <<>>, App(x, Var("b"))), Arm("False", <<>>, Var("False"))>>, <<Arm("True", <<>>, x)>>, <<>>}
Trees == {<<Arm("Node", <<"l", "r">>, App(Var("r"), Var("l"))), Arm("Leaf", <<>>, x)>>,
          <<Arm("Leaf", <<>>, x), Arm("Node", <<"r", "l">>, Match(Var("l"), T, <<Arm("Leaf", <<>>, Var("r")), Arm("Node", <<"x", "y">>, x)>>))>>,
          <<Arm("Leaf", <<"l">>, x), Arm("Node", <<"r", "l">>, x)>>, <<Arm("Leaf", <<>>, x), Arm("True", <<>>, x)>>}
Maybes == {<<Arm("None", <<>>, x), Arm("Some", <<"e">>, Var("e"))>>, <<Arm("Some", <<"e">>, Var("e")), Arm("None", <<>>, x)>>,
           <<Arm("Some", <<"e">>, Var("e"))>>, <<Arm("None", <<>>, Abs("Some", T, x)), Arm("Some", <<"x">>, App(x, Var("x_0")))>>}
Matching ==
  {Top \o Options \o <<TypeT, d, Poly("f", Abs("b", T, Match(Var("b"), T, arms)))>> : d \in {Pair, WithR}, arms \in Maybes} \cup
  {Top \o <<TypeT, d1, d2, Poly("f", Abs("b", T, Match(Var("b"), T, arms))), Poly("g", App(f, Var("False")))>> :
     d1 \in {Bool}, d2 \in {Tree, Pair, Bool}, arms \in Pick \cup Trees}
Broken ==
  {<<>>, Top \o Top, Top \o <<Data("E", <<>>, <<>>)>>, Top \o <<Data("E", <<"P", "P">>, <<Ctor("C", "c", <<>>)>>)>>,
   Top \o <<Poly("f", g), Poly("g", f)>>, Top \o <<PolyRec("f", g), PolyRec("g", Abs("y", A, f))>>, Top \o <<Poly("f", x), Native("f")>>,
   Top \o <<Native("n"), Poly("f", Var("n"))>>, Top \o <<TypeT, Poly("T", x), Poly("f", Var("T"))>>,
   Top \o <<TypeDef("P", T), TypeT>>}
Rec(n, t) == PolyRec(n, t)
MCModules == Chains(Poly) \cup Chains(Rec) \cup Matching \cup Broken
=============================================================================
