--------------------------- MODULE MCReachability ---------------------------
(* Two libraries and a Compiler: definitions that use each other through   *)
(* imports, through the one export of a name and through their arms.       *)
EXTENDS Reachability
Import(from, n) == Decl("import", from, n)
Export(n) == Decl("export", n, "")
Poly(n, body) == [Decl("poly", n, "") EXCEPT !.uses = body]
Typed(kind, n, types) == [Decl(kind, n, "") EXCEPT !.types = types]
Data(n, params, ctors, types) == [Typed("data", n, types) EXCEPT !.ctors = ctors, !.params = params]
File(n, terms) == [name |-> n, terms |-> <<Decl("module", n, "")>> \o terms]
U == TypeVar("U")

Bodies ==
  {Var("g"), Var("c"), App(Var("h"), Var("0")), Let("g", Var("h"), Var("g")), Let("h", App(Var("h"), Var("0")), Var("h")),
   Abs("g", U, App(Var("g"), Var("d"))),
   Match(Var("g"), TypeVar("T"), <<Arm("c", <<"h">>, Var("h")), Arm("d", <<>>, Terminal)>>),
   TypeAbs("A", Abs("x", TypeVar("A"), TypeApp(Var("h"), TypeOf(TypeVar("T"), TypeVar("A")))))}
Imports ==
  {<<>>, <<Import("Lib", "g")>>, <<Import("Lib", "g"), Import("Lib", "c"), Import("Lib", "h")>>,
   <<Import("Base", "h"), Import("Lib", "T"), Import("Lib", "d")>>}
Compilers == {File("Compiler", i \o <<Export("main"), Poly("main", b), Poly("unused", Var("g"))>>) :
                i \in Imports, b \in Bodies}
  \cup {File("Compiler", <<Export("main"), Poly("main", Var("c")), Poly("c", Var("1"))>>)}  \* Lib has a constructor c
LibExports == {<<Export("g")>>, <<Export("g"), Export("h"), Export("c"), Export("T"), Export("d")>>}
Libs ==
  {File("Lib", <<Import("Base", "h")>> \o e
                 \o <<Data("T", {"P"}, <<"c", "d">>, <<Arrow(TypeVar("P"), U)>>), Poly("g", b), Typed("type", "V", <<U>>)>>) :
     e \in LibExports, b \in Bodies}
Bases ==
  {File("Base", <<Export("h"), Export("U"), Poly("h", b), Typed("type", "U", <<>>), Typed("native", "n", <<U>>)>>) :
     b \in {Var("1"), Var("n")}}
MCPrograms == {<<c, l, b>> : c \in Compilers, l \in Libs, b \in Bases}
MCEntries == {<<<<"Compiler", "main">>>>, <<<<"main">>, <<"Lib", "d">>>>, <<<<"g">>>>, <<<<"h">>, <<"nothing">>>>}
=============================================================================
