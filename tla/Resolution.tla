----------------------------- MODULE Resolution -----------------------------
(***************************************************************************)
(* A module from its declarations to resolved definitions (compile of      *)
(* compilation.ts, up to the type check): after the passes of FrontEnd the *)
(* definitions are put in for their names, one definition after the other, *)
(* and what is left is checked.                                            *)
(***************************************************************************)
EXTENDS FrontEnd

CONSTANTS Modules,    \* the modules that are compiled: their declarations in order
          Elsewhere,  \* the data definitions of other modules
          Depth       \* how far two terms are compared

VARIABLES parsed,     \* the declarations as they are written
          decls,      \* what the passes have made of them
          resolved,   \* those that are resolved
          frames,     \* the calls that resolve the next one, the innermost first
          stage, failure,
          orderly     \* no substitution yet was one that may lose a binder
vars == <<parsed, decls, resolved, frames, stage, failure, orderly>>

Init ==
  /\ parsed \in Modules /\ decls = parsed /\ resolved = <<>> /\ frames = <<>>
  /\ stage = "parse" /\ failure = "none" /\ orderly = TRUE
Fail(why) == failure' = why /\ stage' = "failed" /\ UNCHANGED <<decls, resolved>>
Go(from, to) == stage = from /\ stage' = to /\ UNCHANGED failure

Parse ==
  /\ UNCHANGED <<parsed, frames, orderly>> /\ stage = "parse"
  /\ IF /\ Cardinality({i \in DOMAIN decls : decls[i].kind = "module"}) = 1
        /\ \A d \in Of(decls, {"data"}) : Expandable(d)
     THEN Go("parse", "index") /\ decls' = expandDataDefinitions(decls) /\ UNCHANGED resolved
     ELSE Fail("parse")
Index ==
  /\ UNCHANGED <<parsed, frames, orderly>> /\ stage = "index"
  /\ IF Indexable(decls) THEN Go("index", "elaborate") /\ UNCHANGED <<decls, resolved>> ELSE Fail("index")
Elaborate ==
  /\ UNCHANGED <<parsed, frames, orderly>> /\ stage = "elaborate"
  /\ IF \E d \in Of(elaborateTerms(decls), {"poly"}) : HasFailed(d.value) THEN Fail("elaborate")
     ELSE Go("elaborate", "resolve") /\ decls' = elaborateTerms(decls) /\ UNCHANGED resolved

-----------------------------------------------------------------------------
(* The free names of a value in the order in which they are found.         *)
RECURSIVE Visited(_, _)
Visited(x, b) ==
  With(Parts(x, b), LAMBDA parts :
    <<Scoped(x, b)>> \o FoldLeft(LAMBDA seq, p : Visited(p.node, p.bound) \o seq, <<>>, parts))
FreeNames(x, kind) ==
  LET found == SelectSeq(Visited(x, {}), LAMBDA s : s.node.kind = kind /\ s.node.name \notin s.bound /\ ~ IsLiteral(s.node.name))
      names == [i \in DOMAIN found |-> found[i].node.name]
  IN  FoldLeft(LAMBDA seq, n : IF Contains(seq, n) THEN seq ELSE Append(seq, n), <<>>, names)
usesSystemFNatLiteral(x) == \E s \in ToSet(Visited(x, {})) : s.node.kind = "systemF-var" /\ IsNatLiteral(s.node.name)

(* A call of resolveExternalTermReferences: the definition it resolves, as *)
(* far as it has come, and the names that are still to be looked up.       *)
Frame(d) ==
  [d |-> d,
   types |-> FreeNames(d.value, "type-var"),
   terms |-> SelectSeq(FreeNames(d.value, "systemF-var"), LAMBDA n : ~ (d.kind = "poly" /\ d.rec /\ n = d.name))]
NeedsNat(d) == usesSystemFNatLiteral(d.value) /\ "Nat" \notin Names(decls, {"type"})
Resolving == stage = "resolve" /\ UNCHANGED <<parsed, decls>>
top == frames[1]
WithTop(f) == frames' = <<f>> \o Tail(frames)
Abort(why) == failure' = why /\ stage' = "failed" /\ UNCHANGED <<frames, resolved>>
(* What is put in for a name: a definition that is being resolved already  *)
(* would never end, and overflows the stack.                               *)
Call(d) ==
  CASE NeedsNat(d) -> Abort("resolve")
    [] ~ NeedsNat(d) /\ d.name \in {frames[i].d.name : i \in DOMAIN frames} -> Abort("overflow")
    [] OTHER -> frames' = <<Frame(d)>> \o frames /\ UNCHANGED <<resolved, stage, failure>>
(* Noted of each substitution: whether the binders of the term stay.       *)
PutsTerm(d, value) == orderly' = (orderly /\ (d.kind = "poly" => KeepsBinders(d.value, value)))
PutsType(d, value) == orderly' = (orderly /\ (d.kind = "poly" => TypeKeepsBinders(d.value, value)))
substituteTripLangTerm(d, n, value) ==
  IF d.kind = "poly" THEN [d EXCEPT !.value = substituteHygienic(@, n, value, {})] ELSE d
substituteTripLangType(d, n, value) ==
  IF d.kind = "poly" THEN [d EXCEPT !.value = substituteTypeHygienic(@, n, value, {})] ELSE d

(* The definitions of the module are resolved in their order.              *)
Begin ==
  /\ Resolving /\ UNCHANGED orderly /\ frames = <<>> /\ Len(resolved) < Len(decls)
  /\ LET d == decls[Len(resolved) + 1]
     IN  IF HasValue(d) THEN Call(d)
         ELSE resolved' = Append(resolved, d) /\ UNCHANGED <<frames, stage, failure>>
(* Types first; one is not put into the definition of a type.              *)
ResolveType ==
  /\ Resolving /\ frames # <<>> /\ top.types # <<>>
  /\ LET n == Head(top.types)
     IN  IF n \notin Names(decls, {"type"}) \/ top.d.kind = "type" THEN Abort("resolve") /\ UNCHANGED orderly
         ELSE /\ WithTop([top EXCEPT !.d = substituteTripLangType(@, n, Named(decls, {"type"}, n).value), !.types = Tail(@)])
              /\ PutsType(top.d, Named(decls, {"type"}, n).value)
              /\ UNCHANGED <<resolved, stage, failure>>
NextTerm == frames # <<>> /\ top.types = <<>> /\ top.terms # <<>>
isTerm(n) == n \in Names(decls, TermKinds)
isType(n) == n \in Names(decls, {"type"})
(* An imported name stays, and so does a native, which has no value.       *)
Leave ==
  /\ Resolving /\ UNCHANGED orderly /\ NextTerm /\ ~ isType(Head(top.terms))
  /\ \/ ~ isTerm(Head(top.terms)) /\ Head(top.terms) \in Imported(decls)
     \/ isTerm(Head(top.terms)) /\ ~ HasValue(Named(decls, TermKinds, Head(top.terms)))
  /\ WithTop([top EXCEPT !.terms = Tail(@)]) /\ UNCHANGED <<resolved, stage, failure>>
NotFound ==
  /\ Resolving /\ UNCHANGED orderly /\ NextTerm
  /\ \/ ~ isTerm(Head(top.terms)) /\ ~ isType(Head(top.terms)) /\ Head(top.terms) \notin Imported(decls)
     \/ isTerm(Head(top.terms)) /\ isType(Head(top.terms))
  /\ Abort("resolve")
(* The definition that is put in is resolved before.                       *)
Enter ==
  /\ Resolving /\ UNCHANGED orderly /\ NextTerm /\ isTerm(Head(top.terms)) /\ ~ isType(Head(top.terms))
  /\ HasValue(Named(decls, TermKinds, Head(top.terms)))
  /\ Call(Named(decls, TermKinds, Head(top.terms)))
TypeAsTerm ==
  /\ Resolving /\ NextTerm /\ isType(Head(top.terms)) /\ ~ isTerm(Head(top.terms))
  /\ LET n == Head(top.terms)
         ty == Named(decls, {"type"}, n).value
     IN  /\ PutsType(top.d, ty)
         /\ WithTop([top EXCEPT !.d = substituteTripLangTerm(substituteTripLangType(@, n, ty), n, ty), !.terms = Tail(@)])
  /\ UNCHANGED <<resolved, stage, failure>>
Return ==
  /\ Resolving /\ frames # <<>> /\ top.types = <<>> /\ top.terms = <<>>
  /\ IF Len(frames) = 1 THEN frames' = <<>> /\ resolved' = Append(resolved, top.d) /\ UNCHANGED orderly
     ELSE LET caller == frames[2]
          IN  /\ frames' = <<[caller EXCEPT !.d = substituteTripLangTerm(@, top.d.name, top.d.value), !.terms = Tail(@)]>>
                             \o SubSeq(frames, 3, Len(frames))
              /\ PutsTerm(caller.d, top.d.value)
              /\ UNCHANGED resolved
  /\ UNCHANGED <<stage, failure>>

(* What may be left: imported names and those of recursive definitions.    *)
IsRecursive(ds, n) == \E d \in Of(ds, {"poly"}) : d.name = n /\ d.rec
Settled(d, ds) ==
  HasValue(d) =>
    /\ \A n \in externalReferences(d.value).terms : n \in Imported(ds) \/ IsRecursive(ds, n)
    /\ externalReferences(d.value).types \subseteq Imported(ds)
Check ==
  /\ UNCHANGED <<parsed, frames, orderly>> /\ stage = "resolve" /\ Len(resolved) = Len(decls)
  /\ IF \A i \in DOMAIN resolved : Settled(resolved[i], decls) THEN Go("resolve", "done") /\ UNCHANGED <<decls, resolved>>
     ELSE Fail("unsettled")

Next ==
  \/ Parse \/ Index \/ Elaborate \/ Check
  \/ Begin \/ ResolveType \/ Leave \/ NotFound \/ Enter \/ TypeAsTerm \/ Return
Spec == Init /\ [][Next]_vars

-----------------------------------------------------------------------------
(* What compile has to keep of a module: the meaning of its definitions,   *)
(* with names put in by plain replacement in nameless terms, and of its    *)
(* matches, by reducing the terms they become.                             *)

(* The meaning of a definition: the names of others stand for theirs.      *)
RECURSIVE MeaningOf(_, _)
MeaningOf(d, ds) ==
  LET own == IF d.rec THEN {d.name} ELSE {}
      used == FreeTerms(d.value, {}) \ own
      terms == {n \in used : n \in Names(ds, {"poly", "combinator"})}
      types == {n \in used \cup FreeTypes(d.value, {}) : n \in Names(ds, {"type"})}
  IN  Filled(Meant(d.value),
             [n \in terms \cup (types \cap used) |->
                IF n \in terms THEN MeaningOf(Named(ds, TermKinds, n), ds) ELSE Meant(Named(ds, {"type"}, n).value)],
             [n \in types |-> Meant(Named(ds, {"type"}, n).value)])

(* Terms are compared down to some depth, with recursive definitions put   *)
(* in wherever they are named: how often that was done makes no difference.*)
RECURSIVE Unrolled(_, _, _)
Unrolled(x, ds, depth) ==
  CASE depth = 0 -> Terminal
    [] depth > 0 /\ x.kind = "systemF-var" /\ IsRecursive(ds, x.name) ->
         With(MeaningOf(Named(ds, {"poly"}, x.name), ds), LAMBDA y : Unrolled(y, ds, depth))
    [] OTHER -> WithParts(x, LAMBDA y : Unrolled(y, ds, depth - 1))

Alike(x, y, ds) ==
  With(<<x, y>>, LAMBDA p : p[1] = p[2] \/ Unrolled(p[1], ds, Depth) = Unrolled(p[2], ds, Depth))

(* A definition that was resolved means what it meant by its names, if no  *)
(* substitution on the way was of those that may lose a binder.            *)
MeaningKept ==
  stage = "done" /\ orderly =>
    \A i \in DOMAIN resolved :
      HasValue(resolved[i]) => Alike(Meant(resolved[i].value), MeaningOf(decls[i], decls), decls)

(* A name of the module, or an imported one, never makes it fail; only     *)
(* definitions that need each other, a name that is both a term's and a    *)
(* type's, natives and types made of other types do.                       *)
Bound(d, ds) ==
  /\ FreeTerms(d.value, {}) \subseteq Names(ds, {"poly", "combinator", "type"}) \cup Imported(ds)
  /\ FreeTypes(d.value, {}) \subseteq Names(ds, {"type"}) \cup Imported(ds)
  /\ d.kind = "type" => FreeTypes(d.value, {}) = {}
  /\ usesSystemFNatLiteral(d.value) => "Nat" \in Names(ds, {"type"})
RECURSIVE Reaches(_, _)
Reaches(from, ds) ==
  LET more == UNION {FreeTerms(d.value, {}) \ (IF d.rec THEN {d.name} ELSE {}) : d \in {e \in Of(ds, {"poly"}) : e.name \in from}}
  IN  IF more \subseteq from THEN from ELSE Reaches(from \cup more, ds)
Cyclic(ds) ==
  \E d \in Of(ds, {"poly"}) :
    d.name \in Reaches(FreeTerms(d.value, {}) \ (IF d.rec THEN {d.name} ELSE {}), ds)
OnlyUnboundFails ==
  failure \in {"resolve", "unsettled", "overflow"} =>
    \/ Cyclic(decls)
    \/ Names(decls, TermKinds) \cap Names(decls, {"type"}) # {}
    \/ \E d \in {e \in ToSet(decls) : HasValue(e)} : ~ Bound(d, decls)

-----------------------------------------------------------------------------
(* Reduction of a term without types, in its head.  There are no bound     *)
(* names outside of it, so an argument can be put in as it is.             *)
RECURSIVE Erased(_)
Erased(x) ==
  CASE x.kind = "systemF-type-abs" -> Erased(x.body)
    [] x.kind = "systemF-type-app" -> Erased(x.term)
    [] x.kind = "systemF-abs" -> Abs("", Terminal, Erased(x.body))
    [] OTHER -> WithParts(x, Erased)
RECURSIVE Opened(_, _, _)
Opened(x, k, arg) ==
  CASE x.kind = "bound" -> IF x.at = k THEN arg ELSE x
    [] x.kind = "systemF-abs" -> Abs("", Terminal, Opened(x.body, k + 1, arg))
    [] OTHER -> WithParts(x, LAMBDA y : Opened(y, k, arg))
RECURSIVE HeadNormal(_)
HeadNormal(x) ==
  IF x.kind # "non-terminal" THEN x
  ELSE With(HeadNormal(x.lft), LAMBDA f :
         IF f.kind = "systemF-abs" THEN With(Opened(f.body, 1, x.rgt), HeadNormal) ELSE App(f, x.rgt))
Reduced(x, terms) == With(Erased(Filled(Meant(x), terms, NoNames)), HeadNormal)

MatchesOf(x) == {s.node : s \in {t \in ToSet(Visited(x, {})) : t.node.kind = "systemF-match"}}
DataOf(m) ==
  {d \in Of(parsed, {"data"}) \cup Elsewhere : {m.arms[i].ctor : i \in DOMAIN m.arms} \subseteq CtorNames(d)}
Argument(i) == Var("argument" \o ToString(i))
(* The arms of imported constructors are taken as they are written: the    *)
(* data definition is not there to sort or to count them by.               *)
AsDeclared(m, d) ==
  /\ [i \in DOMAIN m.arms |-> m.arms[i].ctor] = [i \in DOMAIN d.ctors |-> d.ctors[i].name]
  /\ \A i \in DOMAIN m.arms : Len(m.arms[i].params) = Len(d.ctors[i].fields)
(* A match on a value made with a constructor takes the arm of that        *)
(* constructor, with the fields of the value for its parameters, in        *)
(* whatever order the arms are written; if the constructors are imported,  *)
(* only when there is an arm for each, in the order of their declaration.  *)
MatchTakesItsArm ==
  stage = "resolve" /\ resolved = <<>> /\ frames = <<>> =>
    \A p \in Of(parsed, {"poly"}) : \A m \in MatchesOf(p.value) : \A d \in DataOf(m) : \A i \in DOMAIN m.arms :
     (d \in Elsewhere => AsDeclared(m, d)) =>
      LET arm == m.arms[i]
          k == IndexOf(d, arm.ctor)
          made == FoldLeft(App, mkConstructorTerm(d, k, ResultType(d)), [j \in DOMAIN arm.params |-> Argument(j)])
          taken == elaborateSystemF([m EXCEPT !.scrutinee = Var("scrutinee")], decls)
          given == [n \in Params(arm) |-> Argument(CHOOSE j \in DOMAIN arm.params : arm.params[j] = n)]
      IN  Reduced(taken, [n \in {"scrutinee"} |-> Meant(made)]) = Reduced(elaborateSystemF(arm.body, decls), given)

(* The result of a case is no other type: the name chosen for it does as   *)
(* well as one that occurs nowhere.  It is chosen apart from the parameters*)
(* and the name of the definition, not from the types of the fields, which *)
(* therefore must not have it (R, or R0 when R is a parameter).            *)
ResultTypeIsFresh ==
  stage \in {"index", "elaborate"} =>
    \A d \in Of(decls, {"data"}) :
      ResultType(d) \notin UNION {FreeTypes(CaseType(d, k, d.name), {}) : k \in DOMAIN d.ctors} =>
        /\ Meant(Named(decls, {"type"}, d.name).value) = Meant(mkScottType(d, "elsewhere"))
        /\ \A k \in DOMAIN d.ctors :
             Meant(mkConstructorTerm(d, k, ResultType(d))) = Meant(mkConstructorTerm(d, k, "elsewhere"))
=============================================================================
