------------------------------ MODULE FrontEnd ------------------------------
(***************************************************************************)
(* The first passes over the declarations of a module: data definitions    *)
(* are expanded (data.ts), the names indexed (symbolTable.ts), and matches *)
(* turned into applications of what they match (elaboration.ts).           *)
(***************************************************************************)
EXTENDS Substitution

(* The declarations.  "value" is the term or the type of a definition.     *)
Poly(n, t) == [kind |-> "poly", name |-> n, rec |-> FALSE, value |-> t]
PolyRec(n, t) == [kind |-> "poly", name |-> n, rec |-> TRUE, value |-> t]
Combinator(n) == [kind |-> "combinator", name |-> n, rec |-> FALSE, value |-> Terminal]
TypeDef(n, t) == [kind |-> "type", name |-> n, rec |-> FALSE, value |-> t]
Native(n) == [kind |-> "native", name |-> n]
Ctor(n, lowered, fields) == [name |-> n, lower |-> lowered, fields |-> fields]
Data(n, params, ctors) == [kind |-> "data", name |-> n, params |-> params, ctors |-> ctors]
Import(from, ref) == [kind |-> "import", name |-> from, ref |-> ref]
Plain(kind, n) == [kind |-> kind, name |-> n]

Of(ds, kinds) == {d \in ToSet(ds) : d.kind \in kinds}
HasValue(d) == d.kind \in {"poly", "combinator", "type"}
Unique(seq) == IsInjective(seq)

-----------------------------------------------------------------------------
(* data.ts: a type alias and a term for each constructor, by the encoding  *)
(* of Scott: a value takes what to do in each case.                        *)
arrows(fields, result) == FoldRight(LAMBDA f, t : Arrow(f, t), fields, result)
freshTypeVarName(base, used) ==
  IF base \notin used THEN base
  ELSE base \o ToString(CHOOSE k \in 0 .. Cardinality(used) :
                          base \o ToString(k) \notin used /\ \A j \in 0 .. k - 1 : base \o ToString(j) \in used)
ResultType(d) == freshTypeVarName("R", ToSet(d.params) \cup {d.name})
CaseType(d, i, r) == arrows(d.ctors[i].fields, TypeVar(r))
Cases(d) == [i \in DOMAIN d.ctors |-> i]
mkScottType(d, r) ==
  FoldRight(Forall, d.params,
            Forall(r, FoldRight(LAMBDA i, t : Arrow(CaseType(d, i, r), t), Cases(d), TypeVar(r))))
CaseName(i) == "__case" \o ToString(i - 1)
FieldName(c, i) == "__" \o c.lower \o "_" \o ToString(i - 1)
mkConstructorTerm(d, k, r) ==
  LET c == d.ctors[k]
      fields == [i \in DOMAIN c.fields |-> i]
      chosen == FoldLeft(LAMBDA t, i : App(t, Var(FieldName(c, i))), Var(CaseName(k)), fields)
      overCases == FoldRight(LAMBDA i, t : Abs(CaseName(i), CaseType(d, i, r), t), Cases(d), chosen)
      overFields == FoldRight(LAMBDA i, t : Abs(FieldName(c, i), c.fields[i], t), fields, TypeAbs(r, overCases))
  IN  FoldRight(TypeAbs, d.params, overFields)
Expandable(d) ==
  /\ d.ctors # <<>> /\ Unique(d.params)
  /\ Unique([i \in DOMAIN d.ctors |-> d.ctors[i].name])
  /\ \A i \in DOMAIN d.ctors : d.ctors[i].name # d.name
expandDataDefinition(d) ==
  <<TypeDef(d.name, mkScottType(d, ResultType(d)))>>
    \o [k \in DOMAIN d.ctors |-> Poly(d.ctors[k].name, mkConstructorTerm(d, k, ResultType(d)))]
expandDataDefinitions(ds) ==
  FlattenSeq([i \in DOMAIN ds |-> IF ds[i].kind = "data" THEN <<ds[i]>> \o expandDataDefinition(ds[i]) ELSE <<ds[i]>>])

-----------------------------------------------------------------------------
(* symbolTable.ts: terms, types and data definitions by their names.       *)
TermKinds == {"poly", "combinator", "native"}
Names(ds, kinds) == {d.name : d \in Of(ds, kinds)}
Named(ds, kinds, n) == CHOOSE d \in Of(ds, kinds) : d.name = n
Imported(ds) == {d.ref : d \in Of(ds, {"import"})}
CtorNames(d) == {d.ctors[i].name : i \in DOMAIN d.ctors}
DataWith(ds, c) == {d \in Of(ds, {"data"}) : c \in CtorNames(d)}
Indexable(ds) ==
  /\ \A kinds \in {TermKinds, {"type"}, {"data"}} :
       \A i, j \in DOMAIN ds : ds[i].kind \in kinds /\ ds[j].kind \in kinds /\ ds[i].name = ds[j].name => i = j
  /\ \A d, e \in Of(ds, {"data"}) : d # e => CtorNames(d) \cap CtorNames(e) = {}
IndexOf(d, c) == CHOOSE i \in DOMAIN d.ctors : d.ctors[i].name = c

(* elaboration.ts: a match becomes its scrutinee, applied to the arms.     *)
Failed == [kind |-> "failed"]
Unknown(n) == TypeVar("A")
ArmTerm(arm, types, body) ==
  FoldRight(LAMBDA i, t : Abs(arm.params[i], types[i], t), [i \in DOMAIN arm.params |-> i], body)
AppliedTo(scrutinee, ty, arms) == FoldLeft(App, TypeApp(scrutinee, ty), arms)
(* The arms of a match, in the order of the constructors they are for.     *)
InOrder(arms, d) == SortSeq(arms, LAMBDA a, b : IndexOf(d, a.ctor) < IndexOf(d, b.ctor))
CoveredBy(d, arms) ==
  /\ Unique([i \in DOMAIN arms |-> arms[i].ctor])
  /\ {arms[i].ctor : i \in DOMAIN arms} = CtorNames(d)
  /\ \A i \in DOMAIN arms : Len(arms[i].params) = Len(d.ctors[IndexOf(d, arms[i].ctor)].fields)
RECURSIVE elaborateSystemF(_, _)
elaborateMatch(m, ds) ==
  LET E(y) == elaborateSystemF(y, ds)
      known == {i \in DOMAIN m.arms : DataWith(ds, m.arms[i].ctor) # {}}
      imported == {i \in DOMAIN m.arms \ known : m.arms[i].ctor \in Imported(ds)}
      d == CHOOSE d \in Of(ds, {"data"}) : m.arms[1].ctor \in CtorNames(d)
      sorted == InOrder(m.arms, d)
      Fields(arm) == d.ctors[IndexOf(d, arm.ctor)].fields
  IN  CASE m.arms = <<>> \/ known \cup imported # DOMAIN m.arms -> Failed
        [] m.arms # <<>> /\ known \cup imported = DOMAIN m.arms /\ imported # {} ->
             AppliedTo(E(m.scrutinee), m.ty,
                       [i \in DOMAIN m.arms |->
                          ArmTerm(m.arms[i], [j \in DOMAIN m.arms[i].params |-> Unknown(j)], E(m.arms[i].body))])
        [] m.arms # <<>> /\ known = DOMAIN m.arms /\ ~ CoveredBy(d, m.arms) -> Failed
        [] OTHER ->
             AppliedTo(E(m.scrutinee), m.ty,
                       [i \in DOMAIN sorted |-> ArmTerm(sorted[i], Fields(sorted[i]), E(sorted[i].body))])
elaborateSystemF(x, ds) ==
  LET E(y) == elaborateSystemF(y, ds)
  IN  CASE x.kind = "systemF-match" -> elaborateMatch(x, ds)
        [] x.kind = "systemF-abs" -> Abs(x.name, x.ty, E(x.body))
        [] x.kind = "systemF-type-app" -> TypeApp(E(x.term), x.ty)
        [] x.kind = "non-terminal" ->
             IF x.rgt.kind = "systemF-var" /\ x.rgt.name \in Names(ds, {"type"})
             THEN TypeApp(E(x.lft), Named(ds, {"type"}, x.rgt.name).value)
             ELSE App(E(x.lft), E(x.rgt))
        [] OTHER -> WithParts(x, E)
elaborateTerms(ds) ==
  [i \in DOMAIN ds |-> IF ds[i].kind = "poly" THEN [ds[i] EXCEPT !.value = elaborateSystemF(@, ds)] ELSE ds[i]]
RECURSIVE HasFailed(_)
HasFailed(x) == x.kind = "failed" \/ \E y \in ToSet(PartNodes(x)) : HasFailed(y)
=============================================================================
