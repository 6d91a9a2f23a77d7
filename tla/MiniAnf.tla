------------------------------ MODULE MiniAnf ------------------------------
(***************************************************************************)
(* A-normal form: the conversion of Mini-core (toAnf.ts), the way back     *)
(* (anfToMiniCore.ts), the types of values (typeOf.ts) and the validator   *)
(* (validateAnf.ts).  A chain of lets is a record: lets, the sequence of   *)
(* its bindings, and tail, the value it ends in.                           *)
(***************************************************************************)
EXTENDS MiniCore

AtomValue(atom) == [kind |-> "atom", atom |-> atom]
IsAtomic(e) == e.kind \in {"var", "lit"}
Anf(lets, tail) == [lets |-> lets, tail |-> tail]

RECURSIVE LocalsOf(_)
LocalsOfAll(es) == UNION {LocalsOf(es[i]) : i \in DOMAIN es}
LocalsOf(e) ==
  CASE e.kind = "var" -> {e.id}
    [] e.kind = "lit" -> {}
    [] e.kind = "case" ->
         LocalsOf(e.scrutinee) \cup
         UNION {ToSet(e.alts[i].binders) \cup LocalsOf(e.alts[i].body) : i \in DOMAIN e.alts}
    [] e.kind = "let" ->
         LocalsOf(e.body) \cup
         UNION {{e.bindings[i].id} \cup LocalsOf(e.bindings[i].value) : i \in DOMAIN e.bindings}
    [] OTHER -> LocalsOfAll(e.args)
NextLocal(ids) == Max({-1} \cup ids) + 1

-----------------------------------------------------------------------------
(* The state of a conversion: the next fresh local and the types recorded. *)
(* Both continuations of the code, the tail and the binding of a value, get*)
(* the same prefix of lets and the same last value.                        *)
recordLocalType(s, id, e, m) ==
  LET type == typeOfMiniCoreExpr(e, m, s.locals)
      Keep == id \in DOMAIN s.locals /\ s.locals[id].kind # "unknown"
  IN  [s EXCEPT !.failed = @ \/ type = Failed,
                !.locals = IF Keep THEN @ ELSE Extend(@, id, type)]

RECURSIVE Normalize(_, _, _)

normalizeAtom(e, s, m) ==
  IF IsAtomic(e) THEN [lets |-> <<>>, atom |-> e, s |-> s]
  ELSE LET r   == Normalize(e, s, m)
           tmp == r.s.next
       IN  [lets |-> Append(r.lets, Binding(tmp, r.value)), atom |-> Var(tmp),
            s |-> recordLocalType([r.s EXCEPT !.next = tmp + 1], tmp, e, m)]

NameOperands(es, s, m) ==
  FoldLeft(LAMBDA acc, e :
             LET r == normalizeAtom(e, acc.s, m)
             IN  [lets |-> acc.lets \o r.lets, atoms |-> Append(acc.atoms, r.atom), s |-> r.s],
           [lets |-> <<>>, atoms |-> <<>>, s |-> s], es)
(* A fault: the operands are named from right to left.                     *)
normalizeAtomsBackwards(es, s, m) ==
  LET r == NameOperands(Reverse(es), s, m) IN [r EXCEPT !.atoms = Reverse(@)]
normalizeAtoms(es, s, m) == NameOperands(es, s, m)

NormalizeAlts(alts, s, m) ==
  FoldLeft(LAMBDA acc, alt :
             LET r == Normalize(alt.body, acc.s, m)
             IN  [alts |-> Append(acc.alts, Alt(alt.constructor, alt.binders, Anf(r.lets, r.value))),
                  s |-> r.s],
           [alts |-> <<>>, s |-> s], alts)

normalizeBindings(bindings, s, m) ==
  FoldLeft(LAMBDA acc, b :
             LET r == Normalize(b.value, acc.s, m)
             IN  [lets |-> Append(acc.lets \o r.lets, Binding(b.id, r.value)),
                  s |-> recordLocalType(r.s, b.id, b.value, m)],
           [lets |-> <<>>, s |-> s], bindings)

Normalize(e, s, m) ==
  CASE IsAtomic(e) -> [lets |-> <<>>, value |-> AtomValue(e), s |-> s]
    [] IsApply(e) ->
         LET r == normalizeAtoms(e.args, s, m)
         IN  [lets |-> r.lets, value |-> [e EXCEPT !.args = r.atoms], s |-> r.s]
    [] e.kind = "case" ->
         LET scrutinee == normalizeAtom(e.scrutinee, s, m)
             branches  == NormalizeAlts(e.alts, scrutinee.s, m)
         IN  [lets |-> scrutinee.lets, value |-> Case(scrutinee.atom, branches.alts),
              s |-> branches.s]
    [] e.kind = "let" ->
         LET bound == normalizeBindings(e.bindings, s, m)
             body  == Normalize(e.body, bound.s, m)
         IN  [lets |-> bound.lets \o body.lets, value |-> body.value, s |-> body.s]

FirstTemporary(fn, locals) ==
  NextLocal(ToSet(fn.params) \cup LocalsOf(fn.body) \cup DOMAIN locals)
AnfFunction(fn, r) ==
  [fn |-> [fn EXCEPT !.body = Anf(r.lets, r.value)], locals |-> r.s.locals, failed |-> r.s.failed]
toAnfFunction(fn, p) ==
  LET locals == p.metadata.locals[fn.id]
      s == [next |-> FirstTemporary(fn, locals), locals |-> locals, failed |-> FALSE]
  IN  AnfFunction(fn, Normalize(fn.body, s, p.metadata))

FunctionsOf(p) == {i \in DOMAIN p.symbols : p.symbols[i].kind = "function"}
AnfProgram(p, converted) ==
  [program |-> [p EXCEPT !.symbols = [i \in DOMAIN @ |-> IF i \in DOMAIN converted THEN converted[i].fn ELSE @[i]],
                         !.metadata.locals = [i \in DOMAIN converted |-> converted[i].locals]],
   failed |-> \E i \in DOMAIN converted : converted[i].failed]
toAnfProgram(p) == AnfProgram(p, [i \in FunctionsOf(p) |-> toAnfFunction(p.symbols[i], p)])

-----------------------------------------------------------------------------
(* Back to Mini-core: each binding becomes a let of its own.               *)
RECURSIVE RaiseValue(_), anfToMiniCoreExpr(_)
RaiseValue(v) ==
  CASE v.kind = "atom" -> v.atom
    [] v.kind = "case" ->
         Case(v.scrutinee, [i \in DOMAIN v.alts |->
                Alt(v.alts[i].constructor, v.alts[i].binders, anfToMiniCoreExpr(v.alts[i].body))])
    [] OTHER -> v
anfToMiniCoreExpr(a) ==
  FoldRight(LAMBDA b, body : Let(<<Binding(b.id, RaiseValue(b.value))>>, body),
            a.lets, RaiseValue(a.tail))
anfToMiniCoreProgram(p) ==
  [p EXCEPT !.symbols = [i \in DOMAIN @ |->
      IF i \in FunctionsOf(p) THEN [@[i] EXCEPT !.body = anfToMiniCoreExpr(@)] ELSE @[i]]]

-----------------------------------------------------------------------------
typeOfAnfAtom(atom, locals) ==
  IF atom.kind = "lit" THEN typeOfLiteral(atom.value) ELSE LocalType(locals, atom.id)
RECURSIVE typeOfAnfValue(_, _, _)
typeOfAnfValue(v, m, locals) ==
  CASE v.kind = "atom" -> typeOfAnfAtom(v.atom, locals)
    [] v.kind = "case" -> IF v.alts = <<>> THEN UnknownT
                          ELSE typeOfAnfValue(v.alts[1].body.tail, m, locals)
    [] OTHER -> TypeOfApply(v, m)
typeOfAnfExpr(a, m, locals) == typeOfAnfValue(a.tail, m, locals)

-----------------------------------------------------------------------------
(* The validator of A-normal form, for a function fn of program p.  The    *)
(* binders of a case have their field types unless the metadata knows      *)
(* better; a local is bound once on the way to any expression.             *)
AtomBound(atom, bound) == atom.kind = "var" => atom.id \in bound
BoolScrutinee(type, d, m) == m.bool.dataType = d /\ type.kind = "bool"
assertScrutineeMatchesDataType(type, d, m) ==
  \/ type.kind = "unknown"
  \/ BoolScrutinee(type, d, m)
  \/ type.kind = "data" /\ type.id = d

RECURSIVE ValidAnf(_, _, _, _)
ValidAlt(alt, bound, p, locals) ==
  LET info == p.metadata.constructors[alt.constructor]
  IN  /\ alt.constructor \in DOMAIN p.metadata.constructors
      /\ Len(alt.binders) = Len(info.fieldTypes)
      /\ DistinctSeq(alt.binders)
      /\ ToSet(alt.binders) \cap bound = {}
      /\ \A i \in DOMAIN alt.binders :
           alt.binders[i] \in DOMAIN locals =>
             miniTypeEquals(locals[alt.binders[i]], info.fieldTypes[i])
BinderTypes(v, p) ==
  FoldLeft(LAMBDA f, alt : f @@ MapOf(alt.binders, p.metadata.constructors[alt.constructor].fieldTypes),
           NoMap, v.alts)
ValidCase(v, bound, p, locals0) ==
  LET m == p.metadata
      locals == locals0 @@ BinderTypes(v, p)
      DataOf(i) == m.constructors[v.alts[i].constructor].dataType
      TypeOf(i) == typeOfAnfExpr(v.alts[i].body, m, locals)
  IN  /\ v.alts # <<>>
      /\ \A i \in DOMAIN v.alts : ValidAlt(v.alts[i], bound, p, locals0)
      /\ DistinctSeq([i \in DOMAIN v.alts |-> v.alts[i].constructor])
      /\ \A i \in DOMAIN v.alts : /\ DataOf(i) = DataOf(1)
                                  /\ TypeOf(i) # Failed
                                  /\ miniTypeEquals(TypeOf(1), TypeOf(i))
      /\ typeOfAnfAtom(v.scrutinee, locals) # Failed
      /\ assertScrutineeMatchesDataType(typeOfAnfAtom(v.scrutinee, locals), DataOf(1), m)
      /\ \A i \in DOMAIN v.alts :
           ValidAnf(v.alts[i].body, bound \cup ToSet(v.alts[i].binders), p, locals)
ValidValue(v, bound, p, locals) ==
  CASE v.kind = "atom" -> AtomBound(v.atom, bound)
    [] v.kind = "case" -> AtomBound(v.scrutinee, bound) /\ ValidCase(v, bound, p, locals)
    [] v.kind = "runtimeCall" ->
         /\ Len(v.args) = Len(TRIP_RUNTIME_SYMBOLS[v.target].args)
         /\ \A i \in DOMAIN v.args : AtomBound(v.args[i], bound)
    [] OTHER -> /\ IsSymbol(p, v.target, SymbolKind(v))
                /\ Len(v.args) = p.symbols[v.target].arity
                /\ \A i \in DOMAIN v.args : AtomBound(v.args[i], bound)
ValidAnf(a, bound, p, locals) ==
  LET Scope(i) == bound \cup {a.lets[j].id : j \in 1 .. i - 1}
  IN  /\ \A i \in DOMAIN a.lets : /\ a.lets[i].id \notin Scope(i)
                                  /\ ValidValue(a.lets[i].value, Scope(i), p, locals)
      /\ ValidValue(a.tail, Scope(Len(a.lets) + 1), p, locals)

validateConstructorTags(m) ==
  \A d \in DOMAIN m.dataTypes :
    \A c1, c2 \in ToSet(m.dataTypes[d].constructors) \cap DOMAIN m.constructors :
      m.constructors[c1].tag = m.constructors[c2].tag => c1 = c2
validateAnfExecutable(p) ==
  /\ validateConstructorTags(p.metadata)
  /\ \A i \in DOMAIN p.symbols : SymbolInPlace(p, i)
  /\ \A i \in FunctionsOf(p) :
       /\ p.symbols[i].arity = Len(p.symbols[i].params)
       /\ DistinctSeq(p.symbols[i].params)
       /\ ValidAnf(p.symbols[i].body, ToSet(p.symbols[i].params), p, p.metadata.locals[i])
  /\ IsSymbol(p, p.entry, "function")
  /\ p.symbols[p.entry].arity = 0
=============================================================================
