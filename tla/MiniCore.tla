------------------------------ MODULE MiniCore ------------------------------
(***************************************************************************)
(* Mini-core, the first-order intermediate language: its expressions       *)
(* (lib/minicore/ast.ts), the strict interpreter (evaluator.ts), the       *)
(* validator (validator.ts), the types of expressions (typeOf.ts) and the  *)
(* subset the native backend accepts (nativeV1Subset.ts).                  *)
(*                                                                         *)
(* A program is a record of symbols (a function from identifiers), entry,  *)
(* byName (from names) and metadata: functions, constructors, primitives,  *)
(* dataTypes, exported, bool and, per function, the types of its locals.   *)
(***************************************************************************)
EXTENDS Integers, Sequences, SequencesExt, FiniteSets

CONSTANT CallBound   \* bound: calls after which an evaluation is given up
ASSUME CallBoundAssumption == CallBound \in Nat

-----------------------------------------------------------------------------
(* The types of Mini-core (metadata.ts): equality with an unknown type,     *)
(* unification and substitution.  A type is a record with a kind; a name   *)
(* or a number stands for itself.                                          *)
NatT == [kind |-> "nat"]
U8T == [kind |-> "u8"]
BoolT == [kind |-> "bool"]
UnitT == [kind |-> "unit"]
UnknownT == [kind |-> "unknown"]
DataT(id, args) == [kind |-> "data", id |-> id, args |-> args]
FnT(params, result) == [kind |-> "fn", params |-> params, result |-> result]
ForallT(params, body) == [kind |-> "forall", params |-> params, body |-> body]
VarT(name) == [kind |-> "var", name |-> name]

Extend(f, x, y) == [z \in DOMAIN f \cup {x} |-> IF z = x THEN y ELSE f[z]]
NoMap == [x \in {} |-> x]
MapOf(xs, ys) == [x \in ToSet(xs) |-> ys[CHOOSE i \in DOMAIN xs :
                                /\ xs[i] = x /\ \A j \in DOMAIN xs : xs[j] = x => j <= i]]

typeOfLiteral(literal) == IF literal.kind = "u8" THEN U8T ELSE NatT

RECURSIVE miniTypeEquals(_, _)
EqualAll(as, bs) ==
  /\ Len(as) = Len(bs)
  /\ \A i \in DOMAIN as : miniTypeEquals(as[i], bs[i])
miniTypeEquals(a, b) ==
  \/ a.kind = "unknown" \/ b.kind = "unknown"
  \/ /\ a.kind = b.kind
     /\ CASE a.kind = "var"    -> a.name = b.name
          [] a.kind = "data"   -> a.id = b.id /\ EqualAll(a.args, b.args)
          [] a.kind = "fn"     -> /\ EqualAll(a.params, b.params)
                                  /\ miniTypeEquals(a.result, b.result)
          [] a.kind = "forall" -> /\ a.params = b.params
                                  /\ miniTypeEquals(a.body, b.body)
          [] OTHER             -> TRUE

(* Unification updates the map it is given: the result is the map and      *)
(* whether it got through; a failure keeps what was bound before it.       *)
(* Bound variables are followed without a check for cycles, so it may      *)
(* recurse for ever: the overflow of the stack is an exception like the    *)
(* others.  StackDepth bounds the recursion.                               *)
StackDepth == 12
RECURSIVE Unify(_, _, _, _)
Unified(subst) == [ok |-> TRUE, subst |-> subst]
NotUnified(subst) == [ok |-> FALSE, subst |-> subst]
UnifyAll(as, bs, subst, depth) ==
  FoldLeft(LAMBDA acc, i : IF acc.ok THEN Unify(as[i], bs[i], acc.subst, depth) ELSE acc,
           Unified(subst), [i \in DOMAIN as |-> i])
Unify(a, b, subst, depth) ==
  CASE depth = 0 -> NotUnified(subst)
    [] depth > 0 /\ (a.kind = "unknown" \/ b.kind = "unknown") -> Unified(subst)
    [] depth > 0 /\ a.kind = "var" /\ b.kind # "unknown" ->
         IF a.name \in DOMAIN subst THEN Unify(subst[a.name], b, subst, depth - 1)
         ELSE IF b = a THEN Unified(subst)
         ELSE Unified(Extend(subst, a.name, b))
    [] depth > 0 /\ a.kind \notin {"var", "unknown"} /\ b.kind = "var" ->
         IF b.name \in DOMAIN subst THEN Unify(a, subst[b.name], subst, depth - 1)
         ELSE Unified(Extend(subst, b.name, a))
    [] depth > 0 /\ a.kind = b.kind /\ a.kind = "data" ->
         IF a.id # b.id \/ Len(a.args) # Len(b.args) THEN NotUnified(subst)
         ELSE UnifyAll(a.args, b.args, subst, depth - 1)
    [] depth > 0 /\ a.kind = b.kind /\ a.kind = "fn" ->
         IF Len(a.params) # Len(b.params) THEN NotUnified(subst)
         ELSE LET params == UnifyAll(a.params, b.params, subst, depth - 1)
              IN  IF params.ok THEN Unify(a.result, b.result, params.subst, depth - 1)
                  ELSE params
    [] depth > 0 /\ a.kind = b.kind /\ a.kind = "forall" ->
         IF Len(a.params) # Len(b.params) THEN NotUnified(subst)
         ELSE Unify(a.body, b.body, subst, depth - 1)
    [] OTHER -> IF a.kind = b.kind THEN Unified(subst) ELSE NotUnified(subst)
miniTypeUnify(a, b, subst) == Unify(a, b, subst, StackDepth)

(* Substitution replaces every variable at once and goes under quantifiers *)
(* without renaming, as the code says.                                     *)
RECURSIVE substituteMiniType(_, _)
SubstituteAll(types, subst) == [i \in DOMAIN types |-> substituteMiniType(types[i], subst)]
substituteMiniType(type, subst) ==
  CASE type.kind = "var" -> IF type.name \in DOMAIN subst THEN subst[type.name] ELSE type
    [] type.kind = "data" -> DataT(type.id, SubstituteAll(type.args, subst))
    [] type.kind = "fn" -> FnT(SubstituteAll(type.params, subst),
                               substituteMiniType(type.result, subst))
    [] type.kind = "forall" -> ForallT(type.params, substituteMiniType(type.body, subst))
    [] OTHER -> type

RECURSIVE containsFunctionType(_)
containsFunctionType(type) ==
  \/ type.kind \in {"fn", "forall"}
  \/ type.kind = "data" /\ \E i \in DOMAIN type.args : containsFunctionType(type.args[i])

-----------------------------------------------------------------------------
(* trip_runtime.h as runtimeSymbols.ts declares it.                        *)
TRIP_RUNTIME_SYMBOLS ==
  [trip_read_one  |-> [args |-> <<>>,    result |-> U8T,   effects |-> "io"],
   trip_write_one |-> [args |-> <<U8T>>, result |-> UnitT, effects |-> "io"]]

-----------------------------------------------------------------------------
(* Expressions.                                                            *)

Var(id) == [kind |-> "var", id |-> id]
Lit(value) == [kind |-> "lit", value |-> value]
Apply(kind, target, args, typeArgs) ==
  [kind |-> kind, target |-> target, args |-> args, typeArgs |-> typeArgs]
Call(target, args, typeArgs) == Apply("call", target, args, typeArgs)
Con(target, fields, typeArgs) == Apply("con", target, fields, typeArgs)
Prim(target, args) == Apply("prim", target, args, <<>>)
RuntimeCall(name, args) == Apply("runtimeCall", name, args, <<>>)
Case(scrutinee, alts) == [kind |-> "case", scrutinee |-> scrutinee, alts |-> alts]
Alt(constructor, binders, body) ==
  [constructor |-> constructor, binders |-> binders, body |-> body]
Let(bindings, body) == [kind |-> "let", bindings |-> bindings, body |-> body]
Binding(id, value) == [id |-> id, value |-> value]

NatV(n) == [kind |-> "nat", n |-> n]
U8V(n) == [kind |-> "u8", n |-> n % 256]
ConV(tag, fields) == [kind |-> "con", tag |-> tag, fields |-> fields]

IsSymbol(p, id, kind) == id \in DOMAIN p.symbols /\ p.symbols[id].kind = kind
IsApply(e) == e.kind \in {"call", "con", "prim", "runtimeCall"}
SymbolKind(e) == CASE e.kind = "call" -> "function"
                   [] e.kind = "con" -> "constructor"
                   [] e.kind = "prim" -> "primitive"
DistinctSeq(s) == Cardinality(ToSet(s)) = Len(s)

-----------------------------------------------------------------------------
(* The interpreter.  A run carries the telemetry, the reason it failed for *)
(* ("" while it runs) and, for the meaning of runtime calls, the input left*)
(* and the output written.                                                 *)
Fresh(input) == [val |-> NatV(0), err |-> "", functionEntries |-> 0, caseDispatches |-> 0,
                 constructorAllocs |-> 0, primitiveOps |-> 0, maxRecursionDepth |-> 0,
                 in |-> input, out |-> <<>>]
Fails(r, why) == [r EXCEPT !.err = why]
Gives(r, v) == [r EXCEPT !.val = v]

boolValue(p, b) == ConV(p.byName[IF b THEN "Prelude.true" ELSE "Prelude.false"], <<>>)
isBoolValue(p, v, expected) == v.kind = "con" /\ v.tag = boolValue(p, expected).tag

RECURSIVE IsBin(_, _), binToBigInt(_, _)
IsBin(p, v) == v.kind = "con" /\ \/ v.tag = p.byName["Prelude.BZ"]
                                 \/ /\ v.tag \in {p.byName["Prelude.B0"], p.byName["Prelude.B1"]}
                                    /\ IsBin(p, v.fields[1])
binToBigInt(p, v) ==
  IF v.tag = p.byName["Prelude.BZ"] THEN 0
  ELSE 2 * binToBigInt(p, v.fields[1]) + (IF v.tag = p.byName["Prelude.B1"] THEN 1 ELSE 0)

(* The operands each primitive insists on, and what it gives for them.     *)
NatPrims == {"Nat.succ", "Nat.add", "Nat.mul", "Nat.lte"}
BinPrims == {"Nat.fromBin", "Bin.lteBin"}
U8Prims == {"Prelude.eqU8", "Prelude.ltU8", "Prelude.addU8", "Prelude.subU8",
            "Prelude.divU8", "Prelude.modU8"}
OperandsOK(name, args, p) ==
  \A i \in DOMAIN args : CASE name \in NatPrims -> args[i].kind = "nat"
                           [] name \in U8Prims  -> args[i].kind = "u8"
                           [] name \in BinPrims -> IsBin(p, args[i])
                           [] OTHER -> TRUE
executePrimitive(name, args, p) ==
  LET x == args[1].n
      y == args[2].n
  IN  CASE name = "Nat.succ" -> NatV(x + 1)
        [] name = "Nat.add"  -> NatV(x + y)
        [] name = "Nat.mul"  -> NatV(x * y)
        [] name = "Nat.lte"  -> boolValue(p, x <= y)
        [] name = "Nat.fromBin" -> NatV(binToBigInt(p, args[1]))
        [] name = "Bin.lteBin" -> boolValue(p, binToBigInt(p, args[1]) <= binToBigInt(p, args[2]))
        [] name = "Prelude.not"   -> boolValue(p, isBoolValue(p, args[1], FALSE))
        [] name = "Prelude.eqU8"  -> boolValue(p, x = y)
        [] name = "Prelude.ltU8"  -> boolValue(p, x < y)
        [] name = "Prelude.addU8" -> U8V(x + y)
        [] name = "Prelude.subU8" -> U8V(x - y)
        [] name = "Prelude.divU8" -> U8V(IF y = 0 THEN 0 ELSE x \div y)
        [] name = "Prelude.modU8" -> U8V(IF y = 0 THEN 0 ELSE x % y)
Primitive(name, args, p, r) ==
  CASE name = "Prelude.error" -> Fails(r, "Prelude.error")
    [] name \notin NatPrims \cup U8Prims \cup BinPrims \cup {"Prelude.not", "Prelude.error"} ->
         Fails(r, "unknown primitive")
    [] OTHER -> IF OperandsOK(name, args, p) THEN Gives(r, executePrimitive(name, args, p))
                ELSE Fails(r, "operand")

(* The two calls as the native runtime does them (trip_runtime.c): a read  *)
(* takes a byte, and is 0 once the input is used up; a write adds one.  The*)
(* interpreter itself refuses both calls (evaluator.ts:252).               *)
PerformRuntimeCall(name, args, r) ==
  CASE name = "trip_read_one" /\ r.in = <<>> -> Gives(r, U8V(0))
    [] name = "trip_read_one" /\ r.in # <<>> -> [Gives(r, U8V(Head(r.in))) EXCEPT !.in = Tail(r.in)]
    [] name = "trip_write_one" ->
         IF args[1].kind = "u8" THEN [Gives(r, [kind |-> "unit"]) EXCEPT !.out = Append(@, args[1].n)]
         ELSE Fails(r, "operand")

RECURSIVE evalExpr(_, _, _, _, _)
EvalArgs(es, env, p, r, depth) ==
  FoldLeft(LAMBDA acc, e :
             IF acc.r.err # "" THEN acc
             ELSE LET one == evalExpr(e, env, p, acc.r, depth)
                  IN  [r |-> one, vals |-> Append(acc.vals, one.val)],
           [r |-> r, vals |-> <<>>], es)

EvalCall(e, env, p, r, depth) ==
  LET def  == p.symbols[e.target]
      in   == [r EXCEPT !.functionEntries = @ + 1,
                        !.maxRecursionDepth = IF depth + 1 > @ THEN depth + 1 ELSE @]
      args == EvalArgs(e.args, env, p, in, depth)
  IN  IF in.functionEntries > CallBound THEN Fails(r, "bound")
      ELSE IF args.r.err # "" THEN args.r
      ELSE evalExpr(def.body, MapOf(def.params, args.vals), p, args.r, depth + 1)

EvalCase(e, env, p, r0, depth) ==
  LET r == evalExpr(e.scrutinee, env, p, r0, depth)
      v == r.val
      i == SelectInSeq(e.alts, LAMBDA alt : alt.constructor = v.tag)
      alt == e.alts[i]
  IN  IF r.err # "" THEN r
      ELSE IF v.kind # "con" THEN Fails(r, "scrutinee")
      ELSE IF i = 0 THEN Fails(r, "non-exhaustive")
      ELSE IF Len(alt.binders) # Len(v.fields) THEN Fails(r, "arity")
      ELSE evalExpr(alt.body, MapOf(alt.binders, v.fields) @@ env, p,
                    [r EXCEPT !.caseDispatches = @ + 1], depth)

EvalLet(e, env, p, r, depth) ==
  LET bound == FoldLeft(LAMBDA acc, b :
                          IF acc.r.err # "" THEN acc
                          ELSE LET one == evalExpr(b.value, acc.env, p, acc.r, depth)
                               IN  [r |-> one, env |-> Extend(acc.env, b.id, one.val)],
                        [r |-> r, env |-> env], e.bindings)
  IN  IF bound.r.err # "" THEN bound.r ELSE evalExpr(e.body, bound.env, p, bound.r, depth)

evalExpr(e, env, p, r, depth) ==
  CASE e.kind = "var"  -> IF e.id \in DOMAIN env THEN Gives(r, env[e.id]) ELSE Fails(r, "unbound")
    [] e.kind = "lit"  -> Gives(r, e.value)
    [] e.kind = "case" -> EvalCase(e, env, p, r, depth)
    [] e.kind = "let"  -> EvalLet(e, env, p, r, depth)
    [] e.kind = "runtimeCall" ->
         LET args == EvalArgs(e.args, env, p, r, depth)
         IN  IF args.r.err # "" THEN args.r ELSE PerformRuntimeCall(e.target, args.vals, args.r)
    [] OTHER ->
         IF ~ IsSymbol(p, e.target, SymbolKind(e)) THEN Fails(r, "target")
         ELSE IF Len(e.args) # p.symbols[e.target].arity THEN Fails(r, "arity")
         ELSE CASE e.kind = "call" -> EvalCall(e, env, p, r, depth)
                [] e.kind = "con" ->
                     LET fields == EvalArgs(e.args, env, p,
                                            [r EXCEPT !.constructorAllocs = @ + 1], depth)
                     IN  IF fields.r.err # "" THEN fields.r
                         ELSE Gives(fields.r, ConV(e.target, fields.vals))
                [] e.kind = "prim" ->
                     LET args == EvalArgs(e.args, env, p, [r EXCEPT !.primitiveOps = @ + 1], depth)
                     IN  IF args.r.err # "" THEN args.r
                         ELSE Primitive(p.symbols[e.target].name, args.vals, p, args.r)

evaluateMiniCore(p, input) == evalExpr(Call(p.entry, <<>>, <<>>), NoMap, p, Fresh(input), 0)

-----------------------------------------------------------------------------
(* The validator: what it insists on before a program goes on.             *)
RECURSIVE validateExpr(_, _, _)
(* A fault: the number of binders is not compared with the arity.          *)
validateAltAnyArity(alt, bound, p) ==
  /\ IsSymbol(p, alt.constructor, "constructor")
  /\ DistinctSeq(alt.binders)
  /\ validateExpr(alt.body, bound \cup ToSet(alt.binders), p)
validateAlt(alt, bound, p) ==
  /\ IsSymbol(p, alt.constructor, "constructor")
  /\ Len(alt.binders) = p.symbols[alt.constructor].arity
  /\ DistinctSeq(alt.binders)
  /\ validateExpr(alt.body, bound \cup ToSet(alt.binders), p)
validateLet(e, bound, p) ==
  LET Scope(i) == bound \cup {e.bindings[j].id : j \in 1 .. i - 1}
  IN  /\ \A i \in DOMAIN e.bindings : validateExpr(e.bindings[i].value, Scope(i), p)
      /\ validateExpr(e.body, Scope(Len(e.bindings) + 1), p)
validateExpr(e, bound, p) ==
  CASE e.kind = "var"  -> e.id \in bound
    [] e.kind = "lit"  -> TRUE
    [] e.kind = "case" -> /\ validateExpr(e.scrutinee, bound, p)
                          /\ DistinctSeq([i \in DOMAIN e.alts |-> e.alts[i].constructor])
                          /\ \A i \in DOMAIN e.alts : validateAlt(e.alts[i], bound, p)
    [] e.kind = "let"  -> validateLet(e, bound, p)
    [] e.kind = "runtimeCall" ->
         /\ e.target \in DOMAIN TRIP_RUNTIME_SYMBOLS
         /\ Len(e.args) = Len(TRIP_RUNTIME_SYMBOLS[e.target].args)
         /\ \A i \in DOMAIN e.args : validateExpr(e.args[i], bound, p)
    [] OTHER -> /\ IsSymbol(p, e.target, SymbolKind(e))
                /\ Len(e.args) = p.symbols[e.target].arity
                /\ \A i \in DOMAIN e.args : validateExpr(e.args[i], bound, p)

validateFunction(fn, p) ==
  /\ fn.arity = Len(fn.params)
  /\ DistinctSeq(fn.params)
  /\ validateExpr(fn.body, ToSet(fn.params), p)

SymbolInPlace(p, i) ==
  /\ p.symbols[i].id = i
  /\ p.symbols[i].name \in DOMAIN p.byName
  /\ p.byName[p.symbols[i].name] = i

validateMiniCoreProgram(p) ==
  /\ IsSymbol(p, p.entry, "function")
  /\ p.symbols[p.entry].arity = 0
  /\ \A i \in DOMAIN p.symbols :
       /\ SymbolInPlace(p, i)
       /\ p.symbols[i].kind = "function" => validateFunction(p.symbols[i], p)
       /\ p.symbols[i].kind = "primitive" => Len(p.symbols[i].strict) = p.symbols[i].arity

-----------------------------------------------------------------------------
(* Types of expressions.  Failed is the exception of a local without a type*)
(* or of a wrong number of type arguments.                                 *)
Failed == [kind |-> "failed"]
IsPoly(info) == info.typeParams # <<>>
Instantiated(params, type, typeArgs) ==
  IF Len(typeArgs) # Len(params) THEN Failed
  ELSE substituteMiniType(type, MapOf(params, typeArgs))

(* The type of an application, in Mini-core and in A-normal form alike.    *)
TypeOfApply(e, m) ==
  CASE e.kind = "call" ->
         IF e.target \notin DOMAIN m.functions THEN UnknownT
         ELSE LET info == m.functions[e.target]
              IN  IF IsPoly(info) THEN Instantiated(info.typeParams, info.resultType, e.typeArgs)
                  ELSE info.resultType
    [] e.kind = "prim" ->
         IF e.target \in DOMAIN m.primitives THEN m.primitives[e.target].resultType ELSE UnknownT
    [] e.kind = "runtimeCall" -> TRIP_RUNTIME_SYMBOLS[e.target].result
    [] e.kind = "con" ->
         IF e.target \notin DOMAIN m.constructors THEN UnknownT
         ELSE LET info == m.constructors[e.target]
              IN  IF info.dataType \in DOMAIN m.dataTypes
                    THEN Instantiated(m.dataTypes[info.dataType].typeParams,
                                      info.resultType, e.typeArgs)
                    ELSE info.resultType

LocalType(locals, id) == IF id \in DOMAIN locals THEN locals[id] ELSE Failed

RECURSIVE typeOfMiniCoreExpr(_, _, _)
typeOfMiniCoreExpr(e, m, locals) ==
  CASE e.kind = "var" -> LocalType(locals, e.id)
    [] e.kind = "lit" -> typeOfLiteral(e.value)
    [] e.kind = "case" -> IF e.alts = <<>> THEN UnknownT
                          ELSE typeOfMiniCoreExpr(e.alts[1].body, m, locals)
    [] e.kind = "let" ->
         typeOfMiniCoreExpr(e.body, m,
           FoldLeft(LAMBDA ls, b : Extend(ls, b.id, typeOfMiniCoreExpr(b.value, m, ls)),
                    locals, e.bindings))
    [] OTHER -> TypeOfApply(e, m)

-----------------------------------------------------------------------------
(* The subset the native backend accepts: no function values at run time.  *)
RECURSIVE KnownConstructors(_, _)
KnownConstructors(e, m) ==
  CASE e.kind \in {"var", "lit"} -> TRUE
    [] e.kind = "case" ->
         /\ KnownConstructors(e.scrutinee, m)
         /\ \A i \in DOMAIN e.alts : /\ e.alts[i].constructor \in DOMAIN m.constructors
                                     /\ KnownConstructors(e.alts[i].body, m)
    [] e.kind = "let" ->
         /\ \A i \in DOMAIN e.bindings : KnownConstructors(e.bindings[i].value, m)
         /\ KnownConstructors(e.body, m)
    [] OTHER -> /\ e.kind = "con" => e.target \in DOMAIN m.constructors
                /\ \A i \in DOMAIN e.args : KnownConstructors(e.args[i], m)

FirstOrder(types) == \A x \in DOMAIN types : ~ containsFunctionType(types[x])
validateNativeFunction(fn, m) ==
  /\ fn.id \in DOMAIN m.functions
  /\ FirstOrder(m.functions[fn.id].paramTypes)
  /\ ~ containsFunctionType(m.functions[fn.id].resultType)
  /\ FirstOrder(m.locals[fn.id])
  /\ KnownConstructors(fn.body, m)
validateNativeV1Subset(p) ==
  \A i \in DOMAIN p.symbols :
    CASE p.symbols[i].kind = "function" -> validateNativeFunction(p.symbols[i], p.metadata)
      [] p.symbols[i].kind = "constructor" ->
           /\ i \in DOMAIN p.metadata.constructors
           /\ FirstOrder(p.metadata.constructors[i].fieldTypes)
      [] OTHER -> TRUE
=============================================================================
