----------------------------- MODULE MiniBlock -----------------------------
(***************************************************************************)
(* The block form: a function is a sequence of basic blocks with parameters*)
(* (blockAst.ts).  Lowering from A-normal form (fromAnf.ts) and the        *)
(* validator (validateBlock.ts).  The label of a block is the tuple its    *)
(* text is made from; a constructor's name does not tell labels apart.     *)
(***************************************************************************)
EXTENDS MiniAnf

LocalRef(id, type) == [kind |-> "local", id |-> id, type |-> type]
LiteralRef(value) == [kind |-> "literal", value |-> value, type |-> typeOfLiteral(value)]
NoRef == [kind |-> "none"]
Param(id, type) == [id |-> id, type |-> type]

EntryLabel == <<"entry">>
(* A fault: all joins have one label.                                      *)
OneJoinLabel(case) == <<"join">>
JoinLabel(case) == <<"join", case>>
AltLabel(case, i) == <<"alt", case, i>>
Block(label, params) ==
  [label |-> label, params |-> params, instructions |-> <<>>, terminator |-> [kind |-> "unreachable"]]

Return(value) == [kind |-> "return", value |-> value]
Jump(target, args) == [kind |-> "jump", target |-> target, args |-> args]
BranchTo(condition, then, else) ==
  [kind |-> "branch", condition |-> condition, thenTarget |-> then.target, thenArgs |-> then.args,
   elseTarget |-> else.target, elseArgs |-> else.args]
CaseTo(scrutinee, alts) == [kind |-> "case", scrutinee |-> scrutinee, alts |-> alts]

-----------------------------------------------------------------------------
(* Free locals in the order of their first use.                            *)
RECURSIVE FreeInValue(_, _), freeLocals(_, _)
FreeAtom(atom, bound) ==
  IF atom.kind = "var" /\ atom.id \notin bound THEN <<atom.id>> ELSE <<>>
FreeInValue(v, bound) ==
  CASE v.kind = "atom" -> FreeAtom(v.atom, bound)
    [] v.kind = "case" ->
         FreeAtom(v.scrutinee, bound) \o
         FlattenSeq([i \in DOMAIN v.alts |->
                       freeLocals(v.alts[i].body, bound \cup ToSet(v.alts[i].binders))])
    [] OTHER -> FlattenSeq([i \in DOMAIN v.args |-> FreeAtom(v.args[i], bound)])
FirstUses(ids) == FoldLeft(LAMBDA s, id : IF id \in ToSet(s) THEN s ELSE Append(s, id), <<>>, ids)
freeLocals(a, bound) ==
  LET Scope(i) == bound \cup {a.lets[j].id : j \in 1 .. i - 1}
  IN  FirstUses(FlattenSeq([i \in DOMAIN a.lets |-> FreeInValue(a.lets[i].value, Scope(i))])
                \o FreeInValue(a.tail, Scope(Len(a.lets) + 1)))

RECURSIVE AnfLocals(_)
AnfLocals(a) ==
  LET InValue(v) ==
        CASE v.kind = "atom" -> LocalsOf(v.atom)
          [] v.kind = "case" ->
               LocalsOf(v.scrutinee) \cup
               UNION {ToSet(v.alts[i].binders) \cup AnfLocals(v.alts[i].body) : i \in DOMAIN v.alts}
          [] OTHER -> LocalsOfAll(v.args)
  IN  InValue(a.tail) \cup UNION {{a.lets[i].id} \cup InValue(a.lets[i].value) : i \in DOMAIN a.lets}

-----------------------------------------------------------------------------
(* Lowering carries the blocks made so far, the next local and case number,*)
(* the types of locals and why it failed ("" while it works).  env renames *)
(* the locals an alternative has captured.  b is the block being filled.   *)
Lowering(fn, p) ==
  [blocks |-> <<>>, next |-> NextLocal(ToSet(fn.params) \cup AnfLocals(fn.body)), cases |-> 0,
   locals |-> p.metadata.locals[fn.id], err |-> "", fn |-> fn, p |-> p]
Wrong(s, why) == [s EXCEPT !.err = IF @ = "" THEN why ELSE @]
AddBlock(s, block) == [s EXCEPT !.blocks = Append(@, block)]
Terminate(s, b, terminator) == [s EXCEPT !.blocks[b].terminator = terminator]

blockParam(s, id) == Param(id, LocalType(s.locals, id))
Resolve(env, id) == IF id \in DOMAIN env THEN env[id] ELSE id
localRef(s, env, id) == LET known == blockParam(s, Resolve(env, id)) IN LocalRef(known.id, known.type)
atomRef(atom, s, env) == IF atom.kind = "lit" THEN LiteralRef(atom.value)
                         ELSE localRef(s, env, atom.id)
Untyped(refs) == \E i \in DOMAIN refs : refs[i].type = Failed
withoutLocal(env, id) == [x \in DOMAIN env \ {id} |-> env[x]]
functionReturnType(s) ==
  IF s.fn.id \in DOMAIN s.p.metadata.functions THEN s.p.metadata.functions[s.fn.id].resultType
  ELSE typeOfAnfExpr(s.fn.body, s.p.metadata, s.locals)

RECURSIVE LowerExpr(_, _, _, _, _), LowerCase(_, _, _, _, _)
(* The instruction for a value.  The result is a new local unless the value*)
(* has one; a unit value has none.  tail marks a call in tail position.    *)
Operation(v, args, tail) ==
  CASE v.kind = "atom" -> [kind |-> "move", value |-> args[1]]
    [] v.kind = "con" -> [kind |-> "construct", target |-> v.target, args |-> args,
                          typeArgs |-> v.typeArgs]
    [] v.kind \in {"call", "runtimeCall"} ->
         [kind |-> v.kind, target |-> v.target, args |-> args, typeArgs |-> v.typeArgs,
          isTail |-> tail]
    [] v.kind = "prim" -> [kind |-> "prim", target |-> v.target, args |-> args]
Effects(v, m) ==
  CASE v.kind = "call" -> "unknown"
    [] v.kind = "runtimeCall" -> TRIP_RUNTIME_SYMBOLS[v.target].effects
    [] v.kind = "prim" -> IF v.target \in DOMAIN m.primitives THEN m.primitives[v.target].effects
                          ELSE "unknown"
    [] OTHER -> "pure"
emitInstruction(v, b, s, env, id, tail) ==
  LET type == typeOfAnfValue(v, s.p.metadata, s.locals)
      unit == type.kind = "unit"
      new  == ~ unit /\ id = -1
      r    == IF new THEN s.next ELSE id
      s1   == IF new THEN [s EXCEPT !.next = r + 1, !.locals = Extend(@, r, type)] ELSE s
      result == IF unit THEN <<>> ELSE <<blockParam(s1, r)>>
      args == LET atoms == IF v.kind = "atom" THEN <<v.atom>> ELSE v.args
              IN  [i \in DOMAIN atoms |-> atomRef(atoms[i], s1, env)]
      instruction == [result |-> result, resultType |-> type, effects |-> Effects(v, s.p.metadata),
                      op |-> Operation(v, args, tail)]
      bad  == \/ type = Failed \/ Untyped(args) \/ Untyped(result)
              \/ unit /\ v.kind \in {"atom", "con", "prim"}
              \/ v.kind \in {"call", "con", "prim"} /\ ~ IsSymbol(s.p, v.target, SymbolKind(v))
  IN  [s |-> IF bad THEN Wrong(s1, "instruction")
             ELSE [s1 EXCEPT !.blocks[b].instructions = Append(@, instruction)],
       ref |-> IF unit THEN NoRef ELSE LocalRef(r, result[1].type)]

(* The field types of a constructor for the type of this scrutinee.        *)
specializeCaseBinderTypes(scrutinee, alt, s) ==
  LET m == s.p.metadata
      type == typeOfAnfAtom(scrutinee, s.locals)
      info == m.constructors[alt.constructor]
      u == miniTypeUnify(type, info.resultType, NoMap)
      Known == DOMAIN alt.binders \cap DOMAIN info.fieldTypes
  IN  IF \/ alt.constructor \notin DOMAIN m.constructors
         \/ type.kind = "unknown" \/ type = Failed \/ ~ u.ok THEN s
      ELSE [s EXCEPT !.locals = FoldLeft(LAMBDA ls, i :
                Extend(ls, alt.binders[i], substituteMiniType(info.fieldTypes[i], u.subst)),
              @, SetToSortSeq(Known, <))]

(* One alternative: its binders, then a fresh parameter for every local it *)
(* captures; inside it the captured locals go by their new names.          *)
AltTargetFor(alt, label, s, env, captures, sources, binders) ==
  LET ids == [c \in DOMAIN captures |-> s.next + c - 1]
      types == [c \in DOMAIN captures |-> sources[c].type]
      bad == ~ IsSymbol(s.p, alt.constructor, "constructor") \/ Untyped(sources) \/ Untyped(binders)
  IN  [s |-> [s EXCEPT !.next = @ + Len(captures), !.locals = MapOf(ids, types) @@ @,
                       !.err = IF bad /\ @ = "" THEN "alternative" ELSE @],
       alt |-> [constructor |-> alt.constructor, binders |-> binders, target |-> label, args |-> sources],
       block |-> Block(label, binders \o [c \in DOMAIN ids |-> Param(ids[c], types[c])]),
       env |-> MapOf(captures, ids) @@ MapOf(alt.binders, alt.binders) @@ env]
AltTargetIn(alt, label, s, env, captures) ==
  AltTargetFor(alt, label, s, env, captures, [c \in DOMAIN captures |-> localRef(s, env, captures[c])],
               [j \in DOMAIN alt.binders |-> blockParam(s, alt.binders[j])])
AltTarget(scrutinee, alt, i, case, s, env) ==
  AltTargetIn(alt, AltLabel(case, i), specializeCaseBinderTypes(scrutinee, alt, s), env,
              freeLocals(alt.body, ToSet(alt.binders)))
WithTarget(targets, t) == [s |-> t.s, targets |-> Append(targets, t)]
buildCaseTargets(v, case, s, env) ==
  FoldLeft(LAMBDA acc, i : WithTarget(acc.targets, AltTarget(v.scrutinee, v.alts[i], i, case, acc.s, env)),
           [s |-> s, targets |-> <<>>], [i \in DOMAIN v.alts |-> i])

(* A case on the two constructors of Bool is a branch.                     *)
boolBranchTargets(v, alts, s) ==
  LET bool == s.p.metadata.bool
  IN  /\ Len(alts) = 2
      /\ {alts[1].constructor, alts[2].constructor} = {bool.trueConstructor, bool.falseConstructor}
      /\ alts[1].binders = <<>> /\ alts[2].binders = <<>>
      /\ miniTypeEquals(typeOfAnfAtom(v.scrutinee, s.locals), bool.type)
caseTerminator(v, alts, s, env) ==
  LET true == alts[CHOOSE i \in DOMAIN alts : alts[i].constructor = s.p.metadata.bool.trueConstructor]
      false == alts[CHOOSE i \in DOMAIN alts : alts[i].constructor = s.p.metadata.bool.falseConstructor]
  IN  IF boolBranchTargets(v, alts, s) THEN BranchTo(atomRef(v.scrutinee, s, env), true, false)
      ELSE CaseTo(atomRef(v.scrutinee, s, env), alts)

(* Where the value of an expression goes: Returns, or into the parameter of*)
(* the block with a label.                                                 *)
Returns == <<"return">>
LowerTail(v, b, s, env, dest) ==
  LET type == typeOfAnfValue(v, s.p.metadata, s.locals)
      unit == functionReturnType(s).kind = "unit"
      r    == emitInstruction(v, b, s, env, -1, dest = Returns /\ v.kind \in {"call", "runtimeCall"})
      ref  == atomRef(v.atom, s, env)
      Out(s1, x) == Terminate(s1, b, IF dest = Returns THEN Return(x) ELSE Jump(dest, <<x>>))
  IN  CASE v.kind = "atom" /\ dest = Returns /\ unit ->
             IF type.kind = "unit" THEN Out(s, NoRef) ELSE Wrong(s, "drops a value")
        [] v.kind = "atom" /\ ~ (dest = Returns /\ unit) ->
             IF Untyped(<<ref>>) THEN Wrong(s, "atom") ELSE Out(s, ref)
        [] v.kind # "atom" /\ type.kind = "unit" ->
             IF dest = Returns /\ unit THEN Out(r.s, NoRef) ELSE Wrong(s, "unit value")
        [] v.kind # "atom" /\ type.kind # "unit" -> Out(r.s, r.ref)

LowerAlts(v, b, env, dest, built) ==
  LET alts == [i \in DOMAIN built.targets |-> built.targets[i].alt]
      LowerAlt(s, i) ==
        LowerExpr(v.alts[i].body, Len(s.blocks) + 1, AddBlock(s, built.targets[i].block), built.targets[i].env, dest)
  IN  IF built.s.err # "" THEN built.s
      ELSE FoldLeft(LowerAlt, Terminate(built.s, b, caseTerminator(v, alts, built.s, env)), [i \in DOMAIN v.alts |-> i])
LowerCase(v, b, s, env, dest) ==
  LowerAlts(v, b, env, dest, buildCaseTargets(v, s.cases, [s EXCEPT !.cases = @ + 1], env))

(* The bindings before the tail, one by one; a case in a binding continues *)
(* in a join block that has the binding for its parameter.                 *)
lowerLet(x, b, s, env) ==
  LET join == Block(JoinLabel(s.cases), <<blockParam(s, x.id)>>)
      cased == AddBlock(LowerCase(x.value, b, s, env, join.label), join)
  IN  CASE x.value.kind = "case" ->
             IF LocalType(s.locals, x.id) = Failed THEN [s |-> Wrong(s, "join"), b |-> b]
             ELSE [s |-> cased, b |-> Len(cased.blocks)]
        [] OTHER -> [s |-> emitInstruction(x.value, b, s, env, x.id, FALSE).s, b |-> b]
Bound(acc, x, r) ==
  IF acc.s.err # "" THEN acc ELSE [s |-> r.s, b |-> r.b, env |-> withoutLocal(acc.env, x.id)]
LowerRest(tail, bound, dest) ==
  IF bound.s.err # "" THEN bound.s
  ELSE IF tail.kind = "case" THEN LowerCase(tail, bound.b, bound.s, bound.env, dest)
  ELSE LowerTail(tail, bound.b, bound.s, bound.env, dest)
LowerExpr(a, b, s, env, dest) ==
  LowerRest(a.tail,
            FoldLeft(LAMBDA acc, x : Bound(acc, x, lowerLet(x, acc.b, acc.s, acc.env)),
                     [s |-> s, b |-> b, env |-> env], a.lets), dest)

BlockFunction(fn, params, p, s) ==
  [fn |-> [kind |-> "function", id |-> fn.id, name |-> fn.name, params |-> params,
           returnType |-> functionReturnType(s), blocks |-> s.blocks, exported |-> fn.id \in p.metadata.exported],
   locals |-> s.locals, err |-> s.err]
anfToBlockFunction(fn, p) ==
  LET s0 == Lowering(fn, p)
      params == [i \in DOMAIN fn.params |-> blockParam(s0, fn.params[i])]
  IN  BlockFunction(fn, params, p,
        IF Untyped(params) THEN Wrong(s0, "parameter")
        ELSE LowerExpr(fn.body, 1, AddBlock(s0, Block(EntryLabel, params)), NoMap, Returns))
BlockModule(p, lowered) ==
  [module |-> [p EXCEPT !.symbols = [i \in DOMAIN @ |-> IF i \in DOMAIN lowered THEN lowered[i].fn ELSE @[i]],
                        !.metadata.locals = [i \in DOMAIN lowered |-> lowered[i].locals]],
   failed |-> \E i \in DOMAIN lowered : lowered[i].err # ""]
anfToBlockModule(p) == BlockModule(p, [i \in FunctionsOf(p) |-> anfToBlockFunction(p.symbols[i], p)])

-----------------------------------------------------------------------------
(* The validator of block modules (validateBlock.ts): dominators decide    *)
(* which locals a block may use, and every reference, argument, result and *)
(* edge has the type its other end declares.                               *)
Labels(fn) == {fn.blocks[i].label : i \in DOMAIN fn.blocks}
BlockAt(fn, label) == fn.blocks[CHOOSE i \in DOMAIN fn.blocks : fn.blocks[i].label = label]
ParamIds(params) == [i \in DOMAIN params |-> params[i].id]

terminatorSuccessors(t) ==
  CASE t.kind = "jump"   -> {t.target}
    [] t.kind = "branch" -> {t.thenTarget, t.elseTarget}
    [] t.kind = "case"   -> {t.alts[i].target : i \in DOMAIN t.alts}
    [] OTHER -> {}

(* Every block but the entry starts with all labels; rounds in the order of*)
(* the blocks until one changes nothing.                                   *)
Predecessors(fn, label) ==
  {fn.blocks[i].label : i \in {j \in DOMAIN fn.blocks :
                                 label \in terminatorSuccessors(fn.blocks[j].terminator)}}
Intersected(fn, dom, label) ==
  LET preds == Predecessors(fn, label)
  IN  {label} \cup (IF preds = {} THEN {}
                    ELSE {d \in Labels(fn) : \A p \in preds : d \in dom[p]})
DominatorRound(fn, dom) ==
  FoldLeft(LAMBDA ds, i : LET label == fn.blocks[i].label
                          IN  IF i = 1 THEN ds
                              ELSE [ds EXCEPT ![label] = Intersected(fn, ds, label)],
           dom, [i \in DOMAIN fn.blocks |-> i])
RECURSIVE DominatorRounds(_, _)
DominatorRounds(fn, dom) ==
  LET next == DominatorRound(fn, dom) IN IF next = dom THEN dom ELSE DominatorRounds(fn, next)
collectDominators(fn) ==
  DominatorRounds(fn, [l \in Labels(fn) |-> IF l = fn.blocks[1].label THEN {l} ELSE Labels(fn)])

ResultIds(block) ==
  UNION {ToSet(ParamIds(block.instructions[i].result)) : i \in DOMAIN block.instructions}
DefinedIn(block) == ToSet(ParamIds(block.params)) \cup ResultIds(block)
collectDominatorLocalIds(fn, dom, label) ==
  UNION {DefinedIn(BlockAt(fn, d)) : d \in dom[label] \ {label}}

(* Each local is defined once in the function; its type is there.          *)
Definitions(fn) ==
  FlattenSeq([i \in DOMAIN fn.blocks |->
     fn.blocks[i].params \o
     FlattenSeq([j \in DOMAIN fn.blocks[i].instructions |-> fn.blocks[i].instructions[j].result])])
collectLocalDefinitions(fn) ==
  LET defs == Definitions(fn)
  IN  MapOf(ParamIds(defs), [i \in DOMAIN defs |-> defs[i].type])
DefinedOnce(fn) == DistinctSeq(ParamIds(Definitions(fn)))
ResultsTyped(block) ==
  \A i \in DOMAIN block.instructions :
    LET x == block.instructions[i]
    IN  IF x.result = <<>> THEN x.resultType.kind = "unit"
        ELSE miniTypeEquals(x.result[1].type, x.resultType)

-----------------------------------------------------------------------------
(* References, with the locals in scope and the types of all locals.       *)
validateValueRef(ref, scope, types) ==
  CASE ref.kind = "literal" -> miniTypeEquals(ref.type, typeOfLiteral(ref.value))
    [] ref.kind = "local" -> /\ ref.id \in scope \cap DOMAIN types
                             /\ miniTypeEquals(ref.type, types[ref.id])
ValidRefs(refs, scope, types) == \A i \in DOMAIN refs : validateValueRef(refs[i], scope, types)
validateValueArgs(args, expected, scope, types) ==
  /\ Len(args) = Len(expected)
  /\ ValidRefs(args, scope, types)
  /\ \A i \in DOMAIN args : miniTypeEquals(args[i].type, expected[i])
TypesOf(params) == [i \in DOMAIN params |-> params[i].type]
validateTargetArgs(fn, label, args, scope, types) ==
  /\ label \in Labels(fn)
  /\ validateValueArgs(args, TypesOf(BlockAt(fn, label).params), scope, types)

(* What an operation takes and gives, at the type arguments it has.        *)
Signature(op, p) ==
  LET m == p.metadata
      At(params, ps, r) ==
        IF params = <<>> THEN [args |-> ps, result |-> r]
        ELSE LET subst == MapOf(params, op.typeArgs)
             IN  [args |-> SubstituteAll(ps, subst), result |-> substituteMiniType(r, subst)]
  IN  CASE op.kind = "call" ->
             IF op.target \in DOMAIN m.functions /\ IsPoly(m.functions[op.target])
               THEN At(m.functions[op.target].typeParams, m.functions[op.target].paramTypes,
                       m.functions[op.target].resultType)
               ELSE At(<<>>, TypesOf(p.symbols[op.target].params), p.symbols[op.target].returnType)
        [] op.kind = "prim" -> At(<<>>, m.primitives[op.target].argTypes,
                                  m.primitives[op.target].resultType)
        [] op.kind = "runtimeCall" -> At(<<>>, TRIP_RUNTIME_SYMBOLS[op.target].args,
                                         TRIP_RUNTIME_SYMBOLS[op.target].result)
        [] op.kind = "construct" ->
             LET info == m.constructors[op.target]
             IN  IF info.dataType \in DOMAIN m.dataTypes
                   THEN At(m.dataTypes[info.dataType].typeParams, info.fieldTypes, info.resultType)
                   ELSE At(<<>>, info.fieldTypes, info.resultType)
TypeParams(op, m) ==
  CASE op.kind = "call" /\ op.target \in DOMAIN m.functions -> m.functions[op.target].typeParams
    [] op.kind = "construct" /\ op.target \in DOMAIN m.constructors ->
         LET d == m.constructors[op.target].dataType
         IN  IF d \in DOMAIN m.dataTypes THEN m.dataTypes[d].typeParams ELSE <<>>
    [] OTHER -> <<>>
Described(op, m) ==
  CASE op.kind = "prim" -> op.target \in DOMAIN m.primitives
    [] op.kind = "construct" -> op.target \in DOMAIN m.constructors
    [] OTHER -> TRUE
TargetKind(op) == CASE op.kind = "call" -> "function" [] op.kind = "prim" -> "primitive"
                    [] op.kind = "construct" -> "constructor"

validateInstruction(x, scope, types, p) ==
  LET op == x.op
      sig == Signature(op, p)
  IN  CASE op.kind = "move" ->
             /\ validateValueRef(op.value, scope, types)
             /\ x.result # <<>> => miniTypeEquals(op.value.type, x.resultType)
        [] op.kind # "move" ->
             /\ op.kind # "runtimeCall" => IsSymbol(p, op.target, TargetKind(op))
             /\ op.kind \in {"prim", "construct"} => Len(op.args) = p.symbols[op.target].arity
             /\ IF Described(op, p.metadata)
                  THEN /\ TypeParams(op, p.metadata) # <<>> =>
                            Len(op.typeArgs) = Len(TypeParams(op, p.metadata))
                       /\ validateValueArgs(op.args, sig.args, scope, types)
                       /\ miniTypeEquals(x.resultType, sig.result)
                  ELSE ValidRefs(op.args, scope, types)

validateReturnTerminator(fn, value, scope, types) ==
  IF fn.returnType.kind = "unit" THEN value = NoRef
  ELSE /\ value # NoRef
       /\ validateValueRef(value, scope, types)
       /\ miniTypeEquals(value.type, fn.returnType)

(* The target of a case takes the binders themselves, then the arguments.  *)
validateCaseTarget(fn, alt) ==
  LET params == BlockAt(fn, alt.target).params
      n == Len(alt.binders)
  IN  /\ alt.target \in Labels(fn)
      /\ Len(params) = n + Len(alt.args)
      /\ \A i \in 1 .. n : /\ params[i].id = alt.binders[i].id
                           /\ miniTypeEquals(params[i].type, alt.binders[i].type)
      /\ \A i \in DOMAIN alt.args : miniTypeEquals(alt.args[i].type, params[n + i].type)
BindersFit(scrutinee, alt, info) ==
  LET u == miniTypeUnify(scrutinee.type, info.resultType, NoMap)
  IN  /\ u.ok
      /\ \A i \in DOMAIN alt.binders :
           miniTypeEquals(alt.binders[i].type, substituteMiniType(info.fieldTypes[i], u.subst))
validateCaseTerminator(fn, t, scope, types, p) ==
  LET m == p.metadata
      Known == {i \in DOMAIN t.alts : t.alts[i].constructor \in DOMAIN m.constructors}
      InfoOf(i) == m.constructors[t.alts[i].constructor]
  IN  /\ validateValueRef(t.scrutinee, scope, types)
      /\ DistinctSeq([i \in DOMAIN t.alts |-> t.alts[i].constructor])
      /\ \A i \in DOMAIN t.alts :
           /\ IsSymbol(p, t.alts[i].constructor, "constructor")
           /\ Len(t.alts[i].binders) = p.symbols[t.alts[i].constructor].arity
           /\ ValidRefs(t.alts[i].args, scope, types)
           /\ validateCaseTarget(fn, t.alts[i])
      /\ \A i \in Known : BindersFit(t.scrutinee, t.alts[i], InfoOf(i))
      /\ \A i, j \in Known : /\ InfoOf(i).dataType = InfoOf(j).dataType
                             /\ InfoOf(i).tag = InfoOf(j).tag => i = j
validateTerminator(fn, t, scope, types, p) ==
  CASE t.kind = "return" -> validateReturnTerminator(fn, t.value, scope, types)
    [] t.kind = "jump"   -> validateTargetArgs(fn, t.target, t.args, scope, types)
    [] t.kind = "branch" -> /\ validateValueRef(t.condition, scope, types)
                            /\ t.condition.type.kind = "bool"
                            /\ validateTargetArgs(fn, t.thenTarget, t.thenArgs, scope, types)
                            /\ validateTargetArgs(fn, t.elseTarget, t.elseArgs, scope, types)
    [] t.kind = "case"   -> validateCaseTerminator(fn, t, scope, types, p)
    [] t.kind = "unreachable" -> TRUE

validateBlock(fn, block, dom, types, p) ==
  LET Scope(i) == collectDominatorLocalIds(fn, dom, block.label) \cup ToSet(ParamIds(block.params))
                  \cup UNION {ToSet(ParamIds(block.instructions[j].result)) : j \in 1 .. i - 1}
  IN  /\ \A i \in DOMAIN block.instructions :
           validateInstruction(block.instructions[i], Scope(i), types, p)
      /\ validateTerminator(fn, block.terminator, Scope(Len(block.instructions) + 1), types, p)
validateBlockFunction(fn, p) ==
  /\ fn.blocks # <<>>
  /\ DistinctSeq([i \in DOMAIN fn.blocks |-> fn.blocks[i].label])
  /\ DefinedOnce(fn)
  /\ \A i \in DOMAIN fn.blocks : ResultsTyped(fn.blocks[i])
  /\ ParamIds(fn.blocks[1].params) = ParamIds(fn.params)
  /\ EqualAll(TypesOf(fn.blocks[1].params), TypesOf(fn.params))
  /\ LET dom == collectDominators(fn)
         types == collectLocalDefinitions(fn)
     IN  \A i \in DOMAIN fn.blocks : validateBlock(fn, fn.blocks[i], dom, types, p)

validateConstructorMetadata(p) ==
  LET m == p.metadata
  IN  \A c \in DOMAIN m.constructors :
        LET info == m.constructors[c]
        IN  /\ IsSymbol(p, c, "constructor")
            /\ info.symbol = c
            /\ p.symbols[c].tag = info.tag
            /\ p.symbols[c].arity = Len(info.fieldTypes)
            /\ info.dataType \in DOMAIN m.dataTypes
            /\ c \in ToSet(m.dataTypes[info.dataType].constructors)
            /\ info.resultType.kind = "data" => info.resultType.id = info.dataType
            /\ \A d \in DOMAIN m.constructors \ {c} :
                 m.constructors[d].dataType = info.dataType => m.constructors[d].tag # info.tag
validateBlockModule(p) ==
  /\ validateConstructorMetadata(p)
  /\ \A i \in FunctionsOf(p) : validateBlockFunction(p.symbols[i], p)
=============================================================================
