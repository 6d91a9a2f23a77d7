------------------------------ MODULE MiniLlvm ------------------------------
(***************************************************************************)
(* The LLVM backend: from block modules to LLVM functions (emitLlvm.ts),   *)
(* in the scalar and in the boxed representation, and the validator of the *)
(* scalar one (validateLlvmV0.ts).  An instruction is a record with the    *)
(* types it is printed with; the name of a register or a label is the tuple*)
(* its text is made from.                                                  *)
(***************************************************************************)
EXTENDS MiniBlock

Reg(name) == [kind |-> "reg", name |-> name]
Imm(n) == [kind |-> "imm", n |-> n]
llvmLocalName(id) == <<"v", id>>
Tmp(what, name) == <<what, name>>
NoReg == <<"none">>
llvmFunctionName(name) == <<"trip_fn", name>>
llvmRuntimeName(name) == <<"runtime", name>>

Ins(dst, type, op, args, types) ==
  [op |-> op, dst |-> dst, type |-> type, args |-> args, types |-> types, more |-> <<>>]
CallTo(callee, dst, type, args, types) ==
  [Ins(dst, type, "call", args, types) EXCEPT !.more = callee]
Terminator(op, args, types, targets) == [Ins(NoReg, "void", op, args, types) EXCEPT !.more = targets]
LlvmBlock(label, phis, body, term) == [label |-> label, phis |-> phis, body |-> body, term |-> term]
(* What the code throws on.                                                *)
Unsupported == Ins(NoReg, "void", "unsupported", <<>>, <<>>)

lowerLlvmValueType(type) ==
  CASE type.kind = "u8" -> "i8"
    [] type.kind = "bool" -> "i1"
    [] type.kind = "nat" -> "i64"
    [] type.kind = "unit" -> "none"
    [] OTHER -> "ptr"
lowerLlvmReturnType(type) == IF type.kind = "unit" THEN "void" ELSE lowerLlvmValueType(type)
RefType(ref) == lowerLlvmValueType(ref.type)
RefTypes(refs) == [i \in DOMAIN refs |-> RefType(refs[i])]

-----------------------------------------------------------------------------
(* Control flow: the edges into each block, in the order they are found.   *)
(* A case goes through a block per alternative that unpacks the fields.    *)
UnpackLabel(label, i) == <<"case", label, i>>
UnreachableLabel(label) == <<"case_unreachable", label>>
FieldName(label, i, f) == <<"field", UnpackLabel(label, i), f>>
Unpacked(label, i, alt) ==
  [f \in DOMAIN alt.binders |-> [kind |-> "llvm", name |-> FieldName(label, i, f), type |-> alt.binders[f].type]]
Edge(from, target, args) == [from |-> from, target |-> target, args |-> args]
EdgesFrom(block) ==
  LET t == block.terminator
  IN  CASE t.kind = "jump"   -> <<Edge(block.label, t.target, t.args)>>
        [] t.kind = "branch" -> <<Edge(block.label, t.thenTarget, t.thenArgs),
                                  Edge(block.label, t.elseTarget, t.elseArgs)>>
        [] t.kind = "case"   -> [i \in DOMAIN t.alts |->
             Edge(UnpackLabel(block.label, i), t.alts[i].target,
                  Unpacked(block.label, i, t.alts[i]) \o t.alts[i].args)]
        [] OTHER -> <<>>
AllEdges(fn) == FlattenSeq([i \in DOMAIN fn.blocks |-> EdgesFrom(fn.blocks[i])])
(* The scalar representation takes two edges between two blocks for one.   *)
sameValueRef(a, b) ==
  /\ miniTypeEquals(a.type, b.type) /\ a.kind = b.kind
  /\ IF a.kind = "local" THEN a.id = b.id ELSE a.value = b.value
sameArgs(as, bs) == Len(as) = Len(bs) /\ \A i \in DOMAIN as : sameValueRef(as[i], bs[i])
SameEnds(e, d) == e.from = d.from /\ e.target = d.target
analyzeLlvmIncomingEdges(fn) ==
  FoldLeft(LAMBDA es, e : IF \E i \in DOMAIN es : SameEnds(es[i], e) THEN es ELSE Append(es, e),
           <<>>, AllEdges(fn))
analyzeEmitControlFlow(fn, representation) ==
  IF representation = "scalar-v0" THEN analyzeLlvmIncomingEdges(fn) ELSE AllEdges(fn)

(* A move makes no instruction: its result stands for what it moves.       *)
collectMoveAliases(fn) ==
  LET xs == FlattenSeq([i \in DOMAIN fn.blocks |-> fn.blocks[i].instructions])
      moves == SelectSeq(xs, LAMBDA x : x.op.kind = "move" /\ x.result # <<>>)
  IN  MapOf([i \in DOMAIN moves |-> moves[i].result[1].id], [i \in DOMAIN moves |-> moves[i].op.value])
RECURSIVE Resolved(_, _, _)
Resolved(ref, aliases, resolving) ==
  CASE ref.kind = "llvm"    -> Reg(ref.name)
    [] ref.kind = "literal" -> Imm(ref.value.n)
    [] ref.kind = "local"   ->
         IF ref.id \in resolving THEN Reg(NoReg)
         ELSE IF ref.id \in DOMAIN aliases
                THEN Resolved(aliases[ref.id], aliases, resolving \cup {ref.id})
                ELSE Reg(llvmLocalName(ref.id))
formatValue(ref, aliases) == Resolved(ref, aliases, {})

-----------------------------------------------------------------------------
(* Instructions.  c is the context: aliases, incoming edges, the program,  *)
(* the representation and the runtime symbols called through a pointer.    *)
Value(ref, c) == formatValue(ref, c.aliases)
Values(refs, c) == [i \in DOMAIN refs |-> Value(refs[i], c)]

ByteOps == [x \in {"Prelude.addU8", "Prelude.subU8", "Prelude.eqU8", "Prelude.ltU8"} |->
              CASE x = "Prelude.addU8" -> <<"i8", "add">>
                [] x = "Prelude.subU8" -> <<"i8", "sub">>
                [] x = "Prelude.eqU8"  -> <<"i1", "eq">>
                [] x = "Prelude.ltU8"  -> <<"i1", "ult">>]
lookupLlvmV0Primitive(name) == name \in DOMAIN ByteOps
emitByteOp(name, r, args) ==
  <<Ins(r, ByteOps[name][1], ByteOps[name][2], args, <<"i8", "i8">>)>>

NatOps == [x \in NatPrims |-> CASE x = "Nat.mul" -> <<"i64", "mul">>
                                [] x = "Nat.lte" -> <<"i1", "ule">>
                                [] OTHER -> <<"i64", "add">>]
ensureI64(ref, val, word) ==
  IF RefType(ref) = "ptr" THEN <<Ins(word, "i64", "ptrtoint", <<val>>, <<"ptr">>)>> ELSE <<>>
emitNatOp(name, r, refs, vals) ==
  LET Word(i) == IF RefType(refs[i]) = "ptr" THEN Reg(<<"operand", i, r>>) ELSE vals[i]
  IN  FlattenSeq([i \in DOMAIN refs |-> ensureI64(refs[i], vals[i], <<"operand", i, r>>)])
      \o <<Ins(r, NatOps[name][1], NatOps[name][2],
               <<Word(1), IF name = "Nat.succ" THEN Imm(1) ELSE Word(2)>>, <<"i64", "i64">>)>>
(* Division by zero gives zero: the division itself is by one then.        *)
emitDivision(op, r, args) ==
  LET zero == Tmp("zero", r)
      rhs  == Tmp("rhs", r)
      raw  == Tmp("raw", r)
  IN  <<Ins(zero, "i1", "eq", <<args[2], Imm(0)>>, <<"i8", "i8">>),
        Ins(rhs, "i8", "select", <<Reg(zero), Imm(1), args[2]>>, <<"i1", "i8", "i8">>),
        Ins(raw, "i8", op, <<args[1], Reg(rhs)>>, <<"i8", "i8">>),
        Ins(r, "i8", "select", <<Reg(zero), Imm(0), Reg(raw)>>, <<"i1", "i8", "i8">>)>>
(* An error gives a zero of its type and goes on.                          *)
emitError(r, type) ==
  CASE type = "void" -> <<>>
    [] type = "ptr"  -> <<Ins(r, "ptr", "inttoptr", <<Imm(0)>>, <<"i64">>)>>
    [] OTHER -> <<Ins(r, type, "add", <<Imm(0), Imm(0)>>, <<type, type>>)>>
emitPrimitive(x, c) ==
  LET name == c.p.symbols[x.op.target].name
      r    == llvmLocalName(x.result[1].id)
      args == Values(x.op.args, c)
      boxed == c.representation = "boxed-runtime"
  IN  CASE x.result = <<>> -> <<Unsupported>>
        [] x.result # <<>> /\ lookupLlvmV0Primitive(name) -> emitByteOp(name, r, args)
        [] x.result # <<>> /\ boxed /\ name \in NatPrims -> emitNatOp(name, r, x.op.args, args)
        [] x.result # <<>> /\ boxed /\ name = "Prelude.not" ->
             <<Ins(r, "i1", "xor", <<args[1], Imm(1)>>, <<"i1", "i1">>)>>
        [] x.result # <<>> /\ boxed /\ name = "Prelude.divU8" -> emitDivision("udiv", r, args)
        [] x.result # <<>> /\ boxed /\ name = "Prelude.modU8" -> emitDivision("urem", r, args)
        [] x.result # <<>> /\ boxed /\ name = "Prelude.error" ->
             emitError(r, lowerLlvmReturnType(x.resultType))
        [] OTHER -> <<Unsupported>>

(* A field of an object is a word: a boolean is stored as one or two.      *)
wordFromValue(ref, val, word) ==
  CASE RefType(ref) = "i64" -> [lines |-> <<>>, value |-> val]
    [] RefType(ref) = "i8"  -> [lines |-> <<Ins(word, "i64", "zext", <<val>>, <<"i8">>)>>, value |-> Reg(word)]
    [] RefType(ref) = "i1"  ->
         [lines |-> <<Ins(Tmp("zext", word), "i64", "zext", <<val>>, <<"i1">>),
                      Ins(word, "i64", "add", <<Reg(Tmp("zext", word)), Imm(1)>>, <<"i64", "i64">>)>>,
          value |-> Reg(word)]
    [] OTHER -> [lines |-> <<Ins(word, "i64", "ptrtoint", <<val>>, <<"ptr">>)>>, value |-> Reg(word)]
(* A fault: a boolean is taken for the word it is stored as.               *)
valueFromWordPlain(raw, dst, type) ==
  CASE type = "i64" -> <<Ins(dst, type, "add", <<raw, Imm(0)>>, <<"i64", "i64">>)>>
    [] type \in {"i8", "i1"} -> <<Ins(dst, type, "trunc", <<raw>>, <<"i64">>)>>
    [] OTHER -> <<Ins(dst, type, "inttoptr", <<raw>>, <<"i64">>)>>
valueFromWord(raw, dst, type) ==
  CASE type = "i64" -> <<Ins(dst, type, "add", <<raw, Imm(0)>>, <<"i64", "i64">>)>>
    [] type = "i8"  -> <<Ins(dst, type, "trunc", <<raw>>, <<"i64">>)>>
    [] type = "i1"  -> <<Ins(Tmp("sub", dst), "i64", "sub", <<raw, Imm(1)>>, <<"i64", "i64">>),
                         Ins(dst, type, "trunc", <<Reg(Tmp("sub", dst))>>, <<"i64">>)>>
    [] OTHER -> <<Ins(dst, type, "inttoptr", <<raw>>, <<"i64">>)>>

constructorTag(p, constructor) == p.symbols[constructor].tag
emitConstruct(x, c) ==
  LET bool == c.p.metadata.bool
      r == llvmLocalName(x.result[1].id)
      target == x.op.target
      vals == Values(x.op.args, c)
      FieldLines(i) ==
        LET word == wordFromValue(x.op.args[i], vals[i], <<"operand", i, r>>)
        IN  Append(word.lines, CallTo(llvmRuntimeName("trip_obj_set_field"), NoReg, "void",
                                      <<Reg(r), Imm(i - 1), word.value>>, <<"ptr", "i64", "i64">>))
  IN  CASE x.result = <<>> \/ c.representation # "boxed-runtime" -> <<Unsupported>>
        [] x.result # <<>> /\ c.representation = "boxed-runtime"
              /\ target \in {bool.trueConstructor, bool.falseConstructor} ->
             <<Ins(r, "i1", "eq", <<Imm(0), Imm(IF target = bool.trueConstructor THEN 0 ELSE 1)>>,
                   <<"i8", "i8">>)>>
        [] OTHER ->
             <<CallTo(llvmRuntimeName("trip_alloc_obj"), r, "ptr",
                      <<Imm(constructorTag(c.p, target)), Imm(c.p.symbols[target].arity)>>,
                      <<"i64", "i64">>)>>
             \o FlattenSeq([i \in DOMAIN x.op.args |-> FieldLines(i)])

emitCallTo(callee, x, c) ==
  LET type == lowerLlvmReturnType(x.resultType)
  IN  IF type # "void" /\ x.result = <<>> THEN <<Unsupported>>
      ELSE <<CallTo(callee, IF type = "void" THEN NoReg ELSE llvmLocalName(x.result[1].id), type,
                    Values(x.op.args, c), RefTypes(x.op.args))>>
emitCall(x, c) == emitCallTo(llvmFunctionName(c.p.symbols[x.op.target].name), x, c)
PointerName(name) == <<"rt_ptr", name>>
emitRuntimeCall(x, c) ==
  emitCallTo(IF x.op.target \in c.runtimePointers THEN PointerName(x.op.target)
             ELSE llvmRuntimeName(x.op.target), x, c)
emitLlvmInstruction(x, c) ==
  CASE x.op.kind = "move" -> <<>>
    [] x.op.kind = "prim" -> emitPrimitive(x, c)
    [] x.op.kind = "call" -> emitCall(x, c)
    [] x.op.kind = "runtimeCall" -> emitRuntimeCall(x, c)
    [] x.op.kind = "construct" -> emitConstruct(x, c)

-----------------------------------------------------------------------------
(* Terminators, and the blocks that unpack the fields of a case.           *)
emitReturn(block, value, c) ==
  LET actual == RefType(value)
      expected == lowerLlvmReturnType(c.fn.returnType)
      casted == <<"ret", block.label>>
      Cast(op) == [body |-> <<Ins(casted, expected, op, <<Value(value, c)>>, <<actual>>)>>,
                   term |-> Terminator("ret", <<Reg(casted)>>, <<expected>>, <<>>)]
  IN  CASE value = NoRef -> [body |-> <<>>, term |-> Terminator("ret", <<>>, <<>>, <<>>)]
        [] value # NoRef /\ <<actual, expected>> = <<"ptr", "i64">> -> Cast("ptrtoint")
        [] value # NoRef /\ <<actual, expected>> = <<"i64", "ptr">> -> Cast("inttoptr")
        [] OTHER -> [body |-> <<>>, term |-> Terminator("ret", <<Value(value, c)>>, <<actual>>, <<>>)]
emitCaseTerminator(block, t, c) ==
  LET tag == <<"case_tag", block.label>>
      Go(i) == [tag |-> constructorTag(c.p, t.alts[i].constructor), target |-> UnpackLabel(block.label, i)]
  IN  IF c.representation # "boxed-runtime" \/ t.alts = <<>>
        THEN [body |-> <<Unsupported>>, term |-> Unsupported]
        ELSE [body |-> <<CallTo(llvmRuntimeName("trip_obj_tag"), tag, "i64", <<Value(t.scrutinee, c)>>, <<"ptr">>)>>,
              term |-> Terminator("switch", <<Reg(tag)>>, <<"i64">>,
                                  [default |-> UnreachableLabel(block.label),
                                   cases |-> [i \in DOMAIN t.alts |-> Go(i)]])]
emitLlvmTerminator(block, c) ==
  LET t == block.terminator
      Only(term) == [body |-> <<>>, term |-> term]
  IN  CASE t.kind = "return" -> emitReturn(block, t.value, c)
        [] t.kind = "jump"   -> Only(Terminator("br", <<>>, <<>>, <<t.target>>))
        [] t.kind = "branch" -> Only(Terminator("br", <<Value(t.condition, c)>>, <<RefType(t.condition)>>,
                                                <<t.thenTarget, t.elseTarget>>))
        [] t.kind = "unreachable" -> Only(Terminator("unreachable", <<>>, <<>>, <<>>))
        [] t.kind = "case"   -> emitCaseTerminator(block, t, c)
emitCaseUnpackBlock(block, t, i, c) ==
  LET alt == t.alts[i]
      Field(f) ==
        LET raw == Tmp("raw", FieldName(block.label, i, f))
        IN  <<CallTo(llvmRuntimeName("trip_obj_field"), raw, "i64",
                     <<Value(t.scrutinee, c), Imm(f - 1)>>, <<"ptr", "i64">>)>>
            \o valueFromWord(Reg(raw), FieldName(block.label, i, f), RefType(alt.binders[f]))
  IN  LlvmBlock(UnpackLabel(block.label, i), <<>>, FlattenSeq([f \in DOMAIN alt.binders |-> Field(f)]),
                Terminator("br", <<>>, <<>>, <<alt.target>>))
emitCaseBlocks(block, c) ==
  LET t == block.terminator
  IN  IF t.kind # "case" THEN <<>>
      ELSE [i \in DOMAIN t.alts |-> emitCaseUnpackBlock(block, t, i, c)]
           \o <<LlvmBlock(UnreachableLabel(block.label), <<>>, <<>>,
                          Terminator("unreachable", <<>>, <<>>, <<>>))>>

emitPhi(block, k, c) ==
  LET edges == SelectSeq(c.incoming, LAMBDA e : e.target = block.label)
      type == RefType(block.params[k])
  IN  [Ins(llvmLocalName(block.params[k].id), type, "phi",
           [i \in DOMAIN edges |-> Value(edges[i].args[k], c)], [i \in DOMAIN edges |-> type])
         EXCEPT !.more = [i \in DOMAIN edges |-> edges[i].from]]
emitBlock(block, isEntry, c) ==
  LET end == emitLlvmTerminator(block, c)
      pointers == SetToSeq(c.runtimePointers)
      bitcasts == [i \in DOMAIN pointers |->
                     [Ins(PointerName(pointers[i]), "ptr", "bitcast", <<>>, <<>>)
                        EXCEPT !.more = llvmRuntimeName(pointers[i])]]
      body == FlattenSeq([i \in DOMAIN block.instructions |-> emitLlvmInstruction(block.instructions[i], c)])
  IN  <<LlvmBlock(block.label, IF isEntry THEN <<>> ELSE [k \in DOMAIN block.params |-> emitPhi(block, k, c)],
                  (IF isEntry THEN bitcasts ELSE <<>>) \o body \o end.body, end.term)>>
      \o emitCaseBlocks(block, c)

RuntimeUses(fn) ==
  LET xs == FlattenSeq([i \in DOMAIN fn.blocks |-> fn.blocks[i].instructions])
      calls == SelectSeq(xs, LAMBDA x : x.op.kind = "runtimeCall")
  IN  [i \in DOMAIN calls |-> calls[i].op.target]
(* A runtime function called more than twice is called through a register. *)
FrequentlyUsed(uses) == {name \in ToSet(uses) : Cardinality({i \in DOMAIN uses : uses[i] = name}) > 2}
emitFunction(fn, p, representation) ==
  LET c == [fn |-> fn, p |-> p, representation |-> representation, aliases |-> collectMoveAliases(fn),
            incoming |-> analyzeEmitControlFlow(fn, representation),
            runtimePointers |-> FrequentlyUsed(RuntimeUses(fn))]
  IN  [name |-> llvmFunctionName(fn.name), type |-> lowerLlvmReturnType(fn.returnType),
       params |-> [i \in DOMAIN fn.params |-> llvmLocalName(fn.params[i].id)],
       types |-> RefTypes(fn.params),
       blocks |-> FlattenSeq([i \in DOMAIN fn.blocks |-> emitBlock(fn.blocks[i], i = 1, c)])]

needsObjectRuntime(p) ==
  \E i \in FunctionsOf(p) : \E b \in DOMAIN p.symbols[i].blocks :
    LET block == p.symbols[i].blocks[b]
    IN  \/ block.terminator.kind = "case"
        \/ \E x \in DOMAIN block.instructions : block.instructions[x].op.kind = "construct"
collectRuntimeSymbols(p) == UNION {ToSet(RuntimeUses(p.symbols[i])) : i \in FunctionsOf(p)}
Declares(name, type, types) == [name |-> llvmRuntimeName(name), type |-> type, types |-> types]
lowerRuntimeSignature(name) ==
  LET signature == TRIP_RUNTIME_SYMBOLS[name]
  IN  Declares(name, lowerLlvmReturnType(signature.result),
               [i \in DOMAIN signature.args |-> lowerLlvmValueType(signature.args[i])])
ObjectRuntime ==
  {Declares("trip_alloc_obj", "ptr", <<"i64", "i64">>),
   Declares("trip_obj_set_field", "void", <<"ptr", "i64", "i64">>),
   Declares("trip_obj_tag", "i64", <<"ptr">>), Declares("trip_obj_field", "i64", <<"ptr", "i64">>)}

(* The C main: it reads standard input for an entry with a parameter.      *)
emitMainWrapper(p) ==
  LET entry == p.symbols[p.entry]
      type == lowerLlvmReturnType(entry.returnType)
      source == <<"trip_source">>
      result == IF type = "void" THEN NoReg ELSE <<"trip_result">>
      exit == <<"exit_code">>
      args == [i \in DOMAIN entry.params |-> Reg(source)]
      Exit(op) == <<Ins(exit, "i32", op, <<Reg(result)>>, <<type>>)>>
      code == IF type \in {"i8", "i1"} THEN Exit("zext") ELSE IF type = "i64" THEN Exit("trunc") ELSE <<>>
  IN  [name |-> <<"main">>, type |-> "i32", params |-> <<>>, types |-> <<>>,
       blocks |-> <<LlvmBlock(<<"main_entry">>, <<>>,
          (IF Len(entry.params) = 1
             THEN <<CallTo(llvmRuntimeName("trip_read_stdin_list_u8"), source, "ptr", <<>>, <<>>)>>
             ELSE <<>>)
          \o <<CallTo(llvmFunctionName(entry.name), result, type, args, RefTypes(entry.params))>> \o code,
          Terminator("ret", <<IF code = <<>> THEN Imm(0) ELSE Reg(exit)>>, <<"i32">>, <<>>))>>]

emitLlvmModule(p, representation) ==
  LET entry == p.symbols[p.entry]
      fns == SetToSeq(FunctionsOf(p))
  IN  [declared |-> {lowerRuntimeSignature(name) : name \in collectRuntimeSymbols(p)}
                    \cup (IF representation = "boxed-runtime" /\ needsObjectRuntime(p)
                            THEN ObjectRuntime ELSE {})
                    \cup (IF Len(entry.params) = 1
                            THEN {Declares("trip_read_stdin_list_u8", "ptr", <<>>)} ELSE {}),
       functions |-> Append([i \in DOMAIN fns |-> emitFunction(p.symbols[fns[i]], p, representation)],
                            emitMainWrapper(p))]

InstructionsOf(f) ==
  FlattenSeq([i \in DOMAIN f.blocks |->
                f.blocks[i].phis \o f.blocks[i].body \o <<f.blocks[i].term>>])
EmissionThrows(p, llvm) ==
  \/ Len(p.symbols[p.entry].params) > 1
  \/ \E i \in DOMAIN llvm.functions :
       LET f == llvm.functions[i]
           xs == InstructionsOf(f)
       IN  \/ "none" \in ToSet(f.types)
           \/ \E j \in DOMAIN xs : \/ xs[j] = Unsupported
                                   \/ xs[j].type = "none" \/ "none" \in ToSet(xs[j].types)
                                   \/ Reg(NoReg) \in ToSet(xs[j].args)

-----------------------------------------------------------------------------
(* What the scalar representation insists on.                              *)
Scalar(type) == type.kind \in {"u8", "bool"}
ScalarRefs(refs) ==
  \A i \in DOMAIN refs : Scalar(refs[i].type) /\ (refs[i].kind = "literal" => refs[i].value.kind = "u8")
ScalarOperands(op, name) ==
  CASE op.kind = "move" -> ScalarRefs(<<op.value>>)
    [] op.kind = "construct" -> FALSE
    [] op.kind = "prim" -> /\ ScalarRefs(op.args)
                           /\ lookupLlvmV0Primitive(name)
                           /\ \A i \in DOMAIN op.args : RefType(op.args[i]) = "i8"
    [] OTHER -> ScalarRefs(op.args)
validateInstructions(block, p) ==
  \A i \in DOMAIN block.instructions :
    LET x == block.instructions[i]
        name == IF x.op.kind = "prim" THEN p.symbols[x.op.target].name ELSE ""
    IN  /\ ScalarOperands(x.op, name)
        /\ IF x.result = <<>> THEN x.op.kind \in {"call", "runtimeCall"}
           ELSE Scalar(x.result[1].type) /\ x.resultType.kind # "unit"
        /\ x.op.kind = "prim" => lowerLlvmValueType(x.resultType) = ByteOps[name][1]
ScalarTerminator(t) ==
  CASE t.kind \in {"case", "unreachable"} -> FALSE
    [] t.kind = "return" -> t.value = NoRef \/ ScalarRefs(<<t.value>>)
    [] t.kind = "jump"   -> ScalarRefs(t.args)
    [] t.kind = "branch" -> ScalarRefs(<<t.condition>> \o t.thenArgs \o t.elseArgs)
EdgesAgree(fn) ==
  LET es == AllEdges(fn)
  IN  \A i, j \in DOMAIN es : SameEnds(es[i], es[j]) => sameArgs(es[i].args, es[j].args)
validateScalarFunction(fn, p) ==
  /\ Scalar(fn.returnType) \/ fn.returnType.kind = "unit"
  /\ \A i \in DOMAIN fn.params : Scalar(fn.params[i].type)
  /\ \A i \in DOMAIN fn.blocks :
       /\ \A k \in DOMAIN fn.blocks[i].params : Scalar(fn.blocks[i].params[k].type)
       /\ validateInstructions(fn.blocks[i], p)
       /\ ScalarTerminator(fn.blocks[i].terminator)
  /\ EdgesAgree(fn)
  /\ LET Targets == {AllEdges(fn)[i].target : i \in DOMAIN AllEdges(fn)}
     IN  /\ fn.blocks[1].label \notin Targets
         /\ \A i \in 2 .. Len(fn.blocks) : fn.blocks[i].params # <<>> => fn.blocks[i].label \in Targets
validateLlvmV0(p) == \A i \in FunctionsOf(p) : validateScalarFunction(p.symbols[i], p)
=============================================================================
