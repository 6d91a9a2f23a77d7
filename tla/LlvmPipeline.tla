---------------------------- MODULE LlvmPipeline ----------------------------
(***************************************************************************)
(* The native pipeline to its end (compileTripModulesToLlvm): the stages of*)
(* MiniPipeline, then LLVM functions in one of the two representations.    *)
(* What they do is stated with a machine for the instructions that are     *)
(* emitted and the C runtime they call, against the interpreter.           *)
(***************************************************************************)
EXTENDS MiniPipeline, MiniLlvm

CONSTANTS BlockModules,  \* block modules that do not come from the front end
          WordModulus    \* scaled-down 2^64: i64 wraps here
ASSUME WordAssumption == WordModulus \in Nat \ {0}

VARIABLES representation, llvm
llvmVars == <<vars, representation, llvm>>

LlvmInit ==
  /\ anf = Nothing /\ llvm = Nothing /\ representation = "none"
  /\ \/ source \in Programs /\ stage = "source" /\ blocks = Nothing
     \/ source = Nothing /\ stage = "blocks" /\ blocks \in BlockModules

FrontEnd == Next /\ UNCHANGED <<representation, llvm>>
EmitScalar ==
  LET module == emitLlvmModule(blocks, "scalar-v0")
      refused == ~ validateLlvmV0(blocks)
  IN  /\ stage = "valid"
      /\ representation' = "scalar-v0"
      /\ stage' = IF refused THEN "refused"
                  ELSE IF EmissionThrows(blocks, module) THEN "unsupported" ELSE "emitted"
      /\ llvm' = IF refused THEN Nothing ELSE module
      /\ UNCHANGED <<source, anf, blocks>>
(* Only blocks of the front end are compiled in the boxed representation.  *)
EmitBoxed ==
  LET module == emitLlvmModule(blocks, "boxed-runtime")
  IN  /\ stage = "valid" /\ source # Nothing
      /\ representation' = "boxed-runtime"
      /\ stage' = IF EmissionThrows(blocks, module) THEN "unsupported" ELSE "emitted"
      /\ llvm' = module
      /\ UNCHANGED <<source, anf, blocks>>
LlvmNext == FrontEnd \/ EmitScalar \/ EmitBoxed
LlvmSpec == LlvmInit /\ [][LlvmNext]_llvmVars

-----------------------------------------------------------------------------
(* What the assembler of LLVM checks: each register is set once and used at*)
(* its type, targets and callees exist, and a block with phis has one entry*)
(* for each block that goes to it.                                         *)
TargetsOf(term) ==
  IF term.op = "br" THEN ToSet(term.more)
  ELSE IF term.op = "switch" THEN {term.more.default} \cup {term.more.cases[i].target : i \in DOMAIN term.more.cases}
  ELSE {}
LlvmBlockAt(f, label) == f.blocks[CHOOSE i \in DOMAIN f.blocks : f.blocks[i].label = label]
LlvmPredecessors(f, label) ==
  {f.blocks[i].label : i \in {j \in DOMAIN f.blocks : label \in TargetsOf(f.blocks[j].term)}}
RegisterTypes(f) ==
  LET defs == SelectSeq(InstructionsOf(f), LAMBDA x : x.dst # NoReg)
  IN  [names |-> f.params \o [i \in DOMAIN defs |-> defs[i].dst],
       types |-> f.types \o [i \in DOMAIN defs |-> defs[i].type]]
CalleeFits(x, f, module) ==
  \/ \E d \in module.declared : x.more = d.name /\ x.type = d.type /\ x.types = d.types
  \/ \E i \in DOMAIN module.functions :
       LET g == module.functions[i] IN x.more = g.name /\ x.type = g.type /\ x.types = g.types
  \/ \E i \in DOMAIN InstructionsOf(f) :
       LET y == InstructionsOf(f)[i] IN y.op = "bitcast" /\ x.more = y.dst /\ x.type # "none"
FunctionVerifies(f, module) ==
  LET defs == RegisterTypes(f)
      typeOf == MapOf(defs.names, defs.types)
      xs == InstructionsOf(f)
  IN  /\ DistinctSeq(defs.names)
      /\ DistinctSeq([i \in DOMAIN f.blocks |-> f.blocks[i].label])
      /\ LlvmPredecessors(f, f.blocks[1].label) = {}
      /\ \A i \in DOMAIN f.blocks :
           /\ \A l \in TargetsOf(f.blocks[i].term) : \E j \in DOMAIN f.blocks : f.blocks[j].label = l
           /\ \A k \in DOMAIN f.blocks[i].phis :
                LET phi == f.blocks[i].phis[k]
                IN  /\ ToSet(phi.more) = LlvmPredecessors(f, f.blocks[i].label)
                    /\ \A a, b \in DOMAIN phi.more :
                         phi.more[a] = phi.more[b] => phi.args[a] = phi.args[b]
      /\ \A i \in DOMAIN xs :
           /\ \A a \in DOMAIN xs[i].args :
                xs[i].args[a].kind = "reg" =>
                  /\ xs[i].args[a].name \in DOMAIN typeOf
                  /\ typeOf[xs[i].args[a].name] = xs[i].types[a]
           /\ xs[i].op = "call" => CalleeFits(xs[i], f, module)
           /\ xs[i].op = "ret" => IF f.type = "void" THEN xs[i].types = <<>> ELSE xs[i].types = <<f.type>>

-----------------------------------------------------------------------------
(* The machine.  A run carries the heap, input, output and the reason it   *)
(* stopped for; an object lives at an address past the small ones.         *)
FirstAddress == 256
Modulus(type) == CASE type = "i1" -> 2 [] type = "i8" -> 256 [] OTHER -> WordModulus
Stops(r, why) == [r EXCEPT !.err = why]
LlvmFresh(input) == [val |-> 0, err |-> "", heap |-> <<>>, in |-> input, out |-> <<>>, calls |-> 0]

Truth(b) == IF b THEN 1 ELSE 0
Computed(x, vals) ==
  LET a == vals[1]
      b == vals[2]
      m == Modulus(x.types[1])
  IN  CASE x.op = "add"  -> (a + b) % m
        [] x.op = "sub"  -> (a - b) % m
        [] x.op = "mul"  -> (a * b) % m
        [] x.op = "udiv" -> a \div b
        [] x.op = "urem" -> a % b
        [] x.op = "xor"  -> (a + b) % 2
        [] x.op = "eq"   -> Truth(a = b)
        [] x.op = "ult"  -> Truth(a < b)
        [] x.op = "ule"  -> Truth(a <= b)
        [] x.op = "select" -> IF a = 1 THEN b ELSE vals[3]
        [] x.op = "trunc"  -> a % Modulus(x.type)
        [] OTHER -> a    \* zext, ptrtoint, inttoptr

(* trip_runtime.c; an address below the objects may be a stored boolean.   *)
ListObjects(bytes) ==
  <<[tag |-> 0, fields |-> <<>>]>> \o
  [i \in DOMAIN bytes |-> [tag |-> 1, fields |-> <<bytes[Len(bytes) + 1 - i], FirstAddress + i - 1>>]]
RuntimeCallEffect(name, vals, r) ==
  LET at == IF vals = <<>> THEN 0 ELSE vals[1] - FirstAddress + 1
      known == at \in DOMAIN r.heap
      Gets(v) == [r EXCEPT !.val = v]
  IN  CASE name = "trip_read_one" ->
             IF r.in = <<>> THEN Gets(0) ELSE [r EXCEPT !.val = Head(r.in), !.in = Tail(r.in)]
        [] name = "trip_write_one" -> [r EXCEPT !.out = Append(@, vals[1])]
        [] name = "trip_alloc_obj" ->
             [r EXCEPT !.heap = Append(@, [tag |-> vals[1], fields |-> [i \in 1 .. vals[2] |-> 0]]),
                       !.val = FirstAddress + Len(r.heap)]
        [] name = "trip_obj_set_field" ->
             IF known /\ vals[2] < Len(r.heap[at].fields)
               THEN [r EXCEPT !.heap[at].fields[vals[2] + 1] = vals[3]] ELSE Stops(r, "abort")
        [] name = "trip_obj_tag" ->
             CASE vals[1] = 1 -> Gets(0)
               [] vals[1] = 2 -> Gets(1)
               [] OTHER -> IF known THEN Gets(r.heap[at].tag) ELSE Stops(r, "abort")
        [] name = "trip_obj_field" ->
             IF known /\ vals[2] < Len(r.heap[at].fields)
               THEN Gets(r.heap[at].fields[vals[2] + 1]) ELSE Stops(r, "abort")
        [] name = "trip_read_stdin_list_u8" ->
             [r EXCEPT !.heap = @ \o ListObjects(r.in), !.in = <<>>,
                       !.val = FirstAddress + Len(r.heap) + Len(r.in)]

Operand(a, env) == IF a.kind = "imm" THEN a.n ELSE env[a.name]
Operands(x, env) == [i \in DOMAIN x.args |-> Operand(x.args[i], env)]
Undefined(x, env) == \E i \in DOMAIN x.args : x.args[i].kind = "reg" /\ x.args[i].name \notin DOMAIN env
RECURSIVE RunLlvmBlock(_, _, _, _, _, _), RunLlvm(_, _, _, _)
Step(x, env, module, r) ==
  LET vals == Operands(x, env)
      callee == IF x.op = "call" /\ x.more[1] = "rt_ptr" THEN env[x.more] ELSE x.more
  IN  CASE Undefined(x, env) -> Stops(r, "undefined")
        [] ~ Undefined(x, env) /\ x.op = "bitcast" -> [r EXCEPT !.val = x.more]
        [] ~ Undefined(x, env) /\ x.op = "call" ->
             IF callee[1] = "runtime" THEN RuntimeCallEffect(callee[2], vals, r)
             ELSE RunLlvm(callee, vals, module, r)
        [] ~ Undefined(x, env) /\ x.op \in {"udiv", "urem"} /\ vals[2] = 0 -> Stops(r, "undefined")
        [] OTHER -> [r EXCEPT !.val = Computed(x, vals)]
RunLlvmBlock(f, label, from, env0, module, r0) ==
  LET block == LlvmBlockAt(f, label)
      Arrived(phi) == CHOOSE i \in DOMAIN phi.more : phi.more[i] = from
      env1 == MapOf([k \in DOMAIN block.phis |-> block.phis[k].dst],
                    [k \in DOMAIN block.phis |-> Operand(block.phis[k].args[Arrived(block.phis[k])], env0)])
              @@ env0
      done == FoldLeft(LAMBDA acc, x :
                IF acc.r.err # "" THEN acc
                ELSE LET r == Step(x, acc.env, module, acc.r)
                     IN  [r |-> r, env |-> IF r.err = "" /\ x.dst # NoReg THEN Extend(acc.env, x.dst, r.val)
                                           ELSE acc.env],
                [r |-> r0, env |-> env1], block.body)
      t == block.term
      vals == Operands(t, done.env)
      Go(target) == RunLlvmBlock(f, target, label, done.env, module, done.r)
      i == SelectInSeq(t.more.cases, LAMBDA case : case.tag = vals[1])
  IN  IF done.r.err # "" THEN done.r
      ELSE IF Undefined(t, done.env) THEN Stops(done.r, "undefined")
      ELSE CASE t.op = "ret" -> [done.r EXCEPT !.val = IF vals = <<>> THEN 0 ELSE vals[1]]
             [] t.op = "unreachable" -> Stops(done.r, "unreachable")
             [] t.op = "br" -> Go(IF vals = <<>> \/ vals[1] = 1 THEN t.more[1] ELSE t.more[2])
             [] t.op = "switch" -> Go(IF i = 0 THEN t.more.default ELSE t.more.cases[i].target)
RunLlvm(name, vals, module, r) ==
  LET f == module.functions[CHOOSE i \in DOMAIN module.functions : module.functions[i].name = name]
  IN  IF r.calls > CallBound THEN Stops(r, "bound")
      ELSE RunLlvmBlock(f, f.blocks[1].label, NoReg, MapOf(f.params, vals), module,
                        [r EXCEPT !.calls = @ + 1])
RunMain(module, input) == RunLlvm(<<"main">>, <<>>, module, LlvmFresh(input))

-----------------------------------------------------------------------------
(* The run of the program as the interpreter, or the meaning of blocks,    *)
(* gives it.                                                               *)
Reference(input) ==
  IF source = Nothing THEN RunBlocks(blocks, input) ELSE evaluateMiniCore(source, input)
ExitCode(v) == CASE v.kind \in {"u8", "nat"} -> v.n
                 [] v.kind = "con" -> Truth(blocks.symbols[v.tag].name = "Prelude.true")
                 [] OTHER -> 0

(* What is emitted passes the assembler: types of operands, calls and      *)
(* returns, single assignment, and phis that match the control flow with   *)
(* the blocks a case adds (emitLlvm.ts).                                   *)
EmittedVerifies ==
  stage = "emitted" => \A i \in DOMAIN llvm.functions : FunctionVerifies(llvm.functions[i], llvm)

(* What the scalar validator lets through is emitted, and the boxed        *)
(* representation takes every well-typed program.                          *)
EmissionSucceeds == source \in WellTyped \/ representation = "scalar-v0" => stage # "unsupported"

(* A well-typed program reaches the assembler and passes it: every stage   *)
(* satisfies the validator of the next, the names, types and labels it     *)
(* makes up included (validateAnf.ts, validateBlock.ts, emitLlvm.ts).      *)
EveryStageAccepts == NothingRejected /\ AnfIsValid /\ EmissionSucceeds /\ EmittedVerifies

(* A program that ends well does the same as native code: exit code, output*)
(* and what is left of the input, reads past its end included; nothing     *)
(* undefined happens on the way and no object is misread.                  *)
NativeKeepsMeaning ==
  stage = "emitted" =>
    \A input \in Inputs :
      LET a == Reference(input)
          b == RunMain(llvm, input)
      IN  a.err = "" /\ b.err # "bound" =>
            /\ b.err = "" /\ b.out = a.out /\ b.in = a.in
            /\ b.val = ExitCode(a.val)
=============================================================================
