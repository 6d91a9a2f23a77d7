---------------------------- MODULE MiniPipeline ----------------------------
(***************************************************************************)
(* The stages between Mini-core and the LLVM backend as a machine          *)
(* (compileTripModulesToLlvm): the validator that ends the front end, the  *)
(* native subset, A-normal form, blocks, and the validator of blocks the   *)
(* backend starts with.  Each stage is an action; what the stages promise  *)
(* each other is stated against the interpreter of Mini-core.              *)
(***************************************************************************)
EXTENDS MiniBlock

CONSTANTS Programs,     \* the programs that are compiled
          WellTyped,    \* those of them a type checker has accepted
          Inputs        \* bounds the bytes a program may read
ASSUME ProgramsAssumption == WellTyped \subseteq Programs

VARIABLES stage, source, anf, blocks
vars == <<stage, source, anf, blocks>>

Nothing == [kind |-> "nothing"]

Init ==
  /\ source \in Programs
  /\ stage = "source" /\ anf = Nothing /\ blocks = Nothing

Goes(ok, to) == stage' = IF ok THEN to ELSE "rejected"

Validate ==
  /\ stage = "source"
  /\ Goes(validateMiniCoreProgram(source), "validated")
  /\ UNCHANGED <<source, anf, blocks>>
CheckSubset ==
  /\ stage = "validated"
  /\ Goes(validateNativeV1Subset(source), "native")
  /\ UNCHANGED <<source, anf, blocks>>
ToAnf ==
  /\ stage = "native"
  /\ \E r \in {toAnfProgram(source)} :
       /\ Goes(~ r.failed, "anf")
       /\ anf' = IF r.failed THEN Nothing ELSE r.program
  /\ UNCHANGED <<source, blocks>>
ToBlocks ==
  /\ stage = "anf"
  /\ \E r \in {anfToBlockModule(anf)} :
       /\ Goes(~ r.failed, "blocks")
       /\ blocks' = IF r.failed THEN Nothing ELSE r.module
  /\ UNCHANGED <<source, anf>>
ValidateBlocks ==
  /\ stage = "blocks"
  /\ Goes(validateBlockModule(blocks), "valid")
  /\ UNCHANGED <<source, anf, blocks>>
Next == Validate \/ CheckSubset \/ ToAnf \/ ToBlocks \/ ValidateBlocks
Spec == Init /\ [][Next]_vars

-----------------------------------------------------------------------------
(* The meaning of blocks, for comparison: a run of a function has one      *)
(* environment; an edge sets the parameters of its target.                 *)
RefValue(ref, env) == IF ref.kind = "literal" THEN ref.value ELSE env[ref.id]
RefValues(refs, env) == [i \in DOMAIN refs |-> RefValue(refs[i], env)]
Enter(fn, label, vals, env) == MapOf(ParamIds(BlockAt(fn, label).params), vals) @@ env

RECURSIVE RunFunction(_, _, _, _, _), RunBlock(_, _, _, _, _, _)
RunOp(op, env, p, r, depth) ==
  LET vals == IF op.kind = "move" THEN <<RefValue(op.value, env)>> ELSE RefValues(op.args, env)
      in == [r EXCEPT !.functionEntries = @ + 1,
                      !.maxRecursionDepth = IF depth + 1 > @ THEN depth + 1 ELSE @]
  IN  CASE op.kind = "move" -> Gives(r, vals[1])
        [] op.kind = "construct" -> Gives([r EXCEPT !.constructorAllocs = @ + 1], ConV(op.target, vals))
        [] op.kind = "prim" ->
             Primitive(p.symbols[op.target].name, vals, p, [r EXCEPT !.primitiveOps = @ + 1])
        [] op.kind = "runtimeCall" -> PerformRuntimeCall(op.target, vals, r)
        [] op.kind = "call" -> IF in.functionEntries > CallBound THEN Fails(r, "bound")
                               ELSE RunFunction(p.symbols[op.target], vals, p, in, depth + 1)
RunTerminator(fn, t, env, p, r, depth) ==
  LET v == RefValue(IF t.kind = "branch" THEN t.condition ELSE t.scrutinee, env)
      i == SelectInSeq(t.alts, LAMBDA alt : alt.constructor = v.tag)
      Go(label, vals) == RunBlock(fn, label, Enter(fn, label, vals, env), p, r, depth)
      d == [r EXCEPT !.caseDispatches = @ + 1]
      GoD(label, vals) == RunBlock(fn, label, Enter(fn, label, vals, env), p, d, depth)
  IN  CASE t.kind = "return" -> IF t.value = NoRef THEN Gives(r, [kind |-> "unit"])
                                ELSE Gives(r, RefValue(t.value, env))
        [] t.kind = "jump" -> Go(t.target, RefValues(t.args, env))
        [] t.kind = "branch" ->
             IF isBoolValue(p, v, TRUE) THEN GoD(t.thenTarget, RefValues(t.thenArgs, env))
             ELSE GoD(t.elseTarget, RefValues(t.elseArgs, env))
        [] t.kind = "case" ->
             IF v.kind # "con" THEN Fails(r, "scrutinee")
             ELSE IF i = 0 THEN Fails(r, "non-exhaustive")
             ELSE GoD(t.alts[i].target, v.fields \o RefValues(t.alts[i].args, env))
RunBlock(fn, label, env0, p, r0, depth) ==
  LET block == BlockAt(fn, label)
      done == FoldLeft(LAMBDA acc, x :
                IF acc.r.err # "" THEN acc
                ELSE LET r == RunOp(x.op, acc.env, p, acc.r, depth)
                     IN  [r |-> r, env |-> IF r.err = "" /\ x.result # <<>>
                                             THEN Extend(acc.env, x.result[1].id, r.val)
                                             ELSE acc.env],
                [r |-> r0, env |-> env0], block.instructions)
  IN  IF done.r.err # "" THEN done.r
      ELSE RunTerminator(fn, block.terminator, done.env, p, done.r, depth)
RunFunction(fn, vals, p, r, depth) ==
  RunBlock(fn, fn.blocks[1].label, MapOf(ParamIds(fn.params), vals), p, r, depth)
RunBlocks(p, input) ==
  RunFunction(p.symbols[p.entry], <<>>, p,
              [Fresh(input) EXCEPT !.functionEntries = 1, !.maxRecursionDepth = 1], 1)

(* Two runs that tell the same: value, output and what is left to read,    *)
(* or the same failure; when they end well, the same amount of work.  A run*)
(* that was given up tells nothing.                                        *)
SameRun(r1, r2) ==
  \/ "bound" \in {r1.err, r2.err}
  \/ r1.err = "" /\ r1 = r2
  \/ /\ r1.err # "" /\ r1.err = r2.err
     /\ r1.out = r2.out /\ r1.in = r2.in

-----------------------------------------------------------------------------
(* What the validator accepts does not run into a name without a value, a  *)
(* target of the wrong kind or a wrong number of operands (validator.ts).  *)
AcceptedRuns ==
  stage = "validated" =>
    \A input \in Inputs :
      evaluateMiniCore(source, input).err \notin {"unbound", "target", "arity"}

(* A well-typed program gets through all stages: the types recorded on the *)
(* way and the scopes of the blocks satisfy the last validator.            *)
NothingRejected == source \in WellTyped => stage # "rejected"

(* Every local of the A-normal form is bound once on the way to its uses,  *)
(* and branches agree (validateAnf.ts).  That validator compares the type  *)
(* of a case binder with the declared type of the field, so it is only     *)
(* asked of programs that take no generic constructor apart at other types.*)
RECURSIVE BindersAsDeclared(_, _, _)
BindersAsDeclared(a, locals, m) ==
  \A v \in {a.tail} \cup {a.lets[i].value : i \in DOMAIN a.lets} :
    v.kind = "case" =>
      \A alt \in ToSet(v.alts) :
        /\ \A i \in DOMAIN alt.binders :
             alt.binders[i] \in DOMAIN locals =>
               miniTypeEquals(locals[alt.binders[i]], m.constructors[alt.constructor].fieldTypes[i])
        /\ BindersAsDeclared(alt.body, locals, m)
AnfIsValid ==
  /\ stage = "anf" /\ source \in WellTyped
  /\ \A i \in FunctionsOf(anf) : BindersAsDeclared(anf.symbols[i].body, anf.metadata.locals[i], anf.metadata)
  => validateAnfExecutable(anf)

(* A-normal form evaluates to the same value with the same effects in the  *)
(* same order, and neither repeats nor drops work (toAnf.ts); converting   *)
(* what came back from it changes nothing.                                 *)
AnfKeepsMeaning ==
  stage = "anf" =>
    /\ \A input \in Inputs :
         SameRun(evaluateMiniCore(source, input),
                 evaluateMiniCore(anfToMiniCoreProgram(anf), input))
    /\ toAnfProgram(anfToMiniCoreProgram(anf)).program.symbols = anf.symbols

(* Blocks do what the program does: joins, captured locals and unit values *)
(* included (fromAnf.ts).                                                  *)
BlocksKeepMeaning ==
  stage = "valid" /\ source # Nothing =>
    \A input \in Inputs : SameRun(evaluateMiniCore(source, input), RunBlocks(blocks, input))

(* The value, the output and the failure of a program come out of both     *)
(* lowerings as the interpreter of Mini-core gives them (lib/minicore/     *)
(* README.md calls it the reference semantics).                            *)
LoweringKeepsMeaning == AnfKeepsMeaning /\ BlocksKeepMeaning
=============================================================================
