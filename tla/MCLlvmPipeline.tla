--------------------------- MODULE MCLlvmPipeline ---------------------------
(* Programs for the pipeline: bodies of main built from templates with two *)
(* holes, filled with smaller bodies or with leaves, some of them          *)
(* ill-formed; then templates with what matters to the native code:        *)
(* numbers, booleans stored in objects, division, negation and errors.     *)
(* The last digit of a local's number tells its type.                      *)
EXTENDS LlvmPipeline

MainId == 0
FId == 1
TrueId == 2
FalseId == 3
PairId == 4
SubId == 5
LtId == 6
SwapId == 7
PairOf(a, b) == DataT(1, <<a, b>>)

Sub(a, b) == Prim(SubId, <<a, b>>)
Lt(a, b) == Prim(LtId, <<a, b>>)
If(c, a, b) == Case(c, <<Alt(TrueId, <<>>, a), Alt(FalseId, <<>>, b)>>)
Pair(a, b) == Con(PairId, <<a, b>>, <<U8T, U8T>>)
Read == RuntimeCall("trip_read_one", <<>>)
Write(a) == RuntimeCall("trip_write_one", <<a>>)
Byte(n) == Lit(U8V(n))

(* n and the next few numbers name the locals of the template.             *)
Templates(n, a, b) ==
  {Sub(a, b),
   Let(<<Binding(n, a)>>, Sub(Var(n), b)),
   If(Lt(a, Byte(3)), b, Byte(7)),
   Case(Pair(a, b), <<Alt(PairId, <<n, n + 1>>, Sub(Var(n + 1), Var(n)))>>),
   Call(FId, <<a, b>>, <<>>),
   Case(Call(SwapId, <<Pair(a, b)>>, <<U8T, U8T>>),
        <<Alt(PairId, <<n, n + 1>>, Sub(Var(n), Var(n + 1)))>>),
   Let(<<Binding(n, If(Lt(a, Byte(3)), b, Byte(7)))>>, Sub(Var(n), Read)),
   Let(<<Binding(n, a), Binding(n + 1, b)>>,
       If(Lt(Var(n), Var(n + 1)), Sub(Var(n + 1), Var(n)),
          Case(Pair(Var(n + 1), Byte(2)),
               <<Alt(PairId, <<n + 2, n + 3>>, Sub(Var(n + 2), Var(n)))>>))),
   Let(<<Binding(n, Let(<<Binding(n + 1, a)>>, Sub(Byte(9), Var(n + 1))))>>, Sub(b, Var(n))),
   Let(<<Binding(n + 5, Write(a))>>, b)}

Leaves == {Byte(1), Read}
BadLeaves == {Var(0), Var(99), Prim(SubId, <<Byte(1)>>), Call(PairId, <<Byte(1), Byte(2)>>, <<>>),
              Con(FId, <<Byte(1), Byte(2)>>, <<>>), Write(Var(10)),
              Case(Pair(Byte(1), Byte(2)), <<Alt(PairId, <<20>>, Byte(0))>>)}
Filled(n, as, bs) == UNION {Templates(n, a, b) : a \in as, b \in bs}
Inner == Filled(10, Leaves, Leaves)
Bodies == Filled(0, Inner, {Read}) \cup Filled(0, Leaves, Inner)
BadBodies == Filled(0, Leaves, BadLeaves) \cup Filled(0, BadLeaves, Leaves)
             \cup Filled(0, Filled(10, BadLeaves, {Read}), {Read})

-----------------------------------------------------------------------------
Function(id, name, params, body) ==
  [kind |-> "function", id |-> id, name |-> name, arity |-> Len(params), params |-> params,
   body |-> body]
Constructor(id, name, arity, tag) ==
  [kind |-> "constructor", id |-> id, name |-> name, arity |-> arity, tag |-> tag]
Primitive2(id, name) ==
  [kind |-> "primitive", id |-> id, name |-> name, arity |-> 2, strict |-> <<TRUE, TRUE>>]
Known(typeParams, paramTypes, resultType) ==
  [typeParams |-> typeParams, paramTypes |-> paramTypes, resultType |-> resultType]
FieldsOf(id, dataType, tag, fieldTypes, resultType) ==
  [symbol |-> id, dataType |-> dataType, tag |-> tag, fieldTypes |-> fieldTypes,
   resultType |-> resultType]
Takes2(resultType) == [argTypes |-> <<U8T, U8T>>, resultType |-> resultType, effects |-> "pure"]

FBody == If(Lt(Var(0), Var(1)), Sub(Var(1), Var(0)), Var(0))
SwapBody(x, y) == Case(Var(0), <<Alt(PairId, <<1, 2>>, Con(PairId, <<Var(2), Var(1)>>, <<y, x>>))>>)

SymbolsFor(swapParams) ==
  [i \in 0 .. 7 |->
        CASE i = MainId  -> Function(i, "Main.main", <<>>, Byte(0))
          [] i = FId     -> Function(i, "Main.f", <<0, 1>>, FBody)
          [] i = TrueId  -> Constructor(i, "Prelude.true", 0, 0)
          [] i = FalseId -> Constructor(i, "Prelude.false", 0, 1)
          [] i = PairId  -> Constructor(i, "Prelude.Pair", 2, 0)
          [] i = SubId   -> Primitive2(i, "Prelude.subU8")
          [] i = LtId    -> Primitive2(i, "Prelude.ltU8")
          [] i = SwapId  -> Function(i, "Main.swap", <<0>>, SwapBody(VarT(swapParams[1]), VarT(swapParams[2])))]
MetadataFor(swapParams) ==
  LET x == VarT(swapParams[1])
      y == VarT(swapParams[2])
  IN  [functions |-> 0 :> Known(<<>>, <<>>, U8T) @@ 1 :> Known(<<>>, <<U8T, U8T>>, U8T)
                     @@ 7 :> Known(swapParams, <<PairOf(x, y)>>, PairOf(y, x)),
       constructors |-> 2 :> FieldsOf(2, 0, 0, <<>>, DataT(0, <<>>))
                     @@ 3 :> FieldsOf(3, 0, 1, <<>>, DataT(0, <<>>))
                     @@ 4 :> FieldsOf(4, 1, 0, <<VarT("A"), VarT("B")>>,
                                      PairOf(VarT("A"), VarT("B"))),
       primitives |-> 5 :> Takes2(U8T) @@ 6 :> Takes2(BoolT),
       dataTypes |-> 0 :> [typeParams |-> <<>>, constructors |-> <<2, 3>>]
                  @@ 1 :> [typeParams |-> <<"A", "B">>, constructors |-> <<4>>],
       exported |-> {0},
       bool |-> [type |-> BoolT, dataType |-> 0, trueConstructor |-> 2, falseConstructor |-> 3],
       locals |-> 0 :> NoMap @@ 1 :> (0 :> U8T @@ 1 :> U8T)
               @@ 7 :> (0 :> PairOf(x, y) @@ 1 :> x @@ 2 :> y)]
ProgramFor(swapParams) ==
  LET symbols == SymbolsFor(swapParams)
  IN  [symbols |-> symbols, entry |-> MainId, metadata |-> MetadataFor(swapParams),
       byName |-> [name \in {symbols[i].name : i \in DOMAIN symbols} |->
                     CHOOSE i \in DOMAIN symbols : symbols[i].name = name]]
PlainProgram == ProgramFor(<<"A", "B">>)
(* All locals of main are bytes, but for the let of a write.               *)
WithBody(p, body) ==
  [p EXCEPT !.symbols[MainId].body = body,
            !.metadata.locals[MainId] = [id \in LocalsOf(body) |-> IF id % 10 = 5 THEN UnitT ELSE U8T]]

GoodPrograms == {WithBody(PlainProgram, body) : body \in Bodies}
BadPrograms == {WithBody(PlainProgram, body) : body \in BadBodies}

-----------------------------------------------------------------------------
AddId == 8
LteId == 9
NotId == 10
DivId == 11
ErrorId == 12
BoxId == 13
BoxT == DataT(2, <<>>)
LocalTypeOf(id) == CASE id % 10 = 5 -> UnitT [] id % 10 = 6 -> BoolT [] id % 10 = 7 -> NatT
                     [] id % 10 = 8 -> BoxT [] OTHER -> U8T

PrimitiveWith(id, name, args, resultType, effects) ==
  [symbol |-> [kind |-> "primitive", id |-> id, name |-> name, arity |-> Len(args),
               strict |-> [i \in DOMAIN args |-> TRUE]],
   info |-> [argTypes |-> args, resultType |-> resultType, effects |-> effects]]
MorePrimitives ==
  [i \in 8 .. 12 |->
     CASE i = AddId   -> PrimitiveWith(i, "Nat.add", <<NatT, NatT>>, NatT, "pure")
       [] i = LteId   -> PrimitiveWith(i, "Nat.lte", <<NatT, NatT>>, BoolT, "pure")
       [] i = NotId   -> PrimitiveWith(i, "Prelude.not", <<BoolT>>, BoolT, "pure")
       [] i = DivId   -> PrimitiveWith(i, "Prelude.divU8", <<U8T, U8T>>, U8T, "pure")
       [] i = ErrorId -> PrimitiveWith(i, "Prelude.error", <<>>, UnknownT, "trap")]
NativeProgram ==
  LET symbols == [i \in 0 .. 13 |->
                    IF i = BoxId THEN Constructor(i, "Main.Box", 2, 0)
                    ELSE IF i \in DOMAIN MorePrimitives THEN MorePrimitives[i].symbol
                    ELSE PlainProgram.symbols[i]]
      m == PlainProgram.metadata
  IN  [PlainProgram EXCEPT
         !.symbols = symbols,
         !.byName = [name \in {symbols[i].name : i \in DOMAIN symbols} |->
                       CHOOSE i \in DOMAIN symbols : symbols[i].name = name],
         !.metadata.primitives = [i \in DOMAIN MorePrimitives |-> MorePrimitives[i].info] @@ @,
         !.metadata.constructors = (BoxId :> FieldsOf(BoxId, 2, 0, <<BoolT, NatT>>, BoxT)) @@ @,
         !.metadata.dataTypes = (2 :> [typeParams |-> <<>>, constructors |-> <<BoxId>>]) @@ @]
WithNativeBody(body) ==
  [NativeProgram EXCEPT !.symbols[MainId].body = body,
                        !.metadata.locals[MainId] = [id \in LocalsOf(body) |-> LocalTypeOf(id)]]

-----------------------------------------------------------------------------
Binary(id, a, b) == [kind |-> "prim", target |-> id, args |-> <<a, b>>, typeArgs |-> <<>>]
Unary(id, a) == [kind |-> "prim", target |-> id, args |-> <<a>>, typeArgs |-> <<>>]
NatLit(n) == Lit(NatV(n))
Box(b, n) == Con(BoxId, <<b, n>>, <<>>)
NativeTemplates(n, a, b) ==
  {Binary(DivId, a, b),
   If(Unary(NotId, Lt(a, Byte(6))), Byte(7), b),
   (* a boolean and a number through an object *)
   Case(Box(Lt(a, Byte(5)), Binary(AddId, NatLit(2), NatLit(3))),
        <<Alt(BoxId, <<n + 6, n + 7>>,
              If(Var(n + 6), If(Binary(LteId, Var(n + 7), NatLit(5)), b, Byte(3)), Byte(9)))>>),
   (* a chain of moves *)
   Let(<<Binding(n, a), Binding(n + 1, Var(n)), Binding(n + 2, Var(n + 1))>>, Sub(b, Var(n + 2))),
   (* a join that carries an object, and an object used twice *)
   Let(<<Binding(n, a), Binding(n + 1, b),
         Binding(n + 8, If(Lt(Var(n), Byte(4)), Box(Lt(Var(n + 1), Var(n)), NatLit(0)),
                                                Box(Lt(Var(n), Var(n + 1)), NatLit(7))))>>,
       Case(Var(n + 8), <<Alt(BoxId, <<n + 6, n + 7>>,
             Sub(If(Var(n + 6), Byte(1), Var(n)),
                 Case(Var(n + 8), <<Alt(BoxId, <<n + 16, n + 17>>,
                        If(Binary(LteId, Var(n + 17), Var(n + 7)), Byte(2), Var(n + 1)))>>)))>>)),
   Sub(Sub(a, Read), Sub(b, Read))}
NativeFilled(n, as, bs) == UNION {NativeTemplates(n, a, b) : a \in as, b \in bs}
NativeInner == NativeFilled(30, {Read}, {Byte(0), Read})
NativeBodies == NativeFilled(0, NativeInner, {Byte(0), Read})
                \cup NativeFilled(0, {Read}, NativeInner) \cup Filled(0, Leaves, NativeInner)
NativePrograms == {WithNativeBody(body) : body \in NativeBodies}
CompiledPrograms == GoodPrograms \cup NativePrograms
OfferedPrograms == CompiledPrograms \cup BadPrograms

(* The first two are shorter than most programs read.                      *)
ManyInputs == {<<>>, <<5>>, <<2, 9, 1, 4>>, <<9, 0, 2, 2>>}

-----------------------------------------------------------------------------
(* Blocks written by hand, all of them in one function with one parameter. *)
Ref(id) == LocalRef(id, U8T)
BoolRef(id) == LocalRef(id, BoolT)
ByteRef(n) == LiteralRef(U8V(n))
IR(id, type, op) == [result |-> <<Param(id, type)>>, resultType |-> type, effects |-> "pure", op |-> op]
PrimOp(id, args) == [kind |-> "prim", target |-> id, args |-> args]
LowerBlock(label, params, instructions, term) ==
  [label |-> label, params |-> params, instructions |-> instructions, terminator |-> term]
Then(c, t1, a1, t2, a2) ==
  [kind |-> "branch", condition |-> c, thenTarget |-> t1, thenArgs |-> a1, elseTarget |-> t2, elseArgs |-> a2]
Main(id, returnType, params, bs) ==
  [kind |-> "function", id |-> id, name |-> "Main.main", params |-> params, returnType |-> returnType,
   blocks |-> bs, arity |-> Len(params)]
ReadIn == [result |-> <<Param(1, U8T)>>, resultType |-> U8T, effects |-> "io",
           op |-> [kind |-> "runtimeCall", target |-> "trip_read_one", args |-> <<>>, typeArgs |-> <<>>,
                   isTail |-> FALSE]]
Compare == IR(2, BoolT, PrimOp(LtId, <<Ref(1), ByteRef(4)>>))
Diamond(x, y, extra) ==
  <<LowerBlock(<<"entry">>, <<>>, <<ReadIn, Compare>> \o extra,
               Then(BoolRef(2), <<"join">>, <<x>>, <<"join">>, <<y>>)),
    LowerBlock(<<"join">>, <<Param(9, U8T)>>, <<>>, Return(Ref(9)))>>
Moved(id, ref) == IR(id, U8T, [kind |-> "move", value |-> ref])
HandBodies ==
  {Diamond(x, y, <<Moved(5, Ref(1)), Moved(6, Ref(5))>>) : x, y \in {Ref(1), Ref(6), ByteRef(3)}}
  \cup {<<LowerBlock(<<"entry">>, <<>>, <<ReadIn, Compare>>,
                     Then(BoolRef(2), <<"loop">>, <<Ref(1)>>, <<"out">>, <<>>)),
          LowerBlock(<<"loop">>, <<Param(3, U8T)>>,
                     <<IR(4, U8T, PrimOp(SubId, <<Ref(3), ByteRef(1)>>)),
                       IR(5, BoolT, PrimOp(LtId, <<ByteRef(0), Ref(3)>>))>>,
                     Then(BoolRef(5), <<"loop">>, <<Ref(4)>>, target, args)),
          LowerBlock(<<"out">>, <<>>, <<>>, Return(ByteRef(8)))>> :
          target \in {<<"out">>}, args \in {<<>>}}
  \cup {<<LowerBlock(<<"entry">>, <<>>, <<ReadIn, Compare>>, Then(BoolRef(2), <<"entry">>, <<>>, <<"out">>, <<>>)),
          LowerBlock(<<"out">>, <<>>, <<>>, Return(Ref(1)))>>,
        <<LowerBlock(<<"entry">>, <<>>, <<ReadIn>>, Return(Ref(1))),
          LowerBlock(<<"lost">>, <<Param(7, U8T)>>, <<>>, Return(Ref(7)))>>,
        <<LowerBlock(<<"entry">>, <<>>, <<ReadIn>>, [kind |-> "unreachable"])>>}
HandModules ==
  LET p == NativeProgram
  IN  {[p EXCEPT !.symbols = [i \in DOMAIN @ \ {FId, SwapId} |->
                                IF i = MainId THEN Main(MainId, U8T, <<>>, bs) ELSE @[i]],
                 !.metadata.functions = [i \in {MainId} |-> @[i]],
                 !.metadata.locals = [i \in {MainId} |-> NoMap]] : bs \in HandBodies}
=============================================================================
