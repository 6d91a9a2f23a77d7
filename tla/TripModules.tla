---------------------------- MODULE TripModules ----------------------------
(***************************************************************************)
(* From the modules of a program to the tables that its functions are      *)
(* compiled with (MiniCoreBuilder in fromTrip.ts): the modules are parsed, *)
(* ordered by the walk of ModuleOrder, their imports are checked, and data *)
(* types, constructors and primitives get their numbers.  The summaries of *)
(* a bundle (bundleV1.ts) are a second account of the same facts.          *)
(* A qualified name is the sequence of its parts.                          *)
(***************************************************************************)
EXTENDS ModuleOrder, SequencesExt

CONSTANTS Bundles,      \* the lists of modules that are compiled
          NameOrder,    \* the names of the modules in ascending order
          Primitives    \* the qualified names of the primitives, in order
ASSUME BundlesAssumption ==
  /\ \A b \in Bundles : \A i, j \in 1 .. Len(b) : b[i].name = b[j].name => i = j
  /\ Name \subseteq ToSet(NameOrder)

VARIABLES given,     \* the modules as they are passed to compileMiniCoreModules
          stage, failure,
          symbols,          \* what addSymbol has numbered
          symbolsByName, constructorByQName, constructorAliasByQName,
          dataTypes, dataTypeByQName
tables == <<symbols, symbolsByName, constructorByQName, constructorAliasByQName, dataTypes, dataTypeByQName>>
tripVars == <<given, stage, failure, tables, walkVars>>

NoId == -1
Ambiguous == -2
Bind(f, key, value) == [x \in DOMAIN f \cup {key} |-> IF x = key THEN value ELSE f[x]]
Unbind(f, key) == [x \in DOMAIN f \ {key} |-> f[x]]
At(f, key) == IF key \in DOMAIN f THEN f[key] ELSE NoId

-----------------------------------------------------------------------------
(* A term of a module: what the parser makes of a definition.              *)
Term(kind, name, ref, ctors) == [kind |-> kind, name |-> name, ref |-> ref, ctors |-> ctors]
Terms(m, kind) == SelectSeq(m.terms, LAMBDA t : t.kind = kind)
NamesIn(terms) == {terms[i].name : i \in DOMAIN terms}
ExportsOf(m) == NamesIn(Terms(m, "export"))
DefinitionKinds == {"poly", "combinator", "data", "type", "opaque", "native"}
DefinitionsOf(m) == NamesIn(SelectSeq(m.terms, LAMBDA t : t.kind \in DefinitionKinds))
ImportRefs(m) == {Terms(m, "import")[i].ref : i \in DOMAIN Terms(m, "import")}
ImportsOf(m) ==
  [r \in ImportRefs(m) |->
     LET i == CHOOSE k \in DOMAIN Terms(m, "import") : Terms(m, "import")[k].ref = r
     IN  <<Terms(m, "import")[i].name, r>>]

Has(b, n) == \E i \in DOMAIN b : b[i].name = n
ModuleNamed(b, n) == b[CHOOSE i \in DOMAIN b : b[i].name = n]
DirectDeps(m) == {ImportsOf(m)[r][1] : r \in ImportRefs(m)} \ {m.name}
SortedDeps(m) == SelectSeq(NameOrder, LAMBDA n : n \in DirectDeps(m))

-----------------------------------------------------------------------------
TripInit ==
  /\ given \in Bundles
  /\ present = {given[i].name : i \in DOMAIN given} /\ entry \in present
  /\ deps = [n \in Name |-> IF n \in present THEN SortedDeps(ModuleNamed(given, n)) ELSE <<>>]
  /\ WalkStarts
  /\ stage = "parse" /\ failure = "none"
  /\ symbols = <<>> /\ symbolsByName = <<>> /\ constructorByQName = <<>>
  /\ constructorAliasByQName = <<>> /\ dataTypes = <<>> /\ dataTypeByQName = <<>>

Fail(why) == stage' = "failed" /\ failure' = why /\ UNCHANGED <<given, tables, walkVars>>
DeclaredOf(m) == IF Terms(m, "module") = <<>> THEN "" ELSE Terms(m, "module")[1].name
DuplicateImport(m) ==
  \E i, j \in DOMAIN Terms(m, "import") : i # j /\ Terms(m, "import")[i].ref = Terms(m, "import")[j].ref
ParseModules ==
  /\ stage = "parse"
  /\ IF \E i \in DOMAIN given : DeclaredOf(given[i]) # given[i].name \/ DuplicateImport(given[i])
     THEN Fail("parse")
     ELSE stage' = "walk" /\ UNCHANGED <<given, failure, tables, walkVars>>

SortModules ==
  /\ stage = "walk" /\ WalkNext
  /\ stage' = IF outcome' = "running" THEN "walk" ELSE IF outcome' = "sorted" THEN "validate" ELSE "failed"
  /\ failure' = IF outcome' \in {"cycle", "unknown"} THEN outcome' ELSE failure
  /\ UNCHANGED <<given, tables>>

Exempt(q) == q[1] = Prelude /\ Prelude \notin present
BadImport(q) == ~ Exempt(q) /\ ~ (q[1] \in present /\ q[2] \in ExportsOf(ModuleNamed(given, q[1])))
ValidateImports ==
  /\ stage = "validate"
  /\ LET bad == {n \in visited : \E r \in ImportRefs(ModuleNamed(given, n)) :
                                   BadImport(ImportsOf(ModuleNamed(given, n))[r])}
     IN  IF bad # {} THEN Fail("import")
         ELSE stage' = "pseudo" /\ UNCHANGED <<given, failure, tables, walkVars>>

(* The modules that the entry does not need come last.                     *)
Unneeded == SelectSeq(given, LAMBDA m : m.name \notin visited)
Sorted == [i \in 1 .. Len(order) |-> ModuleNamed(given, order[i])] \o Unneeded

-----------------------------------------------------------------------------
(* The tables, as values: addSymbol, addDataType and addConstructor on t.  *)
Tables == [symbols |-> symbols, byName |-> symbolsByName, ctors |-> constructorByQName,
           alias |-> constructorAliasByQName, types |-> dataTypes, typeOf |-> dataTypeByQName]
SetTables(t) ==
  /\ symbols' = t.symbols /\ symbolsByName' = t.byName /\ constructorByQName' = t.ctors
  /\ constructorAliasByQName' = t.alias /\ dataTypes' = t.types /\ dataTypeByQName' = t.typeOf

Symbol(kind, name, tag, arity) == [kind |-> kind, name |-> name, tag |-> tag, arity |-> arity, fields |-> <<>>]
addSymbol(t, s) ==
  [t EXCEPT !.symbols = Append(@, s), !.byName = Bind(@, s.name, Len(t.symbols))]
addDataType(t, qName, localName) ==
  IF qName \in DOMAIN t.typeOf THEN t
  ELSE LET id == Len(t.types)
           named == Bind(t.typeOf, qName, id)
       IN  [t EXCEPT !.types = Append(@, [name |-> qName, constructors |-> <<>>]),
                     !.typeOf = IF <<localName>> \in DOMAIN named THEN named ELSE Bind(named, <<localName>>, id)]
addConstructor(t, qName, tag, fields, dataType) ==
  IF qName \in DOMAIN t.ctors THEN t
  ELSE LET id == Len(t.symbols)
           added == addSymbol(t, [Symbol("constructor", qName, tag, Len(fields)) EXCEPT !.fields = fields])
       IN  [added EXCEPT !.types[dataType + 1].constructors = Append(@, id),
                         !.ctors = Bind(@, qName, id)]

resolveDataTypeName(t, m, name) ==
  LET first == IF name \in ImportRefs(m) THEN At(t.typeOf, ImportsOf(m)[name]) ELSE NoId
      tried == <<first, At(t.typeOf, <<m.name, name>>), At(t.typeOf, <<name>>), At(t.typeOf, <<Prelude, name>>)>>
  IN  IF \E i \in 1 .. 4 : tried[i] # NoId THEN SelectSeq(tried, LAMBDA x : x # NoId)[1] ELSE NoId

addPseudoConstructors(t) ==
  LET typed == addDataType(addDataType(t, <<Prelude, "Bool">>, "Bool"), <<Prelude, "List">>, "List")
      b == addConstructor(addConstructor(typed, <<Prelude, "false">>, 0, <<>>, 0), <<Prelude, "true">>, 1, <<>>, 0)
  IN  addConstructor(addConstructor(b, <<Prelude, "nil">>, 0, <<>>, 1), <<Prelude, "cons">>, 1, <<NoId, 1>>, 1)

(* Every data definition of the modules, in order, with its module.        *)
DataDefs(ms) ==
  FlattenSeq([i \in DOMAIN ms |->
    [k \in DOMAIN Terms(ms[i], "data") |-> [module |-> ms[i], def |-> Terms(ms[i], "data")[k]]]])
addTypes(t, ms) ==
  FoldLeft(LAMBDA acc, d : addDataType(acc, <<d.module.name, d.def.name>>, d.def.name), t, DataDefs(ms))
addAlias(t, alias, qName) ==
  LET id == t.ctors[qName]
  IN  CASE alias \notin DOMAIN t.alias -> [t EXCEPT !.alias = Bind(@, alias, id), !.byName = Bind(@, alias, id)]
        [] alias \in DOMAIN t.alias /\ t.alias[alias] # id ->
             [t EXCEPT !.alias = Bind(@, alias, Ambiguous), !.byName = Unbind(@, alias)]
        [] OTHER -> t
addData(t, d) ==
  LET dataType == t.typeOf[<<d.module.name, d.def.name>>]
      Added(acc, i) ==
        LET c == d.def.ctors[i]
            qName == <<d.module.name, d.def.name, c.name>>
            fields == [k \in DOMAIN c.fields |-> resolveDataTypeName(acc, d.module, c.fields[k])]
        IN  addAlias(addConstructor(acc, qName, i - 1, fields, dataType), <<d.module.name, c.name>>, qName)
  IN  FoldLeft(Added, t, [i \in DOMAIN d.def.ctors |-> i])
(* A fault: a type is numbered when its constructors are added.            *)
addDataOnePass(t, ms) ==
  FoldLeft(LAMBDA acc, d : addData(addDataType(acc, <<d.module.name, d.def.name>>, d.def.name), d),
           t, DataDefs(ms))
addDataConstructors(t, ms) == FoldLeft(addData, addTypes(t, ms), DataDefs(ms))
addPrimitiveSymbols(t) ==
  FoldLeft(LAMBDA acc, p : addSymbol(acc, Symbol("primitive", p[1], 0, p[2])), t, Primitives)

AddPseudo ==
  /\ stage = "pseudo" /\ stage' = "data" /\ SetTables(addPseudoConstructors(Tables))
  /\ UNCHANGED <<given, failure, walkVars>>
AddData ==
  /\ stage = "data" /\ stage' = "primitives" /\ SetTables(addDataConstructors(Tables, Sorted))
  /\ UNCHANGED <<given, failure, walkVars>>
AddPrimitives ==
  /\ stage = "primitives" /\ stage' = "built" /\ SetTables(addPrimitiveSymbols(Tables))
  /\ UNCHANGED <<given, failure, walkVars>>

TripNext == ParseModules \/ SortModules \/ ValidateImports \/ AddPseudo \/ AddData \/ AddPrimitives
TripSpec == TripInit /\ [][TripNext]_tripVars

-----------------------------------------------------------------------------
(* How a name in a module is resolved once the tables are built.           *)
Candidates(n) ==
  {id \in 0 .. Len(symbols) - 1 : symbols[id + 1].kind = "constructor" /\ Last(symbols[id + 1].name) = n}
Locals(m, n) == {id \in Candidates(n) : symbols[id + 1].name[1] = m.name}
NoConstructor == [found |-> "none", id |-> NoId]
Clash == [found |-> "clash", id |-> NoId]
Found(id) == [found |-> "one", id |-> id]
One(ids) == IF Cardinality(ids) = 1 THEN Found(CHOOSE i \in ids : TRUE) ELSE Clash
resolveExportedQName(n) ==
  LET by == {i \in DOMAIN given : n \in ExportsOf(given[i])}
  IN  IF Cardinality(by) = 1 THEN <<given[CHOOSE i \in by : TRUE].name, n>> ELSE <<>>
ByAlias(qName) ==
  CASE At(constructorAliasByQName, qName) = NoId -> NoConstructor
    [] At(constructorAliasByQName, qName) = Ambiguous -> Clash
    [] OTHER -> Found(constructorAliasByQName[qName])
ByImport(m, n) ==
  LET qName == ImportsOf(m)[n]
      under == {id \in Candidates(n) : IsPrefix(qName, symbols[id + 1].name)}
  IN  CASE n \notin ImportRefs(m) -> NoConstructor
        [] n \in ImportRefs(m) /\ qName \in DOMAIN constructorByQName -> Found(constructorByQName[qName])
        [] n \in ImportRefs(m) /\ qName \notin DOMAIN constructorByQName ->
             IF ByAlias(qName) # NoConstructor THEN ByAlias(qName)
             ELSE IF under = {} THEN NoConstructor ELSE One(under)
ByExport(n) == IF resolveExportedQName(n) = <<>> THEN NoConstructor ELSE ByAlias(resolveExportedQName(n))
resolveConstructorId(m, n) ==
  CASE Candidates(n) = {} -> NoConstructor
    [] Candidates(n) # {} /\ Locals(m, n) # {} -> One(Locals(m, n))
    [] OTHER -> IF ByImport(m, n) # NoConstructor THEN ByImport(m, n)
                ELSE IF ByExport(n) # NoConstructor THEN ByExport(n)
                ELSE One(Candidates(n))
=============================================================================
