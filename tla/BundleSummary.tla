--------------------------- MODULE BundleSummary ---------------------------
(***************************************************************************)
(* What the summaries of a bundle say of its modules (bundleV1.ts): the    *)
(* inventory, the parse summary and the module environment are computed    *)
(* from the parsed modules alone, before and apart from the compilation    *)
(* of TripModules, whose tables they must agree with.                      *)
(***************************************************************************)
EXTENDS TripModules

(* A summary is refused unless every module declares itself, once.         *)
Declared(m) == NamesIn(Terms(m, "module")) = {m.name} /\ Len(Terms(m, "module")) = 1
CanSummarise(b) == \A i \in DOMAIN b : Declared(b[i])

Kinds == {"import", "export", "data", "type", "opaque", "native", "poly", "combinator"}
(* The parse summary of a module: its terms by kind, constructors by data. *)
summarizeParsedModule(m) ==
  [k \in Kinds |->
     [i \in DOMAIN Terms(m, k) |->
        LET t == Terms(m, k)[i]
        IN  <<t.name, t.ref, [c \in DOMAIN t.ctors |-> <<t.ctors[c].name, Len(t.ctors[c].fields)>>]>>]]

-----------------------------------------------------------------------------
(* The inventory judges imports and exports by the terms of the modules.   *)
globalExports(b, n) ==
  FlattenSeq([i \in DOMAIN b |-> SelectSeq(Terms(b[i], "export"), LAMBDA t : t.name = n)])
inventoryImport(b, from, symbol) ==
  CASE ~ Has(b, from) -> "MISSING_MODULE"
    [] Has(b, from) /\ symbol \notin ExportsOf(ModuleNamed(b, from)) -> "NOT_EXPORTED"
    [] OTHER -> "RESOLVED"
Defines(m, n) ==
  \/ n \in DefinitionsOf(m)
  \/ \E i \in DOMAIN Terms(m, "data") : \E c \in DOMAIN Terms(m, "data")[i].ctors :
       Terms(m, "data")[i].ctors[c].name = n
inventoryExport(b, m, n) ==
  CASE Len(globalExports(b, n)) > 1 -> "AMBIGUOUS"
    [] Len(globalExports(b, n)) <= 1 /\ ~ Defines(m, n) -> "EXPORT_UNDEFINED"
    [] OTHER -> "OK"

-----------------------------------------------------------------------------
(* The module environment judges them by the lists it has collected.       *)
envTerms(b, kind) ==
  FlattenSeq([i \in DOMAIN b |->
    [k \in DOMAIN Terms(b[i], kind) |->
       [module |-> b[i].name, name |-> Terms(b[i], kind)[k].name, ref |-> Terms(b[i], kind)[k].ref]]])
envExports(b) == envTerms(b, "export")
envDefinitions(b) ==
  FlattenSeq([i \in DOMAIN b |->
    LET own == SelectSeq(b[i].terms, LAMBDA t : t.kind \in DefinitionKinds)
    IN  [k \in DOMAIN own |-> [module |-> b[i].name, name |-> own[k].name, kind |-> own[k].kind]]])
envDataTypes(b) ==
  <<<<Prelude, "Bool">>, <<Prelude, "List">>>>
    \o [i \in DOMAIN DataDefs(b) |-> <<DataDefs(b)[i].module.name, DataDefs(b)[i].def.name>>]

EnvConstructor(qName, alias, dataType, tag, total, arity) ==
  [qName |-> qName, alias |-> alias, dataTypeId |-> dataType, tag |-> tag, total |-> total, arity |-> arity]
PseudoConstructor(n, dataType, tag, arity) ==
  EnvConstructor(<<Prelude, n>>, <<Prelude, n>>, dataType, tag, 2, arity)
(* A data definition is numbered by the first one of its name.             *)
FirstType(types, q) == (CHOOSE i \in DOMAIN types : types[i] = q /\ \A j \in 1 .. i - 1 : types[j] # q) - 1
OfData(b, d) ==
  [c \in DOMAIN d.def.ctors |->
     EnvConstructor(<<d.module.name, d.def.name, d.def.ctors[c].name>>, <<d.module.name, d.def.ctors[c].name>>,
                    FirstType(envDataTypes(b), <<d.module.name, d.def.name>>),
                    c - 1, Len(d.def.ctors), Len(d.def.ctors[c].fields))]
(* The number of a constructor is its place, counted from 0.               *)
envConstructors(b) ==
  <<PseudoConstructor("false", 0, 0, 0), PseudoConstructor("true", 0, 1, 0),
    PseudoConstructor("nil", 1, 0, 0), PseudoConstructor("cons", 1, 1, 2)>>
    \o FlattenSeq([i \in DOMAIN DataDefs(b) |-> OfData(b, DataDefs(b)[i])])
envAlias(b, alias) ==
  LET constructors == envConstructors(b)
      targets == {c.qName : c \in {k \in ToSet(constructors) : k.alias = alias}}
  IN  IF Cardinality(targets) = 1 THEN CHOOSE q \in targets : TRUE ELSE <<"AMBIGUOUS">>
envPrimitives(b) ==
  [i \in DOMAIN Primitives |-> [qName |-> Primitives[i][1], arity |-> Primitives[i][2],
                               symbolId |-> Len(envConstructors(b)) + i - 1]]
moduleEnvImportStatus(b, from, symbol) ==
  LET exports == envExports(b)
  IN  CASE ~ Has(b, from) -> "MISSING_MODULE"
        [] Has(b, from) /\ ~ \E i \in DOMAIN exports : exports[i].module = from /\ exports[i].name = symbol ->
             "NOT_EXPORTED"
        [] OTHER -> "RESOLVED"
moduleEnvExportStatus(b, m, n) ==
  LET exports == envExports(b)
      defs == envDefinitions(b)
  IN  CASE Cardinality({i \in DOMAIN exports : exports[i].name = n}) > 1 -> "AMBIGUOUS"
        [] \/ \E i \in DOMAIN defs : defs[i].module = m.name /\ defs[i].name = n
           \/ \E i \in DOMAIN envConstructors(b) : envConstructors(b)[i].alias = <<m.name, n>> -> "OK"
        [] OTHER -> "EXPORT_UNDEFINED"

-----------------------------------------------------------------------------
(* The two summaries say the same of every import and every export, but    *)
(* for what the environment takes a Prelude to have built in.              *)
BuiltIn(m, n) == m.name = Prelude /\ n \in {"true", "false", "nil", "cons"}
SummariesAgree ==
  stage = "parse" /\ CanSummarise(given) =>
    \A i \in DOMAIN given :
      /\ \A q \in {ImportsOf(given[i])[r] : r \in ImportRefs(given[i])} :
           moduleEnvImportStatus(given, q[1], q[2]) = inventoryImport(given, q[1], q[2])
      /\ \A n \in ExportsOf(given[i]) : ~ BuiltIn(given[i], n) =>
           moduleEnvExportStatus(given, given[i], n) = inventoryExport(given, given[i], n)

(* A compilation stops at an import or at a module it does not know only   *)
(* if the environment does not resolve an import of a module the entry     *)
(* needs, and goes on only if it resolves them all: what a bundle's        *)
(* summary says is what becomes of it.                                     *)
UnresolvedBy(m) ==
  {r \in ImportRefs(m) : /\ ~ Exempt(ImportsOf(m)[r])
                         /\ moduleEnvImportStatus(given, ImportsOf(m)[r][1], ImportsOf(m)[r][2]) # "RESOLVED"}
EnvForetells ==
  /\ failure \in {"import", "unknown"} => \E n \in Reached \cap present : UnresolvedBy(ModuleNamed(given, n)) # {}
  /\ stage = "built" => \A n \in Reached \cap present : UnresolvedBy(ModuleNamed(given, n)) = {}

(* The builder and the environment number the constructors and the types   *)
(* alike when no definition is given twice and the order of the bundle is  *)
(* the order of the walk; the tag, the arity, the number of alternatives   *)
(* and the ambiguity of a name without its data type always agree.  The    *)
(* parse summary has the same constructors, with the same arities.         *)
NothingTwice ==
  \A s \in {envDataTypes(given), [i \in DOMAIN envConstructors(given) |-> envConstructors(given)[i].qName]} :
    \A i, j \in DOMAIN s : s[i] = s[j] => i = j
EnvKnows(c, i) ==
  LET id == constructorByQName[c.qName]
      s == symbols[id + 1]
      typeName == envDataTypes(given)[c.dataTypeId + 1]
      siblings == dataTypes[dataTypeByQName[typeName] + 1].constructors
  IN  /\ s.kind = "constructor" /\ s.tag = c.tag /\ s.arity = c.arity
      /\ Len(siblings) = c.total /\ siblings[c.tag + 1] = id
      /\ c.alias \in DOMAIN constructorAliasByQName =>
           (constructorAliasByQName[c.alias] = Ambiguous <=> envAlias(given, c.alias) = <<"AMBIGUOUS">>)
      /\ Sorted = given => id = i - 1
TablesAgree ==
  stage = "built" /\ NothingTwice =>
    /\ LET constructors == envConstructors(given)
       IN  \A i \in DOMAIN constructors : EnvKnows(constructors[i], i)
    /\ \A m \in ToSet(given) : \A d \in ToSet(summarizeParsedModule(m)["data"]) : \A c \in ToSet(d[3]) :
         symbols[constructorByQName[<<m.name, d[1], c[1]>>] + 1].arity = c[2]
    /\ \A i \in DOMAIN Primitives : At(symbolsByName, Primitives[i][1]) = envPrimitives(given)[i].symbolId

(* A constructor that a module declares, or imports from the module that   *)
(* declares it, is what the name means there, whatever others export.      *)
NotPassedOver ==
  stage = "built" =>
    \A i \in DOMAIN given : \A s \in {symbols[k] : k \in DOMAIN symbols} :
      LET m == given[i]
          n == Last(s.name)
          r == resolveConstructorId(m, n)
      IN  s.kind = "constructor" /\ r.found = "one" =>
            LET owner == symbols[r.id + 1].name[1]
            IN  /\ Locals(m, n) # {} => owner = m.name
                /\ (Locals(m, n) = {} /\ n \in ImportRefs(m)
                      /\ \E k \in Candidates(n) : symbols[k + 1].name[1] = ImportsOf(m)[n][1])
                   => owner = ImportsOf(m)[n][1]

(* The type of a field is what its name means when all types are known: it *)
(* does not depend on how many were known when the constructor was added.  *)
FieldTypesAreFinal ==
  stage = "built" /\ NothingTwice =>
    \A d \in ToSet(DataDefs(given)) :
      \A c \in {d.def.ctors[i] : i \in DOMAIN d.def.ctors} :
        LET s == symbols[constructorByQName[<<d.module.name, d.def.name, c.name>>] + 1]
        IN  \A k \in DOMAIN c.fields : s.fields[k] = resolveDataTypeName(Tables, d.module, c.fields[k])

(* No module that is given is lost, and none is compiled twice.            *)
AllModulesKept ==
  stage = "built" => ToSet(Sorted) = ToSet(given) /\ Len(Sorted) = Len(given)
=============================================================================
