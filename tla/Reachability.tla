---------------------------- MODULE Reachability ----------------------------
(***************************************************************************)
(* Pruning a program to what its entry points need (reachability.ts): the  *)
(* definitions of all modules are registered, their references resolved,   *)
(* the reachable symbols found with a worklist, and the files rewritten.   *)
(* The result is pruned a second time, as a second run of the command      *)
(* would.  A symbol is the pair of a module and a name.                    *)
(***************************************************************************)
EXTENDS ExternalRefs, SequencesExt

CONSTANTS Programs,   \* the programs that are pruned: modules in order
          Entries     \* the lists of entry points: symbols, or names alone

VARIABLES original, files, entries, round, stage, entered, reachable, queue
vars == <<original, files, entries, round, stage, entered, reachable, queue>>

(* A top-level term; "uses" is the term of a poly, "types" are the types   *)
(* of its signature, of a type or of the fields of a data definition.      *)
Decl(kind, name, ref) ==
  [kind |-> kind, name |-> name, ref |-> ref, ctors |-> <<>>, params |-> {}, uses |-> Terminal, types |-> <<>>]
DefinitionKinds == {"poly", "combinator", "native", "type", "data"}
IsDefinition(t) == t.kind \in DefinitionKinds
Indices(m, kind) == {i \in DOMAIN m.terms : m.terms[i].kind = kind}
ModuleNamed(p, n) == p[CHOOSE i \in DOMAIN p : p[i].name = n]

(* The symbols a definition defines, and the definition that has a symbol: *)
(* the last one of the module that defines it.                             *)
definedSymbols(m, t) ==
  {<<m.name, t.name>>} \cup {<<m.name, t.ctors[i]>> : i \in DOMAIN t.ctors}
Symbols(p) == UNION {UNION {definedSymbols(p[i], t) : t \in {u \in ToSet(p[i].terms) : IsDefinition(u)}} : i \in DOMAIN p}
DefinitionOf(p, sym) ==
  LET m == ModuleNamed(p, sym[1])
      has == {i \in DOMAIN m.terms : IsDefinition(m.terms[i]) /\ sym \in definedSymbols(m, m.terms[i])}
  IN  m.terms[CHOOSE i \in has : \A j \in has : j <= i]

Exporters(p, n) == {k \in {<<i, j>> : i \in DOMAIN p, j \in 1 .. 9} :
                      k[2] \in Indices(p[k[1]], "export") /\ p[k[1]].terms[k[2]].name = n}
NoSymbol == <<"", "">>
Global(p, n) ==
  IF Cardinality(Exporters(p, n)) = 1 THEN <<p[(CHOOSE k \in Exporters(p, n) : TRUE)[1]].name, n>> ELSE NoSymbol
ImportOf(m, n) ==
  LET has == {i \in Indices(m, "import") : m.terms[i].ref = n}
  IN  IF has = {} THEN NoSymbol ELSE <<m.terms[CHOOSE i \in has : \A j \in has : j <= i].name, n>>
Owns(m, n) == \E t \in ToSet(m.terms) : IsDefinition(t) /\ <<m.name, n>> \in definedSymbols(m, t)
(* nameResolutionMaps: an import replaces a definition of the same name.   *)
resolveRef(p, m, n) ==
  CASE ImportOf(m, n) # NoSymbol -> ImportOf(m, n)
    [] ImportOf(m, n) = NoSymbol /\ Owns(m, n) -> <<m.name, n>>
    [] OTHER -> Global(p, n)

RefsOfTypes(t) == UNION {externalReferences(t.types[i]).types : i \in DOMAIN t.types} \ t.params
RefNames(t) ==
  RefsOfTypes(t) \cup externalReferences(t.uses).terms \cup externalReferences(t.uses).types
    \cup matchConstructors(t.uses)
referencedSymbols(p, m, t) == {resolveRef(p, m, n) : n \in RefNames(t)} \ {NoSymbol}

-----------------------------------------------------------------------------
Init ==
  /\ original \in Programs /\ files = original /\ entries \in Entries
  /\ round = 1 /\ stage = "entries" /\ entered = <<>> /\ reachable = {} /\ queue = <<>>

(* An entry without a module is looked for in all of them; a module named  *)
(* Compiler is preferred when there are several.                           *)
EntryCandidates(e) == {s \in Symbols(files) : s[2] = e[Len(e)] /\ (Len(e) = 2 => s = e)}
resolveEntry(e) ==
  LET c == EntryCandidates(e)
      compilers == {s \in c : s[1] = "Compiler"}
  IN  CASE Cardinality(c) = 1 -> CHOOSE s \in c : TRUE
        [] Cardinality(c) > 1 /\ compilers # {} -> CHOOSE s \in compilers : TRUE
        [] OTHER -> NoSymbol
ResolveEntries ==
  /\ stage = "entries"
  /\ LET found == [i \in DOMAIN entries |-> resolveEntry(entries[i])]
     IN  IF \E i \in DOMAIN found : found[i] = NoSymbol
         THEN stage' = "failed" /\ UNCHANGED <<entered, queue>>
         ELSE stage' = "walk" /\ entered' = found /\ queue' = found
  /\ UNCHANGED <<original, files, entries, round, reachable>>

Visit ==
  /\ stage = "walk" /\ queue # <<>>
  /\ LET sym == Last(queue)
         rest == Front(queue)
         t == DefinitionOf(files, sym)
         m == ModuleNamed(files, sym[1])
         marked == reachable \cup {sym} \cup definedSymbols(m, t)
         more == SetToSeq(referencedSymbols(files, m, t) \ marked)
     IN  CASE sym \in reachable -> queue' = rest /\ UNCHANGED reachable
           [] sym \notin reachable /\ sym \in Symbols(files) -> queue' = rest \o more /\ reachable' = marked
           [] OTHER -> queue' = rest /\ reachable' = reachable \cup {sym}
  /\ UNCHANGED <<original, files, entries, round, stage, entered>>

referencedByKept(m) ==
  ToSet(entered) \cup
    UNION {referencedSymbols(files, m, DefinitionOf(files, <<m.name, t.name>>)) :
             t \in {u \in ToSet(m.terms) : IsDefinition(u) /\ <<m.name, u.name>> \in reachable}}
(* A fault: an import is kept for what is reachable anywhere.              *)
KeepsAnyImport(m, t) ==
  CASE t.kind = "module" -> TRUE
    [] t.kind = "import" -> <<t.name, t.ref>> \in ToSet(entered)
    [] OTHER -> <<m.name, t.name>> \in reachable
Keeps(m, t) ==
  CASE t.kind = "module" -> TRUE
    [] t.kind = "import" -> <<t.name, t.ref>> \in referencedByKept(m)
    [] OTHER -> <<m.name, t.name>> \in reachable
Pruned == [i \in DOMAIN files |-> [files[i] EXCEPT !.terms = SelectSeq(@, LAMBDA t : Keeps(files[i], t))]]
Rewrite ==
  /\ stage = "walk" /\ queue = <<>>
  /\ files' = Pruned
  /\ IF round = 1 THEN stage' = "entries" /\ round' = 2 /\ reachable' = {} /\ entered' = <<>>
     ELSE stage' = "done" /\ UNCHANGED <<round, reachable, entered>>
  /\ UNCHANGED <<original, entries, queue>>

Next == ResolveEntries \/ Visit \/ Rewrite
Spec == Init /\ [][Next]_vars

-----------------------------------------------------------------------------
(* What a definition mentions, by the rules of the language: names of      *)
(* terms, of the constructors of arms, and of types.                       *)
Mention(kind, names) == {[kind |-> kind, name |-> n] : n \in names}
Mentions(t) ==
  Mention("term", FreeTerms(t.uses, {})) \cup Mention("arm", matchConstructors(t.uses))
    \cup Mention("type", FreeTypes(t.uses, {}) \cup (UNION {FreeTypes(t.types[i], {}) : i \in DOMAIN t.types} \ t.params))

(* What a name means in a module when the program is compiled (fromTrip.ts)*)
(* where no module gives a name to two definitions (Plain, below).  A term:*)
(* the module's own definition, else its import, else the one export.  A   *)
(* constructor: of the module, imported, exported, or the only one there is*)
(* of the name in all modules, which need not export it.  A data type: an  *)
(* import first; in the end any module's.  The alias of a type is none of  *)
(* them, and looked up as a term.                                          *)
Defines(m, n) == \E t \in ToSet(m.terms) : IsDefinition(t) /\ t.name = n
DataOf(m) == {t \in ToSet(m.terms) : t.kind = "data"}
Constructors(p, n) == {<<p[i].name, n>> : i \in {j \in DOMAIN p : \E t \in DataOf(p[j]) : Contains(t.ctors, n)}}
DataTypes(p, n) == {<<p[i].name, n>> : i \in {j \in DOMAIN p : \E t \in DataOf(p[j]) : t.name = n}}
TheOne(set) == IF Cardinality(set) = 1 THEN CHOOSE s \in set : TRUE ELSE NoSymbol
FirstOf(tried, found) == IF \E i \in DOMAIN tried : tried[i] \in found
                         THEN SelectSeq(tried, LAMBDA s : s \in found)[1] ELSE TheOne(found)
resolveTermQName(p, m, n) ==
  CASE Defines(m, n) -> <<m.name, n>>
    [] ~ Defines(m, n) /\ ImportOf(m, n) # NoSymbol -> ImportOf(m, n)
    [] OTHER -> Global(p, n)
resolveConstructorId(p, m, n) == FirstOf(<<<<m.name, n>>, ImportOf(m, n), Global(p, n)>>, Constructors(p, n))
resolveDataTypeName(p, m, n) == FirstOf(<<ImportOf(m, n), <<m.name, n>>>>, DataTypes(p, n))
Meaning(p, m, x) ==
  CASE x.kind = "arm" \/ (x.kind = "term" /\ Constructors(p, x.name) # {}) -> resolveConstructorId(p, m, x.name)
    [] x.kind = "type" /\ DataTypes(p, x.name) # {} -> resolveDataTypeName(p, m, x.name)
    [] OTHER -> resolveTermQName(p, m, x.name)
(* A name that the module says where to find: what it defines, imports, or *)
(* one module exports.  The others the compiler finds only by looking in   *)
(* all modules, which pruning does not do: it may drop what they mean.     *)
Declared(p, m, n) == Owns(m, n) \/ ImportOf(m, n) # NoSymbol \/ Global(p, n) # NoSymbol
MentionsDeclared(p, sym) ==
  LET m == ModuleNamed(p, sym[1]) IN {x \in Mentions(DefinitionOf(p, sym)) : Declared(p, m, x.name)}
MeaningsOf(p, sym) ==
  {Meaning(p, ModuleNamed(p, sym[1]), x) : x \in MentionsDeclared(p, sym)} \ {NoSymbol}
Siblings(p, sym) == definedSymbols(ModuleNamed(p, sym[1]), DefinitionOf(p, sym))
Uses(p, sym) == (Siblings(p, sym) \cup MeaningsOf(p, sym)) \cap Symbols(p)
RECURSIVE Needed(_, _)
Needed(p, from) ==
  UNION {IF more = {} THEN from ELSE Needed(p, from \cup more) : more \in {UNION {Uses(p, s) : s \in from} \ from}}

(* The programs in which pruning and compiling read names alike: no name   *)
(* is both a type's and a term's, none imported and defined or defined     *)
(* twice in a module, and that of a data type or a constructor is defined  *)
(* in, exported by and imported from one module only (the compiler takes a *)
(* constructor of another module before an own definition of the name, and *)
(* of two data types the first it has numbered).                           *)
OnlyIn(p, i, n) ==
  \A j \in DOMAIN p :
    /\ j # i => ~ Owns(p[j], n) /\ \A k \in Indices(p[j], "export") : p[j].terms[k].name # n
    /\ ImportOf(p[j], n) \in {NoSymbol, <<p[i].name, n>>}
Plain(p) ==
  /\ \A i \in DOMAIN p :
       /\ \A t \in ToSet(p[i].terms) : NamespacesApart(t.uses)
       /\ \A k \in Indices(p[i], "import") : ~ Owns(p[i], p[i].terms[k].ref)
       /\ \A a, b \in DOMAIN p[i].terms :
            a # b /\ IsDefinition(p[i].terms[a]) /\ IsDefinition(p[i].terms[b])
              => definedSymbols(p[i], p[i].terms[a]) \cap definedSymbols(p[i], p[i].terms[b]) = {}
  /\ \A i \in DOMAIN p : \A t \in DataOf(p[i]) : \A s \in definedSymbols(p[i], t) : OnlyIn(p, i, s[2])

(* What is left has every definition the entries need, directly or not, by *)
(* names that say where it is, and nothing else.                           *)
PlainKeepsExactly ==
  stage = "walk" /\ queue = <<>> /\ Plain(original) =>
    Needed(files, ToSet(entered)) = reachable \cap Symbols(files)

(* A name that says where its definition is means after the pruning what it*)
(* meant before, in every definition that is left, as a term, a constructor*)
(* or a type: its import, its export and its definition are still there.   *)
NamesKeepTheirMeaning ==
  stage \in {"entries", "done"} /\ round = 2 /\ Plain(original) =>
    \A sym \in Symbols(files) :
      \A x \in MentionsDeclared(original, sym) :
        LET before == Meaning(original, ModuleNamed(original, sym[1]), x)
        IN  before # NoSymbol => Meaning(files, ModuleNamed(files, sym[1]), x) = before

(* To prune what has been pruned changes nothing, and finds the same       *)
(* entries: the rewriting of the second round is of what was left.         *)
SecondTimeNothing ==
  /\ stage = "walk" /\ queue = <<>> /\ round = 2 => Pruned = files
  /\ stage = "failed" => round = 1
=============================================================================
