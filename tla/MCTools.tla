------------------------------ MODULE MCTools ------------------------------
(***************************************************************************)
(* The tools that share nothing with each other, in one run: the wire      *)
(* format, the module tables and the summaries of a bundle, the bundle     *)
(* format, the pruning of programs, substitution, and the front end.  One  *)
(* of them is at work; the others stay at one of their initial states.     *)
(***************************************************************************)
EXTENDS TopoDagWire, BundleSummary

CONSTANTS WrittenBundles, BundleTexts,      \* Bundle
          PrunedPrograms, EntryLists,       \* Reachability
          Subjects, PutTerms, PutTypes,     \* SubstitutionCalls
          CompiledModules, ImportedData     \* Resolution

VARIABLES tool,
          writtenBundle, bundleText, bundleStage, bundleOffset, bundleRead,
          wholeProgram, files, entries, round, pruneStage, entered, reachable, queue,
          subject, meant, lastCall, calls, bindersStay,
          parsedModule, decls, resolved, resolving, moduleStage, moduleFailure, moduleBindersStay
Format == INSTANCE Bundle WITH Bundles <- WrittenBundles, ForeignInputs <- BundleTexts, given <- writtenBundle,
       input <- bundleText, stage <- bundleStage, offset <- bundleOffset, parsed <- bundleRead
Pruning == INSTANCE Reachability WITH Programs <- PrunedPrograms, Entries <- EntryLists, original <- wholeProgram,
       stage <- pruneStage
Substituting == INSTANCE SubstitutionCalls WITH MaxCalls <- 2, last <- lastCall, orderly <- bindersStay
Compiling == INSTANCE Resolution WITH Modules <- CompiledModules, Elsewhere <- ImportedData, Depth <- 6, parsed <- parsedModule,
       frames <- resolving, stage <- moduleStage, failure <- moduleFailure, orderly <- moduleBindersStay

(* The values that the cfg gives to the constants.                         *)
BundleValues ==
  INSTANCE MCBundle WITH Bundles <- {}, ForeignInputs <- {}, given <- writtenBundle, input <- bundleText,
    stage <- bundleStage, offset <- bundleOffset, parsed <- bundleRead
ProgramValues ==
  INSTANCE MCReachability WITH Programs <- {}, Entries <- {}, original <- wholeProgram, stage <- pruneStage
SourceValues == INSTANCE MCSources
MCWrittenBundles == BundleValues!MCBundles
MCBundleTexts == BundleValues!MCForeignInputs
MCPrunedPrograms == ProgramValues!MCPrograms
MCEntryLists == ProgramValues!MCEntries
MCSubjects == SourceValues!MCSubjects
MCPutTerms == SourceValues!MCTerms
MCPutTypes == SourceValues!MCTypes
MCCompiledModules == SourceValues!MCModules
MCImportedData == SourceValues!MCImportedData

(* Two or three records from few terms and offsets, some of them cut short,*)
(* too long, misaligned or pointing forward.                               *)
Records == {<<TermCell(t), Pointer(l), Pointer(r)>> : t \in {0, 1}, l, r \in {Null, 0, 2, 4}}
SomeRecords == {r \in Records : r[2] = r[3]} \cup {<<TermCell(1), Pointer(Null)>>, <<>>,
                 <<TermCell(0), Pointer(4), Pointer(0)>>, <<Pointer(0), TermCell(1), Pointer(0)>>,
                 <<TermCell(1), Pointer(Null), Pointer(Null), Pointer(Null)>>}
MCForeignWires ==
  {a \o <<Separator>> \o b \o <<Separator>> \o c : a, b, c \in SomeRecords}
  \cup {a \o b : a, b \in SomeRecords}

(* Two modules and a Prelude, in either order, with a few of the terms     *)
(* that a module may have: a data type with one or two constructors, a     *)
(* poly of the name of a constructor, imports and exports that do or do    *)
(* not resolve.                                                            *)
MCName == {"A", "B", "C", "Prelude"}
MCNameOrder == <<"A", "B", "C", "Prelude">>
MCDepLists == {SelectSeq(MCNameOrder, LAMBDA n : n \in names) : names \in SUBSET MCName}
MCPrimitives == <<<<<<"Nat", "succ">>, 1>>, <<<<"Prelude", "not">>, 1>>, <<<<"Prelude", "error">>, 0>>>>

Ctor(n, fields) == [name |-> n, fields |-> fields]
Decl(n) == Term("module", n, "", <<>>)
Import(from, n) == Term("import", from, n, <<>>)
Export(n) == Term("export", n, "", <<>>)
Poly(n) == Term("poly", n, "", <<>>)
Data(n, ctors) == Term("data", n, "", ctors)
Module(n, terms) == [name |-> n, terms |-> <<Decl(n)>> \o terms]

ImportLists(n, other) ==
  {<<>>, <<Import(other, "c")>>, <<Import(other, "T")>>, <<Import("Prelude", "c")>>, <<Import(n, "c")>>,
   <<Import(other, "c"), Import("Prelude", "c")>>}
ExportLists == {<<>>, <<Export("c"), Export("T")>>}
DataLists ==
  {<<>>, <<Data("T", <<Ctor("c", <<"U">>)>>)>>, <<Data("T", <<Ctor("d", <<>>), Ctor("c", <<"T", "X">>)>>)>>,
   <<Data("T", <<Ctor("c", <<>>)>>), Data("U", <<Ctor("c", <<"T">>), Ctor("e", <<>>)>>)>>}
PolyLists == {<<>>, <<Poly("c")>>}
ModulesNamed(n, other) ==
  {Module(n, i \o e \o d \o p) : i \in ImportLists(n, other), e \in ExportLists, d \in DataLists, p \in PolyLists}
FewNamed(n, other) ==
  {Module(n, i \o <<Export("c")>> \o d) : i \in {<<>>, <<Import(other, "c")>>}, d \in DataLists}
Preludes == {Module("Prelude", <<Export("c"), Data("T", <<Ctor("c", <<>>), Ctor("x", <<>>)>>)>>),
             Module("Prelude", <<Export("true"), Export("c"), Term("native", "c", "", <<>>)>>)}
(* A imports B and the Prelude, which B may import too.                    *)
Diamonds == {Module("A", <<Import("B", "c"), Import("Prelude", "true"), Export("c")>> \o d) : d \in DataLists}
Misnamed == {[name |-> "A", terms |-> <<Decl("B")>>], [name |-> "A", terms |-> <<Decl("A"), Decl("B")>>]}
MCBundles ==
  {<<a, b>> : a \in ModulesNamed("A", "B"), b \in FewNamed("B", "A")}
    \cup {<<b, a>> : a \in FewNamed("A", "B"), b \in FewNamed("B", "A")}
    \cup {<<a, b, p>> : a \in FewNamed("A", "B"), b \in FewNamed("B", "Prelude"), p \in Preludes}
    \cup {<<a, b, p>> : a \in Diamonds, b \in FewNamed("B", "Prelude"), p \in Preludes}
    \cup {<<p, b, a>> : a \in FewNamed("A", "Prelude"), b \in FewNamed("B", "C"), p \in Preludes}
    \cup {<<m>> : m \in Misnamed}

-----------------------------------------------------------------------------
bundleVars == <<writtenBundle, bundleText, bundleStage, bundleOffset, bundleRead>>
pruningVars == <<wholeProgram, files, entries, round, pruneStage, entered, reachable, queue>>
substitutionVars == <<subject, meant, lastCall, calls, bindersStay>>
frontEndVars == <<parsedModule, decls, resolved, resolving, moduleStage, moduleFailure, moduleBindersStay>>

(* A tool that is not at work is asked for nothing.                        *)
WireRests == Init /\ mode = "foreign" /\ sent = <<>>
TablesRest == TripInit /\ Len(given) = 1 /\ given[1].terms[1].name # given[1].name
BundleRests == Format!Init /\ writtenBundle = <<>> /\ bundleText = <<>>
PruningRests == Pruning!Init /\ wholeProgram = (CHOOSE p \in PrunedPrograms : TRUE)
                 /\ entries = (CHOOSE e \in EntryLists : TRUE)
SubstitutionRests == Substituting!Init /\ subject = (CHOOSE x \in Subjects : TRUE)
FrontEndRests == Compiling!Init /\ parsedModule = <<>>

ToolsInit ==
  \/ /\ tool = "wire" /\ TablesRest /\ BundleRests /\ PruningRests /\ SubstitutionRests /\ FrontEndRests
     /\ Init
  \/ /\ tool = "tables" /\ WireRests /\ BundleRests /\ PruningRests /\ SubstitutionRests /\ FrontEndRests
     /\ TripInit
  \/ /\ tool = "bundle" /\ WireRests /\ TablesRest /\ PruningRests /\ SubstitutionRests /\ FrontEndRests
     /\ Format!Init
  \/ /\ tool = "pruning" /\ WireRests /\ TablesRest /\ BundleRests /\ SubstitutionRests /\ FrontEndRests
     /\ Pruning!Init
  \/ /\ tool = "substitution" /\ WireRests /\ TablesRest /\ BundleRests /\ PruningRests /\ FrontEndRests
     /\ Substituting!Init
  \/ /\ tool = "frontend" /\ WireRests /\ TablesRest /\ BundleRests /\ PruningRests /\ SubstitutionRests
     /\ Compiling!Init

EncodeAndDecode ==
  /\ tool = "wire" /\ Next
  /\ UNCHANGED <<tool, tripVars, bundleVars, pruningVars, substitutionVars, frontEndVars>>
BuildTables ==
  /\ tool = "tables" /\ TripNext
  /\ UNCHANGED <<tool, vars, bundleVars, pruningVars, substitutionVars, frontEndVars>>
WriteAndParse ==
  /\ tool = "bundle" /\ Format!Next
  /\ UNCHANGED <<tool, vars, tripVars, pruningVars, substitutionVars, frontEndVars>>
Prune ==
  /\ tool = "pruning" /\ Pruning!Next
  /\ UNCHANGED <<tool, vars, tripVars, bundleVars, substitutionVars, frontEndVars>>
Substitute ==
  /\ tool = "substitution" /\ Substituting!Next
  /\ UNCHANGED <<tool, vars, tripVars, bundleVars, pruningVars, frontEndVars>>
Compile ==
  /\ tool = "frontend" /\ Compiling!Next
  /\ UNCHANGED <<tool, vars, tripVars, bundleVars, pruningVars, substitutionVars>>

ToolsNext == EncodeAndDecode \/ BuildTables \/ WriteAndParse \/ Prune \/ Substitute \/ Compile
ToolsSpec == ToolsInit /\ [][ToolsNext]_<<tool, vars, tripVars, bundleVars, pruningVars, substitutionVars, frontEndVars>>

(* Terms keep their value and their sharing from encoder to decoder,       *)
(* wherever the text is cut, and both readers agree (topoDagWire.ts).      *)
WireKept == RoundTrip /\ EncodedIsAccepted /\ SharingKept /\ ReadersAgree

(* The tables the compilation builds and the summaries of the bundle say   *)
(* the same of every import, export, constructor and type, and what the    *)
(* summary says is what becomes of the compilation (fromTrip.ts and        *)
(* bundleV1.ts).                                                           *)
SummariesForetell ==
  SummariesAgree /\ EnvForetells /\ TablesAgree /\ NotPassedOver /\ FieldTypesAreFinal /\ AllModulesKept

(* A bundle that is written is read back, and what is read is what would   *)
(* have been written, but for one LF (bundleV1.ts).                        *)
BundleKept == Format!RoundTrip /\ Format!NearlyByteExact

(* Pruning keeps what the entries need and no more, no name that is kept   *)
(* gets another meaning, and doing it again changes nothing                *)
(* (reachability.ts).                                                      *)
PruningIsSafe == Pruning!PlainKeepsExactly /\ Pruning!NamesKeepTheirMeaning /\ Pruning!SecondTimeNothing

(* Names keep what they are bound to: in substitutions (substitution.ts)   *)
(* and from the source of a module to its resolved definitions             *)
(* (compilation.ts, elaboration.ts, data.ts).  Left out, where the code    *)
(* loses them: the substitutions that KeepsBinders and the two like it     *)
(* exclude, imported constructors whose arms are not in order, and fields  *)
(* of a type with the name of the result.                                  *)
NamesKeepTheirBinders ==
  /\ Substituting!TermsAsMeant /\ Substituting!TypesAsMeant /\ Substituting!BatchAsMeant
  /\ Compiling!MeaningKept /\ Compiling!OnlyUnboundFails /\ Compiling!MatchTakesItsArm /\ Compiling!ResultTypeIsFresh
=============================================================================
