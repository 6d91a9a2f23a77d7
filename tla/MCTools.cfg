SPECIFICATION ToolsSpec
CONSTANTS
  Size = 4
  PerChunk = 2
  MaxPiece = 3
  ForeignWires <- MCForeignWires
  Name <- MCName
  Prelude = "Prelude"
  NoName = NoName
  DepLists <- MCDepLists
  Bundles <- MCBundles
  NameOrder <- MCNameOrder
  Primitives <- MCPrimitives
  WrittenBundles <- MCWrittenBundles
  BundleTexts <- MCBundleTexts
  PrunedPrograms <- MCPrunedPrograms
  EntryLists <- MCEntryLists
  Subjects <- MCSubjects
  PutTerms <- MCPutTerms
  PutTypes <- MCPutTypes
  CompiledModules <- MCCompiledModules
  ImportedData <- MCImportedData
INVARIANTS
  RootIsLast
  WireKept
  SortIsRight
  SummariesForetell
  BundleKept
  PruningIsSafe
  NamesKeepTheirBinders
CHECK_DEADLOCK FALSE
