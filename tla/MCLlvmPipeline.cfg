SPECIFICATION LlvmSpec
CONSTANTS
  CallBound = 6
  Programs <- OfferedPrograms
  WellTyped <- CompiledPrograms
  Inputs <- ManyInputs
  BlockModules <- HandModules
  WordModulus = 65536
INVARIANTS
  AcceptedRuns
  EveryStageAccepts
  LoweringKeepsMeaning
  NativeKeepsMeaning
CHECK_DEADLOCK FALSE
