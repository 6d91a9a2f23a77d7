\* Every small term, cyclic terms, requests that share links, and programs with
\* effects.
CONSTANTS
  Loaded <- AllLoaded
  Sessions <- AllSessions
  Gas = 12
  OutCapacity = 1
  WithPump = TRUE
  Fuel = 40
SPECIFICATION Spec
INVARIANTS TypeOK StepsAccounted SameMeaning VisitedIsSettled DoneIsNormalForm
           ErrorIsDeserved LinksSound
CHECK_DEADLOCK FALSE
