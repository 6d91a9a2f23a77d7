\* A read in an argument that waits for its byte.
CONSTANTS
  Loaded <- AllLoaded
  Sessions <- LateByte
  Gas = 10
  OutCapacity = 1
  WithPump = TRUE
  Fuel = 40
SPECIFICATION Spec
INVARIANTS ReducesToNormalForm
CHECK_DEADLOCK FALSE
