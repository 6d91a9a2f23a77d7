\* One byte of input, two requests that read one each.
CONSTANTS
  Loaded <- AllLoaded
  Sessions <- ReadTwice
  Gas = 10
  OutCapacity = 1
  WithPump = TRUE
  Fuel = 40
SPECIFICATION Spec
INVARIANTS ReadsBlock
CHECK_DEADLOCK FALSE
