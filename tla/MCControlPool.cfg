\* Three workers on two continuations and two suspensions.
CONSTANTS
  w1 = w1  w2 = w2  w3 = w3  x = x  y = y
  NoState = NoState
  Workers = {w1, w2, w3}
  States = {x, y}
  ContSlots = 2
  SuspSlots = 2
  MaxCalls = 5
SYMMETRY WorkerSymmetry
SPECIFICATION Spec
INVARIANTS TypeOK NoSharedSlot NoLostSlot ListInMemory NoTrap
PROPERTIES ImplementsParkedWork
CHECK_DEADLOCK FALSE
