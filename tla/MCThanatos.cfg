\* Two clients, two workers, the pump and the stdin thread on small rings.
CONSTANTS
  c1 = c1  c2 = c2  c3 = c3  w1 = w1  w2 = w2  s1 = s1  s2 = s2
  Pump = Pump  NoOne = NoOne  NoSusp = NoSusp
  Clients = {c1, c2}
  Workers = {w1, w2}
  Slots = 2
  Susps = {s1, s2}
  SqCapacity = 2  CqCapacity = 1  StdinCapacity = 1  StdoutCapacity = 1
  Gas = 2
  Programs <- MixedPrograms
  Budgets = {9}
  Unlimited = 9
  WithPump = TRUE  WithStdin = TRUE
  MaxRequests = 2
SYMMETRY RuntimeSymmetry
SPECIFICATION Spec
INVARIANTS TypeOK OneTokenPerRequest NoDroppedEvents NoFailedResume
           RegistersOnce NoLeakedSuspension OutputBeforeReturn
CHECK_DEADLOCK FALSE
