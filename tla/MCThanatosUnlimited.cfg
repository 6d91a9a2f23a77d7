\* An unlimited reduction longer than the (narrow) largest budget; fair.
CONSTANTS
  c1 = c1  c2 = c2  c3 = c3  w1 = w1  w2 = w2  s1 = s1  s2 = s2
  Pump = Pump  NoOne = NoOne  NoSusp = NoSusp
  Clients = {c1}
  Workers = {w1}
  Slots = 1
  Susps = {s1, s2}
  SqCapacity = 2  CqCapacity = 1  StdinCapacity = 1  StdoutCapacity = 4
  Gas = 1
  Programs <- LongPrograms
  Budgets = {2}
  Unlimited = 2
  WithPump = FALSE  WithStdin = FALSE
  MaxRequests = 1
SPECIFICATION FairSpec
PROPERTIES UnlimitedCallsReturn
CHECK_DEADLOCK FALSE
