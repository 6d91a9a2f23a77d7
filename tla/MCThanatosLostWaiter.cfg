\* Two clients that read or write, with stdin thread and pump; fair.
CONSTANTS
  c1 = c1  c2 = c2  c3 = c3  w1 = w1  w2 = w2  s1 = s1  s2 = s2
  Pump = Pump  NoOne = NoOne  NoSusp = NoSusp
  Clients = {c1, c2}
  Workers = {w1}
  Slots = 2
  Susps = {s1, s2}
  SqCapacity = 2  CqCapacity = 1  StdinCapacity = 2  StdoutCapacity = 1
  Gas = 3
  Programs <- WaitingPrograms
  Budgets = {9}
  Unlimited = 9
  WithPump = TRUE  WithStdin = TRUE
  MaxRequests = 2
SPECIFICATION FairSpec
ACTION_CONSTRAINTS InOrder
PROPERTIES WaitersAreResumed
CHECK_DEADLOCK FALSE
