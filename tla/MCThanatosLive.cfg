\* Three clients compete for two slots, one worker, two suspensions, queues
\* of one entry and input; all calls read, one yields, one uses up its
\* budget of one, one meets the end of its file; fair.
CONSTANTS
  c1 = c1  c2 = c2  c3 = c3  w1 = w1  w2 = w2  s1 = s1  s2 = s2
  Pump = Pump  NoOne = NoOne  NoSusp = NoSusp
  Clients = {c1, c2, c3}
  Workers = {w1}
  Slots = 2
  Susps = {s1, s2}
  SqCapacity = 1  CqCapacity = 1  StdinCapacity = 1  StdoutCapacity = 1
  Gas = 2
  Programs <- LivePrograms
  Budgets = {1, 9}
  Unlimited = 9
  WithPump = FALSE  WithStdin = TRUE
  MaxRequests = 3
SPECIFICATION FairSpec
ACTION_CONSTRAINTS InOrder CallsForJobs
PROPERTIES CallsReturn
CHECK_DEADLOCK FALSE
