\* Two blocking producers and one blocking consumer (a completion queue), fair.
CONSTANTS
  p1 = p1  p2 = p2  c1 = c1  c2 = c2  x = x  y = y
  NoItem = NoItem
  Producers = {p1,p2}
  Consumers = {c1}
  Items = {x}
  Entries = 2
  MaxCalls = 3
  Width = 16
  Blocking <- AllBlocking
SPECIFICATION FairSpec
INVARIANTS NoFreeSlotMissed
PROPERTIES EverythingDelivered BlockedProducersReturn
CHECK_DEADLOCK FALSE
