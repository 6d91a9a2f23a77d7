\* A blocking and a polling producer, two blocking consumers, two slots,
\* words of two bits.
CONSTANTS
  p1 = p1  p2 = p2  c1 = c1  c2 = c2  x = x  y = y
  NoItem = NoItem
  Producers = {p1,p2}
  Consumers = {c1,c2}
  Items = {x, y}
  Entries = 2
  MaxCalls = 3
  Width = 4
  Blocking <- OnePollingProducer
SYMMETRY ConsumerSymmetry
SPECIFICATION Spec
INVARIANTS TypeOK SlotExclusive NoItemLeftBehind WordsSuffice
PROPERTIES ImplementsFifo
CHECK_DEADLOCK FALSE
