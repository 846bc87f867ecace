CONSTANTS
  a = a
  b = b
  c = c
  s = s
  t = t
  Address = {a, b, c}
  Slot = {s, t}
  MaxJournal = 4
  MaxTouch = 2
  Txs = {a, b}
  MaxOrders = 2
  MaxEvents = 1
  MaxDrops = 1
SPECIFICATION MCSpec
INVARIANTS ListsSound ChainSound
PROPERTIES ImplementsAccessSet PromotedIsExecuted
CHECK_DEADLOCK FALSE
