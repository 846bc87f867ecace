SPECIFICATION MCSpec
CONSTANTS
  a1 = a1
  Adder = {a1}
  SyncAdder = {}
  MaxHead = 1
  MaxRun = 1
CHECK_DEADLOCK FALSE
PROPERTIES CallsReturn
