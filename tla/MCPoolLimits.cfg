\* Limits and fairness of the truncation, with local and remote accounts.
SPECIFICATION Spec
CONSTANTS
    Addr = {a1, a2}
    MaxNonce = 2
    Fee = {1}
    PriceBump = 10
    Balance = {4}
    AccountSlots = 1
    GlobalSlots = 2
    AccountQueue = 2
    GlobalQueue = 3
    Source = {TRUE, FALSE}
    Tip = {}
    MaxExec = 0
    MaxAdd = 5
    MaxInflight = 1
    MaxHead = 0
    MaxRollback = 0
INVARIANTS Truncation
PROPERTIES LocalsKept
CHECK_DEADLOCK FALSE
