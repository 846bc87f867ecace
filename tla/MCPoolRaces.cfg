\* One account, three nonces: gaps, replacement, demotion, and the executor
\* writing the state, and rolling it back, while the pool works.
SPECIFICATION Spec
CONSTANTS
    Addr = {a}
    MaxNonce = 2
    Fee = {1, 2}
    PriceBump = 10
    Balance = {1, 4}
    AccountSlots = 1
    GlobalSlots = 2
    AccountQueue = 1
    GlobalQueue = 1
    Source = {FALSE}
    Tip = {2}
    MaxExec = 2
    MaxAdd = 3
    MaxInflight = 1
    MaxHead = 1
    MaxRollback = 1
INVARIANTS ListsAgree PendingContiguous VirtualNonce PendingAnnounced
CHECK_DEADLOCK FALSE
