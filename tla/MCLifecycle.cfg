\* The pool's goroutines and channels, with a subscriber that stalls.
SPECIFICATION Spec
CONSTANTS
    Adder = {b1, b2}
    SyncAdder = {b1}
    MaxHead = 2
    MaxRun = 2
INVARIANTS ShutdownClean
PROPERTIES RequestsSeeRun
CHECK_DEADLOCK FALSE
