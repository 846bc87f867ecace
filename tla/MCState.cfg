SPECIFICATION MCSpec
CONSTANTS
  a1 = a1
  a2 = a2
  k1 = k1
  Addr = {a1}
  Key = {k1}
  NoObj = NoObj
  Ripemd = a2
  Reuse = FALSE
  Ops = {"storage", "suicide", "create"}
  MaxJournal = 3
  MaxRevisions = 1
  MaxTx = 1
  MaxCommits = 1
CHECK_DEADLOCK FALSE
INVARIANTS RevertSound BooksInOrder SnapshotSound
PROPERTIES CommitWritten
