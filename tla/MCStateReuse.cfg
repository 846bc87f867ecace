SPECIFICATION Spec
CONSTANTS
  Addr = {a1}
  Key = {k1}
  NoObj = NoObj
  Ripemd = a2
  Reuse = TRUE
  Ops = {"nonce","balance"}
  MaxJournal = 2
  MaxRevisions = 1
  MaxTx = 1
  MaxCommits = 2
CHECK_DEADLOCK FALSE
PROPERTIES CommitWritten
