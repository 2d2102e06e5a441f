SPECIFICATION LiveSpec
CONSTANTS
  Proc = {p1, p2}
  Name = {wasm}
  p2 = p2
  shim = shim
  Entries <- MCEntries
  NoFile = NoFile
  Old = Old
  Stale = 2
  MaxWait = 4
  IoErrors = FALSE
PROPERTIES WaitEnds AbandonedIsReclaimed
