SPECIFICATION TimelySpec
CONSTANTS
  Proc = {p1, p2}
  Name = {shim, wasm}
  p2 = p2
  shim = shim
  Entries <- MCEntries
  NoFile = NoFile
  Old = Old
  Stale = 3
  MaxWait = 4
  IoErrors = FALSE
PROPERTIES HeartbeatKeepsLease
