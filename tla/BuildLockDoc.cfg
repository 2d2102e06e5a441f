SPECIFICATION Spec
CONSTANTS
  Proc = {p1, p2}
  Name = {wasm}
  p2 = p2
  shim = shim
  Entries <- MCEntries
  NoFile = NoFile
  Old = Old
  Stale = 2
  MaxWait = 3
  IoErrors = FALSE
PROPERTIES WaitsForStale
