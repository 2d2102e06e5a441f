SPECIFICATION MCSpec
CONSTANTS
  User = {self, other}
  Self = self
  Version = {v1, v2}
  MaxAttempts = 2
  Patch = {p1, p2}
  WorkerVersions <- MCWorkerVersions
  Inputs <- MCInputs
  Machines <- MCMachines
  MaxSections = 3
  Releases <- MCReleases
  Sizes = {0, 1, 127, 128, 255, 256, 16383, 16384, 2097151, 2097152, 268435455, 268435456, 2147483647}
INVARIANTS RootVersionIsChecked
