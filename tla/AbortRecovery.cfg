SPECIFICATION LiveSpec
CONSTANTS
    Objects = {o1, o2}
    Calls = {c1, c2}
    AsyncCalls = {c2}
    MaxGen = 3
INVARIANTS TypeOK IdTellsInstance
PROPERTIES StartsInCurrent ObjectKept OthersAreSpared Heals
