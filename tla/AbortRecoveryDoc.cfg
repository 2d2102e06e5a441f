SPECIFICATION Spec
CONSTANTS
    Objects = {o1, o2}
    Calls = {c1, c2}
    AsyncCalls = {c2}
    MaxGen = 2
PROPERTIES DeathIsFinal
