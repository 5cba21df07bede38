SPECIFICATION Spec
CONSTANTS
    NI = 4
    MaxKills = 2
INVARIANTS TypeOK CountExact SingleName RootKept
