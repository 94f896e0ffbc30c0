SPECIFICATION Spec
CONSTANTS
    Docs = {d1}
    MaxVersion = 2
    MaxListens = 2
    MaxFaults = 1
    d1 = d1
CHECK_DEADLOCK FALSE
INVARIANT MismatchDropsToken
