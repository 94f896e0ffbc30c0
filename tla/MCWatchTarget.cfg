SPECIFICATION Spec
CONSTANTS
    Docs = {d1, d2}
    MaxVersion = 2
    MaxListens = 2
    MaxFaults = 1
    d1 = d1
    d2 = d2
SYMMETRY Symmetry
CHECK_DEADLOCK FALSE
INVARIANTS
    TypeOK
    CopiesAgree
    ChangesFitView
PROPERTY OwnResponsesOnly
