SPECIFICATION Spec
CONSTANTS
    v1 = v1
    v2 = v2
    t1 = t1
    t2 = t2
    Vars <- MCVars
    Toks <- TwoTokens
    MaxSlots = 3
    MaxLen = 2
    LazyGroups = FALSE
SYMMETRY Symmetry
CONSTRAINT FewTrees
INVARIANTS
    TypeOK
    CountsExact
PROPERTY
    StreamsAreValues
CHECK_DEADLOCK FALSE
