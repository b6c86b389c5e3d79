SPECIFICATION Spec
CONSTANTS
    v1 = v1
    v2 = v2
    t1 = t1
    t2 = t2
    Vars <- MCVars
    Toks <- OneToken
    MaxSlots = 3
    MaxLen = 2
    LazyGroups = TRUE
SYMMETRY Symmetry
CONSTRAINT FewTrees
INVARIANT
    ReferenceLive
CHECK_DEADLOCK FALSE
