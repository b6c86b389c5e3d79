CONSTANTS
    Hosts = {serde, regex}
    MaxInv = 3
    MaxIn = 1
    MaxOut = 2
    Capacity = 2
SPECIFICATION Spec
INVARIANTS
    TypeOK
    InputIsWhole
    AnswerIsWhole
    StartedOnce
    ReasonIsCause
PROPERTY
    AllEnd
CHECK_DEADLOCK FALSE
