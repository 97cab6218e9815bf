SPECIFICATION FairSpec
CONSTANTS
    N = 5
    ThreadCount = 3
    InOrder = TRUE
    Unset = Unset
INVARIANTS
    TypeOK
    PushedIsConverted
    NoStoreAfterFree
PROPERTIES
    SequentialSpec
    MainReturns
    WorkersFinish
\* The function returns and its workers end.
CHECK_DEADLOCK FALSE
