SPECIFICATION FairSpec
CONSTANTS
    Stellar = {0, 1}
    Histories <- MCHistories
    Endowment <- MCEndowment
    Me = 0
    Callers = {c1, c2}
    Methods <- MCMethods
    MaxFaults = 1
INVARIANTS TypeOK OwnSequence
PROPERTIES KeepsPromise SuccessIsTold CloseNeverNil CallsReturn
CHECK_DEADLOCK FALSE
