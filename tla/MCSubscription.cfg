SPECIFICATION FairSpec
CONSTANTS
    Stellar = {0, 1}
    Histories <- MCHistories
    Endowment <- MCEndowment
    BufferSize = 2
    MaxFaults = 1
INVARIANTS TypeOK EventsAreTrue ConcludedIsLast
PROPERTIES DisputeTold ClosingTold Refuted
CHECK_DEADLOCK FALSE
