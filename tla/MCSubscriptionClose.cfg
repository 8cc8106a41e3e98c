SPECIFICATION FairSpec
CONSTANTS
    Stellar = {0, 1}
    Histories <- MCHistories
    Endowment <- MCEndowment
    BufferSize = 1
    MaxFaults = 0
PROPERTY CloseEnds
CHECK_DEADLOCK FALSE
