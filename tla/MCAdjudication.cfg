SPECIFICATION FairSpec
CONSTANTS
    Stellar = {0, 1}
    Histories <- MCHistories
    Endowment <- MCEndowment
    Withdrawers = {FALSE, TRUE}
    MaxRegisters = 1
    MaxFaults = 2
INVARIANTS TypeOK EscrowCoversClaims NilMeansPaid GoneMeansPaid NilMeansBothPaid
PROPERTIES KeepsSettlement Settles
CHECK_DEADLOCK FALSE
