SPECIFICATION FairSpec
CONSTANTS
    Stellar = {0, 1}
    Histories <- MCHistories
    Endowment <- MCEndowment
    FunderAssets <- MCAllAssets
    MaxIters = 3
    MaxFaults = 2
INVARIANTS TypeOK SafeReturn TimeoutIsFinal StrandedIsReported
PROPERTIES DepositOrder FundReturns
CHECK_DEADLOCK FALSE
