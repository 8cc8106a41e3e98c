SPECIFICATION RetrySpec
CONSTANTS
    Stellar = {0}
    Histories <- MCHistories
    Endowment <- MCEndowment
    FunderAssets <- MCOneAsset
    MaxIters = 2
    MaxFaults = 3
INVARIANTS SafeReturn StrandedIsReported LateIsHarmless
CHECK_DEADLOCK FALSE
