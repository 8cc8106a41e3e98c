SPECIFICATION Spec
CONSTANTS
    Stellar = {0, 1}
    Histories <- MCSwapOnly
    Endowment <- MCEndowment
    FunderAssets <- MCAllAssets
    MaxIters = 2
    MaxFaults = 0
INVARIANT AloneIsNotFunded
CHECK_DEADLOCK FALSE
