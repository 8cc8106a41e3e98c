SPECIFICATION Spec
CONSTANTS
    Stellar = {0, 1}
    Histories <- MCSecondOnly
    Endowment <- MCEndowment
    FunderAssets <- MCAllAssets
    MaxIters = 2
    MaxFaults = 0
PROPERTY AFundsFirst
CHECK_DEADLOCK FALSE
