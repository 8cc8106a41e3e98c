SPECIFICATION Spec
CONSTANTS
    Half = 4
    Base = 4
    NoContract = NoContract
    NoHolder = NoHolder
    NoAccount = NoAccount
    Curve <- MCCurve
    C1 = C1
    C2 = C2
    R1 = R1
    R2 = R2
    H1 = H1
    RandomAddresses = {R1, R2}
    InitialParams <- MCParams
    InitialStates <- MCStates
    Amounts <- MCAmounts
    Lockings <- MCLockings
    MaxVersion = 1
    MaxRejected = 1
    Controls <- MCControls
INVARIANTS
    TypeOK
    SignaturesAreAccepted
    SignatureBinds
    ReadIsRegistered
    ReadIsAgreed
CHECK_DEADLOCK FALSE
