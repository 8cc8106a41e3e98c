SPECIFICATION Spec
CONSTANTS
    Half = 4
    Base = 4
    NoContract = NoContract
    NoHolder = NoHolder
    NoAccount = NoAccount
    Curve <- MCCurve
    RandomAddresses = {}
    Accounts <- MCAccounts
    EthAddresses = {e1}
    Nonces = {1}
    MaxProposals = 2
    MaxRestarts = 1
INVARIANTS
    SignaturesVerify
    IdBinds
    IdSurvives
CHECK_DEADLOCK FALSE
