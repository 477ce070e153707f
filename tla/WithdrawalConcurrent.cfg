SPECIFICATION FairSpec
CONSTANTS
    w1 = w1
    w2 = w2
    user = user
    vault = vault
    Orders = {w1, w2}
    Accounts = {user}
    Vaults = {vault}
    NewestVault = vault
    AccountOf <- OneAccount
    Environment <- AllSandbox
    Amounts = {0, 2}
    DepositAmounts = {1}
    MaxDeposited = 2
    Scale = 2
    MaxIndex = 3
    Fraction = 1
    MicroUnits = 10
    Whole = 4
    ClientShare = 1
    PlatformFee = 1
    Noise = 1
    Tolerance = 1
    Serialised = FALSE
    Crashes = TRUE
INVARIANTS
    TypeOK
    WithdrawnAdditive
    DebitIsQueued
    DistributionsBacked
PROPERTIES
    PayoutLeavesFees
    ImplementsContract
    PendingIsDebited
CHECK_DEADLOCK FALSE
