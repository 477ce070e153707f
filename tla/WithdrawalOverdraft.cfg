SPECIFICATION Spec
CONSTANTS
    w1 = w1
    w2 = w2
    user = user
    vault = vault
    Orders = {w1, w2}
    Accounts = {user}
    Vaults = {vault}
    NewestVault = vault
    AccountOf <- OneAccount
    Environment <- AllSandbox
    Amounts = {0, 1, 3}
    DepositAmounts = {2}
    MaxDeposited = 4
    Scale = 2
    MaxIndex = 3
    Fraction = 2
    MicroUnits = 10
    Whole = 4
    ClientShare = 1
    PlatformFee = 1
    Noise = 0
    Tolerance = 1
    Serialised = TRUE
    Crashes = FALSE
INVARIANTS
    NoOverdraft
CHECK_DEADLOCK FALSE
