SPECIFICATION Spec
CONSTANTS
    old = old
    new = new
    sandboxUSDC = sandboxUSDC
    productionUSDC = productionUSDC
    THB = THB
    SGD = SGD
    r1 = r1
    r2 = r2
    r3 = r3
    NoBalance = NoBalance
    NoProduct = NoProduct
    NoVault = NoVault
    NoRequest = NoRequest
    Products = {old, new}
    Existing = {old}
    Opening <- OpeningBalance
    Vaults = {sandboxUSDC, productionUSDC}
    SandboxVaults = {sandboxUSDC}
    PrivyVault = productionUSDC
    Currencies = {THB, SGD}
    Requests = {r1, r2, r3}
    Menu <- Asked
    Faults = TRUE
INVARIANTS
    TypeOK
    FundsConserved
    LogExplained
    CreatedIsComplete
    CurrenciesFollowAccounts
CHECK_DEADLOCK FALSE
