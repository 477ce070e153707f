SPECIFICATION FairSpec
CONSTANTS
    o1 = o1
    o2 = o2
    o3 = o3
    sandboxUser = sandboxUser
    productionUser = productionUser
    sandboxVault = sandboxVault
    productionVault = productionVault
    h1 = h1
    h2 = h2
    h3 = h3
    NoOrder = NoOrder
    NoVault = NoVault
    Orders = {o1, o2, o3}
    Accounts = {sandboxUser, productionUser}
    Vaults = {sandboxVault, productionVault}
    Handlers = {h1, h2}
    Amounts = {1, 2}
    AccountOf <- TwoAccounts
    Environment <- ByName
    RequestKinds = {"plain", "verified"}
    Scale = 2
    MaxIndex = 3
    Serialised = TRUE
    Crashes = TRUE
INVARIANTS
    CreditedOnce
PROPERTIES
    CreditFollowsFormula
    ImplementsContract
    CompletedIsCredited
CHECK_DEADLOCK FALSE
