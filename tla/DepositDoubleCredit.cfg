SPECIFICATION Spec
CONSTANTS
    o1 = o1
    o2 = o2
    o3 = o3
    sandboxUser = sandboxUser
    productionUser = productionUser
    sandboxVault = sandboxVault
    productionVault = productionVault
    h1 = h1
    h2 = h2
    h3 = h3
    NoOrder = NoOrder
    NoVault = NoVault
    Orders = {o1, o2}
    Accounts = {sandboxUser}
    Vaults = {sandboxVault}
    Handlers = {h1, h2}
    Amounts = {1}
    AccountOf <- OneAccount
    Environment <- AllSandbox
    RequestKinds = {"plain"}
    Scale = 2
    MaxIndex = 2
    Serialised = FALSE
    Crashes = FALSE
INVARIANTS
    CreditedOnce
CHECK_DEADLOCK FALSE
