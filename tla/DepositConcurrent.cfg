SPECIFICATION Spec
CONSTANTS
    o1 = o1
    o2 = o2
    o3 = o3
    sandboxUser = sandboxUser
    productionUser = productionUser
    sandboxVault = sandboxVault
    productionVault = productionVault
    h1 = h1
    h2 = h2
    h3 = h3
    NoOrder = NoOrder
    NoVault = NoVault
    Orders = {o1, o2}
    Accounts = {sandboxUser}
    Vaults = {sandboxVault, productionVault}
    Handlers = {h1, h2}
    Amounts = {1, 2}
    AccountOf <- OneAccount
    Environment <- AllSandbox
    RequestKinds = {"plain", "verified", "fail"}
    Scale = 2
    MaxIndex = 4
    Serialised = FALSE
    Crashes = TRUE
INVARIANTS
    TypeOK
    LedgersAdditive
    BookingFollowsCredit
    EntryIndexInRange
    LedgersAgreeAtRest
SYMMETRY HandlerSymmetry
CHECK_DEADLOCK FALSE
