SPECIFICATION FairSpec
CONSTANTS
    d1 = d1
    d2 = d2
    d3 = d3
    w1 = w1
    w2 = w2
    p1 = p1
    p2 = p2
    vaultWallet = vaultWallet
    keyWallet = keyWallet
    b1 = b1
    b2 = b2
    NoOrder = NoOrder
    NoWallet = NoWallet
    NoBatch = NoBatch
    Deposits = {d1, d2, d3}
    Withdrawals = {w1, w2}
    Products = {p1, p2}
    Batches = {b1, b2}
    Wallets = {vaultWallet, keyWallet}
    ProductOf <- Owner
    Environment <- OnlyThirdProduction
    PerCent = 10
    Amount <- Tenths
    Rounded <- Cents
    VaultWallet <- OneVault
    KeyWallet <- OneKey
    OpeningIdle <- Idle
    OpeningCustody <- Custody
    Requests <- Asked
    Faults = TRUE
INVARIANTS
    TypeOK
    TokensFollowBooks
    TwiceOnlyTogether
    LedgersExplained
PROPERTIES
    AbandonedForGood
    ImplementsContract
    CompletedIsAnswered
