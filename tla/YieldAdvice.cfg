SPECIFICATION Spec
CONSTANTS
    aave = aave
    morpho = morpho
    usdc = usdc
    usdt = usdt
    NoProtocol = NoProtocol
    NoStrategy = NoStrategy
    Tokens = {usdc, usdt}
    Strategies = {"risk"}
    Enabled <- Protocol2
    Style <- Styles
    Rates = {2, 4}
    c1 = c1
    c2 = c2
    Calls = {c1, c2}
    Menu <- Asked
    Markets <- Start
    OptimizerTTL = 0
    AggregatorTTL = 1
    AdapterTTL = 2
    Patience = 1
    Unsettled <- Volatile
    MaxUpsets = 1
SYMMETRY Symmetry
INVARIANTS
    TypeOK
    FreshAdvice
    SettledAdvice
CHECK_DEADLOCK FALSE
