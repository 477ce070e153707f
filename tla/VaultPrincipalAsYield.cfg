SPECIFICATION Spec
CONSTANTS
    j1 = j1
    j2 = j2
    j3 = j3
    Aave = Aave
    Compound = Compound
    Morpho = Morpho
    Jobs = {j1, j2}
    Markets = {Aave, Compound}
    Kinds = {"deploy", "sync"}
    Part = 2
    Amounts = {1, 2}
    Rates = {1}
    Whole = 3
    Scale = 4
    Precision = 6
    MaxIndex = 12
    MaxBooked = 3
    MaxEarned = 1
    Serialised = TRUE
INVARIANTS
    YieldIsEarned
CHECK_DEADLOCK FALSE
