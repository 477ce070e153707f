SPECIFICATION Spec
CONSTANTS
    bob = bob
    alice = alice
    r1 = r1
    r2 = r2
    r3 = r3
    r4 = r4
    NoUser = NoUser
    NoRequest = NoRequest
    Users = {bob, alice}
    Requests = {r1, r2, r3}
    Menu <- Asked
    Faults = TRUE
SYMMETRY Symmetry
INVARIANTS
    TypeOK
    CountExplained
    ActiveHasVault
    CollisionsOverlap
PROPERTIES
    OnlyPendingMoves
CHECK_DEADLOCK FALSE
