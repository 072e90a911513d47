CONSTANTS
    alice = alice
    bob = bob
    ring = ring
    bolt = bolt
    Users = {alice, bob}
    Cards = {ring, bolt}
    RowIds = {1, 2, 3, 4}
    TradeIds = {t1}
    Requests = {q1, q2}
    NoOne = NoOne
    Collection <- TwoRows
    MaxQuantity = 1
    MaxItems = 1
    MaxArrivals = 4
    Interleaved = TRUE
    Relabelling = TRUE
SPECIFICATION Spec
SYMMETRY Symmetry
PROPERTIES
    CardsConserved
CHECK_DEADLOCK FALSE
