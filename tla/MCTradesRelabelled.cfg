CONSTANTS
    alice = alice
    bob = bob
    ring = ring
    bolt = bolt
    Users = {alice, bob}
    Cards = {ring, bolt}
    RowIds = {1, 2, 3, 4}
    TradeIds = {t1}
    Requests = {q1}
    NoOne = NoOne
    Collection <- TwoRows
    MaxQuantity = 1
    MaxItems = 1
    MaxArrivals = 4
    Interleaved = FALSE
    Relabelling = TRUE
SPECIFICATION Spec
PROPERTIES
    SettledAsAgreed
CHECK_DEADLOCK FALSE
