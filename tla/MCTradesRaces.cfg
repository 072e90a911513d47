CONSTANTS
    alice = alice
    bob = bob
    ring = ring
    bolt = bolt
    Users = {alice, bob}
    Cards = {ring, bolt}
    RowIds = {1, 2, 3, 4}
    TradeIds = {t1, t2}
    Requests = {q1, q2}
    NoOne = NoOne
    Collection <- TwoRows
    MaxQuantity = 2
    MaxItems = 2
    MaxArrivals = 4
    Interleaved = TRUE
    Relabelling = TRUE
SPECIFICATION Spec
SYMMETRY Symmetry
CONSTRAINT OffersSlice
INVARIANTS
    TypeOK
    TradeableWithinQuantity
    ItemsMatchParties
    ItemsLinked
PROPERTIES
    LossOnlyFromStaleRead
CHECK_DEADLOCK FALSE
