CONSTANTS
    alice = alice
    bob = bob
    ring = ring
    bolt = bolt
    Users = {alice, bob}
    Cards = {ring, bolt}
    RowIds = {1, 2, 3, 4, 5}
    TradeIds = {t1, t2}
    Requests = {q1}
    NoOne = NoOne
    Collection <- ThreeRows
    MaxQuantity = 2
    MaxItems = 2
    MaxArrivals = 4
    Interleaved = FALSE
    Relabelling = FALSE
SPECIFICATION FairSpec
CONSTRAINT OffersSlice
PROPERTIES
    ImplementsLedger
    SettlementEnds
CHECK_DEADLOCK FALSE
