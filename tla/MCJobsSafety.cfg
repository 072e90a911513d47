CONSTANTS
    sysKey = sysKey
    oneKey = oneKey
    JobIds = {j1, j2}
    Keys = {sysKey, oneKey}
    SystemKeys = {sysKey}
    Priority <- Priorities
    MaxAttempts = 2
    Workers = {w1, w2}
    WorkerIds = {w1, w2}
    WorkerId <- OwnIds
    Admins = {a1}
    NoOne = NoOne
    MaxCrashes = 1
    MaxExpiries = 1
SPECIFICATION Spec
SYMMETRY Symmetry
INVARIANTS
    TypeOK
    UniqueActiveKey
    LeaseGuardExact
    NoOverlap
    AttemptsSpent
PROPERTIES
    ScheduleEndsOnlyByFailureOrCancel
    CancelledStays
