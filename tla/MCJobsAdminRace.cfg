CONSTANTS
    sysKey = sysKey
    oneKey = oneKey
    JobIds = {j1, j2}
    Keys = {sysKey, oneKey}
    SystemKeys = {sysKey}
    Priority <- Priorities
    MaxAttempts = 1
    Workers = {w1}
    WorkerIds = {w1}
    WorkerId <- OwnIds
    Admins = {a1, a2}
    NoOne = NoOne
    MaxCrashes = 1
    MaxExpiries = 1
SPECIFICATION Spec
SYMMETRY Symmetry
PROPERTIES
    AdminWritesOnlyEligible
