CONSTANTS
    sysKey = sysKey
    oneKey = oneKey
    JobIds = {j1, j2, j3}
    Keys = {sysKey}
    SystemKeys = {sysKey}
    Priority <- EqualPriorities
    MaxAttempts = 1
    Workers = {w1, w2}
    WorkerIds = {w1, w2}
    WorkerId <- OwnIds
    Admins = {}
    NoOne = NoOne
    MaxCrashes = 1
    MaxExpiries = 1
SPECIFICATION FairSpec
PROPERTIES
    PendingIsTaken
    OrphanReturns
