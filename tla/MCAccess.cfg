CONSTANTS
    \* sign-in
    Visits = {x1, x2}
    MaxEra = 2
    MaxLinks = 2
    MaxCodes = 2
    MaxChals = 2
    \* membership
    Accounts = {1, 2, 3}
    Invites = {inv}
    Applicants = {x1, x2}
    Staffers = {y1, y2}
    Given = {"member", "organizer", "owner"}
    NoAccount = NoAccount
    NoInvite = NoInvite
    MaxCuts = 1
    \* rate limits
    Callers = {x1, x2}
    Limit = 2
    Window = 2
    Retained = 4
    Patience = 1
    Never = Never
    MaxClock = 4
    MaxCalls = 4
    \* backups
    Keepers = {x1, x2}
    NoArchive = NoArchive
    MaxRetained = 2
    MaxRows = 2
    MaxArchives = 3
    MaxStops = 1
SPECIFICATION AccessSpec
SYMMETRY Symmetry
CONSTRAINT SliceBound
INVARIANTS
    AccessTypeOK
    OneLiveLink
    NothingOldOpen
    CodesAreSpent
    SomebodyGoverns
    InviteAdmitsOne
    BannedInviteNobody
    WindowRespected
    BackupRemains
    RestoreLosesNothing
PROPERTIES
    LinkIsLastWord
CHECK_DEADLOCK FALSE
