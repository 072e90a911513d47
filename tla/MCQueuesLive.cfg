CONSTANTS
    ann = ann
    bob = bob
    \* lookups
    Items = {i1, i2}
    Members = {ann}
    Owner <- OneOwner
    Handlers = {h1}
    Askers = {r1}
    NoHandler = NoHandler
    NoItem = NoItem
    MaxAsked = 2
    GiveUpAt = 1
    MaxFaults = 1
    \* mails
    Readers = {ann, bob}
    Notes <- TwoNotes
    Reader <- TwoReaders
    Habit <- MixedHabits
    Senders = {s1}
    NoSender = NoSender
    DaySlots = 2
    WeekDays = 2
    Batch = 1
    MaxMishaps = 1
    \* webhooks
    Hooks = {1, 2}
    Happenings = {"created", "specific"}
    Listens <- TwoHooks
    Couriers = {s1}
    NoCourier = NoCourier
    CallBatch = 1
    MaxDeliveries = 2
    MaxSpills = 1
SPECIFICATION LiveSpec
CONSTRAINT LiveSlice
PROPERTIES
    WaitingIsTaken
    MailLeaves
    DeliveryEnds
CHECK_DEADLOCK FALSE
