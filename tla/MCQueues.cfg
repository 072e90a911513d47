CONSTANTS
    ann = ann
    bob = bob
    card1 = card1
    card2 = card2
    \* lookups
    Items = {x1, x2}
    Members = {ann}
    Owner <- OneOwner
    Handlers = {y1, y2}
    Askers = {r1}
    NoHandler = NoHandler
    NoItem = NoItem
    MaxAsked = 2
    GiveUpAt = 2
    MaxFaults = 1
    \* mails
    Readers = {ann, bob}
    Notes <- ThreeNotes
    Reader <- ThreeReaders
    Habit <- DailyHabit
    Senders = {x1, x2}
    NoSender = NoSender
    DaySlots = 2
    WeekDays = 1
    Batch = 2
    MaxMishaps = 1
    \* webhooks
    Hooks = {1, 2}
    Happenings = {"created", "specific"}
    Listens <- TwoHooks
    Couriers = {x1, x2}
    NoCourier = NoCourier
    CallBatch = 2
    MaxDeliveries = 3
    MaxSpills = 1
    \* imports
    Cards = {card1, card2}
    Batches = {y1, y2}
    Movers = {x1, x2}
    NoBatch = NoBatch
    NoCard = NoCard
    Files <- TheFiles
    MaxCopies = 2
    MaxRowIds = 4
    MaxEdits = 1
    \* decks
    Decks = {y1, y2}
    NoDeck = NoDeck
    Pledges = {r1}
    Hands = {x1, x2}
    MaxOwned = 2
    MaxCardRows = 2
    MaxEntries = 2
    MaxChanges = 1
SPECIFICATION QueuesSpec
SYMMETRY Symmetry
CONSTRAINT SliceBound
INVARIANTS
    QueuesTypeOK
    ToldWhenIdle
    AnswerFits
    NoneStranded
    ProcessingIsHeld
    MailedOnce
    CalledInOrder
    DeckWithinOwned
PROPERTIES
    UndoRestores
    MergeKeeps
CHECK_DEADLOCK FALSE
