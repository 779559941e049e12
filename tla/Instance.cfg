SPECIFICATION Spec
CONSTANTS
    MaxLen = 2
    Calls <- AllCalls
    Helpers <- AllHelpers
    Stores = {s1, s2, s3, s4}
    Addresses = {a1, a2, a3}
    NoAddress = none
    Int32Limit = 16
    Asked <- AskedNumbers
    SlotNumbers <- Slots
    HeaderNames <- Names
    HeaderValues <- Contents
    Parsed <- Numbers
INVARIANTS TypeOK ArgumentsArrive GivenIsAnswered FreedOnce TextsGivenBack
INVARIANTS HeldStoreUsable DeletedOnce
PROPERTIES SlotAsAsked ReadsAgree
CHECK_DEADLOCK FALSE
