SPECIFICATION PagesSpec
CONSTANTS
    Users = {"u"}
    Sessions = {"mp", "mock"}
    Payments = {"p1", "p2"}
    MockSessions = {"mock"}
    Owner <- MCOwner
    SessionOf <- MCSessionOf
    Amount = 2
    NoPayment = "no payment"
    Requests = {"r"}
INVARIANT
    AnnouncedIsCredited
PROPERTY
    KeepsPromise
CHECK_DEADLOCK FALSE
