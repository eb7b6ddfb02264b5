SPECIFICATION Spec
CONSTANTS
    Users = {"u"}
    Sessions = {"mp"}
    Payments = {"p1"}
    MockSessions = {}
    Owner <- MCOwner
    SessionOf <- MCSessionOf
    Amount = 2
    NoPayment = "no payment"
    r1 = r1
    r2 = r2
    Requests = {r1, r2}
INVARIANT
    CreditedOnce
CHECK_DEADLOCK FALSE
