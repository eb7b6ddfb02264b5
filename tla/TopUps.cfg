SPECIFICATION Spec
CONSTANTS
    Users = {"u"}
    Sessions = {"mp", "mock"}
    Payments = {"p1"}
    MockSessions = {"mock"}
    Owner <- MCOwner
    SessionOf <- MCSessionOf
    Amount = 2
    NoPayment = "no payment"
    r1 = r1
    r2 = r2
    Requests = {r1, r2}
SYMMETRY RequestSymmetry
INVARIANTS
    BalanceMatchesLedger
    CreditsBoundedByOverlap
    ApprovedIsBacked
CHECK_DEADLOCK FALSE
