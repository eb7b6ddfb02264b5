SPECIFICATION Spec
CONSTANTS
    h1 = h1
    h2 = h2
    c1 = c1
    Raffles = {"r"}
    Sellers = {"v"}
    SellerOf <- MCSellerOf
    Handlers = {h1, h2}
    Crons = {c1}
    Fallible = {h1, h2, c1}
    TicketPrice = 2
    WinnerTickets = 1
    NetAmount = 2
    InitPayable <- MCPayable
    MaxReversals = 1
    MaxActive = 2
SYMMETRY Symmetric
INVARIANTS
    BuyerProtection
    RefundsCoverTickets
    DebitsBoundedByOverlap
PROPERTY
    KeepsOrderPromise
CHECK_DEADLOCK FALSE
