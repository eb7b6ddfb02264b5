SPECIFICATION FairSpec
CONSTANTS
    h1 = h1
    h2 = h2
    c1 = c1
    Raffles = {"r"}
    Sellers = {"v"}
    SellerOf <- MCSellerOf
    Handlers = {h1, h2}
    Crons = {c1}
    Fallible = {}
    TicketPrice = 2
    WinnerTickets = 1
    NetAmount = 2
    InitPayable <- MCPayable
    MaxReversals = 1
    MaxActive = 2
INVARIANT
    OrdersMoveOn
PROPERTY
    ConfirmedIsPaidOut
CHECK_DEADLOCK FALSE
