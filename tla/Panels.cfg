SPECIFICATION PanelsSpec
CONSTANTS
    n1 = n1
    n2 = n2
    n3 = n3
    n4 = n4
    h1 = h1
    h2 = h2
    c1 = c1
    c2 = c2
    Raffles = {"r"}
    Numbers = {n1, n2, n3, n4}
    Users = {"v", "a", "b"}
    SellerOf <- MCSellerOf
    Handlers = {h1, h2}
    Crons = {c1}
    Fallible = {h1, h2, c1}
    Prices = {10}
    FeePercent = 10
    PremiumPercent = 10
    PackBonuses <- MCPack
    Discounts = {0}
    InitBalance = 21
    InitPayable = 1
    MaxExtensions = 0
    MaxRejections = 1
    NoOne = "no one"
SYMMETRY Symmetric
INVARIANTS
    MoneyConserved
    RefundsMatchTickets
    LimitRespected
    WinnerMatchesDraw
    DrawnRaffleIsClosed
    PanelsAgree
PROPERTY
    KeepsSalePromise
CHECK_DEADLOCK FALSE
