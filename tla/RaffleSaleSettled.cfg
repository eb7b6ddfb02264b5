SPECIFICATION FairSpec
CONSTANTS
    n1 = n1
    n2 = n2
    n3 = n3
    n4 = n4
    h1 = h1
    h2 = h2
    c1 = c1
    c2 = c2
    Raffles = {"r"}
    Numbers = {n1, n2}
    Users = {"v", "a", "b"}
    SellerOf <- MCSellerOf
    Handlers = {h1}
    Crons = {c1}
    Fallible = {h1}
    Prices = {10, 15}
    FeePercent = 10
    PremiumPercent = 10
    PackBonuses <- NoPacks
    Discounts = {3}
    InitBalance = 21
    InitPayable = 15
    MaxExtensions = 1
    MaxRejections = 1
    NoOne = "no one"
PROPERTY
    FullRaffleIsSettled
CHECK_DEADLOCK FALSE
