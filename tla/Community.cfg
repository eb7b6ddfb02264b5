SPECIFICATION Spec
CONSTANTS
    t1 = t1
    t2 = t2
    n1 = n1
    n2 = n2
    n3 = n3
    Tabs = {t1, t2}
    Budgets <- MCBudgets
    MAX_ADDRESSES = 2
    MaxCreated = 4
    Reporters = {1, 2}
    AUTO_HIDE_THRESHOLD = 2
    MaxRaffles = 5
    NUEVO = 1
    BRONCE = 2
    BronceSales = 1
    Buyers = {1, 2}
    TabUsers <- MCTabUsers
    Numbers = {n1, n2, n3}
    MAX_TICKETS = 2
    PackBonuses <- MCPackBonuses
    Prices = {2, 3}
    DiscountPercent = 50
    MaxDiscount = 2
    PremiumPercent = 50
    FallbackPercent = 60
    InitialCredit = 8
SYMMETRY Symmetric
INVARIANTS
    SellerRecordsAgree
    ModerationHolds
    ActiveWithinLimit
    SalesAreNotInflated
    CachedListIsCurrent
    ChargedAsShown
    HeartTellsTheTruth
PROPERTIES
    VerifiedIsKept
CHECK_DEADLOCK FALSE
