SPECIFICATION PagesSpec
CONSTANTS
    Drafts = {"d1", "d2"}
    Raffles = {"r", "other"}
    RaffleOf <- MCRaffleOf
    NetworkOf <- MCNetworkOf
    Users = {"u"}
    Validators = {"v1", "v2"}
    Settlers = {"s1", "s2"}
    Checkouts = {"c1", "c2"}
    TokenOf <- MCTokenOf
    Engagements = {0, 1000}
    Tiers = {1010, 1150}
    Batch = 1
    MaxTickets = 1
    Bounds <- MCBounds
    None = None
INVARIANTS
    GrantIsEarned
    ScoreIsBacked
    RedeemedOnce
    PromotionPagesAgree
PROPERTIES
    SettlementIsFinal
    ClosedPostIsResolved
CHECK_DEADLOCK FALSE
