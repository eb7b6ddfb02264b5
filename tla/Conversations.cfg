SPECIFICATION FairSpec
CONSTANTS
    t1 = t1
    t2 = t2
    Tabs = {t1, t2}
    Budgets <- MCBudgets
    MaxMessages = 2
    MaxQuestions = 1
PROPERTIES
    TalkArrives
CHECK_DEADLOCK FALSE
