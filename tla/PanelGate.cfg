SPECIFICATION FairSpec
CONSTANTS
    Requests = {r1, r2, r3, r4}
    Origins = {o1, o2}
    Limits = {1, 2}
INVARIANTS BudgetKept SlotsAccounted NoGhostInQueue
PROPERTIES SlotsReturn ImplementsBudget
CHECK_DEADLOCK FALSE
