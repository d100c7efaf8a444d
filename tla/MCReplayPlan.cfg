CONSTANTS
    Items <- MCItems
    Clocks <- MCClocks
    MaxLen = 4
    Horizon = 1
SPECIFICATION Spec
INVARIANTS
    OneTurnPerChat
    BudgetGoesToTheNewest
PROPERTY PlanMatchesPositions
CHECK_DEADLOCK FALSE
