\* One request at a time, SQLite store.
CONSTANTS
    Users = {u1}
    Goroutines = {g1}
    Budgets = {0, 3}
    IdleTimeout = 2
    DayLength = 7
    FracPerSecond = 2
    Backend = "sqlite"
    MaxSecond = 9
    MaxUsage = 12
SPECIFICATION Spec
INVARIANTS FullyCharged ChargedAtMostTwice
PROPERTIES BudgetEnforced
