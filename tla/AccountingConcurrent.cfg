\* Two requests of one user in flight, JSON store.
CONSTANTS
    Users = {u1}
    Goroutines = {g1, g2}
    Budgets = {0, 2}
    IdleTimeout = 1
    DayLength = 3
    FracPerSecond = 1
    Backend = "json"
    MaxSecond = 4
    MaxUsage = 2
SPECIFICATION Spec
PROPERTIES FreshDayAdmits
