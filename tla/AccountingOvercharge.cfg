\* One request at a time, SQLite store: a session closed by the idle timeout.
CONSTANTS
    Users = {u1}
    Goroutines = {g1}
    Budgets = {0}
    IdleTimeout = 2
    DayLength = 4
    FracPerSecond = 2
    Backend = "sqlite"
    MaxSecond = 6
    MaxUsage = 12
SPECIFICATION Spec
INVARIANT NeverOvercharged
