SPECIFICATION Spec
CONSTANTS
    Clients = {c1, c2}
    Passwords = {p1, p2}
    TokenTTL = 0
    SessionTTL = 1
    MaxTime = 2
    MaxLogins = 2
    MaxEdits = 1
    MaxRestarts = 1
SYMMETRY Symmetry
INVARIANTS
    TypeOK
    FirstBootGate
    PasswordChangeSticks
    ServedAfterLogin
    LoggedOutStaysOut
CHECK_DEADLOCK FALSE
