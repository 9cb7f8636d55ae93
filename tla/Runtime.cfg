\* Two requests, one writer, one SIGHUP.
CONSTANTS
    Handlers = {h1, h2}
    Writers = {w1}
    RefreshPeriod = 0
    CompileTime = 0
    MaxVersion = 1
    MaxTime = 1
    MaxReloads = 1
SPECIFICATION FairSpec
INVARIANTS NotifiedChangesApply BoundedStaleness
PROPERTIES ChangesReachTheRuntime
