SPECIFICATION Spec
CONSTANTS
    Devices = {d1}
    Rules = {r1, r2}
    MaxStops = 3
INVARIANTS
    TypeOK
    VersionMeansSchema
    RulesSurvive
PROPERTY Opens
