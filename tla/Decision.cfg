SPECIFICATION Spec
CONSTANTS
    MinutesPerDay = 4
    ZoneShift = 3
    Inputs <- MCInputs
INVARIANTS
    WildcardMatches
    OrderDoesNotMatter
    SpansAgree
    WindowIsAStretch
    ValidatedRulesEvaluate
    ConfigBlockStands
    DanglingOwnerHarmless
    ReasonHolds
    BlockedAnswerIsClosed
    EngineFollowsConfig
