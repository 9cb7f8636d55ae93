\* Two callers, three mutations, two tables.
CONSTANTS
    Callers = {c1, c2}
    Mutations = {m1, m2, m3}
    NumTables = 2
SPECIFICATION Spec
SYMMETRY Symmetry
INVARIANTS AckedSurvive PartialOnlyAfterError MemoryAheadOnlyByErrors
