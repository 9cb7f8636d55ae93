\* Two callers, three mutations, four tables, two of which may be unreadable.
CONSTANTS
    Callers = {c1, c2}
    Mutations = {m1, m2, m3}
    NumTables = 4
    Unreadable = {3, 4}
SPECIFICATION Spec
PROPERTIES ImplementsPolicyStore OnlyUnreadTablesLose
