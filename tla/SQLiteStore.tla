----------------------------- MODULE SQLiteStore -----------------------------
(***************************************************************************)
(* The SQLite store (internal/policy/sqlite_store.go): UpdateMutate loads  *)
(* the tables under the mutex, runs the caller's function on the copy and  *)
(* writes every table back in one transaction, emptying it first.  Any     *)
(* statement may fail and the process may stop between any two of them.    *)
(* A query that fails while the tables are loaded goes unnoticed: its      *)
(* table is taken to be empty.  SQLite itself is external: an uncommitted  *)
(* transaction leaves no trace, and one whose commit failed is over.       *)
(***************************************************************************)
EXTENDS Integers

CONSTANTS
    Callers,        \* goroutines that call the store
    Mutations,      \* functions passed to UpdateMutate
    NumTables,      \* tables of policy.Data
    Unreadable      \* tables whose SELECT may fail

ASSUME TablesAssumption == NumTables \in Nat \ {0}
ASSUME UnreadableAssumption == Unreadable \subseteq 1..NumTables
ASSUME CallersAssumption == "none" \notin Callers

VARIABLES
    db,         \* committed tables
    tx,         \* tables as the open transaction sees them
    mu,         \* who holds the store's mutex
    call,       \* caller -> progress of its UpdateMutate
    outcome     \* caller -> what its last call returned

vars == <<db, tx, mu, call, outcome>>

Tables == 1..NumTables
Empty == [t \in Tables |-> {}]
With(d, m) == [t \in Tables |-> d[t] \cup {m}]
None == "none"
Idle == [pc |-> "idle"]

\* A caller returns from UpdateMutate: the deferred Unlock runs.
Return(c, result) ==
    /\ mu' = None
    /\ call' = [call EXCEPT ![c] = Idle]
    /\ outcome' = [outcome EXCEPT ![c] = result]

-----------------------------------------------------------------------------
Init ==
    /\ db = Empty
    /\ tx = Empty
    /\ mu = None
    /\ call = [c \in Callers |-> Idle]
    /\ outcome = [c \in Callers |-> "none"]

\* snapshotUnsafe: the tables as read, empty where the query failed.
Snapshot(unread) == [t \in Tables |-> IF t \in unread THEN {} ELSE db[t]]

\* Mutant: the tables are loaded without the mutex.
LoadUnlocked(c, m, unread) ==
    /\ call[c] = Idle
    /\ mu' = c
    /\ call' = [call EXCEPT ![c] =
          [pc |-> "fn", m |-> m, data |-> Snapshot(unread), table |-> 1,
           unread |-> unread]]
    /\ outcome' = [outcome EXCEPT ![c] = "none"]
    /\ UNCHANGED <<db, tx>>

\* Lock and snapshotUnsafe.  Which queries failed is remembered for a property.
Load(c, m, unread) ==
    /\ call[c] = Idle
    /\ mu = None
    /\ mu' = c
    /\ call' = [call EXCEPT ![c] =
          [pc |-> "fn", m |-> m, data |-> Snapshot(unread), table |-> 1,
           unread |-> unread]]
    /\ outcome' = [outcome EXCEPT ![c] = "none"]
    /\ UNCHANGED <<db, tx>>

\* fn succeeds on the copy and persist opens a transaction.
Apply(c) ==
    /\ call[c].pc = "fn"
    /\ call' = [call EXCEPT
          ![c].pc = "clear", ![c].data = With(call[c].data, call[c].m)]
    /\ tx' = db
    /\ UNCHANGED <<db, mu, outcome>>

\* fn returns an error, having changed any part of the copy, or the transaction
\* cannot be opened.
ApplyFails(c) ==
    /\ call[c].pc = "fn"
    /\ Return(c, "error")
    /\ UNCHANGED <<db, tx>>

\* DELETE FROM a table.
Clear(c) ==
    /\ call[c].pc = "clear"
    /\ tx' = [tx EXCEPT ![call[c].table] = {}]
    /\ call' = [call EXCEPT ![c].pc = "insert"]
    /\ UNCHANGED <<db, mu, outcome>>

\* INSERT the rows of the copy, and go on to the next table or to the commit.
Insert(c) ==
    /\ call[c].pc = "insert"
    /\ tx' = [tx EXCEPT ![call[c].table] = call[c].data[call[c].table]]
    /\ call' = IF call[c].table < NumTables
                THEN [call EXCEPT ![c].pc = "clear", ![c].table = call[c].table + 1]
                ELSE [call EXCEPT ![c].pc = "commit"]
    /\ UNCHANGED <<db, mu, outcome>>

\* Mutant: a failing statement leaves what was written before it.
StatementFailsKept(c) ==
    /\ call[c].pc \in {"clear", "insert"}
    /\ db' = tx
    /\ tx' = Empty
    /\ Return(c, "error")

\* A statement fails (a duplicate key, a full disk): the deferred Rollback runs.
StatementFails(c) ==
    /\ call[c].pc \in {"clear", "insert"}
    /\ tx' = Empty
    /\ Return(c, "error")
    /\ UNCHANGED db

\* Commit.
Commit(c) ==
    /\ call[c].pc = "commit"
    /\ db' = tx
    /\ tx' = Empty
    /\ Return(c, "ok")

\* Commit fails.  Its error is returned without being assigned to err, so no
\* Rollback follows: that the transaction is over is left to the driver.
CommitFails(c) ==
    /\ call[c].pc = "commit"
    /\ tx' = Empty
    /\ Return(c, "error")
    /\ UNCHANGED db

\* The process stops at any point and OpenSQLite finds what was committed.
Restart ==
    /\ tx' = Empty
    /\ mu' = None
    /\ call' = [c \in Callers |-> Idle]
    /\ outcome' = [c \in Callers |-> "none"]
    /\ UNCHANGED db

\* initPolicyLayer with -factory-reset removes the file before opening it.
Reset ==
    /\ db' = Empty
    /\ tx' = Empty
    /\ mu' = None
    /\ call' = [c \in Callers |-> Idle]
    /\ outcome' = [c \in Callers |-> "none"]

Next ==
    \/ \E c \in Callers, m \in Mutations, unread \in SUBSET Unreadable : Load(c, m, unread)
    \/ \E c \in Callers :
          \/ Apply(c) \/ ApplyFails(c)
          \/ Clear(c) \/ Insert(c) \/ StatementFails(c) \/ Commit(c) \/ CommitFails(c)
    \/ Restart
    \/ Reset

Spec == Init /\ [][Next]_vars

-----------------------------------------------------------------------------
Running == [pc : {"fn", "clear", "insert", "commit"}, m : Mutations,
            data : [Tables -> SUBSET Mutations], table : Tables,
            unread : SUBSET Unreadable]

\* Types of the state.
TypeOK ==
    /\ db \in [Tables -> SUBSET Mutations]
    /\ tx \in [Tables -> SUBSET Mutations]
    /\ mu \in Callers \cup {None}
    /\ call \in [Callers -> Running \cup {Idle}]
    /\ outcome \in [Callers -> {"none", "ok", "error"}]

\* Only the holder of the mutex is inside UpdateMutate.  Its copy is the
\* committed data, with the mutation once fn has run (the tables whose query
\* failed excepted, which are taken to be empty), and the transaction has the copy
\* in the tables written so far: two mutations never overlap.
Exclusive ==
    \A c \in Callers : call[c] # Idle =>
        /\ mu = c
        /\ call[c].pc = "fn" => call[c].table = 1
        /\ \A t \in Tables :
              call[c].data[t] = (IF t \in call[c].unread THEN {} ELSE db[t])
                                    \cup (IF call[c].pc = "fn" THEN {} ELSE {call[c].m})
        /\ \A t \in Tables :
              call[c].pc = "commit" \/ (call[c].pc # "fn" /\ t < call[c].table)
                  => tx[t] = call[c].data[t]

\* The tables whose queries do not fail.
Readable == Tables \ Unreadable

\* The tables of the database that can be read belong together: they contain
\* the same mutations, each of them in full, whatever statement fails and
\* whenever the process stops.
TablesAgree == \A s, t \in Readable : db[s] = db[t]

\* Seen through the tables that can be read, the committed data and the results
\* callers get behave as the abstract store: a mutation takes effect in all of
\* them at its commit and not at all otherwise, and none is lost.
Abstract == INSTANCE PolicyStore WITH
    Tables <- Readable, data <- [t \in Readable |-> db[t]]

\* UpdateMutate on SQLite implements the abstract store in the tables that can be
\* read.
ImplementsPolicyStore == Abstract!Spec

\* Only an unread table is emptied.  UpdateMutate "loads current data, applies fn,
\* and writes back transactionally" (sqlite_store.go:339), but snapshotUnsafe
\* ignores a failing query (line 234), and the commit then erases that table but
\* for the caller's own mutation.  Nothing else loses what was committed, besides a
\* factory reset: no overlap of two calls, no failing statement, no failing commit,
\* and no table but one whose own query failed in the very call that commits.
OnlyUnreadTablesLose ==
    [][ \/ Reset
        \/ \A t \in Tables :
              \/ db[t] \subseteq db'[t]
              \/ \E c \in Callers :
                    Commit(c) /\ t \in call[c].unread /\ db'[t] = {call[c].m} ]_vars
=============================================================================
