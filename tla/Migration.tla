------------------------------ MODULE Migration ------------------------------
(***************************************************************************)
(* The schema migration of the SQLite policy store                         *)
(* (internal/policy/sqlite_store.go).  It runs at every start, in several  *)
(* transactions, and the process may stop between any two statements; the  *)
(* version is written last.  Then the store is used.                       *)
(*                                                                         *)
(* db is what the file holds: the schema (columns is how many of the four  *)
(* new columns of devices there are, deviceID whether domain_rules still   *)
(* has device_id), the version row (0: none) and the rows.  A device in    *)
(* nulls has a NULL in a column that was added to its table.               *)
(***************************************************************************)
EXTENDS Integers, Sequences

CONSTANTS
    Devices, Rules,     \* the rows an old database may hold
    MaxStops            \* bound: how often the process stops or a statement fails

ASSUME MigrationAssumption == MaxStops \in Nat

VARIABLES
    db,         \* the committed file
    tx,         \* the open transaction's version of it
    pc,         \* where migrate is
    step,       \* the column or the statement that is next
    version,    \* the variable version of migrate
    stops,
    orig        \* the database as the new program found it

vars == <<db, tx, pc, step, version, stops, orig>>

Latest == 4
Columns == 4
Absent == [present |-> FALSE, secret |-> FALSE, firstBoot |-> FALSE]
NoTable == [exists |-> FALSE, rows |-> {}]

Empty == [tables |-> FALSE, version |-> 0, columns |-> 0, secretColumn |-> FALSE,
          deviceID |-> FALSE, devices |-> {}, nulls |-> {}, rules |-> NoTable,
          rulesNew |-> NoTable, admin |-> Absent]

\* A database that a program of version v left behind.
Old(v, devices, rules, firstBoot) ==
    [tables |-> TRUE, version |-> v, columns |-> IF v >= 2 THEN Columns ELSE 0,
     secretColumn |-> v >= 3, deviceID |-> v < 4, devices |-> devices, nulls |-> {},
     rules |-> [exists |-> TRUE, rows |-> rules], rulesNew |-> NoTable,
     admin |-> [present |-> TRUE, secret |-> v >= 3, firstBoot |-> firstBoot]]

Init ==
    /\ \/ db = Empty
       \/ \E v \in 1..Latest, devices \in SUBSET Devices, rules \in SUBSET Rules,
             firstBoot \in BOOLEAN : db = Old(v, devices, rules, firstBoot)
    /\ orig = db
    /\ tx = db
    /\ pc = "down" /\ step = 1 /\ version = 0 /\ stops = 0

\* A statement outside a transaction commits by itself.
Execute(new) == db' = new /\ tx' = new

\* The base tables in one transaction: tables that are missing get the latest
\* schema, a version row that is missing says 1.
CreateTables ==
    /\ pc = "down"
    /\ Execute([db EXCEPT !.tables = TRUE, !.version = IF @ = 0 THEN 1 ELSE @,
                  !.columns = IF db.tables THEN @ ELSE Columns,
                  !.secretColumn = IF db.tables THEN @ ELSE TRUE,
                  !.rules.exists = TRUE])
    /\ pc' = "read"
    /\ UNCHANGED <<step, version, stops, orig>>

ReadVersion ==
    /\ pc = "read"
    /\ version' = db.version
    /\ pc' = "v2"
    /\ step' = 1
    /\ UNCHANGED <<db, tx, stops, orig>>

AddColumn(d) == [d EXCEPT !.columns = step, !.nulls = d.devices]

\* Mutant: a column that is there is looked for again.
MigrateToV2Again ==
    /\ pc = "v2" /\ version < 2 /\ step <= Columns
    /\ IF db.columns >= step THEN UNCHANGED <<db, tx, step>>
       ELSE Execute(AddColumn(db)) /\ step' = step + 1
    /\ UNCHANGED <<pc, version, stops, orig>>

\* One column of devices; the rows that are there have NULL in it.
MigrateToV2 ==
    /\ pc = "v2" /\ version < 2 /\ step <= Columns
    /\ IF db.columns >= step THEN UNCHANGED <<db, tx>> ELSE Execute(AddColumn(db))
    /\ step' = step + 1
    /\ UNCHANGED <<pc, version, stops, orig>>

\* Mutant: the version is recorded as soon as the columns are there.
MigrateToV3Records ==
    /\ pc = "v2" /\ (version < 2 => step > Columns)
    /\ Execute([db EXCEPT !.secretColumn = TRUE, !.version = Latest])
    /\ pc' = "v4"
    /\ step' = 1
    /\ UNCHANGED <<version, stops, orig>>

MigrateToV3 ==
    /\ pc = "v2" /\ (version < 2 => step > Columns)
    /\ IF version < 3 /\ ~db.secretColumn
       THEN Execute([db EXCEPT !.secretColumn = TRUE]) ELSE UNCHANGED <<db, tx>>
    /\ pc' = "v4"
    /\ step' = 1
    /\ UNCHANGED <<version, stops, orig>>

\* Mutant: the rules are not copied.
V4StatementNoCopy(d, k) ==
    CASE k = 1 -> [d EXCEPT !.rulesNew.exists = TRUE]
      [] k = 2 -> d
      [] k = 3 -> [d EXCEPT !.rules = NoTable]
      [] k = 4 -> [d EXCEPT !.rules = d.rulesNew, !.rulesNew = NoTable, !.deviceID = FALSE]

\* Create domain_rules_new, copy, drop domain_rules, rename.
V4Statement(d, k) ==
    CASE k = 1 -> [d EXCEPT !.rulesNew.exists = TRUE]
      [] k = 2 -> [d EXCEPT !.rulesNew.rows = d.rules.rows]
      [] k = 3 -> [d EXCEPT !.rules = NoTable]
      [] k = 4 -> [d EXCEPT !.rules = d.rulesNew, !.rulesNew = NoTable, !.deviceID = FALSE]

\* Rows that are in domain_rules_new already break its primary key.
V4Breaks(d, k) == k = 2 /\ d.rulesNew.rows \cap d.rules.rows # {}

\* The statements of one transaction.
MigrateToV4 ==
    /\ pc = "v4" /\ version < 4 /\ step <= 4
    /\ IF V4Breaks(tx, step)
       THEN pc' = "refused" /\ tx' = db /\ UNCHANGED step
       ELSE tx' = V4Statement(tx, step) /\ step' = step + 1 /\ pc' = pc
    /\ UNCHANGED <<db, version, stops, orig>>

CommitV4 ==
    /\ pc = "v4" /\ (version < 4 => step > 4)
    /\ db' = tx
    /\ pc' = "admin"
    /\ UNCHANGED <<tx, step, version, stops, orig>>

InsertAdmin ==
    /\ pc = "admin"
    /\ Execute(IF db.admin.present THEN db
               ELSE [db EXCEPT !.admin = [present |-> TRUE, secret |-> TRUE, firstBoot |-> TRUE]])
    /\ pc' = "version"
    /\ UNCHANGED <<step, version, stops, orig>>

\* Mutant: the version is counted up.
WriteVersionNext ==
    /\ pc = "version"
    /\ Execute([db EXCEPT !.version = @ + 1])
    /\ pc' = "open"
    /\ UNCHANGED <<step, version, stops, orig>>

WriteVersion ==
    /\ pc = "version"
    /\ Execute([db EXCEPT !.version = Latest])
    /\ pc' = "open"
    /\ UNCHANGED <<step, version, stops, orig>>

\* Any call of UpdateMutate: snapshotUnsafe skips the rows that do not scan,
\* and stops in the row of the administrator at a secret that is NULL;
\* persist writes back what was read.
UpdateMutate ==
    /\ pc = "open"
    /\ Execute([db EXCEPT !.devices = @ \ db.nulls, !.nulls = {},
                  !.admin = [present |-> TRUE, secret |-> TRUE,
                             firstBoot |-> @.secret /\ @.firstBoot]])
    /\ UNCHANGED <<pc, step, version, stops, orig>>

\* The process stops, or a statement fails and the proxy goes on without the
\* store until it is started again: an open transaction is gone.
Stop ==
    /\ stops < MaxStops
    /\ stops' = stops + 1
    /\ pc # "down"
    /\ pc' = "down"
    /\ tx' = db
    /\ UNCHANGED <<db, step, version, orig>>

Migrate ==
    \/ CreateTables \/ ReadVersion \/ MigrateToV2 \/ MigrateToV3
    \/ MigrateToV4 \/ CommitV4 \/ InsertAdmin \/ WriteVersion

Next == Migrate \/ UpdateMutate \/ Stop

\* migrate runs on when the process is not stopped.
Spec == Init /\ [][Next]_vars /\ WF_vars(Migrate)

-----------------------------------------------------------------------------
Table == [exists : BOOLEAN, rows : SUBSET Rules]
Database ==
    [tables : BOOLEAN, version : 0..Latest, columns : 0..Columns, secretColumn : BOOLEAN,
     deviceID : BOOLEAN, devices : SUBSET Devices, nulls : SUBSET Devices, rules : Table,
     rulesNew : Table,
     admin : [present : BOOLEAN, secret : BOOLEAN, firstBoot : BOOLEAN]]

\* Types of the state; no version beyond the latest one is ever recorded.
TypeOK ==
    /\ db \in Database /\ tx \in Database /\ orig \in Database
    /\ pc \in {"down", "read", "v2", "v4", "admin", "version", "open", "refused"}
    /\ step \in 1..5 /\ version \in 0..Latest /\ stops \in 0..MaxStops

HasLatestSchema(d) ==
    /\ d.tables /\ d.columns = Columns /\ d.secretColumn
    /\ ~d.deviceID /\ d.rules.exists /\ ~d.rulesNew.exists
    /\ d.admin.present

\* The version row is never ahead of the schema: whoever finds the latest
\* version finds every table, column and row it stands for, wherever the
\* migration was interrupted before.
VersionMeansSchema == db.version = Latest => HasLatestSchema(db)

\* The rules of the old database are there after every interrupted or
\* complete migration, and while the store is used.
RulesSurvive == db.tables => db.rules = [exists |-> TRUE, rows |-> orig.rules.rows]

\* However often it is interrupted, the migration ends in a store that is
\* open: no statement fails because of what an interrupted migration left.
Opens == <>[](pc = "open")

\* What the old database says about devices is not lost: UpdateMutate writes
\* back what it loaded.
DevicesSurvive == orig.devices \subseteq db.devices
=============================================================================
