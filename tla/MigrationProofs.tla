--------------------------- MODULE MigrationProofs ---------------------------
(***************************************************************************)
(* Proofs about the schema migration, for any rows and any number of       *)
(* interruptions.  Both invariants speak of the committed file; they are   *)
(* kept by what each version row promises (SchemaOfVersion), by what the   *)
(* steps before the present one have done (Progress), and by what the open *)
(* transaction of the last migration has made of the file (Transaction).   *)
(***************************************************************************)
EXTENDS Migration, TLAPS

\* Before its tables are created a file is empty.
Fresh == ~db.tables => pc = "down" /\ db = Empty /\ orig = Empty

\* What a version row promises of the schema, and what may be more.
SchemaOfVersion ==
    db.tables =>
        /\ db.version >= 1
        /\ db.version >= 2 => db.columns = Columns
        /\ db.version >= 3 => db.secretColumn
        /\ db.version >= 4 => ~db.deviceID /\ db.admin.present

\* The table of the last migration is only in the transaction.
NoTableLeft == db.rulesNew = NoTable

\* What migrate has done when it is at pc.
Progress ==
    /\ pc \in {"v2", "v4", "admin", "version"} => version = db.version
    /\ pc = "v2" /\ version < 2 => step <= db.columns + 1
    /\ pc \in {"v4", "admin", "version"} => db.columns = Columns /\ db.secretColumn
    /\ pc \in {"admin", "version"} => ~db.deviceID
    /\ pc = "version" => db.admin.present
    /\ pc = "open" => db.version = Latest
    /\ pc # "refused"

\* The file as the transaction shows it before its next statement; only the
\* tables of the rules and the old column differ.
Staged(rules, rulesNew, deviceID) ==
    tx.rules = rules /\ tx.rulesNew = rulesNew /\ tx.deviceID = deviceID

Statements ==
    /\ step = 1 => Staged(db.rules, NoTable, db.deviceID)
    /\ step = 2 => Staged(db.rules, [exists |-> TRUE, rows |-> {}], db.deviceID)
    /\ step = 3 => Staged(db.rules, db.rules, db.deviceID)
    /\ step = 4 => Staged(NoTable, db.rules, db.deviceID)
    /\ step = 5 => Staged(db.rules, NoTable, FALSE)

SameApart(d, e) ==
    /\ d.tables = e.tables /\ d.version = e.version /\ d.columns = e.columns
    /\ d.secretColumn = e.secretColumn /\ d.admin = e.admin
    /\ d.devices = e.devices /\ d.nulls = e.nulls

Transaction ==
    IF pc = "v4" THEN SameApart(tx, db) /\ Statements /\ (version >= 4 => step = 1)
    ELSE tx = db

Inv ==
    /\ TypeOK /\ Fresh /\ SchemaOfVersion /\ RulesSurvive /\ NoTableLeft
    /\ Progress /\ Transaction

LEMMA InitInv ==
    Init => Inv
  <1> SUFFICES ASSUME Init PROVE Inv
    OBVIOUS
  <1>1. CASE db = Empty
    <2>1. db \in Database
      BY <1>1 DEF Empty, Database, NoTable, Table, Absent, Latest, Columns
    <2> QED
      BY <1>1, <2>1, MigrationAssumption
      DEF Init, Inv, TypeOK, Fresh, SchemaOfVersion, RulesSurvive, NoTableLeft, Progress,
          Transaction, Empty, Latest
  <1>2. ASSUME NEW v \in 1..Latest, NEW devices \in SUBSET Devices, NEW rules \in SUBSET Rules,
               NEW firstBoot \in BOOLEAN, db = Old(v, devices, rules, firstBoot)
        PROVE  Inv
    <2>1. v \in 1..4 /\ v \in 0..Latest
      BY DEF Latest
    <2>2. db \in Database
      <3>1. (v >= 3) \in BOOLEAN /\ (v < 4) \in BOOLEAN
        BY <2>1
      <3>2. (IF v >= 2 THEN Columns ELSE 0) \in 0..Columns
        BY DEF Columns
      <3> QED
        BY <1>2, <2>1, <3>1, <3>2 DEF Old, Database, NoTable, Table
    <2>3. /\ db.tables /\ db.version = v /\ db.rules = [exists |-> TRUE, rows |-> rules]
          /\ db.rulesNew = NoTable /\ db.admin.present
      BY <1>2 DEF Old
    <2>4. SchemaOfVersion
      <3>1. /\ db.columns = IF v >= 2 THEN Columns ELSE 0
            /\ db.secretColumn <=> v >= 3
            /\ db.deviceID <=> v < 4
        BY <1>2 DEF Old
      <3> QED
        BY <2>1, <2>3, <3>1 DEF SchemaOfVersion
    <2> QED
      BY <2>2, <2>3, <2>4, MigrationAssumption
      DEF Init, Inv, TypeOK, Fresh, RulesSurvive, NoTableLeft, Progress, Transaction, Latest
  <1> QED
    BY <1>1, <1>2 DEF Init

-----------------------------------------------------------------------------
LEMMA CreateTablesStep ==
    ASSUME Inv, CreateTables PROVE Inv'
  <1> DEFINE new == [db EXCEPT !.tables = TRUE, !.version = IF @ = 0 THEN 1 ELSE @,
                       !.columns = IF db.tables THEN @ ELSE Columns,
                       !.secretColumn = IF db.tables THEN @ ELSE TRUE,
                       !.rules.exists = TRUE]
  <1>1. db' = new /\ tx' = new /\ pc = "down" /\ pc' = "read" /\ UNCHANGED <<step, version, stops, orig>>
    BY DEF CreateTables, Execute
  <1>2. db \in Database /\ TypeOK
    BY DEF Inv, TypeOK
  <1>3. /\ (IF db.version = 0 THEN 1 ELSE db.version) \in 0..Latest
        /\ (IF db.tables THEN db.columns ELSE Columns) \in 0..Columns
        /\ (IF db.tables THEN db.secretColumn ELSE TRUE) \in BOOLEAN
    <2>1. db.version \in 0..4 /\ db.columns \in 0..4 /\ db.secretColumn \in BOOLEAN
      BY <1>2 DEF Database, Latest, Columns
    <2>2. (IF db.version = 0 THEN 1 ELSE db.version) \in 0..4
      BY <2>1
    <2>3. (IF db.tables THEN db.columns ELSE 4) \in 0..4
      BY <2>1
    <2> QED
      BY <2>1, <2>2, <2>3 DEF Latest, Columns
  <1>4. new \in Database
    BY <1>2, <1>3 DEF Database, Table
  <1>5. TypeOK'
    BY <1>1, <1>2, <1>4 DEF TypeOK
  <1>6. /\ new.tables /\ new.rulesNew = db.rulesNew
        /\ new.rules = [exists |-> TRUE, rows |-> db.rules.rows]
        /\ new.version = IF db.version = 0 THEN 1 ELSE db.version
        /\ new.columns = IF db.tables THEN db.columns ELSE Columns
        /\ new.secretColumn = IF db.tables THEN db.secretColumn ELSE TRUE
        /\ new.deviceID = db.deviceID /\ new.admin = db.admin
    BY <1>2 DEF Database, Table
  <1> HIDE DEF new
  <1>7. CASE db.tables
    <2>1. db.version \in 1..4 /\ new.version = db.version
      BY <1>2, <1>6, <1>7 DEF Inv, SchemaOfVersion, Database, Latest
    <2>2. SchemaOfVersion'
      BY <1>1, <1>6, <1>7, <2>1 DEF Inv, SchemaOfVersion
    <2>3. RulesSurvive'
      <3>1. db.rules = [exists |-> TRUE, rows |-> orig.rules.rows]
        BY <1>7 DEF Inv, RulesSurvive
      <3>2. db.rules.rows = orig.rules.rows
        BY <3>1
      <3> QED
        BY <1>1, <1>6, <3>2 DEF RulesSurvive
    <2> QED
      BY <1>1, <1>5, <1>6, <2>2, <2>3
      DEF Inv, Fresh, NoTableLeft, Progress, Transaction
  <1>8. CASE ~db.tables
    <2>1. db = Empty /\ orig = Empty
      BY <1>8 DEF Inv, Fresh
    <2>2. new.version = 1 /\ new.rules = [exists |-> TRUE, rows |-> {}] /\ orig.rules.rows = {}
      BY <1>6, <2>1 DEF Empty, NoTable
    <2>3. SchemaOfVersion'
      BY <1>1, <2>2 DEF SchemaOfVersion
    <2> QED
      BY <1>1, <1>5, <1>6, <2>2, <2>3
      DEF Inv, Fresh, RulesSurvive, NoTableLeft, Progress, Transaction
  <1> QED
    BY <1>2, <1>7, <1>8 DEF Database

LEMMA ReadVersionStep ==
    ASSUME Inv, ReadVersion PROVE Inv'
  <1>1. db.version \in 0..Latest /\ 1 \in 1..5 /\ db.columns \in Nat
    BY DEF Inv, TypeOK, Database, Columns
  <1>2. TypeOK'
    BY <1>1 DEF Inv, TypeOK, ReadVersion
  <1>3. 1 <= db.columns + 1
    BY <1>1
  <1> QED
    BY <1>2, <1>3
    DEF Inv, ReadVersion, Fresh, SchemaOfVersion, RulesSurvive, NoTableLeft, Progress, Transaction

\* A statement outside the transaction that leaves the tables of the rules,
\* the version and the old column alone, and takes no part of the schema away.
LEMMA SchemaGrows ==
    ASSUME Inv, NEW new \in Database,
           db' = new, tx' = new, UNCHANGED <<version, stops, orig>>,
           pc \notin {"down", "v4"}, pc' \in {"v2", "v4", "admin", "version", "open"},
           step' \in 1..5, pc' = "v4" => step' = 1,
           /\ new.tables = db.tables /\ new.version = db.version /\ new.deviceID = db.deviceID
           /\ new.rules = db.rules /\ new.rulesNew = db.rulesNew,
           db.columns = Columns => new.columns = Columns,
           db.secretColumn => new.secretColumn,
           db.admin.present => new.admin.present,
           Progress'
    PROVE  Inv'
  <1>1. TypeOK'
    BY DEF Inv, TypeOK
  <1>2. Fresh' /\ SchemaOfVersion' /\ RulesSurvive' /\ NoTableLeft'
    BY DEF Inv, Fresh, SchemaOfVersion, RulesSurvive, NoTableLeft
  <1>3. Transaction'
    BY DEF Inv, NoTableLeft, Transaction, SameApart, Statements, Staged
  <1> QED
    BY <1>1, <1>2, <1>3 DEF Inv

LEMMA MigrateToV2Step ==
    ASSUME Inv, MigrateToV2 PROVE Inv'
  <1>1. /\ db \in Database /\ db.columns \in 0..4 /\ step \in 1..4 /\ step' = step + 1
        /\ pc = "v2" /\ pc' = "v2" /\ version < 2 /\ tx = db
        /\ version = db.version /\ step <= db.columns + 1
        /\ UNCHANGED <<version, stops, orig>>
    BY DEF Inv, TypeOK, Database, Columns, MigrateToV2, Progress, Transaction
  <1>2. step' \in 1..5
    BY <1>1
  <1>3. CASE db.columns >= step
    <2>1. db' = db /\ tx' = db
      BY <1>1, <1>3 DEF MigrateToV2
    <2>2. step' <= db.columns + 1
      BY <1>1, <1>3
    <2>3. Progress'
      BY <1>1, <2>1, <2>2 DEF Progress
    <2> QED
      BY <1>1, <1>2, <2>1, <2>3, SchemaGrows
  <1>4. CASE ~(db.columns >= step)
    <2> DEFINE new == AddColumn(db)
    <2>1. db' = new /\ tx' = new
      BY <1>4 DEF MigrateToV2, Execute
    <2>2. step \in 0..Columns
      BY <1>1 DEF Columns
    <2>3. new \in Database
      BY <1>1, <2>2 DEF AddColumn, Database
    <2>4. /\ new.tables = db.tables /\ new.version = db.version /\ new.deviceID = db.deviceID
          /\ new.rules = db.rules /\ new.rulesNew = db.rulesNew /\ new.columns = step
          /\ new.secretColumn = db.secretColumn /\ new.admin = db.admin
      BY <1>1 DEF AddColumn, Database
    <2> HIDE DEF new
    <2>5. step' <= new.columns + 1 /\ db.columns # Columns
      BY <1>1, <1>4, <2>4 DEF Columns
    <2>6. Progress'
      BY <1>1, <2>1, <2>4, <2>5 DEF Progress
    <2> QED
      BY <1>1, <1>2, <2>1, <2>3, <2>4, <2>5, <2>6, SchemaGrows
  <1> QED
    BY <1>3, <1>4

LEMMA MigrateToV3Step ==
    ASSUME Inv, MigrateToV3 PROVE Inv'
  <1>1. /\ db \in Database /\ db.columns \in 0..4 /\ step \in 1..5 /\ step' = 1 /\ step' \in 1..5 /\ db.version \in 0..4
        /\ pc = "v2" /\ pc' = "v4" /\ tx = db /\ version = db.version /\ db.tables
        /\ UNCHANGED <<version, stops, orig>>
    BY DEF Inv, TypeOK, Database, Columns, Latest, MigrateToV3, Progress, Transaction, Fresh
  <1>2. db.columns = Columns
    <2>1. CASE version < 2
      <3>1. step > 4 /\ step <= db.columns + 1
        BY <1>1, <2>1 DEF MigrateToV3, Inv, Progress, Columns
      <3> QED
        BY <1>1, <3>1 DEF Columns
    <2>2. CASE ~(version < 2)
      BY <1>1, <2>2 DEF Inv, SchemaOfVersion
    <2> QED
      BY <2>1, <2>2
  <1>3. CASE version < 3 /\ ~db.secretColumn
    <2> DEFINE new == [db EXCEPT !.secretColumn = TRUE]
    <2>1. db' = new /\ tx' = new
      BY <1>3 DEF MigrateToV3, Execute
    <2>2. new \in Database
      BY <1>1 DEF Database
    <2>3. /\ new.tables = db.tables /\ new.version = db.version /\ new.deviceID = db.deviceID
          /\ new.rules = db.rules /\ new.rulesNew = db.rulesNew /\ new.columns = db.columns
          /\ new.secretColumn /\ new.admin = db.admin
      BY <1>1 DEF Database
    <2> HIDE DEF new
    <2>4. Progress'
      BY <1>1, <1>2, <2>1, <2>3 DEF Progress
    <2> QED
      BY <1>1, <2>1, <2>2, <2>3, <2>4, SchemaGrows
  <1>4. CASE ~(version < 3 /\ ~db.secretColumn)
    <2>1. db' = db /\ tx' = db
      BY <1>1, <1>4 DEF MigrateToV3
    <2>2. db.secretColumn
      BY <1>1, <1>4 DEF Inv, SchemaOfVersion
    <2>3. Progress'
      BY <1>1, <1>2, <2>1, <2>2 DEF Progress
    <2> QED
      BY <1>1, <2>1, <2>3, SchemaGrows
  <1> QED
    BY <1>3, <1>4

LEMMA TablesEqual ==
    ASSUME NEW s \in Table, NEW t \in Table, s.exists = t.exists, s.rows = t.rows
    PROVE  s = t
  BY DEF Table

\* The transaction's statements do to the file what Statements says, and none
\* of them breaks: the table they create was never left behind.
LEMMA MigrateToV4Step ==
    ASSUME Inv, MigrateToV4 PROVE Inv'
  <1>1. /\ db \in Database /\ tx \in Database /\ step \in 1..4 /\ pc = "v4" /\ version < 4 /\ db.tables
        /\ SameApart(tx, db) /\ Statements
        /\ UNCHANGED <<db, version, stops, orig>>
    BY DEF Inv, TypeOK, MigrateToV4, Transaction, Fresh
  <1>2. db.rules.exists = TRUE /\ db.rules \in Table /\ db.deviceID \in BOOLEAN
    BY <1>1 DEF Inv, RulesSurvive, Database
  <1>3. /\ NoTable \in Table /\ [exists |-> TRUE, rows |-> {}] \in Table
        /\ [NoTable EXCEPT !.exists = TRUE] = [exists |-> TRUE, rows |-> {}]
        /\ [[exists |-> TRUE, rows |-> {}] EXCEPT !.rows = db.rules.rows] = db.rules
    <2>1. NoTable \in Table /\ [exists |-> TRUE, rows |-> {}] \in Table
      BY DEF NoTable, Table
    <2>2. [NoTable EXCEPT !.exists = TRUE] = [exists |-> TRUE, rows |-> {}]
      <3> DEFINE t == [NoTable EXCEPT !.exists = TRUE]
      <3>1. t \in Table /\ t.exists = TRUE /\ t.rows = {}
        BY <2>1 DEF NoTable, Table
      <3> QED
        BY <2>1, <3>1, TablesEqual
    <2>3. [[exists |-> TRUE, rows |-> {}] EXCEPT !.rows = db.rules.rows] = db.rules
      <3> DEFINE t == [[exists |-> TRUE, rows |-> {}] EXCEPT !.rows = db.rules.rows]
      <3>1. t \in Table /\ t.exists = TRUE /\ t.rows = db.rules.rows
        BY <1>2, <2>1 DEF Table
      <3> QED
        BY <1>2, <3>1, TablesEqual
    <2> QED
      BY <2>1, <2>2, <2>3
  <1>4. ~V4Breaks(tx, step)
    BY <1>1 DEF V4Breaks, Statements, Staged
  <1>5. tx' = V4Statement(tx, step) /\ step' = step + 1 /\ pc' = "v4" /\ step' \in 2..5
    BY <1>1, <1>4 DEF MigrateToV4
  <1>6. SameApart(tx', db) /\ Statements' /\ tx' \in Database
    <2>1. CASE step = 1
      <3>1. tx' = [tx EXCEPT !.rulesNew = [tx.rulesNew EXCEPT !.exists = TRUE]]
        BY <1>5, <2>1 DEF V4Statement
      <3>2. tx.rules = db.rules /\ tx.rulesNew = NoTable /\ tx.deviceID = db.deviceID /\ step' = 2
        BY <1>1, <1>5, <2>1 DEF Statements, Staged
      <3>3. tx' \in Database
        BY <1>1, <1>3, <3>1, <3>2 DEF Database
      <3>4. SameApart(tx', tx)
        BY <1>1, <3>1 DEF SameApart, Database
      <3>5. tx'.rules = tx.rules /\ tx'.rulesNew = [tx.rulesNew EXCEPT !.exists = TRUE] /\ tx'.deviceID = tx.deviceID
        BY <1>1, <3>1 DEF Database
      <3> QED
        BY <1>1, <1>3, <3>2, <3>3, <3>4, <3>5 DEF SameApart, Statements, Staged
    <2>2. CASE step = 2
      <3>1. tx' = [tx EXCEPT !.rulesNew = [tx.rulesNew EXCEPT !.rows = tx.rules.rows]]
        BY <1>5, <2>2 DEF V4Statement
      <3>2. /\ tx.rules = db.rules /\ tx.rulesNew = [exists |-> TRUE, rows |-> {}]
            /\ tx.deviceID = db.deviceID /\ step' = 3
        BY <1>1, <1>5, <2>2 DEF Statements, Staged
      <3>3. tx' \in Database
        BY <1>1, <1>2, <1>3, <3>1, <3>2 DEF Database
      <3>4. SameApart(tx', tx)
        BY <1>1, <3>1 DEF SameApart, Database
      <3>5. tx'.rules = tx.rules /\ tx'.rulesNew = [tx.rulesNew EXCEPT !.rows = tx.rules.rows] /\ tx'.deviceID = tx.deviceID
        BY <1>1, <3>1 DEF Database
      <3> QED
        BY <1>1, <1>3, <3>2, <3>3, <3>4, <3>5 DEF SameApart, Statements, Staged
    <2>3. CASE step = 3
      <3>1. tx' = [tx EXCEPT !.rules = NoTable]
        BY <1>5, <2>3 DEF V4Statement
      <3>2. tx.rulesNew = db.rules /\ tx.deviceID = db.deviceID /\ step' = 4
        BY <1>1, <1>5, <2>3 DEF Statements, Staged
      <3>3. tx' \in Database
        BY <1>1, <1>3, <3>1 DEF Database
      <3>4. SameApart(tx', tx)
        BY <1>1, <3>1 DEF SameApart, Database
      <3>5. tx'.rules = NoTable /\ tx'.rulesNew = tx.rulesNew /\ tx'.deviceID = tx.deviceID
        BY <1>1, <3>1 DEF Database
      <3> QED
        BY <1>1, <3>2, <3>3, <3>4, <3>5 DEF SameApart, Statements, Staged
    <2>4. CASE step = 4
      <3>1. tx' = [tx EXCEPT !.rules = tx.rulesNew, !.rulesNew = NoTable, !.deviceID = FALSE]
        BY <1>5, <2>4 DEF V4Statement
      <3>2. tx.rulesNew = db.rules /\ step' = 5
        BY <1>1, <1>5, <2>4 DEF Statements, Staged
      <3>3. tx' \in Database
        BY <1>1, <1>2, <1>3, <3>1, <3>2 DEF Database
      <3>4. SameApart(tx', tx)
        BY <1>1, <3>1 DEF SameApart, Database
      <3>5. tx'.rules = tx.rulesNew /\ tx'.rulesNew = NoTable /\ tx'.deviceID = FALSE
        BY <1>1, <3>1 DEF Database
      <3> QED
        BY <1>1, <3>2, <3>3, <3>4, <3>5 DEF SameApart, Statements, Staged
    <2> QED
      BY <1>1, <2>1, <2>2, <2>3, <2>4
  <1>7. TypeOK'
    BY <1>1, <1>5, <1>6 DEF Inv, TypeOK
  <1>8. Transaction'
    <2>1. version \in 0..4
      BY DEF Inv, TypeOK, Latest
    <2> QED
      BY <1>1, <1>5, <1>6, <2>1 DEF Transaction
  <1> QED
    BY <1>1, <1>5, <1>7, <1>8
    DEF Inv, Fresh, SchemaOfVersion, RulesSurvive, NoTableLeft, Progress

\* The commit puts the table that was filled in the place of the old one.
LEMMA CommitV4Step ==
    ASSUME Inv, CommitV4 PROVE Inv'
  <1>1. /\ db \in Database /\ tx \in Database /\ step \in 1..5 /\ pc = "v4" /\ db.tables
        /\ version \in 0..4 /\ version = db.version
        /\ SameApart(tx, db) /\ Statements /\ (version >= 4 => step = 1)
        /\ db' = tx /\ tx' = tx /\ pc' = "admin" /\ UNCHANGED <<step, version, stops, orig>>
    BY DEF Inv, TypeOK, CommitV4, Transaction, Fresh, Progress, Latest
  <1>2. /\ tx.rules = db.rules /\ tx.rulesNew = NoTable /\ ~tx.deviceID
        /\ version >= 4 => db.admin.present
    <2>1. CASE version < 4
      BY <1>1, <2>1 DEF CommitV4, Statements, Staged
    <2>2. CASE ~(version < 4)
      BY <1>1, <2>2 DEF Inv, SchemaOfVersion, Statements, Staged
    <2> QED
      BY <2>1, <2>2
  <1>3. TypeOK'
    BY <1>1 DEF Inv, TypeOK
  <1>4. SchemaOfVersion'
    BY <1>1, <1>2 DEF Inv, SchemaOfVersion, SameApart
  <1>5. Fresh' /\ RulesSurvive' /\ NoTableLeft' /\ Transaction'
    BY <1>1, <1>2 DEF Inv, Fresh, RulesSurvive, NoTableLeft, Transaction, SameApart
  <1>6. Progress'
    BY <1>1, <1>2 DEF Inv, Progress, SameApart
  <1> QED
    BY <1>3, <1>4, <1>5, <1>6 DEF Inv

LEMMA InsertAdminStep ==
    ASSUME Inv, InsertAdmin PROVE Inv'
  <1> DEFINE row == [present |-> TRUE, secret |-> TRUE, firstBoot |-> TRUE]
             new == IF db.admin.present THEN db ELSE [db EXCEPT !.admin = row]
  <1>1. /\ db \in Database /\ step \in 1..5 /\ pc = "admin" /\ pc' = "version"
        /\ db' = new /\ tx' = new /\ UNCHANGED <<step, version, stops, orig>>
    BY DEF Inv, TypeOK, InsertAdmin, Execute
  <1>2. new \in Database
    BY <1>1 DEF Database
  <1>3. /\ new.tables = db.tables /\ new.version = db.version /\ new.deviceID = db.deviceID
        /\ new.rules = db.rules /\ new.rulesNew = db.rulesNew /\ new.columns = db.columns
        /\ new.secretColumn = db.secretColumn /\ new.admin.present
    BY <1>1 DEF Database
  <1> HIDE DEF new
  <1>4. Progress'
    BY <1>1, <1>3 DEF Inv, Progress
  <1> QED
    BY <1>1, <1>2, <1>3, <1>4, SchemaGrows

\* The version is written when the file has everything it stands for.
LEMMA WriteVersionStep ==
    ASSUME Inv, WriteVersion PROVE Inv'
  <1> DEFINE new == [db EXCEPT !.version = Latest]
  <1>1. /\ db \in Database /\ pc = "version" /\ pc' = "open"
        /\ db' = new /\ tx' = new /\ UNCHANGED <<step, version, stops, orig>>
    BY DEF Inv, TypeOK, WriteVersion, Execute
  <1>2. new \in Database
    BY <1>1 DEF Database, Latest
  <1>3. /\ new.tables = db.tables /\ new.version = Latest /\ new.deviceID = db.deviceID
        /\ new.rules = db.rules /\ new.rulesNew = db.rulesNew /\ new.columns = db.columns
        /\ new.secretColumn = db.secretColumn /\ new.admin = db.admin
    BY <1>1 DEF Database
  <1> HIDE DEF new
  <1>4. TypeOK'
    BY <1>1, <1>2 DEF Inv, TypeOK
  <1>5. SchemaOfVersion'
    BY <1>1, <1>3 DEF Inv, SchemaOfVersion, Progress, Latest
  <1> QED
    BY <1>1, <1>3, <1>4, <1>5 DEF Inv, Fresh, RulesSurvive, NoTableLeft, Progress, Transaction

LEMMA UpdateMutateStep ==
    ASSUME Inv, UpdateMutate PROVE Inv'
  <1> DEFINE row == [present |-> TRUE, secret |-> TRUE,
                     firstBoot |-> db.admin.secret /\ db.admin.firstBoot]
             new == [db EXCEPT !.devices = db.devices \ db.nulls, !.nulls = {}, !.admin = row]
  <1>1. /\ db \in Database /\ step \in 1..5 /\ pc = "open" /\ pc' = "open"
        /\ db' = new /\ tx' = new /\ UNCHANGED <<step, version, stops, orig>>
    BY DEF Inv, TypeOK, UpdateMutate, Execute
  <1>2. row \in [present : BOOLEAN, secret : BOOLEAN, firstBoot : BOOLEAN] /\ row.present
    BY <1>1 DEF Database
  <1>3. new \in Database
    BY <1>1, <1>2 DEF Database
  <1>4. /\ new.tables = db.tables /\ new.version = db.version /\ new.deviceID = db.deviceID
        /\ new.rules = db.rules /\ new.rulesNew = db.rulesNew /\ new.columns = db.columns
        /\ new.secretColumn = db.secretColumn /\ new.admin = row
    BY <1>1 DEF Database
  <1> HIDE DEF new, row
  <1>5. Progress'
    BY <1>1, <1>4 DEF Inv, Progress
  <1> QED
    BY <1>1, <1>2, <1>3, <1>4, <1>5, SchemaGrows

\* Whatever was open is gone; what was committed is a state the next start
\* can go on from.
LEMMA StopStep ==
    ASSUME Inv, Stop PROVE Inv'
  <1>1. TypeOK'
    BY MigrationAssumption DEF Inv, TypeOK, Stop
  <1> QED
    BY <1>1
    DEF Inv, Stop, Fresh, SchemaOfVersion, RulesSurvive, NoTableLeft, Progress, Transaction

-----------------------------------------------------------------------------
\* The inductive invariant holds in every state.
THEOREM Invariant == Spec => []Inv
  <1>1. Inv /\ [Next]_vars => Inv'
    <2> SUFFICES ASSUME Inv, [Next]_vars PROVE Inv'
      OBVIOUS
    <2>1. CASE UNCHANGED vars
      BY <2>1
      DEF vars, Inv, TypeOK, Fresh, SchemaOfVersion, RulesSurvive, NoTableLeft, Progress,
          Transaction, SameApart, Statements, Staged
    <2> QED
      BY <2>1, CreateTablesStep, ReadVersionStep, MigrateToV2Step, MigrateToV3Step,
         MigrateToV4Step, CommitV4Step, InsertAdminStep, WriteVersionStep, UpdateMutateStep,
         StopStep
      DEF Next, Migrate
  <1> QED
    BY InitInv, <1>1, PTL DEF Spec

\* The migration's state has its types; no version beyond the latest one is
\* recorded.
THEOREM TypeCorrect == Spec => []TypeOK
  BY Invariant, PTL DEF Inv

\* Whoever finds the latest version finds the whole schema, wherever earlier
\* migrations were interrupted.
THEOREM VersionIsNeverAhead == Spec => []VersionMeansSchema
  <1>1. Inv => VersionMeansSchema
    <2> SUFFICES ASSUME Inv, db.version = Latest PROVE HasLatestSchema(db)
      BY DEF VersionMeansSchema
    <2>1. db.tables
      BY DEF Inv, Fresh, Empty, Latest
    <2> QED
      BY <2>1 DEF Inv, SchemaOfVersion, RulesSurvive, NoTableLeft, NoTable, HasLatestSchema, Latest
  <1> QED
    BY <1>1, Invariant, PTL

\* No interruption of the copying, dropping and renaming of domain_rules loses
\* or invents a rule.
THEOREM RulesAreKept == Spec => []RulesSurvive
  BY Invariant, PTL DEF Inv

\* No statement of the migration fails because of what an interrupted one
\* left behind: the safety part of Opens.
THEOREM NeverRefused == Spec => [](pc # "refused")
  BY Invariant, PTL DEF Inv, Progress
=============================================================================
