-------------------------- MODULE SQLiteStoreProofs --------------------------
(***************************************************************************)
(* Proofs about the SQLite store, for any number of callers, mutations and *)
(* tables.  The inductive invariant is the conjunction of the three the    *)
(* runs check: the tables agree because a commit writes a transaction      *)
(* that equals the committing caller's copy in every table (Exclusive).    *)
(***************************************************************************)
EXTENDS SQLiteStore, TLAPS

Inv == TypeOK /\ Exclusive /\ TablesAgree

\* An idle caller is not a running one.
LEMMA IdleNotRunning ==
    ASSUME NEW r \in Running PROVE r # Idle /\ r.pc # "idle"
  BY DEF Running, Idle

\* A caller whose call has a pc of UpdateMutate is running.
LEMMA PcRunning ==
    ASSUME TypeOK, NEW c \in Callers, call[c].pc # "idle"
    PROVE  call[c] \in Running /\ call[c] # Idle
  BY DEF TypeOK, Idle

\* Nobody but the mutex' holder is inside UpdateMutate.
LEMMA OthersIdle ==
    ASSUME Exclusive, NEW c \in Callers, call[c] # Idle,
           NEW d \in Callers, d # c
    PROVE  call[d] = Idle
  BY DEF Exclusive

LEMMA MutexFree ==
    ASSUME Exclusive, mu = None, NEW c \in Callers PROVE call[c] = Idle
  BY CallersAssumption DEF Exclusive, None

LEMMA InitInv ==
    Init => Inv
  BY TablesAssumption DEF Init, Inv, TypeOK, Exclusive, TablesAgree, Empty, Idle, None, Tables,
      Readable

\* The type invariant is preserved: UpdateMutate goes over the tables in
\* order and stays among them.
LEMMA TypePreserved ==
    ASSUME TypeOK, [Next]_vars PROVE TypeOK'
  <1> USE DEF TypeOK
  <1>1. ASSUME NEW c \in Callers, NEW m \in Mutations, NEW unread \in SUBSET Unreadable,
               Load(c, m, unread)
        PROVE  TypeOK'
    <2>1. Snapshot(unread) \in [Tables -> SUBSET Mutations]
      BY DEF Snapshot
    <2>2. [pc |-> "fn", m |-> m, data |-> Snapshot(unread), table |-> 1,
           unread |-> unread] \in Running
      BY <2>1, TablesAssumption DEF Running, Tables
    <2> QED BY <1>1, <2>2 DEF Load
  <1>2. ASSUME NEW c \in Callers, Apply(c) PROVE TypeOK'
    <2>1. call[c] \in Running
      BY <1>2, PcRunning DEF Apply
    <2>2. With(call[c].data, call[c].m) \in [Tables -> SUBSET Mutations]
      BY <2>1 DEF With, Running
    <2>3. [call[c] EXCEPT !.pc = "clear", !.data = With(call[c].data, call[c].m)] \in Running
      BY <2>1, <2>2 DEF Running
    <2> QED BY <1>2, <2>3 DEF Apply
  <1>3. ASSUME NEW c \in Callers, ApplyFails(c) PROVE TypeOK'
    BY <1>3 DEF ApplyFails, Return
  <1>4. ASSUME NEW c \in Callers, Clear(c) PROVE TypeOK'
    <2>1. call[c] \in Running
      BY <1>4, PcRunning DEF Clear
    <2>2. [call[c] EXCEPT !.pc = "insert"] \in Running
      BY <2>1 DEF Running
    <2> QED BY <1>4, <2>2 DEF Clear
  <1>5. ASSUME NEW c \in Callers, Insert(c) PROVE TypeOK'
    <2>1. call[c] \in Running
      BY <1>5, PcRunning DEF Insert
    <2>2. call'[c] \in Running
      <3>1. CASE call[c].table < NumTables
        <4>1. call'[c] = [call[c] EXCEPT !.pc = "clear", !.table = call[c].table + 1]
          BY <1>5, <3>1 DEF Insert
        <4>2. call[c].table + 1 \in Tables
          BY <2>1, <3>1, TablesAssumption DEF Running, Tables
        <4> QED BY <2>1, <4>1, <4>2 DEF Running
      <3>2. CASE ~(call[c].table < NumTables)
        <4>1. call'[c] = [call[c] EXCEPT !.pc = "commit"]
          BY <1>5, <3>2 DEF Insert
        <4> QED BY <2>1, <4>1 DEF Running
      <3> QED BY <3>1, <3>2
    <2>3. tx' \in [Tables -> SUBSET Mutations]
      BY <1>5, <2>1 DEF Insert, Running
    <2> QED BY <1>5, <2>2, <2>3 DEF Insert
  <1>6. ASSUME NEW c \in Callers, StatementFails(c) \/ CommitFails(c) PROVE TypeOK'
    BY <1>6 DEF StatementFails, CommitFails, Return, Empty
  <1>7. ASSUME NEW c \in Callers, Commit(c) PROVE TypeOK'
    BY <1>7 DEF Commit, Return, Empty
  <1>8. CASE Restart
    BY <1>8 DEF Restart, Empty
  <1>9. CASE Reset
    BY <1>9 DEF Reset, Empty
  <1>10. CASE UNCHANGED vars
    BY <1>10 DEF vars
  <1> QED
    BY <1>1, <1>2, <1>3, <1>4, <1>5, <1>6, <1>7, <1>8, <1>9, <1>10 DEF Next

\* Every call that succeeds commits its copy: the committed data with the mutation
\* added, but for the tables whose query failed in that call.
LEMMA CommitAdds ==
    ASSUME Inv, NEW c \in Callers, Commit(c)
    PROVE  /\ call[c] \in Running
           /\ db' = call[c].data
           /\ \A t \in Tables :
                 db'[t] = (IF t \in call[c].unread THEN {} ELSE db[t]) \cup {call[c].m}
           /\ \A t \in Readable : db'[t] = db[t] \cup {call[c].m}
  <1>1. call[c] \in Running /\ call[c] # Idle
    BY PcRunning DEF Inv, Commit
  <1>2. \A t \in Tables : tx[t] = call[c].data[t]
    BY <1>1 DEF Inv, Exclusive, Commit
  <1>3. tx = call[c].data
    BY <1>1, <1>2 DEF Inv, TypeOK, Running
  <1>4. \A t \in Tables :
            call[c].data[t] = (IF t \in call[c].unread THEN {} ELSE db[t]) \cup {call[c].m}
    BY <1>1 DEF Inv, Exclusive, Commit
  <1>5. db' = call[c].data
    BY <1>3 DEF Commit
  <1>6. call[c].unread \subseteq Unreadable
    BY <1>1 DEF Running
  <1> QED BY <1>1, <1>4, <1>5, <1>6 DEF Readable

\* Exclusive is preserved: the mutex serialises UpdateMutate, and a step of
\* its holder keeps the copy and the transaction in line.
LEMMA ExclusivePreserved ==
    ASSUME Inv, [Next]_vars PROVE Exclusive'
  <1> USE DEF Inv
  <1>1. ASSUME NEW c \in Callers, NEW m \in Mutations, NEW unread \in SUBSET Unreadable,
               Load(c, m, unread)
        PROVE  Exclusive'
    <2>1. \A d \in Callers : d # c => call'[d] = Idle
      BY <1>1, MutexFree DEF Load, TypeOK
    <2>2. call'[c] = [pc |-> "fn", m |-> m, data |-> Snapshot(unread), table |-> 1,
           unread |-> unread]
      BY <1>1 DEF Load, TypeOK
    <2> QED BY <1>1, <2>1, <2>2 DEF Load, Exclusive, Snapshot
  <1>2. ASSUME NEW c \in Callers, Apply(c) PROVE Exclusive'
    <2>1. call[c] \in Running /\ call[c] # Idle
      BY <1>2, PcRunning DEF Apply
    <2>2. \A d \in Callers : d # c => call'[d] = Idle
      BY <1>2, <2>1, OthersIdle DEF Apply, TypeOK
    <2>3. call'[c] = [call[c] EXCEPT !.pc = "clear", !.data = With(call[c].data, call[c].m)]
      BY <1>2 DEF Apply, TypeOK
    <2>4. /\ call'[c].pc = "clear" /\ call'[c].table = 1 /\ call'[c].m = call[c].m
          /\ call'[c].unread = call[c].unread
          /\ call'[c].data = [t \in Tables |-> call[c].data[t] \cup {call[c].m}]
      <3>1. call[c].table = 1
        BY <1>2, <2>1 DEF Apply, Exclusive
      <3> QED BY <2>1, <2>3, <3>1 DEF With, Running
    <2>5. \A t \in Tables : call[c].data[t] = IF t \in call[c].unread THEN {} ELSE db[t]
      <3>1. \A t \in Tables :
               call[c].data[t] = (IF t \in call[c].unread THEN {} ELSE db[t]) \cup {}
        BY <1>2, <2>1 DEF Apply, Exclusive
      <3> QED BY <3>1
    <2>6. mu' = c /\ db' = db
      BY <1>2, <2>1 DEF Apply, Exclusive
    <2>7. \A t \in Tables : ~(t < call'[c].table)
      BY <2>4, TablesAssumption DEF Tables
    <2>8. \A t \in Tables :
             call'[c].data[t] = (IF t \in call'[c].unread THEN {} ELSE db'[t])
                                    \cup (IF call'[c].pc = "fn" THEN {} ELSE {call'[c].m})
      BY <2>4, <2>5, <2>6
    <2> QED BY <2>2, <2>4, <2>6, <2>7, <2>8, Zenon DEF Exclusive
  <1>3. ASSUME NEW c \in Callers, ApplyFails(c) \/ StatementFails(c) \/ CommitFails(c)
        PROVE  Exclusive'
    <2>1. \A d \in Callers : call'[d] = Idle
      BY <1>3, PcRunning, OthersIdle DEF ApplyFails, StatementFails, CommitFails, Return, TypeOK
    <2> QED BY <2>1 DEF Exclusive
  <1>4. ASSUME NEW c \in Callers, Clear(c) PROVE Exclusive'
    <2>1. call[c] \in Running /\ call[c] # Idle
      BY <1>4, PcRunning DEF Clear
    <2>2. \A d \in Callers : d # c => call'[d] = Idle
      BY <1>4, <2>1, OthersIdle DEF Clear, TypeOK
    <2>3. call'[c] = [call[c] EXCEPT !.pc = "insert"]
      BY <1>4 DEF Clear, TypeOK
    <2>4. \A t \in Tables : t < call[c].table => tx'[t] = tx[t]
      BY <1>4, <2>1 DEF Clear, TypeOK, Tables, Running
    <2> QED BY <1>4, <2>1, <2>2, <2>3, <2>4 DEF Clear, Exclusive, Running
  <1>5. ASSUME NEW c \in Callers, Insert(c) PROVE Exclusive'
    <2>1. call[c] \in Running /\ call[c] # Idle
      BY <1>5, PcRunning DEF Insert
    <2>2. \A d \in Callers : d # c => call'[d] = Idle
      BY <1>5, <2>1, OthersIdle DEF Insert, TypeOK
    <2>3. /\ call'[c].data = call[c].data /\ call'[c].m = call[c].m
          /\ call'[c].unread = call[c].unread
          /\ \/ /\ call'[c].pc = "clear" /\ call'[c].table = call[c].table + 1
             \/ /\ call'[c].pc = "commit" /\ call[c].table = NumTables
      BY <1>5, <2>1, TablesAssumption DEF Insert, TypeOK, Running, Tables
    <2>4. \A t \in Tables : t <= call[c].table => tx'[t] = call[c].data[t]
      BY <1>5, <2>1 DEF Insert, TypeOK, Tables, Running, Exclusive
    <2>5. /\ mu' = c /\ db' = db
          /\ \A t \in Tables :
                call[c].data[t] = (IF t \in call[c].unread THEN {} ELSE db[t]) \cup {call[c].m}
      BY <1>5, <2>1 DEF Insert, Exclusive
    <2>6. \A t \in Tables : call'[c].pc = "commit" \/ t < call'[c].table
                                => t <= call[c].table
      BY <2>1, <2>3, TablesAssumption DEF Running, Tables
    <2>7. call'[c].pc # "fn"
      BY <2>3
    <2>8. \A t \in Tables :
             call'[c].data[t] = (IF t \in call'[c].unread THEN {} ELSE db'[t])
                                    \cup (IF call'[c].pc = "fn" THEN {} ELSE {call'[c].m})
      BY <2>3, <2>5, <2>7
    <2>9. \A t \in Tables : call'[c].pc = "commit" \/ t < call'[c].table
                                => tx'[t] = call'[c].data[t]
      BY <2>3, <2>4, <2>6
    <2> QED BY <2>2, <2>5, <2>7, <2>8, <2>9 DEF Exclusive
  <1>7. ASSUME NEW c \in Callers, Commit(c) PROVE Exclusive'
    <2>1. \A d \in Callers : call'[d] = Idle
      BY <1>7, PcRunning, OthersIdle DEF Commit, Return, TypeOK
    <2> QED BY <2>1 DEF Exclusive
  <1>8. CASE Restart \/ Reset
    BY <1>8 DEF Restart, Reset, Exclusive
  <1>10. CASE UNCHANGED vars
    BY <1>10 DEF vars, Exclusive
  <1> QED
    BY <1>1, <1>2, <1>3, <1>4, <1>5, <1>7, <1>8, <1>10 DEF Next

\* The tables change at a commit, by the same mutation in each, and at a
\* factory reset, which empties all of them.
LEMMA TablesAgreePreserved ==
    ASSUME Inv, [Next]_vars PROVE TablesAgree'
  <1> USE DEF Inv
  <1>1. ASSUME NEW c \in Callers, Commit(c) PROVE TablesAgree'
    <2>1. \A t \in Readable : db'[t] = db[t] \cup {call[c].m}
      BY <1>1, CommitAdds
    <2> QED BY <2>1 DEF TablesAgree, Readable
  <1>2. CASE Reset
    BY <1>2 DEF Reset, TablesAgree, Empty, Readable
  <1>3. CASE db' = db
    BY <1>3 DEF TablesAgree, Readable
  <1>4. Reset \/ db' = db \/ \E c \in Callers : Commit(c)
    BY DEF Next, Load, Apply, ApplyFails, Clear, Insert, StatementFails, CommitFails,
           Restart, vars
  <1> QED BY <1>1, <1>2, <1>3, <1>4

LEMMA Invariance ==
    Spec => []Inv
  <1>1. Inv /\ [Next]_vars => Inv'
    BY TypePreserved, ExclusivePreserved, TablesAgreePreserved DEF Inv
  <1> QED BY <1>1, InitInv, PTL DEF Spec

\* Types of the state, in every reachable state.
THEOREM TypeCorrect ==
    Spec => []TypeOK
  BY Invariance, PTL DEF Inv

\* Two runs of UpdateMutate (sqlite_store.go:340) never overlap.
THEOREM ExclusiveHolds ==
    Spec => []Exclusive
  BY Invariance, PTL DEF Inv

\* Whatever statement fails and whenever the process stops, the tables of the
\* database contain the same mutations.
THEOREM TablesAgreeHolds ==
    Spec => []TablesAgree
  BY Invariance, PTL DEF Inv

\* In the tables that can be read, the store implements the abstract one: every
\* step is a step of it or changes neither these tables nor the callers' results.
THEOREM Refinement ==
    Spec => ImplementsPolicyStore
  <1> DEFINE data == [t \in Readable |-> db[t]]
  <1>1. Init => Abstract!Init
    BY DEF Init, Abstract!Init, Empty, Abstract!Empty, Readable
  <1>2. Inv /\ [Next]_vars => [Abstract!Next]_(Abstract!storeVars)
    <2> SUFFICES ASSUME Inv, [Next]_vars
                 PROVE  Abstract!Next \/ UNCHANGED Abstract!storeVars
      OBVIOUS
    <2>1. ASSUME NEW c \in Callers, NEW m \in Mutations,
                 NEW unread \in SUBSET Unreadable, Load(c, m, unread)
          PROVE  Abstract!Call(c)
      BY <2>1 DEF Load, Abstract!Call
    <2>2. ASSUME NEW c \in Callers, ApplyFails(c) \/ StatementFails(c) \/ CommitFails(c)
          PROVE  Abstract!Fail(c)
      BY <2>2 DEF ApplyFails, StatementFails, CommitFails, Return, Abstract!Fail
    <2>3. ASSUME NEW c \in Callers, Commit(c)
          PROVE  \E m \in Mutations : Abstract!Succeed(c, m)
      <3>1. /\ call[c].m \in Mutations
            /\ data' = Abstract!With(data, call[c].m)
        <4>1. call[c].m \in Mutations
          BY <2>3, CommitAdds DEF Running
        <4>2. \A t \in Readable : db'[t] = db[t] \cup {call[c].m}
          BY <2>3, CommitAdds
        <4>3. Abstract!With(data, call[c].m) = [t \in Readable |-> db[t] \cup {call[c].m}]
          BY DEF Abstract!With
        <4>4. data' = [t \in Readable |-> db'[t]]
          BY DEF Readable, Tables
        <4> QED BY <4>1, <4>2, <4>3, <4>4
      <3> QED BY <2>3, <3>1 DEF Commit, Return, Abstract!Succeed
    <2>4. CASE Restart
      BY <2>4 DEF Restart, Abstract!Next, Abstract!Restart
    <2>5. CASE Reset
      <3>1. data' = [t \in Readable |-> {}]
        BY <2>5 DEF Reset, Empty, Readable
      <3> QED BY <2>5, <3>1 DEF Reset, Abstract!Next, Abstract!Reset, Abstract!Empty
    <2>6. ASSUME NEW c \in Callers, Apply(c) \/ Clear(c) \/ Insert(c)
          PROVE  UNCHANGED Abstract!storeVars
      BY <2>6 DEF Apply, Clear, Insert, Abstract!storeVars
    <2>7. CASE UNCHANGED vars
      BY <2>7 DEF vars, Abstract!storeVars
    <2> QED
      BY <2>1, <2>2, <2>3, <2>4, <2>5, <2>6, <2>7 DEF Next, Abstract!Next
  <1> QED
    BY <1>1, <1>2, Invariance, PTL DEF Spec, ImplementsPolicyStore, Abstract!Spec

\* Whatever queries and statements fail, a table loses committed data only to a
\* factory reset and to a commit whose own load could not read that table.
THEOREM OnlyUnreadTablesLoseHolds ==
    Spec => OnlyUnreadTablesLose
  <1> DEFINE Lose ==
        \/ Reset
        \/ \A t \in Tables :
              \/ db[t] \subseteq db'[t]
              \/ \E c \in Callers :
                    Commit(c) /\ t \in call[c].unread /\ db'[t] = {call[c].m}
  <1>1. Inv /\ [Next]_vars => [Lose]_vars
    <2> SUFFICES ASSUME Inv, [Next]_vars PROVE Lose \/ UNCHANGED vars
      OBVIOUS
    <2>1. Reset \/ db' = db \/ \E c \in Callers : Commit(c)
      BY DEF Next, Load, Apply, ApplyFails, Clear, Insert, StatementFails, CommitFails,
             Restart, vars
    <2>2. ASSUME NEW c \in Callers, Commit(c), NEW t \in Tables, ~(db[t] \subseteq db'[t])
          PROVE  t \in call[c].unread /\ db'[t] = {call[c].m}
      <3>1. db'[t] = (IF t \in call[c].unread THEN {} ELSE db[t]) \cup {call[c].m}
        BY <2>2, CommitAdds
      <3> QED BY <2>2, <3>1
    <2> QED BY <2>1, <2>2
  <1> HIDE DEF Lose
  <1>2. Spec => [][Lose]_vars
    BY <1>1, Invariance, PTL DEF Spec
  <1> QED BY <1>2 DEF OnlyUnreadTablesLose, Lose
=============================================================================
