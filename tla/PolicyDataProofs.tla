-------------------------- MODULE PolicyDataProofs --------------------------
(***************************************************************************)
(* Proofs about the policy data: the JSON store that keeps it, for any     *)
(* callers, mutations and tables, and device discovery, which edits it     *)
(* together with the administrators, for any devices, addresses, users,    *)
(* static lists and reloads.  The two specifications are independent; each *)
(* has an inductive invariant of its own (Inv, DiscoveryInv).              *)
(***************************************************************************)
EXTENDS JSONStore, DeviceDiscovery, FiniteSetTheorems, TLAPS

-----------------------------------------------------------------------------
(* The JSON store.  Its invariants speak of the file; what keeps them true *)
(* is the relation between the file, the data in memory and the call in    *)
(* progress (Progress).                                                    *)

\* The mutations a caller is in the middle of.
Pending == {call[c].m : c \in {d \in Callers : call[d] # Idle}}

\* The mutex serialises the calls; once fn has succeeded, its mutation is in
\* every table, and the temporary file to be renamed is the data in memory.
Progress ==
    \A c \in Callers : call[c] # Idle =>
        /\ mu = c
        /\ \A t \in Tables :
              call[c].pc # "fn" \/ t < call[c].table => call[c].m \in mem[t]
        /\ call[c].pc = "rename" => tmp = Whole(mem)

\* Memory contains the file; what it has more, and what only some of its
\* tables have, failed or is in progress.
Ahead ==
    /\ \A t \in Tables : file.data[t] \subseteq mem[t]
    /\ \A t \in Tables : mem[t] \subseteq file.data[t] \cup failed \cup Pending
    /\ \A s, t \in Tables : mem[s] \subseteq mem[t] \cup failed \cup Pending

Inv ==
    /\ TypeOK
    /\ FileNeverTorn
    /\ Progress
    /\ Ahead
    /\ AckedSurvive
    /\ PartialOnlyAfterError

LEMMA PcRunning ==
    ASSUME TypeOK, NEW c \in Callers, call[c].pc # "idle"
    PROVE  call[c] \in Running /\ call[c] # Idle
  BY DEF TypeOK, Idle, Running

LEMMA OnePending ==
    ASSUME Progress, NEW c \in Callers, call[c] # Idle
    PROVE  /\ \A d \in Callers : d # c => call[d] = Idle
           /\ Pending = {call[c].m}
  BY DEF Progress, Pending

LEMMA NonePending ==
    ASSUME Progress, mu = None
    PROVE  (\A c \in Callers : call[c] = Idle) /\ Pending = {}
  BY CallersAssumption DEF Progress, Pending, None

LEMMA InitInv ==
    Init => Inv
  <1> SUFFICES ASSUME Init PROVE Inv
    OBVIOUS
  <1>1. Pending = {}
    BY DEF Init, Pending
  <1> QED
    BY <1>1, TablesAssumption
    DEF Init, Inv, TypeOK, FileNeverTorn, Progress, Ahead, AckedSurvive,
        PartialOnlyAfterError, Empty, Whole, Torn, Files, Contents, Tables

\* The types are preserved: fn goes over the tables in order.
LEMMA TypePreserved ==
    ASSUME TypeOK, [Next]_vars PROVE TypeOK'
  <1> USE DEF TypeOK
  <1>1. ASSUME NEW c \in Callers, NEW m \in Mutations, Lock(c, m) PROVE TypeOK'
    <2>1. [pc |-> "fn", m |-> m, table |-> 1] \in Running
      BY TablesAssumption DEF Running, Tables
    <2> QED BY <1>1, <2>1 DEF Lock
  <1>2. ASSUME NEW c \in Callers, Mutate(c) PROVE TypeOK'
    <2>1. call[c] \in Running
      BY <1>2, PcRunning DEF Mutate
    <2>2. mem' \in Contents
      BY <1>2, <2>1 DEF Mutate, Running, Contents
    <2>3. call'[c] \in Running
      BY <1>2, <2>1, TablesAssumption DEF Mutate, Running, Tables
    <2> QED BY <1>2, <2>2, <2>3 DEF Mutate
  <1>3. ASSUME NEW c \in Callers, MutateFails(c) \/ SaveFails(c) PROVE TypeOK'
    <2>1. call[c] \in Running
      BY <1>3, PcRunning DEF MutateFails, SaveFails
    <2> QED BY <1>3, <2>1 DEF MutateFails, SaveFails, ReturnError, Return, Running
  <1>4. ASSUME NEW c \in Callers, Write(c) PROVE TypeOK'
    <2>1. call[c] \in Running
      BY <1>4, PcRunning DEF Write
    <2>2. [call[c] EXCEPT !.pc = "writing"] \in Running
      BY <2>1 DEF Running
    <2> QED BY <1>4, <2>2 DEF Write, Torn, Files, Contents, Empty
  <1>5. ASSUME NEW c \in Callers, Written(c) PROVE TypeOK'
    <2>1. call[c] \in Running
      BY <1>5, PcRunning DEF Written
    <2>2. [call[c] EXCEPT !.pc = "rename"] \in Running
      BY <2>1 DEF Running
    <2> QED BY <1>5, <2>2 DEF Written, Whole, Files
  <1>6. ASSUME NEW c \in Callers, Rename(c) PROVE TypeOK'
    <2>1. call[c] \in Running
      BY <1>6, PcRunning DEF Rename
    <2> QED BY <1>6, <2>1 DEF Rename, Return, Running, Torn, Files, Contents, Empty
  <1>7. CASE Restart
    BY <1>7 DEF Restart, Files
  <1>8. CASE Reset
    BY <1>8 DEF Reset, Whole, Files, Contents, Empty
  <1>9. CASE UNCHANGED vars
    BY <1>9 DEF vars
  <1> QED
    BY <1>1, <1>2, <1>3, <1>4, <1>5, <1>6, <1>7, <1>8, <1>9 DEF Next

\* Every step preserves the rest of the inductive invariant.
LEMMA Preserved ==
    ASSUME Inv, [Next]_vars
    PROVE  (FileNeverTorn /\ Progress /\ Ahead /\ AckedSurvive /\ PartialOnlyAfterError)'
  <1> DEFINE Goal == FileNeverTorn /\ Progress /\ Ahead /\ AckedSurvive /\ PartialOnlyAfterError
  <1> USE DEF Inv
  <1>1. ASSUME NEW c \in Callers, NEW m \in Mutations, Lock(c, m) PROVE Goal'
    <2>1. /\ Pending = {}
          /\ \A d \in Callers : d # c => call'[d] = Idle
      BY <1>1, NonePending DEF Lock, TypeOK
    <2>2. call'[c] = [pc |-> "fn", m |-> m, table |-> 1]
      BY <1>1 DEF Lock, TypeOK
    <2>3. Progress'
      BY <1>1, <2>1, <2>2, TablesAssumption DEF Progress, Lock, Tables
    <2> QED
      BY <1>1, <2>1, <2>3
      DEF Lock, FileNeverTorn, Ahead, AckedSurvive, PartialOnlyAfterError
  <1>2. ASSUME NEW c \in Callers, Mutate(c) PROVE Goal'
    <2>1. /\ call[c] \in Running /\ call[c] # Idle
          /\ \A d \in Callers : d # c => call'[d] = Idle
          /\ Pending = {call[c].m}
      BY <1>2, PcRunning, OnePending DEF Mutate, TypeOK
    <2>2. /\ call'[c].m = call[c].m
          /\ call'[c].pc \in {"fn", "write"}
          /\ call'[c] # Idle
          /\ \A t \in Tables : call'[c].pc # "fn" \/ t < call'[c].table
                => t <= call[c].table
      BY <1>2, <2>1, TablesAssumption DEF Mutate, Running, TypeOK, Tables, Idle
    <2>3. Pending' = {call[c].m}
      BY <2>1, <2>2 DEF Pending
    <2>4. \A t \in Tables : mem'[t] = IF t = call[c].table THEN mem[t] \cup {call[c].m} ELSE mem[t]
      BY <1>2 DEF Mutate, TypeOK, Contents
    <2>5. \A t \in Tables : t < call[c].table => call[c].m \in mem[t]
      BY <2>1 DEF Progress
    <2>6. \A t \in Tables : t <= call[c].table => call[c].m \in mem'[t]
      <3>1. \A t \in Tables : t <= call[c].table => t < call[c].table \/ t = call[c].table
        BY <2>1, TablesAssumption DEF Running, Tables
      <3> QED BY <2>4, <2>5, <3>1
    <2>7. Progress'
      BY <1>2, <2>1, <2>2, <2>6 DEF Progress, Mutate
    <2>8. Ahead'
      BY <1>2, <2>1, <2>3, <2>4 DEF Ahead, Mutate
    <2> QED
      BY <1>2, <2>7, <2>8 DEF Mutate, FileNeverTorn, AckedSurvive, PartialOnlyAfterError
  <1>3. ASSUME NEW c \in Callers, MutateFails(c) \/ SaveFails(c) PROVE Goal'
    <2>1. /\ call[c] \in Running /\ call[c] # Idle
          /\ Pending = {call[c].m}
          /\ \A d \in Callers : call'[d] = Idle
      BY <1>3, PcRunning, OnePending
      DEF MutateFails, SaveFails, ReturnError, Return, TypeOK
    <2>2. Pending' = {} /\ failed' = failed \cup {call[c].m} /\ UNCHANGED <<mem, file, acked>>
      BY <1>3, <2>1 DEF Pending, MutateFails, SaveFails, ReturnError
    <2> QED
      BY <2>1, <2>2 DEF FileNeverTorn, Progress, Ahead, AckedSurvive, PartialOnlyAfterError
  <1>4. ASSUME NEW c \in Callers, Write(c) \/ Written(c) PROVE Goal'
    <2>1. /\ call[c] \in Running /\ call[c] # Idle
          /\ \A d \in Callers : d # c => call'[d] = Idle
          /\ Pending = {call[c].m}
      BY <1>4, PcRunning, OnePending DEF Write, Written, TypeOK
    <2>2. /\ call'[c].m = call[c].m /\ call'[c] # Idle
          /\ \/ call'[c].pc = "writing"
             \/ call'[c].pc = "rename" /\ tmp' = Whole(mem)
      BY <1>4, <2>1 DEF Write, Written, Running, TypeOK, Idle
    <2>3. UNCHANGED <<mem, file, mu, acked, failed>>
      BY <1>4 DEF Write, Written
    <2>4. Pending' = Pending
      BY <2>1, <2>2 DEF Pending
    <2>5. \A t \in Tables : call[c].m \in mem[t]
      BY <1>4, <2>1 DEF Progress, Write, Written
    <2>6. Progress'
      BY <2>1, <2>2, <2>3, <2>5 DEF Progress
    <2> QED
      BY <2>3, <2>4, <2>6 DEF FileNeverTorn, Ahead, AckedSurvive, PartialOnlyAfterError
  <1>5. ASSUME NEW c \in Callers, Rename(c) PROVE Goal'
    <2>1. /\ call[c] \in Running /\ call[c] # Idle
          /\ Pending = {call[c].m}
          /\ \A d \in Callers : call'[d] = Idle
      BY <1>5, PcRunning, OnePending DEF Rename, Return, TypeOK
    <2>2. /\ Pending' = {} /\ file' = Whole(mem) /\ UNCHANGED <<mem, failed>>
          /\ acked' = acked \cup {call[c].m}
      BY <1>5, <2>1 DEF Pending, Rename, Progress
    <2>3. \A t \in Tables : call[c].m \in mem[t] /\ file'.data[t] = mem[t]
      BY <1>5, <2>1, <2>2 DEF Progress, Rename, Whole
    <2>4. \A s, t \in Tables : mem[s] \subseteq mem[t] \cup failed
      BY <2>1, <2>3 DEF Ahead
    <2> QED
      BY <2>1, <2>2, <2>3, <2>4
      DEF FileNeverTorn, Progress, Ahead, AckedSurvive, PartialOnlyAfterError, Whole
  <1>6. CASE Restart
    <2>1. Pending' = {}
      BY <1>6 DEF Restart, Pending
    <2> QED
      BY <1>6, <2>1
      DEF Restart, FileNeverTorn, Progress, Ahead, AckedSurvive, PartialOnlyAfterError
  <1>7. CASE Reset
    <2>1. Pending' = {}
      BY <1>7 DEF Reset, Pending
    <2> QED
      BY <1>7, <2>1
      DEF Reset, Whole, Empty, FileNeverTorn, Progress, Ahead, AckedSurvive, PartialOnlyAfterError
  <1>8. CASE UNCHANGED vars
    BY <1>8 DEF vars, Pending, FileNeverTorn, Progress, Ahead, AckedSurvive, PartialOnlyAfterError
  <1> QED
    BY <1>1, <1>2, <1>3, <1>4, <1>5, <1>6, <1>7, <1>8 DEF Next

LEMMA Invariance ==
    Spec => []Inv
  <1>1. Inv /\ [Next]_vars => Inv'
    BY TypePreserved, Preserved DEF Inv
  <1> QED BY <1>1, InitInv, PTL DEF Spec

\* Types of the state, in every reachable state.
THEOREM TypeCorrect ==
    Spec => []TypeOK
  BY Invariance, PTL DEF Inv

\* No crash and no failing write leaves a torn file (store.go:124-132).
THEOREM FileNeverTornHolds ==
    Spec => []FileNeverTorn
  BY Invariance, PTL DEF Inv

\* What UpdateMutate acknowledged is durable and complete (store.go:118-132).
THEOREM AckedSurviveHolds ==
    Spec => []AckedSurvive
  BY Invariance, PTL DEF Inv

\* Only a mutation that reported an error can be in the file in part.
THEOREM PartialOnlyAfterErrorHolds ==
    Spec => []PartialOnlyAfterError
  BY Invariance, PTL DEF Inv

\* Between calls, memory is ahead of the file by failed mutations only.
THEOREM MemoryAheadHolds ==
    Spec => []MemoryAheadOnlyByErrors
  <1>1. Inv => MemoryAheadOnlyByErrors
    <2> SUFFICES ASSUME Inv, mu = None
                 PROVE  \A t \in Tables : /\ file.data[t] \subseteq mem[t]
                                          /\ mem[t] \ file.data[t] \subseteq failed
      BY DEF MemoryAheadOnlyByErrors
    <2>1. Pending = {}
      BY NonePending DEF Inv
    <2> QED BY <2>1 DEF Inv, Ahead
  <1> QED BY <1>1, Invariance, PTL

-----------------------------------------------------------------------------
(* Device discovery.  A device's owner is safe from a merge because the    *)
(* records that discovery made are under their own MAC (Keyed) and a merge *)
(* finds every other one by its MAC.                                       *)

\* The fields of the policy data.
Shaped(d) ==
    /\ DOMAIN d = {"users", "devices", "rules"}
    /\ DOMAIN d.users \subseteq Users
    /\ \A id \in DOMAIN d.devices : DOMAIN d.devices[id] = {"mac", "ip", "user"}

Lists == UNION {[D -> IPs] : D \in SUBSET MACs}
Reports == [source : {"arp", "router", "static"}, mac : MACs \cup {ZeroMAC}, ip : IPs]
ReportSets == {S \in SUBSET Reports : IsFiniteSet(S)}
Active ==
    [pc : {"idle", "rest", "merge"}, cancelled : BOOLEAN, static : Lists, recs : ReportSets]

\* The current manager is never the cancelled one, and a manager knows only
\* what the network and the configuration showed it.
ManagersOK ==
    /\ net \in [MACs -> IPs \cup {Away}]
    /\ mgr \in [Gens -> Active \cup {NoManager}]
    /\ gen \in Gens /\ mgr[gen] \in Active /\ ~mgr[gen].cancelled

\* A record under a MAC has that MAC, or none: an administrator may replace it
\* by one that leaves the MAC out.
Keyed(devices) ==
    \A id \in DOMAIN devices : id \in MACs \cup {ZeroMAC} => devices[id].mac \in {id, NoField}

DiscoveryInv ==
    /\ Shaped(data)
    /\ ManagersOK
    /\ DanglingOnlyIfGiven
    /\ ~moved => Keyed(data.devices)

-----------------------------------------------------------------------------
LEMMA ImageFinite ==
    ASSUME NEW S, IsFiniteSet(S), NEW f, f = [x \in S |-> f[x]]
    PROVE  IsFiniteSet({f[x] : x \in S})
  <1>1. f \in Surjection(S, {f[x] : x \in S})
    BY DEF Surjection
  <1> QED BY <1>1, FS_Surjection

LEMMA GreatestIsIn ==
    ASSUME NEW n \in Nat, NEW S \in SUBSET (1..n), S # {}
    PROVE  Max(S) \in S
  <1> DEFINE less == {ss \in Nat \X Nat : ss[1] < ss[2]}
             T == {n - k : k \in S}
  <1>1. OpToRel(<, Nat) = less
    BY Zenon DEF OpToRel
  <1>2. IsWellFoundedOn(less, Nat)
    BY <1>1, NatLessThanWellFounded, Zenon
  <1>3. T \in SUBSET Nat /\ T # {}
    OBVIOUS
  <1>4. \E x \in T : \A y \in T : <<y, x>> \notin less
    <2> HIDE DEF T
    <2> QED BY <1>2, <1>3, WFMin, Zenon
  <1>5. PICK k \in S : \A y \in T : <<y, n - k>> \notin less
    BY <1>4
  <1>6. ASSUME NEW l \in S PROVE k >= l
    <2>1. n - l \in T /\ n - l \in Nat /\ n - k \in Nat
      OBVIOUS
    <2>2. ~(n - l < n - k)
      BY <1>5, <2>1
    <2> QED BY <2>2
  <1> QED BY <1>6 DEF Max

\* What merge writes: a record it touches keeps its user and takes the pair
\* of one report that is due to it.
LEMMA MergeWrites ==
    ASSUME NEW devices, NEW recs, IsFiniteSet(recs), NEW order \in SetToSeqs(recs), NEW idOf,
           NEW id \in DOMAIN MergeInto(devices, idOf, order)
    PROVE  LET new == MergeInto(devices, idOf, order)[id]
           IN  \/ id \in DOMAIN devices /\ new = devices[id]
               \/ \E r \in recs : idOf[r.mac] = id /\ new = Merged(devices, id, r)
  <1> DEFINE writes == {k \in DOMAIN order : idOf[order[k].mac] = id}
  <1>1. Cardinality(recs) \in Nat
    BY FS_CardinalityType
  <1>2. order \in [1..Cardinality(recs) -> recs]
    BY DEF SetToSeqs
  <1>3. CASE writes # {}
    <2>1. Max(writes) \in writes
      BY <1>1, <1>2, <1>3, GreatestIsIn
    <2>2. MergeInto(devices, idOf, order)[id] = Merged(devices, id, order[Max(writes)])
      BY <1>3 DEF MergeInto
    <2> HIDE DEF writes
    <2> DEFINE k == Max(writes)
    <2>3. k \in DOMAIN order /\ idOf[order[k].mac] = id
      BY <2>1 DEF writes
    <2> QED BY <1>2, <2>2, <2>3
  <1>4. CASE writes = {}
    <2>1. id \in DOMAIN devices
      BY <1>4 DEF MergeInto
    <2> QED BY <1>4, <2>1 DEF MergeInto
  <1> QED BY <1>3, <1>4

LEMMA MergeKeepsRecords ==
    ASSUME NEW devices, NEW idOf, NEW order
    PROVE  DOMAIN devices \subseteq DOMAIN MergeInto(devices, idOf, order)
  BY DEF MergeInto

LEMMA AssignIs ==
    ASSUME NEW d, Shaped(d), NEW ids, NEW user
    PROVE  LET e == Assign(d, ids, user)
           IN  /\ DOMAIN e = DOMAIN d
               /\ e.users = d.users
               /\ DOMAIN e.devices = DOMAIN d.devices
               /\ \A id \in DOMAIN d.devices :
                    /\ DOMAIN e.devices[id] = DOMAIN d.devices[id]
                    /\ e.devices[id].user = IF id \in ids THEN user ELSE d.devices[id].user
                    /\ e.devices[id].mac = d.devices[id].mac
  BY DEF Shaped, Assign

\* The same owners, or those an edit names, for every edit of the users.
LEMMA UserEdits ==
    ASSUME Shaped(data), DanglingOnlyIfGiven, NEW user \in Users,
           NEW ids \in SUBSET DOMAIN data.devices, EditUsers(user, ids)
    PROVE  /\ Shaped(data')
           /\ DanglingOnlyIfGiven'
           /\ DOMAIN data'.devices = DOMAIN data.devices
           /\ \A id \in DOMAIN data.devices : data'.devices[id].mac = data.devices[id].mac
  <1> DEFINE same(d) ==
               /\ DOMAIN d.devices = DOMAIN data.devices
               /\ \A id \in DOMAIN data.devices : d.devices[id].mac = data.devices[id].mac
  <1>0. UNCHANGED strays
    BY DEF EditUsers, admin
  <1>1. CASE Edit(PostUser(data, user, 0, ids))
    <2> DEFINE d == [data EXCEPT !.users = Set(@, user, 0)]
    <2>1. /\ DOMAIN d = DOMAIN data /\ d.devices = data.devices
          /\ DOMAIN d.users = DOMAIN data.users \cup {user}
      BY DEF Shaped, Set
    <2>2. Shaped(d)
      BY <2>1 DEF Shaped
    <2>3. data' = Assign(d, ids, user)
      BY <1>1 DEF Edit, PostUser, Done
    <2> HIDE DEF d
    <2>4. same(data') /\ Shaped(data')
      BY <2>1, <2>2, <2>3, AssignIs DEF Shaped
    <2>5. DanglingOnlyIfGiven'
      BY <1>0, <2>1, <2>2, <2>3, AssignIs DEF DanglingOnlyIfGiven, Dangling
    <2> QED BY <2>4, <2>5
  <1>2. CASE Edit(PutUser(data, user, 1, ids))
    <2> DEFINE c == Assign(data, Owned(data, user), NoField)
               d == [c EXCEPT !.users[user] = 1]
    <2>1. user \in DOMAIN data.users /\ data' = Assign(PutUserFields(c, user, 1).data, ids, user)
      BY <1>2 DEF Edit, PutUser, Done, Refused
    <2>2. /\ DOMAIN c = DOMAIN data /\ c.users = data.users
          /\ DOMAIN c.devices = DOMAIN data.devices
          /\ \A id \in DOMAIN data.devices :
               /\ DOMAIN c.devices[id] = DOMAIN data.devices[id]
               /\ c.devices[id].user \in {NoField, data.devices[id].user}
               /\ c.devices[id].mac = data.devices[id].mac
      BY AssignIs
    <2> HIDE DEF c
    <2>3. PutUserFields(c, user, 1).data = d
      BY <2>1, <2>2 DEF PutUserFields, Done
    <2>4. /\ DOMAIN d = DOMAIN data /\ DOMAIN d.users = DOMAIN data.users
          /\ d.devices = c.devices
      BY <2>2 DEF Shaped
    <2>5. Shaped(d)
      BY <2>2, <2>4 DEF Shaped
    <2> HIDE DEF d
    <2>6. data' = Assign(d, ids, user)
      BY <2>1, <2>3
    <2>7. same(data') /\ Shaped(data')
      BY <2>2, <2>4, <2>5, <2>6, AssignIs DEF Shaped
    <2>8. DanglingOnlyIfGiven'
      BY <1>0, <2>1, <2>2, <2>4, <2>5, <2>6, AssignIs DEF DanglingOnlyIfGiven, Dangling
    <2> QED BY <2>7, <2>8
  <1>3. CASE Edit(PutUserFields(data, user, 1))
    <2>1. data' = [data EXCEPT !.users[user] = 1]
      BY <1>3 DEF Edit, PutUserFields, Done, Refused
    <2>2. /\ DOMAIN data' = DOMAIN data /\ data'.devices = data.devices
          /\ DOMAIN data'.users = DOMAIN data.users
      BY <2>1 DEF Shaped
    <2> QED BY <1>0, <2>2 DEF Shaped, DanglingOnlyIfGiven, Dangling
  <1>4. CASE Edit(DeleteUser(data, user))
    <2> DEFINE d == [data EXCEPT !.users = Without(@, user)]
    <2>1. /\ DOMAIN d = DOMAIN data /\ d.devices = data.devices
          /\ DOMAIN d.users = DOMAIN data.users \ {user}
      BY DEF Shaped, Without
    <2>2. Shaped(d)
      BY <2>1 DEF Shaped
    <2>3. data' = Assign(d, Owned(data, user), NoField)
      BY <1>4 DEF Edit, DeleteUser, Done
    <2> HIDE DEF d
    <2>4. same(data') /\ Shaped(data')
      BY <2>1, <2>2, <2>3, AssignIs DEF Shaped
    <2>5. DanglingOnlyIfGiven'
      BY <1>0, <2>1, <2>2, <2>3, AssignIs DEF DanglingOnlyIfGiven, Dangling, Owned
    <2> QED BY <2>4, <2>5
  <1> QED BY <1>1, <1>2, <1>3, <1>4 DEF EditUsers

LEMMA DeviceEdits ==
    ASSUME Shaped(data), DanglingOnlyIfGiven, NEW id, NEW mac, NEW ip, NEW user,
           EditDevice(id, mac, ip, user)
    PROVE  /\ Shaped(data')
           /\ DanglingOnlyIfGiven'
           /\ ~moved' => \A k \in DOMAIN data'.devices :
                            \/ k \in DOMAIN data.devices /\ data'.devices[k].mac = data.devices[k].mac
                            \/ k \in MACs \cup {ZeroMAC} => data'.devices[k].mac \in {k, NoField}
  <1>1. CASE Edit(PostDevice(data, id, mac, ip, user))
    <2> DEFINE new == [mac |-> mac, ip |-> ip, user |-> user]
    <2>1. data' = [data EXCEPT !.devices = Set(@, id, new)]
      BY <1>1 DEF Edit, PostDevice, Done
    <2>2. DOMAIN new = {"mac", "ip", "user"} /\ new.user = user
      OBVIOUS
    <2> HIDE DEF new
    <2>3. /\ DOMAIN data' = DOMAIN data /\ data'.users = data.users
          /\ data'.devices = Set(data.devices, id, new)
      BY <2>1 DEF Shaped
    <2>4. /\ DOMAIN data'.devices = DOMAIN data.devices \cup {id}
          /\ data'.devices[id] = new
          /\ \A k \in DOMAIN data.devices : k # id => data'.devices[k] = data.devices[k]
      BY <2>3 DEF Set
    <2>5. Shaped(data')
      BY <2>2, <2>3, <2>4 DEF Shaped
    <2>6. DanglingOnlyIfGiven'
      BY <2>3, <2>4 DEF EditDevice, DanglingOnlyIfGiven, Dangling
    <2>7. ~moved' => (id \in MACs \cup {ZeroMAC} => new.mac \in {id, NoField})
      BY DEF EditDevice, new
    <2> QED BY <2>4, <2>5, <2>6, <2>7
  <1>2. CASE Edit(PutDevice(data, id, mac, ip, user))
    <2> DEFINE cur == data.devices[id]
               new == [mac |-> OrElse(mac, cur.mac), ip |-> OrElse(ip, cur.ip),
                       user |-> OrElse(user, cur.user)]
    <2>1. id \in DOMAIN data.devices /\ data' = [data EXCEPT !.devices[id] = new]
      BY <1>2 DEF Edit, PutDevice, Done, Refused
    <2>2. /\ DOMAIN new = {"mac", "ip", "user"}
          /\ new.user = OrElse(user, cur.user) /\ new.mac = OrElse(mac, cur.mac)
      OBVIOUS
    <2> HIDE DEF new
    <2>3. /\ DOMAIN data' = DOMAIN data /\ data'.users = data.users
          /\ data'.devices = [data.devices EXCEPT ![id] = new]
      BY <2>1 DEF Shaped
    <2>4. /\ DOMAIN data'.devices = DOMAIN data.devices
          /\ data'.devices[id] = new
          /\ \A k \in DOMAIN data.devices : k # id => data'.devices[k] = data.devices[k]
      BY <2>1, <2>3
    <2>5. Shaped(data')
      BY <2>2, <2>3, <2>4 DEF Shaped
    <2>6. DanglingOnlyIfGiven'
      BY <2>1, <2>3, <2>4 DEF EditDevice, DanglingOnlyIfGiven, Dangling
    <2>7. ~moved' => ~(id \in MACs \cup {ZeroMAC} /\ mac \notin {id, NoField})
      BY DEF EditDevice
    <2>8. CASE mac = NoField
      <3>1. new.mac = data.devices[id].mac
        BY <2>2, <2>8 DEF OrElse
      <3> QED BY <2>1, <2>4, <2>5, <2>6, <3>1
    <2>9. CASE mac # NoField
      <3>1. new.mac = mac
        BY <2>2, <2>9 DEF OrElse
      <3> QED BY <2>4, <2>5, <2>6, <2>7, <2>9, <3>1
    <2> QED BY <2>8, <2>9
  <1> QED BY <1>1, <1>2 DEF EditDevice

LEMMA OtherEdits ==
    ASSUME Shaped(data), DanglingOnlyIfGiven, NEW id, RemoveDevice(id) \/ EditRules(id)
    PROVE  /\ Shaped(data')
           /\ DanglingOnlyIfGiven'
           /\ DOMAIN data'.devices \subseteq DOMAIN data.devices
           /\ \A k \in DOMAIN data'.devices : data'.devices[k] = data.devices[k]
  <1>1. CASE RemoveDevice(id)
    <2>1. data' = [data EXCEPT !.devices = Without(@, id)] /\ UNCHANGED strays
      BY <1>1 DEF RemoveDevice, Edit, DeleteDevice, Done, admin
    <2>2. /\ DOMAIN data' = DOMAIN data /\ data'.users = data.users
          /\ data'.devices = Without(data.devices, id)
      BY <2>1 DEF Shaped
    <2> QED BY <2>1, <2>2 DEF Shaped, DanglingOnlyIfGiven, Dangling, Without
  <1>2. CASE EditRules(id)
    <2>1. /\ DOMAIN data' = DOMAIN data /\ data'.users = data.users
          /\ data'.devices = data.devices
      BY <1>2 DEF EditRules, Edit, PostRule, DeleteRule, PutRule, Done, Refused, Shaped
    <2>2. UNCHANGED strays
      BY <1>2 DEF EditRules, admin
    <2> QED BY <2>1, <2>2 DEF Shaped, DanglingOnlyIfGiven, Dangling
  <1> QED BY <1>1, <1>2

\* What a source shows is finite and has addresses of the network.
LEMMA ReportsOK ==
    ASSUME ManagersOK
    PROVE  /\ \A source \in {"arp", "router"} : Attached(source) \in ReportSets
           /\ {Found("arp", ZeroMAC, ip) : ip \in Asked \ {net[m] : m \in Present}} \in ReportSets
           /\ \A list \in Lists : Static(list) \in ReportSets
  <1>1. ASSUME NEW source \in {"arp", "router"} PROVE Attached(source) \in ReportSets
    <2> DEFINE f == [m \in Present |-> Found(source, m, net[m])]
    <2>1. IsFiniteSet(Present)
      BY DiscoveryAssumption, FS_Subset DEF Present
    <2>2. {f[m] : m \in Present} = Attached(source)
      BY DEF Attached
    <2>3. IsFiniteSet({f[m] : m \in Present})
      <3>1. f = [m \in Present |-> f[m]]
        OBVIOUS
      <3> HIDE DEF f
      <3> QED BY <2>1, <3>1, ImageFinite
    <2>4. Attached(source) \subseteq Reports
      BY DEF Attached, Found, Reports, Present, ManagersOK
    <2> QED BY <2>2, <2>3, <2>4 DEF ReportSets
  <1>2. {Found("arp", ZeroMAC, ip) : ip \in Asked \ {net[m] : m \in Present}} \in ReportSets
    <2> DEFINE S == Asked \ {net[m] : m \in Present}
               f == [ip \in S |-> Found("arp", ZeroMAC, ip)]
    <2>1. IsFiniteSet(S) /\ S \subseteq IPs
      BY DiscoveryAssumption, FS_Subset
    <2>2. {f[ip] : ip \in S} = {Found("arp", ZeroMAC, ip) : ip \in S}
      OBVIOUS
    <2> HIDE DEF S
    <2>3. IsFiniteSet({f[ip] : ip \in S})
      <3>1. f = [ip \in S |-> f[ip]]
        OBVIOUS
      <3> HIDE DEF f
      <3> QED BY <2>1, <3>1, ImageFinite
    <2>4. {Found("arp", ZeroMAC, ip) : ip \in S} \subseteq Reports
      BY <2>1 DEF Found, Reports
    <2>5. {Found("arp", ZeroMAC, ip) : ip \in S} \in ReportSets
      BY <2>2, <2>3, <2>4 DEF ReportSets
    <2> QED BY <2>5 DEF S
  <1>3. ASSUME NEW list \in Lists PROVE Static(list) \in ReportSets
    <2> DEFINE f == [m \in DOMAIN list |-> Found("static", m, list[m])]
    <2>0. DOMAIN list \in SUBSET MACs /\ \A m \in DOMAIN list : list[m] \in IPs
      BY DEF Lists
    <2>1. IsFiniteSet(DOMAIN list)
      BY <2>0, DiscoveryAssumption, FS_Subset
    <2>2. {f[m] : m \in DOMAIN list} = Static(list)
      BY DEF Static
    <2>3. IsFiniteSet({f[m] : m \in DOMAIN list})
      <3>1. f = [m \in DOMAIN list |-> f[m]]
        OBVIOUS
      <3> HIDE DEF f
      <3> QED BY <2>1, <3>1, ImageFinite
    <2>4. Static(list) \subseteq Reports
      BY <2>0 DEF Static, Found, Reports
    <2> QED BY <2>2, <2>3, <2>4 DEF ReportSets
  <1> QED BY <1>1, <1>2, <1>3

LEMMA ReportSetsUnion ==
    ASSUME NEW S \in ReportSets, NEW T \in ReportSets PROVE S \cup T \in ReportSets
  BY FS_Union DEF ReportSets

LEMMA RunningIsActive ==
    ASSUME ManagersOK, NEW g \in Gens, mgr[g].pc \in {"idle", "rest", "merge"}
    PROVE  mgr[g] \in Active
  BY DEF ManagersOK, NoManager

LEMMA NewManagerOK ==
    /\ \A list \in Lists : Manager(list) \in Active /\ ~Manager(list).cancelled
    /\ NoStatic \in Lists
    /\ StaticLists \subseteq Lists
    /\ 0 \in Gens
  <1>1. ASSUME NEW list \in Lists PROVE Manager(list) \in Active /\ ~Manager(list).cancelled
    <2>1. {} \in ReportSets
      BY FS_EmptySet DEF ReportSets
    <2> QED BY <2>1 DEF Manager, Active
  <1>2. NoStatic \in [{} -> IPs]
    BY DEF NoStatic
  <1>3. ASSUME NEW list \in StaticLists PROVE list \in Lists
    <2>1. DOMAIN list \in SUBSET MACs /\ list \in [DOMAIN list -> IPs]
      BY NetworkAssumption
    <2>2. [DOMAIN list -> IPs] \in {[D -> IPs] : D \in SUBSET MACs}
      BY <2>1
    <2> QED BY <2>1, <2>2, Zenon DEF Lists
  <1>4. NoStatic \in Lists
    <2>1. [{} -> IPs] \in {[D -> IPs] : D \in SUBSET MACs}
      OBVIOUS
    <2> QED BY <1>2, <2>1, Zenon DEF Lists
  <1>5. 0 \in Gens
    BY DiscoveryAssumption DEF Gens
  <1> QED BY <1>1, <1>3, <1>4, <1>5

LEMMA ManagersPreserved ==
    ASSUME ManagersOK, [DiscoveryNext]_discoveryVars
    PROVE  ManagersOK'
  <1>1. ASSUME NEW g \in Gens, NEW m \in Active \cup {NoManager}, mgr[g] \in Active,
               mgr' = [mgr EXCEPT ![g] = m], UNCHANGED <<net, gen>>,
               g = gen => m \in Active /\ ~m.cancelled
        PROVE  ManagersOK'
    BY <1>1 DEF ManagersOK
  <1>2. ASSUME NEW g \in Gens, DiscoverARP(g) PROVE ManagersOK'
    <2> DEFINE zero == {Found("arp", ZeroMAC, ip) : ip \in Asked \ {net[m] : m \in Present}}
               recs == Attached("arp") \cup zero
               m == [mgr[g] EXCEPT !.pc = "rest", !.recs = recs]
    <2>1. mgr[g] \in Active
      BY <1>2, RunningIsActive DEF DiscoverARP
    <2>2. recs \in ReportSets
      <3>1. Attached("arp") \in ReportSets /\ zero \in ReportSets
        BY ReportsOK
      <3> HIDE DEF zero
      <3> QED BY <3>1, ReportSetsUnion
    <2>3. mgr' = [mgr EXCEPT ![g] = m] /\ UNCHANGED <<net, gen>>
      BY <1>2 DEF DiscoverARP
    <2> HIDE DEF recs
    <2>4. m \in Active /\ m.cancelled = mgr[g].cancelled
      BY <2>1, <2>2 DEF Active
    <2> HIDE DEF m
    <2> QED BY <1>1, <2>1, <2>3, <2>4 DEF ManagersOK
  <1>3. ASSUME NEW g \in Gens, DiscoverRest(g) PROVE ManagersOK'
    <2>1. mgr[g] \in Active
      BY <1>3, RunningIsActive DEF DiscoverRest
    <2>2. mgr[g].static \in Lists /\ mgr[g].recs \in ReportSets
      BY <2>1 DEF Active
    <2>3. PICK recs \in {Static(mgr[g].static), Static(mgr[g].static) \cup Attached("router")} :
             mgr' = [mgr EXCEPT ![g].pc = IF mgr[g].recs \cup recs = {} THEN "idle" ELSE "merge",
                                ![g].recs = @ \cup recs]
      BY <1>3 DEF DiscoverRest
    <2>4. recs \in ReportSets
      BY <2>2, <2>3, ReportsOK, ReportSetsUnion
    <2>5. mgr[g].recs \cup recs \in ReportSets
      BY <2>2, <2>4, ReportSetsUnion
    <2> DEFINE m == [mgr[g] EXCEPT !.pc = IF mgr[g].recs \cup recs = {} THEN "idle" ELSE "merge",
                                   !.recs = mgr[g].recs \cup recs]
    <2>6. mgr' = [mgr EXCEPT ![g] = m] /\ UNCHANGED <<net, gen>>
      BY <1>3, <2>3 DEF DiscoverRest
    <2>7. m \in Active /\ m.cancelled = mgr[g].cancelled
      BY <2>1, <2>5 DEF Active
    <2> HIDE DEF m
    <2> QED BY <1>1, <2>1, <2>6, <2>7 DEF ManagersOK
  <1>4. ASSUME NEW g \in Gens, NEW saved \in BOOLEAN, Merge(g, saved) PROVE ManagersOK'
    <2> DEFINE m == [mgr[g] EXCEPT !.pc = "idle", !.recs = {}]
    <2>1. mgr[g] \in Active
      BY <1>4, RunningIsActive DEF Merge
    <2>2. mgr' = [mgr EXCEPT ![g] = m] /\ UNCHANGED <<net, gen>>
      BY <1>4 DEF Merge
    <2>3. {} \in ReportSets
      BY FS_EmptySet DEF ReportSets
    <2>4. m \in Active /\ m.cancelled = mgr[g].cancelled
      BY <2>1, <2>3 DEF Active
    <2> HIDE DEF m
    <2> QED BY <1>1, <2>1, <2>2, <2>4 DEF ManagersOK
  <1>5. ASSUME NEW g \in Gens, Stop(g) PROVE ManagersOK'
    <2>1. mgr[g] \in Active /\ g # gen
      BY <1>5, RunningIsActive DEF Stop, ManagersOK
    <2> QED BY <1>1, <1>5, <2>1 DEF Stop
  <1>6. ASSUME NEW list \in StaticLists, StartDiscoveryManager(list) PROVE ManagersOK'
    <2> DEFINE old == [mgr[gen] EXCEPT !.cancelled = TRUE]
    <2>1. gen \in Gens /\ gen + 1 \in Gens /\ gen # gen + 1 /\ gen' = gen + 1
      BY <1>6, DiscoveryAssumption DEF StartDiscoveryManager, ManagersOK, Gens
    <2>2. mgr' = [[mgr EXCEPT ![gen] = old] EXCEPT ![gen + 1] = Manager(list)]
      BY <1>6 DEF StartDiscoveryManager
    <2>3. old \in Active
      BY DEF ManagersOK, Active
    <2>4. Manager(list) \in Active /\ ~Manager(list).cancelled
      BY <1>6, NewManagerOK
    <2>5. UNCHANGED net
      BY <1>6 DEF StartDiscoveryManager
    <2> HIDE DEF old
    <2> QED BY <2>1, <2>2, <2>3, <2>4, <2>5 DEF ManagersOK
  <1>7. ASSUME NEW m \in MACs, NEW ip \in IPs \cup {Away}, Move(m, ip) PROVE ManagersOK'
    BY <1>7 DEF Move, ManagersOK
  <1>8. CASE AdminStep
    BY <1>8 DEF AdminStep, EditUsers, EditDevice, RemoveDevice, EditRules, Edit, ManagersOK
  <1>9. CASE UNCHANGED discoveryVars
    BY <1>9 DEF discoveryVars, ManagersOK
  <1> QED
    BY <1>2, <1>3, <1>4, <1>5, <1>6, <1>7, <1>8, <1>9 DEF DiscoveryNext, ManagerStep

\* What a merge does to the records: nothing, or every record is the one that
\* was there or has the pair of a report, which came under its own MAC when
\* there was no record of it.
LEMMA MergeStep ==
    ASSUME Shaped(data), ManagersOK, NEW g \in Gens, NEW saved \in BOOLEAN, Merge(g, saved),
           data' # data
    PROVE  /\ DOMAIN data' = DOMAIN data /\ data'.users = data.users
           /\ DOMAIN data.devices \subseteq DOMAIN data'.devices
           /\ \A id \in DOMAIN data'.devices :
                 \/ id \in DOMAIN data.devices /\ data'.devices[id] = data.devices[id]
                 \/ \E r \in mgr[g].recs :
                       /\ r \in Reports
                       /\ id \in IdsFor(data.devices, r.mac)
                       /\ data'.devices[id] = Merged(data.devices, id, r)
  <1> DEFINE macs == {r.mac : r \in mgr[g].recs}
             ids == UNION {IdsFor(data.devices, m) : m \in macs}
  <1>1. PICK recs \in Collapses(mgr[g].recs), idOf \in [macs -> ids] :
           \E order \in SetToSeqs(recs) :
             /\ \A m \in macs : idOf[m] \in IdsFor(data.devices, m)
             /\ data' = IF saved THEN [data EXCEPT !.devices = MergeInto(@, idOf, order)] ELSE data
    BY DEF Merge
  <1>7. PICK order \in SetToSeqs(recs) :
          /\ \A m \in macs : idOf[m] \in IdsFor(data.devices, m)
          /\ data' = IF saved THEN [data EXCEPT !.devices = MergeInto(@, idOf, order)] ELSE data
    BY <1>1
  <1>2. mgr[g] \in Active
    BY RunningIsActive DEF Merge
  <1>3. mgr[g].recs \in ReportSets
    BY <1>2 DEF Active
  <1>4. recs \subseteq mgr[g].recs /\ IsFiniteSet(recs) /\ recs \subseteq Reports
    BY <1>3, FS_Subset DEF ReportSets, Collapses
  <1>5. \A r \in recs : idOf[r.mac] \in IdsFor(data.devices, r.mac)
    BY <1>4, <1>7
  <1>6. /\ DOMAIN data' = DOMAIN data /\ data'.users = data.users
        /\ data'.devices = MergeInto(data.devices, idOf, order)
    BY <1>7 DEF Shaped
  <1> HIDE DEF macs
  <1> QED BY <1>4, <1>5, <1>6, <1>7, MergeWrites, MergeKeepsRecords

LEMMA MergedIs ==
    ASSUME NEW devices, NEW id, NEW r
    PROVE  LET new == Merged(devices, id, r)
           IN  /\ DOMAIN new = {"mac", "ip", "user"}
               /\ new.mac = r.mac /\ new.ip = r.ip
               /\ new.user = IF id \in DOMAIN devices THEN devices[id].user ELSE NoField
  BY DEF Merged

LEMMA MergeKeepsShape ==
    ASSUME Shaped(data), ManagersOK, DanglingOnlyIfGiven,
           NEW g \in Gens, NEW saved \in BOOLEAN, Merge(g, saved)
    PROVE  Shaped(data') /\ DanglingOnlyIfGiven'
  <1>0. UNCHANGED strays
    BY DEF Merge, admin
  <1>1. CASE data' = data
    BY <1>0, <1>1 DEF DanglingOnlyIfGiven, Dangling
  <1>2. CASE data' # data
    <2>1. ASSUME NEW id \in DOMAIN data'.devices
          PROVE  /\ DOMAIN data'.devices[id] = {"mac", "ip", "user"}
                 /\ data'.devices[id].user =
                       IF id \in DOMAIN data.devices THEN data.devices[id].user ELSE NoField
      BY <1>2, MergeStep, MergedIs DEF Shaped
    <2>2. DOMAIN data' = DOMAIN data /\ data'.users = data.users
      BY <1>2, MergeStep
    <2> QED BY <1>0, <2>1, <2>2 DEF Shaped, DanglingOnlyIfGiven, Dangling
  <1> QED BY <1>1, <1>2

\* As long as records are under their own MAC, a merge leaves every record its
\* MAC and its user, but for one under a MAC that no record has: it makes that
\* one, or gives it its MAC.
LEMMA MergeKeepsMACs ==
    ASSUME Shaped(data), ManagersOK, Keyed(data.devices),
           NEW g \in Gens, NEW saved \in BOOLEAN, Merge(g, saved),
           NEW id \in DOMAIN data'.devices
    PROVE  \/ /\ id \in DOMAIN data.devices
              /\ data'.devices[id].mac = data.devices[id].mac
              /\ data'.devices[id].user = data.devices[id].user
           \/ /\ data'.devices[id].mac = id
              /\ \A k \in DOMAIN data.devices : data.devices[k].mac # id
              /\ id \in DOMAIN data.devices => data.devices[id].mac = NoField
  <1>1. CASE id \in DOMAIN data.devices /\ data'.devices[id] = data.devices[id]
    BY <1>1
  <1>2. CASE ~(id \in DOMAIN data.devices /\ data'.devices[id] = data.devices[id])
    <2>0. data' # data
      BY <1>2
    <2>1. PICK r \in mgr[g].recs :
             /\ r \in Reports
             /\ id \in IdsFor(data.devices, r.mac)
             /\ data'.devices[id] = Merged(data.devices, id, r)
      BY <1>2, <2>0, MergeStep
    <2>2. /\ r.mac \in MACs \cup {ZeroMAC}
          /\ data'.devices[id].mac = r.mac
          /\ id \in DOMAIN data.devices => data'.devices[id].user = data.devices[id].user
      BY <2>1, MergedIs DEF Reports
    <2>3. CASE \E k \in DOMAIN data.devices : data.devices[k].mac = r.mac
      <3>1. id \in DOMAIN data.devices /\ data.devices[id].mac = r.mac
        BY <2>1, <2>3 DEF IdsFor
      <3> QED BY <2>2, <3>1
    <2>4. CASE \A k \in DOMAIN data.devices : data.devices[k].mac # r.mac
      <3>1. id = r.mac
        BY <2>1, <2>4 DEF IdsFor
      <3>2. id \in DOMAIN data.devices => data.devices[id].mac = NoField
        BY <2>2, <2>4, <3>1 DEF Keyed
      <3> QED BY <2>2, <2>4, <3>1, <3>2
    <2> QED BY <2>3, <2>4
  <1> QED BY <1>1, <1>2

LEMMA DiscoveryInitInv ==
    DiscoveryInit => DiscoveryInv
  <1> SUFFICES ASSUME DiscoveryInit PROVE DiscoveryInv
    OBVIOUS
  <1>1. Shaped(data)
    BY BootAssumption DEF DiscoveryInit, Shaped
  <1>2. ManagersOK
    <2>1. Manager(NoStatic) \in Active /\ ~Manager(NoStatic).cancelled /\ 0 \in Gens
      BY NewManagerOK
    <2> QED BY <2>1, NetworkAssumption DEF DiscoveryInit, ManagersOK
  <1> QED
    BY <1>1, <1>2 DEF DiscoveryInit, DiscoveryInv, DanglingOnlyIfGiven, Keyed

LEMMA DiscoveryPreserved ==
    ASSUME DiscoveryInv, [DiscoveryNext]_discoveryVars
    PROVE  DiscoveryInv'
  <1> USE DEF DiscoveryInv
  <1>0. ManagersOK'
    BY ManagersPreserved
  <1>1. ASSUME NEW user \in Users, NEW ids \in {{}} \cup {{id} : id \in DOMAIN data.devices},
               EditUsers(user, ids)
        PROVE  DiscoveryInv'
    <2>1. ids \in SUBSET DOMAIN data.devices /\ UNCHANGED moved
      BY <1>1 DEF EditUsers, admin
    <2> QED BY <1>0, <1>1, <2>1, UserEdits DEF Keyed
  <1>2. ASSUME NEW id, NEW mac, NEW ip, NEW user, EditDevice(id, mac, ip, user)
        PROVE  DiscoveryInv'
    <2>1. ~moved' => ~moved
      BY <1>2 DEF EditDevice
    <2>2. Shaped(data)' /\ DanglingOnlyIfGiven'
      BY <1>2, DeviceEdits
    <2>3. ~moved' => Keyed(data'.devices)
      BY <1>2, <2>1, DeviceEdits, DiscoveryAssumption DEF Keyed
    <2> QED BY <1>0, <2>2, <2>3 DEF Keyed
  <1>3. ASSUME NEW id, RemoveDevice(id) \/ EditRules(id) PROVE DiscoveryInv'
    <2>1. UNCHANGED moved
      BY <1>3 DEF RemoveDevice, EditRules, admin
    <2> QED BY <1>0, <1>3, <2>1, OtherEdits DEF Keyed
  <1>4. CASE AdminStep
    BY <1>1, <1>2, <1>3, <1>4 DEF AdminStep
  <1>5. ASSUME NEW g \in Gens, NEW saved \in BOOLEAN, Merge(g, saved) PROVE DiscoveryInv'
    <2>1. UNCHANGED moved
      BY <1>5 DEF Merge, admin
    <2>2. ~moved => Keyed(data'.devices)
      BY <1>5, MergeKeepsMACs DEF Keyed
    <2> QED BY <1>0, <1>5, <2>1, <2>2, MergeKeepsShape DEF Keyed
  <1>6. CASE UNCHANGED <<data, strays, moved>>
    BY <1>0, <1>6 DEF Keyed, DanglingOnlyIfGiven, Dangling
  <1> QED
    BY <1>4, <1>5, <1>6
    DEF DiscoveryNext, ManagerStep, Move, DiscoverARP, DiscoverRest, Stop,
        StartDiscoveryManager, discoveryVars, admin

LEMMA DiscoveryInvariance ==
    DiscoverySpec => []DiscoveryInv
  <1>1. DiscoveryInv /\ [DiscoveryNext]_discoveryVars => DiscoveryInv'
    BY DiscoveryPreserved
  <1> QED BY <1>1, DiscoveryInitInv, PTL DEF DiscoverySpec

\* A device's owner exists or was given to it although he did not: no delete
\* and no merge, in whatever order, leaves an owner behind (adminserver.go:446-462).
THEOREM NoOwnerIsLeftBehind ==
    DiscoverySpec => []DanglingOnlyIfGiven
  BY DiscoveryInvariance, PTL DEF DiscoveryInv

\* In every reachable state and for every list, the list in a PUT of a user
\* is the assignment afterwards.
THEOREM PutReplacesTheAssignment ==
    DiscoverySpec => []ListIsTheAssignment
  <1>1. DiscoveryInv => ListIsTheAssignment
    <2> SUFFICES ASSUME Shaped(data), NEW user \in DOMAIN data.users,
                        NEW ids \in SUBSET DOMAIN data.devices
                 PROVE  LET d == PutUser(data, user, 0, ids).data
                        IN  /\ DeviceRefs(d)[user] = ids
                            /\ \A other \in DOMAIN data.users \ {user} :
                                 DeviceRefs(d)[other] = DeviceRefs(data)[other] \ ids
      BY DEF DiscoveryInv, ListIsTheAssignment
    <2> DEFINE c == Assign(data, Owned(data, user), NoField)
               d == [c EXCEPT !.users[user] = c.users[user]]
               e == Assign(d, ids, user)
    <2>1. /\ DOMAIN c = DOMAIN data /\ c.users = data.users
          /\ DOMAIN c.devices = DOMAIN data.devices
          /\ \A id \in DOMAIN data.devices :
               /\ DOMAIN c.devices[id] = DOMAIN data.devices[id]
               /\ c.devices[id].user = IF data.devices[id].user = user THEN NoField
                                       ELSE data.devices[id].user
      BY AssignIs DEF Owned
    <2>2. PutUser(data, user, 0, ids).data = Assign(PutUserFields(c, user, 0).data, ids, user)
      BY DEF PutUser, Done
    <2> HIDE DEF c
    <2>3. PutUserFields(c, user, 0).data = d
      BY <2>1 DEF PutUserFields, Done
    <2>4. DOMAIN d = DOMAIN data /\ DOMAIN d.users = DOMAIN data.users /\ d.devices = c.devices
      BY <2>1 DEF Shaped
    <2>5. Shaped(d)
      BY <2>1, <2>4 DEF Shaped
    <2> HIDE DEF d
    <2>6. /\ DOMAIN e.users = DOMAIN data.users
          /\ DOMAIN e.devices = DOMAIN data.devices
          /\ \A id \in DOMAIN data.devices :
               e.devices[id].user = IF id \in ids THEN user
                                    ELSE IF data.devices[id].user = user THEN NoField
                                    ELSE data.devices[id].user
      BY <2>1, <2>4, <2>5, AssignIs
    <2> HIDE DEF e
    <2>7. NoField \notin DOMAIN data.users
      BY DiscoveryAssumption DEF Shaped
    <2>8. Owned(e, user) = ids
      BY <2>6, <2>7 DEF Owned
    <2>9. \A other \in DOMAIN data.users \ {user} : Owned(e, other) = Owned(data, other) \ ids
      BY <2>6, <2>7 DEF Owned
    <2>10. PutUser(data, user, 0, ids).data = e
      BY <2>2, <2>3 DEF e
    <2> QED BY <2>6, <2>8, <2>9, <2>10 DEF DeviceRefs
  <1> QED BY <1>1, DiscoveryInvariance, PTL

\* Merges by any managers write only pairs that one source reported.
THEOREM DiscoveryWritesReportedPairs ==
    DiscoverySpec => PairsWereReported
  <1> DEFINE Reported ==
        mgr' # mgr =>
          \A id \in DOMAIN data'.devices :
            \/ id \in DOMAIN data.devices /\ data'.devices[id] = data.devices[id]
            \/ \E g \in Gens : mgr[g].pc = "merge" /\
                  <<data'.devices[id].mac, data'.devices[id].ip>> \in Pairs(mgr[g].recs)
  <1>1. ASSUME DiscoveryInv, DiscoveryNext PROVE Reported
    <2>1. CASE data' = data
      BY <2>1
    <2>2. CASE mgr' = mgr
      BY <2>2
    <2>3. ASSUME NEW g \in Gens, NEW saved \in BOOLEAN, Merge(g, saved), data' # data
          PROVE  Reported
      <3>1. mgr[g].pc = "merge"
        BY <2>3 DEF Merge
      <3> SUFFICES ASSUME NEW id \in DOMAIN data'.devices,
                          ~(id \in DOMAIN data.devices /\ data'.devices[id] = data.devices[id])
                   PROVE  <<data'.devices[id].mac, data'.devices[id].ip>> \in Pairs(mgr[g].recs)
        BY <3>1
      <3>2. PICK r \in mgr[g].recs : data'.devices[id] = Merged(data.devices, id, r)
        BY <1>1, <2>3, MergeStep DEF DiscoveryInv
      <3>3. data'.devices[id].mac = r.mac /\ data'.devices[id].ip = r.ip
        BY <3>2, MergedIs
      <3> QED BY <3>3 DEF Pairs
    <2>4. CASE AdminStep
      BY <2>2, <2>4 DEF AdminStep, EditUsers, EditDevice, RemoveDevice, EditRules, Edit
    <2> HIDE DEF Reported
    <2> QED
      BY <1>1, <2>1, <2>3, <2>4
      DEF DiscoveryNext, ManagerStep, Move, DiscoverARP, DiscoverRest, Stop, StartDiscoveryManager
  <1>2. DiscoveryInv /\ [DiscoveryNext]_discoveryVars => [Reported]_discoveryVars
    <2> HIDE DEF Reported
    <2> QED BY <1>1
  <1> QED BY <1>2, DiscoveryInvariance, PTL DEF DiscoverySpec, PairsWereReported

\* Merges by any managers leave every device its user and its only record.
THEOREM DiscoveryKeepsEveryOwner ==
    DiscoverySpec => DiscoveryKeepsOwners
  <1> DEFINE Kept ==
        mgr' # mgr /\ ~moved =>
          \A m \in MACs :
             DOMAIN OwnersOf(data, m) # {} => OwnersOf(data', m) = OwnersOf(data, m)
  <1>1. ASSUME DiscoveryInv, DiscoveryNext PROVE Kept
    <2>1. CASE data' = data
      BY <2>1
    <2>2. CASE mgr' = mgr
      BY <2>2
    <2>3. ASSUME NEW g \in Gens, NEW saved \in BOOLEAN, Merge(g, saved), data' # data, ~moved
          PROVE  Kept
      <3>1. DOMAIN data.devices \subseteq DOMAIN data'.devices
        BY <1>1, <2>3, MergeStep DEF DiscoveryInv
      <3>2. \A id \in DOMAIN data'.devices :
              \/ /\ id \in DOMAIN data.devices
                 /\ data'.devices[id].mac = data.devices[id].mac
                 /\ data'.devices[id].user = data.devices[id].user
              \/ /\ data'.devices[id].mac = id
                 /\ \A k \in DOMAIN data.devices : data.devices[k].mac # id
                 /\ id \in DOMAIN data.devices => data.devices[id].mac = NoField
        BY <1>1, <2>3, MergeKeepsMACs DEF DiscoveryInv
      <3> SUFFICES ASSUME NEW m \in MACs, DOMAIN OwnersOf(data, m) # {}
                   PROVE  OwnersOf(data', m) = OwnersOf(data, m)
        OBVIOUS
      <3>6. m # NoField
        BY DiscoveryAssumption
      <3>3. PICK k \in DOMAIN data.devices : data.devices[k].mac = m
        BY DEF OwnersOf
      <3>4. {id \in DOMAIN data'.devices : data'.devices[id].mac = m} =
              {id \in DOMAIN data.devices : data.devices[id].mac = m}
        BY <3>1, <3>2, <3>3, <3>6
      <3>5. \A id \in DOMAIN data.devices :
              data.devices[id].mac = m => data'.devices[id].user = data.devices[id].user
        BY <3>1, <3>2, <3>6
      <3> QED BY <3>4, <3>5 DEF OwnersOf
    <2>4. CASE AdminStep
      BY <2>2, <2>4 DEF AdminStep, EditUsers, EditDevice, RemoveDevice, EditRules, Edit
    <2>5. CASE moved
      BY <2>5
    <2> HIDE DEF Kept
    <2> QED
      BY <1>1, <2>1, <2>3, <2>4, <2>5
      DEF DiscoveryNext, ManagerStep, Move, DiscoverARP, DiscoverRest, Stop, StartDiscoveryManager
  <1>2. DiscoveryInv /\ [DiscoveryNext]_discoveryVars => [Kept]_discoveryVars
    <2> HIDE DEF Kept
    <2> QED BY <1>1
  <1> QED BY <1>2, DiscoveryInvariance, PTL DEF DiscoverySpec, DiscoveryKeepsOwners
=============================================================================
