------------------------- MODULE PolicyRuntimeProofs -------------------------
(***************************************************************************)
(* Proofs about the policy runtime, for any number of requests, writers,   *)
(* commits and reloads and any durations.  The inductive invariant follows *)
(* a version from the snapshot to the globals and from there to what a     *)
(* request has read.                                                       *)
(***************************************************************************)
EXTENDS PolicyRuntime, TLAPS

\* Version v was not replaced before time t.
CurrentAt(v, t) == v < store => t <= commitTime[v + 1]

\* Version v is one that a request may read whose notified changes go up to n
\* and whose refresh ended at t.
Good(v, n, t) == v >= n /\ CurrentAt(v, t - (RefreshPeriod + CompileTime))

\* Only the holder of the store's mutex mutates; it has a version to commit.
StoreLock ==
    /\ \A w \in Writers : writer[w].pc = "mutate" => storeMu = w
    /\ storeMu # None => store < MaxVersion

\* Nobody is notified of what is not committed, and no date is ahead.
History ==
    /\ notified <= store
    /\ \A w \in Writers : writer[w].version <= store
    /\ lastRefresh <= clock
    /\ \A h \in Handlers : handler[h].started <= clock /\ handler[h].floor <= notified

\* The requests in progress during a SIGHUP reload know that they raced.
HupSeen ==
    hup.pc # "idle" => \A h \in Handlers : handler[h].pc # "idle" => handler[h].raced

\* The snapshot being compiled contains what has been notified and is not
\* older than a compilation takes.  The globals change hands under the lock,
\* and nothing has been read before that.
Compiling(h) ==
    /\ handler[h].pc \in {"policies", "account"} =>
          /\ handler[h].snap >= notified
          /\ handler[h].snapAt <= clock /\ clock <= handler[h].snapAt + CompileTime
          /\ CurrentAt(handler[h].snap, handler[h].snapAt)
    /\ handler[h].pc = "account" /\ hup.pc = "idle" => policies = handler[h].snap
    /\ handler[h].pc \in {"refresh", "snapshot", "policies", "account"} =>
          handler[h].least = MaxVersion

\* A runtime that is not due for a refresh contains what has been notified.
Fresh ==
    hup.pc = "idle" /\ lastRefresh # Forced =>
        \A v \in {policies, accountMgr} :
            v >= notified /\ CurrentAt(v, lastRefresh - CompileTime)

\* What a request reads after its refresh is good enough for it.
Reading(h) ==
    handler[h].pc \in {"device", "user", "budget", "rules", "judged"} /\ ~handler[h].raced =>
        \A v \in {policies, accountMgr, handler[h].least} :
            Good(v, handler[h].floor, handler[h].started)

Inv ==
    /\ TypeOK
    /\ StoreLock
    /\ History
    /\ HupSeen
    /\ \A h \in Handlers : Compiling(h)
    /\ Fresh
    /\ \A h \in Handlers : Reading(h)

-----------------------------------------------------------------------------
Request == [pc : HandlerPc, snap : Version, snapAt : 0..MaxTime, floor : Version,
            started : 0..MaxTime, least : Version, raced : BOOLEAN]

LEMMA Constants ==
    /\ Forced \in Int /\ Forced < 0
    /\ \A t \in Nat : t - Forced > RefreshPeriod
    /\ \A v \in Version : v \in Nat /\ v <= MaxVersion
    /\ 0 \in Version /\ MaxVersion \in Version
    /\ None \notin Handlers /\ None \notin Writers
    /\ Resting \in Request
  <1>1. /\ Forced \in Int /\ Forced < 0 /\ \A t \in Nat : t - Forced > RefreshPeriod
        /\ \A v \in Version : v \in Nat /\ v <= MaxVersion
        /\ 0 \in Version /\ MaxVersion \in Version
    BY BoundsAssumption DEF Forced, Version
  <1>2. None \notin Handlers /\ None \notin Writers
    BY NamesAssumption DEF None
  <1>3. Resting \in Request
    BY <1>1, BoundsAssumption DEF Resting, Request, HandlerPc
  <1> QED BY <1>1, <1>2, <1>3

\* What the steps of a request do to its record.
Others(h) == \A k \in Handlers : k # h => handler'[k] = handler[k]

LEMMA LockStep ==
    ASSUME TypeOK, NEW h \in Handlers, Refresh(h), clock - lastRefresh > RefreshPeriod
    PROVE  /\ handler' \in [Handlers -> Request] /\ Others(h)
           /\ handler'[h].pc = "snapshot"
           /\ handler'[h].snap = handler[h].snap /\ handler'[h].snapAt = handler[h].snapAt
           /\ handler'[h].floor = handler[h].floor
           /\ handler'[h].started = handler[h].started
           /\ handler'[h].least = handler[h].least /\ handler'[h].raced = handler[h].raced
  <1>1. handler \in [Handlers -> Request]
    BY DEF TypeOK, Request
  <1> DEFINE new == [handler[h] EXCEPT !.pc = "snapshot"]
  <1>2. handler' = [handler EXCEPT ![h].pc = "snapshot"]
    BY DEF Refresh, Goto
  <1>3. handler' = [handler EXCEPT ![h] = new]
    BY <1>1, <1>2 DEF Request
  <1>label. "snapshot" \in HandlerPc
    BY DEF HandlerPc
  <1>4. new \in Request
    BY <1>1, <1>label DEF Request
  <1>5. handler' \in [Handlers -> Request] /\ Others(h) /\ handler'[h] = new
    BY <1>1, <1>3, <1>4 DEF Others
  <1>6. new.pc = "snapshot"
    BY <1>1 DEF Request
  <1>7. new.snap = handler[h].snap /\ new.snapAt = handler[h].snapAt
        /\ new.floor = handler[h].floor
        /\ new.started = handler[h].started
        /\ new.least = handler[h].least /\ new.raced = handler[h].raced
    BY <1>1 DEF Request
  <1> HIDE DEF new
  <1> QED BY <1>5, <1>6, <1>7

LEMMA RefreshStep ==
    ASSUME TypeOK, NEW h \in Handlers, Refresh(h), ~(clock - lastRefresh > RefreshPeriod)
    PROVE  /\ handler' \in [Handlers -> Request] /\ Others(h)
           /\ handler'[h].pc = "device" /\ handler'[h].started = clock
           /\ handler'[h].snap = handler[h].snap /\ handler'[h].snapAt = handler[h].snapAt
           /\ handler'[h].floor = handler[h].floor /\ handler'[h].least = handler[h].least
           /\ handler'[h].raced = handler[h].raced
  <1>1. handler \in [Handlers -> Request] /\ clock \in 0..MaxTime
    BY DEF TypeOK, Request
  <1> DEFINE new == [handler[h] EXCEPT !.pc = "device", !.started = clock]
  <1>2. handler' = [handler EXCEPT ![h].pc = "device", ![h].started = clock]
    BY DEF Refresh
  <1>3. handler' = [handler EXCEPT ![h] = new]
    BY <1>1, <1>2 DEF Request
  <1>label. "device" \in HandlerPc
    BY DEF HandlerPc
  <1>4. new \in Request
    BY <1>1, <1>label DEF Request
  <1>5. handler' \in [Handlers -> Request] /\ Others(h) /\ handler'[h] = new
    BY <1>1, <1>3, <1>4 DEF Others
  <1>6. new.pc = "device" /\ new.started = clock
    BY <1>1 DEF Request
  <1>7. new.snap = handler[h].snap /\ new.snapAt = handler[h].snapAt
        /\ new.floor = handler[h].floor /\ new.least = handler[h].least
        /\ new.raced = handler[h].raced
    BY <1>1 DEF Request
  <1> HIDE DEF new
  <1> QED BY <1>5, <1>6, <1>7

LEMMA SnapshotStep ==
    ASSUME TypeOK, NEW h \in Handlers, Snapshot(h)
    PROVE  /\ handler' \in [Handlers -> Request] /\ Others(h)
           /\ handler'[h].pc = "policies" /\ handler'[h].snap = store
           /\ handler'[h].snapAt = clock
           /\ handler'[h].floor = handler[h].floor
           /\ handler'[h].started = handler[h].started
           /\ handler'[h].least = handler[h].least /\ handler'[h].raced = handler[h].raced
  <1>1. handler \in [Handlers -> Request] /\ clock \in 0..MaxTime /\ store \in Version
    BY DEF TypeOK, Request
  <1> DEFINE new == [handler[h] EXCEPT !.pc = "policies", !.snap = store, !.snapAt = clock]
  <1>2. handler' = [handler EXCEPT ![h].pc = "policies", ![h].snap = store, ![h].snapAt = clock]
    BY DEF Snapshot
  <1>3. handler' = [handler EXCEPT ![h] = new]
    BY <1>1, <1>2 DEF Request
  <1>label. "policies" \in HandlerPc
    BY DEF HandlerPc
  <1>4. new \in Request
    BY <1>1, <1>label DEF Request
  <1>5. handler' \in [Handlers -> Request] /\ Others(h) /\ handler'[h] = new
    BY <1>1, <1>3, <1>4 DEF Others
  <1>6. new.pc = "policies" /\ new.snap = store
        /\ new.snapAt = clock
    BY <1>1 DEF Request
  <1>7. new.floor = handler[h].floor
        /\ new.started = handler[h].started
        /\ new.least = handler[h].least /\ new.raced = handler[h].raced
    BY <1>1 DEF Request
  <1> HIDE DEF new
  <1> QED BY <1>5, <1>6, <1>7

LEMMA SetPoliciesStep ==
    ASSUME TypeOK, NEW h \in Handlers, SetPolicies(h)
    PROVE  /\ handler' \in [Handlers -> Request] /\ Others(h)
           /\ handler'[h].pc = "account"
           /\ handler'[h].snap = handler[h].snap /\ handler'[h].snapAt = handler[h].snapAt
           /\ handler'[h].floor = handler[h].floor
           /\ handler'[h].started = handler[h].started
           /\ handler'[h].least = handler[h].least /\ handler'[h].raced = handler[h].raced
  <1>1. handler \in [Handlers -> Request]
    BY DEF TypeOK, Request
  <1> DEFINE new == [handler[h] EXCEPT !.pc = "account"]
  <1>2. handler' = [handler EXCEPT ![h].pc = "account"]
    BY DEF SetPolicies, Goto
  <1>3. handler' = [handler EXCEPT ![h] = new]
    BY <1>1, <1>2 DEF Request
  <1>label. "account" \in HandlerPc
    BY DEF HandlerPc
  <1>4. new \in Request
    BY <1>1, <1>label DEF Request
  <1>5. handler' \in [Handlers -> Request] /\ Others(h) /\ handler'[h] = new
    BY <1>1, <1>3, <1>4 DEF Others
  <1>6. new.pc = "account"
    BY <1>1 DEF Request
  <1>7. new.snap = handler[h].snap /\ new.snapAt = handler[h].snapAt
        /\ new.floor = handler[h].floor
        /\ new.started = handler[h].started
        /\ new.least = handler[h].least /\ new.raced = handler[h].raced
    BY <1>1 DEF Request
  <1> HIDE DEF new
  <1> QED BY <1>5, <1>6, <1>7

LEMMA SetAccountMgrStep ==
    ASSUME TypeOK, NEW h \in Handlers, SetAccountMgr(h)
    PROVE  /\ handler' \in [Handlers -> Request] /\ Others(h)
           /\ handler'[h].pc = "device" /\ handler'[h].started = clock
           /\ handler'[h].snap = 0 /\ handler'[h].snapAt = 0
           /\ handler'[h].floor = handler[h].floor /\ handler'[h].least = handler[h].least
           /\ handler'[h].raced = handler[h].raced
  <1>1. handler \in [Handlers -> Request] /\ clock \in 0..MaxTime /\ 0 \in Version /\ 0 \in 0..MaxTime
    BY Constants, BoundsAssumption DEF TypeOK, Request
  <1> DEFINE new == [handler[h] EXCEPT !.pc = "device", !.started = clock, !.snap = 0, !.snapAt = 0]
  <1>2. handler' = [handler EXCEPT ![h].pc = "device", ![h].started = clock, ![h].snap = 0, ![h].snapAt = 0]
    BY DEF SetAccountMgr
  <1>3. handler' = [handler EXCEPT ![h] = new]
    BY <1>1, <1>2 DEF Request
  <1>label. "device" \in HandlerPc
    BY DEF HandlerPc
  <1>4. new \in Request
    BY <1>1, <1>label DEF Request
  <1>5. handler' \in [Handlers -> Request] /\ Others(h) /\ handler'[h] = new
    BY <1>1, <1>3, <1>4 DEF Others
  <1>6. new.pc = "device" /\ new.started = clock
        /\ new.snap = 0 /\ new.snapAt = 0
    BY <1>1 DEF Request
  <1>7. new.floor = handler[h].floor /\ new.least = handler[h].least
        /\ new.raced = handler[h].raced
    BY <1>1 DEF Request
  <1> HIDE DEF new
  <1> QED BY <1>5, <1>6, <1>7

LEMMA ReadStep ==
    ASSUME TypeOK, NEW h \in Handlers, NEW v \in Version,
           NEW label \in {"user", "budget", "rules", "judged"}, Read(h, v, label)
    PROVE  /\ handler' \in [Handlers -> Request] /\ Others(h)
           /\ handler'[h].pc = label
           /\ handler'[h].least = IF v < handler[h].least THEN v ELSE handler[h].least
           /\ handler'[h].snap = handler[h].snap /\ handler'[h].snapAt = handler[h].snapAt
           /\ handler'[h].floor = handler[h].floor
           /\ handler'[h].started = handler[h].started
           /\ handler'[h].raced = handler[h].raced
  <1>1. handler \in [Handlers -> Request]
    BY DEF TypeOK, Request
  <1> DEFINE new == [handler[h] EXCEPT !.pc = label, !.least = IF v < handler[h].least THEN v ELSE handler[h].least]
  <1>2. handler' = [handler EXCEPT ![h].pc = label, ![h].least = IF v < handler[h].least THEN v ELSE handler[h].least]
    BY DEF Read
  <1>3. handler' = [handler EXCEPT ![h] = new]
    BY <1>1, <1>2 DEF Request
  <1>label. label \in HandlerPc
    BY DEF HandlerPc
  <1>4. new \in Request
    BY <1>1, <1>label DEF Request
  <1>5. handler' \in [Handlers -> Request] /\ Others(h) /\ handler'[h] = new
    BY <1>1, <1>3, <1>4 DEF Others
  <1>6. new.pc = label
        /\ new.least = IF v < handler[h].least THEN v ELSE handler[h].least
    BY <1>1 DEF Request
  <1>7. new.snap = handler[h].snap /\ new.snapAt = handler[h].snapAt
        /\ new.floor = handler[h].floor
        /\ new.started = handler[h].started
        /\ new.raced = handler[h].raced
    BY <1>1 DEF Request
  <1> HIDE DEF new
  <1> QED BY <1>5, <1>6, <1>7

\* The steps that only read the globals.
Reads(h) == MatchDevice(h) \/ MatchUser(h) \/ ProcessRequest(h) \/ MatchDomainRule(h)

LEMMA ReadsStep ==
    ASSUME NEW h \in Handlers, Reads(h)
    PROVE  /\ handler[h].pc \in {"device", "user", "budget", "rules"}
           /\ \E v \in {policies, accountMgr}, label \in {"user", "budget", "rules", "judged"} :
                 Read(h, v, label)
           /\ UNCHANGED <<clock, store, storeMu, policies, accountMgr, lastRefresh, runtimeMu,
                          writer, hup, reloads, commitTime, notified>>
  BY DEF Reads, MatchDevice, MatchUser, ProcessRequest, MatchDomainRule

\* A SIGHUP reload marks the requests in progress and changes nothing else of
\* them.
LEMMA OverlapStep ==
    ASSUME TypeOK, HupSnapshot \/ HupStep
    PROVE  /\ handler' \in [Handlers -> Request]
           /\ UNCHANGED <<clock, store, storeMu, runtimeMu, writer, commitTime, notified>>
           /\ \A h \in Handlers :
                 /\ handler'[h].pc = handler[h].pc /\ handler'[h].snap = handler[h].snap
                 /\ handler'[h].snapAt = handler[h].snapAt /\ handler'[h].floor = handler[h].floor
                 /\ handler'[h].started = handler[h].started /\ handler'[h].least = handler[h].least
                 /\ handler[h].pc # "idle" => handler'[h].raced
  <1>1. handler \in [Handlers -> Request]
    BY DEF TypeOK, Request
  <1>2. handler' = Overlap
    BY DEF HupSnapshot, HupStep, HupPolicies, HupAccountMgr, HupForce
  <1>3. \A h \in Handlers : [handler[h] EXCEPT !.raced = TRUE] \in Request
    BY <1>1 DEF Request
  <1>4. handler' \in [Handlers -> Request]
    BY <1>1, <1>2, <1>3 DEF Overlap
  <1>5. \A h \in Handlers :
           /\ handler'[h].pc = handler[h].pc /\ handler'[h].snap = handler[h].snap
           /\ handler'[h].snapAt = handler[h].snapAt /\ handler'[h].floor = handler[h].floor
           /\ handler'[h].started = handler[h].started /\ handler'[h].least = handler[h].least
           /\ handler[h].pc # "idle" => handler'[h].raced
    BY <1>1, <1>2 DEF Overlap, Request
  <1>6. UNCHANGED <<clock, store, storeMu, runtimeMu, writer, commitTime, notified>>
    BY DEF HupSnapshot, HupStep, HupPolicies, HupAccountMgr, HupForce
  <1> QED BY <1>4, <1>5, <1>6

LEMMA InitInv ==
    Init => Inv
  <1> SUFFICES ASSUME Init PROVE Inv
    OBVIOUS
  <1> USE DEF Init
  <1>1. TypeOK
    BY Constants, BoundsAssumption DEF TypeOK, Resting, Request
  <1>2. StoreLock /\ HupSeen
    BY DEF StoreLock, HupSeen
  <1>3. History
    BY Constants DEF History, Resting
  <1>4. \A h \in Handlers : Compiling(h) /\ Reading(h)
    BY DEF Compiling, Reading, Resting
  <1> QED BY <1>1, <1>2, <1>3, <1>4 DEF Inv, Fresh

-----------------------------------------------------------------------------
\* Types are preserved.
LEMMA TypePreserved ==
    ASSUME TypeOK, StoreLock, [Next]_vars PROVE TypeOK'
  <1> USE DEF TypeOK
  <1>0. handler \in [Handlers -> Request]
    BY DEF Request
  <1>1. CASE Tick
    BY <1>1, BoundsAssumption DEF Tick
  <1>2. ASSUME NEW w \in Writers, Lock(w) \/ Abort(w) PROVE TypeOK'
    BY <1>2 DEF Lock, Abort
  <1>3. ASSUME NEW w \in Writers, Commit(w) PROVE TypeOK'
    <2>1. store + 1 \in Version
      BY <1>3, BoundsAssumption, Constants DEF Commit, StoreLock, Version
    <2>2. writer' \in [Writers -> [pc : {"idle", "mutate", "notify"}, version : Version]]
      BY <1>3, <2>1 DEF Commit
    <2>3. commitTime' \in [Version -> 0..MaxTime]
      BY <1>3, <2>1 DEF Commit
    <2> QED BY <1>3, <2>1, <2>2, <2>3 DEF Commit
  <1>4. ASSUME NEW w \in Writers, ForceReload(w) PROVE TypeOK'
    BY <1>4 DEF ForceReload
  <1>5. ASSUME NEW h \in Handlers, Arrive(h) PROVE TypeOK'
    <2>1. [Resting EXCEPT !.pc = "refresh", !.floor = notified, !.raced = hup.pc # "idle"] \in Request
      BY Constants DEF Request, HandlerPc
    <2>2. handler' \in [Handlers -> Request]
      BY <1>0, <1>5, <2>1 DEF Arrive
    <2>3. handler'[h].pc = "refresh" /\ \A k \in Handlers : k # h => handler'[k] = handler[k]
      BY <1>0, <1>5 DEF Arrive, Resting
    <2> QED BY <1>5, <2>2, <2>3 DEF Arrive, Request
  <1>6. ASSUME NEW h \in Handlers, Refresh(h) PROVE TypeOK'
    <2>1. CASE clock - lastRefresh > RefreshPeriod
      <3>1. runtimeMu' = h /\ runtimeMu = None
        BY <1>6, <2>1 DEF Refresh
      <3>2. \A k \in Handlers : handler'[k].pc \in {"snapshot", "policies", "account"} <=> runtimeMu' = k
        BY <1>6, <2>1, <3>1, LockStep, Constants DEF Others
      <3> QED BY <1>6, <2>1, <3>1, <3>2, LockStep DEF Refresh, Request
    <2>2. CASE ~(clock - lastRefresh > RefreshPeriod)
      <3>1. runtimeMu' = runtimeMu /\ runtimeMu = None
        BY <1>6, <2>2 DEF Refresh
      <3>2. \A k \in Handlers : handler'[k].pc \in {"snapshot", "policies", "account"} <=> runtimeMu' = k
        BY <1>6, <2>2, <3>1, RefreshStep, Constants DEF Others
      <3> QED BY <1>6, <2>2, <3>1, <3>2, RefreshStep DEF Refresh, Request
    <2> QED BY <2>1, <2>2
  <1>7. ASSUME NEW h \in Handlers, Snapshot(h) PROVE TypeOK'
    <2>1. \A k \in Handlers : handler'[k].pc \in {"snapshot", "policies", "account"} <=> runtimeMu = k
      BY <1>7, SnapshotStep DEF Snapshot, Others
    <2> QED BY <1>7, <2>1, SnapshotStep DEF Snapshot, Request
  <1>8. ASSUME NEW h \in Handlers, SetPolicies(h) PROVE TypeOK'
    <2>1. \A k \in Handlers : handler'[k].pc \in {"snapshot", "policies", "account"} <=> runtimeMu = k
      BY <1>8, SetPoliciesStep DEF SetPolicies, Others
    <2> QED BY <1>8, <2>1, SetPoliciesStep DEF SetPolicies, Request
  <1>9. ASSUME NEW h \in Handlers, SetAccountMgr(h) PROVE TypeOK'
    <2>1. \A k \in Handlers : handler'[k].pc \in {"snapshot", "policies", "account"} <=> runtimeMu' = k
      <3>1. runtimeMu = h /\ runtimeMu' = None
        BY <1>9 DEF SetAccountMgr
      <3>2. handler'[h].pc = "device" /\ Others(h)
        BY <1>9, SetAccountMgrStep
      <3> QED BY <3>1, <3>2, Constants DEF Others
    <2>2. accountMgr' \in Version /\ lastRefresh' \in 0..MaxTime
      BY <1>0, <1>9 DEF SetAccountMgr, Request
    <2> QED BY <1>9, <2>1, <2>2, SetAccountMgrStep DEF SetAccountMgr, Request
  <1>10. ASSUME NEW h \in Handlers, Done(h) PROVE TypeOK'
    <2>1. handler' \in [Handlers -> Request] /\ handler'[h].pc = "idle"
      BY <1>0, <1>10, Constants DEF Done, Resting
    <2>2. \A k \in Handlers : handler'[k].pc \in {"snapshot", "policies", "account"} <=> runtimeMu = k
      BY <1>0, <1>10, <2>1 DEF Done, Request
    <2> QED BY <1>10, <2>1, <2>2 DEF Done, Request
  <1>11. CASE HupSnapshot \/ HupStep
    <2>1. /\ policies' \in Version /\ accountMgr' \in Version /\ reloads' \in 0..MaxReloads
          /\ hup' \in [pc : {"idle", "policies", "account", "force"}, snap : Version]
          /\ lastRefresh' \in {Forced} \cup 0..MaxTime
      BY <1>11, BoundsAssumption DEF HupSnapshot, HupStep, HupPolicies, HupAccountMgr, HupForce
    <2> QED BY <1>11, <2>1, OverlapStep DEF Request
  <1>12. CASE UNCHANGED vars
    BY <1>12 DEF vars
  <1>13. ASSUME NEW h \in Handlers, Reads(h) PROVE TypeOK'
    <2>1. PICK v \in {policies, accountMgr}, label \in {"user", "budget", "rules", "judged"} : Read(h, v, label)
      BY <1>13, ReadsStep
    <2>2. /\ handler[h].pc \in {"device", "user", "budget", "rules"}
          /\ UNCHANGED <<clock, store, storeMu, policies, accountMgr, lastRefresh, runtimeMu,
                         writer, hup, reloads, commitTime, notified>>
      BY <1>13, ReadsStep
    <2>3. \A k \in Handlers : handler'[k].pc \in {"snapshot", "policies", "account"} <=> runtimeMu = k
      BY <2>1, <2>2, ReadStep DEF Others
    <2> QED BY <2>1, <2>2, <2>3, ReadStep DEF Request
  <1> QED
    BY <1>1, <1>2, <1>3, <1>4, <1>5, <1>6, <1>7, <1>8, <1>9, <1>10, <1>11, <1>12, <1>13
    DEF Next, HandlerStep, Reads

-----------------------------------------------------------------------------
\* The rest of the invariant, action by action.  First what follows from the
\* types and what a commit does to the age of a version.
LEMMA Numbers ==
    ASSUME TypeOK
    PROVE  /\ clock \in Nat /\ lastRefresh \in Int /\ store \in Nat /\ notified \in Nat
           /\ policies \in Nat /\ accountMgr \in Nat /\ store <= MaxVersion
           /\ \A h \in Handlers :
                 /\ handler[h].snap \in Nat /\ handler[h].snapAt \in Nat /\ handler[h].floor \in Nat
                 /\ handler[h].started \in Nat /\ handler[h].least \in Nat
                 /\ handler[h].raced \in BOOLEAN
           /\ \A v \in Nat : v < store => commitTime[v + 1] \in Nat
           /\ RefreshPeriod \in Nat /\ CompileTime \in Nat
  <1>1. /\ clock \in Nat /\ lastRefresh \in Int /\ store \in Nat /\ notified \in Nat
        /\ policies \in Nat /\ accountMgr \in Nat /\ store <= MaxVersion
    BY BoundsAssumption, Constants DEF TypeOK
  <1>2. \A h \in Handlers :
           /\ handler[h].snap \in Nat /\ handler[h].snapAt \in Nat /\ handler[h].floor \in Nat
           /\ handler[h].started \in Nat /\ handler[h].least \in Nat
           /\ handler[h].raced \in BOOLEAN
    <2> SUFFICES ASSUME NEW h \in Handlers
                 PROVE  /\ handler[h].snap \in Nat /\ handler[h].snapAt \in Nat
                        /\ handler[h].floor \in Nat /\ handler[h].started \in Nat
                        /\ handler[h].least \in Nat /\ handler[h].raced \in BOOLEAN
      OBVIOUS
    <2>1. handler[h] \in Request
      BY DEF TypeOK, Request
    <2>2. /\ handler[h].snap \in Version /\ handler[h].floor \in Version /\ handler[h].least \in Version
          /\ handler[h].snapAt \in 0..MaxTime /\ handler[h].started \in 0..MaxTime
          /\ handler[h].raced \in BOOLEAN
      BY <2>1 DEF Request
    <2>3. handler[h].snap \in Nat /\ handler[h].floor \in Nat /\ handler[h].least \in Nat
      BY <2>2, Constants
    <2>4. handler[h].snapAt \in Nat /\ handler[h].started \in Nat
      BY <2>2, BoundsAssumption
    <2> QED BY <2>2, <2>3, <2>4
  <1>3. \A v \in Nat : v < store => commitTime[v + 1] \in Nat
    BY <1>1, BoundsAssumption DEF TypeOK, Version
  <1> QED BY <1>1, <1>2, <1>3, BoundsAssumption

LEMMA CommitKeepsAge ==
    ASSUME TypeOK, StoreLock, NEW w \in Writers, Commit(w),
           NEW v \in Nat, NEW t \in Int, t <= clock, v < store => t <= commitTime[v + 1]
    PROVE  v < store' => t <= commitTime'[v + 1]
  <1>1. store + 1 \in Version
    BY Constants, BoundsAssumption DEF TypeOK, StoreLock, Commit, Version
  <1>2. commitTime'[store + 1] = clock /\ store' = store + 1
    BY <1>1 DEF Commit, TypeOK
  <1>3. v < store => commitTime'[v + 1] = commitTime[v + 1]
    BY <1>1, Numbers DEF Commit, TypeOK, Version
  <1> QED BY <1>2, <1>3, Numbers

LEMMA InvTick ==
    ASSUME Inv, TypeOK', Tick PROVE Inv'
  <1>1. /\ clock' = clock + 1
        /\ UNCHANGED <<store, storeMu, policies, accountMgr, lastRefresh, runtimeMu,
                       handler, writer, hup, reloads, commitTime, notified>>
    BY DEF Tick
  <1>2. TypeOK /\ StoreLock' /\ HupSeen' /\ Fresh' /\ \A h \in Handlers : Reading(h)'
    BY <1>1 DEF Inv, StoreLock, HupSeen, Fresh, Reading, Good, CurrentAt
  <1>3. History'
    BY <1>1, <1>2, Numbers DEF Inv, History
  <1>4. \A h \in Handlers : Compiling(h)'
    BY <1>1, <1>2, Numbers DEF Inv, Compiling, CurrentAt, Tick
  <1> QED BY <1>2, <1>3, <1>4 DEF Inv

\* Lock and Abort leave the requests alone.
LEMMA InvWriter ==
    ASSUME Inv, TypeOK', NEW w \in Writers, Lock(w) \/ Abort(w) PROVE Inv'
  <1>1. UNCHANGED <<clock, store, policies, accountMgr, lastRefresh, runtimeMu,
                    handler, hup, reloads, commitTime, notified>>
    BY DEF Lock, Abort
  <1>2. /\ HupSeen' /\ Fresh'
        /\ \A h \in Handlers : Reading(h)' /\ Compiling(h)'
    BY <1>1 DEF Inv, HupSeen, Fresh, Reading, Compiling, Good, CurrentAt
  <1>3. StoreLock'
    BY Constants DEF Inv, TypeOK, StoreLock, Lock, Abort
  <1>4. \A k \in Writers : writer'[k].version = writer[k].version
    BY DEF Inv, TypeOK, Lock, Abort
  <1>5. History'
    BY <1>1, <1>4 DEF Inv, History
  <1> QED BY <1>2, <1>3, <1>5 DEF Inv

LEMMA InvCommit ==
    ASSUME Inv, TypeOK', NEW w \in Writers, Commit(w) PROVE Inv'
  <1>0. TypeOK /\ StoreLock /\ History
    BY DEF Inv
  <1>1. /\ store' = store + 1
        /\ UNCHANGED <<clock, policies, accountMgr, lastRefresh, runtimeMu,
                       handler, hup, reloads, notified>>
    BY DEF Commit
  <1>2. StoreLock'
    BY <1>0, Constants DEF TypeOK, StoreLock, Commit
  <1>3. History'
    <2>1. \A k \in Writers : writer'[k].version <= store'
      BY <1>0, <1>1, Numbers DEF TypeOK, History, Commit, Version
    <2> QED BY <1>0, <1>1, <2>1, Numbers DEF History
  <1>4. HupSeen'
    BY <1>1 DEF Inv, HupSeen
  <1>5. ASSUME NEW h \in Handlers PROVE Compiling(h)'
    <2>1. Compiling(h)
      BY DEF Inv
    <2> QED BY <1>0, <1>1, <2>1, Numbers, CommitKeepsAge DEF Compiling, CurrentAt
  <1>6. Fresh'
    <2>1. lastRefresh - CompileTime \in Int /\ lastRefresh - CompileTime <= clock
      BY <1>0, Numbers DEF History
    <2> QED BY <1>0, <1>1, <2>1, Numbers, CommitKeepsAge DEF Inv, Fresh, CurrentAt
  <1>7. ASSUME NEW h \in Handlers PROVE Reading(h)'
    <2> DEFINE t == handler[h].started - (RefreshPeriod + CompileTime)
    <2>1. t \in Int /\ t <= clock
      BY <1>0, Numbers DEF History
    <2>2. t' = t
      BY <1>1
    <2>3. Reading(h)
      BY DEF Inv
    <2> QED BY <1>0, <1>1, <2>1, <2>2, <2>3, Numbers, CommitKeepsAge DEF Reading, Good, CurrentAt
  <1> QED BY <1>2, <1>3, <1>4, <1>5, <1>6, <1>7 DEF Inv

\* A notification finds nobody compiling, and forces the next refresh.
LEMMA InvForceReload ==
    ASSUME Inv, TypeOK', NEW w \in Writers, ForceReload(w) PROVE Inv'
  <1>0. TypeOK /\ StoreLock /\ History
    BY DEF Inv
  <1>1. /\ runtimeMu = None /\ lastRefresh' = Forced
        /\ notified' = IF writer[w].version > notified THEN writer[w].version ELSE notified
        /\ UNCHANGED <<clock, store, storeMu, policies, accountMgr, runtimeMu,
                       handler, hup, reloads, commitTime>>
    BY DEF ForceReload
  <1>2. notified' >= notified /\ notified' <= store
    BY <1>0, <1>1, Numbers, Constants DEF History, TypeOK
  <1>3. StoreLock'
    BY <1>0, <1>1 DEF TypeOK, StoreLock, ForceReload
  <1>4. History'
    <2>1. \A k \in Writers : writer'[k].version = writer[k].version
      BY <1>0 DEF TypeOK, ForceReload
    <2>2. lastRefresh' <= clock
      BY <1>0, <1>1, Constants, Numbers
    <2>3. \A h \in Handlers : handler[h].floor <= notified'
      <3>1. notified' \in Nat
        BY Constants DEF TypeOK
      <3> QED BY <1>0, <1>2, <3>1, Numbers DEF History
    <2> QED BY <1>0, <1>1, <1>2, <2>1, <2>2, <2>3 DEF History
  <1>5. HupSeen' /\ Fresh'
    BY <1>1 DEF Inv, HupSeen, Fresh, Forced
  <1>6. \A h \in Handlers : Compiling(h)'
    BY <1>0, <1>1, Constants DEF Inv, TypeOK, Compiling
  <1>7. \A h \in Handlers : Reading(h)'
    BY <1>1 DEF Inv, Reading, Good, CurrentAt
  <1> QED BY <1>3, <1>4, <1>5, <1>6, <1>7 DEF Inv
-----------------------------------------------------------------------------
\* What is left to show after a step of request h that changes neither the
\* globals nor the store: only h itself.
Frame == UNCHANGED <<clock, store, policies, accountMgr, lastRefresh, hup, commitTime, notified>>

LEMMA InvRequest ==
    ASSUME Inv, TypeOK', NEW h \in Handlers, Others(h), Frame,
           UNCHANGED <<storeMu, writer>>,
           handler'[h].started <= clock, handler'[h].floor <= notified,
           hup.pc # "idle" /\ handler'[h].pc # "idle" => handler'[h].raced,
           Compiling(h)', Reading(h)'
    PROVE  Inv'
  <1>1. StoreLock' /\ Fresh'
    BY DEF Inv, StoreLock, Fresh, CurrentAt, Frame
  <1>2. History' /\ HupSeen'
    BY DEF Inv, History, HupSeen, Others, Frame
  <1>3. \A k \in Handlers : k # h => Compiling(k)' /\ Reading(k)'
    BY DEF Inv, Compiling, Reading, Good, CurrentAt, Others, Frame
  <1> QED BY <1>1, <1>2, <1>3 DEF Inv

LEMMA InvArrive ==
    ASSUME Inv, TypeOK', NEW h \in Handlers, Arrive(h) PROVE Inv'
  <1>1. handler'[h] = [Resting EXCEPT !.pc = "refresh", !.floor = notified, !.raced = hup.pc # "idle"]
    BY DEF Inv, TypeOK, Arrive
  <1>2. /\ handler'[h].pc = "refresh" /\ handler'[h].floor = notified
        /\ handler'[h].started = 0 /\ handler'[h].raced = (hup.pc # "idle")
        /\ handler'[h].least = MaxVersion
    BY <1>1 DEF Resting
  <1>3. Others(h) /\ Frame /\ UNCHANGED <<storeMu, writer>>
    BY DEF Inv, TypeOK, Arrive, Others, Frame
  <1>4. Compiling(h)' /\ Reading(h)'
    BY <1>2 DEF Compiling, Reading
  <1>5. handler'[h].started <= clock /\ handler'[h].floor <= notified
    BY <1>2, Numbers DEF Inv
  <1> QED BY <1>2, <1>3, <1>4, <1>5, InvRequest

LEMMA InvRefresh ==
    ASSUME Inv, TypeOK', NEW h \in Handlers, Refresh(h) PROVE Inv'
  <1>0. TypeOK /\ History /\ HupSeen /\ Fresh
    BY DEF Inv
  <1>1. Frame /\ UNCHANGED <<storeMu, writer>> /\ handler[h].pc = "refresh"
    BY DEF Refresh, Frame
  <1>2. CASE clock - lastRefresh > RefreshPeriod
    <2>1. Compiling(h)' /\ Reading(h)'
      BY <1>0, <1>1, <1>2, LockStep DEF Inv, Compiling, Reading
    <2>2. handler'[h].started <= clock /\ handler'[h].floor <= notified
      BY <1>0, <1>2, LockStep DEF History
    <2>3. hup.pc # "idle" => handler'[h].raced
      BY <1>0, <1>1, <1>2, LockStep DEF HupSeen
    <2> QED BY <1>0, <1>1, <1>2, <2>1, <2>2, <2>3, LockStep, InvRequest
  <1>3. CASE ~(clock - lastRefresh > RefreshPeriod)
    <2>1. Compiling(h)'
      BY <1>0, <1>3, RefreshStep DEF Compiling
    <2>2. handler'[h].started = clock /\ handler'[h].floor = handler[h].floor
      BY <1>0, <1>3, RefreshStep
    <2>3. handler[h].floor <= notified
      BY <1>0 DEF History
    <2>4. hup.pc # "idle" => handler'[h].raced
      BY <1>0, <1>1, <1>3, RefreshStep DEF HupSeen
    <2>5. Reading(h)'
      <3>1. SUFFICES ASSUME ~handler'[h].raced
                     PROVE  \A v \in {policies, accountMgr, handler'[h].least} :
                               Good(v, handler'[h].floor, handler'[h].started)
        BY <1>1 DEF Reading, Good, CurrentAt, Frame
      <3>2. hup.pc = "idle" /\ lastRefresh # Forced
        BY <1>0, <1>3, <2>4, <3>1, Constants, Numbers
      <3>3. \A v \in {policies, accountMgr} :
               v >= notified /\ CurrentAt(v, lastRefresh - CompileTime)
        BY <1>0, <3>2 DEF Fresh
      <3>4. \A v \in {policies, accountMgr} : Good(v, handler'[h].floor, handler'[h].started)
        BY <1>0, <1>3, <2>2, <2>3, <3>3, Numbers DEF Good, CurrentAt
      <3>5. handler'[h].least = handler[h].least
        BY <1>0, <1>3, RefreshStep
      <3>6. Good(handler'[h].least, handler'[h].floor, handler'[h].started)
        BY <1>0, <1>1, <2>2, <2>3, <3>5, Numbers, BoundsAssumption DEF Inv, Compiling, Good, CurrentAt, History
      <3> QED BY <3>4, <3>6
    <2> QED BY <1>0, <1>1, <1>3, <2>1, <2>2, <2>3, <2>4, <2>5, RefreshStep, InvRequest, Numbers
  <1> QED BY <1>2, <1>3

LEMMA InvSnapshot ==
    ASSUME Inv, TypeOK', NEW h \in Handlers, Snapshot(h) PROVE Inv'
  <1>0. TypeOK /\ History /\ HupSeen /\ Compiling(h)
    BY DEF Inv
  <1>1. Frame /\ UNCHANGED <<storeMu, writer>> /\ handler[h].pc = "snapshot"
    BY DEF Snapshot, Frame
  <1>2. Compiling(h)'
    BY <1>0, <1>1, SnapshotStep, Numbers DEF Compiling, CurrentAt, History, Frame
  <1>3. Reading(h)'
    BY <1>0, SnapshotStep DEF Reading
  <1>4. handler'[h].started <= clock /\ handler'[h].floor <= notified
    BY <1>0, SnapshotStep DEF History
  <1>5. hup.pc # "idle" => handler'[h].raced
    BY <1>0, <1>1, SnapshotStep DEF HupSeen
  <1> QED BY <1>0, <1>1, <1>2, <1>3, <1>4, <1>5, SnapshotStep, InvRequest

LEMMA InvReads ==
    ASSUME Inv, TypeOK', NEW h \in Handlers, Reads(h) PROVE Inv'
  <1>0. TypeOK /\ History /\ HupSeen /\ Reading(h)
    BY DEF Inv
  <1>1. Frame /\ UNCHANGED <<storeMu, writer>> /\ handler[h].pc \in {"device", "user", "budget", "rules"}
    BY ReadsStep DEF Frame
  <1>2. PICK v \in {policies, accountMgr}, label \in {"user", "budget", "rules", "judged"} : Read(h, v, label)
    BY ReadsStep
  <1>3. /\ Others(h)
        /\ handler'[h].pc = label
        /\ handler'[h].least = IF v < handler[h].least THEN v ELSE handler[h].least
        /\ handler'[h].floor = handler[h].floor /\ handler'[h].started = handler[h].started
        /\ handler'[h].raced = handler[h].raced
    BY <1>0, <1>2, ReadStep DEF TypeOK
  <1>4. Compiling(h)'
    BY <1>3 DEF Compiling
  <1>5. Reading(h)'
    <2>1. handler'[h].least \in {policies, accountMgr, handler[h].least}
      BY <1>3
    <2> QED BY <1>0, <1>1, <1>3, <2>1 DEF Reading, Good, CurrentAt, Frame
  <1>6. handler'[h].started <= clock /\ handler'[h].floor <= notified
    BY <1>0, <1>3 DEF History
  <1>7. hup.pc # "idle" => handler'[h].raced
    BY <1>0, <1>1, <1>3 DEF HupSeen
  <1> QED BY <1>1, <1>3, <1>4, <1>5, <1>6, <1>7, InvRequest

LEMMA InvDone ==
    ASSUME Inv, TypeOK', NEW h \in Handlers, Done(h) PROVE Inv'
  <1>1. /\ handler'[h] = Resting /\ Others(h) /\ Frame
        /\ UNCHANGED <<storeMu, writer>>
    BY DEF Inv, TypeOK, Done, Others, Frame
  <1>2. handler'[h].pc = "idle" /\ handler'[h].started = 0 /\ handler'[h].floor = 0
    BY <1>1 DEF Resting
  <1>3. Compiling(h)' /\ Reading(h)'
    BY <1>2 DEF Compiling, Reading
  <1>4. handler'[h].started <= clock /\ handler'[h].floor <= notified
    BY <1>2, Numbers DEF Inv
  <1> QED BY <1>1, <1>2, <1>3, <1>4, InvRequest

\* A new runtime is good for every request: what it lacks was committed after
\* its snapshot, which no compilation outlives.
LEMMA SnapGood ==
    ASSUME Inv, NEW h \in Handlers, handler[h].pc \in {"policies", "account"}
    PROVE  /\ handler[h].snap >= notified
           /\ CurrentAt(handler[h].snap, clock - CompileTime)
           /\ \A k \in Handlers : Good(handler[h].snap, handler[k].floor, handler[k].started)
  <1>0. TypeOK /\ History /\ Compiling(h)
    BY DEF Inv
  <1>1. handler[h].snap >= notified /\ CurrentAt(handler[h].snap, clock - CompileTime)
    BY <1>0, Numbers DEF Compiling, CurrentAt
  <1>2. ASSUME NEW k \in Handlers
        PROVE  Good(handler[h].snap, handler[k].floor, handler[k].started)
    <2>1. handler[k].floor <= notified /\ handler[k].started <= clock
      BY <1>0 DEF History
    <2> QED BY <1>0, <1>1, <2>1, Numbers DEF Good, CurrentAt
  <1> QED BY <1>1, <1>2

LEMMA InvSetPolicies ==
    ASSUME Inv, TypeOK', NEW h \in Handlers, SetPolicies(h) PROVE Inv'
  <1>0. TypeOK /\ History /\ HupSeen /\ Fresh
    BY DEF Inv
  <1>1. /\ handler[h].pc = "policies" /\ policies' = handler[h].snap
        /\ UNCHANGED <<clock, store, storeMu, accountMgr, lastRefresh, runtimeMu, writer, hup,
                       commitTime, notified>>
    BY DEF SetPolicies
  <1>2. /\ Others(h) /\ handler'[h].pc = "account" /\ handler'[h].snap = handler[h].snap
        /\ handler'[h].snapAt = handler[h].snapAt /\ handler'[h].floor = handler[h].floor
        /\ handler'[h].started = handler[h].started /\ handler'[h].least = handler[h].least
        /\ handler'[h].raced = handler[h].raced
    BY <1>0, SetPoliciesStep
  <1>3. StoreLock' /\ History' /\ HupSeen'
    BY <1>0, <1>1, <1>2 DEF Inv, StoreLock, History, HupSeen, Others
  <1>4. Compiling(h)'
    BY <1>1, <1>2 DEF Inv, Compiling, CurrentAt
  <1>5. \A k \in Handlers : k # h => handler[k].pc # "account" /\ handler[k].pc # "policies"
    BY <1>0, <1>1 DEF TypeOK
  <1>6. \A k \in Handlers : k # h => Compiling(k)'
    BY <1>1, <1>2, <1>5 DEF Inv, Compiling, Others
  <1>7. Fresh'
    BY <1>0, <1>1, SnapGood, Numbers DEF Fresh, CurrentAt, History
  <1>8. Reading(h)'
    BY <1>2 DEF Reading
  <1>9. ASSUME NEW k \in Handlers, k # h PROVE Reading(k)'
    BY <1>1, <1>2, <1>9, SnapGood DEF Inv, Reading, Good, CurrentAt, Others
  <1> QED BY <1>3, <1>4, <1>6, <1>7, <1>8, <1>9 DEF Inv

LEMMA InvSetAccountMgr ==
    ASSUME Inv, TypeOK', NEW h \in Handlers, SetAccountMgr(h) PROVE Inv'
  <1>0. TypeOK /\ History /\ HupSeen /\ Compiling(h)
    BY DEF Inv
  <1>1. /\ handler[h].pc = "account" /\ accountMgr' = handler[h].snap
        /\ lastRefresh' = clock /\ runtimeMu = h /\ runtimeMu' = None
        /\ UNCHANGED <<clock, store, storeMu, policies, writer, hup, commitTime, notified>>
    BY <1>0 DEF SetAccountMgr, TypeOK
  <1>2. /\ Others(h) /\ handler'[h].pc = "device" /\ handler'[h].started = clock
        /\ handler'[h].floor = handler[h].floor /\ handler'[h].least = handler[h].least
        /\ handler'[h].raced = handler[h].raced
    BY <1>0, SetAccountMgrStep
  <1>3. StoreLock' /\ History' /\ HupSeen'
    BY <1>0, <1>1, <1>2, Numbers DEF Inv, StoreLock, History, HupSeen, Others
  <1>4. Compiling(h)'
    BY <1>2 DEF Compiling
  <1>5. \A k \in Handlers : k # h => handler[k].pc # "account" /\ handler[k].pc # "policies"
    BY <1>0, <1>1 DEF TypeOK
  <1>6. \A k \in Handlers : k # h => Compiling(k)'
    BY <1>1, <1>2, <1>5 DEF Inv, Compiling, Others
  <1>7. hup.pc = "idle" => policies = handler[h].snap
    BY <1>0, <1>1 DEF Compiling
  <1>8. Fresh'
    BY <1>1, <1>7, SnapGood DEF Fresh, CurrentAt
  <1>9. Reading(h)'
    <2>1. SUFFICES ASSUME ~handler'[h].raced
                   PROVE  \A v \in {policies, accountMgr', handler'[h].least} :
                             Good(v, handler'[h].floor, clock)
      BY <1>1, <1>2 DEF Reading, Good, CurrentAt
    <2>2. hup.pc = "idle"
      BY <1>0, <1>1, <1>2, <2>1 DEF HupSeen
    <2>3. Good(handler[h].snap, handler[h].floor, clock)
      BY <1>0, <1>1, SnapGood, Numbers DEF Good, CurrentAt, History
    <2>4. Good(handler'[h].least, handler[h].floor, clock)
      BY <1>0, <1>1, <1>2, Numbers, BoundsAssumption DEF Compiling, Good, CurrentAt, History
    <2> QED BY <1>1, <1>2, <1>7, <2>2, <2>3, <2>4
  <1>10. ASSUME NEW k \in Handlers, k # h PROVE Reading(k)'
    BY <1>1, <1>2, <1>10, SnapGood DEF Inv, Reading, Good, CurrentAt, Others
  <1> QED BY <1>3, <1>4, <1>6, <1>8, <1>9, <1>10 DEF Inv

\* A SIGHUP reload may undo anything, but it marks every request it may
\* disturb, and forces a refresh when nobody compiles.
LEMMA InvHup ==
    ASSUME Inv, TypeOK', HupSnapshot \/ HupStep PROVE Inv'
  <1>0. TypeOK /\ History
    BY DEF Inv
  <1>1. UNCHANGED <<clock, store, storeMu, runtimeMu, writer, commitTime, notified>>
    BY <1>0, OverlapStep
  <1>2. lastRefresh' \in {lastRefresh, Forced} /\ (hup'.pc = "idle" => lastRefresh' = Forced /\ runtimeMu = None)
    BY <1>0 DEF HupSnapshot, HupStep, HupPolicies, HupAccountMgr, HupForce, TypeOK
  <1>3. StoreLock' /\ Fresh'
    BY <1>1, <1>2 DEF Inv, StoreLock, Fresh, Forced
  <1>4. History'
    <2>1. lastRefresh' <= clock
      BY <1>0, <1>2, Constants, Numbers DEF History
    <2> QED BY <1>0, <1>1, <2>1, OverlapStep DEF History
  <1>5. HupSeen'
    BY <1>0, OverlapStep DEF HupSeen
  <1>6. ASSUME NEW h \in Handlers PROVE Compiling(h)'
    <2>1. hup'.pc = "idle" => handler[h].pc # "account"
      BY <1>0, <1>2, Constants DEF TypeOK
    <2> QED BY <1>0, <1>1, <2>1, OverlapStep DEF Inv, Compiling, CurrentAt
  <1>7. \A h \in Handlers : Reading(h)'
    BY <1>0, OverlapStep DEF Reading
  <1> QED BY <1>3, <1>4, <1>5, <1>6, <1>7 DEF Inv

LEMMA InvPreserved ==
    ASSUME Inv, [Next]_vars PROVE Inv'
  <1>1. TypeOK'
    BY TypePreserved DEF Inv
  <1>2. CASE UNCHANGED vars
    BY <1>1, <1>2 DEF vars, Inv, StoreLock, History, HupSeen, Compiling, Fresh, Reading, Good, CurrentAt
  <1>3. CASE Next
    BY <1>1, <1>3, InvTick, InvWriter, InvCommit, InvForceReload, InvArrive, InvRefresh, InvSnapshot,
       InvReads, InvDone, InvSetPolicies, InvSetAccountMgr, InvHup
    DEF Next, HandlerStep, Reads
  <1> QED BY <1>2, <1>3

\* The invariant that follows a version from the store to the request holds
\* for every interleaving of refreshes, commits, notifications and SIGHUP.
THEOREM Invariance ==
    Spec => []Inv
  BY InitInv, InvPreserved, PTL DEF Spec

\* The types of the state, and runtimeMu is held by exactly the request that
\* compiles (refreshPolicyRuntime).
THEOREM TypeCorrect ==
    Spec => []TypeOK
  BY Invariance, PTL DEF Inv

\* No change whose notification has run is missing from what a request reads
\* (forcePolicyRuntimeReload, refreshPolicyRuntime).
THEOREM NotifiedChangesApplyHolds ==
    Spec => []NotifiedChangesApply
  <1>1. Inv => NotifiedChangesApply
    BY DEF Inv, Reading, Good, NotifiedChangesApply
  <1> QED BY <1>1, Invariance, PTL

\* No request reads what was replaced longer ago than the period of
\* refreshPolicyRuntime and the time of a compilation.
THEOREM BoundedStalenessHolds ==
    Spec => []BoundedStaleness
  <1>1. Inv => BoundedStaleness
    BY Numbers DEF Inv, Reading, Good, CurrentAt, BoundedStaleness
  <1> QED BY <1>1, Invariance, PTL
=============================================================================
