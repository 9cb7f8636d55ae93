---------------------------- MODULE PolicyRuntime ----------------------------
(***************************************************************************)
(* How a change of the policy store reaches DNS requests                   *)
(* (internal/proxy/proxy.go, internal/adminserver/adminserver.go).         *)
(*                                                                         *)
(* dnsHandler first calls refreshPolicyRuntime, which under runtimeMu      *)
(* compiles a snapshot of the store if the last one is older than          *)
(* RefreshPeriod, and then reads the globals policies and accountMgr one   *)
(* by one, without a lock.  A writer (an admin handler, or a merge of the  *)
(* device discovery) commits to the store and then, on a goroutine of its  *)
(* own, forces the next refresh.  SIGHUP replaces both globals without the *)
(* lock and forces a refresh at the end.                                   *)
(*                                                                         *)
(* Policy data is abstracted to the number of commits it contains.         *)
(***************************************************************************)
EXTENDS Integers

CONSTANTS
    Handlers,       \* concurrent executions of dnsHandler
    Writers,        \* admin handlers and the discovery manager
    RefreshPeriod,  \* the two seconds of refreshPolicyRuntime
    CompileTime,    \* bound: how long Compile may take
    MaxVersion,     \* bound: commits
    MaxTime,        \* bound: the clock stops here
    MaxReloads      \* bound: SIGHUPs

ASSUME BoundsAssumption ==
    /\ RefreshPeriod \in Nat
    /\ CompileTime \in Nat
    /\ MaxVersion \in Nat
    /\ MaxTime \in Nat
    /\ MaxReloads \in Nat
ASSUME NamesAssumption == "none" \notin (Handlers \cup Writers)

VARIABLES
    clock,
    store,          \* commits in the policy store
    storeMu,        \* who holds the store's mutex
    policies,       \* commits in the compiled runtime
    accountMgr,     \* commits in the runtime of the accounting manager
    lastRefresh,    \* lastPolicyRefresh, or Forced
    runtimeMu,      \* which handler holds runtimeMu
    handler,        \* handler -> pc, snapshot it compiles, versions it reads
    writer,         \* writer -> pc
    hup,            \* the SIGHUP loop: pc and snapshot
    reloads,        \* SIGHUPs so far
    commitTime,     \* history: version -> when it was committed
    notified        \* history: newest version whose notification has run

vars == <<clock, store, storeMu, policies, accountMgr, lastRefresh, runtimeMu,
          handler, writer, hup, reloads, commitTime, notified>>

None == "none"
Forced == -(RefreshPeriod + 1)      \* the zero time: longer ago than any period
Version == 0..MaxVersion

\* A handler at rest.  floor and started describe the request, least the oldest
\* version it has read, raced whether a SIGHUP reload overlapped it.
Resting == [pc |-> "idle", snap |-> 0, snapAt |-> 0, floor |-> 0, started |-> 0,
            least |-> MaxVersion, raced |-> FALSE]

Goto(h, label) == handler' = [handler EXCEPT ![h].pc = label]

\* A read of a global by handler h.
Read(h, version, label) ==
    handler' = [handler EXCEPT ![h].pc = label,
                               ![h].least = IF version < @ THEN version ELSE @]

\* Requests being handled while the SIGHUP loop is at work.
Overlap == [h \in Handlers |->
               IF handler[h].pc = "idle" THEN handler[h] ELSE [handler[h] EXCEPT !.raced = TRUE]]

-----------------------------------------------------------------------------
\* initPolicyLayer.
Init ==
    /\ clock = 0
    /\ store = 0
    /\ storeMu = None
    /\ policies = 0
    /\ accountMgr = 0
    /\ lastRefresh = Forced
    /\ runtimeMu = None
    /\ handler = [h \in Handlers |-> Resting]
    /\ writer = [w \in Writers |-> [pc |-> "idle", version |-> 0]]
    /\ hup = [pc |-> "idle", snap |-> 0]
    /\ reloads = 0
    /\ commitTime = [v \in Version |-> 0]
    /\ notified = 0

\* Time passes, but no compilation takes longer than CompileTime.
Tick ==
    /\ clock < MaxTime
    /\ \A h \in Handlers :
          handler[h].pc \in {"policies", "account"} => clock < handler[h].snapAt + CompileTime
    /\ clock' = clock + 1
    /\ UNCHANGED <<store, storeMu, policies, accountMgr, lastRefresh, runtimeMu,
                   handler, writer, hup, reloads, commitTime, notified>>

-----------------------------------------------------------------------------
\* Writers: UpdateMutate under the store's mutex, then the notification.

Lock(w) ==
    /\ writer[w].pc = "idle"
    /\ store < MaxVersion
    /\ storeMu = None
    /\ storeMu' = w
    /\ writer' = [writer EXCEPT ![w].pc = "mutate"]
    /\ UNCHANGED <<clock, store, policies, accountMgr, lastRefresh, runtimeMu,
                   handler, hup, reloads, commitTime, notified>>

Commit(w) ==
    /\ writer[w].pc = "mutate"
    /\ store' = store + 1
    /\ commitTime' = [commitTime EXCEPT ![store + 1] = clock]
    /\ storeMu' = None
    /\ writer' = [writer EXCEPT ![w] = [pc |-> "notify", version |-> store + 1]]
    /\ UNCHANGED <<clock, policies, accountMgr, lastRefresh, runtimeMu,
                   handler, hup, reloads, notified>>

\* The mutation fails: the caller returns without a notification.
Abort(w) ==
    /\ writer[w].pc = "mutate"
    /\ storeMu' = None
    /\ writer' = [writer EXCEPT ![w].pc = "idle"]
    /\ UNCHANGED <<clock, store, policies, accountMgr, lastRefresh, runtimeMu,
                   handler, hup, reloads, commitTime, notified>>

\* Mutant: the refresh is forced without waiting for runtimeMu.
ForceUnlocked(w) ==
    /\ writer[w].pc = "notify"
    /\ lastRefresh' = Forced
    /\ notified' = IF writer[w].version > notified THEN writer[w].version ELSE notified
    /\ writer' = [writer EXCEPT ![w].pc = "idle"]
    /\ UNCHANGED <<clock, store, storeMu, policies, accountMgr, runtimeMu,
                   handler, hup, reloads, commitTime>>

\* forcePolicyRuntimeReload, from notifyChange or the discovery's OnUpdate.
ForceReload(w) ==
    /\ writer[w].pc = "notify"
    /\ runtimeMu = None
    /\ lastRefresh' = Forced
    /\ notified' = IF writer[w].version > notified THEN writer[w].version ELSE notified
    /\ writer' = [writer EXCEPT ![w].pc = "idle"]
    /\ UNCHANGED <<clock, store, storeMu, policies, accountMgr, runtimeMu,
                   handler, hup, reloads, commitTime>>

-----------------------------------------------------------------------------
\* dnsHandler: a request arrives.
Arrive(h) ==
    /\ handler[h].pc = "idle"
    /\ handler' = [handler EXCEPT ![h] =
          [Resting EXCEPT !.pc = "refresh", !.floor = notified, !.raced = hup.pc # "idle"]]
    /\ UNCHANGED <<clock, store, storeMu, policies, accountMgr, lastRefresh, runtimeMu,
                   writer, hup, reloads, commitTime, notified>>

\* Mutant: the runtime is kept for longer than the period.
RefreshLate(h) ==
    /\ handler[h].pc = "refresh"
    /\ runtimeMu = None
    /\ IF lastRefresh = Forced \/ clock - lastRefresh > RefreshPeriod + 1
         THEN /\ runtimeMu' = h
              /\ Goto(h, "snapshot")
         ELSE /\ handler' = [handler EXCEPT ![h].pc = "device", ![h].started = clock]
              /\ UNCHANGED runtimeMu
    /\ UNCHANGED <<clock, store, storeMu, policies, accountMgr, lastRefresh,
                   writer, hup, reloads, commitTime, notified>>

\* refreshPolicyRuntime: take the lock and see whether the runtime is too old.
Refresh(h) ==
    /\ handler[h].pc = "refresh"
    /\ runtimeMu = None
    /\ IF clock - lastRefresh > RefreshPeriod
         THEN /\ runtimeMu' = h
              /\ Goto(h, "snapshot")
         ELSE /\ handler' = [handler EXCEPT ![h].pc = "device", ![h].started = clock]
              /\ UNCHANGED runtimeMu
    /\ UNCHANGED <<clock, store, storeMu, policies, accountMgr, lastRefresh,
                   writer, hup, reloads, commitTime, notified>>

\* DataSnapshot under the store's mutex, while runtimeMu is held.
Snapshot(h) ==
    /\ handler[h].pc = "snapshot"
    /\ storeMu = None
    /\ handler' = [handler EXCEPT ![h].pc = "policies", ![h].snap = store, ![h].snapAt = clock]
    /\ UNCHANGED <<clock, store, storeMu, policies, accountMgr, lastRefresh, runtimeMu,
                   writer, hup, reloads, commitTime, notified>>

\* policies = the compiled runtime.
SetPolicies(h) ==
    /\ handler[h].pc = "policies"
    /\ policies' = handler[h].snap
    /\ Goto(h, "account")
    /\ UNCHANGED <<clock, store, storeMu, accountMgr, lastRefresh, runtimeMu,
                   writer, hup, reloads, commitTime, notified>>

\* accountMgr = a manager on that runtime, the refresh is dated, the lock released.
SetAccountMgr(h) ==
    /\ handler[h].pc = "account"
    /\ accountMgr' = handler[h].snap
    /\ lastRefresh' = clock
    /\ runtimeMu' = None
    /\ handler' = [handler EXCEPT ![h].pc = "device", ![h].started = clock,
                                  ![h].snap = 0, ![h].snapAt = 0]
    /\ UNCHANGED <<clock, store, storeMu, policies, writer, hup, reloads, commitTime, notified>>

\* MatchDevice, which may not know the client: nothing else is read then.
MatchDevice(h) ==
    /\ handler[h].pc = "device"
    /\ \E label \in {"user", "judged"} : Read(h, policies, label)
    /\ UNCHANGED <<clock, store, storeMu, policies, accountMgr, lastRefresh, runtimeMu,
                   writer, hup, reloads, commitTime, notified>>

\* MatchUser and InAllowWindow; a request that is blocked by now, by the rules
\* engine or outside the user's windows, reads neither the budget nor the rules.
MatchUser(h) ==
    /\ handler[h].pc = "user"
    /\ \E label \in {"budget", "judged"} : Read(h, policies, label)
    /\ UNCHANGED <<clock, store, storeMu, policies, accountMgr, lastRefresh, runtimeMu,
                   writer, hup, reloads, commitTime, notified>>

\* ProcessRequest of the accounting manager, which locks the store and may block.
ProcessRequest(h) ==
    /\ handler[h].pc = "budget"
    /\ storeMu = None
    /\ \E label \in {"rules", "judged"} : Read(h, accountMgr, label)
    /\ UNCHANGED <<clock, store, storeMu, policies, accountMgr, lastRefresh, runtimeMu,
                   writer, hup, reloads, commitTime, notified>>

\* MatchDomainRule; the verdict is reached and the request answered.
MatchDomainRule(h) ==
    /\ handler[h].pc = "rules"
    /\ Read(h, policies, "judged")
    /\ UNCHANGED <<clock, store, storeMu, policies, accountMgr, lastRefresh, runtimeMu,
                   writer, hup, reloads, commitTime, notified>>

Done(h) ==
    /\ handler[h].pc = "judged"
    /\ handler' = [handler EXCEPT ![h] = Resting]
    /\ UNCHANGED <<clock, store, storeMu, policies, accountMgr, lastRefresh, runtimeMu,
                   writer, hup, reloads, commitTime, notified>>

HandlerStep(h) ==
    \/ Refresh(h) \/ Snapshot(h) \/ SetPolicies(h) \/ SetAccountMgr(h)
    \/ MatchDevice(h) \/ MatchUser(h) \/ ProcessRequest(h) \/ MatchDomainRule(h) \/ Done(h)

-----------------------------------------------------------------------------
\* SIGHUP: a snapshot of the store is compiled ...
HupSnapshot ==
    /\ hup.pc = "idle" /\ reloads < MaxReloads
    /\ storeMu = None
    /\ hup' = [pc |-> "policies", snap |-> store]
    /\ reloads' = reloads + 1
    /\ handler' = Overlap
    /\ UNCHANGED <<clock, store, storeMu, policies, accountMgr, lastRefresh, runtimeMu,
                   writer, commitTime, notified>>

\* ... both globals are replaced without the lock ...
HupPolicies ==
    /\ hup.pc = "policies"
    /\ policies' = hup.snap
    /\ hup' = [hup EXCEPT !.pc = "account"]
    /\ handler' = Overlap
    /\ UNCHANGED <<clock, store, storeMu, accountMgr, lastRefresh, runtimeMu,
                   writer, reloads, commitTime, notified>>

HupAccountMgr ==
    /\ hup.pc = "account"
    /\ accountMgr' = hup.snap
    /\ hup' = [hup EXCEPT !.pc = "force"]
    /\ handler' = Overlap
    /\ UNCHANGED <<clock, store, storeMu, policies, lastRefresh, runtimeMu,
                   writer, reloads, commitTime, notified>>

\* Mutant: the reload does not force a refresh.
HupNoForce ==
    /\ hup.pc = "force"
    /\ runtimeMu = None
    /\ hup' = [hup EXCEPT !.pc = "idle"]
    /\ handler' = Overlap
    /\ UNCHANGED <<clock, store, storeMu, policies, accountMgr, lastRefresh, runtimeMu,
                   writer, reloads, commitTime, notified>>

\* ... and the next refresh is forced.
HupForce ==
    /\ hup.pc = "force"
    /\ runtimeMu = None
    /\ lastRefresh' = Forced
    /\ hup' = [hup EXCEPT !.pc = "idle"]
    /\ handler' = Overlap
    /\ UNCHANGED <<clock, store, storeMu, policies, accountMgr, runtimeMu,
                   writer, reloads, commitTime, notified>>

HupStep == HupPolicies \/ HupAccountMgr \/ HupForce

-----------------------------------------------------------------------------
Next ==
    \/ Tick
    \/ \E w \in Writers : Lock(w) \/ Commit(w) \/ Abort(w) \/ ForceReload(w)
    \/ \E h \in Handlers : Arrive(h) \/ HandlerStep(h)
    \/ HupSnapshot
    \/ HupStep

Spec == Init /\ [][Next]_vars

\* Goroutines that can run do, and requests keep arriving.  Nothing is assumed
\* of the clock, of new commits or of SIGHUP.
Fairness ==
    /\ \A h \in Handlers : WF_vars(Arrive(h)) /\ SF_vars(HandlerStep(h))
    /\ \A w \in Writers : WF_vars(Commit(w) \/ Abort(w)) /\ SF_vars(ForceReload(w))
    /\ WF_vars(HupPolicies) /\ WF_vars(HupAccountMgr) /\ SF_vars(HupForce)

FairSpec == Spec /\ Fairness

-----------------------------------------------------------------------------
HandlerPc == {"idle", "refresh", "snapshot", "policies", "account", "device",
              "user", "budget", "rules", "judged"}

\* Types of the state; runtimeMu is held by exactly the handler that compiles.
TypeOK ==
    /\ clock \in 0..MaxTime
    /\ store \in Version /\ policies \in Version /\ accountMgr \in Version
    /\ storeMu \in Writers \cup {None}
    /\ lastRefresh \in {Forced} \cup 0..MaxTime
    /\ runtimeMu \in Handlers \cup {None}
    /\ handler \in [Handlers -> [pc : HandlerPc, snap : Version, snapAt : 0..MaxTime,
                                 floor : Version, started : 0..MaxTime, least : Version,
                                 raced : BOOLEAN]]
    /\ writer \in [Writers -> [pc : {"idle", "mutate", "notify"}, version : Version]]
    /\ hup \in [pc : {"idle", "policies", "account", "force"}, snap : Version]
    /\ reloads \in 0..MaxReloads
    /\ commitTime \in [Version -> 0..MaxTime]
    /\ notified \in Version
    /\ \A h \in Handlers :
          handler[h].pc \in {"snapshot", "policies", "account"} <=> runtimeMu = h

\* A change whose notification has run is not lost: every version a request
\* reads, of the policies and of the accounting manager, contains all changes
\* notified before the request arrived - however refreshes, commits and
\* notifications interleave, unless a SIGHUP reload overlaps the request.
NotifiedChangesApply ==
    \A h \in Handlers :
        handler[h].pc = "judged" /\ ~handler[h].raced => handler[h].least >= handler[h].floor

\* Even without a notification a change is applied within RefreshPeriod and the
\* time a compilation takes: a request reads nothing that was replaced longer
\* ago than that when its refresh was done, unless a SIGHUP reload overlaps it.
BoundedStaleness ==
    \A h \in Handlers :
        handler[h].pc = "judged" /\ ~handler[h].raced /\ handler[h].least < store =>
            handler[h].started - commitTime[handler[h].least + 1] <= RefreshPeriod + CompileTime

\* Every committed change is eventually compiled into both globals for good,
\* without the clock having to move: by the notifications alone.
ChangesReachTheRuntime ==
    \A v \in Version : store >= v ~> [](policies >= v /\ accountMgr >= v)
=============================================================================
