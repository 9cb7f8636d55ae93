----------------------------- MODULE Accounting -----------------------------
(***************************************************************************)
(* Session and daily-budget accounting (internal/accounting/accounting.go).*)
(*                                                                         *)
(* Every DNS request of a known user runs ProcessRequest on a goroutine of *)
(* its own.  The goroutine reads the clock and the user's budget first     *)
(* (Begin) and only then waits for the policy store's lock, under which    *)
(* the closure of applyForDay runs (Apply).  Requests of one user, sent    *)
(* from several devices, may therefore be applied in another order than    *)
(* that of the instants they carry.                                        *)
(*                                                                         *)
(* An instant is a record of whole seconds s and a fraction f of a second. *)
(* The SQLite store writes instants as RFC3339, which drops the fraction;  *)
(* the JSON store keeps it.  A failing save leaves the SQLite store as it  *)
(* was; the JSON store has by then changed its copy in memory.             *)
(***************************************************************************)
EXTENDS Integers

CONSTANTS
    Users,              \* users of the household
    Goroutines,         \* concurrent executions of ProcessRequest
    Budgets,            \* budgets in seconds an administrator may set; 0: none
    IdleTimeout,        \* Manager.idleTimeout, in seconds
    DayLength,          \* seconds in a day of the budget time zone
    FracPerSecond,      \* resolution of the clock
    Backend,            \* the policy store in use: "sqlite" or "json"
    MaxSecond,          \* bound: the clock stops here
    MaxUsage            \* bound: no request begins for a user charged more

ASSUME BudgetsAssumption == Budgets \subseteq Nat
ASSUME TimesAssumption ==
    /\ IdleTimeout \in Nat \ {0}
    /\ DayLength \in Nat \ {0}
    /\ FracPerSecond \in Nat \ {0}
    /\ MaxSecond \in Nat
    /\ MaxUsage \in Nat
ASSUME BackendAssumption == Backend \in {"sqlite", "json"}

VARIABLES
    clock,      \* time.Now()
    budget,     \* user -> DailyBudgetMinutes * 60 of the compiled runtime
    usage,      \* Data.Usage: user -> day and seconds charged
    session,    \* Data.Sessions: user -> day, active, start, lastSeen
    disk,       \* usage and session as a restart would read them, with their truth
    req,        \* goroutine -> the request it carries to the store, or NoReq
    decision,   \* goroutine -> outcome of its last request
    truth       \* history: what the user really did on the day (see Observe)

vars == <<clock, budget, usage, session, disk, req, decision, truth>>

NoDay == -1
Zero == [s |-> 0, f |-> 0]
NoReq == [user |-> "none"]

Instant == [s : Nat, f : Nat]
Before(a, b) == a.s < b.s \/ (a.s = b.s /\ a.f < b.f)
DayOf(t) == t.s \div DayLength
Stored(t) == IF Backend = "sqlite" THEN [s |-> t.s, f |-> 0] ELSE t

\* int64(b.Sub(a).Seconds()): truncated towards zero, negative when b is first.
WholeSeconds(a, b) ==
    CASE ~Before(b, a) /\ a.f <= b.f -> b.s - a.s
      [] ~Before(b, a) /\ b.f < a.f  -> b.s - a.s - 1
      [] Before(b, a) /\ b.f <= a.f  -> b.s - a.s
      [] Before(b, a) /\ a.f < b.f   -> b.s - a.s + 1

\* now.Sub(lastSeen) > idleTimeout, a negative difference counting as zero.
ExceedsIdle(last, now) ==
    \/ now.s - last.s > IdleTimeout
    \/ now.s - last.s = IdleTimeout /\ last.f < now.f

-----------------------------------------------------------------------------
\* The closure of applyForDay, step by step.

\* Mutant: the usage of another day is kept.
UsageOnKept(u, day) == usage[u]

\* The day's usage: a record of any other day is replaced by an empty one.
UsageOn(u, day) ==
    IF usage[u].day # day THEN [day |-> day, seconds |-> 0] ELSE usage[u]

\* The session, closed if it belongs to another day.
SessionOn(u, day) ==
    IF session[u].day \notin {NoDay, day}
      THEN [day |-> day, active |-> FALSE, start |-> Zero, lastSeen |-> Zero]
      ELSE [session[u] EXCEPT !.day = day]

\* Mutant: time is charged only when a session is closed.
AccrualAtClose(sess, now) ==
    IF sess.active /\ ExceedsIdle(sess.lastSeen, now)
      THEN WholeSeconds(sess.start, sess.lastSeen) ELSE 0

\* Seconds added to the usage by a request that finds session sess at now.
Accrual(sess, now) ==
    CASE ~sess.active                       -> 0
      [] sess.active /\ ExceedsIdle(sess.lastSeen, now) ->
            WholeSeconds(sess.start, sess.lastSeen)
      [] sess.active /\ ~ExceedsIdle(sess.lastSeen, now) ->
            IF Before(now, sess.lastSeen) THEN 0 ELSE WholeSeconds(sess.lastSeen, now)

\* The session once the idle timeout has been applied.
AfterIdle(sess, now) ==
    [sess EXCEPT !.active = sess.active /\ ~ExceedsIdle(sess.lastSeen, now)]

\* Mutant: the budget itself is still within budget.
OverBudgetLate(seconds, limit) == limit > 0 /\ seconds > limit

OverBudget(seconds, limit) == limit > 0 /\ seconds >= limit

\* Mutant: a new session keeps the start of the one before it.
SeenOldStart(sess, now) == [sess EXCEPT !.active = TRUE, !.lastSeen = Stored(now)]

\* The session of an admitted request: resumed, or started at now.
Seen(sess, now) ==
    [sess EXCEPT !.active = TRUE,
                 !.start = IF sess.active THEN @ ELSE Stored(now),
                 !.lastSeen = Stored(now)]

-----------------------------------------------------------------------------
(***************************************************************************)
(* History.  truth[u] follows the requests the store admitted on one day:  *)
(* online is the time between consecutive requests no further apart than   *)
(* the idle timeout, at the store's precision; capped says that a request  *)
(* of the day was refused.                                                 *)
(***************************************************************************)
Observe(u, day, now, blocked) ==
    LET t == truth[u]
        sameDay == t.day = day
    IN  IF blocked
          THEN [t EXCEPT !.capped = TRUE]
          ELSE [day |-> day,
                last |-> Stored(now),
                online |-> IF ~sameDay THEN 0
                           ELSE IF ExceedsIdle(t.last, now) THEN t.online
                           ELSE t.online + (now.s - t.last.s),
                capped |-> sameDay /\ t.capped]

-----------------------------------------------------------------------------
Init ==
    /\ clock = Zero
    /\ budget \in [Users -> Budgets]
    /\ usage = [u \in Users |-> [day |-> NoDay, seconds |-> 0]]
    /\ session = [u \in Users |->
          [day |-> NoDay, active |-> FALSE, start |-> Zero, lastSeen |-> Zero]]
    /\ req = [g \in Goroutines |-> NoReq]
    /\ decision = [g \in Goroutines |-> "none"]
    /\ truth = [u \in Users |->
          [day |-> NoDay, last |-> Zero, online |-> 0, capped |-> FALSE]]
    /\ disk = [usage |-> usage, session |-> session, truth |-> truth]

\* Time passes.
Tick ==
    /\ clock.s < MaxSecond
    /\ clock' = IF clock.f + 1 < FracPerSecond
                  THEN [clock EXCEPT !.f = @ + 1]
                  ELSE [s |-> clock.s + 1, f |-> 0]
    /\ UNCHANGED <<budget, usage, session, disk, req, decision, truth>>

\* An administrator changes a budget and the runtime is compiled again.
SetBudget(u, b) ==
    /\ budget' = [budget EXCEPT ![u] = b]
    /\ UNCHANGED <<clock, usage, session, disk, req, decision, truth>>

\* ProcessRequest up to the store's lock: the clock and the budget are read.
Begin(g, u) ==
    /\ req[g] = NoReq
    /\ usage[u].seconds <= MaxUsage
    /\ req' = [req EXCEPT ![g] = [user |-> u, now |-> clock, limit |-> budget[u]]]
    /\ UNCHANGED <<clock, budget, usage, session, disk, decision, truth>>

\* The usage of the day with this request's accrual, and the verdict on it.
Total(r) ==
    UsageOn(r.user, DayOf(r.now)).seconds + Accrual(SessionOn(r.user, DayOf(r.now)), r.now)

Blocked(r) == OverBudget(Total(r), r.limit)

\* What the closure of applyForDay leaves in Data.Usage and Data.Sessions.  A
\* refused request does not move lastSeen.
Account(r) ==
    LET idled == AfterIdle(SessionOn(r.user, DayOf(r.now)), r.now)
    IN  /\ usage' = [usage EXCEPT ![r.user] = [day |-> DayOf(r.now), seconds |-> Total(r)]]
        /\ session' = [session EXCEPT ![r.user] =
              IF Blocked(r) THEN idled ELSE Seen(idled, r.now)]
        /\ truth' = [truth EXCEPT ![r.user] = Observe(r.user, DayOf(r.now), r.now, Blocked(r))]

\* The closure under the store's lock, and the save after it.
Apply(g) ==
    /\ req[g] # NoReq
    /\ Account(req[g])
    /\ disk' = [usage |-> usage', session |-> session', truth |-> truth']
    /\ decision' = [decision EXCEPT ![g] = IF Blocked(req[g]) THEN "blocked" ELSE "admitted"]
    /\ req' = [req EXCEPT ![g] = NoReq]
    /\ UNCHANGED <<clock, budget>>

\* The save fails.  dnsHandler ignores the decision that comes with an error, so
\* the request goes on as if it were within budget.
ApplyFails(g) ==
    /\ req[g] # NoReq
    /\ IF Backend = "sqlite" THEN UNCHANGED <<usage, session, truth>> ELSE Account(req[g])
    /\ decision' = [decision EXCEPT ![g] = "unaccounted"]
    /\ req' = [req EXCEPT ![g] = NoReq]
    /\ UNCHANGED <<clock, budget, disk>>

\* The process restarts: requests in flight are lost, the saved store is read.
Restart ==
    /\ usage' = disk.usage
    /\ session' = disk.session
    /\ truth' = disk.truth
    /\ req' = [g \in Goroutines |-> NoReq]
    /\ decision' = [g \in Goroutines |-> "none"]
    /\ UNCHANGED <<clock, budget, disk>>

Next ==
    \/ Tick
    \/ \E u \in Users, b \in Budgets : SetBudget(u, b)
    \/ \E g \in Goroutines, u \in Users : Begin(g, u)
    \/ \E g \in Goroutines : Apply(g)
    \/ \E g \in Goroutines : ApplyFails(g)
    \/ Restart

Spec == Init /\ [][Next]_vars

-----------------------------------------------------------------------------
\* Types of the state: seconds may be negative, everything else is natural.
UsageRecord == [day : Int, seconds : Int]
SessionRecord == [day : Int, active : BOOLEAN, start : Instant, lastSeen : Instant]
TruthRecord == [day : Int, last : Instant, online : Int, capped : BOOLEAN]
Request == [user : Users, now : Instant, limit : Nat]

TypeOK ==
    /\ clock \in Instant
    /\ budget \in [Users -> Budgets]
    /\ usage \in [Users -> UsageRecord]
    /\ session \in [Users -> SessionRecord]
    /\ disk \in [usage : [Users -> UsageRecord], session : [Users -> SessionRecord],
                 truth : [Users -> TruthRecord]]
    /\ req \in [Goroutines -> Request \cup {NoReq}]
    /\ decision \in [Goroutines -> {"none", "admitted", "blocked", "unaccounted"}]
    /\ truth \in [Users -> TruthRecord]

WithinDay(usages, sessions) ==
    \A u \in Users :
        /\ sessions[u].day = usages[u].day
        /\ sessions[u].active => /\ DayOf(sessions[u].start) = sessions[u].day
                                 /\ DayOf(sessions[u].lastSeen) = sessions[u].day

\* The day of a user's usage record and that of the session always agree, and
\* an active session lies within its day: its start and its last request are
\* both of that day.  applyForDay keeps the two records with two separate tests
\* (lines 73 and 81), whatever the order in which goroutines get the lock.
SessionWithinDay == WithinDay(usage, session)

FreshDayStep ==
    \A g \in Goroutines :
       (decision'[g] = "blocked" /\ req[g] # NoReq /\ req'[g] = NoReq)
         => DayOf(req[g].now) = usage[req[g].user].day

\* Daily reset: whatever the previous day left behind - usage over budget, a
\* session still active, requests overtaking each other - the first request of
\* a day is never refused for its budget.
FreshDayAdmits == [][FreshDayStep]_vars

\* With one request at a time, every second a user is online is charged: the
\* usage of the day is never below the time between its admitted requests.
FullyCharged ==
    \A u \in Users : truth[u].day = usage[u].day => truth[u].online <= usage[u].seconds

\* With one request at a time and until a request of the day is refused, no
\* second is charged more than twice.
ChargedAtMostTwice ==
    \A u \in Users :
        truth[u].day = usage[u].day /\ ~truth[u].capped
          => usage[u].seconds <= 2 * truth[u].online

BudgetStep ==
    \A g \in Goroutines :
       (req[g] # NoReq /\ req'[g] = NoReq /\ decision'[g] = "admitted" /\ req[g].limit > 0)
         => truth'[req[g].user].online < req[g].limit

\* The budget holds: with one request at a time, a request the store admits
\* leaves the user strictly below the budget in time really spent online.
BudgetEnforced == [][BudgetStep]_vars

GrowingStep ==
    \A u \in Users :
       usage'[u].day = usage[u].day => usage'[u].seconds >= usage[u].seconds

\* With one request at a time the usage of a day only grows, so a user refused
\* once stays refused for the rest of the day unless the budget is raised.
UsageGrows == [][GrowingStep]_vars

-----------------------------------------------------------------------------
(***************************************************************************)
(* The inductive invariants of the proofs.                                 *)
(***************************************************************************)
DayInv == WithinDay(usage, session) /\ WithinDay(disk.usage, disk.session)

\* Charges and real time of a user, with one request at a time on the SQLite
\* store.  While a session is active its own span is charged once and all that
\* came before it twice; a session the idle timeout closed is charged twice.
\* A closed session is left behind by a refused request only, and any request
\* still to come finds its last instant further away than the idle timeout.
Ledger(u) ==
    LET sess == session[u]
        t    == truth[u]
        span == sess.lastSeen.s - sess.start.s
    IN  /\ 0 <= t.online
        /\ t.day = usage[u].day
        /\ t.last.f = 0
        /\ sess.active =>
              /\ sess.lastSeen = t.last
              /\ sess.start.f = 0
              /\ 0 <= span /\ span <= t.online
              /\ 2 * t.online - span <= usage[u].seconds
              /\ ~t.capped => usage[u].seconds <= 2 * t.online - span
        /\ ~sess.active /\ t.day # NoDay =>
              /\ t.capped
              /\ 2 * t.online <= usage[u].seconds
              /\ ExceedsIdle(t.last, clock)
              /\ \A g \in Goroutines :
                    req[g] # NoReq /\ req[g].user = u => ExceedsIdle(t.last, req[g].now)
        /\ t.day = NoDay =>
              ~sess.active /\ t.last = Zero /\ t.online = 0 /\ ~t.capped /\ usage[u].seconds = 0

\* Time never runs backwards for one request at a time: a request carries an
\* instant between the user's last one and the clock.
InOrder ==
    /\ \A u \in Users : truth[u].last.s <= clock.s
    /\ \A g \in Goroutines : req[g] # NoReq =>
          /\ ~Before(clock, req[g].now)
          /\ truth[req[g].user].last.s <= req[g].now.s

\* The ledger of every user holds, the saved store is the store, and requests
\* are applied in the order of the instants they carry.
SerialInv ==
    /\ \A u \in Users : Ledger(u)
    /\ InOrder
    /\ disk = [usage |-> usage, session |-> session, truth |-> truth]

-----------------------------------------------------------------------------
\* types.go:78: Seconds are those "accrued in the given day": the usage of an
\* uncapped day is not more than the time spent online.
NeverOvercharged ==
    \A u \in Users :
        truth[u].day = usage[u].day /\ ~truth[u].capped
          => usage[u].seconds <= truth[u].online
=============================================================================
