-------------------------- MODULE AccountingProofs --------------------------
(***************************************************************************)
(* Proofs about Accounting.  The first part holds for any number of        *)
(* goroutines and either store: types, the agreement of the two day        *)
(* records, the daily reset.  The second part is about one request at a    *)
(* time on the SQLite store: what is charged against what was used.        *)
(***************************************************************************)
EXTENDS Accounting, TLAPS

\* Instants lie on days, and days are natural numbers.
LEMMA DayType == ASSUME NEW t \in Instant PROVE DayOf(t) \in Nat
BY TimesAssumption DEF DayOf, Instant

\* Saving an instant keeps its whole seconds, hence its day.
LEMMA StoredFacts ==
    ASSUME NEW t \in Instant
    PROVE  /\ Stored(t) \in Instant
           /\ Stored(t).s = t.s
           /\ DayOf(Stored(t)) = DayOf(t)
           /\ Backend = "sqlite" => Stored(t).f = 0
BY DEF Stored, Instant, DayOf

\* A truncated difference of instants is an integer; in order it is not
\* negative and not above the difference of the whole seconds, which it equals
\* when the first instant is a whole second.
LEMMA WholeSecondsFacts ==
    ASSUME NEW a \in Instant, NEW b \in Instant
    PROVE  /\ WholeSeconds(a, b) \in Int
           /\ ~Before(b, a) => 0 <= WholeSeconds(a, b) /\ WholeSeconds(a, b) <= b.s - a.s
           /\ ~Before(b, a) /\ a.f = 0 => WholeSeconds(a, b) = b.s - a.s
BY DEF WholeSeconds, Before, Instant

\* Zero is an instant.
LEMMA ZeroType == Zero \in Instant
BY DEF Zero, Instant

\* A goroutine that carries something carries a request.
LEMMA RequestType ==
    ASSUME TypeOK, NEW g \in Goroutines, req[g] # NoReq
    PROVE  /\ req[g] \in Request
           /\ req[g].user \in Users
           /\ req[g].now \in Instant
           /\ req[g].limit \in Nat
BY DEF TypeOK, Request

\* The day's usage and session are of their types, and of that day.
LEMMA DayRecords ==
    ASSUME TypeOK, NEW u \in Users, NEW day \in Nat
    PROVE  /\ UsageOn(u, day) \in UsageRecord
           /\ UsageOn(u, day).day = day
           /\ SessionOn(u, day) \in SessionRecord
           /\ SessionOn(u, day).day = day
<1>1. usage[u] \in UsageRecord /\ session[u] \in SessionRecord
  BY DEF TypeOK
<1>2. UsageOn(u, day) \in UsageRecord /\ UsageOn(u, day).day = day
  BY <1>1 DEF UsageOn, UsageRecord
<1>3. CASE session[u].day \notin {NoDay, day}
  BY <1>2, <1>3, ZeroType DEF SessionOn, SessionRecord
<1>4. CASE session[u].day \in {NoDay, day}
  BY <1>1, <1>2, <1>4 DEF SessionOn, SessionRecord
<1> QED BY <1>3, <1>4

\* The accrual of a request is an integer.
LEMMA AccrualType ==
    ASSUME NEW sess \in SessionRecord, NEW now \in Instant
    PROVE  Accrual(sess, now) \in Int
<1>1. sess.start \in Instant /\ sess.lastSeen \in Instant /\ sess.active \in BOOLEAN
  BY DEF SessionRecord
<1>2. /\ WholeSeconds(sess.start, sess.lastSeen) \in Int
      /\ WholeSeconds(sess.lastSeen, now) \in Int
  BY <1>1, WholeSecondsFacts
<1>3. CASE ~sess.active
  BY <1>3 DEF Accrual
<1>4. CASE sess.active /\ ExceedsIdle(sess.lastSeen, now)
  BY <1>2, <1>4 DEF Accrual
<1>5. CASE sess.active /\ ~ExceedsIdle(sess.lastSeen, now)
  BY <1>2, <1>5 DEF Accrual
<1> QED BY <1>1, <1>3, <1>4, <1>5

\* What the closure of applyForDay writes is of the right types.
LEMMA AccountType ==
    ASSUME TypeOK, NEW g \in Goroutines, req[g] # NoReq, Account(req[g])
    PROVE  /\ usage' \in [Users -> UsageRecord]
           /\ session' \in [Users -> SessionRecord]
           /\ truth' \in [Users -> TruthRecord]
<1> DEFINE r == req[g]
           day == DayOf(r.now)
           sess == SessionOn(r.user, day)
           idled == AfterIdle(sess, r.now)
<1>1. r.user \in Users /\ r.now \in Instant /\ r.limit \in Nat
  BY RequestType
<1>2. day \in Nat
  BY <1>1, DayType
<1>3. /\ UsageOn(r.user, day) \in UsageRecord
      /\ sess \in SessionRecord
  BY <1>1, <1>2, DayRecords
<1>4. Total(r) \in Int
  BY <1>1, <1>3, AccrualType DEF Total, UsageRecord
<1>5. idled \in SessionRecord /\ Seen(idled, r.now) \in SessionRecord
  BY <1>1, <1>3, StoredFacts DEF AfterIdle, Seen, SessionRecord
<1>6. Observe(r.user, day, r.now, Blocked(r)) \in TruthRecord
  <2>1. truth[r.user] \in TruthRecord
    BY <1>1 DEF TypeOK
  <2>2. Stored(r.now) \in Instant
    BY <1>1, StoredFacts
  <2>3. CASE Blocked(r)
    BY <2>1, <2>3 DEF Observe, TruthRecord
  <2>4. CASE ~Blocked(r)
    <3> DEFINE sum == IF ~(truth[r.user].day = day) THEN 0
                      ELSE IF ExceedsIdle(truth[r.user].last, r.now) THEN truth[r.user].online
                      ELSE truth[r.user].online + (r.now.s - truth[r.user].last.s)
    <3>1. sum \in Int
      BY <1>1, <2>1 DEF TruthRecord, Instant
    <3>2. Observe(r.user, day, r.now, Blocked(r)) =
            [day |-> day, last |-> Stored(r.now), online |-> sum,
             capped |-> (truth[r.user].day = day) /\ truth[r.user].capped]
      BY <2>4 DEF Observe
    <3> HIDE DEF sum, day
    <3> QED BY <1>2, <2>1, <2>2, <3>1, <3>2 DEF TruthRecord
  <2> QED BY <2>3, <2>4
<1>7. usage' \in [Users -> UsageRecord]
  BY <1>1, <1>2, <1>4 DEF Account, TypeOK, UsageRecord
<1>8. session' \in [Users -> SessionRecord]
  BY <1>1, <1>5 DEF Account, TypeOK
<1>9. truth' \in [Users -> TruthRecord]
  BY <1>1, <1>6 DEF Account, TypeOK
<1> QED BY <1>7, <1>8, <1>9

\* Every step keeps the types.
LEMMA TypeStep == TypeOK /\ [Next]_vars => TypeOK'
<1> SUFFICES ASSUME TypeOK, [Next]_vars PROVE TypeOK'
  OBVIOUS
<1>1. CASE Tick
  BY <1>1, TimesAssumption DEF Tick, TypeOK, Instant
<1>2. ASSUME NEW u \in Users, NEW b \in Budgets, SetBudget(u, b) PROVE TypeOK'
  BY <1>2 DEF SetBudget, TypeOK
<1>3. ASSUME NEW g \in Goroutines, NEW u \in Users, Begin(g, u) PROVE TypeOK'
  BY <1>3, BudgetsAssumption DEF Begin, TypeOK, Request
<1>4. ASSUME NEW g \in Goroutines, Apply(g) PROVE TypeOK'
  <2>1. /\ usage' \in [Users -> UsageRecord]
        /\ session' \in [Users -> SessionRecord]
        /\ truth' \in [Users -> TruthRecord]
    BY <1>4, AccountType DEF Apply
  <2> QED BY <1>4, <2>1 DEF Apply, TypeOK
<1>5. ASSUME NEW g \in Goroutines, ApplyFails(g) PROVE TypeOK'
  <2>1. /\ usage' \in [Users -> UsageRecord]
        /\ session' \in [Users -> SessionRecord]
        /\ truth' \in [Users -> TruthRecord]
    BY <1>5, AccountType DEF ApplyFails, TypeOK
  <2> QED BY <1>5, <2>1 DEF ApplyFails, TypeOK
<1>6. CASE Restart
  BY <1>6 DEF Restart, TypeOK
<1>7. CASE UNCHANGED vars
  BY <1>7 DEF vars, TypeOK
<1> QED BY <1>1, <1>2, <1>3, <1>4, <1>5, <1>6, <1>7 DEF Next

\* The state of the accounting always has its types.
THEOREM TypeCorrect == Spec => []TypeOK
<1>1. Init => TypeOK
  BY ZeroType DEF Init, TypeOK, UsageRecord, SessionRecord, TruthRecord, NoDay, Zero, Instant
<1> QED BY <1>1, TypeStep, PTL DEF Spec

-----------------------------------------------------------------------------
\* The session a request works on: of its day, and wholly within it if active.
LEMMA SessionOnWithinDay ==
    ASSUME TypeOK, DayInv, NEW u \in Users, NEW day \in Nat, SessionOn(u, day).active
    PROVE  /\ session[u].active
           /\ session[u].day = day
           /\ SessionOn(u, day) = session[u]
           /\ DayOf(SessionOn(u, day).start) = day
           /\ DayOf(SessionOn(u, day).lastSeen) = day
<1>1. session[u] \in SessionRecord
  BY DEF TypeOK
<1>2. session[u].day \in {NoDay, day}
  BY DEF SessionOn
<1>3. SessionOn(u, day) = [session[u] EXCEPT !.day = day]
  BY <1>2 DEF SessionOn
<1>4. session[u].active
  BY <1>1, <1>3 DEF SessionRecord
<1>5. DayOf(session[u].start) = session[u].day /\ DayOf(session[u].lastSeen) = session[u].day
  BY <1>4 DEF DayInv, WithinDay
<1>6. DayOf(session[u].start) \in Nat
  BY <1>1, DayType DEF SessionRecord
<1>7. session[u].day = day
  BY <1>2, <1>5, <1>6 DEF NoDay
<1>8. SessionOn(u, day) = session[u]
  BY <1>1, <1>3, <1>7 DEF SessionRecord
<1> QED BY <1>4, <1>5, <1>7, <1>8

\* The closure of applyForDay keeps both records on one day.
LEMMA AccountWithinDay ==
    ASSUME TypeOK, DayInv, NEW g \in Goroutines, req[g] # NoReq, Account(req[g])
    PROVE  WithinDay(usage, session)'
<1> DEFINE r == req[g]
           day == DayOf(r.now)
           sess == SessionOn(r.user, day)
           idled == AfterIdle(sess, r.now)
<1>1. r.user \in Users /\ r.now \in Instant
  BY RequestType
<1>2. day \in Nat
  BY <1>1, DayType
<1>3. sess \in SessionRecord /\ sess.day = day
  BY <1>1, <1>2, DayRecords
<1>4. /\ usage'[r.user].day = day
      /\ session'[r.user] = IF Blocked(r) THEN idled ELSE Seen(idled, r.now)
      /\ \A u \in Users \ {r.user} : usage'[u] = usage[u] /\ session'[u] = session[u]
  BY <1>1 DEF Account, TypeOK
<1>5. /\ idled.day = day
      /\ idled.active => sess.active
      /\ idled.start = sess.start /\ idled.lastSeen = sess.lastSeen
  BY <1>3 DEF AfterIdle, SessionRecord
<1>6. idled.active => DayOf(idled.start) = day /\ DayOf(idled.lastSeen) = day
  BY <1>1, <1>2, <1>5, SessionOnWithinDay
<1>7. idled \in SessionRecord
  BY <1>3 DEF AfterIdle, SessionRecord
<1>8. /\ Seen(idled, r.now).day = day
      /\ Seen(idled, r.now).lastSeen = Stored(r.now)
      /\ Seen(idled, r.now).start = IF idled.active THEN idled.start ELSE Stored(r.now)
  BY <1>5, <1>7 DEF Seen, SessionRecord
<1>9. DayOf(Stored(r.now)) = day
  BY <1>1, StoredFacts
<1>10. /\ session'[r.user].day = usage'[r.user].day
       /\ session'[r.user].active => /\ DayOf(session'[r.user].start) = session'[r.user].day
                                     /\ DayOf(session'[r.user].lastSeen) = session'[r.user].day
  <2> HIDE DEF r, day, sess, idled
  <2>1. CASE Blocked(r)
    BY <1>4, <1>5, <1>6, <2>1
  <2>2. CASE ~Blocked(r)
    BY <1>4, <1>6, <1>8, <1>9, <2>2
  <2> QED BY <2>1, <2>2
<1>11. ASSUME NEW u \in Users, u # r.user
       PROVE  /\ session'[u].day = usage'[u].day
              /\ session'[u].active => /\ DayOf(session'[u].start) = session'[u].day
                                       /\ DayOf(session'[u].lastSeen) = session'[u].day
  BY <1>4, <1>11 DEF DayInv, WithinDay
<1> QED
  <2> SUFFICES ASSUME NEW u \in Users
               PROVE  /\ session'[u].day = usage'[u].day
                      /\ session'[u].active => /\ DayOf(session'[u].start) = session'[u].day
                                               /\ DayOf(session'[u].lastSeen) = session'[u].day
    BY DEF WithinDay, DayOf
  <2> QED BY <1>10, <1>11

\* Every step keeps the records of one user on one day, in memory and on disk.
LEMMA DayStep == TypeOK /\ DayInv /\ [Next]_vars => DayInv'
<1> SUFFICES ASSUME TypeOK, DayInv, [Next]_vars PROVE DayInv'
  OBVIOUS
<1>1. CASE Tick
  BY <1>1 DEF Tick, DayInv, WithinDay, DayOf
<1>2. ASSUME NEW u \in Users, NEW b \in Budgets, SetBudget(u, b) PROVE DayInv'
  BY <1>2 DEF SetBudget, DayInv, WithinDay, DayOf
<1>3. ASSUME NEW g \in Goroutines, NEW u \in Users, Begin(g, u) PROVE DayInv'
  BY <1>3 DEF Begin, DayInv, WithinDay, DayOf
<1>4. ASSUME NEW g \in Goroutines, Apply(g) PROVE DayInv'
  <2>1. WithinDay(usage, session)'
    BY <1>4, AccountWithinDay DEF Apply
  <2>2. disk'.usage = usage' /\ disk'.session = session'
    BY <1>4 DEF Apply
  <2> QED BY <2>1, <2>2 DEF DayInv, WithinDay, DayOf
<1>5. ASSUME NEW g \in Goroutines, ApplyFails(g) PROVE DayInv'
  <2>1. WithinDay(usage, session)'
    <3>1. CASE Backend = "sqlite"
      BY <1>5, <3>1 DEF ApplyFails, DayInv, WithinDay, DayOf
    <3>2. CASE Backend # "sqlite"
      BY <1>5, <3>2, AccountWithinDay DEF ApplyFails
    <3> QED BY <3>1, <3>2
  <2> QED BY <1>5, <2>1 DEF ApplyFails, DayInv, WithinDay, DayOf
<1>6. CASE Restart
  BY <1>6 DEF Restart, DayInv, WithinDay, DayOf
<1>7. CASE UNCHANGED vars
  BY <1>7 DEF vars, DayInv, WithinDay, DayOf
<1> QED BY <1>1, <1>2, <1>3, <1>4, <1>5, <1>6, <1>7 DEF Next

\* The two day records agree and an active session lies within its day, for any
\* number of concurrent requests, on either store, across failing saves.
THEOREM SessionWithinDayHolds == Spec => []SessionWithinDay
<1>1. Init => DayInv
  BY DEF Init, DayInv, WithinDay
<1>2. DayInv => SessionWithinDay
  BY DEF DayInv, SessionWithinDay
<1> QED BY <1>1, <1>2, DayStep, TypeCorrect, PTL DEF Spec
\* A request that is not of the recorded day is charged nothing and admitted.
LEMMA FreshDayFree ==
    ASSUME TypeOK, DayInv, NEW g \in Goroutines, req[g] # NoReq,
           DayOf(req[g].now) # usage[req[g].user].day
    PROVE  /\ Total(req[g]) = 0
           /\ ~Blocked(req[g])
<1> DEFINE u == req[g].user
           day == DayOf(req[g].now)
<1>1. u \in Users /\ req[g].now \in Instant /\ req[g].limit \in Nat
  BY RequestType
<1>2. day \in Nat
  BY <1>1, DayType
<1>3. session[u].day = usage[u].day
  BY <1>1 DEF DayInv, WithinDay
<1>4. ~SessionOn(u, day).active
  BY <1>1, <1>2, <1>3, SessionOnWithinDay
<1>5. Total(req[g]) = 0
  BY <1>4 DEF Total, UsageOn, Accrual
<1>6. ~Blocked(req[g])
  BY <1>1, <1>5 DEF Blocked, OverBudget
<1> QED BY <1>5, <1>6

\* The first request of a day is admitted, for any number of concurrent
\* requests and on either store.
THEOREM FreshDayAdmitsHolds == Spec => FreshDayAdmits
<1>1. TypeOK /\ DayInv /\ [Next]_vars => [FreshDayStep]_vars
  <2> SUFFICES ASSUME TypeOK, DayInv, Next PROVE FreshDayStep
    OBVIOUS
  <2> SUFFICES ASSUME NEW g \in Goroutines, decision'[g] = "blocked",
                      req[g] # NoReq, req'[g] = NoReq
               PROVE  DayOf(req[g].now) = usage[req[g].user].day
    BY DEF FreshDayStep
  <2>1. CASE Apply(g)
    <3>1. Blocked(req[g])
      BY <2>1 DEF Apply, TypeOK
    <3> QED BY <3>1, FreshDayFree
  <2>2. ~ApplyFails(g) /\ ~Restart
    BY DEF ApplyFails, Restart, TypeOK
  <2>3. ASSUME NEW h \in Goroutines, h # g PROVE ~Apply(h) /\ ~ApplyFails(h)
    BY <2>3 DEF Apply, ApplyFails, TypeOK
  <2>4. ASSUME NEW h \in Goroutines, NEW u \in Users PROVE ~Begin(h, u)
    BY DEF Begin, TypeOK
  <2>5. ~Tick /\ \A u \in Users, b \in Budgets : ~SetBudget(u, b)
    BY DEF Tick, SetBudget
  <2> QED BY <2>1, <2>2, <2>3, <2>4, <2>5 DEF Next
<1>2. Init => DayInv
  BY DEF Init, DayInv, WithinDay
<1> QED BY <1>1, <1>2, DayStep, TypeCorrect, PTL DEF Spec, FreshDayAdmits

-----------------------------------------------------------------------------
(***************************************************************************)
(* One request at a time, on the SQLite store.                             *)
(***************************************************************************)
Serial == Backend = "sqlite" /\ \A g, h \in Goroutines : g = h

\* Time only grows the distance to an instant.
LEMMA IdleMonotone ==
    ASSUME NEW a \in Instant, NEW b \in Instant, NEW c \in Instant,
           ExceedsIdle(a, b), ~Before(c, b)
    PROVE  ExceedsIdle(a, c)
BY TimesAssumption DEF ExceedsIdle, Before, Instant

\* The request closes, continues or starts the session; in each case the ledger
\* of its user stays balanced.
LEMMA AccountLedger ==
    ASSUME Serial, TypeOK, DayInv, SerialInv,
           NEW g \in Goroutines, Apply(g),
           NEW u \in Users, u = req[g].user
    PROVE  Ledger(u)'
<1> DEFINE r == req[g]
           day == DayOf(r.now)
           sess == SessionOn(u, day)
           idled == AfterIdle(sess, r.now)
<1>1. req[g] # NoReq /\ Account(req[g])
  BY DEF Apply
<1>2. u = r.user /\ r.now \in Instant /\ r.limit \in Nat
  BY <1>1, RequestType
<1>3. day \in Nat
  BY <1>2, DayType
<1>4. /\ usage[u] \in UsageRecord /\ session[u] \in SessionRecord /\ truth[u] \in TruthRecord
      /\ Ledger(u) /\ clock \in Instant
  BY <1>2 DEF TypeOK, SerialInv
<1>5. /\ usage'[u] = [day |-> day, seconds |-> Total(r)]
      /\ session'[u] = IF Blocked(r) THEN idled ELSE Seen(idled, r.now)
      /\ truth'[u] = Observe(u, day, r.now, Blocked(r))
  BY <1>1, <1>2 DEF Account, TypeOK
<1>6. \A h \in Goroutines : req'[h] = NoReq
  BY DEF Apply, TypeOK, Serial
<1>7. Stored(r.now).s = r.now.s /\ Stored(r.now).f = 0 /\ Stored(r.now) \in Instant
  BY <1>2, StoredFacts DEF Serial
<1>8. /\ truth[u].last.s <= r.now.s
      /\ ~Before(clock, r.now)
      /\ clock' = clock
  BY <1>1, <1>2 DEF SerialInv, InOrder, Apply
<1>9. CASE usage[u].day # day
  <2>1. Total(r) = 0 /\ ~Blocked(r)
    BY <1>1, <1>9, FreshDayFree
  <2>2. ~sess.active
    BY <1>2, <1>3, <1>9, SessionOnWithinDay DEF DayInv, WithinDay
  <2>3. sess \in SessionRecord
    BY <1>2, <1>3, DayRecords
  <2>4. /\ session'[u].active
        /\ session'[u].start = Stored(r.now) /\ session'[u].lastSeen = Stored(r.now)
    BY <1>5, <2>1, <2>2, <2>3 DEF AfterIdle, Seen, SessionRecord
  <2>5. truth'[u] = [day |-> day, last |-> Stored(r.now), online |-> 0, capped |-> FALSE]
    BY <1>4, <1>5, <1>9, <2>1 DEF Observe, Ledger, TruthRecord
  <2>6. /\ usage'[u].day = day /\ usage'[u].seconds = 0
        /\ truth'[u].day = day /\ truth'[u].last = Stored(r.now)
        /\ truth'[u].online = 0 /\ truth'[u].capped = FALSE
    BY <1>5, <2>1, <2>5
  <2> HIDE DEF day, sess, idled
  <2> QED BY <1>3, <1>7, <2>4, <2>6 DEF Ledger, NoDay, Instant
<1>10. CASE usage[u].day = day
  <2>1. /\ session[u].day = day /\ sess = session[u]
        /\ truth[u].day = day /\ day # NoDay
        /\ UsageOn(u, day) = usage[u]
    BY <1>2, <1>3, <1>4, <1>10 DEF DayInv, WithinDay, SessionOn, Ledger, SessionRecord, UsageOn, NoDay
  <2>2. /\ Total(r) = usage[u].seconds + Accrual(session[u], r.now)
        /\ idled = AfterIdle(session[u], r.now)
        /\ usage'[u].day = day /\ usage'[u].seconds = Total(r)
    BY <1>5, <2>1 DEF Total
  <2>3. /\ session[u].start \in Instant /\ session[u].lastSeen \in Instant
        /\ session[u].active \in BOOLEAN
        /\ truth[u].last \in Instant /\ truth[u].online \in Int /\ truth[u].capped \in BOOLEAN
        /\ usage[u].seconds \in Int
    BY <1>4 DEF SessionRecord, TruthRecord, UsageRecord
  <2>4. Blocked(r) => /\ session'[u] = idled
                      /\ truth'[u].day = day /\ truth'[u].last = truth[u].last
                      /\ truth'[u].online = truth[u].online /\ truth'[u].capped = TRUE
    BY <1>4, <1>5, <2>1 DEF Observe, TruthRecord
  <2>5. ~Blocked(r) =>
          /\ session'[u].active = TRUE
          /\ session'[u].start = IF idled.active THEN session[u].start ELSE Stored(r.now)
          /\ session'[u].lastSeen = Stored(r.now)
          /\ truth'[u].day = day /\ truth'[u].last = Stored(r.now)
          /\ truth'[u].capped = truth[u].capped
          /\ truth'[u].online = IF ExceedsIdle(truth[u].last, r.now) THEN truth[u].online
                                ELSE truth[u].online + (r.now.s - truth[u].last.s)
    BY <1>4, <1>5, <2>1, <2>2, <2>3 DEF Observe, TruthRecord, Seen, AfterIdle, SessionRecord
  <2>7. CASE session[u].active /\ ~ExceedsIdle(session[u].lastSeen, r.now)
    <3>1. Accrual(session[u], r.now) = r.now.s - truth[u].last.s
      <4>1. session[u].lastSeen = truth[u].last /\ truth[u].last.f = 0
        BY <1>4, <2>7 DEF Ledger
      <4>2. ~Before(r.now, truth[u].last)
        BY <1>2, <1>8, <2>3, <4>1 DEF Before, Instant
      <4> QED BY <1>2, <2>3, <2>7, <4>1, <4>2, WholeSecondsFacts DEF Accrual
    <3>2. /\ session[u].lastSeen = truth[u].last /\ session[u].start.f = 0
          /\ session[u].lastSeen.s - session[u].start.s <= truth[u].online
          /\ 0 <= session[u].lastSeen.s - session[u].start.s
          /\ 2 * truth[u].online - (session[u].lastSeen.s - session[u].start.s) <= usage[u].seconds
          /\ ~truth[u].capped => usage[u].seconds
                <= 2 * truth[u].online - (session[u].lastSeen.s - session[u].start.s)
          /\ truth[u].last.f = 0
      BY <1>4, <2>7 DEF Ledger
    <3>3. idled.active /\ idled = session[u]
      BY <1>4, <2>2, <2>7 DEF AfterIdle, SessionRecord
    <3>4. CASE Blocked(r)
      <4>1. /\ session'[u] = session[u]
            /\ truth'[u].last = truth[u].last
            /\ truth'[u].online = truth[u].online /\ truth'[u].capped = TRUE
            /\ truth'[u].day = usage'[u].day /\ truth'[u].day # NoDay
            /\ usage'[u].seconds = usage[u].seconds + (r.now.s - truth[u].last.s)
        BY <2>1, <2>2, <2>4, <3>1, <3>3, <3>4
      <4>2. r.now.s \in Nat /\ truth[u].last.s \in Nat /\ session[u].start.s \in Nat
        BY <1>2, <2>3 DEF Instant
      <4> QED BY <1>8, <2>3, <2>7, <3>2, <4>1, <4>2 DEF Ledger
    <3>5. CASE ~Blocked(r)
      <4>1. /\ session'[u].active
            /\ session'[u].start = session[u].start /\ session'[u].lastSeen = Stored(r.now)
            /\ truth'[u].last = Stored(r.now)
            /\ truth'[u].online = truth[u].online + (r.now.s - truth[u].last.s)
            /\ truth'[u].capped = truth[u].capped
            /\ truth'[u].day = usage'[u].day /\ truth'[u].day # NoDay
            /\ usage'[u].seconds = usage[u].seconds + (r.now.s - truth[u].last.s)
        BY <2>1, <2>2, <2>5, <2>7, <3>1, <3>2, <3>3, <3>5
      <4>2. r.now.s \in Nat /\ truth[u].last.s \in Nat /\ session[u].start.s \in Nat
        BY <1>2, <2>3 DEF Instant
      <4> QED BY <1>7, <1>8, <2>3, <3>2, <4>1, <4>2 DEF Ledger
    <3> QED BY <3>4, <3>5
  <2>8. CASE session[u].active /\ ExceedsIdle(session[u].lastSeen, r.now)
    <3>1. Accrual(session[u], r.now) = session[u].lastSeen.s - session[u].start.s
      <4>1. session[u].lastSeen.f = 0 /\ session[u].start.f = 0
            /\ session[u].start.s <= session[u].lastSeen.s
        BY <1>4, <2>3, <2>8 DEF Ledger, Instant
      <4>2. ~Before(session[u].lastSeen, session[u].start)
        BY <2>3, <4>1 DEF Before, Instant
      <4> QED BY <2>3, <2>8, <4>1, <4>2, WholeSecondsFacts DEF Accrual
    <3>2. ExceedsIdle(truth[u].last, clock)
      BY <1>2, <1>4, <1>8, <2>3, <2>8, IdleMonotone DEF Ledger
    <3>3. /\ session[u].lastSeen = truth[u].last
          /\ session[u].lastSeen.s - session[u].start.s <= truth[u].online
          /\ 0 <= truth[u].online
          /\ 2 * truth[u].online - (session[u].lastSeen.s - session[u].start.s) <= usage[u].seconds
          /\ ~truth[u].capped => usage[u].seconds
                <= 2 * truth[u].online - (session[u].lastSeen.s - session[u].start.s)
          /\ truth[u].last.f = 0
      BY <1>4, <2>3, <2>8 DEF Ledger, Instant
    <3>4. ~idled.active
      BY <1>4, <2>2, <2>8 DEF AfterIdle, SessionRecord
    <3>5. r.now.s \in Nat /\ session[u].lastSeen.s \in Nat /\ session[u].start.s \in Nat
      BY <1>2, <2>3 DEF Instant
    <3>6. CASE Blocked(r)
      <4>1. /\ ~session'[u].active
            /\ truth'[u].last = truth[u].last
            /\ truth'[u].online = truth[u].online /\ truth'[u].capped = TRUE
            /\ truth'[u].day = usage'[u].day /\ truth'[u].day # NoDay
            /\ usage'[u].seconds =
                  usage[u].seconds + (session[u].lastSeen.s - session[u].start.s)
        BY <2>1, <2>2, <2>4, <3>1, <3>4, <3>6
      <4>2. ExceedsIdle(truth[u].last, clock)'
        BY <1>8, <3>2, <4>1 DEF ExceedsIdle
      <4> QED BY <1>6, <2>3, <3>3, <3>5, <4>1, <4>2 DEF Ledger
    <3>7. CASE ~Blocked(r)
      <4>1. /\ session'[u].active
            /\ session'[u].start = Stored(r.now) /\ session'[u].lastSeen = Stored(r.now)
            /\ truth'[u].last = Stored(r.now)
            /\ truth'[u].online = truth[u].online
            /\ truth'[u].capped = truth[u].capped
            /\ truth'[u].day = usage'[u].day /\ truth'[u].day # NoDay
            /\ usage'[u].seconds =
                  usage[u].seconds + (session[u].lastSeen.s - session[u].start.s)
        BY <2>1, <2>2, <2>5, <2>8, <3>1, <3>3, <3>4, <3>7
      <4> QED BY <1>7, <2>3, <3>3, <3>5, <4>1 DEF Ledger
    <3> QED BY <3>6, <3>7
  <2>9. CASE ~session[u].active
    <3>1. Accrual(session[u], r.now) = 0
      BY <2>9 DEF Accrual
    <3>2. ExceedsIdle(truth[u].last, r.now) /\ ExceedsIdle(truth[u].last, clock)
      BY <1>1, <1>4, <2>1, <2>9 DEF Ledger
    <3>3. /\ truth[u].capped /\ 0 <= truth[u].online
          /\ 2 * truth[u].online <= usage[u].seconds
          /\ truth[u].last.f = 0
      BY <1>4, <2>1, <2>9 DEF Ledger
    <3>4. ~idled.active
      BY <1>4, <2>2, <2>9 DEF AfterIdle, SessionRecord
    <3>5. CASE Blocked(r)
      <4>1. /\ ~session'[u].active
            /\ truth'[u].last = truth[u].last
            /\ truth'[u].online = truth[u].online /\ truth'[u].capped = TRUE
            /\ truth'[u].day = usage'[u].day /\ truth'[u].day # NoDay
            /\ usage'[u].seconds = usage[u].seconds
        BY <2>1, <2>2, <2>3, <2>4, <3>1, <3>4, <3>5
      <4>2. ExceedsIdle(truth[u].last, clock)'
        BY <1>8, <3>2, <4>1 DEF ExceedsIdle
      <4> QED BY <1>6, <2>3, <3>3, <4>1, <4>2 DEF Ledger
    <3>6. CASE ~Blocked(r)
      <4>1. /\ session'[u].active
            /\ session'[u].start = Stored(r.now) /\ session'[u].lastSeen = Stored(r.now)
            /\ truth'[u].last = Stored(r.now)
            /\ truth'[u].online = truth[u].online
            /\ truth'[u].capped = truth[u].capped
            /\ truth'[u].day = usage'[u].day /\ truth'[u].day # NoDay
            /\ usage'[u].seconds = usage[u].seconds
        BY <2>1, <2>2, <2>3, <2>5, <3>1, <3>2, <3>4, <3>6
      <4>2. Stored(r.now).s \in Nat
        BY <1>7 DEF Instant
      <4> QED BY <1>7, <2>3, <3>3, <4>1, <4>2 DEF Ledger
    <3> QED BY <3>5, <3>6
  <2> QED BY <2>3, <2>7, <2>8, <2>9
<1> QED BY <1>9, <1>10
\* A user not concerned by a step that neither adds a request nor moves the
\* clock keeps the ledger.
LEMMA LedgerFrame ==
    ASSUME NEW u \in Users, Ledger(u),
           usage'[u] = usage[u], session'[u] = session[u], truth'[u] = truth[u],
           clock' = clock,
           \A g \in Goroutines : req'[g] \in {req[g], NoReq}
    PROVE  Ledger(u)'
BY DEF Ledger, ExceedsIdle

\* Every step of one request at a time keeps every ledger balanced.
LEMMA SerialStep ==
    Serial /\ TypeOK /\ DayInv /\ SerialInv /\ [Next]_vars => SerialInv'
<1> SUFFICES ASSUME Serial, TypeOK, DayInv, SerialInv, [Next]_vars PROVE SerialInv'
  OBVIOUS
<1> USE DEF SerialInv
<1>1. CASE Tick
  <2>1. /\ clock \in Instant /\ clock' \in Instant /\ ~Before(clock', clock)
        /\ clock.s <= clock'.s
        /\ UNCHANGED <<budget, usage, session, disk, req, decision, truth>>
    BY <1>1, TimesAssumption DEF Tick, TypeOK, Instant, Before
  <2>2. ASSUME NEW u \in Users PROVE Ledger(u)'
    <3>1. truth[u].last \in Instant /\ Ledger(u)
      BY DEF TypeOK, TruthRecord
    <3>2. ExceedsIdle(truth[u].last, clock) => ExceedsIdle(truth[u].last, clock)'
      BY <2>1, <3>1, IdleMonotone DEF ExceedsIdle
    <3> QED BY <2>1, <3>1, <3>2 DEF Ledger, ExceedsIdle
  <2>3. InOrder'
    <3>1. ASSUME NEW u \in Users PROVE (truth[u].last.s <= clock.s)'
      BY <2>1 DEF InOrder, TypeOK, TruthRecord, Instant
    <3>2. ASSUME NEW g \in Goroutines, req[g] # NoReq PROVE ~Before(clock', req[g].now)
      <4>1. req[g].now \in Instant /\ ~Before(clock, req[g].now)
        BY <3>2, RequestType DEF InOrder
      <4> QED BY <2>1, <4>1 DEF Before, Instant
    <3> QED BY <2>1, <3>1, <3>2 DEF InOrder, Before
  <2> QED BY <2>1, <2>2, <2>3
<1>2. ASSUME NEW b \in Users, NEW c \in Budgets, SetBudget(b, c) PROVE SerialInv'
  BY <1>2 DEF SetBudget, Ledger, InOrder, ExceedsIdle, Before
<1>3. ASSUME NEW g \in Goroutines, NEW v \in Users, Begin(g, v) PROVE SerialInv'
  <2>1. /\ req'[g] = [user |-> v, now |-> clock, limit |-> budget[v]]
        /\ \A h \in Goroutines : h = g
        /\ UNCHANGED <<clock, budget, usage, session, disk, decision, truth>>
    BY <1>3 DEF Begin, TypeOK, Serial
  <2>2. ASSUME NEW u \in Users PROVE Ledger(u)'
    BY <2>1 DEF Ledger, ExceedsIdle
  <2>3. InOrder'
    <3>1. clock \in Instant
      BY DEF TypeOK
    <3>2. ~Before(clock, clock)
      BY <3>1 DEF Before, Instant
    <3> QED BY <2>1, <3>2 DEF InOrder, Before
  <2> QED BY <2>1, <2>2, <2>3
<1>4. ASSUME NEW g \in Goroutines, Apply(g) PROVE SerialInv'
  <2>1. /\ req[g] # NoReq /\ req[g].user \in Users /\ req[g].now \in Instant
        /\ \A h \in Goroutines : req'[h] = NoReq
        /\ clock' = clock /\ clock \in Instant
    BY <1>4, RequestType DEF Apply, TypeOK, Serial
  <2>2. \A u \in Users \ {req[g].user} :
           usage'[u] = usage[u] /\ session'[u] = session[u] /\ truth'[u] = truth[u]
    BY <1>4, <2>1 DEF Apply, Account, TypeOK
  <2>3. ASSUME NEW u \in Users PROVE Ledger(u)'
    <3>1. CASE u = req[g].user
      BY <1>4, <3>1, AccountLedger
    <3>2. CASE u # req[g].user
      BY <2>1, <2>2, <3>2, LedgerFrame
    <3> QED BY <3>1, <3>2
  <2>4. ASSUME NEW u \in Users PROVE truth'[u].last.s <= clock'.s
    <3>1. CASE u = req[g].user
      <4>1. truth'[u] = Observe(u, DayOf(req[g].now), req[g].now, Blocked(req[g]))
        BY <1>4, <2>1, <3>1 DEF Apply, Account, TypeOK
      <4>2. truth'[u].last \in {truth[u].last, Stored(req[g].now)}
        BY <4>1 DEF Observe, TypeOK, TruthRecord
      <4>3. req[g].now.s <= clock.s
        BY <2>1 DEF InOrder, Before, Instant
      <4> QED BY <2>1, <4>2, <4>3, StoredFacts DEF InOrder
    <3>2. CASE u # req[g].user
      BY <2>1, <2>2, <3>2 DEF InOrder
    <3> QED BY <3>1, <3>2
  <2>5. disk' = [usage |-> usage', session |-> session', truth |-> truth']
    BY <1>4 DEF Apply
  <2> QED BY <2>1, <2>3, <2>4, <2>5 DEF InOrder
<1>5. ASSUME NEW g \in Goroutines, ApplyFails(g) PROVE SerialInv'
  <2>1. /\ UNCHANGED <<clock, usage, session, disk, truth>>
        /\ \A h \in Goroutines : req'[h] = NoReq
    BY <1>5 DEF ApplyFails, Serial, TypeOK
  <2>2. ASSUME NEW u \in Users PROVE Ledger(u)'
    BY <2>1, LedgerFrame
  <2> QED BY <2>1, <2>2 DEF InOrder
<1>6. CASE Restart
  <2>1. /\ UNCHANGED <<clock, usage, session, disk, truth>>
        /\ \A h \in Goroutines : req'[h] = NoReq
    BY <1>6 DEF Restart
  <2>2. ASSUME NEW u \in Users PROVE Ledger(u)'
    BY <2>1, LedgerFrame
  <2> QED BY <2>1, <2>2 DEF InOrder
<1>7. CASE UNCHANGED vars
  BY <1>7 DEF vars, Ledger, InOrder, ExceedsIdle, Before
<1> QED BY <1>1, <1>2, <1>3, <1>4, <1>5, <1>6, <1>7 DEF Next

\* The inductive invariant of one request at a time.
LEMMA SerialInvariance ==
    ASSUME Serial PROVE Spec => [](TypeOK /\ DayInv /\ SerialInv)
<1>1. Init => DayInv /\ SerialInv
  BY DEF Init, DayInv, WithinDay, SerialInv, Ledger, InOrder, Zero, NoDay
<1>2. TypeOK /\ DayInv /\ SerialInv /\ [Next]_vars => SerialInv'
  BY SerialStep
<1> QED BY <1>1, <1>2, DayStep, TypeCorrect, PTL DEF Spec

\* With one request at a time the time charged covers the time spent online.
THEOREM FullyChargedHolds == ASSUME Serial PROVE Spec => []FullyCharged
<1>1. TypeOK /\ SerialInv => FullyCharged
  <2> SUFFICES ASSUME TypeOK, SerialInv, NEW u \in Users PROVE truth[u].online <= usage[u].seconds
    BY DEF FullyCharged
  <2>1. /\ truth[u].online \in Int /\ usage[u].seconds \in Int /\ session[u].active \in BOOLEAN
        /\ session[u].start.s \in Nat /\ session[u].lastSeen.s \in Nat
    BY DEF TypeOK, TruthRecord, UsageRecord, SessionRecord, Instant
  <2> QED BY <2>1 DEF SerialInv, Ledger
<1> QED BY <1>1, SerialInvariance, PTL

\* With one request at a time no second is charged more than twice, until a
\* request of the day is refused.
THEOREM ChargedAtMostTwiceHolds == ASSUME Serial PROVE Spec => []ChargedAtMostTwice
<1>1. TypeOK /\ SerialInv => ChargedAtMostTwice
  <2> SUFFICES ASSUME TypeOK, SerialInv, NEW u \in Users, ~truth[u].capped
               PROVE  usage[u].seconds <= 2 * truth[u].online
    BY DEF ChargedAtMostTwice
  <2>1. /\ truth[u].online \in Int /\ usage[u].seconds \in Int /\ session[u].active \in BOOLEAN
        /\ session[u].start.s \in Nat /\ session[u].lastSeen.s \in Nat
    BY DEF TypeOK, TruthRecord, UsageRecord, SessionRecord, Instant
  <2> QED BY <2>1 DEF SerialInv, Ledger
<1> QED BY <1>1, SerialInvariance, PTL
\* With one request at a time a request that the store admits leaves its user
\* strictly below the budget, counted in time really spent online.
THEOREM BudgetEnforcedHolds == ASSUME Serial PROVE Spec => BudgetEnforced
<1>1. TypeOK /\ TypeOK' /\ SerialInv' /\ [Next]_vars => [BudgetStep]_vars
  <2> SUFFICES ASSUME TypeOK, TypeOK', SerialInv', Next,
                      NEW g \in Goroutines, req[g] # NoReq, req'[g] = NoReq,
                      decision'[g] = "admitted", req[g].limit > 0
               PROVE  truth'[req[g].user].online < req[g].limit
    BY DEF BudgetStep
  <2>1. Apply(g)
    <3>1. ~ApplyFails(g) /\ ~Restart
      BY DEF ApplyFails, Restart, TypeOK
    <3>2. ASSUME NEW h \in Goroutines, h # g PROVE ~Apply(h) /\ ~ApplyFails(h)
      BY <3>2 DEF Apply, ApplyFails, TypeOK
    <3>3. ASSUME NEW h \in Goroutines, NEW u \in Users PROVE ~Begin(h, u)
      BY DEF Begin, TypeOK
    <3>4. ~Tick /\ \A u \in Users, b \in Budgets : ~SetBudget(u, b)
      BY DEF Tick, SetBudget
    <3> QED BY <3>1, <3>2, <3>3, <3>4 DEF Next
  <2>2. PICK u \in Users : u = req[g].user
    BY RequestType
  <2>3. ~Blocked(req[g])
    BY <2>1 DEF Apply, TypeOK
  <2>4. usage'[u].seconds = Total(req[g])
    BY <2>1, <2>2 DEF Apply, Account, TypeOK
  <2>5. /\ truth'[u].online \in Int /\ usage'[u].seconds \in Int
        /\ session'[u].active \in BOOLEAN
        /\ session'[u].start.s \in Nat /\ session'[u].lastSeen.s \in Nat
    BY DEF TypeOK, TruthRecord, UsageRecord, SessionRecord, Instant
  <2>6. truth'[u].online <= usage'[u].seconds
    BY <2>5 DEF SerialInv, Ledger
  <2>7. req[g].limit \in Nat
    BY RequestType
  <2> QED BY <2>2, <2>3, <2>4, <2>5, <2>6, <2>7 DEF Blocked, OverBudget
<1> QED BY <1>1, SerialInvariance, PTL DEF Spec, BudgetEnforced

\* With one request at a time the usage of a day never shrinks.
THEOREM UsageGrowsHolds == ASSUME Serial PROVE Spec => UsageGrows
<1>1. TypeOK /\ DayInv /\ SerialInv /\ [Next]_vars => [GrowingStep]_vars
  <2> SUFFICES ASSUME TypeOK, DayInv, SerialInv, Next, Serial,
                      NEW u \in Users, usage'[u].day = usage[u].day
               PROVE  usage'[u].seconds >= usage[u].seconds
    BY DEF GrowingStep
  <2>1. usage[u].seconds \in Int
    BY DEF TypeOK, UsageRecord
  <2>2. CASE usage'[u] = usage[u]
    BY <2>1, <2>2
  <2>3. ASSUME NEW g \in Goroutines, Apply(g), u = req[g].user
        PROVE  usage'[u].seconds >= usage[u].seconds
    <3> DEFINE now == req[g].now
               sess == SessionOn(u, DayOf(now))
    <3>1. /\ now \in Instant /\ DayOf(now) \in Nat
          /\ truth[u].last.s <= now.s
      BY <2>3, RequestType, DayType DEF Apply, SerialInv, InOrder
    <3>2. usage'[u] = [day |-> DayOf(now), seconds |-> Total(req[g])]
      BY <2>3 DEF Apply, Account, TypeOK
    <3>3. Total(req[g]) = usage[u].seconds + Accrual(sess, now)
      BY <2>3, <3>2 DEF Total, UsageOn
    <3>4. CASE ~sess.active
      BY <2>1, <3>2, <3>3, <3>4 DEF Accrual
    <3>5. CASE sess.active
      <4>1. sess = session[u] /\ session[u].active
        BY <3>1, <3>5, SessionOnWithinDay
      <4>2. /\ session[u].lastSeen = truth[u].last /\ truth[u].last.f = 0
            /\ session[u].start.f = 0
            /\ 0 <= session[u].lastSeen.s - session[u].start.s
        BY <4>1 DEF SerialInv, Ledger
      <4>3. session[u].start \in Instant /\ session[u].lastSeen \in Instant
        BY DEF TypeOK, SessionRecord
      <4>4. /\ ~Before(session[u].lastSeen, session[u].start)
            /\ ~Before(now, session[u].lastSeen)
        BY <3>1, <4>2, <4>3 DEF Before, Instant
      <4>5. /\ 0 <= WholeSeconds(session[u].start, session[u].lastSeen)
            /\ 0 <= WholeSeconds(session[u].lastSeen, now)
            /\ WholeSeconds(session[u].start, session[u].lastSeen) \in Int
            /\ WholeSeconds(session[u].lastSeen, now) \in Int
        BY <3>1, <4>3, <4>4, WholeSecondsFacts
      <4>6. 0 <= Accrual(sess, now) /\ Accrual(sess, now) \in Int
        BY <4>1, <4>4, <4>5 DEF Accrual
      <4> HIDE DEF sess, now
      <4> QED BY <2>1, <3>2, <3>3, <4>6
    <3> QED BY <3>4, <3>5
  <2>4. ASSUME NEW g \in Goroutines, Apply(g), u # req[g].user PROVE usage'[u] = usage[u]
    BY <2>4 DEF Apply, Account, TypeOK
  <2>5. ASSUME ~(\E g \in Goroutines : Apply(g)) PROVE usage' = usage
    BY <2>5 DEF Next, Tick, SetBudget, Begin, ApplyFails, Restart, SerialInv, Serial
  <2> QED BY <2>2, <2>3, <2>4, <2>5
<1> QED BY <1>1, SerialInvariance, PTL DEF Spec, UsageGrows
=============================================================================
