# citadel-dnxproxy: a verification project

citadel-dnxproxy is a filtering DNS proxy for a household. It answers DNS
queries locally, blocks them, or forwards them to upstream name servers,
according to static rules (a configuration file), to the policies of users
(allowed hours, daily time budgets, domain rules) and to the device a query
comes from. This directory holds TLA+ modules of its stateful parts, TLC
configurations that check them on small instances, and TLAPS proofs for all
instances. `PROJECT.json` maps every definition to the source lines it models.

Running it: `tlc -config X.cfg M` with the module named in `PROJECT.json`, and
`tlapm XProofs.tla`.

## 1. The system

Paths are relative to `src/internal`.

| Component | State | Operations | Talks to |
|---|---|---|---|
| Accounting manager (`accounting/`) | none of its own; `Usage` and `Sessions` in the policy store | `ProcessRequest` → `applyForDay` | the store, through `UpdateMutate`; called by `dnsHandler` |
| Upstream resolver (`proxy/upstream.go`) | response cache, failure counter and date per server | `Exchange`, `CacheNegative`, `isUnhealthy`, `markFail` | name servers; called by `doDnsExchange` |
| Policy runtime refresh (`proxy/proxy.go`) | globals `policies`, `accountMgr`, `lastPolicyRefresh` | `refreshPolicyRuntime`, `forcePolicyRuntimeReload`, SIGHUP | the store; notified by the admin server and the discovery |
| SQLite store (`policy/sqlite_store.go`) | the database | `UpdateMutate`, `DataSnapshot`, `migrate` | SQLite |
| JSON store (`policy/store.go`) | `Data` in memory, a file | `UpdateMutate`, `LoadOrInitJSON` | the file system |
| Policy compiler and evaluator (`policy/compiler.go`, `evaluator.go`, `timewindow.go`) | immutable runtime | `Compile`, `MatchDevice`, `MatchUser`, `MatchDomainRule`, `InAllowWindow` | read by `dnsHandler` |
| Rules engine (`rules/`), wildcard matching (`utils/`) | immutable configuration | `Evaluate`, `HostMatch`, `WildcardPatternMatch` | read by `dnsHandler` |
| DNS decision chain (`proxy/proxy.go`) | none | `dnsHandler` | all of the above |
| Local resolver and block responses (`resolver/resolver.go`, `proxy/block.go`) | none | building DNS answers | `dnsHandler` |
| Device discovery (`device/discovery/`) | last records, device records in the store | `Start`, `Refresh`, `merge`, `collapse` | routers, store, device cache, runtime |
| Device cache (`device/devicecache.go`) | address ↔ name maps | `Refresh`, `NameToIP`, `IPToName`, `LoadStaticDevices` | discovery, resolver |
| Admin server (`adminserver/`) | sessions, password hash in the store | `login`, `logout`, `setPassword`, `auth`, the users/devices/rules handlers | the store; notifies the runtime |
| System (`system/`) | configuration, rules engine, resolver, device cache | `NewSystem`, `ReloadConfig`, `SetDeviceCache` | everything |
| Routers, logging, fastdns, validator command, dashboard | none that matters here | I/O | |

Every DNS query runs `dnsHandler` on a goroutine of its own, every admin request
runs on one, notifications are sent with `go`, the discovery has a goroutine per
manager and SIGHUP is served by the main loop. They meet at the store's mutex,
at `runtimeMu`, at the cache's mutex, and at globals and counters that no lock
protects.

What is hard here, and what makes each part correct:

- **Accounting.** A request reads the clock before it waits for the store's
  lock, so requests are applied out of order around midnight; a session is
  charged in pieces whose sum depends on gaps, truncation, failing saves and
  restarts. Correct: time online is charged, not twice; the budget is enforced;
  a new day starts afresh.
- **Upstream resolver.** One clock reading per exchange although servers take
  seconds to time out; counters updated without a lock; a reload in the middle.
  Correct: nothing expired and nothing of another configuration is served, no
  working server is passed over, every query ends.
- **Runtime refresh.** A notification may come before, during or after a refresh;
  SIGHUP replaces the globals without the lock. Correct: no notified change is
  lost; others are applied within the refresh period; no deadlock between
  `runtimeMu` and the store's mutex.
- **Stores.** Failing functions, statements, writes and renames, and a stop of
  the process at any point. Correct: `UpdateMutate` takes effect in full or not
  at all, durably, and callers do not undo each other.
- **Migration.** Several transactions, the version recorded last, the process
  stopped anywhere. Correct: a version is never ahead of its schema, nothing of
  the old database is lost, the store opens in the end.
- **Rules, windows, wildcards.** Two implementations of one language of time
  spans, a precedence among overlapping patterns, a validation separate from the
  evaluation. Correct: they agree with each other and with what they mean.
- **DNS decision and reload.** Five parties decide about a question one after the
  other while SIGHUP replaces rules and configuration. Correct: what one has
  closed no later one opens, the logged reason holds, a blocked question is never
  answered by the upstream, a reload that fails half-way leaves a consistent whole.
- **Discovery and device cache.** Managers that outlive their cancellation,
  sources that disagree, devices that change addresses and administrators who edit
  the same records. Correct: no wrong pair of MAC and address is written, no
  device loses its user, and store and cache settle on the truth.
- **Admin server.** Gate, token check and handler are separate steps, and password
  changes, logouts, expiry, failing saves and restarts come between them. Correct:
  the first-boot gate holds, an acknowledged password change sticks, only live
  logins are served.

`PROJECT.json` lists the hazards one by one, each at its line.

## 2. The modules

### Accounting (`Accounting`, `MCAccounting`, `AccountingProofs`)

`usage` and `session` are `Data.Usage` and `Data.Sessions`, `disk` what a restart
would read. `Begin` is `ProcessRequest` up to the store's lock (the clock and the
budget are read), `Apply` the whole closure of `applyForDay` with the save after
it, `ApplyFails` the same with a save that fails: SQLite changes nothing, the JSON
store has changed its memory, and `dnsHandler` ignores a decision that comes with
an error. `Restart`, `Tick` and `SetBudget` are the environment. The closure is
split into the operators `UsageOn`, `SessionOn`, `Accrual`, `AfterIdle`,
`OverBudget` and `Seen`, in the order of the code. Instants have a fraction of a
second because the stores differ in keeping it: SQLite writes RFC3339 without
fractions, which is why `Stored` is not the identity, and `WholeSeconds` truncates
as `int64(d.Seconds())` does. `truth` is a history variable: what the user really
did on the day.

`ProcessRequest` returns `*decision` in the same statement that calls
`UpdateMutate`, whose closure assigns it (accounting.go:71). The language leaves
the order of the two operands open; the gc compiler makes the call first, and so
does the model.

### Upstream resolver (`UpstreamResolver`, `MCUpstream`, `UpstreamProofs`)

Each goroutine `g` runs one `doDnsExchange`: `Start` reads the clock and the
global `upstream`, `Lookup` consults the cache, and `CheckFailures`, `CheckWindow`,
`CheckPassed` and `ResetFailures` are the unlocked reads and the write of
`isUnhealthy`, one action each, which pass a server over or go on to `wait`.
`Answer` and `Timeout` end the exchange with a server. `markFail` is three steps:
`Timeout` reads the counter into `seen`, `MarkFail` writes it back one higher (so
increments are lost as in the code), `DateFail` writes the date. `NextRound` repeats
the servers until the rounds are used up, `GiveUp` is the failure path of
`doDnsExchange`, which caches SERVFAIL in whatever resolver is current by then.
`Reload` is SIGHUP; `Layouts` says how many servers each configuration has, and one
with none is refused (validate.go:25). Name servers are external: any of them
answers or times out at any time. An entry carries when and by whom it was
obtained, for the properties only, and `reply` is what the last step wrote.

### Policy runtime (`PolicyRuntime`, `MCRuntime`, `PolicyRuntimeProofs`)

Policy data is abstracted to the number of commits it contains, which is all that
freshness can tell apart. A handler takes the steps of `dnsHandler`: `Refresh`
(lock, test of the age), `Snapshot`, `SetPolicies`, `SetAccountMgr`, then the
reads of the globals one by one, with every early exit. A writer, an admin handler
or a merge of the discovery, takes `Lock`, `Commit` or `Abort`, and `ForceReload`
on its own goroutine. The branch of SIGHUP is four steps. `least` is the oldest version a
request has read.

### Policy stores (`PolicyStore`, `SQLiteStore`, `JSONStore`, `MCSQLite`, `MCJSON`, `SQLiteStoreProofs`, `PolicyDataProofs`)

`PolicyStore` is what callers of the `Store` interface may count on: a mutation
happens at once in all tables, or reports an error and changes nothing. Data is
abstracted to the set of mutations each table contains. `SQLiteStore` follows
`UpdateMutate`, `snapshotUnsafe` and `persist` statement by statement (`Load`,
`Apply`, `Clear` and `Insert` for each table, `Commit`) with `StatementFails`,
`CommitFails`, `Restart` and `Reset` (`-factory-reset`) at any point; `Unreadable` is
the set of tables whose query may fail, which `snapshotUnsafe` does not report, and
`unread` in a call the tables whose query did fail. The store is shown to implement
`PolicyStore` seen through the tables that can be read (`Tables <- Readable`, `data`
their part of `db`). What happens to the others is the subject of
`OnlyUnreadTablesLose`.

`JSONStore` changes the data in memory table by table, writes a temporary file
(torn until `Written`) and renames it. It does not implement `PolicyStore`: a
function that fails half-way leaves its changes in memory. Its properties say how
far it falls short.

### Migration (`Migration`, `MCMigration`, `MigrationProofs`)

`db` is the file: which tables and columns there are, the version row and the
rows; `tx` the open transaction. `CreateTables`, `ReadVersion`, `MigrateToV2` (one
`ALTER TABLE` per step, each committed by itself), `MigrateToV3`, `MigrateToV4`
(four statements of one transaction) with `CommitV4`, `InsertAdmin` and
`WriteVersion` follow `migrate` in the order of the code; a statement that finds
something unexpected ends in `refused`. `Stop` is a stop of the process or a
failing statement, at any point; `UpdateMutate` uses the open store and shows what
loading and writing back does to rows with a NULL. The initial states are an
empty file and the databases that the versions 1 to 4 of the schema leave behind.

### Rules, time spans and wildcards (`Wildcard`, `TimeSpans`, `RulesEngine`)

Pure operators. `WildcardPatternMatch` is the table of utils.go as a recursive
function on pairs of lengths; `Matches` says what a pattern means. `TimeSpans` has
the rules engine's parser and evaluation (`RulesWeekday`, `RulesWeekdays`,
`ParseTimeSpan`, `EvaluateTimeSpanBlock`), those of the allow windows
(`PolicyWeekday`, `PolicyWeekdays`, `ParsePolicyTimeSpan`, `InTimeSpan`) and the
validation. The Go packages share no code for this, and the operators share nothing
but the clock. A definition is taken apart into weekday tokens (with the spelling
that the parsers treat differently: plain, padded with blanks, tues/thurs, none),
minutes of the day and an option; beside them are the empty text (`NoSpan`) and one
of blanks (`BlankSpan`), which validation and engine tell apart differently.
`RulesEngine` has `Evaluate` with `pickBestHost`, `pickBestDomain`, `EvaluateRules`
and `evaluateRule`, `HostMatch`, and the validation of a configuration with the
defaults that `validateConfig` fills in. Names are sequences of letters, since
the precedence counts letters and wildcards.

### The DNS decision (`DNSDecision`, `MCDecision`, `DecisionProofs`)

One question, and everything it finds in `in`. The steps of `dnsHandler` are
`EvaluateStep`, `FindUser`, `CheckWindow`, `ChargeBudget`, `ApplyDomainRule`, and
`AnswerBlocked` (with `buildBlockedResponse`) or `AnswerOpen` (with `Resolve`).
Between any two of them `ReloadConfig` may replace the rules engine and the
configuration, fail with the log closed (`LogStaysClosed`) or panic
(`LogCannotOpen`). `Compile` appears as what the request sees of it: any of the
devices that share the client's address, and an invented user for an owner who does
not exist. The budget's verdict is any that `Accounting` can give, and the age of
the policy data is the subject of `PolicyRuntime`.

### Devices (`PolicyEdits`, `DeviceDiscovery`, `MCDevices`, `PolicyDataProofs`)

`PolicyEdits` holds, as operators on the policy data, what each admin handler for
users, devices and rules does, with its refusals. In `DeviceDiscovery` a manager of
each generation reads the ARP table (`DiscoverARP`), then the router, which may
fail, and the static list (`DiscoverRest`), and merges (`Collapses` keeps one record
of each MAC, of the best source; then `IdsFor`, `Merged`, `MergeInto`: of the records
that go under one ID the last stays, and each keeps the user) in any order of the map into the store, which may fail to save, and into
the cache (`Upsert`); `Stop` ends a cancelled manager where it waits. `Move` is the
network, `StartDiscoveryManager` SIGHUP, `AdminStep` an administrator, who may POST a
device under an ID of his own, that of another record or a MAC among them. `strays`
and `moved` record what administrators did, for the properties; they start with
what the policy data of the start already shows of it.

### Admin server (`AdminServer`, `MCAdmin`, `AdminServerProofs`)

A request passes the two halves of `auth`, `Gate` (the first-boot test on a snapshot
of the store) and `Check` (the bearer token, or the session with or without CSRF
token), and then `Read`, `EditPolicy` or `SetPassword`; a login is `Login` (the password is compared) and `IssueLogin`
(token and session are stored). The second case of
`SetPassword` is a save of the JSON store that fails: the new password stays in
memory; `SetPasswordFails` is an error that leaves the store as it was. `EditRefused`
is an edit that the handler or the store refuses. `MaybeLogInitialSecret` runs at the
start, `Restart` forgets tokens and sessions and may be a factory reset. Among the
stores of the start is `Upgraded`: the factory password with a first-boot flag that
reads FALSE (see the observations); `flagLost` remembers it until a factory reset.

## 3. What TLC checks

| Run | Shows | Bounds |
|---|---|---|
| `AccountingSerial` | On SQLite, one request at a time: all time online is charged, at most twice, and the budget is enforced | one user, days of 7 s, idle timeout 2 s, half-second clock up to 9 s, budgets 0 and 3 |
| `AccountingConcurrent` | On the JSON store, two requests in flight: the first request of a day is admitted | days of 3 s, clock up to 4 s |
| `AccountingOvercharge` | **violation**, see finding 1 | |
| `Upstream` | Two racing queries: no expired or foreign answer, no working server passed over, every query ends | two rounds, two failures open the breaker for 1 s, one name, TTL 1, clock up to 2; one configuration of two servers, or one of one server that is reloaded |
| `Runtime` | No notified change is lost; others are applied within `RefreshPeriod + CompileTime`; every commit reaches both globals for good, by notifications alone | two requests, one writer, one commit, one SIGHUP, a period of 0 and a clock up to 1 |
| `SQLiteStore` | The store implements `PolicyStore` in the tables that can be read; only a table that was not read is lost | two callers, three mutations, four tables, the queries of two of which may fail |
| `JSONStore` | The file stays whole, acknowledged mutations survive, only failed ones are half applied or in memory alone | two callers, three mutations, two tables |
| `AdminServer` | Nobody edits under the factory password, an acknowledged password change sticks, only live logins are served | two clients, two logins, two passwords, one edit, one restart, new and upgraded stores, clock up to 2, tokens that expire within the second and sessions after one |
| `Devices` | No wrong pair is written, no device loses its user, lists of devices are what they say, and store and cache converge | two devices, two addresses, one user, two managers, two moves, edits or reloads |
| `Decision` | Operators against their reference definitions, the two time span implementations against each other; block, reason, charge and answer fit together under reloads | six families of inputs: patterns of up to three letters, all time spans of a four-minute day over a week, owners with and without windows, budgets and rules, block strategies before and after a reload |
| `Migration` | The version never runs ahead of the schema, no rule is lost, the store opens in the end | databases of every version, one device, two rules, three stops |
| `MigrationUpgrade` | **violation**, see finding 2 | |

The bounds let the cases that matter happen: a session that is resumed, left idle
and closed, and one that meets midnight; an entry that expires while a query is
delayed, a breaker that opens and closes, and a query in flight over a reload; a
refresh that has its snapshot when the notification comes, and a change older than
the period; a crash between any two statements with one mutation committed and
another under way; two devices that swap addresses while a cancelled manager
holds the records of before; a logout between the check of a session and the
answer; a migration that is stopped, repeated and stopped again in its second
attempt. In `Upstream` two queries fail on both servers, lose each other's
increments, trip the breaker and repeat the round; a reload has one server in each
configuration. `Upstream` and `Runtime` are small because two goroutines
reach a million states under fairness; their invariants are proved for all
bounds. `MaxSecond`, `MaxUsage`, `MaxTime`, `MaxVersion`, `MaxReloads`,
`MaxResolver`, `MaxEvents`, `MaxHups`, `MaxLogins`, `MaxEdits`, `MaxRestarts` and
`MaxStops` bound counters the program does not bound; they appear in guards only,
so the runs cover prefixes of real behaviours. The days of `Decision` have four
minutes, since a window is decided by the order of three minutes and by the
weekday. Deadlock is checked except in `AdminServer` and `Devices`, where nothing
needs to happen once the clients are served and the bounded events are used up.
Symmetry is used for interchangeable goroutines and passwords in runs that check
invariants only.

Type correctness and the inductive invariants of the modules with proofs are
not repeated in the runs (section 5).

**Fairness.** `UpstreamResolver` assumes weak fairness of each goroutine's steps:
Go schedules runnable goroutines, and an exchange with a server ends with an
answer or the DNS client's timeout. `PolicyRuntime` assumes it of steps that wait
for nothing, strong fairness of steps that wait for a mutex (`sync.Mutex` hands
over to a goroutine that has waited for long), and that requests keep arriving,
since a refresh happens only in a request. `DeviceDiscovery` assumes that the ticker
wakes each manager again and its steps are scheduled, that `select`, which chooses
at random among the ready cases, takes `ctx.Done` in the end, and that the store
does not fail to save for ever. `Migration` assumes that `migrate` runs on while the
process is not stopped. Nothing is assumed of the clock, of commits, of SIGHUP, of
the router, of administrators or of new queries.

**Exemptions.** `NotifiedChangesApply` and `BoundedStaleness` exempt requests that a
SIGHUP reload overlaps. The reload compiles a snapshot and replaces the globals
without `runtimeMu`, so such a request may read an older version;
`ChangesReachTheRuntime` has no exemption and shows that it is repaired.
`DiscoveryKeepsOwners` and `Converges` exempt policies in which an administrator has
put the MAC of one device into the record under the MAC of another: discovery then
finds two devices in one record. `FirstBootGate` exempts a store that came without
its first-boot flag (`flagLost`), until a factory reset: the gate reads that flag and
not the password. `OnlyUnreadTablesLose` exempts the tables whose query failed in the
call that commits. `DanglingOnlyIfGiven` exempts devices that were given to a
user who did not exist, which no handler refuses.

## 4. Findings

1. *Time is charged twice* (accounting.go:96). The time since the last request is
   added with every request, and the whole session once more when the idle timeout
   closes it. types.go:78 says the total "does not include active in-flight session
   time", which is the reading under which line 96 would be right.
   `ChargedAtMostTwice` bounds the damage.
2. *An upgrade loses the devices* (sqlite_store.go:119). The columns that
   `migrateToV2` adds are NULL in old rows. `snapshotUnsafe` scans them into strings,
   which fails, and skips the row; `persist` deletes all rows and writes back those
   that were read. The first change after an upgrade from version 1 erases every
   device.

Observations without a run:

- *Accounting.* A request whose clock was read before midnight and that gets the
  lock after the first one of the new day moves the records back a day
  (accounting.go:73). On the JSON store, which keeps fractions of a second, requests
  less than a second apart are charged nothing as long as they keep coming:
  `FullyCharged` is a property of SQLite, which truncates both ends of an interval.
- *Upstream.* A failure is dated at the start of the exchange (upstream.go:169): when
  the timeout is as long as the failure window, the next query waits for the server
  again. `CacheNegative`, described as a cache of NXDOMAIN and REFUSED
  (upstream.go:189), stores only the SERVFAIL of a proxy that could not reach its
  servers. `lastFail` is a time of several words that is read and written without a
  lock; the model reads and writes it whole, so a torn date is not among its behaviours.
  Expired entries leave the cache only when their key is written again.
- *SQLite.* `snapshotUnsafe` ignores the errors of its later queries
  (sqlite_store.go:234); the copy lacks those tables and `persist` deletes them.
  `OnlyUnreadTablesLose` says that this is the only loss. A failing `Commit` (line 443)
  is returned without being assigned to `err`, so the deferred `Rollback` does not run;
  the model takes the driver's transaction to be over, as database/sql has it.
- *First boot.* After an upgrade from version 2 the NULL in `initial_secret` stops the
  scan of the administrator's row (sqlite_store.go:209) before the first-boot flag,
  which reads FALSE: the gate of adminserver.go:218 is open although the factory
  password still logs in.
- *Time spans.* The comment of timewindow.go:10 calls the two syntaxes identical;
  `mon - fri` is accepted by the rules only, `tues`, `thurs` and unknown zones by the
  policies only (`OnlyForRules`, `OnlyForWindows`). Three kinds of rules pass the
  validation and are an error in the engine: weekday names it does not know, the type
  `BlockedTimeSpan` without a span, and a span of blanks, which validate.go:162 trims
  and skips and rulesengine.go:347 parses. `ValidatedRulesEvaluate` names the three.
- *Rules.* rulesengine.go:26 says "If nothing matches, DefaultRule is returned"; when
  a domain and a host match but no rule of the host applies, the engine answers
  `None`, which passes, and not the default rule. Once the name of a client is known, patterns
  of addresses do not match it.
- *Reload.* The local resolver keeps the configuration of the start. After a failed
  close of the log every later reload that names another log file fails.
- *Admin server.* A password change revokes neither tokens nor sessions, and a logout
  leaves the bearer token valid. A user who is deleted and created again inherits
  rules and usage.
- *Discovery.* An incomplete ARP entry becomes a device with the MAC
  00:00:00:00:00:00. Two records may have one address; `Compile` keeps either.

## 5. What is proved

TLAPS proves these for every value of the constants that the named assumptions
allow. They say that bounds and lifetimes are natural numbers, that a day is not
empty and a backend is one of the two; `AdminAssumption`, that a token lives no
longer than a session and that the passwords clients choose differ from the factory
ones;
`InputsAssumption`, that configurations, policy data and questions are well typed;
`DiscoveryAssumption`, that there are finitely many devices and addresses to ask,
that an ID the server makes up (a UUID) is no MAC address and that no user and no
device found on the network has the empty ID (`usersHandler` makes one up); `BootAssumption` and `NetworkAssumption`, the
types of what discovery starts from. TLC evaluates every one of them in the runs
of its module, and has checked each inductive invariant on the run's instance.

- **Accounting.** `TypeCorrect`, and from `DayInv` (the two records agree on the
  day, in memory and on disk) `SessionWithinDayHolds` and `FreshDayAdmitsHolds`, for
  any number of concurrent requests and both stores. Under `Serial` (SQLite, one
  goroutine) `SerialInvariance` proves `SerialInv`. The charged total alone is not
  inductive: how much a request adds depends on the session's start, on what was
  charged before it and on whether a refused request closed it. `Ledger` says it
  exactly: while a session is active, its span is charged once and everything
  before it twice. `InOrder` keeps requests in time order and the last conjunct
  lets a restart change nothing. From it follow `FullyChargedHolds`,
  `ChargedAtMostTwiceHolds`, `BudgetEnforcedHolds` and `UsageGrowsHolds`.
- **Upstream resolver.** `TypeCorrect`, `NoStaleReplyHolds`,
  `AnswersFromOwnServersHolds`, `GivesUpOnlyAfterFailuresHolds`. `CacheSound` says of
  the cache what the first two say of replies; it needs `Timely` (no exchange is
  ahead of the clock), because an entry expires counted from the exchange's
  reading. `PassedFailed` says that the servers an exchange has passed in its
  round have failed before.
- **Policy runtime.** `TypeCorrect`, `NotifiedChangesApplyHolds`, `BoundedStalenessHolds`,
  from an invariant that follows a version from the store to the request:
  `Compiling` (a snapshot under the lock contains what has been notified, because a
  notification waits for the lock, and is no older than a compilation), `Fresh` (a
  runtime that is not due for a refresh is good enough), `Reading` (so is whatever
  a request past its refresh may still read, although others replace the globals
  meanwhile), and `HupSeen`, which makes the exemption precise.
- **SQLite store.** `TypeCorrect`, `ExclusiveHolds`, `TablesAgreeHolds`, `Refinement` (in
  the tables that can be read it implements `PolicyStore`) and
  `OnlyUnreadTablesLoseHolds`, for any set of tables whose queries may fail.
  `Exclusive` is the inductive part: only the holder of the mutex is inside, its copy
  is the committed data (nothing, where the query failed) with its mutation, and the transaction has the copy in the
  tables written so far.
- **JSON store.** `TypeCorrect`, `FileNeverTornHolds`, `AckedSurviveHolds`,
  `PartialOnlyAfterErrorHolds`, `MemoryAheadHolds`, from an invariant on how far a call
  has come and on what memory has that the file has not.
- **Device discovery.** `NoOwnerIsLeftBehind` and `PutReplacesTheAssignment`, and the
  action properties `DiscoveryWritesReportedPairs` and `DiscoveryKeepsEveryOwner`, for
  any devices, users, managers and edits. `DiscoveryKeepsOwners` rests on `Keyed`: a
  record under a MAC has that MAC or, once an administrator has replaced it, none, so a
  merge that finds no record of a MAC finds no other device in its place; only an
  administrator can break it, which is what `moved` exempts. `ManagersOK` says that a manager holds finitely many reports of known
  sources, which gives the merge its last record (`MergeWrites`), and that the
  current manager is not the cancelled one.
- **Admin server.** `TypeCorrect`, `NoEditOnFirstBoot`, `AckedPasswordSticks`,
  `ServedOnlyAfterLogin` and `LogoutHolds`, for any clients, logins and restarts. The
  invariants speak of requests that are served; `PastTheGate` (whoever passed the
  first-boot gate with an edit did so with first boot off, and only a restart, which
  ends all requests, brings it back), `NoEditYet` (with first boot on nothing has been
  edited), `FlagKept` (as long as the flag was not lost, it is on while the factory
  password is valid), `Credentials` (tokens
  and sessions end within their lifetime, none outlives its logout) and
  `LateMeansLoggedOut` speak of those on their way. `AckedIsStored` has the
  acknowledged password both in memory and on disk, since a restart or a failing
  save may decide which of them counts.
- **Migration.** `TypeCorrect`, `VersionIsNeverAhead`, `RulesAreKept` and
  `NeverRefused` (no database that an earlier version left, nor one that a stop
  left half-way, is refused), for any rows and any number of stops. `SchemaOfVersion` says what each version row
  promises, `Progress` what the steps before the present one have done in this
  attempt, and `Transaction` what the four statements of the last migration have made
  of the file that others still see.
- **DNS decision.** All ten invariants of the run, for any configurations, policy
  data, questions and reloads. `Inv` of the chain records at each stage what may have
  blocked the question (`Reasons`, `Settled`), that the configuration's blocks stand
  (`BlocksStand`) and that the engine in force is one of the two validated
  configurations (`InForce`); `EngineInForce`, `ConfigBlocksAreKept`,
  `DanglingOwnerIsHarmless`, `BlockedNeverReachesUpstream` and `LoggedReasonHolds`
  follow.
- **Rules, windows, wildcards.** `WildcardCorrect`: `WildcardPatternMatch` decides
  `Matches` for every name and every pattern, of any length. The table is a recursive
  function, and an induction theorem cannot be instantiated here; the proof takes a
  least pair of lengths at which table and meaning differ (`LeastNat`, from the
  well-foundedness of the naturals) and refutes it with `PrefixStep`, which relates the
  meaning of a prefix to shorter ones. `TimeSpansAgree` and `WindowsAreStretches` hold
  for every length of the day and every zone; the first compares the two ways to
  expand a range of weekdays (`RangesAgree`), the parsers (`AcceptanceAgrees`) and the
  comparisons (`EvaluationsAgree`). `ValidatedRulesFailThreeWays` holds for every
  configuration that the validation passes; `PrecedenceIsDeterministic` because the
  best entry of a list written backwards is the mirror image of the best entry, when
  no two are tied.

Two of these proofs corrected the model. `OrderDoesNotMatter` excluded ties among
domains only; two hosts of one name within a domain are tied as well, and the run
now has such a domain, which `Unambiguous` excludes. `BlockedResponse` had a `CASE`
with overlapping guards where the code has a sequence of tests.

Only model-checked: the liveness properties `EveryQueryEnds`,
`ChangesReachTheRuntime`, `Opens` and `Converges`, since fairness is out of the
prover's reach, and the two violations.

## 6. What is not modelled

- Power failures: the stores never call `fsync`; the process may stop anywhere in
  the models, the machine may not.
- `FactoryReset` of the `Store` interface, `ClearCache` of the resolver and
  `MatchDeviceByMAC`, which nothing but tests calls; `Explain`, which evaluates like
  `Evaluate` and returns a trace. A failing query of the audit table, whose nil rows
  the code goes on to use, is a crash like any other.
- The automatic refresh of the device cache from the router, the loading of static
  devices at the start and the first contact with the router: they upsert the
  records that discovery upserts. The merging of device names and vendors, and
  records without a MAC address.
- Daylight saving time: a minute of the week names an instant.
- Router clients, logging, the packet parser, the validator command, the dashboard,
  the static files of the admin server and the encoding of configuration (config.go
  is mostly types with accessors and their JSON and XML methods): I/O or no
  behaviour over time.

## 7. Plan

1. *Done:* all modules above, and the proofs named in section 5.
2. Theorems to come: every safety property that a run checks is stated by a
   theorem. What could still be proved is what joins the models: that the verdicts
   of the budget which `DNSDecision` takes for granted are those of `Accounting`.
3. Models to come: discovery records without a MAC address and the cache's own
   refresh, should they change.
