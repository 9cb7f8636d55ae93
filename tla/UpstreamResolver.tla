-------------------------- MODULE UpstreamResolver --------------------------
(***************************************************************************)
(* The upstream resolver (internal/proxy/upstream.go) as doDnsExchange     *)
(* (internal/proxy/proxy.go) drives it: a response cache, failover over    *)
(* the name servers with retries, and a circuit breaker per server.        *)
(*                                                                         *)
(* Every query runs on a goroutine of its own.  The cache is locked; the   *)
(* servers' failure counters are not, so failures++ is a read and a later  *)
(* write.  Exchange reads the clock once, when it starts.  SIGHUP replaces *)
(* the resolver the global variable upstream points to; a query keeps the  *)
(* resolver it started on, but its failure is cached in the current one.   *)
(***************************************************************************)
EXTENDS Integers

CONSTANTS
    Goroutines,     \* concurrent executions of doDnsExchange
    Names,          \* cache keys (name and type, lower case)
    MaxServers,     \* bound: name servers of a configuration
    Layouts,        \* the numbers of name servers the configurations may have, in
                    \* the order they are loaded; 0 for one that is refused
    Retries,        \* UpstreamRetries
    MaxFails,       \* UpstreamMaxFails; 0 turns the breaker off
    FailWindow,     \* UpstreamFailWindowSec
    CacheEnabled,
    TTLOverride,    \* CacheTTLOverrideSec; 0: none
    NegativeTTL,    \* NegativeCacheTTL
    TTLs,           \* minTTL of an answer; 0 for a response without answers
    MaxTime,        \* bound: the clock stops here
    MaxResolver     \* bound: number of configuration reloads

ASSUME CountsAssumption ==
    /\ MaxServers \in Nat
    /\ Retries \in Nat
    /\ MaxFails \in Nat
    /\ MaxTime \in Nat
    /\ MaxResolver \in Nat
ASSUME DurationsAssumption ==
    /\ FailWindow \in Nat
    /\ TTLOverride \in Nat
    /\ NegativeTTL \in Nat
    /\ TTLs \subseteq Nat
ASSUME CacheAssumption == CacheEnabled \in BOOLEAN
ASSUME LayoutsAssumption == Layouts \subseteq [0..MaxResolver -> 0..MaxServers]

VARIABLES
    clock,
    upstream,   \* the resolver the global points to
    size,       \* resolver -> the number of name servers of its configuration
    servers,    \* resolver -> server -> failures, lastFail
    cache,      \* resolver -> name -> entry
    ex,         \* goroutine -> its execution of doDnsExchange
    reply       \* what the last step wrote to a client, if anything

vars == <<clock, upstream, size, servers, cache, ex, reply>>

Server == 1..MaxServers
Resolver == 0..MaxResolver
ServersOf(r) == 1..size[r]
Never == -FailWindow - 1    \* the zero time: longer ago than any window
NoEntry == [kind |-> "none"]
NoReply == NoEntry
Idle == [pc |-> "idle"]

tries == IF Retries < 1 THEN 1 ELSE Retries

\* The time to live an answer is cached for.
CachedTTL(ttl) == IF TTLOverride > 0 THEN TTLOverride ELSE ttl

\* An entry remembers where and when it was obtained, for the properties.
Entry(k, ttl, from, expiry) ==
    [kind |-> k, source |-> from, obtained |-> clock, ttl |-> ttl, expiresAt |-> expiry]

\* The failures counted: only whether they reach MaxFails is told apart.
Count(n) == IF n > MaxFails THEN MaxFails ELSE n

\* Mutant: an entry is served for ever.
HitStale(e, now) == e # NoEntry

\* responseCache.get: an entry is served until the clock is after its expiry.
Hit(e, now) == e # NoEntry /\ now <= e.expiresAt

\* Whether a server has failed too often; without a breaker it is asked at once.
Verdict(s) ==
    IF MaxFails = 0 THEN "wait" ELSE IF s.failures >= MaxFails THEN "tripped" ELSE "healthy"

\* The last failure of server s, read now, lies within the window of execution e.
Recent(s, e) == e.now - s.lastFail < FailWindow

-----------------------------------------------------------------------------
FreshServers == [s \in Server |-> [failures |-> 0, lastFail |-> Never]]

Init ==
    /\ clock = 0
    /\ upstream = 0
    /\ size \in Layouts /\ size[0] > 0
    /\ servers = [r \in Resolver |-> FreshServers]
    /\ cache = [r \in Resolver |-> [n \in Names |-> NoEntry]]
    /\ ex = [g \in Goroutines |-> Idle]
    /\ reply = NoReply

Tick ==
    /\ clock < MaxTime
    /\ clock' = clock + 1
    /\ UNCHANGED <<upstream, size, servers, cache, ex>>
    /\ reply' = NoReply

\* SIGHUP: NewUpstreamResolver, with servers and a cache of its own.  A
\* configuration without name servers is refused.
Reload ==
    /\ upstream < MaxResolver
    /\ size[upstream + 1] > 0
    /\ upstream' = upstream + 1
    /\ UNCHANGED <<clock, size, servers, cache, ex>>
    /\ reply' = NoReply

\* Exchange reads the clock, on the resolver upstream points to.
Start(g, n) ==
    /\ ex[g] = Idle
    /\ ex' = [ex EXCEPT ![g] =
          [pc |-> "lookup", name |-> n, now |-> clock, resolver |-> upstream,
           round |-> 1, idx |-> 1, seen |-> 0]]
    /\ UNCHANGED <<clock, upstream, size, servers, cache>>
    /\ reply' = NoReply

\* The cache is consulted with the instant read at the start.
Lookup(g) ==
    /\ ex[g].pc = "lookup"
    /\ LET e == cache[ex[g].resolver][ex[g].name]
       IN  IF CacheEnabled /\ Hit(e, ex[g].now)
             THEN /\ reply' =
                        [kind |-> e.kind, source |-> e.source, resolver |-> ex[g].resolver,
                         now |-> ex[g].now, deadline |-> e.obtained + e.ttl]
                  /\ ex' = [ex EXCEPT ![g] = Idle]
             ELSE /\ ex' = [ex EXCEPT ![g].pc = "loop"]
                  /\ reply' = NoReply
    /\ UNCHANGED <<clock, upstream, size, servers, cache>>

\* isUnhealthy, one unlocked access at a time.  The failures of the next server
\* of the round are read.
CheckFailures(g) ==
    /\ ex[g].pc = "loop" /\ ex[g].idx <= size[ex[g].resolver]
    /\ ex' = [ex EXCEPT ![g].pc = Verdict(servers[ex[g].resolver][ex[g].idx])]
    /\ UNCHANGED <<clock, upstream, size, servers, cache>>
    /\ reply' = NoReply

\* It has failed too often: it is passed over if that was recently.
CheckWindow(g) ==
    /\ ex[g].pc = "tripped"
    /\ IF Recent(servers[ex[g].resolver][ex[g].idx], ex[g])
         THEN ex' = [ex EXCEPT ![g].pc = "loop", ![g].idx = @ + 1]
         ELSE ex' = [ex EXCEPT ![g].pc = "healthy"]
    /\ UNCHANGED <<clock, upstream, size, servers, cache>>
    /\ reply' = NoReply

\* It is contacted; the date is read again, and a server whose window has passed ...
CheckPassed(g) ==
    /\ ex[g].pc = "healthy"
    /\ ex' = [ex EXCEPT ![g].pc =
          IF Recent(servers[ex[g].resolver][ex[g].idx], ex[g]) THEN "wait" ELSE "reset"]
    /\ UNCHANGED <<clock, upstream, size, servers, cache>>
    /\ reply' = NoReply

\* ... starts afresh.
ResetFailures(g) ==
    /\ ex[g].pc = "reset"
    /\ servers' = [servers EXCEPT ![ex[g].resolver][ex[g].idx].failures = 0]
    /\ ex' = [ex EXCEPT ![g].pc = "wait"]
    /\ UNCHANGED <<clock, upstream, size, cache>>
    /\ reply' = NoReply

\* Mutant: a round that failed is repeated for ever.
NextRoundForever(g) ==
    /\ ex[g].pc = "loop" /\ ex[g].idx > size[ex[g].resolver]
    /\ ex' = [ex EXCEPT ![g].round = 1, ![g].idx = 1]
    /\ UNCHANGED <<clock, upstream, size, servers, cache>>
    /\ reply' = NoReply

\* Mutant: a round ends one server short.
NextRoundShort(g) ==
    /\ ex[g].pc = "loop" /\ ex[g].idx >= size[ex[g].resolver]
    /\ ex' = IF ex[g].round < tries
              THEN [ex EXCEPT ![g].round = @ + 1, ![g].idx = 1]
              ELSE [ex EXCEPT ![g].pc = "failed"]
    /\ UNCHANGED <<clock, upstream, size, servers, cache>>
    /\ reply' = NoReply

\* No server of the round answered: sleep and try again, or give up.
NextRound(g) ==
    /\ ex[g].pc = "loop" /\ ex[g].idx > size[ex[g].resolver]
    /\ ex' = IF ex[g].round < tries
              THEN [ex EXCEPT ![g].round = @ + 1, ![g].idx = 1]
              ELSE [ex EXCEPT ![g].pc = "failed"]
    /\ UNCHANGED <<clock, upstream, size, servers, cache>>
    /\ reply' = NoReply

\* Mutant: the answer is cached in the resolver that is current by now.
AnswerInCurrent(g, ttl) ==
    /\ ex[g].pc = "wait"
    /\ LET r == ex[g].resolver
           life == CachedTTL(ttl)
           e == Entry("answer", life, r, ex[g].now + life)
       IN  /\ servers' = [servers EXCEPT ![r][ex[g].idx].failures = 0]
           /\ cache' = IF CacheEnabled /\ life > 0
                         THEN [cache EXCEPT ![upstream][ex[g].name] = e] ELSE cache
           /\ reply' =
                 [kind |-> "answer", source |-> r, resolver |-> r,
                  now |-> ex[g].now, deadline |-> e.obtained + e.ttl]
    /\ ex' = [ex EXCEPT ![g] = Idle]
    /\ UNCHANGED <<clock, upstream, size>>

\* The server answers: its failures are forgotten, the answer is cached for its
\* time to live counted from the start of the exchange, and written.
Answer(g, ttl) ==
    /\ ex[g].pc = "wait"
    /\ LET r == ex[g].resolver
           life == CachedTTL(ttl)
           e == Entry("answer", life, r, ex[g].now + life)
       IN  /\ servers' = [servers EXCEPT ![r][ex[g].idx].failures = 0]
           /\ cache' = IF CacheEnabled /\ life > 0
                         THEN [cache EXCEPT ![r][ex[g].name] = e] ELSE cache
           /\ reply' =
                 [kind |-> "answer", source |-> r, resolver |-> r,
                  now |-> ex[g].now, deadline |-> e.obtained + e.ttl]
    /\ ex' = [ex EXCEPT ![g] = Idle]
    /\ UNCHANGED <<clock, upstream, size>>

\* The server does not answer in time: markFail reads the failure count ...
Timeout(g) ==
    /\ ex[g].pc = "wait"
    /\ ex' = [ex EXCEPT ![g].pc = "mark",
                        ![g].seen = servers[ex[g].resolver][ex[g].idx].failures]
    /\ UNCHANGED <<clock, upstream, size, servers, cache>>
    /\ reply' = NoReply

\* ... writes it back, one higher ...
MarkFail(g) ==
    /\ ex[g].pc = "mark"
    /\ servers' = [servers EXCEPT ![ex[g].resolver][ex[g].idx].failures = Count(ex[g].seen + 1)]
    /\ ex' = [ex EXCEPT ![g].pc = "date", ![g].seen = 0]
    /\ UNCHANGED <<clock, upstream, size, cache>>
    /\ reply' = NoReply

\* ... and dates the failure at the start of the exchange.
DateFail(g) ==
    /\ ex[g].pc = "date"
    /\ servers' = [servers EXCEPT ![ex[g].resolver][ex[g].idx].lastFail = ex[g].now]
    /\ ex' = [ex EXCEPT ![g].pc = "loop", ![g].idx = @ + 1]
    /\ UNCHANGED <<clock, upstream, size, cache>>
    /\ reply' = NoReply

\* doDnsExchange after an error: SERVFAIL is cached, in the current resolver,
\* and the client gets no reply.
GiveUp(g) ==
    /\ ex[g].pc = "failed"
    /\ cache' = IF CacheEnabled /\ NegativeTTL > 0
                  THEN [cache EXCEPT ![upstream][ex[g].name] =
                          Entry("servfail", NegativeTTL, ex[g].resolver, clock + NegativeTTL)]
                  ELSE cache
    /\ ex' = [ex EXCEPT ![g] = Idle]
    /\ UNCHANGED <<clock, upstream, size, servers>>
    /\ reply' = NoReply

Step(g) ==
    \/ Lookup(g)
    \/ CheckFailures(g)
    \/ CheckWindow(g)
    \/ CheckPassed(g)
    \/ ResetFailures(g)
    \/ NextRound(g)
    \/ \E ttl \in TTLs : Answer(g, ttl)
    \/ Timeout(g)
    \/ MarkFail(g)
    \/ DateFail(g)
    \/ GiveUp(g)

Next ==
    \/ Tick
    \/ Reload
    \/ \E g \in Goroutines, n \in Names : Start(g, n)
    \/ \E g \in Goroutines : Step(g)

Spec == Init /\ [][Next]_vars

\* A goroutine that can run does: it is never left waiting, because the exchange
\* with a server ends with an answer or at the client's timeout.
Fairness == \A g \in Goroutines : WF_vars(Step(g))

FairSpec == Spec /\ Fairness

-----------------------------------------------------------------------------
ServerRecord == [failures : Nat, lastFail : Int]
EntryRecord ==
    [kind : {"answer", "servfail"}, source : Resolver, obtained : Nat, ttl : Nat, expiresAt : Nat]
Execution ==
    [pc : {"lookup", "loop", "tripped", "healthy", "reset", "wait", "mark", "date", "failed"},
     name : Names, now : Nat,
     resolver : Resolver, round : 1..tries, idx : 1..(MaxServers + 1), seen : Nat]
Reply ==
    [kind : {"answer", "servfail"}, source : Resolver, resolver : Resolver,
     now : Nat, deadline : Nat]

\* Types of the state; a goroutine checks and asks only servers that exist.
TypeOK ==
    /\ clock \in Nat
    /\ upstream \in Resolver
    /\ size \in [Resolver -> 0..MaxServers]
    /\ servers \in [Resolver -> [Server -> ServerRecord]]
    /\ cache \in [Resolver -> [Names -> EntryRecord \cup {NoEntry}]]
    /\ ex \in [Goroutines -> Execution \cup {Idle}]
    /\ reply \in Reply \cup {NoReply}
    /\ \A g \in Goroutines :
          ex[g].pc \in {"tripped", "healthy", "reset", "wait", "mark", "date"} =>
              ex[g].idx <= size[ex[g].resolver]

\* A reply is never past its time to live: the query it answers started no
\* later than the moment the data was obtained plus the time it may be cached,
\* whatever was cached, replaced or expired while the query was delayed.
NoStaleReply ==
    reply # NoReply => reply.now <= reply.deadline

\* An answer comes from a name server of the configuration its query started
\* under: queries still in flight at a reload never put an answer of the old
\* servers where a query of the new configuration could find it.
AnswersFromOwnServers ==
    reply # NoReply /\ reply.kind = "answer" => reply.source = reply.resolver

\* A query is given up only once every server of its resolver has failed, this
\* query or another one: no server that never failed is passed over.
GivesUpOnlyAfterFailures ==
    \A g \in Goroutines : ex[g].pc = "failed" =>
        \A s \in ServersOf(ex[g].resolver) : servers[ex[g].resolver][s].lastFail # Never

\* Every query ends, with a reply or given up.
EveryQueryEnds == \A g \in Goroutines : ex[g] # Idle ~> ex[g] = Idle
=============================================================================
