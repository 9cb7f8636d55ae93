--------------------------- MODULE UpstreamProofs ---------------------------
(***************************************************************************)
(* Proofs about the upstream resolver, for any number of queries, names,   *)
(* servers, retries and reloads and any durations.  The inductive          *)
(* invariant says of the cache what the properties say of the replies, and *)
(* of an exchange which servers it has put behind it.                      *)
(***************************************************************************)
EXTENDS UpstreamResolver, TLAPS

\* No execution is ahead of the clock.
Timely == \A g \in Goroutines : ex[g] # Idle => ex[g].now <= clock

\* An entry expires within its time to live, and an answer is in the cache of
\* the resolver whose server gave it.
CacheSound ==
    \A r \in Resolver, n \in Names : cache[r][n] # NoEntry =>
        /\ cache[r][n].expiresAt <= cache[r][n].obtained + cache[r][n].ttl
        /\ cache[r][n].kind = "answer" => cache[r][n].source = r

\* The servers an exchange has passed in its round have all failed before.
Passed(g) ==
    {s \in ServersOf(ex[g].resolver) : ex[g].pc = "failed" \/ s < ex[g].idx}
PassedFailed ==
    \A g \in Goroutines : ex[g] # Idle =>
        \A s \in Passed(g) : servers[ex[g].resolver][s].lastFail # Never

Inv ==
    /\ TypeOK
    /\ Timely
    /\ CacheSound
    /\ PassedFailed
    /\ NoStaleReply
    /\ AnswersFromOwnServers

\* The steps of isUnhealthy.
Checks(g) == CheckFailures(g) \/ CheckWindow(g) \/ CheckPassed(g) \/ ResetFailures(g)

LEMMA ExRunning ==
    ASSUME TypeOK, NEW g \in Goroutines, ex[g].pc # "idle"
    PROVE  ex[g] \in Execution /\ ex[g] # Idle
  BY DEF TypeOK, Idle

LEMMA ExecutionNotIdle ==
    ASSUME NEW e \in Execution PROVE e # Idle /\ e.pc # "idle"
  BY DEF Execution, Idle

LEMMA Constants ==
    /\ tries \in Nat \ {0}
    /\ Never \in Int
    /\ \A n \in Nat : n # Never /\ n - Never >= FailWindow
    /\ 0 \in Resolver
    /\ FreshServers \in [Server -> ServerRecord]
  <1>1. Never \in Int /\ \A n \in Nat : n # Never /\ n - Never >= FailWindow
    BY DurationsAssumption DEF Never
  <1>2. tries \in Nat \ {0} /\ 0 \in Resolver
    BY CountsAssumption DEF tries, Resolver
  <1> QED BY <1>1, <1>2 DEF FreshServers, ServerRecord

\* The servers of a resolver are servers; one past the last is still an index.
LEMMA ServersAre ==
    ASSUME TypeOK, NEW r \in Resolver
    PROVE  /\ size[r] \in Nat
           /\ ServersOf(r) \subseteq Server
           /\ \A s \in ServersOf(r) : s \in Nat /\ s + 1 \in 1..(MaxServers + 1)
  <1>1. size[r] \in 0..MaxServers
    BY DEF TypeOK
  <1> QED BY <1>1, CountsAssumption DEF ServersOf, Server

LEMMA AtServer ==
    ASSUME TypeOK, NEW e \in Execution, e.idx <= size[e.resolver]
    PROVE  /\ e.resolver \in Resolver
           /\ e.idx \in ServersOf(e.resolver)
           /\ e.idx \in Server
           /\ e.idx + 1 \in 1..(MaxServers + 1)
  <1>1. e.resolver \in Resolver /\ e.idx \in Nat /\ e.idx >= 1
    BY CountsAssumption DEF Execution
  <1>2. e.idx \in ServersOf(e.resolver)
    BY <1>1, ServersAre DEF ServersOf
  <1> QED BY <1>1, <1>2, ServersAre

LEMMA VerdictType ==
    ASSUME NEW s PROVE Verdict(s) \in {"wait", "tripped", "healthy"}
  BY DEF Verdict

LEMMA CountType ==
    ASSUME NEW n \in Nat PROVE Count(n) \in Nat
  BY CountsAssumption DEF Count

LEMMA CachedTTLType ==
    ASSUME NEW ttl \in TTLs PROVE CachedTTL(ttl) \in Nat
  BY DurationsAssumption DEF CachedTTL

LEMMA InitInv ==
    Init => Inv
  BY Constants, CountsAssumption, LayoutsAssumption
  DEF Init, Inv, TypeOK, Timely, CacheSound, PassedFailed, NoStaleReply,
      AnswersFromOwnServers, Idle, NoEntry, NoReply, Passed, Resolver

\* Types are preserved.
LEMMA TypePreserved ==
    ASSUME TypeOK, [Next]_vars PROVE TypeOK'
  <1> USE DEF TypeOK
  <1>1. CASE Tick
    BY <1>1 DEF Tick
  <1>2. CASE Reload
    BY <1>2, CountsAssumption DEF Reload, Resolver
  <1>3. ASSUME NEW g \in Goroutines, NEW n \in Names, Start(g, n) PROVE TypeOK'
    <2>1. [pc |-> "lookup", name |-> n, now |-> clock, resolver |-> upstream,
           round |-> 1, idx |-> 1, seen |-> 0] \in Execution
      BY Constants, CountsAssumption DEF Execution
    <2> QED BY <1>3, <2>1 DEF Start
  <1>4. ASSUME NEW g \in Goroutines, Lookup(g) PROVE TypeOK'
    <2>1. ex[g] \in Execution
      BY <1>4, ExRunning DEF Lookup
    <2> DEFINE e == cache[ex[g].resolver][ex[g].name]
    <2>2. e \in EntryRecord \cup {NoEntry}
      BY <2>1 DEF Execution
    <2>3. CASE CacheEnabled /\ Hit(e, ex[g].now)
      <3>1. e \in EntryRecord
        BY <2>2, <2>3 DEF Hit
      <3>2. [kind |-> e.kind, source |-> e.source, resolver |-> ex[g].resolver,
             now |-> ex[g].now, deadline |-> e.obtained + e.ttl] \in Reply
        BY <2>1, <3>1 DEF Execution, EntryRecord, Reply
      <3>3. reply' \in Reply \cup {NoReply}
        BY <1>4, <2>3, <3>2 DEF Lookup
      <3>4. ex' = [ex EXCEPT ![g] = Idle]
        BY <1>4, <2>3 DEF Lookup
      <3> QED BY <1>4, <3>3, <3>4 DEF Lookup, Idle
    <2>4. CASE ~(CacheEnabled /\ Hit(e, ex[g].now))
      <3>1. ex' = [ex EXCEPT ![g].pc = "loop"]
        BY <1>4, <2>4 DEF Lookup
      <3>2. ex'[g] \in Execution /\ ex'[g].pc = "loop"
        BY <2>1, <3>1 DEF Execution
      <3> QED BY <1>4, <2>4, <3>1, <3>2 DEF Lookup
    <2> QED BY <2>3, <2>4
  <1>5. ASSUME NEW g \in Goroutines, Checks(g) PROVE TypeOK'
    <2>1. ex[g] \in Execution
      BY <1>5, ExRunning DEF Checks, CheckFailures, CheckWindow, CheckPassed, ResetFailures
    <2>2. ex[g].idx <= size[ex[g].resolver]
      BY <1>5 DEF Checks, CheckFailures, CheckWindow, CheckPassed, ResetFailures
    <2>3. /\ ex[g].resolver \in Resolver /\ ex[g].idx \in Server
          /\ ex[g].idx + 1 \in 1..(MaxServers + 1)
      BY <2>1, <2>2, AtServer
    <2>4. /\ ex' = [ex EXCEPT ![g] = ex'[g]] /\ ex'[g] \in Execution
          /\ ex'[g].resolver = ex[g].resolver
          /\ ex'[g].pc = "loop" \/ ex'[g].idx = ex[g].idx
      <3>1. CASE CheckFailures(g)
        BY <2>1, <3>1, VerdictType DEF CheckFailures, Execution
      <3>2. CASE CheckWindow(g)
        <4>1. CASE ex' = [ex EXCEPT ![g].pc = "loop", ![g].idx = ex[g].idx + 1]
          BY <2>1, <2>3, <4>1 DEF Execution
        <4>2. CASE ex' = [ex EXCEPT ![g].pc = "healthy"]
          BY <2>1, <4>2 DEF Execution
        <4> QED BY <3>2, <4>1, <4>2 DEF CheckWindow
      <3>3. CASE CheckPassed(g)
        BY <2>1, <3>3 DEF CheckPassed, Execution
      <3>4. CASE ResetFailures(g)
        BY <2>1, <3>4 DEF ResetFailures, Execution
      <3> QED BY <1>5, <3>1, <3>2, <3>3, <3>4 DEF Checks
    <2>5. servers' \in [Resolver -> [Server -> ServerRecord]]
      <3>1. CASE ResetFailures(g)
        <4>1. servers' = [servers EXCEPT ![ex[g].resolver][ex[g].idx].failures = 0]
          BY <3>1 DEF ResetFailures
        <4>3. servers[ex[g].resolver][ex[g].idx] \in ServerRecord
          BY <2>3
        <4>4. [servers[ex[g].resolver][ex[g].idx] EXCEPT !.failures = 0] \in ServerRecord
          BY <4>3 DEF ServerRecord
        <4> QED BY <2>3, <4>1, <4>4
      <3>2. CASE UNCHANGED servers
        BY <3>2
      <3> QED BY <1>5, <3>1, <3>2 DEF Checks, CheckFailures, CheckWindow, CheckPassed
    <2>6. UNCHANGED <<clock, upstream, size, cache>> /\ reply' = NoReply
      BY <1>5 DEF Checks, CheckFailures, CheckWindow, CheckPassed, ResetFailures
    <2> QED BY <2>2, <2>4, <2>5, <2>6
  <1>6. ASSUME NEW g \in Goroutines, NextRound(g) PROVE TypeOK'
    <2>1. ex[g] \in Execution
      BY <1>6, ExRunning DEF NextRound
    <2>2. ex'[g] \in Execution /\ ex'[g].pc \in {"loop", "failed"}
      <3>1. CASE ex[g].round < tries
        <4>1. ex'[g] = [ex[g] EXCEPT !.round = ex[g].round + 1, !.idx = 1]
          BY <1>6, <3>1 DEF NextRound
        <4>2. ex[g].round + 1 \in 1..tries /\ 1 \in 1..(MaxServers + 1)
          BY <2>1, <3>1, Constants, CountsAssumption DEF Execution
        <4> QED BY <1>6, <2>1, <4>1, <4>2 DEF NextRound, Execution
      <3>2. CASE ~(ex[g].round < tries)
        <4>1. ex'[g] = [ex[g] EXCEPT !.pc = "failed"]
          BY <1>6, <3>2 DEF NextRound
        <4> QED BY <2>1, <4>1 DEF Execution
      <3> QED BY <3>1, <3>2
    <2> QED BY <1>6, <2>2 DEF NextRound
  <1>7. ASSUME NEW g \in Goroutines, NEW ttl \in TTLs, Answer(g, ttl) PROVE TypeOK'
    <2>1. ex[g] \in Execution /\ ex[g].idx \in Server
      BY <1>7, ExRunning, AtServer DEF Answer
    <2> DEFINE r == ex[g].resolver
               life == CachedTTL(ttl)
               e == Entry("answer", life, r, ex[g].now + life)
    <2>2. life \in Nat
      BY CachedTTLType
    <2>3. e \in EntryRecord
      BY <2>1, <2>2 DEF Entry, EntryRecord, Execution
    <2>4. cache' \in [Resolver -> [Names -> EntryRecord \cup {NoEntry}]]
      <3>1. CASE CacheEnabled /\ life > 0
        <4>1. cache' = [cache EXCEPT ![r][ex[g].name] = e]
          BY <1>7, <3>1 DEF Answer
        <4> HIDE DEF e
        <4> QED BY <2>3, <4>1
      <3>2. CASE ~(CacheEnabled /\ life > 0)
        BY <1>7, <3>2 DEF Answer
      <3> QED BY <3>1, <3>2
    <2>5. servers' \in [Resolver -> [Server -> ServerRecord]]
      <3>1. servers' = [servers EXCEPT ![r][ex[g].idx].failures = 0]
        BY <1>7 DEF Answer
      <3>2. servers[r][ex[g].idx] \in ServerRecord
        BY <2>1 DEF Execution
      <3>3. [servers[r][ex[g].idx] EXCEPT !.failures = 0] \in ServerRecord
        BY <3>2 DEF ServerRecord
      <3> QED BY <2>1, <3>1, <3>3 DEF Execution
    <2>6. reply' \in Reply \cup {NoReply}
      <3>1. [kind |-> "answer", source |-> r, resolver |-> r,
             now |-> ex[g].now, deadline |-> e.obtained + e.ttl] \in Reply
        BY <2>1, <2>3 DEF EntryRecord, Reply, Execution
      <3> QED BY <1>7, <3>1 DEF Answer
    <2> QED BY <1>7, <2>4, <2>5, <2>6 DEF Answer, Idle
  <1>8. ASSUME NEW g \in Goroutines, Timeout(g) PROVE TypeOK'
    <2>1. ex[g] \in Execution /\ ex[g].idx \in Server
      BY <1>8, ExRunning, AtServer DEF Timeout
    <2>2. servers[ex[g].resolver][ex[g].idx].failures \in Nat
      BY <2>1 DEF Execution, ServerRecord
    <2>3. ex'[g] \in Execution /\ ex'[g].idx = ex[g].idx /\ ex'[g].resolver = ex[g].resolver
      BY <1>8, <2>1, <2>2 DEF Timeout, Execution
    <2> QED BY <1>8, <2>1, <2>3 DEF Timeout
  <1>9. ASSUME NEW g \in Goroutines, MarkFail(g) \/ DateFail(g) PROVE TypeOK'
    <2>1. /\ ex[g] \in Execution /\ ex[g].idx \in Server /\ ex[g].resolver \in Resolver
          /\ ex[g].idx + 1 \in 1..(MaxServers + 1)
      BY <1>9, ExRunning, AtServer DEF MarkFail, DateFail
    <2>2. /\ ex' = [ex EXCEPT ![g] = ex'[g]] /\ ex'[g] \in Execution
          /\ ex'[g].resolver = ex[g].resolver
          /\ ex'[g].pc = "loop" \/ ex'[g].idx = ex[g].idx
      <3>1. CASE MarkFail(g)
        BY <2>1, <3>1 DEF MarkFail, Execution
      <3>2. CASE DateFail(g)
        BY <2>1, <3>2 DEF DateFail, Execution
      <3> QED BY <1>9, <3>1, <3>2
    <2>3. servers' \in [Resolver -> [Server -> ServerRecord]]
      <3>1. servers[ex[g].resolver][ex[g].idx] \in ServerRecord /\ Count(ex[g].seen + 1) \in Nat
        BY <2>1, CountType DEF Execution
      <3>2. /\ [servers[ex[g].resolver][ex[g].idx] EXCEPT !.failures = Count(ex[g].seen + 1)] \in ServerRecord
            /\ [servers[ex[g].resolver][ex[g].idx] EXCEPT !.lastFail = ex[g].now] \in ServerRecord
        BY <2>1, <3>1 DEF ServerRecord, Execution
      <3>3. CASE MarkFail(g)
        BY <2>1, <3>2, <3>3 DEF MarkFail
      <3>4. CASE DateFail(g)
        BY <2>1, <3>2, <3>4 DEF DateFail
      <3> QED BY <1>9, <3>3, <3>4
    <2>4. UNCHANGED <<clock, upstream, size, cache>> /\ reply' = NoReply
      BY <1>9 DEF MarkFail, DateFail
    <2>5. ex[g].idx <= size[ex[g].resolver]
      BY <1>9 DEF MarkFail, DateFail
    <2> QED BY <2>2, <2>3, <2>4, <2>5
  <1>10. ASSUME NEW g \in Goroutines, GiveUp(g) PROVE TypeOK'
    <2>1. ex[g] \in Execution
      BY <1>10, ExRunning DEF GiveUp
    <2>2. Entry("servfail", NegativeTTL, ex[g].resolver, clock + NegativeTTL) \in EntryRecord
      BY <2>1, DurationsAssumption DEF Entry, EntryRecord, Execution
    <2>3. cache' \in [Resolver -> [Names -> EntryRecord \cup {NoEntry}]]
      BY <1>10, <2>2 DEF GiveUp
    <2> QED BY <1>10, <2>3 DEF GiveUp, Idle
  <1>11. CASE UNCHANGED vars
    BY <1>11 DEF vars
  <1> QED
    BY <1>1, <1>2, <1>3, <1>4, <1>5, <1>6, <1>7, <1>8, <1>9, <1>10, <1>11 DEF Next, Step, Checks

\* An execution is dated when it starts and the clock only moves forward.
LEMMA TimelyPreserved ==
    ASSUME TypeOK, TypeOK', Timely, [Next]_vars PROVE Timely'
  <1>1. clock' \in Nat /\ clock <= clock'
    <2>1. CASE Tick
      BY <2>1 DEF Tick, TypeOK
    <2>2. CASE clock' = clock
      BY <2>2 DEF TypeOK
    <2>3. Tick \/ clock' = clock
      BY DEF Next, Reload, Start, Step, Lookup, CheckFailures, CheckWindow, CheckPassed, ResetFailures,
             NextRound, Answer, Timeout, MarkFail, DateFail, GiveUp, vars
    <2> QED BY <2>1, <2>2, <2>3
  <1>2. ASSUME NEW g \in Goroutines
        PROVE  ex'[g] = Idle \/ ex'[g].now = clock \/ (ex[g] # Idle /\ ex'[g].now = ex[g].now)
    <2>1. CASE ex' = ex
      BY <2>1
    <2>2. ASSUME NEW h \in Goroutines, NEW n \in Names, Start(h, n)
          PROVE  ex'[g] = Idle \/ ex'[g].now = clock \/ (ex[g] # Idle /\ ex'[g].now = ex[g].now)
      BY <2>2 DEF Start, TypeOK
    <2>3. ASSUME NEW h \in Goroutines, Step(h)
          PROVE  ex'[g] = Idle \/ (ex[g] # Idle /\ ex'[g].now = ex[g].now)
      <3>1. ex[h] \in Execution /\ ex[h] # Idle
        BY <2>3, ExRunning
        DEF Step, Lookup, CheckFailures, CheckWindow, CheckPassed, ResetFailures,
            NextRound, Answer, Timeout, MarkFail, DateFail, GiveUp
      <3>2. CASE g # h
        BY <2>3, <3>2
        DEF Step, Lookup, CheckFailures, CheckWindow, CheckPassed, ResetFailures,
            NextRound, Answer, Timeout, MarkFail, DateFail, GiveUp, TypeOK
      <3>3. CASE g = h
        <4>1. CASE CheckFailures(g)
          BY <3>1, <3>3, <4>1, VerdictType DEF CheckFailures, TypeOK, Execution
        <4>2. CASE CheckWindow(g)
          BY <3>1, <3>3, <4>2 DEF CheckWindow, TypeOK, Execution
        <4> QED
          BY <2>3, <3>1, <3>3, <4>1, <4>2
          DEF Step, Lookup, CheckPassed, ResetFailures,
              NextRound, Answer, Timeout, MarkFail, DateFail, GiveUp, TypeOK, Execution
      <3> QED BY <3>2, <3>3
    <2> QED BY <2>1, <2>2, <2>3 DEF Next, Tick, Reload, vars
  <1>3. ASSUME NEW g \in Goroutines, ex'[g] # Idle PROVE ex'[g].now <= clock'
    <2>1. ex'[g].now \in Nat
      BY <1>3 DEF TypeOK, Execution
    <2>2. clock \in Nat /\ (ex[g] # Idle => ex[g].now <= clock)
      BY DEF Timely, TypeOK
    <2>3. ex'[g].now <= clock
      BY <1>2, <1>3, <2>1, <2>2
    <2> QED BY <1>1, <2>1, <2>2, <2>3
  <1> QED BY <1>3 DEF Timely

\* What a step writes to the cache: an answer, in the resolver that asked for
\* it, or a failure.
LEMMA CacheStep ==
    ASSUME TypeOK, Timely, [Next]_vars,
           NEW r \in Resolver, NEW n \in Names, cache'[r][n] # cache[r][n]
    PROVE  /\ cache'[r][n].expiresAt <= cache'[r][n].obtained + cache'[r][n].ttl
           /\ cache'[r][n].kind = "answer" => cache'[r][n].source = r
  <1>1. ASSUME NEW g \in Goroutines, NEW ttl \in TTLs, Answer(g, ttl)
        PROVE  /\ cache'[r][n].expiresAt <= cache'[r][n].obtained + cache'[r][n].ttl
               /\ cache'[r][n].kind = "answer" => cache'[r][n].source = r
    <2>1. ex[g] \in Execution /\ ex[g] # Idle
      BY <1>1, ExRunning DEF Answer
    <2> DEFINE life == CachedTTL(ttl)
               e == Entry("answer", life, ex[g].resolver, ex[g].now + life)
    <2>2. ex[g].now <= clock /\ ex[g].now \in Nat /\ clock \in Nat /\ life \in Nat
      BY <2>1, CachedTTLType DEF Timely, Execution, TypeOK
    <2>3. cache' = [cache EXCEPT ![ex[g].resolver][ex[g].name] = e]
      BY <1>1 DEF Answer
    <2>4. r = ex[g].resolver /\ cache'[r][n] = e
      <3> HIDE DEF e
      <3> QED BY <2>3 DEF TypeOK
    <2>5. e.expiresAt = ex[g].now + life /\ e.obtained = clock /\ e.ttl = life
          /\ e.source = ex[g].resolver
      BY DEF Entry
    <2> HIDE DEF life, e
    <2> QED BY <2>2, <2>4, <2>5
  <1>2. ASSUME NEW g \in Goroutines, GiveUp(g)
        PROVE  /\ cache'[r][n].expiresAt <= cache'[r][n].obtained + cache'[r][n].ttl
               /\ cache'[r][n].kind # "answer"
    <2> DEFINE e == Entry("servfail", NegativeTTL, ex[g].resolver, clock + NegativeTTL)
    <2>1. cache' = [cache EXCEPT ![upstream][ex[g].name] = e]
      BY <1>2 DEF GiveUp
    <2>2. cache'[r][n] = e
      <3> HIDE DEF e
      <3> QED BY <2>1 DEF TypeOK
    <2>3. e.expiresAt = clock + NegativeTTL /\ e.obtained = clock /\ e.ttl = NegativeTTL
          /\ e.kind = "servfail"
      BY DEF Entry
    <2> HIDE DEF e
    <2> QED BY <2>2, <2>3, DurationsAssumption DEF TypeOK
  <1> QED
    BY <1>1, <1>2
    DEF Next, Step, Tick, Reload, Start, Lookup, CheckFailures, CheckWindow, CheckPassed,
        ResetFailures, NextRound, Timeout, MarkFail, DateFail, vars

LEMMA CacheSoundPreserved ==
    ASSUME TypeOK, Timely, CacheSound, [Next]_vars PROVE CacheSound'
  BY CacheStep DEF CacheSound

\* A reply is a sound entry that was fresh at the start of the query, or a
\* server's answer.
LEMMA RepliesPreserved ==
    ASSUME Inv, [Next]_vars PROVE NoStaleReply' /\ AnswersFromOwnServers'
  <1> USE DEF Inv
  <1>1. ASSUME NEW g \in Goroutines, NEW n \in Names, Start(g, n)
        PROVE  NoStaleReply' /\ AnswersFromOwnServers'
    BY <1>1 DEF Start, NoStaleReply, AnswersFromOwnServers
  <1>2. ASSUME NEW g \in Goroutines, Lookup(g)
        PROVE  NoStaleReply' /\ AnswersFromOwnServers'
    <2>1. ex[g] \in Execution /\ ex[g] # Idle
      BY <1>2, ExRunning DEF Lookup
    <2> DEFINE e == cache[ex[g].resolver][ex[g].name]
               rep == [kind |-> e.kind, source |-> e.source, resolver |-> ex[g].resolver,
                       now |-> ex[g].now, deadline |-> e.obtained + e.ttl]
    <2>2. CASE CacheEnabled /\ Hit(e, ex[g].now)
      <3>1. e # NoEntry /\ e \in EntryRecord
        BY <2>1, <2>2 DEF Hit, TypeOK, Execution
      <3>2. /\ e.expiresAt <= e.obtained + e.ttl
            /\ e.kind = "answer" => e.source = ex[g].resolver
            /\ ex[g].now <= e.expiresAt
        BY <2>1, <2>2, <3>1 DEF CacheSound, Hit, Execution
      <3>3. rep.now <= rep.deadline
        BY <2>1, <3>1, <3>2 DEF Execution, EntryRecord
      <3>4. rep.kind = "answer" => rep.source = rep.resolver
        BY <3>2
      <3>5. reply' = rep
        BY <1>2, <2>2 DEF Lookup
      <3> HIDE DEF rep
      <3> QED BY <3>3, <3>4, <3>5 DEF NoStaleReply, AnswersFromOwnServers
    <2>3. CASE ~(CacheEnabled /\ Hit(e, ex[g].now))
      BY <1>2, <2>3 DEF Lookup, NoStaleReply, AnswersFromOwnServers
    <2> QED BY <2>2, <2>3
  <1>3. ASSUME NEW g \in Goroutines, NEW ttl \in TTLs, Answer(g, ttl)
        PROVE  NoStaleReply' /\ AnswersFromOwnServers'
    <2>1. ex[g] \in Execution /\ ex[g] # Idle
      BY <1>3, ExRunning DEF Answer
    <2> DEFINE rep == [kind |-> "answer", source |-> ex[g].resolver, resolver |-> ex[g].resolver,
                       now |-> ex[g].now, deadline |-> clock + CachedTTL(ttl)]
    <2>2. reply' = rep
      BY <1>3 DEF Answer, Entry
    <2>3. rep.now <= rep.deadline /\ rep.source = rep.resolver
      BY <2>1, CachedTTLType DEF Timely, Execution, TypeOK
    <2> HIDE DEF rep
    <2> QED BY <2>2, <2>3 DEF NoStaleReply, AnswersFromOwnServers
  <1>4. CASE reply' = reply \/ reply' = NoReply
    BY <1>4 DEF NoStaleReply, AnswersFromOwnServers
  <1> QED
    BY <1>1, <1>2, <1>3, <1>4
    DEF Next, Step, Tick, Reload, CheckFailures, CheckWindow, CheckPassed, ResetFailures,
        NextRound, Timeout, MarkFail, DateFail, GiveUp, vars

\* A failure is never forgotten: every date of a last failure that is written
\* is one.
LEMMA FailuresStay ==
    ASSUME TypeOK, [Next]_vars, NEW r \in Resolver, NEW s \in Server,
           servers[r][s].lastFail # Never
    PROVE  servers'[r][s].lastFail # Never
  <1>1. servers[r][s] \in ServerRecord
    BY DEF TypeOK
  <1>2. ASSUME NEW g \in Goroutines,
               ResetFailures(g) \/ MarkFail(g) \/ \E ttl \in TTLs : Answer(g, ttl)
        PROVE  servers'[r][s].lastFail # Never
    <2>1. PICK n : servers' = [servers EXCEPT ![ex[g].resolver][ex[g].idx].failures = n]
      BY <1>2 DEF ResetFailures, MarkFail, Answer
    <2>2. servers'[r][s] = servers[r][s] \/ servers'[r][s] = [servers[r][s] EXCEPT !.failures = n]
      BY <2>1 DEF TypeOK
    <2> QED BY <1>1, <2>2 DEF ServerRecord
  <1>3. ASSUME NEW g \in Goroutines, DateFail(g) PROVE servers'[r][s].lastFail # Never
    <2>1. ex[g].now # Never
      BY <1>3, ExRunning, Constants DEF DateFail, Execution
    <2>2. servers'[r][s] = servers[r][s]
          \/ servers'[r][s] = [servers[r][s] EXCEPT !.lastFail = ex[g].now]
      BY <1>3 DEF DateFail, TypeOK
    <2> QED BY <1>1, <2>1, <2>2 DEF ServerRecord
  <1> QED
    BY <1>2, <1>3
    DEF Next, Step, Tick, Reload, Start, Lookup, CheckFailures, CheckWindow, CheckPassed,
        NextRound, Timeout, GiveUp, vars

\* A server with a recent failure has failed.
LEMMA RecentFailed ==
    ASSUME NEW s, NEW e \in Execution, Recent(s, e) PROVE s.lastFail # Never
  <1>1. e.now \in Nat
    BY DEF Execution
  <1> QED BY <1>1, Constants, DurationsAssumption DEF Recent

\* An exchange passes a server when its failure is recent or when it has just
\* failed.
LEMMA PassedPreserved ==
    ASSUME Inv, TypeOK', [Next]_vars PROVE PassedFailed'
  <1> USE DEF Inv
  <1> SUFFICES ASSUME NEW g \in Goroutines, ex'[g] # Idle, NEW s \in Passed(g)'
               PROVE  servers'[ex'[g].resolver][s].lastFail # Never
    BY DEF PassedFailed
  <1>a. size' = size
    BY DEF Next, Step, Tick, Reload, Start, Lookup, CheckFailures, CheckWindow, CheckPassed,
           ResetFailures, NextRound, Answer, Timeout, MarkFail, DateFail, GiveUp, vars
  <1>0. /\ ex'[g].resolver \in Resolver /\ s \in ServersOf(ex'[g].resolver)
        /\ s \in Server /\ s \in Nat
    <2>1. ex'[g] \in Execution
      BY DEF TypeOK
    <2>2. ex'[g].resolver \in Resolver
      BY <2>1 DEF Execution
    <2>3. s \in ServersOf(ex'[g].resolver)
      BY <1>a DEF Passed, ServersOf
    <2> QED BY <2>2, <2>3, ServersAre
  <1>1. CASE ex'[g] = ex[g]
    <2>1. ex[g] \in Execution /\ s \in Passed(g)
      BY <1>a, <1>1 DEF TypeOK, Passed, ServersOf
    <2> QED BY <1>0, <1>1, <2>1, FailuresStay DEF PassedFailed, Execution
  <1>2. ASSUME NEW n \in Names, Start(g, n)
        PROVE  servers'[ex'[g].resolver][s].lastFail # Never
    <2>1. ex'[g].idx = 1 /\ ex'[g].pc = "lookup"
      BY <1>2 DEF Start, TypeOK
    <2>2. s < 1 /\ s \in 1..size[ex'[g].resolver] /\ size[ex'[g].resolver] \in Nat
      BY <2>1, <1>0, ServersAre DEF Passed, ServersOf
    <2> QED BY <2>2
  <1>3. ASSUME Step(g)
        PROVE  servers'[ex'[g].resolver][s].lastFail # Never
    <2>1. ex[g] \in Execution /\ ex[g] # Idle
      BY <1>3, ExRunning
      DEF Step, Lookup, CheckFailures, CheckWindow, CheckPassed, ResetFailures,
          NextRound, Answer, Timeout, MarkFail, DateFail, GiveUp
    <2>2. ex'[g].resolver = ex[g].resolver
      BY <1>3, <2>1
      DEF Step, Lookup, CheckFailures, CheckWindow, CheckPassed, ResetFailures,
          NextRound, Answer, Timeout, MarkFail, DateFail, GiveUp, TypeOK, Execution
    <2>3. CASE s \in Passed(g)
      BY <1>0, <2>1, <2>2, <2>3, FailuresStay DEF PassedFailed, Execution
    <2>4. ASSUME s \notin Passed(g)
          PROVE  servers'[ex'[g].resolver][s].lastFail # Never
      <3>1. ex[g].pc # "failed" /\ ~(s < ex[g].idx) /\ ex[g].idx \in Nat
        BY <1>0, <2>1, <2>2, <2>4, CountsAssumption DEF Passed, Execution
      <3>2. ex'[g].pc = "failed" \/ s < ex'[g].idx
        BY DEF Passed
      <3>3. CASE CheckWindow(g)
        <4>1. Recent(servers[ex[g].resolver][ex[g].idx], ex[g])
          <5> SUFFICES ASSUME ~Recent(servers[ex[g].resolver][ex[g].idx], ex[g]) PROVE FALSE
            OBVIOUS
          <5>1. ex'[g] = [ex[g] EXCEPT !.pc = "healthy"]
            BY <3>3 DEF CheckWindow, TypeOK
          <5> QED BY <2>1, <3>1, <3>2, <5>1 DEF Execution
        <4>2. ex'[g] = [ex[g] EXCEPT !.pc = "loop", !.idx = ex[g].idx + 1] /\ servers' = servers
          BY <3>3, <4>1 DEF CheckWindow, TypeOK
        <4>3. s < ex[g].idx + 1
          BY <2>1, <3>2, <4>2 DEF Execution
        <4>4. s = ex[g].idx
          BY <1>0, <3>1, <4>3
        <4> QED BY <2>1, <2>2, <4>1, <4>2, <4>4, RecentFailed
      <3>4. CASE DateFail(g)
        <4>1. ex'[g] = [ex[g] EXCEPT !.pc = "loop", !.idx = ex[g].idx + 1]
          BY <3>4 DEF DateFail, TypeOK
        <4>2. s < ex[g].idx + 1
          BY <2>1, <3>2, <4>1 DEF Execution
        <4>3. s = ex[g].idx
          BY <1>0, <3>1, <4>2
        <4>4. servers[ex[g].resolver][s] \in ServerRecord
          BY <1>0, <2>1 DEF TypeOK, Execution
        <4>5. servers'[ex[g].resolver][s] = [servers[ex[g].resolver][s] EXCEPT !.lastFail = ex[g].now]
          BY <1>0, <2>1, <3>4, <4>3 DEF DateFail, TypeOK, Execution
        <4> QED BY <2>1, <2>2, <4>4, <4>5, Constants DEF Execution, ServerRecord
      <3>5. CASE NextRound(g)
        <4>1. ex[g].idx > size[ex[g].resolver] /\ size[ex[g].resolver] \in Nat
          BY <2>1, <3>5, ServersAre DEF NextRound, Execution
        <4> QED BY <1>0, <2>2, <3>1, <4>1 DEF ServersOf
      <3>6. CASE Lookup(g) \/ Timeout(g) \/ CheckFailures(g) \/ CheckPassed(g) \/ ResetFailures(g)
                 \/ MarkFail(g)
        <4>1. ex'[g].idx = ex[g].idx /\ ex'[g].pc # "failed"
          <5>1. CASE CheckFailures(g)
            BY <2>1, <5>1, VerdictType DEF CheckFailures, TypeOK, Execution
          <5> QED
            BY <2>1, <3>6, <5>1
            DEF Lookup, Timeout, CheckPassed, ResetFailures, MarkFail, TypeOK, Execution
        <4> QED BY <3>1, <3>2, <4>1
      <3>7. CASE GiveUp(g) \/ \E ttl \in TTLs : Answer(g, ttl)
        BY <3>7 DEF GiveUp, Answer, TypeOK
      <3> QED BY <1>3, <3>3, <3>4, <3>5, <3>6, <3>7 DEF Step
    <2> QED BY <2>3, <2>4
  <1>4. ex'[g] = ex[g] \/ Step(g) \/ \E n \in Names : Start(g, n)
    <2>1. ASSUME NEW h \in Goroutines, NEW n \in Names, Start(h, n), h # g
          PROVE  ex'[g] = ex[g]
      BY <2>1 DEF Start, TypeOK
    <2>2. ASSUME NEW h \in Goroutines, Step(h), h # g
          PROVE  ex'[g] = ex[g]
      BY <2>2
      DEF Step, Lookup, CheckFailures, CheckWindow, CheckPassed, ResetFailures,
            NextRound, Answer, Timeout, MarkFail, DateFail, GiveUp, TypeOK
    <2> QED BY <2>1, <2>2 DEF Next, Tick, Reload, vars
  <1> QED BY <1>1, <1>2, <1>3, <1>4

LEMMA Invariance ==
    Spec => []Inv
  <1>1. Inv /\ [Next]_vars => Inv'
    BY TypePreserved, TimelyPreserved, CacheSoundPreserved, RepliesPreserved, PassedPreserved
    DEF Inv
  <1> QED BY <1>1, InitInv, PTL DEF Spec

\* Types of the state, in every reachable state.
THEOREM TypeCorrect ==
    Spec => []TypeOK
  BY Invariance, PTL DEF Inv

\* No reply is past its time to live at the start of its query.
THEOREM NoStaleReplyHolds ==
    Spec => []NoStaleReply
  BY Invariance, PTL DEF Inv

\* No answer crosses a configuration reload.
THEOREM AnswersFromOwnServersHolds ==
    Spec => []AnswersFromOwnServers
  BY Invariance, PTL DEF Inv

\* A query is given up only once every server of its resolver has failed.
THEOREM GivesUpOnlyAfterFailuresHolds ==
    Spec => []GivesUpOnlyAfterFailures
  <1>1. Inv => GivesUpOnlyAfterFailures
    <2> SUFFICES ASSUME Inv, NEW g \in Goroutines, ex[g].pc = "failed",
                        NEW s \in ServersOf(ex[g].resolver)
                 PROVE  servers[ex[g].resolver][s].lastFail # Never
      BY DEF GivesUpOnlyAfterFailures
    <2>1. ex[g] # Idle
      BY DEF Idle
    <2> QED BY <2>1 DEF Inv, PassedFailed, Passed
  <1> QED BY <1>1, Invariance, PTL
=============================================================================
