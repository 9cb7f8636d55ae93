------------------------------ MODULE RulesEngine ------------------------------
(***************************************************************************)
(* The rules engine (internal/rules/rulesengine.go) as operators over a    *)
(* configuration conf: hosts and domains with patterns, each with a list   *)
(* of rules [type, span].  name is what the device cache calls the host,   *)
(* NoName when it does not know the address or there is no cache.          *)
(***************************************************************************)
EXTENDS Wildcard, TimeSpans, SequencesExt

BlockingActions == {"BlockedDevice", "BlockedSiteBan", "BlockedTimeSpan"}
NoName == <<>>
None == "None"
Nothing == [none |-> TRUE]

\* What the configuration file is parsed into.
Rules == [type : STRING, span : SpanTexts]
Hosts == [name : Text, rules : Seq(Rules)]
Domains == [name : Text, hosts : Seq(Hosts)]
Configs ==
    [complete : BOOLEAN, logfile : STRING, hosts : Seq(Hosts), domains : Seq(Domains),
     defaultRule : STRING, onErrorRule : STRING, resolve : Seq([name : Text, ip : STRING]),
     strategy : STRING, sink4 : STRING, sink6 : STRING, block4 : STRING, block6 : STRING]

DomainMatch(domain, pattern) == WildcardPatternMatch(domain, pattern)

\* A host whose name is known is matched by its name, not by its address.
HostMatch(host, name, pattern) ==
    \/ host = pattern
    \/ WildcardPatternMatch(IF name # NoName THEN name ELSE host, pattern)

\* Go's order of strings.
StringLess(p, q) ==
    \E i \in DOMAIN q : /\ \A k \in 1..(i - 1) : k <= Len(p) /\ p[k] = q[k]
                        /\ i > Len(p) \/ p[i] < q[i]

ScorePattern(pattern, exact) ==
    [pattern |-> pattern, exact |-> exact,
     wildcards |-> Wildcards(pattern), length |-> Len(pattern)]

\* Mutant: patterns of one score keep the order of the configuration.
MoreSpecificUntied(a, b) ==
    IF a.exact # b.exact THEN a.exact
    ELSE IF a.wildcards # b.wildcards THEN a.wildcards < b.wildcards
    ELSE a.length > b.length

\* Exact before wildcards, then fewer wildcards, then longer, then by name.
MoreSpecific(a, b) ==
    IF a.exact # b.exact THEN a.exact
    ELSE IF a.wildcards # b.wildcards THEN a.wildcards < b.wildcards
    ELSE IF a.length # b.length THEN a.length > b.length
    ELSE StringLess(a.pattern, b.pattern)

\* The first of the stable sort of the entries that have a score: nothing is
\* before it, and of equals it is the one that came first.
First(list, score) ==
    LET best == {i \in DOMAIN score : \A j \in DOMAIN score : ~MoreSpecific(score[j], score[i])}
    IN  IF best = {} THEN Nothing ELSE list[Min(best)]

PickBestHost(host, name, hosts) ==
    LET found == {i \in DOMAIN hosts : HostMatch(host, name, hosts[i].name)}
        exact(i) == Wildcards(hosts[i].name) = 0 /\ host = hosts[i].name
    IN  First(hosts, [i \in found |-> ScorePattern(hosts[i].name, exact(i))])

PickBestDomain(domain, domains) ==
    LET found == {i \in DOMAIN domains : DomainMatch(domain, domains[i].name)}
    IN  First(domains, [i \in found |-> ScorePattern(domains[i].name, domain = domains[i].name)])

\* Any text but the empty one is evaluated, whatever the rule's type.  A rule
\* for a time span that has none is an error, as is a span that does not
\* parse.
EvaluateRule(rule, now) ==
    IF rule.span # NoSpan \/ rule.type = "BlockedTimeSpan"
    THEN EvaluateTimeSpanBlock(rule.span, rule.type, now)
    ELSE [err |-> FALSE, action |-> rule.type]

\* In order: the first rule that fails or answers something decides.
EvaluateRules(conf, rules, now) ==
    LET i == SelectInSeq(rules, LAMBDA r :
                 LET res == EvaluateRule(r, now) IN res.err \/ res.action # None)
    IN  IF i = 0 THEN [err |-> FALSE, action |-> None]
        ELSE IF EvaluateRule(rules[i], now).err THEN [err |-> TRUE, action |-> conf.onErrorRule]
        ELSE EvaluateRule(rules[i], now)

\* Host rules, then the rules of the domain's best host, whatever they say,
\* then the default.
Evaluate(conf, domain, host, name, now) ==
    LET bestHost == PickBestHost(host, name, conf.hosts)
        byHost == IF bestHost = Nothing THEN [err |-> FALSE, action |-> None]
                  ELSE EvaluateRules(conf, bestHost.rules, now)
        bestDomain == PickBestDomain(domain, conf.domains)
        domainHost == IF bestDomain = Nothing THEN Nothing
                      ELSE PickBestHost(host, name, bestDomain.hosts)
    IN  IF byHost.err \/ byHost.action # None THEN byHost
        ELSE IF domainHost # Nothing THEN EvaluateRules(conf, domainHost.rules, now)
        ELSE [err |-> FALSE, action |-> conf.defaultRule]

-----------------------------------------------------------------------------
\* Validation of a configuration (internal/config/validate.go).
ValidateAction(action, required) ==
    action \in BlockingActions \cup {"Pass"} \/ (action = None /\ ~required)

\* A span of blanks is taken for none.
ValidateRule(rule) ==
    /\ ValidateAction(rule.type, FALSE)
    /\ rule.span \notin {NoSpan, BlankSpan} => ValidateTimeSpan(rule.span)

ValidateHost(host) ==
    host.name # <<>> /\ \A i \in DOMAIN host.rules : ValidateRule(host.rules[i])

ValidateDomain(domain) ==
    domain.name # <<>> /\ \A i \in DOMAIN domain.hosts : ValidateHost(domain.hosts[i])

\* validateConfig fills in the defaults of fields that are not set.
WithDefaults(conf) ==
    [conf EXCEPT !.strategy = IF @ = "" THEN "nullroute" ELSE @,
                 !.block4 = IF @ = "" THEN "0.0.0.0" ELSE @,
                 !.block6 = IF @ = "" THEN "::" ELSE @]

Sinkhole4(conf) == IF conf.sink4 # "" THEN conf.sink4 ELSE conf.block4
Sinkhole6(conf) == IF conf.sink6 # "" THEN conf.sink6 ELSE conf.block6
ParsesAsIP(address) == address \notin {"", "not an IP", "upstream"}

\* Mutant: only the strategy sinkhole needs its addresses.
ValidateSinkholeOnly(conf) ==
    /\ conf.strategy \in {"nxdomain", "refuse", "nullroute", "sinkhole"}
    /\ conf.strategy = "sinkhole" =>
         ParsesAsIP(Sinkhole4(conf)) /\ ParsesAsIP(Sinkhole6(conf))

\* The strategies that answer with an address need one that parses.
ValidateBlockStrategy(conf) ==
    /\ conf.strategy \in {"nxdomain", "refuse", "nullroute", "sinkhole"}
    /\ conf.strategy \in {"nullroute", "sinkhole"} =>
         ParsesAsIP(Sinkhole4(conf)) /\ ParsesAsIP(Sinkhole6(conf))

\* What only has to be set, or to be a number that is not negative: the log
\* file, the address to listen at, the name servers, the router, the timeouts.
Complete(conf) == conf.complete

Validate(conf) ==
    /\ Complete(conf)
    /\ ValidateAction(conf.defaultRule, TRUE)
    /\ ValidateAction(conf.onErrorRule, TRUE)
    /\ \A i \in DOMAIN conf.hosts : ValidateHost(conf.hosts[i])
    /\ \A i \in DOMAIN conf.domains : ValidateDomain(conf.domains[i])
    /\ ValidateBlockStrategy(conf)
=============================================================================
