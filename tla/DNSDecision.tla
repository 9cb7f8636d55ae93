------------------------------ MODULE DNSDecision ------------------------------
(***************************************************************************)
(* What dnsHandler (internal/proxy/proxy.go) does with one question: the   *)
(* rules engine, the client's device and user, the user's allow windows,   *)
(* the budget, the user's domain rules, and the answer, while SIGHUP may   *)
(* replace the configuration (internal/system/system.go) between any two   *)
(* of these steps.                                                         *)
(*                                                                         *)
(* in holds everything the request reads and this module does not change:  *)
(* the question, the time, the policy data and the configuration files     *)
(* boot and file.  The refresh of the policy runtime is PolicyRuntime's    *)
(* subject and the budget Accounting's; here any answer of theirs is       *)
(* possible.                                                               *)
(***************************************************************************)
EXTENDS RulesEngine, FiniteSets

UserRules == [user : STRING, pattern : Text, action : STRING]

CONSTANT Inputs    \* a sequence of sets of inputs

ASSUME InputsAssumption ==
    \A k \in DOMAIN Inputs : \A x \in Inputs[k] :
        /\ x.boot \in Configs /\ x.file \in Configs
        /\ x.domain \in Text /\ x.client \in Text /\ x.name \in Text
        /\ x.now \in 0..(Week - 1)
        /\ \A u \in x.users : u.windows \in Seq(SpanTexts)
        /\ x.rules \in Seq(UserRules)

VARIABLES
    in,         \* what the request and the reload find
    engine,     \* the configuration of the current rules engine
    config,     \* the configuration of the system
    log,        \* the performance log: "open" or "closed"
    stage,      \* where dnsHandler is
    action,     \* its variables: the action, ...
    user,       \* ... the user found, NoUser if none
    reason,     \* ... the block reason
    charged,    \* ... whether ProcessRequest was called
    reply       \* what was written to the client

vars == <<in, engine, config, log, stage, action, user, reason, charged, reply>>
request == <<stage, action, user, reason, charged, reply>>

NoUser == [found |-> FALSE]
\* The User{} that Compile makes for a device whose owner does not exist.
ZeroUser == [found |-> TRUE, id |-> "", budget |-> 0, windows |-> <<>>]

IsBlocking(a) == a \in BlockingActions

Init ==
    /\ \E k \in DOMAIN Inputs : in \in Inputs[k]
    /\ Validate(WithDefaults(in.boot))
    /\ engine = WithDefaults(in.boot)
    /\ config = WithDefaults(in.boot)
    /\ log = "open"
    /\ stage = "evaluate"
    /\ action = None
    /\ user = NoUser
    /\ reason = "none"
    /\ charged = FALSE
    /\ reply = "none"

-----------------------------------------------------------------------------
\* Reload: SIGHUP.  The file is read, completed and validated before anything
\* is replaced; the local resolver keeps the configuration of the boot.

\* Mutant: the rules engine is in place before the old log is closed.
LogStaysClosedSwapped ==
    /\ Validate(WithDefaults(in.file))
    /\ in.file.logfile # config.logfile
    /\ log' = "closed"
    /\ engine' = WithDefaults(in.file)
    /\ UNCHANGED <<in, config, request>>

\* Closing the old log fails: the reload is given up, the log is gone.
LogStaysClosed ==
    /\ Validate(WithDefaults(in.file))
    /\ in.file.logfile # config.logfile
    /\ log' = "closed"
    /\ UNCHANGED <<in, engine, config, request>>

\* The new log cannot be opened: log.Panic ends the process.
LogCannotOpen ==
    /\ Validate(WithDefaults(in.file))
    /\ in.file.logfile # config.logfile /\ log = "open"
    /\ stage' = "crashed"
    /\ log' = "closed"
    /\ UNCHANGED <<in, engine, config, action, user, reason, charged, reply>>

\* A log that was closed by a failed reload cannot be closed again.
ReloadConfig ==
    /\ Validate(WithDefaults(in.file))
    /\ in.file.logfile # config.logfile => log = "open"
    /\ engine' = WithDefaults(in.file)
    /\ config' = WithDefaults(in.file)
    /\ UNCHANGED <<in, log, request>>

-----------------------------------------------------------------------------
\* Compile keys the devices by address: of several devices with one address
\* the map keeps any.  An owner that does not exist becomes the zero user.
DevicesAt(ip) == {d \in in.devices : d.ip = ip}
UserOf(device) ==
    IF device.user = "" THEN NoUser
    ELSE IF \E u \in in.users : u.id = device.user
    THEN CHOOSE u \in in.users : u.id = device.user
    ELSE ZeroUser

\* Mutant: a user without windows is never inside one.
InAllowWindowStrict(u) == \E i \in DOMAIN u.windows : InTimeSpan(u.windows[i], in.now)

InAllowWindow(u) ==
    \/ u.windows = <<>>
    \/ \E i \in DOMAIN u.windows : InTimeSpan(u.windows[i], in.now)

Score(rule) == 2 * Len(rule.pattern) - Wildcards(rule.pattern)

\* The rule of the highest score that matches, of equals the first.
MatchDomainRule(id) ==
    LET rules == {i \in DOMAIN in.rules :
                    /\ in.rules[i].user = id /\ id # ""
                    /\ WildcardPatternMatch(in.domain, in.rules[i].pattern)}
        best == {i \in rules : \A j \in rules : Score(in.rules[j]) <= Score(in.rules[i])}
    IN  IF best = {} THEN [found |-> FALSE] ELSE [found |-> TRUE, rule |-> in.rules[Min(best)]]

EvaluateStep ==
    /\ stage = "evaluate"
    /\ action' = Evaluate(engine, in.domain, in.client, in.name, in.now).action
    /\ stage' = "device"
    /\ UNCHANGED <<in, engine, config, log, user, reason, charged, reply>>

\* MatchDevice and MatchUser.
FindUser ==
    /\ stage = "device"
    /\ \/ /\ DevicesAt(in.client) = {}
          /\ user' = NoUser
       \/ \E d \in DevicesAt(in.client) : user' = UserOf(d)
    /\ stage' = IF user' = NoUser THEN "answer" ELSE "window"
    /\ UNCHANGED <<in, engine, config, log, action, reason, charged, reply>>

CheckWindow ==
    /\ stage = "window"
    /\ stage' = "budget"
    /\ action' = IF InAllowWindow(user) THEN action ELSE "BlockedTimeSpan"
    /\ reason' = IF InAllowWindow(user) THEN reason ELSE "outside window"
    /\ UNCHANGED <<in, engine, config, log, user, charged, reply>>

\* A request that is blocked already is not charged.  ProcessRequest blocks
\* only a user who has a budget; when it fails its answer is not used.
ChargeBudget ==
    /\ stage = "budget"
    /\ stage' = "rule"
    /\ charged' = ~IsBlocking(action)
    /\ \/ UNCHANGED <<action, reason>>
       \/ /\ ~IsBlocking(action)
          /\ user.budget > 0
          /\ action' = "BlockedTimeSpan"
          /\ reason' = "budget exceeded"
    /\ UNCHANGED <<in, engine, config, log, user, reply>>

DomainAction(rule) ==
    IF rule.action = "block" THEN "BlockedSiteBan"
    ELSE IF rule.action = "allow" THEN "Pass" ELSE action

\* Mutant: a rule of the user decides whatever came before it.
ApplyDomainRuleAlways ==
    /\ stage = "rule"
    /\ stage' = "answer"
    /\ LET match == MatchDomainRule(user.id)
       IN  IF match.found
           THEN /\ action' = DomainAction(match.rule)
                /\ reason' = IF match.rule.action = "block" THEN "policy block" ELSE reason
           ELSE UNCHANGED <<action, reason>>
    /\ UNCHANGED <<in, engine, config, log, user, charged, reply>>

\* An action that is neither block nor allow changes nothing.
ApplyDomainRule ==
    /\ stage = "rule"
    /\ stage' = "answer"
    /\ LET match == MatchDomainRule(user.id)
       IN  IF ~IsBlocking(action) /\ match.found
           THEN /\ action' = DomainAction(match.rule)
                /\ reason' = IF match.rule.action = "block" THEN "policy block" ELSE reason
           ELSE UNCHANGED <<action, reason>>
    /\ UNCHANGED <<in, engine, config, log, user, charged, reply>>

\* buildBlockedResponse.
BlockedResponse(conf) ==
    LET ipv4 == IF Sinkhole4(conf) # "" THEN Sinkhole4(conf)
                ELSE IF conf.strategy = "sinkhole" /\ in.serverIP # "" THEN in.serverIP
                ELSE "0.0.0.0"
        ipv6 == IF Sinkhole6(conf) # "" THEN Sinkhole6(conf) ELSE "::"
    IN  IF conf.strategy = "nxdomain" THEN "NXDOMAIN"
        ELSE IF conf.strategy = "refuse" THEN "REFUSED"
        ELSE CASE in.qtype = "A" -> ipv4
               [] in.qtype = "AAAA" -> ipv6
               [] OTHER -> "NXDOMAIN"

\* Mutant: the reason found on the way is forgotten.
AnswerBlockedByConfig ==
    /\ stage = "answer"
    /\ IsBlocking(action)
    /\ reason' = "config block"
    /\ reply' = BlockedResponse(config)
    /\ stage' = "done"
    /\ UNCHANGED <<in, engine, config, log, action, user, charged>>

\* The blocked answer follows the system's configuration of this moment.
AnswerBlocked ==
    /\ stage = "answer"
    /\ IsBlocking(action)
    /\ reason' = IF reason = "none" THEN "config block" ELSE reason
    /\ reply' = BlockedResponse(config)
    /\ stage' = "done"
    /\ UNCHANGED <<in, engine, config, log, action, user, charged>>

\* Resolve: the list of the configuration, then the names of the cache.
LocalAddress ==
    LET i == SelectInSeq(in.boot.resolve, LAMBDA r : WildcardPatternMatch(in.domain, r.name))
    IN  IF i # 0 THEN in.boot.resolve[i].ip
        ELSE IF in.domain \in DOMAIN in.cache THEN in.cache[in.domain] ELSE ""

\* Anything but a blocking action is answered, None too.
AnswerOpen ==
    /\ stage = "answer"
    /\ ~IsBlocking(action)
    /\ reply' = IF LocalAddress # "" THEN LocalAddress ELSE "upstream"
    /\ stage' = "done"
    /\ UNCHANGED <<in, engine, config, log, action, user, reason, charged>>

Done == stage \in {"done", "crashed"} /\ UNCHANGED vars

Next ==
    \/ EvaluateStep \/ FindUser \/ CheckWindow \/ ChargeBudget \/ ApplyDomainRule
    \/ AnswerBlocked \/ AnswerOpen
    \/ stage # "crashed" /\ (ReloadConfig \/ LogStaysClosed \/ LogCannotOpen)
    \/ Done

Spec == Init /\ [][Next]_vars

-----------------------------------------------------------------------------
\* The table of WildcardPatternMatch finds a match exactly when the name can
\* be cut into the pieces the pattern asks for.
WildcardMatches ==
    stage = "evaluate" => \A i \in DOMAIN engine.domains :
        WildcardPatternMatch(in.domain, engine.domains[i].name)
            <=> Matches(in.domain, engine.domains[i].name)

Backwards(domains) ==
    Reverse([i \in DOMAIN domains |-> [domains[i] EXCEPT !.hosts = Reverse(@)]])
Reversed(conf) == [conf EXCEPT !.hosts = Reverse(@), !.domains = Backwards(@)]
DistinctNames(list) == \A i, j \in DOMAIN list : list[i].name = list[j].name => i = j
Unambiguous(conf) ==
    /\ DistinctNames(conf.hosts) /\ DistinctNames(conf.domains)
    /\ \A i \in DOMAIN conf.domains : DistinctNames(conf.domains[i].hosts)

\* The precedence is deterministic: the order in which hosts and domains of
\* different names stand in the configuration never changes the action.
OrderDoesNotMatter ==
    stage = "evaluate" /\ Unambiguous(engine) =>
        Evaluate(engine, in.domain, in.client, in.name, in.now)
            = Evaluate(Reversed(engine), in.domain, in.client, in.name, in.now)

Spans == UNION {Range(u.windows) : u \in in.users}

\* The spellings that only one of the two parsers takes.
OnlyForWindows(def) ==
    \/ def.opt = "unknown zone"
    \/ \E i \in DOMAIN def.days : \E t \in DOMAIN def.days[i] : def.days[i][t].spell = "alt"
OnlyForRules(def) ==
    \E i \in DOMAIN def.days : \E t \in DOMAIN def.days[i] :
        def.days[i][t].spell = "padded" /\ Len(def.days[i]) # 1

\* The allow windows and the time spans of rules are two implementations of
\* one language (timewindow.go:10 calls the syntax identical).  Inside a
\* window the rules engine has an error or another answer only for tues,
\* thurs and a zone that does not load; inside a span no window is closed
\* but for blanks inside a range of weekdays.
SpansAgree ==
    stage = "evaluate" => \A def \in Spans :
        LET rule == EvaluateTimeSpanBlock(def, "Pass", in.now)
        IN  /\ InTimeSpan(def, in.now) => rule.action = "Pass" \/ OnlyForWindows(def)
            /\ rule.action = "Pass" => InTimeSpan(def, in.now) \/ OnlyForRules(def)
            /\ rule.err => ~ParsePolicyTimeSpan(def).ok \/ OnlyForWindows(def)

\* A window is the stretch of the clock from its start to its end, without
\* the end minute unless it crosses midnight; a start equal to the end is an
\* empty window.  Counted around the clock from the start.
WindowIsAStretch ==
    stage = "evaluate" => \A def \in Spans :
        ParsePolicyTimeSpan(def).ok /\ def.days = <<>> =>
            LET at == Minute(In(in.now, IF def.opt = "zone" THEN "zone" ELSE "local"))
                after(m) == (m - def.start) % MinutesPerDay
            IN  InTimeSpan(def, in.now) <=>
                    \/ after(at) < after(def.end)
                    \/ def.start > def.end /\ at = def.end

RulesOf(conf) ==
    LET of(hosts) == UNION {Range(hosts[i].rules) : i \in DOMAIN hosts}
    IN  of(conf.hosts) \cup UNION {of(conf.domains[i].hosts) : i \in DOMAIN conf.domains}

\* A configuration that passed the validation fails in the rules engine for
\* three reasons only: the name of a weekday, a rule of the type
\* BlockedTimeSpan that has no time span, and a time span of blanks, which
\* the validation takes for none and the engine does not.
ValidatedRulesEvaluate ==
    stage = "evaluate" /\ Evaluate(engine, in.domain, in.client, in.name, in.now).err =>
        \E r \in RulesOf(engine) :
            \/ r.span = NoSpan /\ r.type = "BlockedTimeSpan"
            \/ r.span = BlankSpan
            \/ r.span \notin {NoSpan, BlankSpan} /\ ~RulesWeekdaysOk(r.span)

-----------------------------------------------------------------------------
\* What the rules engine answers under the configurations the request may
\* have been evaluated with.
Verdicts ==
    {Evaluate(WithDefaults(c), in.domain, in.client, in.name, in.now).action :
        c \in {in.boot} \cup {f \in {in.file} : Validate(WithDefaults(f))}}

\* Nothing a user is allowed opens what the configuration blocks, whichever
\* configuration a reload during the request leaves in force.
ConfigBlockStands ==
    stage \in {"answer", "done"} /\ Verdicts \subseteq BlockingActions => IsBlocking(action)

\* Mapping a device to a user who was deleted has no effect: Compile invents
\* a user for it, whom no window, budget or rule touches.
DanglingOwnerHarmless ==
    stage \in {"answer", "done"} /\ ~(\E u \in in.users : user = u) => action \in Verdicts

\* The reason that is logged is a reason that holds, only a blocked request
\* has one, and only a request that rules and windows let through counts
\* against the budget.
ReasonHolds ==
    stage = "done" =>
        /\ reason = "none" <=> ~IsBlocking(action)
        /\ CASE reason = "none" -> charged <=> user # NoUser
             [] reason = "config block" ->
                  action \in Verdicts /\ ~charged /\ (user # NoUser => InAllowWindow(user))
             [] reason = "outside window" -> ~InAllowWindow(user) /\ ~charged
             [] reason = "budget exceeded" -> user.budget > 0 /\ charged /\ InAllowWindow(user)
             [] reason = "policy block" ->
                  /\ charged /\ InAllowWindow(user)
                  /\ \E i \in DOMAIN in.rules :
                       /\ in.rules[i].user = user.id /\ in.rules[i].action = "block"
                       /\ Matches(in.domain, in.rules[i].pattern)

\* A blocked question is answered by an error code or by an address that
\* parses, never by the upstream, although the strategy may have changed
\* since the action was chosen.
BlockedAnswerIsClosed ==
    stage = "done" /\ IsBlocking(action) =>
        reply \in {"NXDOMAIN", "REFUSED"} \/ ParsesAsIP(reply)

\* A reload that fails half way leaves a rules engine and a configuration
\* that belong together and have been validated.
EngineFollowsConfig == engine = config /\ Validate(config)
=============================================================================
