------------------------------ MODULE MCDecision ------------------------------
(***************************************************************************)
(* DNSDecision on families of inputs: patterns of domains and of hosts,    *)
(* time spans of rules and of users, policy data and reloads.              *)
(***************************************************************************)
EXTENDS DNSDecision

a == 97
b == 98
AnyHost == <<Star>>

Rule(type, span) == [type |-> type, span |-> span]
HostOf(name, rules) == [name |-> name, rules |-> rules]
DomainOf(name, rules) == [name |-> name, hosts |-> <<HostOf(AnyHost, rules)>>]
BlockRule == Rule("BlockedSiteBan", NoSpan)
PassRule == Rule("Pass", NoSpan)

BaseConf ==
    [complete |-> TRUE, logfile |-> "l1", hosts |-> <<>>, domains |-> <<>>,
     defaultRule |-> "Pass", onErrorRule |-> "BlockedDevice", resolve |-> <<>>,
     strategy |-> "", sink4 |-> "", sink6 |-> "", block4 |-> "", block6 |-> ""]

NoFile == [BaseConf EXCEPT !.complete = FALSE]

Strings(alphabet, n) == UNION {[1..k -> alphabet] : k \in 1..n}

\* Two domains, one blocked and one passed, beside a host rule for the name
\* of the device.
PatternConfs ==
    {[BaseConf EXCEPT
        !.domains = <<DomainOf(p, <<BlockRule>>), DomainOf(q, <<PassRule>>)>>,
        !.hosts = <<HostOf(<<b>>, <<Rule("None", NoSpan)>>), HostOf(<<a, a>>, <<>>)>>] :
            p \in Strings({a, b, Star, Question}, 3),
            q \in {<<a, Star>>, <<Star, a>>, <<a, Question>>, <<a, a, b>>}}

\* Two hosts, one blocked and one passed, of the configuration or of one
\* domain, and a name that is resolved locally.
HostConfs ==
    LET pairs == {<<HostOf(p, <<BlockRule>>), HostOf(q, <<PassRule>>)>> :
                    p \in {AnyHost, <<a, a>>, <<a, Star>>, <<b>>},
                    q \in {<<Star, a>>, <<a, Question>>, <<a, a, a>>}}
        local == [BaseConf EXCEPT !.resolve = <<[name |-> <<a, Star>>, ip |-> "10.0.0.9"]>>]
    IN  {[local EXCEPT !.hosts = pair] : pair \in pairs}
            \cup {[local EXCEPT !.domains = <<[name |-> <<Star>>, hosts |-> pair]>>] : pair \in pairs}

Tok(day, spell) == [day |-> day, spell |-> spell]
DayLists ==
    {<<>>, <<<<Tok(1, "plain")>>>>, <<<<Tok(2, "alt")>>>>, <<<<Tok(3, "padded")>>>>,
     <<<<Tok(1, "plain"), Tok(5, "plain")>>>>, <<<<Tok(5, "padded"), Tok(1, "padded")>>>>,
     <<<<Tok(6, "plain"), Tok(0, "plain")>>, <<Tok(3, "plain")>>>>, <<<<Tok(4, "bad")>>>>}
Definitions ==
    {[at |-> days # <<>>, days |-> days, start |-> s, end |-> e, opt |-> o] :
        days \in DayLists, s \in 0..(MinutesPerDay - 1), e \in 0..(MinutesPerDay - 1) \cup {Bad},
        o \in {"none", "zone", "unknown zone", "unknown option"}}

\* One rule for a time span, for none, or for one of blanks.
SpanConfs ==
    {[BaseConf EXCEPT !.hosts = <<HostOf(AnyHost, <<Rule("BlockedTimeSpan", def)>>)>>] :
        def \in {d \in Definitions : ValidateTimeSpan(d)} \cup {NoSpan}}
    \cup {[BaseConf EXCEPT !.hosts = <<HostOf(AnyHost, <<Rule(type, BlankSpan)>>)>>] :
              type \in {"BlockedTimeSpan", "Pass", "BlockedSiteBan"}}

Owner(budget, windows) == [found |-> TRUE, id |-> "u1", budget |-> budget, windows |-> windows]
Device(id, owner) == [id |-> id, ip |-> <<a, a>>, user |-> owner]
Night == [at |-> FALSE, days |-> <<>>, start |-> 2, end |-> 1, opt |-> "none"]
UserRule(p, act) == [user |-> "u1", pattern |-> p, action |-> act]

PolicyConfs ==
    {[BaseConf EXCEPT !.domains = <<DomainOf(<<a, Star>>, <<r>>)>>] :
        r \in {BlockRule, PassRule, Rule("None", NoSpan)}}

\* Strategies and addresses before and after a reload.
BlockConfs ==
    {[BaseConf EXCEPT !.domains = <<DomainOf(<<a>>, <<BlockRule>>)>>,
                      !.strategy = s, !.sink4 = x4, !.block6 = x6] :
        s \in {"", "nxdomain", "refuse", "sinkhole"}, x4 \in {"", "10.1.1.1", "not an IP"},
        x6 \in {"", "not an IP"}}
FileConfs ==
    {[BaseConf EXCEPT !.domains = <<DomainOf(<<a>>, <<r>>)>>,
                      !.strategy = s, !.sink6 = x6, !.logfile = l] :
        r \in {BlockRule, PassRule}, s \in {"", "refuse", "sinkhole", "unknown"},
        x6 \in {"", "fd00::1", "not an IP"}, l \in {"l1", "l2"}}

Family(boots, files, domains, names, times, qtypes, servers, devices, users, rules) ==
    [boot : boots, file : files, domain : domains, client : {<<a, a>>}, name : names,
     now : times, qtype : qtypes, devices : devices, users : users, rules : rules,
     serverIP : servers, cache : {[m \in {<<b>>} |-> "10.0.0.8"]}]

MCInputs ==
    <<Family(PatternConfs, {NoFile}, Strings({a, b}, 3), {NoName, <<b>>}, {0}, {"A"}, {""},
             {{}}, {{}}, {<<>>}),
      Family(HostConfs, {NoFile}, {<<a>>, <<b>>, <<b, b>>}, {NoName, <<b>>}, {0}, {"A"}, {""},
             {{}}, {{}}, {<<>>}),
      Family(SpanConfs, {NoFile}, {<<a>>}, {NoName}, 0..(Week - 1), {"A"}, {""}, {{}}, {{}}, {<<>>}),
      Family({BaseConf}, {NoFile}, {<<a>>}, {NoName}, 0..(Week - 1), {"A"}, {""},
             {{Device("d1", "u1")}}, {{Owner(0, <<def>>)} : def \in Definitions \cup {NoSpan, BlankSpan}}, {<<>>}),
      Family(PolicyConfs, {NoFile}, {<<a>>, <<a, b>>}, {NoName}, 0..(MinutesPerDay - 1), {"A"}, {""},
             {{}, {Device("d1", "u1")}, {Device("d1", "")}, {Device("d1", "gone")},
              {Device("d1", "u1"), Device("d2", "gone")}},
             {{Owner(n, w)} : n \in {0, 1}, w \in {<<>>, <<Night>>}},
             {<<>>, <<UserRule(<<a, Star>>, "allow"), UserRule(<<a>>, "block")>>,
              <<UserRule(<<a, Star>>, "block"), UserRule(<<Star, b>>, "allow")>>,
              <<UserRule(<<a, Star>>, "deny"), UserRule(<<a>>, "block")>>}),
      Family(BlockConfs, FileConfs, {<<a>>}, {NoName}, {0}, {"A", "AAAA", "MX"}, {"", "10.0.0.1"},
             {{}}, {{}}, {<<>>})>>
=============================================================================
