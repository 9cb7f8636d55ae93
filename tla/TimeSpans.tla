------------------------------ MODULE TimeSpans ------------------------------
(***************************************************************************)
(* Time spans, parsed and evaluated twice: by the rules engine             *)
(* (internal/rules/rulesengine.go) and for the allow windows of users      *)
(* (internal/policy/timewindow.go), and checked before by the validation   *)
(* of the configuration (internal/config/validate.go).                     *)
(*                                                                         *)
(* The two packages share no code, and nothing below the definitions is    *)
(* shared here: each parser, each list of weekdays and each comparison is  *)
(* translated from its own lines.                                          *)
(*                                                                         *)
(* A definition "days@start-end|opt" is a record of its parts: at tells    *)
(* whether there is an '@', days is the list of weekdays and ranges before *)
(* it (one or two tokens each), start and end are minutes or Bad, opt is   *)
(* what follows the '|'.  A token is a day and its spelling: "plain" (mon, *)
(* monday), "alt" (tues, thurs), "padded" (a blank that does not touch the *)
(* comma or the '@' when it is in a range: "mon - fri") or "bad".          *)
(***************************************************************************)
EXTENDS Integers, Sequences

CONSTANTS
    MinutesPerDay,
    ZoneShift       \* minutes between local time and the zone "zone"

ASSUME MinutesAssumption == MinutesPerDay \in Nat \ {0} /\ ZoneShift \in Nat

Bad == -1
Week == 7 * MinutesPerDay
Tokens == [day : 0..6, spell : {"plain", "alt", "padded", "bad"}]
DayParts == {part \in Seq(Tokens) : Len(part) \in {1, 2}}
SpanDefs ==
    [at : BOOLEAN, days : Seq(DayParts),
     start : {Bad} \cup 0..(MinutesPerDay - 1), end : {Bad} \cup 0..(MinutesPerDay - 1),
     opt : {"none", "zone", "unknown zone", "unknown option"}]

\* The empty string, and one of blanks only.
NoSpan == [text |-> "empty"]
BlankSpan == [text |-> "blanks"]
SpanTexts == SpanDefs \cup {NoSpan, BlankSpan}

ParseError == [ok |-> FALSE]

\* What the clock of a zone shows; now is a minute of the week in local time.
In(now, loc) == IF loc = "zone" THEN (now + ZoneShift) % Week ELSE now
Weekday(now) == now \div MinutesPerDay
Minute(now) == now % MinutesPerDay

-----------------------------------------------------------------------------
(* The rules engine.                                                       *)

\* parseWeekday trims the token it is given.
RulesWeekday(token) == token.spell \in {"plain", "padded"}

RulesWeekdaysOk(def) ==
    \A i \in DOMAIN def.days : \A t \in DOMAIN def.days[i] : RulesWeekday(def.days[i][t])

\* A range runs forward to its last day, over the end of the week.
RulesWeekdays(def) ==
    UNION {{d \in 0..6 : (d - part[1].day) % 7 <= (part[Len(part)].day - part[1].day) % 7} :
              part \in {def.days[i] : i \in DOMAIN def.days}}

\* An unknown time zone is an error, an unknown option is not.
ParseTimeSpan(def) ==
    IF /\ def \notin {NoSpan, BlankSpan}
       /\ def.start # Bad /\ def.end # Bad
       /\ def.opt # "unknown zone"
       /\ RulesWeekdaysOk(def)
    THEN [ok |-> TRUE, start |-> def.start, end |-> def.end,
          crossMidnight |-> def.start > def.end, weekdays |-> RulesWeekdays(def),
          loc |-> IF def.opt = "zone" THEN "zone" ELSE "local"]
    ELSE ParseError

\* Mutant: the end minute belongs to every span.
EvaluateToTheEnd(def, action, now) ==
    LET ts == ParseTimeSpan(def)
        current == Minute(In(now, ts.loc))
        inside == /\ ts.weekdays # {} => Weekday(In(now, ts.loc)) \in ts.weekdays
                  /\ IF ts.crossMidnight
                     THEN current >= ts.start \/ current <= ts.end
                     ELSE current >= ts.start /\ current <= ts.end
    IN  [err |-> ~ts.ok, action |-> IF ts.ok /\ inside THEN action ELSE "None"]

\* evaluateTimeSpanBlock: the rule's action inside the span, None outside.
EvaluateTimeSpanBlock(def, action, now) ==
    LET ts == ParseTimeSpan(def)
        current == Minute(In(now, ts.loc))
        inside == /\ ts.weekdays # {} => Weekday(In(now, ts.loc)) \in ts.weekdays
                  /\ IF ts.crossMidnight
                     THEN current >= ts.start \/ current <= ts.end
                     ELSE current >= ts.start /\ current < ts.end
    IN  [err |-> ~ts.ok, action |-> IF ts.ok /\ inside THEN action ELSE "None"]

-----------------------------------------------------------------------------
(* The allow windows of the policy.                                        *)

\* parseWeekday does not trim and knows tues and thurs; parseWeekdays trims a
\* weekday that stands alone.
PolicyWeekday(token, alone) ==
    token.spell \in {"plain", "alt"} \/ (token.spell = "padded" /\ alone)

PolicyWeekdaysOk(def) ==
    \A i \in DOMAIN def.days : \A t \in DOMAIN def.days[i] :
        PolicyWeekday(def.days[i][t], Len(def.days[i]) = 1)

\* From the first day of a range on, until the last is reached.
PolicyWeekdays(def) ==
    UNION {{(part[1].day + k) % 7 : k \in 0..((part[Len(part)].day - part[1].day) % 7)} :
              part \in {def.days[i] : i \in DOMAIN def.days}}

\* A time zone that does not load is ignored, as is an unknown option.
ParsePolicyTimeSpan(def) ==
    IF /\ def \notin {NoSpan, BlankSpan}
       /\ def.start # Bad /\ def.end # Bad
       /\ PolicyWeekdaysOk(def)
    THEN [ok |-> TRUE, start |-> def.start, end |-> def.end,
          crossMidnight |-> def.start > def.end, weekdays |-> PolicyWeekdays(def),
          loc |-> IF def.opt = "zone" THEN "zone" ELSE "local"]
    ELSE ParseError

\* Mutant: a window across midnight needs both ends.
InTimeSpanBoth(def, now) ==
    LET ts == ParsePolicyTimeSpan(def)
        current == In(now, ts.loc)
        cur == Minute(current)
    IN  /\ ts.ok
        /\ ts.weekdays = {} \/ Weekday(current) \in ts.weekdays
        /\ cur >= ts.start /\ cur < ts.end

InTimeSpan(def, now) ==
    LET ts == ParsePolicyTimeSpan(def)
        current == In(now, ts.loc)
        cur == Minute(current)
    IN  /\ ts.ok
        /\ ts.weekdays = {} \/ Weekday(current) \in ts.weekdays
        /\ \/ ts.crossMidnight /\ (cur >= ts.start \/ cur <= ts.end)
           \/ ~ts.crossMidnight /\ cur >= ts.start /\ cur < ts.end

-----------------------------------------------------------------------------
(* The validation of the configuration.                                    *)

\* Mutant: the time zone is taken as it is.
ValidateAnyZone(def) ==
    /\ def.at => def.days # <<>>
    /\ def.start # Bad /\ def.end # Bad
    /\ def.start # def.end
    /\ def.opt # "unknown option"

\* The names of the weekdays are not looked at.
ValidateTimeSpan(def) ==
    /\ def.at => def.days # <<>>
    /\ def.start # Bad /\ def.end # Bad
    /\ def.start # def.end
    /\ def.opt \notin {"unknown zone", "unknown option"}
=============================================================================
