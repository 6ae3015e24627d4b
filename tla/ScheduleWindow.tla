--------------------------- MODULE ScheduleWindow ---------------------------
(* What a schedule says at a time: the evaluation of its rules, the next    *)
(* time it may change, which the engine sets its timer to, and the check    *)
(* that refuses schedules that contradict each other.                       *)
(*                                                                          *)
(* Times count minutes from the start of some week; the length of a day and *)
(* of a week are parameters.  All schedules are in one time zone without    *)
(* daylight saving, and a day is spelled the way both maps know ("mon").    *)
EXTENDS Integers, Sequences, SequencesExt, FiniteSets

CONSTANTS
    DayLength,      \* 1440 minutes
    WeekLength,     \* 7 days
    RuleActions,    \* what a rule may ask for: nothing validates it
    Timetables      \* the schedules that are looked at

(* A rule is a record [days, start, end, action, dates]: a set of weekdays, *)
(* two minutes of the day, and the first and last day of a calendar range,  *)
(* or <<>>.  validateScheduleRules refuses start = end, and no days without *)
(* dates.  A schedule is a record [mode, rules].                            *)
Minutes == 0 .. DayLength - 1
Rules == [days : SUBSET (0 .. WeekLength - 1), start : Minutes, end : Minutes,
          action : RuleActions, dates : {<<>>} \cup (Nat \X Nat)]

ASSUME WeekAssumption == DayLength \in Nat \ {0} /\ WeekLength \in Nat \ {0}
ASSUME TimetablesAssumption ==
    \A s \in Timetables : s.rules \in Seq({r \in Rules : r.start # r.end})

Day(t) == t \div DayLength
Weekday(t) == Day(t) % WeekLength
Minute(t) == t % DayLength

Dated(rule) == rule.dates # <<>>
Overnight(rule) == rule.end <= rule.start
Duration(rule) == rule.end - rule.start + IF Overnight(rule) THEN DayLength ELSE 0

\* The weekly rule of a day lasts into the next one if it ends before it starts.
InWeek(rule, t) ==
    \/ /\ ~Overnight(rule)
       /\ Weekday(t) \in rule.days
       /\ Minute(t) \in rule.start .. rule.end - 1
    \/ /\ Overnight(rule)
       /\ \/ Weekday(t) \in rule.days /\ Minute(t) >= rule.start
          \/ (Weekday(t) + WeekLength - 1) % WeekLength \in rule.days /\ Minute(t) < rule.end

\* A rule with dates ignores its weekdays and starts anew every day: what is
\* left of an overnight window after midnight does not match.
InDates(rule, t) ==
    /\ rule.dates[1] * DayLength <= t /\ t <= (rule.dates[2] + 1) * DayLength
    /\ rule.start # rule.end
    /\ Minute(t) >= rule.start
    /\ Overnight(rule) \/ Minute(t) < rule.end

Matches(rule, t) == IF Dated(rule) THEN InDates(rule, t) ELSE InWeek(rule, t)

Default(s) == IF s.mode = "whitelist" THEN "block" ELSE "allow"

\* The shortest window that matches decides, the first of several.
EvaluateSchedule(s, t) ==
    LET matching == {i \in DOMAIN s.rules : Matches(s.rules[i], t)}
        shortest == {i \in matching : \A j \in matching :
                        Duration(s.rules[i]) <= Duration(s.rules[j])}
        first == CHOOSE i \in shortest : \A j \in shortest : i <= j
    IN  IF matching = {} THEN Default(s) ELSE s.rules[first].action

\* Mutant of Boundaries: rules end with the day.
Boundaries_Starts(rule, day) == {day * DayLength + rule.start, (day + 1) * DayLength}

\* The minutes of a day at which a rule may begin or end, whatever its weekdays.
Boundaries(rule, day) ==
    IF Dated(rule) /\ day \notin rule.dates[1] .. rule.dates[2] + 1 THEN {}
    ELSE {day * DayLength + rule.start, day * DayLength + rule.end}

\* The first boundary of this day and a week, or the same time tomorrow.
NextStateChange(s, t) ==
    LET points == {p \in UNION {Boundaries(s.rules[i], Day(t) + k) :
                                   i \in DOMAIN s.rules, k \in 0 .. WeekLength} : p > t}
    IN  IF points = {} THEN t + DayLength
        ELSE CHOOSE p \in points : \A q \in points : p <= q

-----------------------------------------------------------------------------
\* Mutant of Project: Saturday's night ends with the week.
Project_Cut(rule) ==
    LET Segment(from, until) == [from |-> from, until |-> until, action |-> rule.action]
        start(d) == d * DayLength + rule.start
    IN  IF rule.start = rule.end THEN {}
        ELSE IF ~Overnight(rule)
        THEN {Segment(start(d), d * DayLength + rule.end) : d \in rule.days}
        ELSE {Segment(start(d), (d + 1) * DayLength + rule.end) : d \in rule.days}

\* ProjectSchedule: the part of the week a rule covers, by its weekdays only;
\* an overnight window is cut at midnight.
Project(rule) ==
    LET Segment(from, until) == [from |-> from, until |-> until, action |-> rule.action]
        next(d) == (d + 1) % WeekLength
    IN  IF rule.start = rule.end THEN {}
        ELSE IF ~Overnight(rule)
        THEN {Segment(d * DayLength + rule.start, d * DayLength + rule.end) : d \in rule.days}
        ELSE {Segment(d * DayLength + rule.start, (d + 1) * DayLength) : d \in rule.days}
               \cup {Segment(next(d) * DayLength, next(d) * DayLength + rule.end) : d \in rule.days}

Segments(bundle) ==
    UNION {UNION {Project(bundle[i].rules[j]) : j \in DOMAIN bundle[i].rules} :
              i \in DOMAIN bundle}

\* MergeSchedules refuses a bundle two segments of which overlap and disagree.
Conflicting(bundle) ==
    \E a, b \in Segments(bundle) :
        a.action # b.action /\ a.from < b.until /\ b.from < a.until

\* One schedule with all the rules: a whitelist if one of them is, or if any
\* rule allows.
Merge(bundle) ==
    LET rules == FlattenSeq([i \in DOMAIN bundle |-> bundle[i].rules]) IN
    [mode |-> IF \/ \E i \in DOMAIN bundle : bundle[i].mode = "whitelist"
                 \/ \E j \in DOMAIN rules : rules[j].action = "allow"
              THEN "whitelist" ELSE "downtime",
     rules |-> rules]

-----------------------------------------------------------------------------
(* What the run schedule_cache checks of every pair of schedules           *)

\* Two weeks from the second day on, so that the day before is there.
Horizon == DayLength .. (2 * WeekLength + 1) * DayLength - 1
Bundles2 == {<<a, b>> : a, b \in Timetables}
Weekly(s) == \A i \in DOMAIN s.rules : ~Dated(s.rules[i])

\* A weekly window, as a parent reads it: it opened at its start on one of its
\* days and has not lasted its duration yet.
Open(rule, t) == \E k \in 0 .. Duration(rule) - 1 :
    k <= t /\ Minute(t - k) = rule.start /\ Weekday(t - k) \in rule.days

\* The element of a set that has one.
Only(S) == IF Cardinality(S) = 1 THEN CHOOSE x \in S : TRUE ELSE "several"

\* Weekly schedules that may be attached together.
Attachable(b) == (\A i \in DOMAIN b : Weekly(b[i])) /\ ~Conflicting(b)

\* Whatever windows are open have one action, and the schedule has it.
Unambiguous(s, t) ==
    LET openAt == {s.rules[i].action : i \in {j \in DOMAIN s.rules : Open(s.rules[j], t)}}
    IN  EvaluateSchedule(s, t) = IF openAt = {} THEN Default(s) ELSE Only(openAt)

\* The midnight that ends the last of the dates still belongs to them.
Lingers(rule, t) ==
    Dated(rule) /\ rule.start = 0 /\ t = (rule.dates[2] + 1) * DayLength

\* No window with dates runs over midnight or is about to end for that reason.
Settled(s, t) ==
    \A i \in DOMAIN s.rules :
        ~(Dated(s.rules[i]) /\ Overnight(s.rules[i])) /\ ~Lingers(s.rules[i], t)

Timely(s, t) ==
    \A later \in t .. NextStateChange(s, t) - 1 :
        EvaluateSchedule(s, later) = EvaluateSchedule(s, t)

\* Weekly schedules that may be attached together never contradict each other,
\* over midnight and the end of the week, in whatever order the policy names them.
AllUnambiguous ==
    \A b \in Bundles2 : Attachable(b) =>
        LET merged == Merge(b) IN \A t \in Horizon : Unambiguous(merged, t)

\* Nothing changes before the timer goes off, except that a window with dates
\* that runs over midnight ends there, and that one that starts at midnight is
\* open for an instant after its last day.
AllTimely ==
    \A b \in Bundles2 :
        LET merged == Merge(b) IN
        \A t \in Horizon : Settled(merged, t) => Timely(merged, t)
=============================================================================
