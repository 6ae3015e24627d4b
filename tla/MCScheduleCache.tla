-------------------------- MODULE MCScheduleCache --------------------------
(* Two schedules and two callers: one may fill the cache while the other    *)
(* has missed.  What a schedule may say is a bedtime over midnight, a time  *)
(* for games in it, which contradicts it, or one for homework before it;    *)
(* which bundles are refused is what MergeSchedules makes of them.          *)
(*                                                                          *)
(* The windows are looked at over weeks of three days of three hours: every *)
(* pair of schedules with a rule for some days, overnight or not, blocking  *)
(* or allowing, and a few with dates.                                       *)
EXTENDS ScheduleEngine

CONSTANTS s1, s2, bedtime, gaming, homework, c1, c2

MCBundles == {{}, {s1}, {s2}, {s1, s2}}

Rule(days, start, end, action) ==
    [days |-> days, start |-> start, end |-> end, action |-> action, dates |-> <<>>]
OneRule(mode, rule) == [mode |-> mode, rules |-> <<rule>>]

\* What the three schedules say.
MCSays ==
    bedtime :> OneRule("downtime", Rule({0, 1, 2}, 2, 1, "block"))
    @@ gaming :> OneRule("whitelist", Rule({0}, 0, 1, "allow"))
    @@ homework :> OneRule("downtime", Rule({1}, 1, 2, "block"))
Contradict(a, b) == Conflicting(<<MCSays[a], MCSays[b]>>)
MCConflicts == {c \in {{a, b} : a, b \in Contents} :
                  \E a, b \in c : c = {a, b} /\ Contradict(a, b)}

WeeklyRules ==
    {Rule(days, start, end, action) : days \in SUBSET (0 .. WeekLength - 1) \ {{}},
        start, end \in 0 .. DayLength - 1, action \in {"allow", "block"}}
DatedRules ==
    {[Rule({}, start, end, action) EXCEPT !.dates = <<2, until>>] :
        start \in {0, 1}, end \in {0, 2}, until \in {2, 3}, action \in {"allow", "block"}}
MCTimetables ==
    {OneRule(mode, rule) : mode \in {"downtime", "whitelist"},
        rule \in {r \in WeeklyRules \cup DatedRules : r.start # r.end}}
=============================================================================
