--------------------------- MODULE ScheduleEngine ---------------------------
(* schedule.Engine as a whole: the answers of the cache are merged bundles, *)
(* and what a merged bundle says at a time is worked out by its windows.    *)
EXTENDS ScheduleCache, ScheduleWindow

CONSTANT Says   \* the timetable that is the content of a schedule

\* A policy names its schedules in any order; the first that is merged is cached.
Orders(b) == {order \in [1 .. Cardinality(b) -> b] : {order[i] : i \in DOMAIN order} = b}
InOrder(merged, order) == [i \in DOMAIN order |-> Says[merged[order[i]]]]

ASSUME FiniteAssumption == \A b \in Bundles : IsFiniteSet(b)
ASSUME SaysAssumption == Says \in [Contents -> Timetables]

\* EvaluateBundle refuses what MergeSchedules refuses.
ASSUME ConflictsAssumption ==
    \A b \in Bundles : \A merged \in [b -> Contents] : \A order \in Orders(b) :
        Conflicting(InOrder(merged, order)) => {merged[id] : id \in b} \in Conflicts

\* All that EvaluateBundle could leave to the windows.
Merges == UNION {{[bundle |-> b, merged |-> merged] : merged \in [b -> Contents]} :
                    b \in Bundles \ {{}}}
OfAnswer(a) == [bundle |-> a.bundle, merged |-> a.merged]

\* Whatever windows are open, the merged schedule has their one action.
Plain(bundle) ==
    (\A i \in DOMAIN bundle : Weekly(bundle[i])) =>
        LET merged == Merge(bundle) IN \A t \in Horizon : Unambiguous(merged, t)

\* Nothing changes before the time that NextStateChange answers.
Steady(bundle) ==
    LET merged == Merge(bundle) IN
    \A t \in Horizon : Settled(merged, t) => Timely(merged, t)

PlainMerges == {m \in Merges : \A order \in Orders(m.bundle) : Plain(InOrder(m.merged, order))}
SteadyMerges == {m \in Merges : \A order \in Orders(m.bundle) : Steady(InOrder(m.merged, order))}

\* README.md:484, EvaluateBundle: whatever is stored and deleted between its two
\* locks, an answer that is left to the windows is one action, whichever windows
\* are open; and so it is for any two timetables that MergeSchedules accepts.
MergedIsUnambiguous ==
    /\ AllUnambiguous
    /\ \A c \in Callers : answer[c].kind = "schedule" => OfAnswer(answer[c]) \in PlainMerges

\* updateNextStateChanges: it stays that action until the timer goes off.
NothingChangesBefore ==
    /\ AllTimely
    /\ \A c \in Callers : answer[c].kind = "schedule" => OfAnswer(answer[c]) \in SteadyMerges
=============================================================================
