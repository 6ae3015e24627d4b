------------------------- MODULE ScheduleEvaluation -------------------------
(* What schedule.Engine.EvaluateBundle promises: an answer about a bundle  *)
(* of schedules is what the schedules mean at one moment of the call, as   *)
(* if nothing were cached.                                                 *)
EXTENDS FiniteSets

CONSTANTS
    Ids,        \* schedule IDs
    Contents,   \* what a schedule may say: its type and its weekly slots
    Absent,     \* stands for a schedule that does not exist
    Conflicts,  \* the sets of contents scheduleconflict.MergeSchedules refuses
    Bundles,    \* the sets of schedule IDs a policy may name
    Callers     \* goroutines that evaluate: the firewall loop, handlers, Run

ASSUME AbsentAssumption == Absent \notin Contents
ASSUME BundlesAssumption == {} \in Bundles /\ Bundles \subseteq SUBSET Ids

VARIABLES schedules, answer

\* A schedule of the bundle is missing, or the schedules contradict each other.
Unresolvable(b) ==
    \/ \E id \in b : schedules[id] = Absent
    \/ {schedules[id] : id \in b} \in Conflicts

\* The merged schedule, which MergeSchedules makes of the contents.
Merged(b) == [id \in b |-> schedules[id]]

Answer(b, kind, merged) == [bundle |-> b, kind |-> kind, merged |-> merged]

\* No schedule at all allows; what cannot be resolved fails closed.
Meaning(b) ==
    IF b = {} THEN Answer(b, "allow", <<>>)
    ELSE IF Unresolvable(b) THEN Answer(b, "block", <<>>)
    ELSE Answer(b, "schedule", Merged(b))

Init ==
    /\ schedules = [id \in Ids |-> Absent]
    /\ answer = [c \in Callers |-> Answer({}, "allow", <<>>)]

Store(id) ==
    /\ \E content \in Contents \cup {Absent} : schedules' = [schedules EXCEPT ![id] = content]
    /\ UNCHANGED answer

Evaluate(c, b) ==
    /\ answer' = [answer EXCEPT ![c] = Meaning(b)]
    /\ UNCHANGED schedules

Next ==
    \/ \E id \in Ids : Store(id)
    \/ \E c \in Callers, b \in Bundles : Evaluate(c, b)

Spec == Init /\ [][Next]_<<schedules, answer>>
=============================================================================
