----------------------------- MODULE TempPolicy -----------------------------
(* Pause Internet and Extend Access: the handlers that put a temporary      *)
(* policy into policy.Engine, schedule.Engine and the database, the sweep   *)
(* loop of main that takes expired ones out again, and a restart, which     *)
(* hydrates the engines from the database.                                  *)
(*                                                                          *)
(* Every call of an engine or of the storage is a step of its own: each of  *)
(* them locks, none of the handlers does.  A tick of the clock is half a    *)
(* minute; no tick falls between two steps of one handler or one sweep.     *)
(* A request that its guards refuse (unknown device, infrastructure, kill   *)
(* switch, malformed body) changes nothing and is not modelled.             *)
EXTENDS Integers, FiniteSets

CONSTANTS
    Pauses,         \* pol_pause_<pdid>, a policy that names one schedule
    Extensions,     \* pol_extend_device_<pdid> and pol_extend_tag_<id>
    Handlers,       \* HTTP requests that can be served at a time
    Hour,           \* how long a pause lasts, in ticks
    Durations,      \* how long an extension may last
    MaxTime,        \* bound on the clock
    MaxPauses,      \* bound on the pauses ever requested
    StoreMayFail    \* whether a write to the database may fail

Minute == 2

ASSUME ConstantsAssumption ==
    /\ Hour \in Nat \ {0} /\ Hour % Minute = 0
    /\ Durations \subseteq Nat \ {0}
    /\ MaxTime \in Nat /\ MaxPauses \in Nat
    /\ StoreMayFail \in BOOLEAN
    /\ Pauses \cap Extensions = {}
    /\ Pauses \cup Extensions # {}

Names == Pauses \cup Extensions
Times == 0 .. MaxTime

\* time.Format("15:04") drops the seconds.
Truncate(t) == t - (t % Minute)

\* A pause schedule blocks from its minute for an hour; its ID is random.
Schedules == [id : 1 .. MaxPauses, from : Times]
NoSchedule == [id |-> 0, from |-> 0]

Policies == [expires : Nat, schedule : Schedules \cup {NoSchedule}]
NoPolicy == [expires |-> 0, schedule |-> NoSchedule]
\* What is left of a request that is done.
Done == [at |-> "done", name |-> CHOOSE n \in Names : TRUE, policy |-> NoPolicy]

VARIABLES
    now,            \* the clock, in ticks
    issued,         \* schedule IDs generated so far
    policies,       \* policy.Engine.policies: the temporary ones
    schedules,      \* schedule.Engine.schedules: the temporary ones
    savedPolicies,  \* the rows of table policies
    savedSchedules, \* the rows of table schedules
    request,        \* per handler: its next step and what it holds
    sweep           \* the sweep loop: what it has still to clean up

memory == <<policies, schedules>>
store == <<savedPolicies, savedSchedules>>
vars == <<now, issued, memory, store, request, sweep>>

Steps == {"done", "pause: save schedule", "pause: policy", "save policy",
          "unpause: policy", "unpause: unsave policy", "unpause: schedule",
          "unpause: unsave schedule", "cancel: policy", "cancel: unsave policy"}

Swept == [policies : SUBSET Names, schedules : SUBSET Schedules, unsave : SUBSET Schedules]
Idle == [policies |-> {}, schedules |-> {}, unsave |-> {}]

TypeOK ==
    /\ now \in Times
    /\ issued \in 0 .. MaxPauses
    /\ policies \in [Names -> Policies]
    /\ schedules \subseteq Schedules
    /\ savedPolicies \in [Names -> Policies]
    /\ savedSchedules \subseteq Schedules
    /\ request \in [Handlers -> [at : Steps, name : Names, policy : Policies]]
    /\ sweep \in Swept

Serving(h, step) == request[h].at = step
Goto(h, step) == request' = [request EXCEPT ![h].at = step]
Finish(h) == request' = [request EXCEPT ![h] = Done]
Quiet == sweep = Idle /\ \A h \in Handlers : Serving(h, "done")

\* The outcomes of a write to the database.
Written(old, new) == IF StoreMayFail THEN {old, new} ELSE {new}

-----------------------------------------------------------------------------
Init ==
    /\ now = 0
    /\ issued = 0
    /\ policies = [n \in Names |-> NoPolicy]
    /\ schedules = {}
    /\ savedPolicies = policies
    /\ savedSchedules = {}
    /\ request = [h \in Handlers |-> Done]
    /\ sweep = Idle

Tick ==
    /\ Quiet
    /\ now < MaxTime
    /\ now' = now + 1
    /\ UNCHANGED <<issued, memory, store, request, sweep>>

\* Mutant of PauseSchedule: the pause names the schedule of the pause before.
PauseSchedule_Reused(n) ==
    IF policies[n] = NoPolicy THEN [id |-> issued + 1, from |-> Truncate(now)]
                              ELSE policies[n].schedule

PauseSchedule(n) == [id |-> issued + 1, from |-> Truncate(now)]

\* PauseDeviceInternet: generate a schedule and give it to the engine ...
Pause(h, n) ==
    /\ Serving(h, "done")
    /\ issued < MaxPauses
    /\ issued' = issued + 1
    /\ LET s == PauseSchedule(n) IN
          /\ schedules' = schedules \cup {s}
          /\ request' = [request EXCEPT ![h] =
                [at |-> "pause: save schedule", name |-> n,
                 policy |-> [expires |-> now + Hour, schedule |-> s]]]
    /\ UNCHANGED <<now, policies, store, sweep>>

\* ... save it; an error is ignored ...
PauseSaveSchedule(h) ==
    /\ Serving(h, "pause: save schedule")
    /\ savedSchedules' \in
          Written(savedSchedules, savedSchedules \cup {request[h].policy.schedule})
    /\ Goto(h, "pause: policy")
    /\ UNCHANGED <<now, issued, memory, savedPolicies, sweep>>

\* ... and replace the policy.  SavePolicy comes next.
PausePolicy(h) ==
    /\ Serving(h, "pause: policy")
    /\ policies' = [policies EXCEPT ![request[h].name] = request[h].policy]
    /\ Goto(h, "save policy")
    /\ UNCHANGED <<now, issued, schedules, store, sweep>>

\* ExtendDeviceAccess and ExtendTagAccess: replace the policy.
Extend(h, n) ==
    /\ Serving(h, "done")
    /\ \E d \in Durations :
          LET p == [expires |-> now + d, schedule |-> NoSchedule] IN
             /\ policies' = [policies EXCEPT ![n] = p]
             /\ request' = [request EXCEPT ![h] =
                               [at |-> "save policy", name |-> n, policy |-> p]]
    /\ UNCHANGED <<now, issued, schedules, store, sweep>>

\* SavePolicy, the last step of both; on an error an extension answers 500 and
\* stays in force, a pause answers 202.
SavePolicy(h) ==
    /\ Serving(h, "save policy")
    /\ savedPolicies' \in Written(savedPolicies,
          [savedPolicies EXCEPT ![request[h].name] = request[h].policy])
    /\ Finish(h)
    /\ UNCHANGED <<now, issued, memory, savedSchedules, sweep>>

\* UnpauseDeviceInternet: read the policy, then delete whatever is there under
\* its name, then the schedule that was read.
Unpause(h, n) ==
    /\ Serving(h, "done")
    /\ policies[n] # NoPolicy
    /\ request' = [request EXCEPT ![h] =
                      [at |-> "unpause: policy", name |-> n, policy |-> policies[n]]]
    /\ UNCHANGED <<now, issued, memory, store, sweep>>

UnpausePolicy(h) ==
    /\ Serving(h, "unpause: policy")
    /\ policies' = [policies EXCEPT ![request[h].name] = NoPolicy]
    /\ Goto(h, "unpause: unsave policy")
    /\ UNCHANGED <<now, issued, schedules, store, sweep>>

UnpauseUnsavePolicy(h) ==
    /\ Serving(h, "unpause: unsave policy")
    /\ savedPolicies' \in
          Written(savedPolicies, [savedPolicies EXCEPT ![request[h].name] = NoPolicy])
    /\ Goto(h, "unpause: schedule")
    /\ UNCHANGED <<now, issued, memory, savedSchedules, sweep>>

UnpauseSchedule(h) ==
    /\ Serving(h, "unpause: schedule")
    /\ schedules' = schedules \ {request[h].policy.schedule}
    /\ Goto(h, "unpause: unsave schedule")
    /\ UNCHANGED <<now, issued, policies, store, sweep>>

UnpauseUnsaveSchedule(h) ==
    /\ Serving(h, "unpause: unsave schedule")
    /\ savedSchedules' \in Written(savedSchedules, savedSchedules \ {request[h].policy.schedule})
    /\ Finish(h)
    /\ UNCHANGED <<now, issued, memory, savedPolicies, sweep>>

\* CancelDeviceExtension and CancelTagExtension.
Cancel(h, n) ==
    /\ Serving(h, "done")
    /\ policies[n] # NoPolicy
    /\ request' = [request EXCEPT ![h] =
                      [at |-> "cancel: policy", name |-> n, policy |-> NoPolicy]]
    /\ UNCHANGED <<now, issued, memory, store, sweep>>

CancelPolicy(h) ==
    /\ Serving(h, "cancel: policy")
    /\ policies' = [policies EXCEPT ![request[h].name] = NoPolicy]
    /\ Goto(h, "cancel: unsave policy")
    /\ UNCHANGED <<now, issued, schedules, store, sweep>>

\* Mutant of CancelUnsavePolicy: the row is not deleted.
CancelUnsavePolicy_Forgotten(h) ==
    /\ Serving(h, "cancel: unsave policy")
    /\ Finish(h)
    /\ UNCHANGED <<now, issued, memory, store, sweep>>

CancelUnsavePolicy(h) ==
    /\ Serving(h, "cancel: unsave policy")
    /\ savedPolicies' \in
          Written(savedPolicies, [savedPolicies EXCEPT ![request[h].name] = NoPolicy])
    /\ Finish(h)
    /\ UNCHANGED <<now, issued, memory, savedSchedules, sweep>>

-----------------------------------------------------------------------------
\* time.Now().After(*p.ExpiresAt)
Expired(p) == p # NoPolicy /\ now > p.expires

\* Mutant of SweepExpired: it looks at the pauses only.
SweepExpired_PausesOnly ==
    LET expired == {n \in Pauses : Expired(policies[n])} IN
    /\ sweep = Idle
    /\ expired # {}
    /\ policies' = [n \in Names |-> IF n \in expired THEN NoPolicy ELSE policies[n]]
    /\ sweep' = [policies |-> expired, schedules |-> {policies[n].schedule : n \in expired},
                 unsave |-> {}]
    /\ UNCHANGED <<now, issued, schedules, store, request>>

\* The sweep loop of main: SweepExpired takes every expired policy out of the
\* engine at once and says which schedules they owned.
SweepExpired ==
    LET expired == {n \in Names : Expired(policies[n])} IN
    /\ sweep = Idle
    /\ expired # {}
    /\ policies' = [n \in Names |-> IF n \in expired THEN NoPolicy ELSE policies[n]]
    /\ sweep' = [policies |-> expired,
                 schedules |-> {policies[n].schedule : n \in expired} \ {NoSchedule},
                 unsave |-> {}]
    /\ UNCHANGED <<now, issued, schedules, store, request>>

\* First every row is deleted under its name, whatever it holds by now ...
SweepUnsavePolicy(n) ==
    /\ n \in sweep.policies
    /\ savedPolicies' \in Written(savedPolicies, [savedPolicies EXCEPT ![n] = NoPolicy])
    /\ sweep' = [sweep EXCEPT !.policies = @ \ {n}]
    /\ UNCHANGED <<now, issued, memory, savedSchedules, request>>

\* ... then every schedule, from the engine and from the database.
SweepSchedule(s) ==
    /\ sweep.policies = {}
    /\ sweep.unsave = {}
    /\ s \in sweep.schedules
    /\ schedules' = schedules \ {s}
    /\ sweep' = [sweep EXCEPT !.schedules = @ \ {s}, !.unsave = {s}]
    /\ UNCHANGED <<now, issued, policies, store, request>>

SweepUnsaveSchedule(s) ==
    /\ s \in sweep.unsave
    /\ savedSchedules' \in Written(savedSchedules, savedSchedules \ {s})
    /\ sweep' = [sweep EXCEPT !.unsave = {}]
    /\ UNCHANGED <<now, issued, memory, savedPolicies, request>>

\* The process dies and main starts again.  LoadHydrate loads the policies that
\* have not expired, deletes the rows of those that have and, for each of
\* them, the rows of ALL temporary schedules; then it loads the schedules.
Restart ==
    LET expired == {n \in Names : Expired(savedPolicies[n])} IN
    /\ savedPolicies' = [n \in Names |-> IF n \in expired THEN NoPolicy ELSE savedPolicies[n]]
    /\ savedSchedules' = IF expired = {} THEN savedSchedules ELSE {}
    /\ policies' = savedPolicies'
    /\ schedules' = savedSchedules'
    /\ request' = [h \in Handlers |-> Done]
    /\ sweep' = Idle
    /\ UNCHANGED <<now, issued>>

HandlerStep(h) ==
    \/ PauseSaveSchedule(h) \/ PausePolicy(h) \/ SavePolicy(h)
    \/ UnpausePolicy(h) \/ UnpauseUnsavePolicy(h)
    \/ UnpauseSchedule(h) \/ UnpauseUnsaveSchedule(h)
    \/ CancelPolicy(h) \/ CancelUnsavePolicy(h)

SweepStep ==
    \/ SweepExpired
    \/ \E n \in Names : SweepUnsavePolicy(n)
    \/ \E s \in Schedules : SweepSchedule(s) \/ SweepUnsaveSchedule(s)

Next ==
    \/ Tick
    \/ \E h \in Handlers :
          \/ \E n \in Pauses : Pause(h, n) \/ Unpause(h, n)
          \/ \E n \in Extensions : Extend(h, n) \/ Cancel(h, n)
          \/ HandlerStep(h)
    \/ SweepStep
    \/ Restart

\* Handlers run to their end and the sweep loop ticks every 15 seconds.
Spec ==
    /\ Init /\ [][Next]_vars
    /\ \A h \in Handlers : WF_vars(HandlerStep(h))
    /\ WF_vars(SweepStep)

-----------------------------------------------------------------------------
(* Properties                                                              *)

\* What EvaluateBundle answers for the schedule of a pause: a schedule that is
\* missing fails closed, one that has run out allows.
PauseAction(n) ==
    IF policies[n].schedule \notin schedules THEN "block"
    ELSE IF now < policies[n].schedule.from + Hour THEN "block"
    ELSE "allow"

\* A pause blocks until the minute of its end has begun, whatever other
\* requests, sweeps, restarts and lost writes have done to its schedule.
PauseBlocks ==
    \A n \in Pauses :
        policies[n] # NoPolicy /\ now < Truncate(policies[n].expires) => PauseAction(n) = "block"

\* With one request at a time, no policy is left in the database that the
\* engine has given up: nothing that was cancelled or swept returns with the
\* next restart.
NothingReturns ==
    Quiet => \A n \in Names : savedPolicies[n] # NoPolicy => savedPolicies[n] = policies[n]

\* Every temporary policy that has expired is taken out of the engine and out
\* of the database, also when a restart comes between the two.
ExpiredIsRemoved ==
    \A n \in Names :
        (Expired(policies[n]) \/ Expired(savedPolicies[n]))
            ~> ~(Expired(policies[n]) \/ Expired(savedPolicies[n]))
=============================================================================
