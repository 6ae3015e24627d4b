-------------------------- MODULE PolicyPrecedence --------------------------
(* The precedence of policies for one device.  LIAS works it out twice:     *)
(* policy.Engine.EvaluateAction decides for the firewall, and the handlers' *)
(* computeDeviceEffectiveStatus, with the help of GetEffectivePolicy, tells *)
(* the dashboard.  The module holds both, over every state of the engine    *)
(* that the handlers can produce.                                           *)
(*                                                                          *)
(* Data: policies of other devices and tags play no part and are left out.  *)
(* What EvaluateBundle answers is a choice of the environment that the      *)
(* clock changes.  Both evaluators range over Go maps: where two policies   *)
(* have the same priority the answer is any of theirs, so an evaluator is   *)
(* the set of its possible answers.                                         *)
EXTENDS Integers

CONSTANTS
    Tags,               \* tags a device may have, except "infrastructure"
    Custom,             \* IDs of the policies the dashboard creates
    Priorities,         \* the priorities the dashboard gives them
    Schedules           \* IDs of the schedules the dashboard attaches

ASSUME PrioritiesAssumption == Priorities \subseteq Nat

PauseSchedule == "sched_pause"
ASSUME SchedulesAssumption == PauseSchedule \notin Schedules

Global == <<"global_default">>
PauseID == <<"pol_pause">>
ExtendID == <<"pol_extend_device">>
ExtendTagID(t) == <<"pol_extend_tag", t>>
CustomID(c) == <<"pol", c>>
IDs == {Global, PauseID, ExtendID} \cup {ExtendTagID(t) : t \in Tags}
                                   \cup {CustomID(c) : c \in Custom}

Infrastructure == "infrastructure"
PolicyActions == {"allow", "block", "schedule"}
Device == "the device"
Bundles == (SUBSET Schedules) \cup {{PauseSchedule}}

Policies == [type : {"global", "device", "tag"}, target : {Device} \cup Tags,
             action : PolicyActions, schedules : Bundles, priority : Nat, enabled : BOOLEAN]
NoPolicy == [type |-> "none"]

VARIABLES
    policies,   \* policy.Engine.policies
    tags,       \* the tags of the device
    verdict     \* what EvaluateBundle answers now

policyVars == <<policies, tags, verdict>>

PolicyTypeOK ==
    /\ policies \in [IDs -> Policies \cup {NoPolicy}]
    /\ tags \subseteq Tags \cup {Infrastructure}
    /\ verdict \in [Bundles -> {"allow", "block"}]

global == policies[Global]
InEngine == {policies[id] : id \in IDs} \ {NoPolicy}
Enabled(type, targets) ==
    {p \in InEngine : p.enabled /\ p.type = type /\ p.target \in targets}
DevicePolicies == Enabled("device", {Device})
TagPolicies == Enabled("tag", tags)

\* Those that a loop can end with which keeps a policy of higher priority.
Best(ps) == {p \in ps : \A q \in ps : q.priority <= p.priority}

Says(ps, action) == \E p \in ps : p.action = action
Attached(ps) == UNION {p.schedules : p \in {q \in ps : q.action = "schedule"}}

-----------------------------------------------------------------------------
(* The firewall: EvaluateAction.                                           *)

Resolve(p) == IF p.action = "schedule" THEN verdict[p.schedules] ELSE p.action

\* Mutant of EvaluateTags: the schedules are asked before the allow tags.
EvaluateTags_SchedulesFirst ==
    IF Says(TagPolicies, "block") THEN "block"
    ELSE IF Attached(TagPolicies) # {} THEN verdict[Attached(TagPolicies)]
    ELSE IF Says(TagPolicies, "allow") THEN "allow"
    ELSE "none"

\* Tag policies: block before allow before their schedules taken together.
EvaluateTags ==
    IF Says(TagPolicies, "block") THEN "block"
    ELSE IF Says(TagPolicies, "allow") THEN "allow"
    ELSE IF Attached(TagPolicies) # {} THEN verdict[Attached(TagPolicies)]
    ELSE "none"

\* Mutant of EvaluateGlobal: the raw action of the policy is returned.
EvaluateGlobal_Raw == IF global = NoPolicy THEN "allow" ELSE global.action

\* The fallback: a global policy that is disabled is not resolved.
EvaluateGlobal ==
    IF global = NoPolicy THEN "allow"
    ELSE IF global.enabled THEN Resolve(global) ELSE global.action

EvaluateAction ==
    IF Infrastructure \in tags THEN {"allow"}
    ELSE IF global # NoPolicy /\ global.enabled /\ global.action # "schedule" THEN {global.action}
    ELSE IF DevicePolicies # {} THEN {Resolve(p) : p \in Best(DevicePolicies)}
    ELSE IF EvaluateTags # "none" THEN {EvaluateTags}
    ELSE {EvaluateGlobal}

-----------------------------------------------------------------------------
(* The dashboard: GetEffectivePolicy, computeDeviceEffectiveStatus.         *)

Effective(action, schedules) == [action |-> action, schedules |-> schedules]

EffectiveTag ==
    IF Says(TagPolicies, "block") THEN Effective("block", {})
    ELSE IF Says(TagPolicies, "allow") THEN Effective("allow", {})
    ELSE Effective("schedule", Attached(TagPolicies))

\* Whether the global policy is enabled is not asked.
GetEffectivePolicy ==
    IF Infrastructure \in tags THEN {Effective("allow", {})}
    ELSE IF global # NoPolicy /\ global.action # "schedule" THEN {Effective(global.action, {})}
    ELSE IF DevicePolicies # {} THEN
        {Effective(p.action, p.schedules) : p \in Best(DevicePolicies)}
    ELSE IF EffectiveTag # Effective("schedule", {}) THEN {EffectiveTag}
    ELSE IF global # NoPolicy THEN {Effective(global.action, global.schedules)}
    ELSE {Effective("allow", {})}

\* A device policy of that name is in the engine and enabled.
Active(id) == policies[id] # NoPolicy /\ policies[id].enabled

\* An extension is reported before a pause, and both before what they are
\* compared with by priority.
EffectiveStatus ==
    IF Infrastructure \in tags THEN {"allow"}
    ELSE IF global # NoPolicy /\ global.enabled /\ global.action # "schedule" THEN {global.action}
    ELSE IF Active(ExtendID) THEN {"allow"}
    ELSE IF Active(PauseID) THEN {"block"}
    ELSE {Resolve(e) : e \in GetEffectivePolicy}

-----------------------------------------------------------------------------
(* The handlers.                                                           *)

Put(id, p) == policies' = [policies EXCEPT ![id] = p]
PutOnly(id, p) == Put(id, p) /\ UNCHANGED <<tags, verdict>>

Temporary(type, target, action, schedules, priority) ==
    [type |-> type, target |-> target, action |-> action, schedules |-> schedules,
     priority |-> priority, enabled |-> TRUE]

GlobalPolicy(action, schedules, enabled) ==
    [type |-> "global", target |-> Device, action |-> action, schedules |-> schedules,
     priority |-> 0, enabled |-> enabled]

PolicyInit ==
    /\ policies = [id \in IDs |->
                      IF id = Global THEN GlobalPolicy("schedule", {}, TRUE) ELSE NoPolicy]
    /\ tags = {}
    /\ verdict \in [Bundles -> {"allow", "block"}]
    /\ verdict[{}] = "allow"

\* A policy of the dashboard for one of the targets; schedules that are not
\* looked at are left out.
SaveFor(c, targets) ==
    \E on \in targets, action \in PolicyActions, schedules \in SUBSET Schedules,
       priority \in Priorities, enabled \in BOOLEAN :
        /\ action # "schedule" => schedules = {}
        /\ PutOnly(CustomID(c),
               [type |-> on[1], target |-> on[2], action |-> action, schedules |-> schedules,
                priority |-> priority, enabled |-> enabled])

TheDevice == {<<"device", Device>>}

\* Mutant of SavePolicy: the infrastructure tag is taken for a tag like others.
SavePolicy_AnyTag(c) == SaveFor(c, TheDevice \cup {"tag"} \X (Tags \cup {Infrastructure}))

\* CreatePolicy, UpdatePolicy and ImportPolicies of one of the dashboard's
\* policies.  The first two refuse a policy for the infrastructure tag; one that
\* is imported is left out, as both evaluators return before they look at it.
SavePolicy(c) == SaveFor(c, TheDevice \cup {"tag"} \X Tags)

\* UpdatePolicy of global_default, which it always enables.
UpdateGlobal ==
    \E action \in PolicyActions, schedules \in SUBSET Schedules :
        PutOnly(Global, GlobalPolicy(action, schedules, TRUE))

\* CreatePolicy and ImportPolicies of global_default, which do not.
PostGlobal ==
    \E action \in PolicyActions, schedules \in SUBSET Schedules, enabled \in BOOLEAN :
        PutOnly(Global, GlobalPolicy(action, schedules, enabled))

\* DeletePolicy, Unpause, the cancellations and the sweep of expired policies.
DeletePolicy(id) == policies[id] # NoPolicy /\ PutOnly(id, NoPolicy)

PauseDeviceInternet ==
    /\ Infrastructure \notin tags
    /\ Put(PauseID, Temporary("device", Device, "schedule", {PauseSchedule}, 1000))
    /\ verdict' = [verdict EXCEPT ![{PauseSchedule}] = "block"]
    /\ UNCHANGED tags

\* An enabled global policy of action block.
KillSwitch == global # NoPolicy /\ global.enabled /\ global.action = "block"

\* Mutant of ExtendDeviceAccess: the priority is that of a pause.
ExtendDeviceAccess_LowPriority ==
    /\ Infrastructure \notin tags
    /\ ~KillSwitch
    /\ PutOnly(ExtendID, Temporary("device", Device, "allow", {}, 1000))

ExtendDeviceAccess ==
    /\ Infrastructure \notin tags
    /\ ~KillSwitch
    /\ PutOnly(ExtendID, Temporary("device", Device, "allow", {}, 2000))

ExtendTagAccess(t) ==
    /\ ~KillSwitch
    /\ PutOnly(ExtendTagID(t), Temporary("tag", t, "allow", {}, 2000))

\* The policy is read and written back with another action: its schedules and
\* whether it is enabled stay as they were.
ToggleVacationMode(on) ==
    LET old == IF global = NoPolicy THEN GlobalPolicy("schedule", {}, TRUE) ELSE global IN
    PutOnly(Global, [old EXCEPT !.action = IF on THEN "block" ELSE "schedule"])

AssignDeviceTag ==
    /\ \E ts \in SUBSET (Tags \cup {Infrastructure}) : tags' = ts
    /\ UNCHANGED <<policies, verdict>>

\* The clock passes an edge of a window, or a schedule is edited.
Tick ==
    /\ \E b \in Bundles \ {{}}, action \in {"allow", "block"} :
          verdict' = [verdict EXCEPT ![b] = action]
    /\ UNCHANGED <<policies, tags>>

PolicyNext ==
    \/ \E c \in Custom : SavePolicy(c)
    \/ UpdateGlobal \/ PostGlobal
    \/ \E id \in IDs : DeletePolicy(id)
    \/ PauseDeviceInternet \/ ExtendDeviceAccess
    \/ \E t \in Tags : ExtendTagAccess(t)
    \/ \E on \in BOOLEAN : ToggleVacationMode(on)
    \/ AssignDeviceTag \/ Tick

PolicySpec == PolicyInit /\ [][PolicyNext]_policyVars

-----------------------------------------------------------------------------
(* Properties                                                              *)

GlobalEnabled == global # NoPolicy => global.enabled

\* Only an extension outranks a pause, and nothing outranks an extension.
TemporaryOutranks ==
    \A c \in Custom : policies[CustomID(c)] # NoPolicy => policies[CustomID(c)].priority < 1000

\* The schedule of the pause, if there is one, is in its window.
PauseWindowOpen == policies[PauseID] # NoPolicy => verdict[{PauseSchedule}] = "block"

\* The two copies of the precedence agree: the status a device is shown with is
\* the action the firewall takes, for every mixture of tags, schedules, pauses
\* and extensions, as long as the global policy is enabled (UpdatePolicy and
\* vacation mode leave it so), the temporary policies have the highest
\* priorities and a pause is in its window.
StatusAgrees ==
    GlobalEnabled /\ TemporaryOutranks /\ PauseWindowOpen
    => EffectiveStatus = EvaluateAction

\* The firewall's answer is one action it can enforce, whatever the order in
\* which Go ranges over the policies, unless two policies of the device tie.
Decisive ==
    \/ \E p, q \in Best(DevicePolicies) : Resolve(p) # Resolve(q)
    \/ GlobalEnabled => EvaluateAction \in {{"allow"}, {"block"}}
=============================================================================
