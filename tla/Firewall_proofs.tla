--------------------------- MODULE Firewall_proofs ---------------------------
(* From the policies to the packets that are dropped.                       *)
(*                                                                          *)
(* The two copies of the precedence agree, for any tags, policies,          *)
(* priorities and schedules, while the global policy is enabled, and the    *)
(* firewall gets one answer.                                                *)
(*                                                                          *)
(* What the synchroniser makes of the answers holds for any inventory, any  *)
(* records and any set of faults.  MirrorsKernel and NoPhantomElement are   *)
(* inductive only together: a refused batch leaves nothing but              *)
(* NoPhantomElement, and the deletions of a batch stay inside the sets      *)
(* because of it.                                                           *)
EXTENDS PolicyPrecedence, Nftables, WellFoundedInduction, TLAPS

-----------------------------------------------------------------------------
(* The policy engine                                                       *)

Pause == Temporary("device", Device, "schedule", {PauseSchedule}, 1000)
Extension == Temporary("device", Device, "allow", {}, 2000)

\* What the handlers put under each ID.
Shapes ==
    /\ policies[Global] # NoPolicy => policies[Global].type = "global"
    /\ policies[PauseID] \in {Pause, NoPolicy}
    /\ policies[ExtendID] \in {Extension, NoPolicy}
    /\ \A t \in Tags :
          policies[ExtendTagID(t)] # NoPolicy => policies[ExtendTagID(t)].type = "tag"
    /\ \A id \in IDs \ {PauseID} :
          policies[id] # NoPolicy => policies[id].schedules \subseteq Schedules

Inv == PolicyTypeOK /\ Shapes

LEMMA IDsDiffer ==
    /\ Global \in IDs /\ PauseID \in IDs /\ ExtendID \in IDs
    /\ Global # PauseID /\ Global # ExtendID /\ PauseID # ExtendID
    /\ \A c \in Custom : CustomID(c) \in IDs /\ CustomID(c) \notin {Global, PauseID, ExtendID}
    /\ \A t \in Tags : ExtendTagID(t) \in IDs /\ ExtendTagID(t) \notin {Global, PauseID, ExtendID}
    /\ \A c \in Custom, t \in Tags : CustomID(c) # ExtendTagID(t)
BY DEF IDs, Global, PauseID, ExtendID, CustomID, ExtendTagID

LEMMA PolicyIsSome == \A p \in Policies : p # NoPolicy
<1>1. NoPolicy.type = "none"
  BY DEF NoPolicy
<1>2. \A p \in Policies : p.type # "none"
  BY DEF Policies
<1> QED
  BY <1>1, <1>2

LEMMA BundlesHold ==
    /\ {} \in Bundles /\ {PauseSchedule} \in Bundles
    /\ \A s \in SUBSET Schedules : s \in Bundles
BY DEF Bundles

LEMMA TemporaryIsPolicy ==
    ASSUME NEW type \in {"global", "device", "tag"}, NEW target \in {Device} \cup Tags,
           NEW action \in PolicyActions, NEW schedules \in Bundles, NEW priority \in Nat
    PROVE  Temporary(type, target, action, schedules, priority) \in Policies
BY DEF Temporary, Policies

LEMMA GlobalIsPolicy ==
    ASSUME NEW action \in PolicyActions, NEW schedules \in Bundles, NEW enabled \in BOOLEAN
    PROVE  /\ GlobalPolicy(action, schedules, enabled) \in Policies
           /\ GlobalPolicy(action, schedules, enabled).type = "global"
           /\ GlobalPolicy(action, schedules, enabled).enabled = enabled
           /\ GlobalPolicy(action, schedules, enabled).schedules = schedules
BY DEF GlobalPolicy, Policies

LEMMA OtherAction ==
    ASSUME NEW old \in Policies, NEW action \in PolicyActions
    PROVE  /\ [old EXCEPT !.action = action] \in Policies
           /\ [old EXCEPT !.action = action].enabled = old.enabled
           /\ [old EXCEPT !.action = action].type = old.type
           /\ [old EXCEPT !.action = action].schedules = old.schedules
BY DEF Policies

\* Putting something under one ID.
LEMMA PutInv ==
    ASSUME Inv, NEW id \in IDs, NEW p \in Policies \cup {NoPolicy},
           policies' = [policies EXCEPT ![id] = p],
           tags' \subseteq Tags \cup {Infrastructure},
           verdict' \in [Bundles -> {"allow", "block"}],
           id = Global => (p # NoPolicy => p.type = "global"),
           id = PauseID => p \in {Pause, NoPolicy},
           id = ExtendID => p \in {Extension, NoPolicy},
           \A t \in Tags : id = ExtendTagID(t) => (p # NoPolicy => p.type = "tag"),
           id # PauseID => (p # NoPolicy => p.schedules \subseteq Schedules)
    PROVE  Inv'
<1>1. PolicyTypeOK'
  BY DEF Inv, PolicyTypeOK
<1>2. \A i \in IDs : policies'[i] = IF i = id THEN p ELSE policies[i]
  BY DEF Inv, PolicyTypeOK
<1>3. Shapes'
  BY <1>2, IDsDiffer DEF Inv, Shapes, global
<1> QED
  BY <1>1, <1>3 DEF Inv

\* ... and nothing else.
LEMMA PutOnlyInv ==
    ASSUME Inv, NEW id \in IDs, NEW p \in Policies \cup {NoPolicy}, PutOnly(id, p),
           id = Global => (p # NoPolicy => p.type = "global"),
           id = PauseID => p \in {Pause, NoPolicy},
           id = ExtendID => p \in {Extension, NoPolicy},
           \A t \in Tags : id = ExtendTagID(t) => (p # NoPolicy => p.type = "tag"),
           id # PauseID => (p # NoPolicy => p.schedules \subseteq Schedules)
    PROVE  Inv'
<1>1. tags' \subseteq Tags \cup {Infrastructure} /\ verdict' \in [Bundles -> {"allow", "block"}]
  BY DEF PutOnly, Inv, PolicyTypeOK
<1>2. policies' = [policies EXCEPT ![id] = p]
  BY DEF PutOnly, Put
<1> QED
  BY <1>1, <1>2, PutInv

LEMMA PutGlobalInv ==
    ASSUME Inv, NEW p \in Policies, PutOnly(Global, p),
           p.type = "global", p.schedules \subseteq Schedules
    PROVE  Inv'
BY IDsDiffer, PutOnlyInv

LEMMA VacationInv ==
    ASSUME Inv, NEW old \in Policies, old.type = "global",
           old.schedules \subseteq Schedules, NEW action \in PolicyActions,
           PutOnly(Global, [old EXCEPT !.action = action])
    PROVE  Inv'
<1> DEFINE new == [old EXCEPT !.action = action]
<1>1. new \in Policies /\ new.type = "global" /\ new.schedules \subseteq Schedules
  BY OtherAction
<1>2. PutOnly(Global, new)
  OBVIOUS
<1> HIDE DEF new
<1> QED
  BY <1>1, <1>2, PutGlobalInv

LEMMA InitInv == PolicyInit => Inv
<1> SUFFICES ASSUME PolicyInit PROVE Inv
  OBVIOUS
<1>1. GlobalPolicy("schedule", {}, TRUE) \in Policies
  BY GlobalIsPolicy, BundlesHold DEF PolicyActions
<1>2. PolicyTypeOK
  BY <1>1 DEF PolicyInit, PolicyTypeOK
<1>3. Shapes
  <2> DEFINE first == GlobalPolicy("schedule", {}, TRUE)
  <2>1. first.type = "global" /\ first.schedules = {}
    BY DEF GlobalPolicy
  <2>2. \A id \in IDs : policies[id] = IF id = Global THEN first ELSE NoPolicy
    BY DEF PolicyInit
  <2> HIDE DEF first
  <2>3. policies[Global] = first /\ \A id \in IDs \ {Global} : policies[id] = NoPolicy
    BY <2>2, IDsDiffer
  <2>4. policies[PauseID] = NoPolicy /\ policies[ExtendID] = NoPolicy
        /\ \A t \in Tags : policies[ExtendTagID(t)] = NoPolicy
    BY <2>3, IDsDiffer
  <2>5. \A id \in IDs : policies[id] # NoPolicy => policies[id].schedules \subseteq Schedules
    BY <2>1, <2>3
  <2> QED
    BY <2>1, <2>3, <2>4, <2>5 DEF Shapes
<1> QED
  BY <1>2, <1>3 DEF Inv

LEMMA StepInv ==
    ASSUME Inv, [PolicyNext]_policyVars
    PROVE  Inv'
<1>1. ASSUME NEW c \in Custom, SavePolicy(c) PROVE Inv'
  <2>1. PICK on \in TheDevice \cup {"tag"} \X Tags, action \in PolicyActions,
             schedules \in SUBSET Schedules, priority \in Priorities, enabled \in BOOLEAN :
          PutOnly(CustomID(c),
               [type |-> on[1], target |-> on[2], action |-> action, schedules |-> schedules,
                priority |-> priority, enabled |-> enabled])
    BY <1>1 DEF SavePolicy, SaveFor
  <2> DEFINE p == [type |-> on[1], target |-> on[2], action |-> action,
                   schedules |-> schedules, priority |-> priority, enabled |-> enabled]
  <2>2. on[1] \in {"global", "device", "tag"} /\ on[2] \in {Device} \cup Tags
    BY DEF TheDevice
  <2>3. p \in Policies /\ p.schedules \subseteq Schedules
    BY <2>2, BundlesHold, PrioritiesAssumption DEF Policies
  <2>4. PutOnly(CustomID(c), p)
    BY <2>1
  <2> HIDE DEF p
  <2> QED
    BY <2>3, <2>4, IDsDiffer, PutOnlyInv
<1>2. CASE UpdateGlobal
  <2>1. PICK action \in PolicyActions, schedules \in SUBSET Schedules :
          PutOnly(Global, GlobalPolicy(action, schedules, TRUE))
    BY <1>2 DEF UpdateGlobal
  <2>2. /\ GlobalPolicy(action, schedules, TRUE) \in Policies
        /\ GlobalPolicy(action, schedules, TRUE).type = "global"
        /\ GlobalPolicy(action, schedules, TRUE).schedules \subseteq Schedules
    BY GlobalIsPolicy, BundlesHold
  <2> QED
    BY <2>1, <2>2, PutGlobalInv
<1>3. CASE PostGlobal
  <2>1. PICK action \in PolicyActions, schedules \in SUBSET Schedules, enabled \in BOOLEAN :
          PutOnly(Global, GlobalPolicy(action, schedules, enabled))
    BY <1>3 DEF PostGlobal
  <2>2. /\ GlobalPolicy(action, schedules, enabled) \in Policies
        /\ GlobalPolicy(action, schedules, enabled).type = "global"
        /\ GlobalPolicy(action, schedules, enabled).schedules \subseteq Schedules
    BY GlobalIsPolicy, BundlesHold
  <2> QED
    BY <2>1, <2>2, PutGlobalInv
<1>4. ASSUME NEW id \in IDs, DeletePolicy(id) PROVE Inv'
  BY <1>4, PutOnlyInv DEF DeletePolicy
<1>5. CASE PauseDeviceInternet
  <2>1. Pause \in Policies
    BY TemporaryIsPolicy, BundlesHold DEF Pause, PolicyActions
  <2>2. policies' = [policies EXCEPT ![PauseID] = Pause]
    BY <1>5 DEF PauseDeviceInternet, Put, Pause
  <2>3. tags' \subseteq Tags \cup {Infrastructure} /\ verdict' \in [Bundles -> {"allow", "block"}]
    BY <1>5, BundlesHold DEF PauseDeviceInternet, Inv, PolicyTypeOK
  <2> QED
    BY <2>1, <2>2, <2>3, IDsDiffer, PutInv
<1>6. CASE ExtendDeviceAccess
  <2>1. Extension \in Policies /\ Extension.schedules = {}
    BY TemporaryIsPolicy, BundlesHold DEF Extension, PolicyActions, Temporary
  <2>2. PutOnly(ExtendID, Extension)
    BY <1>6 DEF ExtendDeviceAccess, Extension
  <2> QED
    BY <2>1, <2>2, IDsDiffer, PutOnlyInv
<1>7. ASSUME NEW t \in Tags, ExtendTagAccess(t) PROVE Inv'
  <2> DEFINE p == Temporary("tag", t, "allow", {}, 2000)
  <2>1. p \in Policies
    BY TemporaryIsPolicy, BundlesHold DEF PolicyActions
  <2>2. p.type = "tag" /\ p.schedules = {}
    BY DEF Temporary
  <2>3. PutOnly(ExtendTagID(t), p)
    BY <1>7 DEF ExtendTagAccess
  <2> HIDE DEF p
  <2> QED
    BY <2>1, <2>2, <2>3, IDsDiffer, PutOnlyInv
<1>8. ASSUME NEW on \in BOOLEAN, ToggleVacationMode(on) PROVE Inv'
  <2>1. PICK action \in PolicyActions : ToggleVacationMode(on) /\ action = IF on THEN "block" ELSE "schedule"
    BY <1>8 DEF PolicyActions
  <2>2. CASE global = NoPolicy
    <3>1. /\ GlobalPolicy("schedule", {}, TRUE) \in Policies
          /\ GlobalPolicy("schedule", {}, TRUE).type = "global"
          /\ GlobalPolicy("schedule", {}, TRUE).schedules \subseteq Schedules
      BY GlobalIsPolicy, BundlesHold DEF PolicyActions
    <3>2. PutOnly(Global, [GlobalPolicy("schedule", {}, TRUE) EXCEPT !.action = action])
      BY <2>1, <2>2, Zenon DEF ToggleVacationMode
    <3> QED
      BY <3>1, <3>2, VacationInv
  <2>3. CASE global # NoPolicy
    <3>1. global \in Policies /\ global.type = "global"
          /\ global.schedules \subseteq Schedules
      BY <2>3, IDsDiffer DEF Inv, PolicyTypeOK, Shapes, global
    <3>2. PutOnly(Global, [global EXCEPT !.action = action])
      BY <2>1, <2>3, Zenon DEF ToggleVacationMode
    <3> QED
      BY <3>1, <3>2, VacationInv
  <2> QED
    BY <2>2, <2>3
<1>9. CASE AssignDeviceTag
  BY <1>9 DEF AssignDeviceTag, Inv, PolicyTypeOK, Shapes, global
<1>10. CASE Tick
  BY <1>10 DEF Tick, Inv, PolicyTypeOK, Shapes, global
<1>11. CASE UNCHANGED policyVars
  BY <1>11 DEF policyVars, Inv, PolicyTypeOK, Shapes, global
<1> QED
  BY <1>1, <1>2, <1>3, <1>4, <1>5, <1>6, <1>7, <1>8, <1>9, <1>10, <1>11 DEF PolicyNext

-----------------------------------------------------------------------------
(* The two evaluators in the same state.                                   *)

\* The policy of the device that decides.
LEMMA BestIs ==
    ASSUME Inv, TemporaryOutranks, NEW p \in DevicePolicies,
           \/ p = policies[ExtendID]
           \/ p = policies[PauseID] /\ policies[ExtendID] = NoPolicy
    PROVE  Best(DevicePolicies) = {p}
<1>1. ASSUME NEW q \in DevicePolicies, q # p PROVE q.priority < p.priority
  <2>1. PICK id \in IDs : q = policies[id] /\ q # NoPolicy /\ q.type = "device"
    BY DEF DevicePolicies, Enabled, InEngine
  <2>2. p # NoPolicy
    BY DEF DevicePolicies, Enabled, InEngine
  <2>3. p = Extension \/ (p = Pause /\ policies[ExtendID] = NoPolicy)
    BY <2>2 DEF Inv, Shapes
  <2>4. p.priority \in {1000, 2000}
    BY <2>3 DEF Extension, Pause, Temporary
  <2>5. CASE id = Global
    BY <2>1, <2>5 DEF Inv, Shapes
  <2>6. CASE id = PauseID
    <3>0. Pause.priority = 1000
      BY DEF Pause, Temporary
    <3>1. q = Pause /\ q.priority = 1000
      BY <2>1, <2>6, <3>0 DEF Inv, Shapes
    <3>2. p = Extension /\ p.priority = 2000
      BY <2>3, <3>1, <1>1 DEF Extension, Temporary
    <3> QED
      BY <3>1, <3>2
  <2>7. CASE id = ExtendID
    BY <1>1, <2>1, <2>7
  <2>8. ASSUME NEW t \in Tags, id = ExtendTagID(t) PROVE FALSE
    BY <2>1, <2>8 DEF Inv, Shapes
  <2>9. ASSUME NEW c \in Custom, id = CustomID(c) PROVE q.priority < p.priority
    <3>1. q.priority < 1000 /\ q \in Policies
      BY <2>1, <2>9, IDsDiffer DEF TemporaryOutranks, Inv, PolicyTypeOK
    <3>2. q.priority \in Nat
      BY <3>1 DEF Policies
    <3> QED
      BY <2>4, <3>1, <3>2
  <2> QED
    BY <2>1, <2>5, <2>6, <2>7, <2>8, <2>9 DEF IDs
<1>2. \A q \in DevicePolicies : q.priority \in Nat
  BY DEF DevicePolicies, Enabled, InEngine, Inv, PolicyTypeOK, Policies
<1> QED
  BY <1>1, <1>2 DEF Best

\* The schedules of the tags' policies taken together: the pause's is none of them.
LEMMA TagBundle == Inv => Attached(TagPolicies) \in Bundles
<1> SUFFICES ASSUME Inv PROVE Attached(TagPolicies) \in Bundles
  OBVIOUS
<1>1. \A p \in TagPolicies : p.schedules \subseteq Schedules
  <2>1. TAKE p \in TagPolicies
  <2>2. PICK id \in IDs : p = policies[id] /\ p # NoPolicy /\ p.type = "tag"
    BY DEF TagPolicies, Enabled, InEngine
  <2>3. id # PauseID
    BY <2>2 DEF Inv, Shapes, Pause, Temporary
  <2> QED
    BY <2>2, <2>3 DEF Inv, Shapes
<1>2. Attached(TagPolicies) \subseteq Schedules
  BY <1>1 DEF Attached
<1> QED
  BY <1>2, BundlesHold

\* Resolving what GetEffectivePolicy returns for tags is what EvaluateAction does.
LEMMA TagsAgree ==
    ASSUME Inv
    PROVE  /\ EvaluateTags = "none" <=> EffectiveTag = Effective("schedule", {})
           /\ EvaluateTags # "none" => EvaluateTags = Resolve(EffectiveTag)
<1> DEFINE b == Attached(TagPolicies)
<1>1. Effective("block", {}).action = "block" /\ Effective("allow", {}).action = "allow"
      /\ Effective("schedule", b).action = "schedule" /\ Effective("schedule", b).schedules = b
      /\ Effective("schedule", {}).schedules = {} /\ Effective("schedule", {}).action = "schedule"
  BY DEF Effective
<1>2. b # {} => verdict[b] # "none"
  BY TagBundle DEF Inv, PolicyTypeOK
<1> QED
  BY <1>1, <1>2 DEF EvaluateTags, EffectiveTag, Resolve

LEMMA Agreement == Inv => StatusAgrees
<1> SUFFICES ASSUME Inv, GlobalEnabled, TemporaryOutranks, PauseWindowOpen
             PROVE  EffectiveStatus = EvaluateAction
  BY DEF StatusAgrees
<1>1. CASE Infrastructure \in tags
  BY <1>1 DEF EffectiveStatus, EvaluateAction
<1>2. CASE Infrastructure \notin tags /\ global # NoPolicy /\ global.action # "schedule"
  BY <1>2 DEF EffectiveStatus, EvaluateAction, GlobalEnabled
<1>3. CASE Infrastructure \notin tags /\ (global # NoPolicy => global.action = "schedule")
  <2>1. CASE Active(ExtendID)
    <3>1. policies[ExtendID] = Extension
      BY <2>1 DEF Active, Inv, Shapes
    <3>2. Extension.enabled /\ Extension.type = "device" /\ Extension.target = Device
          /\ Resolve(Extension) = "allow"
      BY DEF Extension, Temporary, Resolve
    <3>3. Extension # NoPolicy
      BY <2>1, <3>1 DEF Active
    <3>4. Extension \in DevicePolicies
      BY <3>1, <3>2, <3>3, IDsDiffer DEF DevicePolicies, Enabled, InEngine
    <3>5. Best(DevicePolicies) = {Extension}
      BY <3>1, <3>4, BestIs
    <3>6. EvaluateAction = {"allow"}
      BY <1>3, <3>2, <3>4, <3>5 DEF EvaluateAction
    <3> QED
      BY <1>3, <2>1, <3>6 DEF EffectiveStatus
  <2>2. CASE ~Active(ExtendID) /\ Active(PauseID)
    <3>1. policies[PauseID] = Pause /\ policies[ExtendID] = NoPolicy
      BY <2>2 DEF Active, Inv, Shapes, Extension, Temporary
    <3>2. Pause.enabled /\ Pause.type = "device" /\ Pause.target = Device
          /\ Resolve(Pause) = verdict[{PauseSchedule}]
      BY DEF Pause, Temporary, Resolve
    <3>3. Pause # NoPolicy
      BY <2>2, <3>1 DEF Active
    <3>4. Pause \in DevicePolicies
      BY <3>1, <3>2, <3>3, IDsDiffer DEF DevicePolicies, Enabled, InEngine
    <3>5. Best(DevicePolicies) = {Pause}
      BY <3>1, <3>4, BestIs
    <3>6. Resolve(Pause) = "block"
      BY <3>1, <3>2, <3>3 DEF PauseWindowOpen
    <3>7. EvaluateAction = {"block"}
      BY <1>3, <3>4, <3>5, <3>6 DEF EvaluateAction
    <3> QED
      BY <1>3, <2>2, <3>7 DEF EffectiveStatus
  <2>3. CASE ~Active(ExtendID) /\ ~Active(PauseID)
    <3>1. EffectiveStatus = {Resolve(e) : e \in GetEffectivePolicy}
      BY <1>3, <2>3 DEF EffectiveStatus
    <3>2. \A action, schedules : Resolve(Effective(action, schedules)) =
                                 IF action = "schedule" THEN verdict[schedules] ELSE action
      BY DEF Resolve, Effective
    <3>3. CASE DevicePolicies # {}
      <4>1. GetEffectivePolicy = {Effective(p.action, p.schedules) : p \in Best(DevicePolicies)}
        BY <1>3, <3>3 DEF GetEffectivePolicy
      <4>2. \A p : Resolve(Effective(p.action, p.schedules)) = Resolve(p)
        BY <3>2 DEF Resolve
      <4>3. EvaluateAction = {Resolve(p) : p \in Best(DevicePolicies)}
        BY <1>3, <3>3 DEF EvaluateAction
      <4> QED
        BY <3>1, <4>1, <4>2, <4>3
    <3>4. CASE DevicePolicies = {} /\ EvaluateTags # "none"
      BY <1>3, <3>1, <3>4, TagsAgree DEF GetEffectivePolicy, EvaluateAction
    <3>5. CASE DevicePolicies = {} /\ EvaluateTags = "none" /\ global # NoPolicy
      <4>1. GetEffectivePolicy = {Effective(global.action, global.schedules)}
        BY <1>3, <3>5, TagsAgree DEF GetEffectivePolicy
      <4>2. EvaluateGlobal = Resolve(global)
        BY <3>5 DEF EvaluateGlobal, GlobalEnabled
      <4>3. EvaluateAction = {Resolve(global)}
        BY <1>3, <3>5, <4>2 DEF EvaluateAction
      <4> QED
        BY <3>1, <3>2, <4>1, <4>3 DEF Resolve
    <3>6. CASE DevicePolicies = {} /\ EvaluateTags = "none" /\ global = NoPolicy
      <4>1. GetEffectivePolicy = {Effective("allow", {})}
        BY <1>3, <3>6, TagsAgree DEF GetEffectivePolicy
      <4>2. EvaluateAction = {"allow"}
        BY <1>3, <3>6 DEF EvaluateAction, EvaluateGlobal
      <4> QED
        BY <3>1, <3>2, <4>1, <4>2
    <3> QED
      BY <3>3, <3>4, <3>5, <3>6
  <2> QED
    BY <2>1, <2>2, <2>3
<1> QED
  BY <1>1, <1>2, <1>3

-----------------------------------------------------------------------------
(* The answer is one action.                                               *)

\* Some number is above every priority in the engine: it holds finitely many.
Bounded == \E n \in Nat : \A p \in InEngine : p.priority <= n

LEMMA BoundedInit == PolicyInit => Bounded
<1> SUFFICES ASSUME PolicyInit PROVE Bounded
  OBVIOUS
<1>1. InEngine \subseteq {GlobalPolicy("schedule", {}, TRUE)}
  BY DEF PolicyInit, InEngine
<1>2. GlobalPolicy("schedule", {}, TRUE).priority = 0
  BY DEF GlobalPolicy
<1>3. \A p \in InEngine : p.priority = 0
  BY <1>1, <1>2
<1>4. 0 \in Nat /\ \A p \in InEngine : p.priority <= 0
  BY <1>3
<1> QED
  BY <1>4 DEF Bounded

\* One policy at a time is put in the engine.
LEMMA BoundedStep ==
    ASSUME PolicyTypeOK, PolicyTypeOK', Bounded, [PolicyNext]_policyVars
    PROVE  Bounded'
<1>1. PICK n \in Nat : \A p \in InEngine : p.priority <= n
  BY DEF Bounded
<1>2. PICK id \in IDs : \A i \in IDs : i # id => policies'[i] = policies[i]
  <2>1. ASSUME NEW i \in IDs, NEW p, policies' = [policies EXCEPT ![i] = p]
        PROVE  \A j \in IDs : j # i => policies'[j] = policies[j]
    BY <2>1 DEF PolicyTypeOK
  <2>2. CASE UNCHANGED policies
    BY <2>2, IDsDiffer
  <2>3. ASSUME NEW c \in Custom, SavePolicy(c)
        PROVE  \E i \in IDs : \E p : policies' = [policies EXCEPT ![i] = p]
    BY <2>3, IDsDiffer DEF SavePolicy, SaveFor, PutOnly, Put
  <2>4. CASE UpdateGlobal \/ PostGlobal
    BY <2>1, <2>4, IDsDiffer DEF UpdateGlobal, PostGlobal, PutOnly, Put
  <2>5. ASSUME NEW i \in IDs, DeletePolicy(i)
        PROVE  policies' = [policies EXCEPT ![i] = NoPolicy]
    BY <2>5 DEF DeletePolicy, PutOnly, Put
  <2>6. CASE PauseDeviceInternet \/ ExtendDeviceAccess
    BY <2>1, <2>6, IDsDiffer DEF PauseDeviceInternet, ExtendDeviceAccess, PutOnly, Put
  <2>7. ASSUME NEW t \in Tags, ExtendTagAccess(t)
        PROVE  \E i \in IDs : \E p : policies' = [policies EXCEPT ![i] = p]
    <3> DEFINE new == Temporary("tag", t, "allow", {}, 2000)
    <3>1. policies' = [policies EXCEPT ![ExtendTagID(t)] = new]
      BY <2>7 DEF ExtendTagAccess, PutOnly, Put
    <3>2. ExtendTagID(t) \in IDs
      BY IDsDiffer
    <3> HIDE DEF new
    <3> QED
      BY <3>1, <3>2
  <2>8. ASSUME NEW on \in BOOLEAN, ToggleVacationMode(on)
        PROVE  \E i \in IDs : \E p : policies' = [policies EXCEPT ![i] = p]
    <3> DEFINE old == IF global = NoPolicy THEN GlobalPolicy("schedule", {}, TRUE) ELSE global
               new == [old EXCEPT !.action = IF on THEN "block" ELSE "schedule"]
    <3>1. policies' = [policies EXCEPT ![Global] = new]
      BY <2>8, Zenon DEF ToggleVacationMode, PutOnly, Put
    <3> HIDE DEF new
    <3> QED
      BY <3>1, IDsDiffer
  <2>9. AssignDeviceTag \/ Tick \/ UNCHANGED policyVars => UNCHANGED policies
    BY DEF AssignDeviceTag, Tick, policyVars
  <2> QED
    BY <2>1, <2>2, <2>3, <2>4, <2>5, <2>6, <2>7, <2>8, <2>9 DEF PolicyNext
<1>3. \A p \in Policies : p.priority \in Nat
  BY DEF Policies
<1>4. \A p \in InEngine' : p \in InEngine \/ (p = policies'[id] /\ p \in Policies)
  BY <1>2 DEF InEngine, PolicyTypeOK
<1>5. PICK m \in Nat : n <= m /\ (policies'[id] \in Policies => policies'[id].priority <= m)
  <2>1. CASE policies'[id] \in Policies
    <3> DEFINE k == policies'[id].priority
    <3>1. k \in Nat
      BY <1>3, <2>1
    <3> HIDE DEF k
    <3>2. \E m \in Nat : n <= m /\ k <= m
      BY <3>1
    <3> QED
      BY <3>2 DEF k
  <2> QED
    BY <2>1
<1>6. \A p \in InEngine : p.priority \in Nat
  BY <1>3 DEF InEngine, PolicyTypeOK
<1>7. \A p \in InEngine' : p.priority <= m
  BY <1>1, <1>4, <1>5, <1>6
<1> QED
  BY <1>7 DEF Bounded

\* A set of policies of bounded priorities has one that none is above.
LEMMA SomeBest ==
    ASSUME NEW ps, ps # {}, \A p \in ps : p.priority \in Nat,
           NEW n \in Nat, \A p \in ps : p.priority <= n
    PROVE  Best(ps) # {}
<1> DEFINE R == OpToRel(<, Nat)
           Above == {k \in Nat : \A p \in ps : p.priority <= k}
<1>1. IsWellFoundedOn(R, Nat)
  BY NatLessThanWellFounded
<1>2. \A x, y \in Nat : x < y => <<x, y>> \in R
  BY DEF OpToRel
<1>3. Above \subseteq Nat /\ Above # {}
  OBVIOUS
<1> HIDE DEF R
<1>4. PICK m \in Above : \A k \in Above : ~(<<k, m>> \in R)
  BY <1>1, <1>3, WFMin
<1>5. \A k \in Above : ~(k < m)
  BY <1>2, <1>3, <1>4
<1>6. m \in Nat /\ \A p \in ps : p.priority <= m
  BY <1>4
<1>7. \E p \in ps : p.priority = m
  <2> SUFFICES ASSUME \A p \in ps : p.priority # m
               PROVE  FALSE
    OBVIOUS
  <2>1. \A p \in ps : p.priority < m
    BY <1>6
  <2>2. m > 0 /\ m - 1 \in Nat /\ \A p \in ps : p.priority <= m - 1
    BY <1>6, <2>1
  <2>3. m - 1 \in Above
    BY <2>2
  <2> QED
    BY <1>5, <1>6, <2>3
<1> QED
  BY <1>6, <1>7 DEF Best

LEMMA OneAnswer == Inv /\ Bounded => Decisive
<1> SUFFICES ASSUME Inv, PolicyTypeOK, Bounded, GlobalEnabled,
                    \A p, q \in Best(DevicePolicies) : Resolve(p) = Resolve(q)
             PROVE  EvaluateAction \in {{"allow"}, {"block"}}
  BY DEF Decisive, Inv
<1>1. \A p \in Policies : Resolve(p) \in {"allow", "block"}
  BY DEF Policies, PolicyActions, Resolve, PolicyTypeOK
<1>2. DevicePolicies \subseteq InEngine /\ InEngine \subseteq Policies
  BY DEF DevicePolicies, Enabled, InEngine, PolicyTypeOK
<1>3. \A p \in Policies : p.priority \in Nat
  BY DEF Policies
<1>4. DevicePolicies # {} =>
          {Resolve(p) : p \in Best(DevicePolicies)} \in {{"allow"}, {"block"}}
  <2> SUFFICES ASSUME DevicePolicies # {}
               PROVE  {Resolve(p) : p \in Best(DevicePolicies)} \in {{"allow"}, {"block"}}
    OBVIOUS
  <2>1. PICK n \in Nat : \A p \in InEngine : p.priority <= n
    BY DEF Bounded
  <2>2. Best(DevicePolicies) # {}
    BY <1>2, <1>3, <2>1, SomeBest
  <2>3. PICK best \in Best(DevicePolicies) : TRUE
    BY <2>2
  <2>4. {Resolve(p) : p \in Best(DevicePolicies)} = {Resolve(best)}
    BY <2>3
  <2>5. best \in Policies
    BY <1>2, <2>3 DEF Best
  <2> QED
    BY <1>1, <2>4, <2>5
<1>5. EvaluateTags # "none" => EvaluateTags \in {"allow", "block"}
  BY TagBundle DEF EvaluateTags, Inv, PolicyTypeOK
<1>6. GlobalEnabled => EvaluateGlobal \in {"allow", "block"}
  <2>1. global # NoPolicy => global \in Policies
    BY IDsDiffer DEF global, PolicyTypeOK
  <2> QED
    BY <1>1, <2>1 DEF EvaluateGlobal, GlobalEnabled
<1>7. global # NoPolicy /\ global.action # "schedule" => global.action \in {"allow", "block"}
  BY IDsDiffer DEF global, Inv, PolicyTypeOK, Policies, PolicyActions
<1> QED
  BY <1>4, <1>5, <1>6, <1>7 DEF EvaluateAction

-----------------------------------------------------------------------------
LEMMA PolicyInvariance == PolicySpec => [](Inv /\ Bounded)
<1>1. Inv /\ Bounded /\ [PolicyNext]_policyVars => (Inv /\ Bounded)'
  <2> SUFFICES ASSUME Inv, Bounded, [PolicyNext]_policyVars PROVE (Inv /\ Bounded)'
    OBVIOUS
  <2>1. Inv'
    BY StepInv
  <2>2. PolicyTypeOK /\ PolicyTypeOK'
    BY <2>1 DEF Inv
  <2> QED
    BY <2>1, <2>2, BoundedStep
<1> QED
  BY InitInv, BoundedInit, <1>1, PTL DEF PolicySpec

\* The engine holds nothing but well-formed policies, none of them for the
\* infrastructure tag, which CreatePolicy and UpdatePolicy refuse.
THEOREM PoliciesTypeCorrect == PolicySpec => []PolicyTypeOK
<1>1. Inv => PolicyTypeOK
  BY DEF Inv
<1> QED
  BY PolicyInvariance, <1>1, PTL

\* While the global policy is enabled, the status the dashboard is told by
\* computeDeviceEffectiveStatus is the action EvaluateAction takes, for any
\* policies below the priorities of the temporary ones.
THEOREM StatusAgreesAlways == PolicySpec => []StatusAgrees
BY PolicyInvariance, Agreement, PTL

\* While the global policy is enabled, EvaluateAction answers "allow" or "block"
\* and nothing else, and does not depend on the order in which Go ranges over the
\* policies unless two of the device's best policies resolve differently.
THEOREM DecisiveAlways == PolicySpec => []Decisive
BY PolicyInvariance, OneAnswer, PTL

-----------------------------------------------------------------------------
(* The synchroniser                                                        *)

IInv == TypeOK /\ MirrorsKernel /\ NoPhantomElement

\* Builder.Sync lists nothing but addresses of the record it evaluates.
LEMMA WantedIsElements ==
    ASSUME NEW d \in Devices, NEW rec \in Records[d], NEW action \in Actions
    PROVE  Wanted(rec, action) \subseteq Elements
<1>1. rec \in [online : BOOLEAN, infra : BOOLEAN, macs : SUBSET MACs, ips : SUBSET IPs]
  BY RecordsAssumption
<1>2. rec.macs \cup rec.ips \subseteq MACs \cup IPs
  BY <1>1
<1>3. Listing(rec, action) \subseteq Lists
  BY DEF Listing, Lists
<1> QED
  BY <1>2, <1>3 DEF Wanted, Elements

\* An inventory without records is one the cache may hold.
LEMMA NothingIsTyped ==
    /\ Nothing \in [Devices -> UNION {Records[d] : d \in Devices}]
    /\ \A d \in Devices : Nothing[d] \in Records[d]
  BY NoRecordAssumption DEF Nothing

\* main starts with an empty builder and the table Init created.
LEMMA InitIInv == Init => IInv
<1> SUFFICES ASSUME Init PROVE IInv
  OBVIOUS
<1>1. TypeOK
  BY NothingIsTyped DEF Init, TypeOK
<1>2. MirrorsKernel /\ NoPhantomElement
  BY DEF Init, MirrorsKernel, NoPhantomElement
<1> QED
  BY <1>1, <1>2 DEF IInv

\* Every step keeps the types: a refusal, a flush and a restart too.
LEMMA StepTypeOK == TypeOK /\ [Next]_vars => TypeOK'
<1> SUFFICES ASSUME TypeOK, [Next]_vars PROVE TypeOK'
  OBVIOUS
<1> USE DEF TypeOK
<1>1. ASSUME NEW d \in Devices, Change(d) PROVE TypeOK'
  <2>1. PICK rec \in Records[d], action \in Actions :
           /\ cache' = [cache EXCEPT ![d] = rec]
           /\ decision' = [decision EXCEPT ![d] = action]
    BY <1>1 DEF Change
  <2>2. /\ cache' \in [Devices -> UNION {Records[e] : e \in Devices}]
        /\ \A e \in Devices : cache'[e] \in Records[e]
        /\ decision' \in [Devices -> Actions]
    BY <2>1
  <2> QED
    BY <1>1, <2>2 DEF Change, builder, kernel
<1>2. CASE StartSync
  BY <1>2 DEF StartSync, inputs, kernel
<1>3. ASSUME NEW d \in Devices, Evaluate(d) PROVE TypeOK'
  <2>1. Wanted(snapshot[d], decision[d]) \subseteq Elements
    BY WantedIsElements
  <2> QED
    BY <1>3, <2>1 DEF Evaluate, inputs, kernel
<1>4. CASE Unchanged
  BY <1>4, NothingIsTyped DEF Unchanged, Return, inputs, kernel
<1>5. CASE Commit
  BY <1>5, NothingIsTyped DEF Commit, Return, ToAdd, inputs, kernel
<1>6. CASE Refusal
  BY <1>6, NothingIsTyped
    DEF Refusal, Rebuild, NotRebuilt, RebuildEarly, Refused, FaultKinds, Return, inputs, kernel
<1>7. CASE FlushTable
  BY <1>7 DEF FlushTable, FaultKinds, inputs, builder
<1>8. CASE Restart
  BY <1>8, NothingIsTyped DEF Restart, FaultKinds, Return
<1>9. CASE UNCHANGED vars
  BY <1>9 DEF vars, inputs, builder, kernel
<1> QED
  BY <1>1, <1>2, <1>3, <1>4, <1>5, <1>6, <1>7, <1>8, <1>9 DEF Next, SyncStep

\* A committed batch leaves the sets the builder computed, and more only where
\* there was more before.
LEMMA CommitInstallsDesired ==
    ASSUME TypeOK, Commit, bound
    PROVE  /\ current \subseteq kElems => current' \subseteq kElems'
           /\ current = kElems => current' = kElems'
  BY DEF Commit, ToAdd, ToRem, TypeOK

\* Every step keeps the two relations between the builder and the kernel.
LEMMA StepRelations == IInv /\ [Next]_vars => (MirrorsKernel /\ NoPhantomElement)'
<1> SUFFICES ASSUME IInv, [Next]_vars PROVE (MirrorsKernel /\ NoPhantomElement)'
  OBVIOUS
<1> USE DEF IInv, MirrorsKernel, NoPhantomElement
<1>1. ASSUME NEW d \in Devices, Change(d) PROVE (MirrorsKernel /\ NoPhantomElement)'
  BY <1>1 DEF Change, builder, kernel
<1>2. CASE StartSync
  BY <1>2 DEF StartSync, kernel
<1>3. ASSUME NEW d \in Devices, Evaluate(d) PROVE (MirrorsKernel /\ NoPhantomElement)'
  BY <1>3 DEF Evaluate, kernel
<1>4. CASE Unchanged
  BY <1>4 DEF Unchanged, kernel
<1>5. CASE Commit
  <2>1. UNCHANGED <<bound, kTable, happened>>
    BY <1>5 DEF Commit
  <2>2. CASE bound
    BY <1>5, <2>1, <2>2, CommitInstallsDesired
  <2>3. CASE ~bound
    BY <2>1, <2>3 DEF Benign
  <2> QED
    BY <2>2, <2>3
<1>6. CASE Refusal
  <2>1. current' = {} /\ happened' # {}
    BY <1>6 DEF Refusal, Rebuild, NotRebuilt, RebuildEarly, Refused
  <2>2. CASE Rebuild
    BY <2>1, <2>2 DEF Rebuild, Refused
  <2>3. CASE NotRebuilt
    BY <2>1, <2>3 DEF NotRebuilt, Refused, kernel, Benign
  <2>4. CASE RebuildEarly
    BY <2>1, <2>4 DEF RebuildEarly, Refused, Benign
  <2> QED
    BY <1>6, <2>2, <2>3, <2>4 DEF Refusal
<1>7. CASE FlushTable
  BY <1>7 DEF FlushTable, Benign
<1>8. CASE Restart
  BY <1>8 DEF Restart
<1>9. CASE UNCHANGED vars
  BY <1>9 DEF vars, builder, kernel
<1> QED
  BY <1>1, <1>2, <1>3, <1>4, <1>5, <1>6, <1>7, <1>8, <1>9 DEF Next, SyncStep

\* The inductive invariant of the synchroniser.
THEOREM Invariance == Spec => []IInv
<1>1. IInv /\ [Next]_vars => IInv'
  BY StepTypeOK, StepRelations DEF IInv
<1> QED
  BY InitIInv, <1>1, PTL DEF Spec

\* The builder's sets only ever hold elements of the two lists, so what
\* Controller.Apply is given always names a set of the table.
THEOREM TypeCorrect == Spec => []TypeOK
<1>1. IInv => TypeOK
  BY DEF IInv
<1> QED
  BY Invariance, <1>1, PTL

\* Without faults the builder's picture of the kernel is exact.
THEOREM MirrorsKernelAlways == Spec => []MirrorsKernel
<1>1. IInv => MirrorsKernel
  BY DEF IInv
<1> QED
  BY Invariance, <1>1, PTL

\* Refused batches and restarts never make the builder believe too much.
THEOREM NoPhantomElementAlways == Spec => []NoPhantomElement
<1>1. IInv => NoPhantomElement
  BY DEF IInv
<1> QED
  BY Invariance, <1>1, PTL

\* What the builder has listed as blocked by MAC is dropped by the kernel.
THEOREM ListedBlocksDropAlways == Spec => []ListedBlocksDrop
<1>1. IInv => ListedBlocksDrop
  BY DEF IInv, NoPhantomElement, ListedBlocksDrop, Verdict
<1> QED
  BY Invariance, <1>1, PTL
=============================================================================
