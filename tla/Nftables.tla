------------------------------ MODULE Nftables ------------------------------
(***************************************************************************)
(* The firewall synchroniser of LIAS: nftables.Sync (the loop), Builder    *)
(* (the in-memory picture of the kernel sets) and Controller (the netlink  *)
(* connection), together with the part of the kernel they drive.           *)
(*                                                                         *)
(* The builder never reads the kernel back: it sends the difference        *)
(* between the sets it wants and the sets it believes are installed.  The  *)
(* module is about when that belief and the kernel come apart.             *)
(*                                                                         *)
(* Data: the six kernel sets are one set of <<list, key>> pairs, a key     *)
(* being a MAC or an IP; the v4 and v6 sets have the same rules and are    *)
(* not told apart.  A device that is not in the cache has no addresses.    *)
(***************************************************************************)
EXTENDS FiniteSets

CONSTANTS
    Devices,        \* PDIDs the inventory may hold
    MACs, IPs,      \* addresses devices may carry
    Records,        \* Records[d]: what the cache may say of device d
    Faults          \* the kinds of fault that may occur, a subset of FaultKinds

\* What the cache says of a device that is absent, or has no address yet.
NoRecord == [online |-> FALSE, infra |-> FALSE, macs |-> {}, ips |-> {}]

FaultKinds == {"rebuilt",    \* the kernel refused a batch, Init rebuilt the table
               "kept",       \* it refused one and nothing was rebuilt
               "early",      \* ... and Init returned before it created the handles
               "flushed",    \* POST /nftables/flush removed the table
               "restarted"}  \* the process died and was started again

ASSUME RecordsAssumption ==
    Records \in [Devices -> SUBSET [online : BOOLEAN, infra : BOOLEAN,
                                    macs : SUBSET MACs, ips : SUBSET IPs]]
ASSUME NoRecordAssumption == \A d \in Devices : NoRecord \in Records[d]
ASSUME FaultsAssumption == Faults \subseteq FaultKinds

Nothing == [d \in Devices |-> NoRecord]
Lists == {"allow", "block"}
Actions == {"allow", "block", "schedule"}
Elements == Lists \X (MACs \cup IPs)

VARIABLES
    cache,      \* liasSync.Cache: the record of every device
    decision,   \* what policy.Engine.EvaluateAction answers for it now
    trigger,    \* whether the trigger channel (capacity 1) holds a token
    pc,         \* "idle", or "sync" while Builder.Sync holds its mutex
    snapshot,   \* a local of Builder.Sync: the devices from cache.List()
    todo,       \* a local: those of them it has still to evaluate
    desired,    \* a local: the sets it has computed so far
    current,    \* Builder.current...: the sets it believes are installed
    bound,      \* whether Controller.table and .sets hold their handles
    kTable,     \* kernel: the table, its chain and its sets exist
    kElems,     \* kernel: the elements of the six sets
    happened    \* the kinds of fault that have occurred since the process started

builder == <<pc, snapshot, todo, desired, current>>
kernel  == <<bound, kTable, kElems>>
inputs  == <<cache, decision>>
vars    == <<inputs, trigger, builder, kernel, happened>>

TypeOK ==
    /\ cache \in [Devices -> UNION {Records[d] : d \in Devices}]
    /\ \A d \in Devices : cache[d] \in Records[d]
    /\ decision \in [Devices -> Actions]
    /\ trigger \in BOOLEAN
    /\ pc \in {"idle", "sync"}
    /\ snapshot \in [Devices -> UNION {Records[d] : d \in Devices}]
    /\ \A d \in Devices : snapshot[d] \in Records[d]
    /\ todo \subseteq Devices
    /\ desired \subseteq Elements
    /\ current \subseteq Elements
    /\ bound \in BOOLEAN
    /\ kTable \in BOOLEAN
    /\ kElems \subseteq Elements
    /\ happened \subseteq FaultKinds

-----------------------------------------------------------------------------
(* What Builder.Sync computes, and what the kernel does with it.           *)

\* Mutants of Listing: a switch without the case of the third action, and one
\* that skips offline devices in every case.
Listing_EveryAction(rec, action) ==
    IF rec.infra THEN {"allow"}
    ELSE IF action = "allow" THEN {l \in {"allow"} : rec.online} ELSE {action}
Listing_OnlineOnly(rec, action) ==
    IF rec.infra THEN {"allow"} ELSE {l \in Lists : l = action /\ rec.online}

\* The lists a device goes on: infrastructure is always allowed; an allowed
\* device that is offline is left out; an action that is neither allow nor
\* block (a disabled global policy of action schedule) is on no list.
Listing(rec, action) ==
    IF rec.infra THEN {"allow"}
    ELSE IF action = "allow" THEN {l \in {"allow"} : rec.online}
    ELSE {l \in {"block"} : action = "block"}

Wanted(rec, action) == Listing(rec, action) \X (rec.macs \cup rec.ips)

\* Mutants of Verdict: the rules for MACs after those for addresses, and the
\* accept rule before the drop rule.
Verdict_AddressFirst(mac, ip) ==
    IF ~kTable THEN "accept"
    ELSE IF <<"block", ip>> \in kElems THEN "drop"
    ELSE IF <<"block", mac>> \in kElems THEN "drop" ELSE "accept"
Verdict_AcceptFirst(mac, ip) ==
    IF ~kTable \/ <<"allow", mac>> \in kElems THEN "accept"
    ELSE IF {<<"block", mac>>, <<"block", ip>>} \cap kElems # {} THEN "drop"
    ELSE "accept"

\* The verdict of the ingress chain for a packet of one source that leaves the
\* LAN: the rules are tried in the order of addRules, MACs before addresses,
\* drop before accept.
Verdict(mac, ip) ==
    IF ~kTable THEN "accept"
    ELSE IF <<"block", mac>> \in kElems THEN "drop"
    ELSE IF <<"allow", mac>> \in kElems THEN "accept"
    ELSE IF <<"block", ip>> \in kElems THEN "drop"
    ELSE "accept"

ToAdd == desired \ current
ToRem == current \ desired

-----------------------------------------------------------------------------
Init ==
    /\ cache = Nothing
    /\ decision \in [Devices -> Actions]
    /\ trigger = FALSE
    /\ pc = "idle"
    /\ snapshot = Nothing
    /\ todo = {}
    /\ desired = {}
    /\ current = {}
    /\ bound = TRUE
    /\ kTable = TRUE
    /\ kElems = {}
    /\ happened = {}

\* A handler, the DIS client or the passing of time changes what the cache
\* says of a device or what the policies decide for it.  Most of them send a
\* trigger, which is dropped when one is already waiting; the clock does not.
Change(d) ==
    /\ \E rec \in Records[d], action \in Actions :
          /\ cache' = [cache EXCEPT ![d] = rec]
          /\ decision' = [decision EXCEPT ![d] = action]
    /\ trigger' \in {trigger, TRUE}
    /\ UNCHANGED <<builder, kernel, happened>>

\* Sync.Run takes a trigger, or its ticker fires (so does the first sync of
\* main and of Run): Builder.Sync takes its mutex and lists the cache.
StartSync ==
    /\ pc = "idle"
    /\ trigger' \in {trigger, FALSE}
    /\ pc' = "sync"
    /\ snapshot' = cache
    /\ todo' = Devices
    /\ desired' = {}
    /\ UNCHANGED <<inputs, current, kernel, happened>>

\* EvaluateAction on one listed device: the record is the one of the list,
\* the policies are those of this moment.
Evaluate(d) ==
    /\ pc = "sync"
    /\ d \in todo
    /\ todo' = todo \ {d}
    /\ desired' = desired \cup Wanted(snapshot[d], decision[d])
    /\ UNCHANGED <<inputs, trigger, pc, snapshot, current, kernel, happened>>

Evaluated == pc = "sync" /\ todo = {}

\* Builder.Sync returns: its locals are gone.
Return ==
    /\ pc' = "idle"
    /\ snapshot' = Nothing
    /\ todo' = {}
    /\ desired' = {}

\* Builder.Sync returns without a call when the difference is empty.
Unchanged ==
    /\ Evaluated
    /\ desired = current
    /\ Return
    /\ UNCHANGED <<inputs, trigger, current, kernel, happened>>

\* A batch is refused as a whole when it deletes an element that is not there
\* or the table is gone.
Committable == kTable /\ ToRem \subseteq kElems

\* Mutant of Commit: the batch adds elements and deletes none.
Commit_AddsOnly ==
    /\ Evaluated
    /\ desired # current
    /\ bound => Committable
    /\ kElems' = IF bound THEN kElems \cup ToAdd ELSE kElems
    /\ current' = desired
    /\ Return
    /\ UNCHANGED <<inputs, trigger, bound, kTable, happened>>

\* Controller.Apply commits.  Without handles queueElements queues nothing and
\* the empty flush succeeds.
Commit ==
    /\ Evaluated
    /\ desired # current
    /\ bound => Committable
    /\ kElems' = IF bound THEN (kElems \cup ToAdd) \ ToRem ELSE kElems
    /\ current' = desired
    /\ Return
    /\ UNCHANGED <<inputs, trigger, bound, kTable, happened>>

\* Mutant of Refused: the sets are taken for installed before the error is seen.
Refused_Believes(kind) ==
    /\ Evaluated
    /\ desired # current
    /\ bound
    /\ current' = desired
    /\ Return
    /\ happened' = happened \cup {kind}
    /\ UNCHANGED <<inputs, trigger>>

\* The kernel refuses the batch: the builder forgets what it believed.
Refused(kind) ==
    /\ Evaluated
    /\ desired # current
    /\ bound
    /\ current' = {}
    /\ Return
    /\ happened' = happened \cup {kind}
    /\ UNCHANGED <<inputs, trigger>>

\* ... and reinitializeConn rebuilds table, chain, sets and rules.  Init
\* flushes the chain's rules; it does not flush the sets.
Rebuild ==
    /\ "rebuilt" \in Faults \/ ~Committable
    /\ Refused("rebuilt")
    /\ kTable' = TRUE
    /\ UNCHANGED <<bound, kElems>>

\* ... but nftables.New fails and the old connection stays, or the batch of
\* Init is refused as well: either way there are handles and no new table.
NotRebuilt ==
    /\ "kept" \in Faults
    /\ Refused("kept")
    /\ UNCHANGED kernel

\* ... but Init returns before it has handles (capability, interface, socket).
RebuildEarly ==
    /\ "early" \in Faults
    /\ Refused("early")
    /\ bound' = FALSE
    /\ UNCHANGED <<kTable, kElems>>

\* POST /nftables/flush, or shutdown_behavior "flush": the table goes, the
\* builder is not told.  Without handles FlushTable returns at once.
FlushTable ==
    /\ "flushed" \in Faults
    /\ bound
    /\ kTable
    /\ kTable' = FALSE
    /\ kElems' = {}
    /\ happened' = happened \cup {"flushed"}
    /\ UNCHANGED <<inputs, trigger, builder, bound>>

\* The process dies and main starts again: Init adds what is missing and the
\* elements of the last run stay; the cache is empty until DIS answers.
Restart ==
    /\ "restarted" \in Faults
    /\ cache' = Nothing
    /\ trigger' = FALSE
    /\ Return
    /\ current' = {}
    /\ bound' = TRUE
    /\ kTable' = TRUE
    /\ happened' = {"restarted"}
    /\ UNCHANGED <<decision, kElems>>

Refusal == Rebuild \/ NotRebuilt \/ RebuildEarly
SyncStep == StartSync \/ (\E d \in Devices : Evaluate(d)) \/ Unchanged \/ Commit \/ Refusal

Next == (\E d \in Devices : Change(d)) \/ SyncStep \/ FlushTable \/ Restart

\* The loop of Sync.Run goes on for as long as the process lives: its ticker
\* fires every ten seconds and recover() keeps a panic from ending it.
Spec == Init /\ [][Next]_vars /\ WF_vars(SyncStep)

-----------------------------------------------------------------------------
(* Properties                                                              *)

\* As long as no fault has occurred the builder's belief is the kernel: every
\* element Builder.Sync computes a difference from is installed, and no other.
MirrorsKernel ==
    happened = {} => bound /\ kTable /\ kElems = current

\* The faults after which the builder may believe too little, never too much.
Benign == {"rebuilt", "kept", "restarted"}

\* After refused batches and restarts, and again after a restart that follows
\* a flush or a failed Init, the builder never believes that an element is
\* installed which is not, so Builder.Sync cannot fail to send a block.
NoPhantomElement ==
    happened \subseteq Benign => bound /\ kTable /\ current \subseteq kElems

\* What the builder lists as blocked by MAC is dropped by the rules of
\* addRules, whatever is left in the other sets and whatever address the
\* packet carries.
ListedBlocksDrop ==
    happened \subseteq Benign =>
        \A m \in MACs, ip \in IPs : <<"block", m>> \in current => Verdict(m, ip) = "drop"

Blocked(d) == ~cache[d].infra /\ decision[d] = "block"
Allowed(d) == cache[d].infra \/ (cache[d].online /\ decision[d] = "allow")

BlocksEnforced ==
    \A d \in Devices : Blocked(d) =>
        \A m \in cache[d].macs, ip \in IPs : Verdict(m, ip) = "drop"
AllowsEnforced ==
    \A d \in Devices : Allowed(d) =>
        \A m \in cache[d].macs, ip \in IPs : Verdict(m, ip) = "accept"
InfrastructureAccepted ==
    \A d \in Devices : cache[d].infra =>
        \A m \in cache[d].macs, ip \in IPs : Verdict(m, ip) = "accept"

\* From some moment on nothing changes any more but what the loop does, and
\* the kernel refuses no batch.
Calm == UNCHANGED inputs /\ ~Refusal /\ ~FlushTable /\ ~Restart
EventuallyCalm == <>[][Calm]_vars

\* Without faults every decision reaches the kernel and stays there, for a
\* trigger that was dropped and for a change that sent none: the packets of a
\* blocked device are dropped and those of an allowed one accepted, also when
\* two devices have used the same address.
Converges ==
    EventuallyCalm /\ [](happened = {}) => <>[](BlocksEnforced /\ AllowsEnforced)

\* Refused batches and restarts delay a block but never lose it, and a restart
\* recovers the blocks that a flush or a failed Init lost.
BlocksConverge ==
    EventuallyCalm /\ <>[](happened \subseteq Benign) => <>[]BlocksEnforced

\* README.md "Infrastructure devices can never be accidentally disconnected".
InfrastructureStaysConnected == EventuallyCalm => <>[]InfrastructureAccepted
=============================================================================
