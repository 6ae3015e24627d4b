---------------------------- MODULE Correlation -----------------------------
(* The correlation engine of DIS: one goroutine for each provider looks the *)
(* device of an observation up, works on a clone of its record and writes   *)
(* the clone back, while the sweeps, the deferred-online loop and the       *)
(* flusher of dirty devices do the same to the same records.                *)
(*                                                                          *)
(* Data: an observation is its source, MAC, IP and canonical hostname; one  *)
(* that repeats another within two seconds is not taken.  Services,         *)
(* vendors, scores and events are left out; of what a row holds the part of *)
(* the record that is material here.  A lookup is one step, as is a write   *)
(* with the claims of hostnames around it: the steps in between are those   *)
(* at which a clone can grow old or a mark be missing.                      *)
EXTENDS Inventory, FiniteSets

CONSTANTS
    Sources,            \* those of the five sources below that are enabled
    Gateways,           \* the IPs that end in .1 or .254
    Bindable,           \* MACs an administrator may bind to a device
    MaxObservations,    \* bounds the observations that are processed
    MaxBindings,        \* bounds the bindings
    MaxRestarts         \* bounds the restarts

ASSUME SourcesAssumption ==
    Sources \subseteq {"netlink", "dhcp", "openwrt_ap", "openwrt_neigh", "pihole"}
ASSUME BoundsAssumption ==
    MaxObservations \in Nat /\ MaxBindings \in Nat /\ MaxRestarts \in Nat

Provider(source) ==
    IF source \in {"openwrt_ap", "openwrt_neigh"} THEN "dhcp" ELSE source
Consumers == {Provider(s) : s \in Sources}

\* What each source reports.
WellFormed(o) ==
    CASE o.source \in {"netlink", "openwrt_neigh"} ->
            o.mac # None /\ o.ip # None /\ o.host = None
      [] o.source = "openwrt_ap" -> o.mac # None /\ o.ip = None /\ o.host = None
      [] o.source = "dhcp" -> o.mac # None /\ o.ip # None
      [] o.source = "pihole" -> o.ip # None /\ (o.mac # None \/ o.host # None)

Observations ==
    {o \in [source : Sources, mac : OrNone(MACs), ip : OrNone(IPs), host : OrNone(Hosts)] :
        WellFormed(o)}

Material(r) == [macs |-> r.macs, mac |-> r.mac, ips |-> r.ips, ip |-> r.ip,
                name |-> r.name, host |-> r.host, tier |-> r.tier, infra |-> r.infra]
Rows == [macs : SUBSET MACs, mac : OrNone(MACs), ips : SUBSET IPs, ip : OrNone(IPs),
         name : OrNone(Hosts), host : OrNone(Hosts), tier : Tiers, infra : BOOLEAN]

Idle == [at |-> "idle"]
Found == [at : {"found"}, obs : Observations, device : PDIDs, clone : Records]
New == [at : {"new"}, obs : Observations]
Persisting == [at : {"persist"}, device : PDIDs, clone : Records]
Marking == [at : {"mark"}, device : PDIDs]
Holding == [at : {"write"}, device : PDIDs, clone : Records]

VARIABLES
    inv,            \* inventory.Cache
    rows,           \* the devices table with its MACs and IPs
    bound,          \* the devices each MAC is a verified alias of
    dirty,          \* Engine.dirtyDevices
    deferred,       \* Engine.deferredOnline
    consumer,       \* where the goroutine of each provider is
    promoter,       \* where runDeferredOnlineSweep is
    batch,          \* the rows flushDirty is about to save
    issued,         \* the PDIDs allocated so far
    observations, bindings, restarts,   \* counted up to their bounds
    overwritten,    \* history: devices a clone or row older than the record replaced
    heard           \* history: the devices that have answered since the start

counters == <<observations, bindings, restarts>>
history == <<overwritten, heard>>
vars == <<inv, rows, bound, dirty, deferred, consumer, promoter, batch, issued, counters, history>>

TypeOK ==
    /\ inv \in Inventories
    /\ rows \in [PDIDs -> Rows \cup {Absent}]
    /\ bound \in [MACs -> SUBSET PDIDs]
    /\ dirty \subseteq PDIDs /\ deferred \subseteq PDIDs
    /\ consumer \in [Consumers -> {Idle} \cup Found \cup New \cup Persisting \cup Marking]
    /\ promoter \in {Idle} \cup Holding
    /\ DOMAIN batch \subseteq PDIDs /\ \A p \in DOMAIN batch : batch[p] \in Rows
    /\ issued \subseteq PDIDs
    /\ observations \in 0 .. MaxObservations
    /\ bindings \in 0 .. MaxBindings /\ restarts \in 0 .. MaxRestarts
    /\ overwritten \subseteq PDIDs /\ heard \subseteq PDIDs

NoBatch == [p \in {} |-> Absent]

Init ==
    /\ inv = Empty
    /\ rows = [p \in PDIDs |-> Absent]
    /\ bound = [m \in MACs |-> {}]
    /\ dirty = {} /\ deferred = {}
    /\ consumer = [c \in Consumers |-> Idle]
    /\ promoter = Idle
    /\ batch = NoBatch
    /\ issued = {}
    /\ observations = 0 /\ bindings = 0 /\ restarts = 0
    /\ overwritten = {} /\ heard = {}

\* The device if its record is not the clone any more: writing back replaces
\* what another goroutine has written.
Overtaken(p, clone) ==
    IF inv.devices[p] # Absent /\ Material(inv.devices[p]) = Material(clone) THEN {} ELSE {p}

-----------------------------------------------------------------------------
(* processObservation: the lookups                                         *)

\* The only device an administrator has bound the MAC to, if it is cached.
Verified(mac) ==
    {p \in Cached(inv) : mac \in Bindable /\ bound[mac] = {p}}

\* The MAC alias first, the MAC index next, and the IP index without a MAC.
Lookup(o) ==
    IF o.mac = None THEN inv.byIP[o.ip]
    ELSE IF Verified(o.mac) # {} THEN CHOOSE p \in Verified(o.mac) : TRUE
    ELSE inv.byMAC[o.mac]

\* A new MAC under an address that is indexed for a device without that MAC.
Displaces(o) ==
    /\ o.mac # None /\ o.ip # None /\ Lookup(o) = None
    /\ inv.byIP[o.ip] # None
    /\ o.mac \notin inv.devices[inv.byIP[o.ip]].macs

Observe(c, o) ==
    /\ consumer[c] = Idle
    /\ Provider(o.source) = c
    /\ o.source = "pihole" => inv.byIP[o.ip] = None
    /\ observations < MaxObservations
    /\ observations' = observations + 1
    /\ consumer' = [consumer EXCEPT ![c] =
           IF Lookup(o) = None THEN [at |-> "new", obs |-> o]
           ELSE [at |-> "found", obs |-> o, device |-> Lookup(o),
                 clone |-> inv.devices[Lookup(o)]]]
    /\ IF Displaces(o)
       THEN inv' \in RemoveIPIndex(inv, o.ip) /\ dirty' = dirty \cup {inv.byIP[o.ip]}
       ELSE UNCHANGED <<inv, dirty>>
    /\ UNCHANGED <<rows, bound, deferred, promoter, batch, issued, bindings, restarts, history>>

-----------------------------------------------------------------------------
(* processObservation: presence                                            *)

\* obs.Online and canTriggerOnline
Positive(o) == o.source \in {"netlink", "openwrt_ap", "openwrt_neigh"}

UpdatesIP(o) == o.source \in {"netlink", "dhcp", "openwrt_neigh"}

\* A positive observation of a record that is offline: online at once from an
\* access point or for infrastructure, else after the delay.
Sensed(o, r) ==
    IF r.online \/ ~Positive(o) THEN r
    ELSE IF r.infra \/ r.ip \in Gateways
    THEN [r EXCEPT !.infra = TRUE, !.online = TRUE, !.waiting = FALSE]
    ELSE IF o.source \in {"openwrt_ap", "openwrt_neigh"}
    THEN [r EXCEPT !.online = TRUE, !.waiting = FALSE]
    ELSE [r EXCEPT !.waiting = TRUE]

\* History: what these sources report answers now, whatever the engine makes of it.
Heard(o, p) == IF o.source \in {"dhcp", "pihole"} THEN heard ELSE heard \cup {p}

-----------------------------------------------------------------------------
(* processObservation: a device that is known                              *)

\* The hostname is claimed from another owner, or not heard.
Claimed(o, p) ==
    IF o.host # None /\ inv.owners[o.host] \notin {None, p}
    THEN AcquireHostname(inv, o.host, p) ELSE inv
HostOf(o, p) == IF o.host # None /\ Rejected(inv, o.host, p) THEN None ELSE o.host

\* The clone after the MAC, presence, hostname, IP and time of an observation.
Named(r, host) ==
    IF host = None \/ r.name = host THEN r ELSE [r EXCEPT !.name = host, !.host = host]
Addressed(o, r) == IF UpdatesIP(o) THEN AddIP(r, o.ip) ELSE r
Updated(o, r, host) ==
    [Addressed(o, Named(Sensed(o, AddMAC(r, o.mac)), host)) EXCEPT !.age = "now"]

Renamed(cache, p, r, host) ==
    IF host = None \/ r.name = host THEN cache
    ELSE AcquireHostname(ReleaseHostname(cache, r.host, p), host, p)

\* materialDirty
Marks(old, new) == Material(old) # Material(new)

\* What the record becomes, and whether it is marked: a promotion keeps the
\* rest of the observation out.
Promote(r, o, host) == [AddMAC(r, o.mac) EXCEPT !.tier = Tier(o.mac, host), !.host = host]

Write(c) ==
    LET o == consumer[c].obs
        p == consumer[c].device
        r == consumer[c].clone
        host == HostOf(o, p)
        promoted == CanPromote(r.tier, Tier(o.mac, host))
        new == IF promoted THEN Promote(r, o, host) ELSE Updated(o, r, host)
        cache == IF promoted THEN Claimed(o, p) ELSE Renamed(Claimed(o, p), p, r, host)
    IN /\ consumer[c].at = "found"
       /\ inv' = Upsert(cache, p, new)
       /\ consumer' = [consumer EXCEPT ![c] =
              IF promoted \/ Marks(r, new) THEN [at |-> "mark", device |-> p] ELSE Idle]
       /\ deferred' = IF ~promoted /\ Positive(o) /\ new.waiting THEN deferred \cup {p}
                      ELSE deferred
       /\ overwritten' = overwritten \cup Overtaken(p, r)
       /\ heard' = Heard(o, p)
       /\ UNCHANGED <<rows, bound, dirty, promoter, batch, issued, counters>>

\* markDirty
Mark(c) ==
    /\ consumer[c].at = "mark"
    /\ dirty' = dirty \cup {consumer[c].device}
    /\ consumer' = [consumer EXCEPT ![c] = Idle]
    /\ UNCHANGED <<inv, rows, bound, deferred, promoter, batch, issued, counters, history>>

-----------------------------------------------------------------------------
(* processObservation: a new device                                        *)

\* An owner that is online keeps the hostname from the new device.
NewRecord(o) ==
    LET host == IF o.host # None /\ IsHostnameActivelyOwned(inv, o.host) THEN None ELSE o.host
        blank == [macs |-> {}, mac |-> None, ips |-> {}, ip |-> None, name |-> host,
                  host |-> host, tier |-> Tier(o.mac, host), infra |-> FALSE,
                  online |-> FALSE, waiting |-> FALSE, age |-> "now"]
        keyed == AddMAC(blank, o.mac)
    IN Sensed(o, IF o.source = "pihole" THEN keyed ELSE AddIP(keyed, o.ip))

Create(c) ==
    LET o == consumer[c].obs
        r == NewRecord(o)
    IN /\ consumer[c].at = "new"
       /\ \E p \in PDIDs \ issued :
             LET cache == Upsert(inv, p, r)
             IN /\ inv' = IF r.host = None THEN cache ELSE AcquireHostname(cache, r.host, p)
                /\ issued' = issued \cup {p}
                /\ heard' = Heard(o, p)
                /\ consumer' = [consumer EXCEPT ![c] =
                       [at |-> "persist", device |-> p, clone |-> r]]
       /\ UNCHANGED <<rows, bound, dirty, deferred, promoter, batch, counters, overwritten>>

Persist(c) ==
    LET p == consumer[c].device
        r == consumer[c].clone
    IN /\ consumer[c].at = "persist"
       /\ rows' = [rows EXCEPT ![p] = Material(r)]
       /\ deferred' = IF r.waiting THEN deferred \cup {p} ELSE deferred
       /\ overwritten' = overwritten \cup Overtaken(p, r)
       /\ consumer' = [consumer EXCEPT ![c] = Idle]
       /\ UNCHANGED <<inv, bound, dirty, promoter, batch, issued, counters, heard>>

PersistFails(c) ==
    /\ consumer[c].at = "persist"
    /\ inv' = Delete(inv, consumer[c].device)
    /\ consumer' = [consumer EXCEPT ![c] = Idle]
    /\ UNCHANGED <<rows, bound, dirty, deferred, promoter, batch, issued, counters, history>>

-----------------------------------------------------------------------------
(* flushDirty                                                              *)

FlushTake ==
    /\ DOMAIN batch = {} /\ dirty # {}
    /\ batch' = [p \in dirty \cap Cached(inv) |-> Material(inv.devices[p])]
    /\ dirty' = {}
    /\ UNCHANGED <<inv, rows, bound, deferred, consumer, promoter, issued, counters, history>>

FlushSave ==
    /\ DOMAIN batch # {}
    /\ rows' = [p \in PDIDs |-> IF p \in DOMAIN batch THEN batch[p] ELSE rows[p]]
    /\ batch' = NoBatch
    /\ UNCHANGED <<inv, bound, dirty, deferred, consumer, promoter, issued, counters, history>>

\* Mutant of Retried: what could not be saved is forgotten.
Retried_Forgotten(failed) == {}

\* What could not be saved is dirty again.
Retried(failed) == DOMAIN failed

FlushFails ==
    /\ DOMAIN batch # {}
    /\ dirty' = dirty \cup Retried(batch)
    /\ batch' = NoBatch
    /\ UNCHANGED <<inv, rows, bound, deferred, consumer, promoter, issued, counters, history>>

-----------------------------------------------------------------------------
(* The sweeps and the deferred-online loop                                 *)

\* Clones are held for less time than the thresholds, and a device is demoted
\* before offlineTTL has passed.
Held(p) ==
    \/ \E c \in Consumers : consumer[c].at \in {"found", "persist"} /\ consumer[c].device = p
    \/ promoter.at = "write" /\ promoter.device = p

Age(p) ==
    /\ p \in Cached(inv) /\ ~Held(p)
    /\ inv.devices[p].age # "old"
    /\ inv.devices[p].age = "stale" => ~inv.devices[p].online
    /\ inv' = [inv EXCEPT !.devices[p].age = IF @ = "now" THEN "stale" ELSE "old"]
    /\ UNCHANGED <<rows, bound, dirty, deferred, consumer, promoter, batch, issued,
                   counters, history>>

Demote ==
    /\ inv' = DemoteStale(inv)
    /\ UNCHANGED <<rows, bound, dirty, deferred, consumer, promoter, batch, issued,
                   counters, history>>

Purge ==
    /\ inv' = PurgeOffline(inv)
    /\ UNCHANGED <<rows, bound, dirty, deferred, consumer, promoter, batch, issued,
                   counters, history>>

\* Mutant of Due: the device may have gone or come online by now.
Due_Unchecked(p) == [at |-> "write", device |-> p, clone |-> inv.devices[p]]

Due(p) ==
    IF p \in Cached(inv) /\ ~inv.devices[p].online /\ inv.devices[p].waiting
    THEN [at |-> "write", device |-> p, clone |-> inv.devices[p]] ELSE Idle

\* The devices that are due are taken from the map as their turn comes.
DeferredTake(p) ==
    /\ promoter.at = "idle" /\ p \in deferred
    /\ deferred' = deferred \ {p}
    /\ promoter' = Due(p)
    /\ UNCHANGED <<inv, rows, bound, dirty, consumer, batch, issued, counters, history>>

DeferredWrite ==
    LET p == promoter.device
        r == promoter.clone
    IN /\ promoter.at = "write"
       /\ inv' = Upsert(inv, p, [r EXCEPT !.online = TRUE, !.waiting = FALSE])
       /\ overwritten' = overwritten \cup Overtaken(p, r)
       /\ promoter' = Idle
       /\ UNCHANGED <<rows, bound, dirty, deferred, consumer, batch, issued, counters, heard>>

-----------------------------------------------------------------------------
(* Administrators and restarts                                             *)

\* BindIdentityAlias and RevokeIdentityAlias
Bind(m, p) ==
    /\ p \in Cached(inv) /\ rows[p] # Absent
    /\ p \notin bound[m]
    /\ bindings < MaxBindings
    /\ bindings' = bindings + 1
    /\ bound' = [bound EXCEPT ![m] = @ \cup {p}]
    /\ dirty' = dirty \cup {p}
    /\ UNCHANGED <<inv, rows, deferred, consumer, promoter, batch, issued, observations,
                   restarts, history>>

Revoke(m, p) ==
    /\ p \in bound[m]
    /\ bound' = [bound EXCEPT ![m] = @ \ {p}]
    /\ UNCHANGED <<inv, rows, dirty, deferred, consumer, promoter, batch, issued,
                   counters, history>>

\* Mutant of Hydrated: a device that has an address comes back online.
Hydrated_Online(row) ==
    [macs |-> row.macs, mac |-> row.mac, ips |-> row.ips, ip |-> row.ip, name |-> row.name,
     host |-> row.host, tier |-> row.tier, infra |-> row.infra,
     online |-> row.ip # None, waiting |-> FALSE, age |-> "old"]

\* Presence is not restored.  Rows keep the last_seen of their insertion, taken
\* to be over a day ago: a younger record allows no more than this one.
Hydrated(row) ==
    [macs |-> row.macs, mac |-> row.mac, ips |-> row.ips, ip |-> row.ip, name |-> row.name,
     host |-> row.host, tier |-> row.tier, infra |-> row.infra,
     online |-> FALSE, waiting |-> FALSE, age |-> "old"]

\* The saved devices that one of them is indexed from; None if there is none.
Candidates(saved) == IF saved = {} THEN {None} ELSE saved

\* LoadHydrate, and the Upsert of what it returns in any order: of two devices
\* with the same key the last one is indexed.
Hydrate ==
    LET saved == {p \in PDIDs : rows[p] # Absent}
    IN \E byMAC \in [MACs -> OrNone(saved)], byIP \in [IPs -> OrNone(saved)] :
          /\ \A m \in MACs : byMAC[m] \in Candidates({p \in saved : rows[p].mac = m})
          /\ \A i \in IPs : byIP[i] \in Candidates({p \in saved : rows[p].ip = i})
          /\ inv' = [devices |-> [p \in PDIDs |->
                                     IF p \in saved THEN Hydrated(rows[p]) ELSE Absent],
                     byMAC |-> byMAC, byIP |-> byIP, owners |-> inv.owners]

Restart ==
    /\ restarts < MaxRestarts
    /\ restarts' = restarts + 1
    /\ Hydrate
    /\ dirty' = {} /\ deferred' = {}
    /\ consumer' = [c \in Consumers |-> Idle]
    /\ promoter' = Idle
    /\ batch' = NoBatch
    /\ overwritten' = {} /\ heard' = {}
    /\ UNCHANGED <<rows, bound, issued, observations, bindings>>

Step(c) == Write(c) \/ Mark(c) \/ Create(c) \/ Persist(c) \/ PersistFails(c)

Next ==
    \/ \E c \in Consumers : (\E o \in Observations : Observe(c, o)) \/ Step(c)
    \/ FlushTake \/ FlushSave \/ FlushFails
    \/ \E p \in PDIDs : Age(p) \/ DeferredTake(p)
    \/ DeferredWrite \/ Demote \/ Purge
    \/ \E m \in Bindable, p \in PDIDs : Bind(m, p) \/ Revoke(m, p)
    \/ Restart

Spec == Init /\ [][Next]_vars

-----------------------------------------------------------------------------
(* Properties                                                              *)

\* What an index of the cache names is in the cache and has the key for its
\* current one, whichever clones are written back and whatever is deleted
\* meanwhile (Upsert, RemoveIPIndex, Delete, purgeOffline): a stale entry
\* would give the observations of one device to another.
IndexNamesHolder == Indexed(inv)

InFlight ==
    DOMAIN batch \cup
    {p \in PDIDs : \E c \in Consumers :
        consumer[c].at \in {"persist", "mark"} /\ consumer[c].device = p}

\* A record that differs from its row is on its way to it: marked, about to
\* be marked, or in the batch, also when a flush fails or the record changes
\* while the batch is saved (processObservation, flushDirty).  The exception
\* is a record that a clone older than itself has replaced.
ChangesReachStorage ==
    \A p \in Cached(inv) \ (dirty \cup InFlight \cup overwritten) :
        rows[p] = Material(inv.devices[p])

\* A device is online only if it has answered since DIS started: neither
\* leases, Pi-hole clients nor what was stored bring it online (LoadHydrate,
\* canTriggerOnline, flushDeferredOnline).
OnlineNeedsEvidence ==
    \A p \in Cached(inv) : inv.devices[p].online => p \in heard
=============================================================================
