------------------------------ MODULE LiasSync ------------------------------
(* LIAS follows the inventory of DIS: a poller lists all devices, a stream  *)
(* of events tells of changes in between, each of which a goroutine of its  *)
(* own answers by fetching the device, and a merge in DIS moves what LIAS   *)
(* keeps about a device - tags, person and policies - to the surviving      *)
(* one: in the database, in the policy engine and in the cache, in three    *)
(* steps.  Administrators change the same three.                            *)
(*                                                                          *)
(* Data: of a DIS record its MACs and whether it is online; the order of    *)
(* the MACs, of which the first with tags counts, is left open.  Friendly   *)
(* names are treated as the person is and left out.  The removals of one    *)
(* poll are one step and so are its updates: they are about different       *)
(* devices.                                                                 *)
EXTENDS Integers, Sequences, FiniteSets

CONSTANTS
    PDIDs, MACs, TagIDs, Users,
    Names,              \* of policies: temporary ones have the device in their id
    Priorities,
    PausePriority,      \* that of a pause; 1000 in the code
    None,
    Generic,            \* the tag of a device that has no other
    Kept,               \* the database of an earlier run
    Listed,             \* the inventory of DIS at first
    Fetchers,           \* goroutines that answer events
    Capacity,           \* of a client's channel in DIS; 128 in the code
    MaxChanges,         \* bounds the changes in DIS and the requests in LIAS
    MaxRequests,        \* bounds the requests of administrators
    MaxFaults           \* bounds lost connections, failures and restarts

Absent == [absent |-> TRUE]
Records == [macs : SUBSET MACs, online : BOOLEAN]
Policies == [name : Names, device : PDIDs, priority : Priorities]
Rows == [device : PDIDs, tag : TagIDs, mac : MACs \cup {None}]
OrNone(S) == S \cup {None}

\* The tables device_tags, device_users, policies, identity_migrations and
\* identity_pdid_redirects.
Stores == [rows : SUBSET Rows, users : [PDIDs -> OrNone(Users)],
           policies : SUBSET Policies, migrated : [PDIDs -> OrNone(PDIDs)],
           redirects : [PDIDs -> OrNone(PDIDs)]]

ASSUME DataAssumption ==
    /\ Generic \in TagIDs /\ PausePriority \in Priorities /\ "pause" \in Names
    /\ Kept \in Stores
    /\ Listed \in [PDIDs -> Records \cup {Absent}]
    /\ None \notin PDIDs \cup MACs \cup Users
    /\ Priorities \subseteq Int

\* Who is looked up in a log entry's place survives, and a device that was
\* merged is not listed.
ASSUME KeptAssumption == \A p \in PDIDs :
    /\ Kept.migrated[p] # None => Kept.redirects[p] # None /\ Listed[p] = Absent
    /\ Kept.redirects[p] # None => Kept.migrated[Kept.redirects[p]] = None

ASSUME BoundsAssumption ==
    /\ Capacity \in Nat /\ MaxChanges \in Nat /\ MaxRequests \in Nat /\ MaxFaults \in Nat

VARIABLES
    dis,        \* the inventory of DIS
    merged,     \* the merges in DIS: the survivor of each merged device
    stream,     \* the channel of the client in DIS's broker, if it is connected
    cache,      \* Cache: devices, stickyTags, stickyMACs and userAssignments
    engine,     \* the device policies in policy.Engine
    store,
    lastSeen,   \* DISClient.lastSeenInDIS: whether that was in the last 5 minutes
    poller,     \* where pollDevices is
    sse,        \* where handleEvent is
    fetch,      \* where the goroutines are
    admin,      \* the request that is served
    changes, requests, faults,
    lost,       \* history: merges whose event did not arrive or could not be followed
    raced       \* history: devices a request and a migration changed at the same time

remote == <<dis, merged, changes>>
history == <<lost, raced>>
vars == <<remote, stream, cache, engine, store, lastSeen, poller, sse, fetch,
          admin, requests, faults, history>>

Local == [macs : SUBSET MACs, online : BOOLEAN, tags : SUBSET TagIDs]
Caches == [devices : [PDIDs -> Local \cup {Absent}], sticky : [PDIDs -> SUBSET TagIDs],
           byMAC : [MACs -> SUBSET TagIDs], users : [PDIDs -> OrNone(Users)]]
Events ==
    [type : {"removed", "changed"}, pdid : PDIDs]
    \cup [type : {"record"}, pdid : PDIDs, record : Records]
    \cup [type : {"presence"}, pdid : PDIDs, online : BOOLEAN]
    \cup [type : {"reidentified"}, old : PDIDs, new : PDIDs, macs : SUBSET MACs]

Idle == [at |-> "idle"]
Fetches == [at : {"get"}, pdid : PDIDs] \cup [at : {"upsert"}, pdid : PDIDs, record : Records]
FetchJobs == {Idle} \cup Fetches \cup [at : {"patch"}, pdid : PDIDs, online : BOOLEAN]
Migrations ==
    [at : {"store"}, old : PDIDs, new : PDIDs, macs : SUBSET MACs]
    \cup [at : {"engine", "cache"}, old : PDIDs, new : PDIDs, macs : SUBSET MACs,
          tags : SUBSET TagIDs, user : OrNone(Users), policies : SUBSET Policies]
PollerJobs == {Idle} \cup [at : {"remove", "upsert"}, list : [PDIDs -> Records \cup {Absent}]]
AdminJobs == {Idle}
    \cup [at : {"save"}, what : {"tags"}, pdid : PDIDs, tags : SUBSET TagIDs, mac : OrNone(MACs)]
    \cup [at : {"save"}, what : {"policy"}, pdid : PDIDs, policy : Policies]
    \cup [at : {"set"}, pdid : PDIDs, user : OrNone(Users)]

TypeOK ==
    /\ dis \in [PDIDs -> Records \cup {Absent}]
    /\ merged \in [PDIDs -> OrNone(PDIDs)]
    /\ stream \in [up : BOOLEAN, queue : Seq(Events)] /\ Len(stream.queue) <= Capacity
    /\ cache \in Caches
    /\ engine \in SUBSET Policies
    /\ store \in Stores
    /\ lastSeen \in [PDIDs -> {"never", "lately", "before"}]
    /\ poller \in PollerJobs
    /\ sse \in {Idle} \cup Migrations \cup Fetches
    /\ fetch \in [Fetchers -> FetchJobs]
    /\ admin \in AdminJobs
    /\ changes \in 0 .. MaxChanges /\ requests \in 0 .. MaxRequests
    /\ faults \in 0 .. MaxFaults
    /\ lost \subseteq PDIDs /\ raced \subseteq PDIDs

Present(inventory) == {p \in PDIDs : inventory[p] # Absent}
Cached == Present(cache.devices)

-----------------------------------------------------------------------------
(* The cache                                                               *)

\* applyStickyTagLocked: the tags of the device, else those of one of its
\* MACs, else those it has.
TagsOf(c, p, macs) ==
    LET tagged == {m \in macs : c.byMAC[m] # {}} IN
    IF c.sticky[p] # {} THEN {c.sticky[p]}
    ELSE IF tagged # {} THEN {c.byMAC[m] : m \in tagged}
    ELSE IF c.devices[p] # Absent THEN {c.devices[p].tags} ELSE {{Generic}}

\* UpsertDevice: what a MAC brings along stays with the device.
Upserts(c, p, r) ==
    {[c EXCEPT !.devices[p] = [macs |-> r.macs, online |-> r.online, tags |-> tags],
               !.sticky[p] = IF @ = {} /\ \E m \in r.macs : c.byMAC[m] # {} THEN tags ELSE @] :
        tags \in TagsOf(c, p, r.macs)}

RemoveDevice(c, p) == [c EXCEPT !.devices[p] = Absent]

PatchDeviceOnline(c, p, online) ==
    IF c.devices[p] = Absent THEN c ELSE [c EXCEPT !.devices[p].online = online]

SetTags(c, p, tags) ==
    LET macs == IF c.devices[p] = Absent THEN {} ELSE c.devices[p].macs IN
    [c EXCEPT !.sticky[p] = tags,
              !.byMAC = [m \in MACs |-> IF m \in macs THEN tags ELSE @[m]],
              !.devices[p] = IF @ = Absent THEN @ ELSE [@ EXCEPT !.tags = tags]]

SetUserID(c, p, u) == [c EXCEPT !.users[p] = u]

\* Mutant of ReconcileIdentityMigration: the merged device keeps its person.
ReconcileIdentityMigration_Shared(c, old, new, macs, tags, u) ==
    [c EXCEPT !.sticky = [p \in PDIDs |->
                  IF p = old THEN {} ELSE IF p = new /\ tags # {} THEN tags ELSE @[p]],
              !.byMAC = [m \in MACs |-> IF m \in macs /\ tags # {} THEN tags ELSE @[m]],
              !.users[new] = IF u # None THEN u ELSE @,
              !.devices = [p \in PDIDs |->
                  IF p = old THEN Absent
                  ELSE IF p = new /\ @[p] # Absent /\ tags # {} THEN [@[p] EXCEPT !.tags = tags]
                  ELSE @[p]]]

\* The committed settings lie over the record of the surviving device; what
\* the database has none of stays as it is.
ReconcileIdentityMigration(c, old, new, macs, tags, u) ==
    [c EXCEPT !.sticky = [p \in PDIDs |->
                  IF p = old THEN {} ELSE IF p = new /\ tags # {} THEN tags ELSE @[p]],
              !.byMAC = [m \in MACs |-> IF m \in macs /\ tags # {} THEN tags ELSE @[m]],
              !.users = [p \in PDIDs |->
                  IF p = old THEN None ELSE IF p = new /\ u # None THEN u ELSE @[p]],
              !.devices = [p \in PDIDs |->
                  IF p = old THEN Absent
                  ELSE IF p = new /\ @[p] # Absent /\ tags # {} THEN [@[p] EXCEPT !.tags = tags]
                  ELSE @[p]]]

-----------------------------------------------------------------------------
(* The database                                                            *)

StoredTags(s, p) == {row.tag : row \in {row \in s.rows : row.device = p}}

\* LoadHydrate, LoadStickyTags and LoadLocalMetadata
Hydrated(s) ==
    [devices |-> [p \in PDIDs |-> Absent],
     sticky |-> [p \in PDIDs |-> StoredTags(s, p)],
     byMAC |-> [m \in MACs |-> {row.tag : row \in {row \in s.rows : row.mac = m}}],
     users |-> s.users]

SaveDeviceTags(s, p, tags, mac) ==
    [s EXCEPT !.rows = {row \in @ : row.device # p} \cup
                       {[device |-> p, tag |-> t, mac |-> mac] : t \in tags}]

\* UpsertPolicy and SavePolicy: the id of a temporary policy names its device.
SavePolicy(policies, p) ==
    {q \in policies : q.device # p.device \/ q.name # p.name} \cup {p}

\* device_tags: a row of the surviving device is kept where both have one.
MovedRows(s, old, new) ==
    LET taken == {row \in s.rows : row.device = old /\ row.tag \notin StoredTags(s, new)} IN
    {row \in s.rows : row.device # old} \cup {[row EXCEPT !.device = new] : row \in taken}

\* device_users: the person of the merged device, if the surviving one has none.
MovedUsers(users, old, new) ==
    [users EXCEPT ![new] = IF @ = None THEN users[old] ELSE @, ![old] = None]

\* migrateIdentityPoliciesTx: where the ids are the same now, the one of the
\* merged device wins if its priority is higher.
MovedPolicies(policies, old, new) ==
    LET sources == {[p EXCEPT !.device = new] : p \in {p \in policies : p.device = old}}
        targets == {p \in policies : p.device = new}
        SameID(p, q) == p.name = q.name
    IN {p \in policies : p.device \notin {old, new}}
       \cup {p \in sources : \A q \in targets : SameID(p, q) => p.priority > q.priority}
       \cup {q \in targets : \A p \in sources : SameID(p, q) => p.priority <= q.priority}

\* Mutant of MovedRedirects: earlier redirects are left as they are.
MovedRedirects_Chained(redirects, old, new) == [redirects EXCEPT ![old] = new]

\* Earlier redirects to the merged device lead to the surviving one.
MovedRedirects(redirects, old, new) ==
    [p \in PDIDs |-> IF p = old \/ redirects[p] = old THEN new ELSE redirects[p]]

\* Mutant of MigrateIdentityState: the person stays with the merged device.
MigrateIdentityState_Tagged(s, old, new) ==
    IF s.migrated[old] = new THEN s
    ELSE [s EXCEPT !.rows = MovedRows(s, old, new),
                   !.policies = MovedPolicies(@, old, new),
                   !.redirects = MovedRedirects(@, old, new),
                   !.migrated[old] = new]

\* One transaction, which is not repeated; not if there was another target.
MigrateIdentityState(s, old, new) ==
    IF s.migrated[old] = new THEN s
    ELSE [s EXCEPT !.rows = MovedRows(s, old, new),
                   !.users = MovedUsers(@, old, new),
                   !.policies = MovedPolicies(@, old, new),
                   !.redirects = MovedRedirects(@, old, new),
                   !.migrated[old] = new]

\* SaveFlowLog: the device an entry is written for.
LogTarget(s, p) == IF s.redirects[p] = None THEN p ELSE s.redirects[p]

-----------------------------------------------------------------------------
Down == [up |-> FALSE, queue |-> <<>>]

Init ==
    /\ dis = Listed
    /\ merged = Kept.migrated
    /\ stream = Down
    /\ store = Kept
    /\ cache = Hydrated(store)
    /\ engine = store.policies
    /\ lastSeen = [p \in PDIDs |-> "never"]
    /\ poller = Idle /\ sse = Idle /\ admin = Idle
    /\ fetch = [f \in Fetchers |-> Idle]
    /\ changes = 0 /\ requests = 0 /\ faults = 0
    /\ lost = {} /\ raced = {}

local == <<cache, engine, store, lastSeen, poller, sse, fetch, admin, requests>>
-----------------------------------------------------------------------------
(* DIS: a change is followed by its event (Engine, Broker.Broadcast)        *)

\* Who is not connected misses the event, and so does who reads too slowly.
Broadcast(e) ==
    LET heard == stream.up /\ Len(stream.queue) < Capacity IN
    /\ stream' = IF heard THEN [stream EXCEPT !.queue = Append(@, e)] ELSE stream
    /\ lost' = IF e.type = "reidentified" /\ ~heard THEN lost \cup {e.old} ELSE lost

Changes ==
    /\ changes + requests < MaxChanges
    /\ changes' = changes + 1
    /\ UNCHANGED <<local, faults, raced>>

Appear(p, r) ==
    /\ dis[p] = Absent /\ merged[p] = None
    /\ dis' = [dis EXCEPT ![p] = r]
    /\ Broadcast([type |-> "record", pdid |-> p, record |-> r])
    /\ Changes /\ UNCHANGED merged

Presence(p) ==
    /\ dis[p] # Absent
    /\ dis' = [dis EXCEPT ![p].online = ~@]
    /\ Broadcast([type |-> "presence", pdid |-> p, online |-> dis'[p].online])
    /\ Changes /\ UNCHANGED merged

NewMAC(p, m) ==
    /\ dis[p] # Absent /\ \A q \in Present(dis) : m \notin dis[q].macs
    /\ dis' = [dis EXCEPT ![p].macs = @ \cup {m}]
    /\ Broadcast([type |-> "changed", pdid |-> p])
    /\ Changes /\ UNCHANGED merged

\* purgeOffline tells nobody.  handleEvent knows an event for it, which this
\* DIS never sends and another may.
Removal(p) ==
    /\ dis[p] # Absent
    /\ dis' = [dis EXCEPT ![p] = Absent]
    /\ Broadcast([type |-> "removed", pdid |-> p]) \/ UNCHANGED <<stream, lost>>
    /\ Changes /\ UNCHANGED merged

\* ConfirmIdentityCandidate
Merge(old, new) ==
    /\ old # new /\ {old, new} \subseteq Present(dis)
    /\ dis' = [dis EXCEPT ![old] = Absent, ![new].macs = @ \cup dis[old].macs]
    /\ merged' = [merged EXCEPT ![old] = new]
    /\ Broadcast([type |-> "reidentified", old |-> old, new |-> new, macs |-> dis[old].macs])
    /\ Changes

-----------------------------------------------------------------------------
(* sseLoop and consumeSSE                                                  *)

Fault == faults < MaxFaults /\ faults' = faults + 1

\* The merges that are still to be followed.
Pending ==
    {stream.queue[i].old : i \in {i \in DOMAIN stream.queue :
                                      stream.queue[i].type = "reidentified"}}

\* A client that asks for no replay.
Connect ==
    /\ ~stream.up
    /\ stream' = [up |-> TRUE, queue |-> <<>>]
    /\ UNCHANGED <<remote, local, faults, history>>

Disconnect ==
    /\ Fault
    /\ stream.up
    /\ stream' = Down
    /\ lost' = lost \cup Pending
    /\ UNCHANGED <<remote, local, raced>>

\* The event that is read next, unless the last one is still being handled.
Arrivals == IF stream.queue = <<>> \/ sse # Idle THEN {} ELSE {Head(stream.queue)}
Read == stream' = [stream EXCEPT !.queue = Tail(@)]

\* device.removed is handled in place.
HandleRemoved ==
    \E e \in Arrivals :
        /\ Read
        /\ e.type = "removed"
        /\ cache' = RemoveDevice(cache, e.pdid)
        /\ lastSeen' = [lastSeen EXCEPT ![e.pdid] = "never"]
        /\ UNCHANGED <<remote, engine, store, poller, sse, fetch, admin, requests, faults, history>>

\* Most events are handled in a goroutine of their own.
Work(e) ==
    IF e.type = "record" THEN [at |-> "upsert", pdid |-> e.pdid, record |-> e.record]
    ELSE IF e.type = "presence" THEN [at |-> "patch", pdid |-> e.pdid, online |-> e.online]
    ELSE [at |-> "get", pdid |-> e.pdid]

HandleChange(f) ==
    \E e \in Arrivals :
        /\ Read
        /\ e.type \in {"record", "presence", "changed"}
        /\ fetch[f] = Idle
        /\ fetch' = [fetch EXCEPT ![f] = Work(e)]
        /\ UNCHANGED <<remote, cache, engine, store, lastSeen, poller, sse, admin, requests,
                       faults, history>>

\* Mutant of HandleReidentified: only for a device that is in the cache.
HandleReidentified_Known ==
    \E e \in Arrivals :
        /\ Read
        /\ e.type = "reidentified"
        /\ sse' = IF e.old \in Cached
                  THEN [at |-> "store", old |-> e.old, new |-> e.new, macs |-> e.macs] ELSE Idle
        /\ UNCHANGED <<remote, cache, engine, store, lastSeen, poller, fetch, admin, requests,
                       faults, history>>

HandleReidentified ==
    \E e \in Arrivals :
        /\ Read
        /\ e.type = "reidentified"
        /\ sse' = [at |-> "store", old |-> e.old, new |-> e.new, macs |-> e.macs]
        /\ UNCHANGED <<remote, cache, engine, store, lastSeen, poller, fetch, admin, requests,
                       faults, history>>

-----------------------------------------------------------------------------
(* MigrateIdentity                                                         *)

\* History: a request about one of the two is between its two steps.
Overlap(S) == IF admin # Idle /\ admin.pdid \in S THEN raced \cup S ELSE raced

\* The transaction refuses another target than it has recorded; a device is
\* merged once.
MigrateStore ==
    /\ sse.at = "store"
    /\ store.migrated[sse.old] \in {None, sse.new}
    /\ store' = MigrateIdentityState(store, sse.old, sse.new)
    /\ sse' = [at |-> "engine", old |-> sse.old, new |-> sse.new, macs |-> sse.macs,
               tags |-> StoredTags(store', sse.new), user |-> store'.users[sse.new],
               policies |-> {p \in store'.policies : p.device = sse.new}]
    /\ raced' = Overlap({sse.old, sse.new})
    /\ UNCHANGED <<remote, stream, cache, engine, lastSeen, poller, fetch, admin, requests,
                   faults, lost>>

\* The event is given up.
MigrateFails ==
    /\ Fault
    /\ sse.at = "store"
    /\ sse' = Idle
    /\ lost' = lost \cup {sse.old}
    /\ UNCHANGED <<remote, stream, cache, engine, store, lastSeen, poller, fetch, admin,
                   requests, raced>>

\* ReconcileDeviceIdentity
MigrateEngine ==
    /\ sse.at = "engine"
    /\ engine' = {p \in engine : p.device \notin {sse.old, sse.new}} \cup sse.policies
    /\ sse' = [sse EXCEPT !.at = "cache"]
    /\ UNCHANGED <<remote, stream, cache, store, lastSeen, poller, fetch, admin, requests,
                   faults, history>>

MigrateCache ==
    /\ sse.at = "cache"
    /\ cache' = ReconcileIdentityMigration(cache, sse.old, sse.new, sse.macs, sse.tags, sse.user)
    /\ sse' = [at |-> "get", pdid |-> sse.new]
    /\ UNCHANGED <<remote, stream, engine, store, lastSeen, poller, fetch, admin, requests,
                   faults, history>>

-----------------------------------------------------------------------------
(* fetchSingleDevice                                                       *)

\* The answer, if there is one.
Answered(job) ==
    IF dis[job.pdid] = Absent THEN Idle
    ELSE [at |-> "upsert", pdid |-> job.pdid, record |-> dis[job.pdid]]

SSEGet ==
    /\ sse.at = "get"
    /\ sse' \in {Answered(sse), Idle}
    /\ UNCHANGED <<remote, stream, cache, engine, store, lastSeen, poller, fetch, admin,
                   requests, faults, history>>

SSEUpsert ==
    /\ sse.at = "upsert"
    /\ cache' \in Upserts(cache, sse.pdid, sse.record)
    /\ sse' = Idle
    /\ UNCHANGED <<remote, stream, engine, store, lastSeen, poller, fetch, admin, requests,
                   faults, history>>

Patch(f) ==
    /\ fetch[f].at = "patch"
    /\ cache' = PatchDeviceOnline(cache, fetch[f].pdid, fetch[f].online)
    /\ fetch' = [fetch EXCEPT ![f] = [at |-> "get", pdid |-> @.pdid]]
    /\ UNCHANGED <<remote, stream, engine, store, lastSeen, poller, sse, admin, requests,
                   faults, history>>

Get(f) ==
    /\ fetch[f].at = "get"
    /\ \E next \in {Answered(fetch[f]), Idle} : fetch' = [fetch EXCEPT ![f] = next]
    /\ UNCHANGED <<remote, stream, cache, engine, store, lastSeen, poller, sse, admin,
                   requests, faults, history>>

Put(f) ==
    /\ fetch[f].at = "upsert"
    /\ cache' \in Upserts(cache, fetch[f].pdid, fetch[f].record)
    /\ fetch' = [fetch EXCEPT ![f] = Idle]
    /\ UNCHANGED <<remote, stream, engine, store, lastSeen, poller, sse, admin, requests,
                   faults, history>>

-----------------------------------------------------------------------------
(* pollDevices                                                             *)

PollGet ==
    /\ poller = Idle
    /\ poller' = [at |-> "remove", list |-> dis]
    /\ lastSeen' = [p \in PDIDs |-> IF dis[p] # Absent THEN "lately" ELSE lastSeen[p]]
    /\ UNCHANGED <<remote, stream, cache, engine, store, sse, fetch, admin, requests, faults,
                   history>>

\* Mutant of Stale: a device that was never listed is kept.
Stale_Listed(p) ==
    cache.devices[p] # Absent /\ poller.list[p] = Absent /\ lastSeen[p] = "before"

Stale(p) == cache.devices[p] # Absent /\ poller.list[p] = Absent /\ lastSeen[p] # "lately"

PollRemove ==
    /\ poller.at = "remove"
    /\ cache' = [cache EXCEPT !.devices = [p \in PDIDs |-> IF Stale(p) THEN Absent ELSE @[p]]]
    /\ lastSeen' = [p \in PDIDs |-> IF Stale(p) THEN "never" ELSE lastSeen[p]]
    /\ poller' = [poller EXCEPT !.at = "upsert"]
    /\ UNCHANGED <<remote, stream, engine, store, sse, fetch, admin, requests, faults, history>>

\* The devices of the list, one after the other.
PollUpsert ==
    LET list == poller.list
        each == {choice \in [Present(list) -> UNION {TagsOf(cache, p, list[p].macs) :
                                                         p \in Present(list)}] :
                     \A p \in Present(list) : choice[p] \in TagsOf(cache, p, list[p].macs)}
        Brought(p) == cache.sticky[p] = {} /\ \E m \in list[p].macs : cache.byMAC[m] # {}
    IN /\ poller.at = "upsert"
       /\ \E tags \in each :
             cache' = [cache EXCEPT
                 !.devices = [p \in PDIDs |->
                     IF list[p] = Absent THEN @[p]
                     ELSE [macs |-> list[p].macs, online |-> list[p].online, tags |-> tags[p]]],
                 !.sticky = [p \in PDIDs |->
                     IF list[p] # Absent /\ Brought(p) THEN tags[p] ELSE @[p]]]
       /\ poller' = Idle
       /\ UNCHANGED <<remote, stream, engine, store, lastSeen, sse, fetch, admin, requests,
                      faults, history>>

\* Five minutes pass.
GracePeriod ==
    /\ \E p \in PDIDs : lastSeen[p] = "lately"
    /\ lastSeen' = [p \in PDIDs |-> IF lastSeen[p] = "lately" THEN "before" ELSE lastSeen[p]]
    /\ UNCHANGED <<remote, stream, cache, engine, store, poller, sse, fetch, admin, requests,
                   faults, history>>

-----------------------------------------------------------------------------
(* Requests of administrators                                              *)

\* History: a migration of the device is between its steps.
Underway(p) == sse.at \in {"engine", "cache"} /\ p \in {sse.old, sse.new}
Touched(p) == IF Underway(p) THEN raced \cup {sse.old, sse.new} ELSE raced

Request ==
    /\ admin = Idle
    /\ requests < MaxRequests /\ changes + requests < MaxChanges
    /\ requests' = requests + 1

\* AssignDeviceTag: the cache first.  The MAC is read from the record it has then.
TagDevice(p, tags) ==
    LET macs == IF p \in Cached THEN cache.devices[p].macs ELSE {} IN
    /\ Request
    /\ tags # {}
    /\ cache' = SetTags(cache, p, tags)
    /\ \E mac \in IF macs = {} THEN {None} ELSE macs :
          admin' = [at |-> "save", what |-> "tags", pdid |-> p, tags |-> tags, mac |-> mac]
    /\ raced' = Touched(p)
    /\ UNCHANGED <<remote, stream, engine, store, lastSeen, poller, sse, fetch, faults, lost>>

\* PauseDeviceInternet: the engine first.  Its schedule is left out.
Pause(p) ==
    LET policy == [name |-> "pause", device |-> p, priority |-> PausePriority] IN
    /\ Request
    /\ p \in Cached
    /\ engine' = SavePolicy(engine, policy)
    /\ admin' = [at |-> "save", what |-> "policy", pdid |-> p, policy |-> policy]
    /\ raced' = Touched(p)
    /\ UNCHANGED <<remote, stream, cache, store, lastSeen, poller, sse, fetch, faults, lost>>

Save ==
    /\ admin.at = "save"
    /\ store' = IF admin.what = "tags"
                THEN SaveDeviceTags(store, admin.pdid, admin.tags, admin.mac)
                ELSE [store EXCEPT !.policies = SavePolicy(@, admin.policy)]
    /\ raced' = Touched(admin.pdid)
    /\ admin' = Idle
    /\ UNCHANGED <<remote, stream, cache, engine, lastSeen, poller, sse, fetch, requests,
                   faults, lost>>

\* History: the failed write counts, as nothing undoes what it was for.
SaveFails ==
    /\ Fault
    /\ admin.at = "save"
    /\ raced' = Touched(admin.pdid) \cup {admin.pdid}
    /\ admin' = Idle
    /\ UNCHANGED <<remote, stream, cache, engine, store, lastSeen, poller, sse, fetch, requests,
                   lost>>

\* AssignDeviceUser: the database first.
AssignUser(p, u) ==
    /\ Request
    /\ p \in Cached
    /\ store' = [store EXCEPT !.users[p] = u]
    /\ admin' = [at |-> "set", pdid |-> p, user |-> u]
    /\ raced' = Touched(p)
    /\ UNCHANGED <<remote, stream, cache, engine, lastSeen, poller, sse, fetch, faults, lost>>

SetUser ==
    /\ admin.at = "set"
    /\ cache' = SetUserID(cache, admin.pdid, admin.user)
    /\ raced' = Touched(admin.pdid)
    /\ admin' = Idle
    /\ UNCHANGED <<remote, stream, engine, store, lastSeen, poller, sse, fetch, requests, faults,
                   lost>>

-----------------------------------------------------------------------------
\* A crash and the next start, or an abort of the runtime: the poller and the
\* goroutine of the stream write lastSeenInDIS without a lock.
Restart ==
    /\ Fault
    /\ stream' = Down
    /\ cache' = Hydrated(store)
    /\ engine' = store.policies
    /\ lastSeen' = [p \in PDIDs |-> "never"]
    /\ poller' = Idle /\ sse' = Idle /\ admin' = Idle
    /\ fetch' = [f \in Fetchers |-> Idle]
    /\ lost' = lost \cup Pending \cup (IF sse.at = "store" THEN {sse.old} ELSE {})
    /\ raced' = {}
    /\ UNCHANGED <<remote, store, requests>>

DIS ==
    \/ \E p \in PDIDs : \/ Presence(p) \/ Removal(p)
                        \/ \E m \in MACs : NewMAC(p, m)
                        \/ Appear(p, [macs |-> {}, online |-> TRUE])
    \/ \E old, new \in PDIDs : Merge(old, new)

SSEStep ==
    \/ HandleRemoved \/ (\E f \in Fetchers : HandleChange(f)) \/ HandleReidentified
    \/ MigrateStore \/ MigrateEngine \/ MigrateCache \/ SSEGet \/ SSEUpsert
FetchStep(f) == Patch(f) \/ Get(f) \/ Put(f)
PollStep == PollGet \/ PollRemove \/ PollUpsert
AdminStep == Save \/ SetUser

Next ==
    \/ DIS
    \/ Connect \/ Disconnect
    \/ SSEStep \/ MigrateFails
    \/ \E f \in Fetchers : FetchStep(f)
    \/ PollStep \/ GracePeriod
    \/ \E p \in PDIDs :
          \/ \E tags \in SUBSET TagIDs : TagDevice(p, tags)
          \/ Pause(p)
          \/ \E u \in OrNone(Users) : AssignUser(p, u)
    \/ AdminStep \/ SaveFails
    \/ Restart

\* DIS answers the poller, and the goroutines run.
Fairness ==
    /\ WF_vars(SSEStep) /\ WF_vars(PollStep) /\ WF_vars(GracePeriod)
    /\ \A f \in Fetchers : WF_vars(FetchStep(f))

Spec == Init /\ [][Next]_vars /\ Fairness

-----------------------------------------------------------------------------
(* Properties                                                              *)

\* Once DIS has changed for the last time, the cache is its inventory in the end
\* and stays so, whatever events were lost, failed to be fetched or answered
\* late (pollDevices, handleEvent, fetchSingleDevice).
Converged ==
    \A p \in PDIDs :
        IF dis[p] = Absent THEN p \notin Cached
        ELSE /\ p \in Cached
             /\ cache.devices[p].macs = dis[p].macs /\ cache.devices[p].online = dis[p].online
Converges == <>[]Converged

\* A merge in DIS moves the settings in LIAS, unless its event does not arrive,
\* its transaction fails or LIAS crashes before it (consumeSSE, MigrateIdentity).
MergesAreFollowed ==
    []<>(\A p \in PDIDs : store.migrated[p] = merged[p] \/ p \in lost)

\* Between requests and migrations the cache and the engine apply what the
\* database has, also after a crash between the steps of a migration, and
\* whatever a poll or a late answer has written since (MigrateIdentity,
\* UpsertDevice, LoadHydrate).  The exceptions are devices that a request and a
\* migration changed at the same time, and those of a write that failed.
MemoryFollowsStore ==
    admin = Idle /\ sse.at \notin {"engine", "cache"} =>
        \A p \in PDIDs \ raced :
            LET tags == StoredTags(store, p) IN
            /\ cache.users[p] = store.users[p]
            /\ {x \in engine : x.device = p} = {x \in store.policies : x.device = p}
            /\ tags # {} =>
                  cache.sticky[p] = tags /\ (p \in Cached => cache.devices[p].tags = tags)

\* A log entry that was queued for a device before it was merged is written for
\* the device that survives in the end, after any number of merges
\* (MigrateIdentityState, SaveFlowLog).
RedirectsLand == \A p \in PDIDs : store.migrated[LogTarget(store, p)] = None

\* What is stored changes by whole settings and moves to a surviving device as a
\* whole: no poll, event, failure or crash does anything else to it
\* (MigrateIdentityState).
Settings == INSTANCE DeviceSettings WITH
    Devices <- PDIDs, Nobody <- None,
    tags <- [p \in PDIDs |-> StoredTags(store, p)],
    person <- store.users,
    policies <- store.policies
SettingsMoveWhole == Settings!Spec
=============================================================================
