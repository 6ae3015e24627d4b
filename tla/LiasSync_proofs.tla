-------------------------- MODULE LiasSync_proofs --------------------------
(* Merges are followed in their order, settings move whole, and memory      *)
(* follows the database, for any devices, policies, requests, lost events   *)
(* and restarts.                                                            *)
EXTENDS LiasSync, TLAPS

-----------------------------------------------------------------------------
(* The inductive invariant                                                 *)

\* The events of merges that wait in the channel.
Waiting == {i \in 1 .. Len(stream.queue) : stream.queue[i].type = "reidentified"}

\* The event of a merge comes before those of later merges of the survivor, and
\* there is one for each merged device.
MergesInOrder ==
    /\ \A p \in PDIDs : dis[p] # Absent => merged[p] = None
    /\ \A p \in PDIDs : store.migrated[p] # None => merged[p] # None
    /\ \A i \in Waiting :
          LET e == stream.queue[i] IN
          /\ e.old # e.new /\ merged[e.old] # None
          /\ store.migrated[e.old] = None /\ store.migrated[e.new] = None
          /\ \A j \in Waiting : i < j => e.old \notin {stream.queue[j].old, stream.queue[j].new}
    /\ sse.at = "store" =>
          /\ merged[sse.old] # None
          /\ store.migrated[sse.old] = None /\ store.migrated[sse.new] = None
          /\ \A i \in Waiting : sse.old \notin {stream.queue[i].old, stream.queue[i].new}
    /\ sse.at \in {"store", "engine", "cache"} => sse.old # sse.new

RedirectsWhole == \A p \in PDIDs :
    /\ store.migrated[p] # None => store.redirects[p] # None
    /\ store.redirects[p] # None => store.migrated[store.redirects[p]] = None

\* The policies of a device.
Of(policies, p) == {x \in policies : x.device = p}

\* A migration is between its transaction and its last step.
Migrating == sse.at \in {"engine", "cache"}

\* Tags that have been set show in the cache and, if it is there, on the device.
ShownIn(c, p, tags) ==
    c.sticky[p] = tags /\ (c.devices[p] # Absent => c.devices[p].tags = tags)

\* Person, policies and tags of a device in memory, while neither a migration
\* nor a request is at them, or as far as a request has come.
PersonKept(p) == cache.users[p] = store.users[p]
PoliciesKept(p) == Of(engine, p) = Of(store.policies, p)
TagsKept(p) == StoredTags(store, p) # {} => ShownIn(cache, p, StoredTags(store, p))

\* What a request has done in one place and not yet in the other.
Half(p) ==
    /\ admin.at = "set" =>
          store.users[p] = admin.user /\ PoliciesKept(p) /\ TagsKept(p)
    /\ admin.at = "save" /\ admin.what = "tags" =>
          admin.tags # {} /\ ShownIn(cache, p, admin.tags) /\ PersonKept(p) /\ PoliciesKept(p)
    /\ admin.at = "save" /\ admin.what = "policy" =>
          /\ Of(engine, p) = Of(SavePolicy(store.policies, admin.policy), p)
          /\ PersonKept(p) /\ TagsKept(p)

\* What a migration has read of the survivor and left of the merged device.
Carried ==
    /\ \A x \in sse.policies : x.device = sse.new
    /\ sse.new \notin raced =>
          /\ sse.tags = StoredTags(store, sse.new)
          /\ sse.user = store.users[sse.new]
          /\ sse.policies = Of(store.policies, sse.new)
          /\ sse.user = None => cache.users[sse.new] = None
          /\ sse.at = "cache" => PoliciesKept(sse.new)
    /\ sse.old \notin raced =>
          /\ StoredTags(store, sse.old) = {} /\ store.users[sse.old] = None
          /\ Of(store.policies, sse.old) = {}
          /\ sse.at = "cache" => PoliciesKept(sse.old)

AsFarAs(p) ==
    IF admin # Idle /\ admin.pdid = p THEN Half(p)
    ELSE PersonKept(p) /\ PoliciesKept(p) /\ TagsKept(p)

MemoryKept ==
    /\ \A p \in PDIDs \ raced : ~Underway(p) => AsFarAs(p)
    /\ Migrating => Carried
    /\ Migrating /\ admin # Idle /\ admin.pdid \in {sse.old, sse.new} =>
          {sse.old, sse.new} \subseteq raced
    /\ admin.at = "save" /\ admin.what = "policy" => admin.policy.device = admin.pdid

IInv ==
    /\ TypeOK
    /\ MergesInOrder
    /\ RedirectsWhole
    /\ MemoryKept

-----------------------------------------------------------------------------
(* The cache                                                               *)

\* What writes the record of a device, in the order of arrival, leaves persons
\* as they are and keeps tags that have been set.
Refreshed(c, d) ==
    /\ d \in Caches
    /\ d.users = c.users
    /\ \A p \in PDIDs : \A tags \in SUBSET TagIDs :
          tags # {} /\ ShownIn(c, p, tags) => ShownIn(d, p, tags)

\* The tags of a record are some of those that are known (applyStickyTagLocked).
LEMMA TagsOfKnown ==
    ASSUME NEW c \in Caches, NEW p \in PDIDs, NEW macs \in SUBSET MACs,
           NEW tags \in TagsOf(c, p, macs)
    PROVE  tags \in SUBSET TagIDs /\ (c.sticky[p] # {} => tags = c.sticky[p])
<1>1. c.sticky[p] \in SUBSET TagIDs
    BY DEF Caches
<1>2. \A m \in macs : c.byMAC[m] \in SUBSET TagIDs
    BY DEF Caches
<1>3. c.devices[p] # Absent => c.devices[p].tags \in SUBSET TagIDs
    BY DEF Caches, Local
<1>4. {Generic} \in SUBSET TagIDs
    BY DataAssumption
<1>5. CASE c.sticky[p] # {}
    BY <1>1, <1>5 DEF TagsOf
<1>6. CASE c.sticky[p] = {} /\ {m \in macs : c.byMAC[m] # {}} # {}
    BY <1>2, <1>6 DEF TagsOf
<1>7. CASE c.sticky[p] = {} /\ {m \in macs : c.byMAC[m] # {}} = {}
    BY <1>3, <1>4, <1>7 DEF TagsOf
<1> QED
    BY <1>5, <1>6, <1>7

\* UpsertDevice
LEMMA UpsertRefreshes ==
    ASSUME NEW c \in Caches, NEW p \in PDIDs, NEW r \in Records, NEW d \in Upserts(c, p, r)
    PROVE  Refreshed(c, d)
<1>1. r.macs \in SUBSET MACs /\ r.online \in BOOLEAN
    BY DEF Records
<1>2. PICK tags \in TagsOf(c, p, r.macs) :
          d = [c EXCEPT !.devices[p] = [macs |-> r.macs, online |-> r.online, tags |-> tags],
                        !.sticky[p] = IF @ = {} /\ \E m \in r.macs : c.byMAC[m] # {}
                                      THEN tags ELSE @]
    BY DEF Upserts
<1>3. tags \in SUBSET TagIDs /\ (c.sticky[p] # {} => tags = c.sticky[p])
    BY <1>1, TagsOfKnown
<1>4. [macs |-> r.macs, online |-> r.online, tags |-> tags] \in Local
    BY <1>1, <1>3 DEF Local
<1>5. d \in Caches
    BY <1>2, <1>3, <1>4 DEF Caches
<1>6. d.users = c.users
    BY <1>2 DEF Caches
<1>7. ASSUME NEW q \in PDIDs, NEW set \in SUBSET TagIDs, set # {}, ShownIn(c, q, set)
      PROVE  ShownIn(d, q, set)
    <2>1. CASE q = p
        BY <1>2, <1>3, <1>7, <2>1 DEF Caches, ShownIn
    <2>2. CASE q # p
        BY <1>2, <1>7, <2>2 DEF Caches, ShownIn
    <2> QED
        BY <2>1, <2>2
<1> QED
    BY <1>5, <1>6, <1>7 DEF Refreshed

\* RemoveDevice
LEMMA RemoveRefreshes ==
    ASSUME NEW c \in Caches, NEW p \in PDIDs
    PROVE  Refreshed(c, RemoveDevice(c, p))
BY DEF Refreshed, RemoveDevice, Caches, ShownIn

\* PatchDeviceOnline
LEMMA PatchRefreshes ==
    ASSUME NEW c \in Caches, NEW p \in PDIDs, NEW online \in BOOLEAN
    PROVE  Refreshed(c, PatchDeviceOnline(c, p, online))
<1>1. CASE c.devices[p] = Absent
    BY <1>1 DEF Refreshed, PatchDeviceOnline
<1>2. CASE c.devices[p] # Absent
    <2>1. c.devices[p] \in Local
        BY <1>2 DEF Caches
    <2>2. [c.devices[p] EXCEPT !.online = online] \in Local
        BY <2>1 DEF Local
    <2>3. PatchDeviceOnline(c, p, online)
          = [c EXCEPT !.devices[p] = [c.devices[p] EXCEPT !.online = online]]
        BY <1>2 DEF PatchDeviceOnline, Caches
    <2>4. [c.devices[p] EXCEPT !.online = online].tags = c.devices[p].tags
        BY <2>1 DEF Local
    <2> QED
        BY <1>2, <2>2, <2>3, <2>4 DEF Refreshed, Caches, ShownIn
<1> QED
    BY <1>1, <1>2

\* Devices that are not listed any more are removed (pollDevices).
LEMMA PollRemoveRefreshes ==
    ASSUME cache \in Caches, PollRemove
    PROVE  Refreshed(cache, cache')
BY DEF PollRemove, Refreshed, Caches, ShownIn

\* Those that are listed are upserted (pollDevices).
LEMMA PollUpsertRefreshes ==
    ASSUME cache \in Caches, poller \in PollerJobs, PollUpsert
    PROVE  Refreshed(cache, cache')
<1> DEFINE list == poller.list
           Brought(p) == cache.sticky[p] = {} /\ \E m \in list[p].macs : cache.byMAC[m] # {}
<1>1. list \in [PDIDs -> Records \cup {Absent}]
    BY DEF PollUpsert, PollerJobs, Idle
<1>2. PICK tags \in [Present(list) -> UNION {TagsOf(cache, p, list[p].macs) :
                                                 p \in Present(list)}] :
          /\ \A p \in Present(list) : tags[p] \in TagsOf(cache, p, list[p].macs)
          /\ cache' = [cache EXCEPT
                 !.devices = [p \in PDIDs |->
                     IF list[p] = Absent THEN @[p]
                     ELSE [macs |-> list[p].macs, online |-> list[p].online, tags |-> tags[p]]],
                 !.sticky = [p \in PDIDs |->
                     IF list[p] # Absent /\ Brought(p) THEN tags[p] ELSE @[p]]]
    BY DEF PollUpsert
<1>3. ASSUME NEW p \in PDIDs, list[p] # Absent
      PROVE  /\ list[p].macs \in SUBSET MACs /\ list[p].online \in BOOLEAN
             /\ tags[p] \in SUBSET TagIDs /\ (cache.sticky[p] # {} => tags[p] = cache.sticky[p])
             /\ [macs |-> list[p].macs, online |-> list[p].online, tags |-> tags[p]] \in Local
    <2>1. list[p].macs \in SUBSET MACs /\ list[p].online \in BOOLEAN
        BY <1>1, <1>3 DEF Records
    <2>2. tags[p] \in TagsOf(cache, p, list[p].macs)
        BY <1>2, <1>3 DEF Present
    <2>3. tags[p] \in SUBSET TagIDs /\ (cache.sticky[p] # {} => tags[p] = cache.sticky[p])
        BY <2>1, <2>2, TagsOfKnown
    <2> QED
        BY <2>1, <2>3 DEF Local
<1> HIDE DEF list, Brought
<1>4. cache' \in Caches
    BY <1>2, <1>3 DEF Caches
<1>5. cache'.users = cache.users
    BY <1>2 DEF Caches
<1>6. ASSUME NEW q \in PDIDs, NEW set \in SUBSET TagIDs, set # {}, ShownIn(cache, q, set)
      PROVE  ShownIn(cache', q, set)
    <2>1. cache.sticky[q] # {} /\ ~Brought(q)
        BY <1>6 DEF ShownIn, Brought
    <2>2. cache'.sticky[q] = set
        BY <1>2, <1>6, <2>1 DEF Caches, ShownIn
    <2>3. cache'.devices[q] # Absent => cache'.devices[q].tags = set
        BY <1>2, <1>3, <1>6, <2>1 DEF Caches, ShownIn
    <2> QED
        BY <2>2, <2>3 DEF ShownIn
<1> QED
    BY <1>4, <1>5, <1>6 DEF Refreshed

-----------------------------------------------------------------------------
(* The database                                                            *)

\* Who is hydrated applies what is stored (LoadHydrate, LoadStickyTags).
LEMMA HydratedTypes ==
    ASSUME NEW s \in Stores
    PROVE  /\ Hydrated(s) \in Caches
           /\ \A p \in PDIDs : StoredTags(s, p) \in SUBSET TagIDs
           /\ Hydrated(s).users = s.users
           /\ \A p \in PDIDs : ShownIn(Hydrated(s), p, StoredTags(s, p))
<1>1. \A row \in s.rows : row.tag \in TagIDs
    BY DEF Stores, Rows
<1>2. \A p \in PDIDs : StoredTags(s, p) \in SUBSET TagIDs
    BY <1>1 DEF StoredTags
<1>3. \A m \in MACs : {row.tag : row \in {row \in s.rows : row.mac = m}} \in SUBSET TagIDs
    BY <1>1
<1>4. s.users \in [PDIDs -> OrNone(Users)]
    BY DEF Stores
<1> QED
    BY <1>2, <1>3, <1>4 DEF Hydrated, Caches, ShownIn

\* The tags of a request replace those of its device (SaveDeviceTags).
LEMMA SaveTagsStores ==
    ASSUME NEW s \in Stores, NEW p \in PDIDs, NEW tags \in SUBSET TagIDs, NEW mac \in OrNone(MACs),
           NEW t, t = SaveDeviceTags(s, p, tags, mac)
    PROVE  /\ t \in Stores
           /\ t.users = s.users /\ t.policies = s.policies
           /\ t.migrated = s.migrated /\ t.redirects = s.redirects
           /\ StoredTags(t, p) = tags
           /\ \A q \in PDIDs : q # p => StoredTags(t, q) = StoredTags(s, q)
<1> DEFINE left == {row \in s.rows : row.device # p}
           new == {[device |-> p, tag |-> x, mac |-> mac] : x \in tags}
<1>1. new \in SUBSET Rows
    BY DEF Rows, OrNone
<1>2. s.rows \in SUBSET Rows
    BY DEF Stores
<1>3. t = [s EXCEPT !.rows = left \cup new]
    BY DEF SaveDeviceTags
<1>4. /\ t \in Stores /\ t.rows = left \cup new
      /\ t.users = s.users /\ t.policies = s.policies
      /\ t.migrated = s.migrated /\ t.redirects = s.redirects
    BY <1>1, <1>2, <1>3 DEF Stores
<1>5. StoredTags(t, p) = tags
    <2>1. {row \in t.rows : row.device = p} = new
        BY <1>4
    <2>2. \A row \in new : row.tag \in tags
        OBVIOUS
    <2>3. \A x \in tags : /\ [device |-> p, tag |-> x, mac |-> mac] \in new
                          /\ [device |-> p, tag |-> x, mac |-> mac].tag = x
        OBVIOUS
    <2> HIDE DEF new
    <2>4. {row.tag : row \in new} = tags
        BY <2>2, <2>3
    <2> QED
        BY <2>1, <2>4 DEF StoredTags
<1>6. ASSUME NEW q \in PDIDs, q # p
      PROVE  StoredTags(t, q) = StoredTags(s, q)
    <2>1. {row \in t.rows : row.device = q} = {row \in s.rows : row.device = q}
        BY <1>4, <1>6
    <2> QED
        BY <2>1 DEF StoredTags
<1> QED
    BY <1>4, <1>5, <1>6

\* A saved policy takes the place of the one of its name, of its device alone.
LEMMA SavePolicyStores ==
    ASSUME NEW policies \in SUBSET Policies, NEW x \in Policies
    PROVE  /\ SavePolicy(policies, x) \in SUBSET Policies
           /\ \A q \in PDIDs : q # x.device => Of(SavePolicy(policies, x), q) = Of(policies, q)
           /\ Of(SavePolicy(policies, x), x.device) = SavePolicy(Of(policies, x.device), x)
BY DEF SavePolicy, Of, Policies

\* The survivor has the tags of both (MigrateIdentityState).
LEMMA MovedRowsTags ==
    ASSUME NEW s \in Stores, NEW old \in PDIDs, NEW new \in PDIDs, old # new,
           NEW t \in Stores, t.rows = MovedRows(s, old, new)
    PROVE  StoredTags(t, old) = {}
           /\ StoredTags(t, new) = StoredTags(s, new) \cup StoredTags(s, old)
           /\ \A q \in PDIDs \ {old, new} : StoredTags(t, q) = StoredTags(s, q)
<1> DEFINE taken == {row \in s.rows : row.device = old /\ row.tag \notin StoredTags(s, new)}
           moved == {[row EXCEPT !.device = new] : row \in taken}
           left == {row \in s.rows : row.device # old}
<1>1. t.rows = left \cup moved
    BY DEF MovedRows
<1>2. \A row \in taken : /\ row \in Rows
                         /\ [row EXCEPT !.device = new].device = new
                         /\ [row EXCEPT !.device = new].tag = row.tag
    BY DEF Stores, Rows
<1>3. \A row \in moved : row.device = new
    BY <1>2
<1>4. StoredTags(t, old) = {}
    <2>1. {row \in t.rows : row.device = old} = {}
        BY <1>1, <1>3
    <2> QED
        BY <2>1 DEF StoredTags
<1>5. ASSUME NEW q \in PDIDs \ {old, new}
      PROVE  StoredTags(t, q) = StoredTags(s, q)
    <2>1. {row \in t.rows : row.device = q} = {row \in s.rows : row.device = q}
        BY <1>1, <1>3
    <2> QED
        BY <2>1 DEF StoredTags
<1>6. StoredTags(t, new) \subseteq StoredTags(s, new) \cup StoredTags(s, old)
    <2> SUFFICES ASSUME NEW row \in t.rows, row.device = new
                 PROVE  row.tag \in StoredTags(s, new) \cup StoredTags(s, old)
        BY DEF StoredTags
    <2>1. CASE row \in left
        BY <2>1 DEF StoredTags
    <2>2. CASE row \in moved
        <3>1. PICK was \in taken : row = [was EXCEPT !.device = new]
            BY <2>2
        <3> QED
            BY <1>2, <3>1 DEF StoredTags
    <2> QED
        BY <1>1, <2>1, <2>2
<1>7. StoredTags(s, new) \subseteq StoredTags(t, new)
    BY <1>1 DEF StoredTags
<1>8. StoredTags(s, old) \subseteq StoredTags(t, new)
    <2> SUFFICES ASSUME NEW row \in s.rows, row.device = old, row.tag \notin StoredTags(s, new)
                 PROVE  row.tag \in StoredTags(t, new)
        BY <1>7 DEF StoredTags
    <2>1. row \in taken
        OBVIOUS
    <2>2. [row EXCEPT !.device = new] \in t.rows
        BY <1>1, <2>1
    <2> QED
        BY <1>2, <2>1, <2>2 DEF StoredTags
<1> QED
    BY <1>4, <1>5, <1>6, <1>7, <1>8

\* Policies of other devices stay; the merged device has none any more
\* (migrateIdentityPoliciesTx).
LEMMA MovedPoliciesStores ==
    ASSUME NEW policies \in SUBSET Policies, NEW old \in PDIDs, NEW new \in PDIDs, old # new
    PROVE  /\ MovedPolicies(policies, old, new) \in SUBSET Policies
           /\ Of(MovedPolicies(policies, old, new), old) = {}
           /\ \A q \in PDIDs \ {old, new} :
                 Of(MovedPolicies(policies, old, new), q) = Of(policies, q)
<1> DEFINE sources == {[p EXCEPT !.device = new] : p \in {p \in policies : p.device = old}}
           targets == {p \in policies : p.device = new}
           others == {p \in policies : p.device \notin {old, new}}
           all == MovedPolicies(policies, old, new)
<1>1. sources \in SUBSET Policies /\ \A p \in sources : p.device = new
    BY DEF Policies
<1>2. others \subseteq all /\ all \subseteq others \cup sources \cup targets
    BY DEF MovedPolicies
<1> HIDE DEF sources, all
<1>3. all \in SUBSET Policies
    BY <1>1, <1>2
<1>4. Of(all, old) = {}
    BY <1>1, <1>2 DEF Of
<1>5. \A q \in PDIDs \ {old, new} : Of(all, q) = Of(policies, q)
    BY <1>1, <1>2 DEF Of
<1> QED
    BY <1>3, <1>4, <1>5 DEF all

\* The transaction, which has not been made yet (MigrateIdentityState).
LEMMA MigrationStores ==
    ASSUME NEW s \in Stores, NEW old \in PDIDs, NEW new \in PDIDs, s.migrated[old] = None,
           old # new
    PROVE  LET t == MigrateIdentityState(s, old, new) IN
           /\ t \in Stores
           /\ t.rows = MovedRows(s, old, new)
           /\ t.users = MovedUsers(s.users, old, new)
           /\ t.policies = MovedPolicies(s.policies, old, new)
           /\ t.redirects = MovedRedirects(s.redirects, old, new)
           /\ t.migrated = [s.migrated EXCEPT ![old] = new]
<1> DEFINE t == MigrateIdentityState(s, old, new)
           rows == MovedRows(s, old, new)
           users == MovedUsers(s.users, old, new)
           policies == MovedPolicies(s.policies, old, new)
           redirects == MovedRedirects(s.redirects, old, new)
           migrated == [s.migrated EXCEPT ![old] = new]
<1>1. s.migrated[old] # new
    BY DataAssumption
<1>2. rows \in SUBSET Rows
    <2>1. s.rows \in SUBSET Rows
        BY DEF Stores
    <2>2. \A row \in Rows : [row EXCEPT !.device = new] \in Rows
        BY DEF Rows
    <2> QED
        BY <2>1, <2>2 DEF MovedRows
<1>3. users \in [PDIDs -> OrNone(Users)]
    BY DEF MovedUsers, Stores, OrNone
<1>4. policies \in SUBSET Policies
    BY MovedPoliciesStores DEF Stores
<1>5. redirects \in [PDIDs -> OrNone(PDIDs)]
    BY DEF MovedRedirects, Stores, OrNone
<1>6. migrated \in [PDIDs -> OrNone(PDIDs)]
    BY DEF Stores, OrNone
<1>7. t = [s EXCEPT !.rows = rows, !.users = users, !.policies = policies,
                    !.redirects = redirects, !.migrated = migrated]
    BY <1>1 DEF MigrateIdentityState
<1> HIDE DEF t, rows, users, policies, redirects, migrated
<1>8. /\ t \in Stores
      /\ t.rows = rows /\ t.users = users /\ t.policies = policies
      /\ t.redirects = redirects /\ t.migrated = migrated
    BY <1>2, <1>3, <1>4, <1>5, <1>6, <1>7 DEF Stores
<1> QED
    BY <1>8 DEF t, rows, users, policies, redirects, migrated

-----------------------------------------------------------------------------
(* Types                                                                   *)

StreamTyped(s) == s \in [up : BOOLEAN, queue : Seq(Events)] /\ Len(s.queue) <= Capacity

\* What a job knows where it is.
LEMMA JobTypes ==
    ASSUME TypeOK
    PROVE  /\ sse.at \in {"idle", "store", "engine", "cache", "get", "upsert"}
           /\ sse.at = "idle" => sse = Idle
           /\ sse.at \in {"store", "engine", "cache"} =>
                 sse.old \in PDIDs /\ sse.new \in PDIDs /\ sse.macs \in SUBSET MACs
           /\ Migrating => /\ sse.tags \in SUBSET TagIDs /\ sse.user \in OrNone(Users)
                           /\ sse.policies \in SUBSET Policies
           /\ sse.at \in {"get", "upsert"} => sse.pdid \in PDIDs
           /\ sse.at = "upsert" => sse.record \in Records
           /\ \A f \in Fetchers :
                 /\ fetch[f].at \in {"get", "upsert", "patch"} => fetch[f].pdid \in PDIDs
                 /\ fetch[f].at = "upsert" => fetch[f].record \in Records
                 /\ fetch[f].at = "patch" => fetch[f].online \in BOOLEAN
           /\ poller.at \in {"remove", "upsert"} => poller.list \in [PDIDs -> Records \cup {Absent}]
           /\ admin # Idle => admin.pdid \in PDIDs /\ admin.at \in {"save", "set"}
           /\ admin.at = "set" => admin # Idle /\ admin.user \in OrNone(Users)
           /\ admin.at = "save" => admin # Idle /\ admin.what \in {"tags", "policy"}
           /\ admin.at = "save" /\ admin.what = "tags" =>
                 admin.tags \in SUBSET TagIDs /\ admin.mac \in OrNone(MACs)
           /\ admin.at = "save" /\ admin.what = "policy" => admin.policy \in Policies
<1>1. sse \in {Idle} \cup Migrations \cup Fetches
    BY DEF TypeOK
<1>2. fetch \in [Fetchers -> FetchJobs]
    BY DEF TypeOK
<1>3. poller \in PollerJobs
    BY DEF TypeOK
<1>4. admin \in AdminJobs
    BY DEF TypeOK
<1>5. /\ sse.at \in {"idle", "store", "engine", "cache", "get", "upsert"}
      /\ sse.at = "idle" => sse = Idle
      /\ sse.at \in {"store", "engine", "cache"} =>
            sse.old \in PDIDs /\ sse.new \in PDIDs /\ sse.macs \in SUBSET MACs
      /\ Migrating => /\ sse.tags \in SUBSET TagIDs /\ sse.user \in OrNone(Users)
                      /\ sse.policies \in SUBSET Policies
      /\ sse.at \in {"get", "upsert"} => sse.pdid \in PDIDs
      /\ sse.at = "upsert" => sse.record \in Records
    BY <1>1 DEF Idle, Migrations, Fetches, Migrating
<1>6. ASSUME NEW f \in Fetchers
      PROVE  /\ fetch[f].at \in {"get", "upsert", "patch"} => fetch[f].pdid \in PDIDs
             /\ fetch[f].at = "upsert" => fetch[f].record \in Records
             /\ fetch[f].at = "patch" => fetch[f].online \in BOOLEAN
    <2>1. fetch[f] \in FetchJobs
        BY <1>2
    <2> QED
        BY <2>1 DEF Idle, FetchJobs, Fetches
<1>7. poller.at \in {"remove", "upsert"} => poller.list \in [PDIDs -> Records \cup {Absent}]
    BY <1>3 DEF PollerJobs, Idle
<1>8. /\ admin # Idle => admin.pdid \in PDIDs /\ admin.at \in {"save", "set"}
      /\ admin.at = "set" => admin # Idle /\ admin.user \in OrNone(Users)
      /\ admin.at = "save" => admin # Idle /\ admin.what \in {"tags", "policy"}
      /\ admin.at = "save" /\ admin.what = "tags" =>
            admin.tags \in SUBSET TagIDs /\ admin.mac \in OrNone(MACs)
      /\ admin.at = "save" /\ admin.what = "policy" => admin.policy \in Policies
    BY <1>4 DEF AdminJobs, Idle
<1> QED
    BY <1>5, <1>6, <1>7, <1>8

\* A channel with other events in it.
LEMMA QueueTypes ==
    ASSUME NEW s \in [up : BOOLEAN, queue : Seq(Events)], NEW q \in Seq(Events),
           Len(q) <= Capacity, NEW t, t = [s EXCEPT !.queue = q]
    PROVE  StreamTyped(t) /\ t.up = s.up /\ t.queue = q
<1>1. t \in [up : BOOLEAN, queue : Seq(Events)] /\ t.up = s.up /\ t.queue = q
    OBVIOUS
<1> QED
    BY <1>1 DEF StreamTyped

\* An event is in the channel, or it is missed (Broadcast).
LEMMA BroadcastTypes ==
    ASSUME StreamTyped(stream), NEW e \in Events, Broadcast(e)
    PROVE  /\ StreamTyped(stream')
           /\ \/ stream' = stream
              \/ stream'.up = stream.up /\ stream'.queue = Append(stream.queue, e)
           /\ \/ lost' = lost
              \/ e.type = "reidentified" /\ lost' = lost \cup {e.old}
<1>1. stream.queue \in Seq(Events) /\ Capacity \in Nat /\ stream.up \in BOOLEAN
    BY BoundsAssumption DEF StreamTyped
<1>2. CASE stream.up /\ Len(stream.queue) < Capacity
    <2>1. stream' = [stream EXCEPT !.queue = Append(stream.queue, e)]
        BY <1>2 DEF Broadcast
    <2>2. Append(stream.queue, e) \in Seq(Events)
          /\ Len(Append(stream.queue, e)) = Len(stream.queue) + 1
        BY <1>1
    <2>3. StreamTyped(stream') /\ stream'.up = stream.up
          /\ stream'.queue = Append(stream.queue, e)
        <3>1. Len(Append(stream.queue, e)) <= Capacity
            BY <1>1, <1>2, <2>2
        <3>2. stream \in [up : BOOLEAN, queue : Seq(Events)]
            BY DEF StreamTyped
        <3> QED
            BY <2>1, <2>2, <3>1, <3>2, QueueTypes
    <2> QED
        BY <1>2, <2>3 DEF Broadcast
<1>3. CASE ~(stream.up /\ Len(stream.queue) < Capacity)
    BY <1>3 DEF Broadcast
<1> QED
    BY <1>2, <1>3

\* The event that is read, and what is left in the channel.
LEMMA ReadTypes ==
    ASSUME StreamTyped(stream), NEW e \in Arrivals, Read
    PROVE  /\ sse = Idle
           /\ e \in Events /\ e = stream.queue[1] /\ Len(stream.queue) > 0
           /\ StreamTyped(stream')
           /\ stream'.queue = Tail(stream.queue)
<1>1. stream.queue \in Seq(Events) /\ Capacity \in Nat
    BY BoundsAssumption DEF StreamTyped
<1>2. sse = Idle /\ stream.queue # <<>> /\ e = Head(stream.queue)
    BY DEF Arrivals
<1>3. Tail(stream.queue) \in Seq(Events) /\ Len(Tail(stream.queue)) = Len(stream.queue) - 1
      /\ Len(stream.queue) > 0 /\ e = stream.queue[1] /\ e \in Events
    BY <1>1, <1>2
<1>4. StreamTyped(stream') /\ stream'.queue = Tail(stream.queue)
    <2>1. Len(Tail(stream.queue)) <= Capacity
        BY <1>1, <1>3 DEF StreamTyped
    <2>2. stream' = [stream EXCEPT !.queue = Tail(stream.queue)]
        BY DEF Read
    <2>3. stream \in [up : BOOLEAN, queue : Seq(Events)]
        BY DEF StreamTyped
    <2> QED
        BY <1>3, <2>1, <2>2, <2>3, QueueTypes
<1> QED
    BY <1>2, <1>3, <1>4

LEMMA InitTypes == Init => TypeOK
<1> SUFFICES ASSUME Init PROVE TypeOK
    OBVIOUS
<1>1. dis \in [PDIDs -> Records \cup {Absent}] /\ merged \in [PDIDs -> OrNone(PDIDs)]
    BY DataAssumption DEF Init, Stores
<1>2. StreamTyped(stream)
    BY BoundsAssumption DEF Init, StreamTyped, Down
<1>3. store \in Stores /\ cache \in Caches
    BY DataAssumption, HydratedTypes DEF Init
<1>4. engine \in SUBSET Policies
    BY DataAssumption DEF Init, Stores
<1>5. poller \in PollerJobs /\ admin \in AdminJobs /\ sse = Idle
      /\ fetch \in [Fetchers -> FetchJobs]
    BY DEF Init, PollerJobs, AdminJobs, FetchJobs
<1>6. lastSeen \in [PDIDs -> {"never", "lately", "before"}]
    BY DEF Init
<1> QED
    BY <1>1, <1>2, <1>3, <1>4, <1>5, <1>6, BoundsAssumption DEF Init, TypeOK, StreamTyped

\* A change in DIS and its event.
LEMMA ChangeTypes ==
    ASSUME TypeOK, Changes, NEW e \in Events, e.type = "reidentified" => e.old \in PDIDs,
           Broadcast(e) \/ UNCHANGED <<stream, lost>>,
           dis' \in [PDIDs -> Records \cup {Absent}], merged' \in [PDIDs -> OrNone(PDIDs)]
    PROVE  TypeOK'
<1>1. StreamTyped(stream) /\ lost \subseteq PDIDs
    BY DEF TypeOK, StreamTyped
<1>2. StreamTyped(stream') /\ lost' \subseteq PDIDs
    BY <1>1, BroadcastTypes
<1>3. changes' \in 0 .. MaxChanges
    BY BoundsAssumption DEF TypeOK, Changes
<1> QED
    BY <1>2, <1>3 DEF Changes, TypeOK, StreamTyped, local

LEMMA DISTypes == ASSUME TypeOK, DIS PROVE TypeOK'
<1>1. dis \in [PDIDs -> Records \cup {Absent}] /\ merged \in [PDIDs -> OrNone(PDIDs)]
    BY DEF TypeOK
<1>2. ASSUME NEW p \in PDIDs, NEW r \in Records, Appear(p, r)
      PROVE  TypeOK'
    <2> DEFINE e == [type |-> "record", pdid |-> p, record |-> r]
    <2>1. e \in Events /\ e.type = "record"
        BY DEF Events
    <2> QED
        BY <1>1, <1>2, <2>1, ChangeTypes DEF Appear
<1>3. ASSUME NEW p \in PDIDs, Presence(p)
      PROVE  TypeOK'
    <2> DEFINE e == [type |-> "presence", pdid |-> p, online |-> dis'[p].online]
    <2>1. dis[p] \in Records
        BY <1>1, <1>3 DEF Presence
    <2> DEFINE b == ~dis[p].online
    <2>2. b \in BOOLEAN
        OBVIOUS
    <2>3. dis' = [dis EXCEPT ![p] = [dis[p] EXCEPT !.online = b]]
        BY <1>3 DEF Presence
    <2> HIDE DEF b
    <2>6. [dis[p] EXCEPT !.online = b] \in Records
        BY <2>1, <2>2 DEF Records
    <2>4. dis' \in [PDIDs -> Records \cup {Absent}] /\ dis'[p] \in Records
        BY <1>1, <2>3, <2>6
    <2>5. e \in Events /\ e.type = "presence"
        BY <2>4 DEF Events, Records
    <2> QED
        BY <1>1, <1>3, <2>4, <2>5, ChangeTypes DEF Presence
<1>4. ASSUME NEW p \in PDIDs, NEW m \in MACs, NewMAC(p, m)
      PROVE  TypeOK'
    <2> DEFINE e == [type |-> "changed", pdid |-> p]
    <2>1. dis[p] \in Records
        BY <1>1, <1>4 DEF NewMAC
    <2>2. [dis[p] EXCEPT !.macs = dis[p].macs \cup {m}] \in Records
        BY <2>1 DEF Records
    <2>3. dis' = [dis EXCEPT ![p] = [dis[p] EXCEPT !.macs = dis[p].macs \cup {m}]]
        BY <1>4 DEF NewMAC
    <2>4. dis' \in [PDIDs -> Records \cup {Absent}]
        BY <1>1, <2>2, <2>3
    <2>5. e \in Events /\ e.type = "changed"
        BY DEF Events
    <2> QED
        BY <1>1, <1>4, <2>4, <2>5, ChangeTypes DEF NewMAC
<1>5. ASSUME NEW p \in PDIDs, Removal(p)
      PROVE  TypeOK'
    <2> DEFINE e == [type |-> "removed", pdid |-> p]
    <2>1. e \in Events /\ e.type = "removed"
        BY DEF Events
    <2>2. dis' \in [PDIDs -> Records \cup {Absent}]
        BY <1>1, <1>5 DEF Removal
    <2> QED
        BY <1>1, <1>5, <2>1, <2>2, ChangeTypes DEF Removal
<1>6. ASSUME NEW old \in PDIDs, NEW new \in PDIDs, Merge(old, new)
      PROVE  TypeOK'
    <2> DEFINE e == [type |-> "reidentified", old |-> old, new |-> new, macs |-> dis[old].macs]
    <2>1. dis[old] \in Records /\ dis[new] \in Records /\ old # new
        BY <1>1, <1>6 DEF Merge, Present
    <2>2. [dis[new] EXCEPT !.macs = dis[new].macs \cup dis[old].macs] \in Records
        BY <2>1 DEF Records
    <2>3. dis' = [dis EXCEPT ![old] = Absent,
                             ![new] = [dis[new] EXCEPT !.macs = dis[new].macs \cup dis[old].macs]]
        BY <1>1, <1>6, <2>1 DEF Merge
    <2>4. dis' \in [PDIDs -> Records \cup {Absent}]
        BY <1>1, <2>2, <2>3
    <2>5. e \in Events /\ e.old \in PDIDs
        BY <2>1 DEF Events, Records
    <2>6. merged' \in [PDIDs -> OrNone(PDIDs)]
        BY <1>1, <1>6 DEF Merge, OrNone
    <2> QED
        BY <1>6, <2>4, <2>5, <2>6, ChangeTypes DEF Merge
<1>7. [macs |-> {}, online |-> TRUE] \in Records
    BY DEF Records
<1> QED
    BY <1>2, <1>3, <1>4, <1>5, <1>6, <1>7 DEF DIS

\* Merges that are lost are of devices.
LEMMA PendingTypes ==
    ASSUME TypeOK
    PROVE  /\ Pending \subseteq PDIDs
           /\ StreamTyped(stream) /\ StreamTyped(Down)
           /\ sse.at = "store" => sse.old \in PDIDs
<1>1. StreamTyped(stream)
    BY DEF TypeOK, StreamTyped
<1>2. ASSUME NEW i \in DOMAIN stream.queue, stream.queue[i].type = "reidentified"
      PROVE  stream.queue[i].old \in PDIDs
    <2>1. stream.queue[i] \in Events
        BY <1>1 DEF StreamTyped
    <2> QED
        BY <1>2, <2>1 DEF Events
<1>3. StreamTyped(Down)
    BY BoundsAssumption DEF StreamTyped, Down
<1> QED
    BY <1>1, <1>2, <1>3, JobTypes DEF Pending

LEMMA ConnectionTypes == ASSUME TypeOK, Connect \/ Disconnect PROVE TypeOK'
<1>1. StreamTyped([up |-> TRUE, queue |-> <<>>])
    BY BoundsAssumption DEF StreamTyped
<1>2. CASE Connect
    BY <1>1, <1>2 DEF Connect, TypeOK, StreamTyped, remote, local, history
<1>3. CASE Disconnect
    <2>1. StreamTyped(stream') /\ lost' \subseteq PDIDs
        BY <1>3, PendingTypes DEF Disconnect, TypeOK
    <2>2. faults' \in 0 .. MaxFaults
        BY <1>3, BoundsAssumption DEF Disconnect, Fault, TypeOK
    <2> QED
        BY <1>3, <2>1, <2>2 DEF Disconnect, TypeOK, StreamTyped, remote, local
<1> QED
    BY <1>2, <1>3

\* Events are taken from the channel and handled.
LEMMA HandleTypes ==
    ASSUME TypeOK, HandleRemoved \/ (\E f \in Fetchers : HandleChange(f)) \/ HandleReidentified
    PROVE  TypeOK'
<1>1. StreamTyped(stream)
    BY DEF TypeOK, StreamTyped
<1>2. ASSUME HandleRemoved
      PROVE  TypeOK'
    <2>1. PICK e \in Arrivals :
              /\ Read /\ e.type = "removed"
              /\ cache' = RemoveDevice(cache, e.pdid)
              /\ lastSeen' = [lastSeen EXCEPT ![e.pdid] = "never"]
              /\ UNCHANGED <<remote, engine, store, poller, sse, fetch, admin, requests, faults,
                             history>>
        BY <1>2 DEF HandleRemoved
    <2>2. StreamTyped(stream') /\ e \in Events
        BY <1>1, <2>1, ReadTypes
    <2>3. e.pdid \in PDIDs
        BY <2>1, <2>2 DEF Events
    <2>4. cache' \in Caches
        BY <2>1, <2>3, RemoveRefreshes DEF TypeOK, Refreshed
    <2>5. lastSeen' \in [PDIDs -> {"never", "lately", "before"}]
        BY <2>1, <2>3 DEF TypeOK
    <2> QED
        BY <2>1, <2>2, <2>4, <2>5 DEF TypeOK, StreamTyped, remote, history
<1>3. ASSUME NEW f \in Fetchers, HandleChange(f)
      PROVE  TypeOK'
    <2>1. PICK e \in Arrivals :
              /\ Read /\ e.type \in {"record", "presence", "changed"}
              /\ fetch' = [fetch EXCEPT ![f] = Work(e)]
              /\ UNCHANGED <<remote, cache, engine, store, lastSeen, poller, sse, admin, requests,
                             faults, history>>
        BY <1>3 DEF HandleChange
    <2>2. StreamTyped(stream') /\ e \in Events
        BY <1>1, <2>1, ReadTypes
    <2>3. Work(e) \in FetchJobs
        <3>1. CASE e.type = "record"
            BY <2>2, <3>1 DEF Events, Work, FetchJobs, Fetches
        <3>2. CASE e.type = "presence"
            BY <2>2, <3>2 DEF Events, Work, FetchJobs, Fetches
        <3>3. CASE e.type = "changed"
            BY <2>2, <3>3 DEF Events, Work, FetchJobs, Fetches
        <3> QED
            BY <2>1, <3>1, <3>2, <3>3
    <2>4. fetch' \in [Fetchers -> FetchJobs]
        BY <2>1, <2>3 DEF TypeOK
    <2> QED
        BY <2>1, <2>2, <2>4 DEF TypeOK, StreamTyped, remote, history
<1>4. ASSUME HandleReidentified
      PROVE  TypeOK'
    <2>1. PICK e \in Arrivals :
              /\ Read /\ e.type = "reidentified"
              /\ sse' = [at |-> "store", old |-> e.old, new |-> e.new, macs |-> e.macs]
              /\ UNCHANGED <<remote, cache, engine, store, lastSeen, poller, fetch, admin, requests,
                             faults, history>>
        BY <1>4 DEF HandleReidentified
    <2>2. StreamTyped(stream') /\ e \in Events
        BY <1>1, <2>1, ReadTypes
    <2>3. e.old \in PDIDs /\ e.new \in PDIDs /\ e.macs \in SUBSET MACs
        BY <2>1, <2>2 DEF Events
    <2>4. sse' \in Migrations
        BY <2>1, <2>3 DEF Migrations
    <2> QED
        BY <2>1, <2>2, <2>4 DEF TypeOK, StreamTyped, remote, history
<1> QED
    BY <1>2, <1>3, <1>4

\* What the migration reads after its transaction.
LEMMA MigrateStoreTypes ==
    ASSUME TypeOK, MergesInOrder, MigrateStore
    PROVE  /\ store' \in Stores /\ sse.old \in PDIDs /\ sse.new \in PDIDs
           /\ sse.old # sse.new /\ store.migrated[sse.old] = None
           /\ store.migrated[sse.new] = None
           /\ sse' \in Migrations /\ sse'.at = "engine" /\ sse'.macs = sse.macs
           /\ sse'.old = sse.old /\ sse'.new = sse.new
           /\ sse'.tags = StoredTags(store', sse.new)
           /\ sse'.user = store'.users[sse.new]
           /\ sse'.policies = Of(store'.policies, sse.new)
<1>1. sse.old \in PDIDs /\ sse.new \in PDIDs /\ sse.macs \in SUBSET MACs
    BY JobTypes DEF MigrateStore
<1>2. sse.old # sse.new /\ store.migrated[sse.old] = None /\ store.migrated[sse.new] = None
    BY DEF MergesInOrder, MigrateStore
<1>3. store \in Stores
    BY DEF TypeOK
<1>4. store' \in Stores
    BY <1>1, <1>2, <1>3, MigrationStores DEF MigrateStore
<1> DEFINE tags == StoredTags(store', sse.new)
           user == store'.users[sse.new]
           policies == Of(store'.policies, sse.new)
<1>5. tags \in SUBSET TagIDs
    BY <1>1, <1>4, HydratedTypes
<1>6. user \in OrNone(Users)
    BY <1>1, <1>4 DEF Stores
<1>7. policies \in SUBSET Policies
    BY <1>4 DEF Stores, Of
<1>8. sse' = [at |-> "engine", old |-> sse.old, new |-> sse.new, macs |-> sse.macs,
              tags |-> tags, user |-> user, policies |-> policies]
    BY DEF MigrateStore, Of
<1> HIDE DEF tags, user, policies
<1>9. sse' \in Migrations /\ sse'.at = "engine" /\ sse'.macs = sse.macs
      /\ sse'.old = sse.old /\ sse'.new = sse.new
      /\ sse'.tags = tags /\ sse'.user = user /\ sse'.policies = policies
    BY <1>1, <1>5, <1>6, <1>7, <1>8 DEF Migrations
<1> QED
    BY <1>1, <1>2, <1>4, <1>9 DEF tags, user, policies

\* The settings that were read lie over those of the cache.
Reconciled(c, d, old, new, tags, u) ==
    /\ d.users[old] = None
    /\ d.users[new] = IF u # None THEN u ELSE c.users[new]
    /\ tags # {} => ShownIn(d, new, tags)
    /\ \A p \in PDIDs \ {old, new} :
          d.users[p] = c.users[p] /\ d.sticky[p] = c.sticky[p] /\ d.devices[p] = c.devices[p]

LEMMA ReconcileTypes ==
    ASSUME NEW c \in Caches, NEW old \in PDIDs, NEW new \in PDIDs, old # new,
           NEW macs \in SUBSET MACs, NEW tags \in SUBSET TagIDs, NEW u \in OrNone(Users),
           NEW d, d = ReconcileIdentityMigration(c, old, new, macs, tags, u)
    PROVE  d \in Caches /\ Reconciled(c, d, old, new, tags, u)
<1> DEFINE sticky == [p \in PDIDs |->
                         IF p = old THEN {} ELSE IF p = new /\ tags # {} THEN tags
                         ELSE c.sticky[p]]
           byMAC == [m \in MACs |-> IF m \in macs /\ tags # {} THEN tags ELSE c.byMAC[m]]
           users == [p \in PDIDs |->
                        IF p = old THEN None ELSE IF p = new /\ u # None THEN u ELSE c.users[p]]
           devices == [p \in PDIDs |->
                          IF p = old THEN Absent
                          ELSE IF p = new /\ c.devices[p] # Absent /\ tags # {}
                               THEN [c.devices[p] EXCEPT !.tags = tags]
                          ELSE c.devices[p]]
<1>1. d = [c EXCEPT !.sticky = sticky, !.byMAC = byMAC, !.users = users, !.devices = devices]
    BY DEF ReconcileIdentityMigration
<1>2. sticky \in [PDIDs -> SUBSET TagIDs] /\ byMAC \in [MACs -> SUBSET TagIDs]
      /\ users \in [PDIDs -> OrNone(Users)]
    BY DEF Caches, OrNone
<1>3. c.devices[new] # Absent =>
          [c.devices[new] EXCEPT !.tags = tags] \in Local
          /\ [c.devices[new] EXCEPT !.tags = tags].tags = tags
    BY DEF Caches, Local
<1>4. devices \in [PDIDs -> Local \cup {Absent}]
    BY <1>3 DEF Caches
<1>5. /\ sticky[new] = IF tags # {} THEN tags ELSE c.sticky[new]
      /\ users[old] = None /\ users[new] = IF u # None THEN u ELSE c.users[new]
      /\ tags # {} /\ devices[new] # Absent => devices[new].tags = tags
      /\ \A p \in PDIDs \ {old, new} :
            users[p] = c.users[p] /\ sticky[p] = c.sticky[p] /\ devices[p] = c.devices[p]
    BY <1>3
<1> HIDE DEF sticky, byMAC, users, devices
<1>6. d \in Caches /\ d.sticky = sticky /\ d.users = users /\ d.devices = devices
    BY <1>1, <1>2, <1>4 DEF Caches
<1> QED
    BY <1>5, <1>6 DEF Reconciled, ShownIn

LEMMA MigrateTypes ==
    ASSUME TypeOK, MergesInOrder, MigrateStore \/ MigrateEngine \/ MigrateCache \/ MigrateFails
    PROVE  TypeOK'
<1>1. CASE MigrateStore
    <2>1. store' \in Stores /\ sse' \in Migrations /\ sse.old \in PDIDs /\ sse.new \in PDIDs
        BY <1>1, MigrateStoreTypes
    <2>2. raced' \subseteq PDIDs
        BY <1>1, <2>1 DEF MigrateStore, Overlap, TypeOK
    <2> QED
        BY <1>1, <2>1, <2>2 DEF MigrateStore, TypeOK, remote
<1>2. CASE MigrateEngine
    <2>1. sse.policies \in SUBSET Policies /\ sse \in Migrations
        BY <1>2, JobTypes DEF MigrateEngine, Migrating, TypeOK, Fetches, Idle
    <2>2. engine' \in SUBSET Policies
        BY <1>2, <2>1 DEF MigrateEngine, TypeOK
    <2>3. sse' \in Migrations
        BY <1>2, <2>1 DEF MigrateEngine, Migrations
    <2> QED
        BY <1>2, <2>2, <2>3 DEF MigrateEngine, TypeOK, remote, history
<1>3. CASE MigrateCache
    <2>1. /\ sse.old \in PDIDs /\ sse.new \in PDIDs /\ sse.macs \in SUBSET MACs
          /\ sse.old # sse.new
          /\ sse.tags \in SUBSET TagIDs /\ sse.user \in OrNone(Users)
        BY <1>3, JobTypes DEF MigrateCache, Migrating, MergesInOrder
    <2>2. cache' \in Caches
        BY <1>3, <2>1, ReconcileTypes DEF MigrateCache, TypeOK
    <2>3. sse' \in Fetches
        BY <1>3, <2>1 DEF MigrateCache, Fetches
    <2> QED
        BY <1>3, <2>2, <2>3 DEF MigrateCache, TypeOK, remote, history
<1>4. CASE MigrateFails
    <2>1. sse.old \in PDIDs
        BY <1>4, JobTypes DEF MigrateFails
    <2>2. faults' \in 0 .. MaxFaults
        BY <1>4, BoundsAssumption DEF MigrateFails, Fault, TypeOK
    <2> QED
        BY <1>4, <2>1, <2>2 DEF MigrateFails, TypeOK, remote
<1> QED
    BY <1>1, <1>2, <1>3, <1>4

\* The answer of DIS to a request for one device.
LEMMA AnsweredTypes ==
    ASSUME TypeOK, NEW job, job.pdid \in PDIDs
    PROVE  Answered(job) \in {Idle} \cup Fetches
<1>1. dis \in [PDIDs -> Records \cup {Absent}]
    BY DEF TypeOK
<1> QED
    BY <1>1 DEF Answered, Fetches

LEMMA GetTypes ==
    ASSUME TypeOK, SSEGet \/ SSEUpsert \/ \E f \in Fetchers : FetchStep(f)
    PROVE  TypeOK'
<1>1. CASE SSEGet
    <2>1. sse.pdid \in PDIDs
        BY <1>1, JobTypes DEF SSEGet
    <2>2. sse' \in {Idle} \cup Fetches
        BY <1>1, <2>1, AnsweredTypes DEF SSEGet
    <2> QED
        BY <1>1, <2>2 DEF SSEGet, TypeOK, remote, history
<1>2. CASE SSEUpsert
    <2>1. sse.pdid \in PDIDs /\ sse.record \in Records
        BY <1>2, JobTypes DEF SSEUpsert
    <2>2. cache' \in Caches
        BY <1>2, <2>1, UpsertRefreshes DEF SSEUpsert, TypeOK, Refreshed
    <2> QED
        BY <1>2, <2>2 DEF SSEUpsert, TypeOK, remote, history
<1>3. ASSUME NEW f \in Fetchers, Patch(f)
      PROVE  TypeOK'
    <2>1. fetch[f].pdid \in PDIDs /\ fetch[f].online \in BOOLEAN
        BY <1>3, JobTypes DEF Patch
    <2>2. cache' \in Caches
        BY <1>3, <2>1, PatchRefreshes DEF Patch, TypeOK, Refreshed
    <2>3. [at |-> "get", pdid |-> fetch[f].pdid] \in FetchJobs
        BY <2>1 DEF FetchJobs, Fetches
    <2>4. fetch' \in [Fetchers -> FetchJobs]
        BY <1>3, <2>3 DEF Patch, TypeOK
    <2> QED
        BY <1>3, <2>2, <2>4 DEF Patch, TypeOK, remote, history
<1>4. ASSUME NEW f \in Fetchers, Get(f)
      PROVE  TypeOK'
    <2>1. fetch[f].pdid \in PDIDs
        BY <1>4, JobTypes DEF Get
    <2>2. PICK next \in {Answered(fetch[f]), Idle} : fetch' = [fetch EXCEPT ![f] = next]
        BY <1>4 DEF Get
    <2>3. next \in FetchJobs
        BY <2>1, AnsweredTypes DEF FetchJobs
    <2>4. fetch' \in [Fetchers -> FetchJobs]
        BY <2>2, <2>3 DEF TypeOK
    <2> QED
        BY <1>4, <2>4 DEF Get, TypeOK, remote, history
<1>5. ASSUME NEW f \in Fetchers, Put(f)
      PROVE  TypeOK'
    <2>1. fetch[f].pdid \in PDIDs /\ fetch[f].record \in Records
        BY <1>5, JobTypes DEF Put
    <2>2. cache' \in Caches
        BY <1>5, <2>1, UpsertRefreshes DEF Put, TypeOK, Refreshed
    <2>3. fetch' \in [Fetchers -> FetchJobs]
        BY <1>5 DEF Put, TypeOK, FetchJobs
    <2> QED
        BY <1>5, <2>2, <2>3 DEF Put, TypeOK, remote, history
<1> QED
    BY <1>1, <1>2, <1>3, <1>4, <1>5 DEF FetchStep

LEMMA PollTypes == ASSUME TypeOK, PollStep \/ GracePeriod PROVE TypeOK'
<1>1. dis \in [PDIDs -> Records \cup {Absent}] /\ poller \in PollerJobs /\ cache \in Caches
      /\ lastSeen \in [PDIDs -> {"never", "lately", "before"}]
    BY DEF TypeOK
<1>2. CASE PollGet
    <2>1. poller' \in PollerJobs
        BY <1>1, <1>2 DEF PollGet, PollerJobs
    <2>2. lastSeen' \in [PDIDs -> {"never", "lately", "before"}]
        BY <1>1, <1>2 DEF PollGet
    <2> QED
        BY <1>2, <2>1, <2>2 DEF PollGet, TypeOK, remote, history
<1>3. CASE PollRemove
    <2>1. poller' \in PollerJobs
        BY <1>1, <1>3 DEF PollRemove, PollerJobs, Idle
    <2>2. lastSeen' \in [PDIDs -> {"never", "lately", "before"}]
        BY <1>1, <1>3 DEF PollRemove
    <2>3. cache' \in Caches
        BY <1>1, <1>3, PollRemoveRefreshes DEF Refreshed
    <2> QED
        BY <1>3, <2>1, <2>2, <2>3 DEF PollRemove, TypeOK, remote, history
<1>4. CASE PollUpsert
    <2>1. poller' \in PollerJobs
        BY <1>4 DEF PollUpsert, PollerJobs
    <2>2. cache' \in Caches
        BY <1>1, <1>4, PollUpsertRefreshes DEF Refreshed
    <2> QED
        BY <1>4, <2>1, <2>2 DEF PollUpsert, TypeOK, remote, history
<1>5. CASE GracePeriod
    <2>1. lastSeen' \in [PDIDs -> {"never", "lately", "before"}]
        BY <1>1, <1>5 DEF GracePeriod
    <2> QED
        BY <1>5, <2>1 DEF GracePeriod, TypeOK, remote, history
<1> QED
    BY <1>2, <1>3, <1>4, <1>5 DEF PollStep

\* Tags that are set show at once, and those of other devices as before (SetTags).
LEMMA SetTagsTypes ==
    ASSUME NEW c \in Caches, NEW p \in PDIDs, NEW tags \in SUBSET TagIDs,
           NEW d, d = SetTags(c, p, tags)
    PROVE  /\ d \in Caches /\ d.users = c.users
           /\ ShownIn(d, p, tags)
           /\ \A q \in PDIDs \ {p} : d.sticky[q] = c.sticky[q] /\ d.devices[q] = c.devices[q]
<1> DEFINE macs == IF c.devices[p] = Absent THEN {} ELSE c.devices[p].macs
           sticky == [c.sticky EXCEPT ![p] = tags]
           byMAC == [m \in MACs |-> IF m \in macs THEN tags ELSE c.byMAC[m]]
           one == IF c.devices[p] = Absent THEN Absent ELSE [c.devices[p] EXCEPT !.tags = tags]
           devices == [c.devices EXCEPT ![p] = one]
<1>1. d = [c EXCEPT !.sticky = sticky, !.byMAC = byMAC, !.devices = devices]
    BY DEF SetTags, Caches
<1>2. sticky \in [PDIDs -> SUBSET TagIDs] /\ byMAC \in [MACs -> SUBSET TagIDs]
    BY DEF Caches
<1>3. one \in Local \cup {Absent} /\ (one # Absent => one.tags = tags)
    BY DEF Caches, Local
<1> HIDE DEF one, macs
<1>4. devices \in [PDIDs -> Local \cup {Absent}]
    BY <1>3 DEF Caches
<1>5. sticky[p] = tags /\ devices[p] = one
      /\ \A q \in PDIDs \ {p} : sticky[q] = c.sticky[q] /\ devices[q] = c.devices[q]
    BY DEF Caches
<1> HIDE DEF sticky, byMAC, devices
<1>6. d \in Caches /\ d.sticky = sticky /\ d.users = c.users /\ d.devices = devices
    BY <1>1, <1>2, <1>4 DEF Caches
<1> QED
    BY <1>3, <1>5, <1>6 DEF ShownIn

LEMMA SetUserTypes ==
    ASSUME NEW c \in Caches, NEW p \in PDIDs, NEW u \in OrNone(Users),
           NEW d, d = SetUserID(c, p, u)
    PROVE  /\ d \in Caches /\ d.users = [c.users EXCEPT ![p] = u]
           /\ d.sticky = c.sticky /\ d.devices = c.devices
BY DEF SetUserID, Caches

LEMMA RequestTypes ==
    ASSUME TypeOK, NEW p \in PDIDs,
           (\E tags \in SUBSET TagIDs : TagDevice(p, tags)) \/ Pause(p)
              \/ (\E u \in OrNone(Users) : AssignUser(p, u))
    PROVE  TypeOK'
<1>1. ASSUME Request PROVE requests' \in 0 .. MaxRequests
    BY <1>1, BoundsAssumption DEF Request, TypeOK
<1>2. Touched(p) \subseteq PDIDs
    BY JobTypes DEF Touched, Underway, TypeOK
<1>3. cache \in Caches /\ engine \in SUBSET Policies /\ store \in Stores
    BY DEF TypeOK
<1>4. ASSUME NEW tags \in SUBSET TagIDs, TagDevice(p, tags)
      PROVE  TypeOK'
    <2>1. cache' \in Caches
        BY <1>3, <1>4, SetTagsTypes DEF TagDevice
    <2>2. PICK mac \in IF (IF p \in Cached THEN cache.devices[p].macs ELSE {}) = {} THEN {None}
                       ELSE IF p \in Cached THEN cache.devices[p].macs ELSE {} :
              admin' = [at |-> "save", what |-> "tags", pdid |-> p, tags |-> tags, mac |-> mac]
        BY <1>4 DEF TagDevice
    <2>3. p \in Cached => cache.devices[p].macs \in SUBSET MACs
        BY <1>3 DEF Cached, Present, Caches, Local
    <2>4. mac \in OrNone(MACs)
        BY <2>2, <2>3 DEF OrNone
    <2>5. admin' \in AdminJobs
        BY <2>2, <2>4 DEF AdminJobs
    <2> QED
        BY <1>1, <1>2, <1>4, <2>1, <2>5 DEF TagDevice, TypeOK, remote
<1>5. ASSUME Pause(p)
      PROVE  TypeOK'
    <2> DEFINE policy == [name |-> "pause", device |-> p, priority |-> PausePriority]
    <2>1. policy \in Policies
        BY DataAssumption DEF Policies
    <2>2. engine' \in SUBSET Policies
        BY <1>3, <1>5, <2>1, SavePolicyStores DEF Pause
    <2>3. admin' = [at |-> "save", what |-> "policy", pdid |-> p, policy |-> policy]
        BY <1>5 DEF Pause
    <2> HIDE DEF policy
    <2>4. admin' \in AdminJobs
        BY <2>1, <2>3 DEF AdminJobs
    <2> QED
        BY <1>1, <1>2, <1>5, <2>2, <2>4 DEF Pause, TypeOK, remote
<1>6. ASSUME NEW u \in OrNone(Users), AssignUser(p, u)
      PROVE  TypeOK'
    <2>1. store' = [store EXCEPT !.users = [store.users EXCEPT ![p] = u]]
        BY <1>6 DEF AssignUser
    <2>3. store' \in Stores
        BY <1>3, <2>1 DEF Stores
    <2>2. admin' \in AdminJobs
        BY <1>6 DEF AssignUser, AdminJobs
    <2> QED
        BY <1>1, <1>2, <1>6, <2>3, <2>2 DEF AssignUser, TypeOK, remote
<1> QED
    BY <1>4, <1>5, <1>6

LEMMA AnswerTypes == ASSUME TypeOK, AdminStep \/ SaveFails PROVE TypeOK'
<1>1. admin' \in AdminJobs
    BY DEF AdminStep, Save, SetUser, SaveFails, AdminJobs
<1>2. admin.pdid \in PDIDs /\ Touched(admin.pdid) \subseteq PDIDs
    BY JobTypes DEF AdminStep, Save, SetUser, SaveFails, Touched, Underway, TypeOK
<1>3. cache \in Caches /\ store \in Stores
    BY DEF TypeOK
<1>4. CASE Save
    <2>1. ASSUME admin.what = "tags" PROVE store' \in Stores
        <3>1. admin.tags \in SUBSET TagIDs /\ admin.mac \in OrNone(MACs)
            BY <1>4, <2>1, JobTypes DEF Save
        <3>2. store' = SaveDeviceTags(store, admin.pdid, admin.tags, admin.mac)
            BY <1>4, <2>1 DEF Save
        <3> QED
            BY <1>2, <1>3, <3>1, <3>2, SaveTagsStores
    <2>2. ASSUME admin.what = "policy" PROVE store' \in Stores
        <3>1. store' = [store EXCEPT !.policies = SavePolicy(store.policies, admin.policy)]
            BY <1>4, <2>2 DEF Save
        <3>2. store.policies \in SUBSET Policies /\ admin.policy \in Policies
            BY <1>3, <1>4, <2>2, JobTypes DEF Save, Stores
        <3>3. SavePolicy(store.policies, admin.policy) \in SUBSET Policies
            BY <3>2, SavePolicyStores
        <3> QED
            BY <1>3, <3>1, <3>3 DEF Stores
    <2>3. admin.what \in {"tags", "policy"}
        BY <1>4, JobTypes DEF Save
    <2>4. store' \in Stores
        BY <2>1, <2>2, <2>3
    <2> QED
        BY <1>1, <1>2, <1>4, <2>4 DEF Save, TypeOK, remote
<1>5. CASE SaveFails
    <2>1. faults' \in 0 .. MaxFaults
        BY <1>5, BoundsAssumption DEF SaveFails, Fault, TypeOK
    <2> QED
        BY <1>1, <1>2, <1>5, <2>1 DEF SaveFails, TypeOK, remote
<1>6. CASE SetUser
    <2>1. cache' \in Caches
        BY <1>2, <1>3, <1>6, JobTypes, SetUserTypes DEF SetUser
    <2> QED
        BY <1>1, <1>2, <1>6, <2>1 DEF SetUser, TypeOK, remote
<1> QED
    BY <1>4, <1>5, <1>6 DEF AdminStep

LEMMA RestartTypes == ASSUME TypeOK, Restart PROVE TypeOK'
<1>1. cache' \in Caches /\ engine' \in SUBSET Policies
    BY HydratedTypes DEF Restart, TypeOK, Stores
<1>2. poller' \in PollerJobs /\ admin' \in AdminJobs /\ fetch' \in [Fetchers -> FetchJobs]
    BY DEF Restart, PollerJobs, AdminJobs, FetchJobs
<1>3. lost' \subseteq PDIDs /\ StreamTyped(stream')
    BY PendingTypes DEF Restart, TypeOK
<1>4. faults' \in 0 .. MaxFaults
    BY BoundsAssumption DEF Restart, Fault, TypeOK
<1>5. lastSeen' \in [PDIDs -> {"never", "lately", "before"}]
    BY DEF Restart
<1> QED
    BY <1>1, <1>2, <1>3, <1>4, <1>5 DEF Restart, TypeOK, StreamTyped, remote

LEMMA TypesKept == ASSUME TypeOK, MergesInOrder, [Next]_vars PROVE TypeOK'
<1>1. CASE UNCHANGED vars
    BY <1>1 DEF TypeOK, vars, remote, history
<1>2. CASE Next
    BY <1>2, DISTypes, ConnectionTypes, HandleTypes, MigrateTypes, GetTypes, PollTypes,
       RequestTypes, AnswerTypes, RestartTypes DEF Next, SSEStep
<1> QED
    BY <1>1, <1>2

-----------------------------------------------------------------------------
(* Merges are followed in their order                                      *)

\* The events of merges that wait: each was made when both devices were there.
LEMMA WaitingTypes ==
    ASSUME TypeOK
    PROVE  /\ Len(stream.queue) \in Nat
           /\ \A i \in Waiting : /\ i \in 1 .. Len(stream.queue)
                                 /\ stream.queue[i] \in Events
                                 /\ stream.queue[i].old \in PDIDs /\ stream.queue[i].new \in PDIDs
<1>1. stream.queue \in Seq(Events) /\ Len(stream.queue) \in Nat
    BY DEF TypeOK
<1>2. ASSUME NEW i \in Waiting
      PROVE  /\ i \in 1 .. Len(stream.queue)
             /\ stream.queue[i] \in Events
             /\ stream.queue[i].old \in PDIDs /\ stream.queue[i].new \in PDIDs
    <2>1. stream.queue[i] \in Events /\ stream.queue[i].type = "reidentified"
        BY <1>1 DEF Waiting
    <2> QED
        BY <2>1 DEF Events, Waiting
<1> QED
    BY <1>1, <1>2

LEMMA InitOrder == Init => MergesInOrder /\ RedirectsWhole
<1> SUFFICES ASSUME Init PROVE MergesInOrder /\ RedirectsWhole
    OBVIOUS
<1>1. Waiting = {}
    BY DEF Init, Down, Waiting
<1>2. sse.at = "idle"
    BY DEF Init, Idle
<1>3. \A p \in PDIDs : dis[p] # Absent => merged[p] = None
    BY KeptAssumption DEF Init
<1>4. RedirectsWhole
    BY KeptAssumption DEF Init, RedirectsWhole
<1> QED
    BY <1>1, <1>2, <1>3, <1>4 DEF Init, MergesInOrder

\* What tells of no merge leaves the order as it is, and so does a lost channel.
LEMMA OrderKept ==
    ASSUME MergesInOrder, dis' = dis, merged' = merged, store'.migrated = store.migrated,
           stream' = stream \/ stream'.queue = <<>>,
           sse'.at = "store" => sse' = sse,
           sse'.at \in {"engine", "cache"} =>
               sse.at \in {"engine", "cache"} /\ sse'.old = sse.old /\ sse'.new = sse.new
    PROVE  MergesInOrder'
<1>1. CASE stream' = stream
    BY <1>1 DEF MergesInOrder, Waiting
<1>2. CASE stream'.queue = <<>>
    <2>1. Waiting' = {}
        BY <1>2 DEF Waiting
    <2> QED
        BY <2>1 DEF MergesInOrder
<1> QED
    BY <1>1, <1>2

\* A change in DIS: a merge, which is of devices that were not merged before,
\* comes last.
LEMMA OrderWhileChanging ==
    ASSUME TypeOK, MergesInOrder, store' = store, sse' = sse,
           \A p \in PDIDs : dis'[p] # Absent => merged'[p] = None,
           \A p \in PDIDs : merged[p] # None => merged'[p] # None,
           NEW e \in Events,
           stream' = stream \/ stream'.queue = Append(stream.queue, e),
           e.type = "reidentified" =>
               e.old # e.new /\ merged[e.old] = None /\ merged[e.new] = None /\ merged'[e.old] # None
    PROVE  MergesInOrder'
<1>1. stream.queue \in Seq(Events) /\ Len(stream.queue) \in Nat
    BY DEF TypeOK
<1> DEFINE InOrder(i, q) == q[i].old # q[i].new /\ merged'[q[i].old] # None
                            /\ store.migrated[q[i].old] = None /\ store.migrated[q[i].new] = None
<1>2. \A i \in Waiting : InOrder(i, stream.queue) /\ merged[stream.queue[i].old] # None
    BY WaitingTypes DEF MergesInOrder
<1>3. sse.at = "store" => sse.old \in PDIDs /\ merged[sse.old] # None /\ merged'[sse.old] # None
    BY JobTypes DEF MergesInOrder
<1>4. \A p \in PDIDs : merged[p] = None => store.migrated[p] = None
    BY DEF MergesInOrder
<1>5. CASE stream' = stream
    BY <1>2, <1>3, <1>5 DEF MergesInOrder, Waiting
<1>6. CASE stream'.queue = Append(stream.queue, e)
    <2> DEFINE n == Len(stream.queue) + 1
    <2>1. /\ Len(stream'.queue) = n /\ stream'.queue[n] = e
          /\ \A i \in 1 .. Len(stream.queue) : stream'.queue[i] = stream.queue[i]
        BY <1>1, <1>6
    <2>2. \A i \in Waiting' : \/ i \in Waiting /\ stream'.queue[i] = stream.queue[i]
                              \/ i = n /\ e.type = "reidentified" /\ stream'.queue[i] = e
        BY <1>1, <2>1 DEF Waiting
    <2>3. e.type = "reidentified" => e.old \in PDIDs /\ e.new \in PDIDs
        BY DEF Events
    <2>4. \A i \in Waiting' : InOrder(i, stream'.queue)
        BY <1>2, <1>4, <2>2, <2>3
    <2>5. ASSUME NEW i \in Waiting', NEW j \in Waiting', i < j
          PROVE  stream'.queue[i].old \notin {stream'.queue[j].old, stream'.queue[j].new}
        <3>1. i \in Waiting /\ stream'.queue[i] = stream.queue[i]
            BY <1>1, <2>2, <2>5 DEF Waiting
        <3>2. CASE j \in Waiting /\ stream'.queue[j] = stream.queue[j]
            BY <2>5, <3>1, <3>2 DEF MergesInOrder
        <3>3. CASE e.type = "reidentified" /\ stream'.queue[j] = e
            BY <1>2, <3>1, <3>3
        <3> QED
            BY <2>2, <3>2, <3>3
    <2>6. ASSUME sse.at = "store", NEW i \in Waiting'
          PROVE  sse.old \notin {stream'.queue[i].old, stream'.queue[i].new}
        <3>1. CASE i \in Waiting /\ stream'.queue[i] = stream.queue[i]
            BY <2>6, <3>1 DEF MergesInOrder
        <3>2. CASE e.type = "reidentified" /\ stream'.queue[i] = e
            BY <1>3, <2>6, <3>2
        <3> QED
            BY <2>2, <3>1, <3>2
    <2>7. \A p \in PDIDs : store'.migrated[p] # None => merged'[p] # None
        BY <1>4
    <2> QED
        BY <1>3, <2>4, <2>5, <2>6, <2>7 DEF MergesInOrder
<1> QED
    BY <1>5, <1>6

\* The event that is read next is that of the earliest merge.
LEMMA OrderWhileReading ==
    ASSUME TypeOK, MergesInOrder, UNCHANGED <<dis, merged, store>>,
           NEW e \in Arrivals, Read,
           sse' = sse \/ /\ e.type = "reidentified"
                         /\ sse' = [at |-> "store", old |-> e.old, new |-> e.new, macs |-> e.macs]
    PROVE  MergesInOrder'
<1>1. sse = Idle /\ e = stream.queue[1] /\ Len(stream.queue) > 0
      /\ stream'.queue = Tail(stream.queue)
    BY ReadTypes DEF TypeOK, StreamTyped
<1>2. stream.queue \in Seq(Events) /\ Len(stream.queue) \in Nat
    BY DEF TypeOK
<1>3. \A i \in Waiting' : i \in Nat /\ i + 1 \in Waiting /\ i + 1 > 1
                          /\ stream'.queue[i] = stream.queue[i + 1]
    BY <1>1, <1>2 DEF Waiting
<1>4. ASSUME NEW i \in Waiting'
      PROVE  LET x == stream'.queue[i] IN
             /\ x.old # x.new /\ merged[x.old] # None
             /\ store.migrated[x.old] = None /\ store.migrated[x.new] = None
             /\ \A j \in Waiting' : i < j => x.old \notin {stream'.queue[j].old, stream'.queue[j].new}
    BY <1>3, <1>4 DEF MergesInOrder
<1>5. CASE sse' = sse
    <2>1. sse'.at = "idle"
        BY <1>1, <1>5 DEF Idle
    <2> QED
        BY <1>4, <2>1 DEF MergesInOrder
<1>6. CASE e.type = "reidentified"
           /\ sse' = [at |-> "store", old |-> e.old, new |-> e.new, macs |-> e.macs]
    <2>1. 1 \in Waiting
        BY <1>1, <1>2, <1>6 DEF Waiting
    <2>2. /\ e.old # e.new /\ merged[e.old] # None
          /\ store.migrated[e.old] = None /\ store.migrated[e.new] = None
          /\ \A j \in Waiting : 1 < j => e.old \notin {stream.queue[j].old, stream.queue[j].new}
        BY <1>1, <2>1 DEF MergesInOrder
    <2>3. \A i \in Waiting' : e.old \notin {stream'.queue[i].old, stream'.queue[i].new}
        BY <1>3, <2>2
    <2>4. sse'.at = "store" /\ sse'.old = e.old /\ sse'.new = e.new
        BY <1>6
    <2> QED
        BY <1>4, <2>2, <2>3, <2>4 DEF MergesInOrder
<1> QED
    BY <1>5, <1>6

LEMMA DISOrder == ASSUME TypeOK, MergesInOrder, DIS PROVE MergesInOrder' /\ store' = store
<1>1. dis \in [PDIDs -> Records \cup {Absent}] /\ merged \in [PDIDs -> OrNone(PDIDs)]
      /\ StreamTyped(stream)
    BY DEF TypeOK, StreamTyped
<1>2. \A p \in PDIDs : dis[p] # Absent => merged[p] = None
    BY DEF MergesInOrder
<1>3. ASSUME Changes PROVE store' = store /\ sse' = sse
    BY <1>3 DEF Changes, local
<1>4. ASSUME NEW p \in PDIDs, NEW r \in Records, Appear(p, r)
      PROVE  MergesInOrder'
    <2> DEFINE e == [type |-> "record", pdid |-> p, record |-> r]
    <2>1. e \in Events /\ e.type # "reidentified"
        BY DEF Events
    <2>2. merged' = merged /\ \A q \in PDIDs : dis'[q] # Absent => merged[q] = None
        BY <1>1, <1>2, <1>4 DEF Appear
    <2>3. stream' = stream \/ stream'.queue = Append(stream.queue, e)
        BY <1>1, <1>4, <2>1, BroadcastTypes DEF Appear
    <2> QED
        BY <1>3, <1>4, <2>1, <2>2, <2>3, OrderWhileChanging DEF Appear
<1>5. ASSUME NEW p \in PDIDs, Presence(p)
      PROVE  MergesInOrder'
    <2> DEFINE e == [type |-> "presence", pdid |-> p, online |-> dis'[p].online]
    <2>1. dis'[p].online \in BOOLEAN
        <3>1. dis[p] \in Records
            BY <1>1, <1>5 DEF Presence
        <3>2. dis'[p] = [dis[p] EXCEPT !.online = ~dis[p].online]
            BY <1>1, <1>5 DEF Presence
        <3> QED
            BY <3>1, <3>2 DEF Records
    <2>2. e \in Events /\ e.type # "reidentified"
        BY <2>1 DEF Events
    <2>3. merged' = merged /\ \A q \in PDIDs : dis'[q] # Absent => merged[q] = None
        BY <1>1, <1>2, <1>5 DEF Presence
    <2>4. stream' = stream \/ stream'.queue = Append(stream.queue, e)
        BY <1>1, <1>5, <2>2, BroadcastTypes DEF Presence
    <2> HIDE DEF e
    <2> QED
        BY <1>3, <1>5, <2>2, <2>3, <2>4, OrderWhileChanging DEF Presence
<1>6. ASSUME NEW p \in PDIDs, NEW m \in MACs, NewMAC(p, m)
      PROVE  MergesInOrder'
    <2> DEFINE e == [type |-> "changed", pdid |-> p]
    <2>1. e \in Events /\ e.type # "reidentified"
        BY DEF Events
    <2>2. merged' = merged /\ \A q \in PDIDs : dis'[q] # Absent => merged[q] = None
        BY <1>1, <1>2, <1>6 DEF NewMAC
    <2>3. stream' = stream \/ stream'.queue = Append(stream.queue, e)
        BY <1>1, <1>6, <2>1, BroadcastTypes DEF NewMAC
    <2> QED
        BY <1>3, <1>6, <2>1, <2>2, <2>3, OrderWhileChanging DEF NewMAC
<1>7. ASSUME NEW p \in PDIDs, Removal(p)
      PROVE  MergesInOrder'
    <2> DEFINE e == [type |-> "removed", pdid |-> p]
    <2>1. e \in Events /\ e.type # "reidentified"
        BY DEF Events
    <2>2. merged' = merged /\ \A q \in PDIDs : dis'[q] # Absent => merged[q] = None
        BY <1>1, <1>2, <1>7 DEF Removal
    <2>3. stream' = stream \/ stream'.queue = Append(stream.queue, e)
        BY <1>1, <1>7, <2>1, BroadcastTypes DEF Removal
    <2> QED
        BY <1>3, <1>7, <2>1, <2>2, <2>3, OrderWhileChanging DEF Removal
<1>8. ASSUME NEW old \in PDIDs, NEW new \in PDIDs, Merge(old, new)
      PROVE  MergesInOrder'
    <2> DEFINE e == [type |-> "reidentified", old |-> old, new |-> new, macs |-> dis[old].macs]
    <2>1. dis[old] \in Records /\ dis[old] # Absent /\ dis[new] # Absent /\ old # new
        BY <1>1, <1>8 DEF Merge, Present
    <2>2. e \in Events /\ e.old = old /\ e.new = new
        BY <2>1 DEF Events, Records
    <2>3. merged[old] = None /\ merged[new] = None
        BY <1>2, <2>1
    <2>4. merged' = [merged EXCEPT ![old] = new] /\ new # None
        BY <1>8, DataAssumption DEF Merge
    <2>5. \A q \in PDIDs : dis'[q] # Absent => q # old /\ dis[q] # Absent
        BY <1>1, <1>8, <2>1 DEF Merge
    <2>6. \A q \in PDIDs : dis'[q] # Absent => merged'[q] = None
        BY <1>1, <1>2, <2>4, <2>5
    <2>7. \A q \in PDIDs : merged[q] # None => merged'[q] # None
        BY <1>1, <2>4
    <2>8. stream' = stream \/ stream'.queue = Append(stream.queue, e)
        BY <1>1, <1>8, <2>2, BroadcastTypes DEF Merge
    <2>9. merged'[old] # None
        BY <1>1, <2>4
    <2> HIDE DEF e
    <2> QED
        BY <1>3, <1>8, <2>1, <2>2, <2>3, <2>6, <2>7, <2>8, <2>9, OrderWhileChanging DEF Merge
<1>9. [macs |-> {}, online |-> TRUE] \in Records
    BY DEF Records
<1>10. Changes
    BY DEF DIS, Appear, Presence, NewMAC, Removal, Merge
<1>11. MergesInOrder'
    BY <1>4, <1>5, <1>6, <1>7, <1>8, <1>9 DEF DIS
<1> QED
    BY <1>3, <1>10, <1>11

\* The transaction follows the merge of its event, and those of earlier merges
\* have been followed (MigrateIdentityState).
LEMMA MigrateStoreOrder ==
    ASSUME TypeOK, MergesInOrder, RedirectsWhole, MigrateStore
    PROVE  MergesInOrder' /\ RedirectsWhole'
<1> DEFINE old == sse.old
           new == sse.new
<1>1. /\ old \in PDIDs /\ new \in PDIDs /\ old # new
      /\ store.migrated[old] = None /\ store.migrated[new] = None
      /\ sse'.at = "engine" /\ sse'.old = old /\ sse'.new = new
    BY MigrateStoreTypes
<1>2. store \in Stores
    BY DEF TypeOK
<1>3. /\ store'.migrated = [store.migrated EXCEPT ![old] = new]
      /\ store'.redirects = MovedRedirects(store.redirects, old, new)
    BY <1>1, <1>2, MigrationStores DEF MigrateStore
<1>4. /\ merged[old] # None
      /\ \A i \in Waiting : old \notin {stream.queue[i].old, stream.queue[i].new}
    BY DEF MergesInOrder, MigrateStore
<1>5. store.migrated \in [PDIDs -> OrNone(PDIDs)] /\ store.redirects \in [PDIDs -> OrNone(PDIDs)]
    BY <1>2 DEF Stores
<1>6. UNCHANGED <<dis, merged, stream>>
    BY DEF MigrateStore, remote
<1> HIDE DEF old, new
<1>7. store'.migrated[old] = new /\ \A p \in PDIDs : p # old =>
          store'.migrated[p] = store.migrated[p]
    BY <1>1, <1>3, <1>5
<1>8. MergesInOrder'
    <2>1. \A i \in Waiting' : i \in Waiting /\ stream'.queue[i] = stream.queue[i]
        BY <1>6 DEF Waiting
    <2>2. \A i \in Waiting :
              /\ store'.migrated[stream.queue[i].old] = None
              /\ store'.migrated[stream.queue[i].new] = None
        BY <1>4, <1>7, WaitingTypes DEF MergesInOrder
    <2>3. \A p \in PDIDs : store'.migrated[p] # None => merged[p] # None
        BY <1>4, <1>7 DEF MergesInOrder
    <2> QED
        BY <1>1, <1>6, <2>1, <2>2, <2>3 DEF MergesInOrder
<1>9. RedirectsWhole'
    <2> SUFFICES ASSUME NEW p \in PDIDs
                 PROVE  /\ store'.migrated[p] # None => store'.redirects[p] # None
                        /\ store'.redirects[p] # None =>
                              store'.migrated[store'.redirects[p]] = None
        BY DEF RedirectsWhole
    <2>1. store'.redirects[p] = IF p = old \/ store.redirects[p] = old THEN new
                                ELSE store.redirects[p]
        BY <1>3 DEF MovedRedirects
    <2>2. CASE p = old \/ store.redirects[p] = old
        BY <1>1, <1>7, <2>1, <2>2, DataAssumption
    <2>3. CASE p # old /\ store.redirects[p] # old
        BY <1>5, <1>7, <2>1, <2>3 DEF RedirectsWhole, OrNone
    <2> QED
        BY <2>2, <2>3
<1> QED
    BY <1>8, <1>9

\* What does not write the log of migrations and redirects.
LEMMA RedirectsKept ==
    ASSUME RedirectsWhole, store'.migrated = store.migrated, store'.redirects = store.redirects
    PROVE  RedirectsWhole'
BY DEF RedirectsWhole

LEMMA HandleOrder ==
    ASSUME TypeOK, MergesInOrder,
           HandleRemoved \/ (\E f \in Fetchers : HandleChange(f)) \/ HandleReidentified
    PROVE  MergesInOrder' /\ store' = store
<1>1. CASE HandleRemoved
    <2>1. PICK e \in Arrivals : Read /\ UNCHANGED <<remote, store, sse>>
        BY <1>1 DEF HandleRemoved
    <2> QED
        BY <2>1, OrderWhileReading DEF remote
<1>2. ASSUME NEW f \in Fetchers, HandleChange(f)
      PROVE  MergesInOrder' /\ store' = store
    <2>1. PICK e \in Arrivals : Read /\ UNCHANGED <<remote, store, sse>>
        BY <1>2 DEF HandleChange
    <2> QED
        BY <2>1, OrderWhileReading DEF remote
<1>3. CASE HandleReidentified
    <2>1. PICK e \in Arrivals :
              /\ Read /\ e.type = "reidentified"
              /\ sse' = [at |-> "store", old |-> e.old, new |-> e.new, macs |-> e.macs]
              /\ UNCHANGED <<remote, store>>
        BY <1>3 DEF HandleReidentified
    <2> QED
        BY <2>1, OrderWhileReading DEF remote
<1> QED
    BY <1>1, <1>2, <1>3

\* The other steps tell of no merge.
LEMMA OtherOrder ==
    ASSUME TypeOK, MergesInOrder,
           \/ Connect \/ Disconnect \/ MigrateEngine \/ MigrateCache \/ MigrateFails
           \/ SSEGet \/ SSEUpsert \/ \E f \in Fetchers : FetchStep(f)
           \/ PollStep \/ GracePeriod
           \/ \E p \in PDIDs : \/ \E tags \in SUBSET TagIDs : TagDevice(p, tags)
                               \/ Pause(p)
                               \/ \E u \in OrNone(Users) : AssignUser(p, u)
           \/ AdminStep \/ SaveFails \/ Restart \/ UNCHANGED vars
    PROVE  /\ MergesInOrder'
           /\ store'.migrated = store.migrated /\ store'.redirects = store.redirects
<1>1. store \in Stores /\ sse \in {Idle} \cup Migrations \cup Fetches
    BY DEF TypeOK
<1>2. /\ dis' = dis /\ merged' = merged
      /\ stream' = stream \/ stream'.queue = <<>>
    <2>1. CASE Connect \/ Disconnect \/ Restart
        BY <2>1 DEF Connect, Disconnect, Restart, remote, Down
    <2>2. CASE MigrateEngine \/ MigrateCache \/ MigrateFails \/ SSEGet \/ SSEUpsert
        BY <2>2 DEF MigrateEngine, MigrateCache, MigrateFails, SSEGet, SSEUpsert, remote
    <2>3. CASE (\E f \in Fetchers : FetchStep(f)) \/ PollStep \/ GracePeriod
        BY <2>3 DEF FetchStep, Patch, Get, Put, PollStep, PollGet, PollRemove, PollUpsert,
                    GracePeriod, remote
    <2>4. CASE \/ \E p \in PDIDs : \/ \E tags \in SUBSET TagIDs : TagDevice(p, tags)
                                   \/ Pause(p)
                                   \/ \E u \in OrNone(Users) : AssignUser(p, u)
               \/ AdminStep \/ SaveFails
        BY <2>4 DEF TagDevice, Pause, AssignUser, AdminStep, Save, SetUser, SaveFails, remote
    <2>5. CASE UNCHANGED vars
        BY <2>5 DEF vars, remote
    <2> QED
        BY <2>1, <2>2, <2>3, <2>4, <2>5
<1>3. store'.migrated = store.migrated /\ store'.redirects = store.redirects
    <2>1. CASE UNCHANGED store
        BY <2>1
    <2>2. ASSUME NEW p \in PDIDs, NEW u, AssignUser(p, u)
          PROVE  store'.migrated = store.migrated /\ store'.redirects = store.redirects
        BY <1>1, <2>2 DEF AssignUser, Stores
    <2>3. CASE Save
        BY <1>1, <2>3 DEF Save, SaveDeviceTags, Stores
    <2> QED
        BY <2>1, <2>2, <2>3
        DEF Connect, Disconnect, MigrateEngine, MigrateCache, MigrateFails, SSEGet, SSEUpsert,
            FetchStep, Patch, Get, Put, PollStep, PollGet, PollRemove, PollUpsert, GracePeriod,
            TagDevice, Pause, AdminStep, SetUser, SaveFails, Restart, vars, local
<1>4. \/ sse' = sse
      \/ sse'.at \in {"idle", "get", "upsert"}
      \/ /\ sse.at = "engine" /\ sse'.at = "cache"
         /\ sse'.old = sse.old /\ sse'.new = sse.new
    <2>1. CASE MigrateEngine
        <3>1. sse \in Migrations
            BY <1>1, <2>1 DEF MigrateEngine, Fetches, Idle
        <3> QED
            BY <2>1, <3>1 DEF MigrateEngine, Migrations
    <2>2. CASE MigrateCache \/ MigrateFails \/ SSEUpsert \/ Restart
        BY <2>2 DEF MigrateCache, MigrateFails, SSEUpsert, Restart, Idle
    <2>3. CASE SSEGet
        BY <2>3 DEF SSEGet, Answered, Idle
    <2>4. CASE sse' = sse
        BY <2>4
    <2> QED
        BY <2>1, <2>2, <2>3, <2>4
        DEF Connect, Disconnect, FetchStep, Patch, Get, Put, PollStep, PollGet, PollRemove,
            PollUpsert, GracePeriod, TagDevice, Pause, AssignUser, AdminStep, Save, SetUser,
            SaveFails, vars, local
<1>5. /\ sse'.at = "store" => sse' = sse
      /\ sse'.at \in {"engine", "cache"} /\ sse' # sse =>
            sse.at = "engine" /\ sse'.old = sse.old /\ sse'.new = sse.new
    BY <1>4
<1>6. MergesInOrder'
    BY <1>2, <1>3, <1>5, OrderKept
<1> QED
    BY <1>3, <1>6

LEMMA MergesKept ==
    ASSUME TypeOK, MergesInOrder, RedirectsWhole, [Next]_vars
    PROVE  MergesInOrder' /\ RedirectsWhole'
<1>1. CASE DIS
    BY <1>1, DISOrder, RedirectsKept
<1>2. CASE MigrateStore
    BY <1>2, MigrateStoreOrder
<1>3. CASE HandleRemoved \/ (\E f \in Fetchers : HandleChange(f)) \/ HandleReidentified
    BY <1>3, HandleOrder, RedirectsKept
<1>4. CASE \/ Connect \/ Disconnect \/ MigrateEngine \/ MigrateCache \/ MigrateFails
           \/ SSEGet \/ SSEUpsert \/ \E f \in Fetchers : FetchStep(f)
           \/ PollStep \/ GracePeriod
           \/ \E p \in PDIDs : \/ \E tags \in SUBSET TagIDs : TagDevice(p, tags)
                               \/ Pause(p)
                               \/ \E u \in OrNone(Users) : AssignUser(p, u)
           \/ AdminStep \/ SaveFails \/ Restart \/ UNCHANGED vars
    BY <1>4, OtherOrder, RedirectsKept
<1> QED
    BY <1>1, <1>2, <1>3, <1>4 DEF Next, SSEStep

-----------------------------------------------------------------------------
(* Memory follows the database                                             *)

\* What a step leaves of a device: its settings everywhere, and its tags shown.
Unmoved(p) ==
    /\ cache'.users[p] = cache.users[p] /\ store'.users[p] = store.users[p]
    /\ StoredTags(store', p) = StoredTags(store, p)
    /\ Of(engine', p) = Of(engine, p) /\ Of(store'.policies, p) = Of(store.policies, p)
    /\ \A tags \in SUBSET TagIDs : tags # {} /\ ShownIn(cache, p, tags) => ShownIn(cache', p, tags)

LEMMA UnmovedKept ==
    ASSUME TypeOK, TypeOK', NEW p \in PDIDs, AsFarAs(p), Unmoved(p),
           admin.at = "save" /\ admin.what = "policy" => admin.policy.device = admin.pdid,
           \/ admin' = admin
           \/ (admin = Idle \/ admin.pdid # p) /\ (admin' = Idle \/ admin'.pdid # p)
    PROVE  AsFarAs(p)'
<1>1. StoredTags(store, p) \in SUBSET TagIDs
    BY HydratedTypes DEF TypeOK
<1>2. TagsKept(p) => TagsKept(p)'
    BY <1>1 DEF TagsKept, Unmoved
<1>3. PersonKept(p) => PersonKept(p)'
    BY DEF PersonKept, Unmoved
<1>4. PoliciesKept(p) => PoliciesKept(p)'
    BY DEF PoliciesKept, Unmoved
<1>5. CASE ~(admin # Idle /\ admin.pdid = p)
    <2>1. PersonKept(p) /\ PoliciesKept(p) /\ TagsKept(p)
        BY <1>5 DEF AsFarAs
    <2>2. ~(admin' # Idle /\ admin'.pdid = p)
        BY <1>5
    <2> QED
        BY <1>2, <1>3, <1>4, <2>1, <2>2 DEF AsFarAs
<1>6. CASE admin # Idle /\ admin.pdid = p /\ admin' = admin
    <2>1. Half(p)
        BY <1>6 DEF AsFarAs
    <2>2. CASE admin.at = "set"
        <3>1. store'.users[p] = admin.user /\ PoliciesKept(p)' /\ TagsKept(p)'
            BY <1>2, <1>4, <2>1, <2>2 DEF Half, Unmoved
        <3> QED
            BY <1>6, <2>2, <3>1 DEF AsFarAs, Half
    <2>3. CASE admin.at = "save" /\ admin.what = "tags"
        <3>1. admin.tags \in SUBSET TagIDs
            BY <2>3, JobTypes
        <3>2. admin.tags # {} /\ ShownIn(cache', p, admin.tags)
              /\ PersonKept(p)' /\ PoliciesKept(p)'
            BY <1>3, <1>4, <2>1, <2>3, <3>1 DEF Half, Unmoved
        <3> QED
            BY <1>6, <2>3, <3>2 DEF AsFarAs, Half
    <2>4. CASE admin.at = "save" /\ admin.what = "policy"
        <3>1. admin.policy \in Policies /\ admin.policy.device = p
            BY <1>6, <2>4, JobTypes
        <3>2. store.policies \in SUBSET Policies /\ store'.policies \in SUBSET Policies
            BY DEF TypeOK, Stores
        <3>3. Of(SavePolicy(store.policies, admin.policy), p)
              = Of(SavePolicy(store'.policies, admin.policy), p)
            BY <3>1, <3>2, SavePolicyStores DEF Unmoved
        <3>4. Of(engine', p) = Of(SavePolicy(store'.policies, admin.policy), p)
              /\ PersonKept(p)' /\ TagsKept(p)'
            BY <1>2, <1>3, <2>1, <2>4, <3>3 DEF Half, Unmoved
        <3> QED
            BY <1>6, <2>4, <3>4 DEF AsFarAs, Half
    <2> QED
        BY <1>6, <2>2, <2>3, <2>4, JobTypes
<1> QED
    BY <1>5, <1>6

\* A record is refreshed, or nothing happens to the settings.
LEMMA MemoryWhileRefreshing ==
    ASSUME TypeOK, TypeOK', MemoryKept, UNCHANGED <<engine, store, admin, raced>>,
           cache' = cache \/ Refreshed(cache, cache'),
           sse' = sse \/ (~Migrating /\ ~Migrating')
    PROVE  MemoryKept'
<1>1. cache'.users = cache.users
      /\ \A p \in PDIDs : \A tags \in SUBSET TagIDs :
            tags # {} /\ ShownIn(cache, p, tags) => ShownIn(cache', p, tags)
    BY DEF Refreshed
<1>2. \A p \in PDIDs : Unmoved(p)
    BY <1>1 DEF Unmoved
<1>3. ASSUME NEW p \in PDIDs \ raced, ~Underway(p)'
      PROVE  AsFarAs(p)'
    <2>1. AsFarAs(p)
        BY <1>3 DEF MemoryKept, Underway, Migrating
    <2> QED
        BY <1>2, <2>1, UnmovedKept DEF MemoryKept
<1>4. Migrating' => Carried'
    <2> SUFFICES ASSUME Migrating' PROVE Carried'
        OBVIOUS
    <2>1. sse' = sse /\ Carried
        BY DEF Migrating, MemoryKept
    <2> QED
        BY <1>1, <2>1 DEF Carried, PoliciesKept
<1> QED
    BY <1>3, <1>4 DEF MemoryKept, Migrating

\* A request: a device that a migration is at counts as raced from then on.
LEMMA MemoryWhileRequesting ==
    ASSUME TypeOK, TypeOK', MemoryKept, sse' = sse, NEW p \in PDIDs,
           \/ admin = Idle /\ admin' # Idle /\ admin'.pdid = p
           \/ admin # Idle /\ admin.pdid = p /\ admin' = Idle,
           Touched(p) \subseteq raced', raced \subseteq raced',
           \A q \in PDIDs \ {p} : Unmoved(q),
           p \notin raced' /\ ~Underway(p) /\ AsFarAs(p) => AsFarAs(p)',
           admin'.at = "save" /\ admin'.what = "policy" => admin'.policy.device = admin'.pdid
    PROVE  MemoryKept'
<1>1. ASSUME NEW q \in PDIDs \ raced', ~Underway(q)'
      PROVE  AsFarAs(q)'
    <2>1. AsFarAs(q) /\ ~Underway(q) /\ q \notin raced'
        BY <1>1 DEF MemoryKept, Underway
    <2>2. CASE q = p
        BY <2>1, <2>2
    <2>3. CASE q # p
        BY <2>1, <2>3, UnmovedKept DEF MemoryKept
    <2> QED
        BY <2>2, <2>3
<1>2. Migrating => sse.old \in PDIDs /\ sse.new \in PDIDs
    BY JobTypes DEF Migrating
<1>3. Underway(p) => {sse.old, sse.new} \subseteq raced'
    BY DEF Touched
<1>4. Migrating' => Carried'
    <2> SUFFICES ASSUME Migrating PROVE Carried'
        BY DEF Migrating
    <2>1. Carried
        BY DEF MemoryKept
    <2>2. CASE Underway(p)
        BY <1>3, <2>1, <2>2 DEF Carried
    <2>3. CASE ~Underway(p)
        <3>1. Unmoved(sse.old) /\ Unmoved(sse.new)
            BY <1>2, <2>3 DEF Underway, Migrating
        <3> QED
            BY <2>1, <3>1 DEF Carried, Unmoved, PoliciesKept
    <2> QED
        BY <2>2, <2>3
<1>5. Migrating' /\ admin' # Idle /\ admin'.pdid \in {sse.old, sse.new} =>
          {sse.old, sse.new} \subseteq raced'
    BY <1>3 DEF Migrating, Underway
<1> QED
    BY <1>1, <1>4, <1>5 DEF MemoryKept

\* Where a migration has left its two devices, if no request was at them.
LEMMA MemoryWhileMigrating ==
    ASSUME TypeOK, TypeOK', MemoryKept, UNCHANGED admin, raced \subseteq raced',
           NEW old \in PDIDs, NEW new \in PDIDs,
           \A p : Underway(p) => p \in {old, new},
           \A p \in PDIDs \ {old, new} : Unmoved(p),
           \A p \in {old, new} \ raced' : ~Underway(p)' => AsFarAs(p)',
           Migrating' => Carried' /\ sse'.old = old /\ sse'.new = new,
           Migrating' /\ admin # Idle /\ admin.pdid \in {old, new} => {old, new} \subseteq raced'
    PROVE  MemoryKept'
<1>1. ASSUME NEW p \in PDIDs \ raced', ~Underway(p)'
      PROVE  AsFarAs(p)'
    <2>1. CASE p \in {old, new}
        BY <1>1, <2>1
    <2>2. CASE p \notin {old, new}
        <3>1. AsFarAs(p) /\ Unmoved(p)
            BY <1>1, <2>2 DEF MemoryKept
        <3> QED
            BY <3>1, UnmovedKept DEF MemoryKept
    <2> QED
        BY <2>1, <2>2
<1> QED
    BY <1>1 DEF MemoryKept

LEMMA MigrateStoreMemory ==
    ASSUME TypeOK, TypeOK', MergesInOrder, MemoryKept, MigrateStore
    PROVE  MemoryKept'
<1>0. PICK old \in PDIDs, new \in PDIDs : old = sse.old /\ new = sse.new
    BY JobTypes DEF MigrateStore, MigrateEngine, MigrateCache
<1>1. /\ old \in PDIDs /\ new \in PDIDs /\ old # new
      /\ store.migrated[old] = None
      /\ sse'.at = "engine" /\ sse'.old = old /\ sse'.new = new
      /\ sse'.tags = StoredTags(store', new) /\ sse'.user = store'.users[new]
      /\ sse'.policies = Of(store'.policies, new)
    BY <1>0, MigrateStoreTypes
<1>2. store \in Stores /\ store' \in Stores
    BY DEF TypeOK
<1>3. /\ store'.rows = MovedRows(store, old, new)
      /\ store'.users = MovedUsers(store.users, old, new)
      /\ store'.policies = MovedPolicies(store.policies, old, new)
    <2>1. store' = MigrateIdentityState(store, old, new)
        BY <1>0 DEF MigrateStore
    <2>2. old \in PDIDs /\ new \in PDIDs /\ old # new /\ store.migrated[old] = None
        BY <1>1
    <2>3. store \in Stores
        BY <1>2
    <2> QED
        BY <2>1, <2>2, <2>3, MigrationStores
<1>4. UNCHANGED <<cache, engine, admin>>
      /\ raced' = IF admin # Idle /\ admin.pdid \in {old, new} THEN raced \cup {old, new}
                  ELSE raced
    BY <1>0 DEF MigrateStore, Overlap
<1>5. ~Migrating /\ \A p : ~Underway(p)
    BY DEF MigrateStore, Migrating, Underway
<1>6. /\ StoredTags(store', old) = {}
      /\ \A q \in PDIDs \ {old, new} : StoredTags(store', q) = StoredTags(store, q)
    BY <1>1, <1>2, <1>3, MovedRowsTags
<1>7. /\ store'.users[old] = None
      /\ store'.users[new] = None => store.users[new] = None
      /\ \A q \in PDIDs \ {old, new} : store'.users[q] = store.users[q]
    BY <1>1, <1>2, <1>3 DEF MovedUsers, Stores
<1>8. store.policies \in SUBSET Policies
    BY <1>2 DEF Stores
<1>9. /\ Of(store'.policies, old) = {}
      /\ \A q \in PDIDs \ {old, new} : Of(store'.policies, q) = Of(store.policies, q)
    BY <1>1, <1>3, <1>8, MovedPoliciesStores
<1>10. \A q \in PDIDs \ {old, new} : Unmoved(q)
    BY <1>4, <1>6, <1>7, <1>9 DEF Unmoved
<1>11. \A p \in {old, new} : Underway(p)'
    BY <1>1 DEF Underway
<1>12. ASSUME new \notin raced'
       PROVE  sse'.user = None => cache'.users[new] = None
    <2>1. ~(admin # Idle /\ admin.pdid = new) /\ new \notin raced
        BY <1>4, <1>12
    <2>2. PersonKept(new)
        BY <1>1, <1>5, <2>1 DEF MemoryKept, AsFarAs
    <2> QED
        BY <1>1, <1>4, <1>7, <2>2 DEF PersonKept
<1>13. Carried'
    <2>1. \A x \in sse'.policies : x.device = sse'.new
        BY <1>1 DEF Of
    <2>2. sse'.new \notin raced' =>
              /\ sse'.tags = StoredTags(store', sse'.new)
              /\ sse'.user = store'.users[sse'.new]
              /\ sse'.policies = Of(store'.policies, sse'.new)
              /\ sse'.user = None => cache'.users[sse'.new] = None
              /\ sse'.at # "cache"
        BY <1>1, <1>12
    <2>3. sse'.old \notin raced' =>
              /\ StoredTags(store', sse'.old) = {} /\ store'.users[sse'.old] = None
              /\ Of(store'.policies, sse'.old) = {}
              /\ sse'.at # "cache"
        BY <1>1, <1>6, <1>7, <1>9
    <2> QED
        BY <2>1, <2>2, <2>3 DEF Carried
<1>14. /\ raced \subseteq raced'
       /\ admin # Idle /\ admin.pdid \in {old, new} => {old, new} \subseteq raced'
    BY <1>4
<1> QED
    BY <1>1, <1>4, <1>5, <1>10, <1>11, <1>13, <1>14, MemoryWhileMigrating

LEMMA MigrateEngineMemory ==
    ASSUME TypeOK, TypeOK', MergesInOrder, MemoryKept, MigrateEngine
    PROVE  MemoryKept'
<1>0. PICK old \in PDIDs, new \in PDIDs : old = sse.old /\ new = sse.new
    BY JobTypes DEF MigrateStore, MigrateEngine, MigrateCache
<1>1. sse \in Migrations
    BY DEF MigrateEngine, TypeOK, Fetches, Idle
<1>2. /\ old \in PDIDs /\ new \in PDIDs /\ old # new
    BY <1>0 DEF MigrateEngine, MergesInOrder
<1>3. /\ sse'.at = "cache" /\ sse'.old = old /\ sse'.new = new /\ sse'.tags = sse.tags
      /\ sse'.user = sse.user /\ sse'.policies = sse.policies
    BY <1>0, <1>1 DEF MigrateEngine, Migrations
<1>4. /\ engine' = {p \in engine : p.device \notin {old, new}} \cup sse.policies
      /\ UNCHANGED <<cache, store, admin, raced>>
    BY <1>0 DEF MigrateEngine, history
<1>5. Carried /\ Migrating
    BY DEF MemoryKept, MigrateEngine, Migrating
<1>6. \A x \in sse.policies : x.device = new
    BY <1>0, <1>5 DEF Carried
<1>7. \A p : Underway(p) => p \in {old, new}
    BY <1>0 DEF Underway
<1>8. \A p \in {old, new} : Underway(p)'
    BY <1>3 DEF Underway
<1>9. admin # Idle /\ admin.pdid \in {old, new} => {old, new} \subseteq raced
    BY <1>0, <1>5 DEF MemoryKept
<1>10. Of(engine', old) = {} /\ Of(engine', new) = sse.policies
       /\ \A q \in PDIDs \ {old, new} : Of(engine', q) = Of(engine, q)
    <2> QED
        BY <1>2, <1>4, <1>6 DEF Of
<1>11. \A q \in PDIDs \ {old, new} : Unmoved(q)
    BY <1>4, <1>10 DEF Unmoved
<1>12. new \notin raced => PoliciesKept(new)'
    BY <1>0, <1>4, <1>5, <1>10 DEF Carried, PoliciesKept
<1>13. old \notin raced => PoliciesKept(old)'
    BY <1>0, <1>4, <1>5, <1>10 DEF Carried, PoliciesKept
<1>14. Carried'
    BY <1>0, <1>3, <1>4, <1>5, <1>6, <1>12, <1>13 DEF Carried
<1> QED
    BY <1>2, <1>3, <1>4, <1>7, <1>8, <1>9, <1>11, <1>14, MemoryWhileMigrating

LEMMA MigrateCacheMemory ==
    ASSUME TypeOK, TypeOK', MergesInOrder, MemoryKept, MigrateCache
    PROVE  MemoryKept'
<1>0. PICK old \in PDIDs, new \in PDIDs : old = sse.old /\ new = sse.new
    BY JobTypes DEF MigrateStore, MigrateEngine, MigrateCache
<1>1. /\ old \in PDIDs /\ new \in PDIDs /\ old # new /\ sse.macs \in SUBSET MACs
      /\ sse.tags \in SUBSET TagIDs /\ sse.user \in OrNone(Users)
    BY <1>0, JobTypes DEF MigrateCache, MergesInOrder, Migrating
<1>2. /\ cache' = ReconcileIdentityMigration(cache, old, new, sse.macs, sse.tags, sse.user)
      /\ UNCHANGED <<engine, store, admin, raced>>
      /\ ~Migrating'
    BY <1>0 DEF MigrateCache, history, Migrating
<1>3. cache \in Caches
    BY DEF TypeOK
<1>4. /\ cache'.users[old] = None
      /\ cache'.users[new] = IF sse.user # None THEN sse.user ELSE cache.users[new]
      /\ sse.tags # {} => ShownIn(cache', new, sse.tags)
      /\ \A p \in PDIDs \ {old, new} :
            cache'.users[p] = cache.users[p] /\ cache'.sticky[p] = cache.sticky[p]
            /\ cache'.devices[p] = cache.devices[p]
    <2>1. cache' = ReconcileIdentityMigration(cache, old, new, sse.macs, sse.tags, sse.user)
        BY <1>2
    <2>2. Reconciled(cache, cache', old, new, sse.tags, sse.user)
        BY <1>1, <1>3, <2>1, ReconcileTypes
    <2> QED
        BY <2>2 DEF Reconciled
<1>5. Carried /\ Migrating /\ sse.at = "cache"
    BY DEF MemoryKept, MigrateCache, Migrating
<1>6. \A p : Underway(p) => p \in {old, new}
    BY <1>0 DEF Underway
<1>7. admin # Idle /\ admin.pdid \in {old, new} => {old, new} \subseteq raced
    BY <1>0, <1>5 DEF MemoryKept
<1>8. \A q \in PDIDs \ {old, new} : Unmoved(q)
    BY <1>2, <1>4 DEF Unmoved, ShownIn
<1>9. old \notin raced => PersonKept(old)' /\ PoliciesKept(old)' /\ TagsKept(old)'
    BY <1>0, <1>2, <1>4, <1>5 DEF Carried, PersonKept, PoliciesKept, TagsKept
<1>10. new \notin raced => PersonKept(new)' /\ PoliciesKept(new)' /\ TagsKept(new)'
    BY <1>0, <1>2, <1>4, <1>5 DEF Carried, PersonKept, PoliciesKept, TagsKept
<1>11. \A p \in {old, new} \ raced' : AsFarAs(p)'
    BY <1>2, <1>7, <1>9, <1>10 DEF AsFarAs
<1> QED
    BY <1>1, <1>2, <1>6, <1>8, <1>11, MemoryWhileMigrating

LEMMA RequestMemory ==
    ASSUME TypeOK, TypeOK', MemoryKept, NEW p \in PDIDs,
           (\E tags \in SUBSET TagIDs : TagDevice(p, tags)) \/ Pause(p)
              \/ (\E u \in OrNone(Users) : AssignUser(p, u))
    PROVE  MemoryKept'
<1>1. cache \in Caches /\ store \in Stores /\ store' \in Stores /\ engine \in SUBSET Policies
    BY DEF TypeOK
<1>2. admin = Idle /\ raced' = Touched(p) /\ sse' = sse /\ admin' # Idle /\ admin'.pdid = p
    BY DEF TagDevice, Pause, AssignUser, Request, Idle
<1>3. Touched(p) \subseteq raced' /\ raced \subseteq raced'
    BY <1>2 DEF Touched
<1>4. AsFarAs(p) => PersonKept(p) /\ PoliciesKept(p) /\ TagsKept(p)
    BY <1>2 DEF AsFarAs
<1>5. ASSUME NEW tags \in SUBSET TagIDs, TagDevice(p, tags)
      PROVE  MemoryKept'
    <2>1. /\ cache' = SetTags(cache, p, tags) /\ tags # {} /\ UNCHANGED <<engine, store>>
          /\ admin'.at = "save" /\ admin'.what = "tags" /\ admin'.tags = tags
        BY <1>5 DEF TagDevice
    <2>2. /\ cache'.users = cache.users /\ ShownIn(cache', p, tags)
          /\ \A q \in PDIDs \ {p} :
                cache'.sticky[q] = cache.sticky[q] /\ cache'.devices[q] = cache.devices[q]
        BY <1>1, <2>1, SetTagsTypes
    <2>3. \A q \in PDIDs \ {p} : Unmoved(q)
        BY <2>1, <2>2 DEF Unmoved, ShownIn
    <2>4. AsFarAs(p) => AsFarAs(p)'
        BY <1>2, <1>4, <2>1, <2>2 DEF AsFarAs, Half, PersonKept, PoliciesKept
    <2> QED
        BY <1>2, <1>3, <2>1, <2>3, <2>4, MemoryWhileRequesting
<1>6. ASSUME Pause(p)
      PROVE  MemoryKept'
    <2>1. PICK policy : policy = [name |-> "pause", device |-> p, priority |-> PausePriority]
        OBVIOUS
    <2>2. policy \in Policies /\ policy.device = p
        BY <2>1, DataAssumption DEF Policies
    <2>3. /\ engine' = SavePolicy(engine, policy) /\ UNCHANGED <<cache, store>>
          /\ admin' = [at |-> "save", what |-> "policy", pdid |-> p, policy |-> policy]
        BY <1>6, <2>1 DEF Pause
    <2>4. admin'.at = "save" /\ admin'.what = "policy" /\ admin'.policy = policy
        BY <2>3
    <2>5. /\ \A q \in PDIDs \ {p} : Of(engine', q) = Of(engine, q)
          /\ Of(engine', p) = SavePolicy(Of(engine, p), policy)
        BY <1>1, <2>2, <2>3, SavePolicyStores
    <2>6. store.policies \in SUBSET Policies
        BY <1>1 DEF Stores
    <2>7. Of(SavePolicy(store.policies, policy), p) = SavePolicy(Of(store.policies, p), policy)
        BY <2>2, <2>6, SavePolicyStores
    <2>8. \A q \in PDIDs \ {p} : Unmoved(q)
        BY <2>3, <2>5 DEF Unmoved
    <2>9. ASSUME AsFarAs(p) PROVE AsFarAs(p)'
        <3>1. PersonKept(p)' /\ TagsKept(p)'
            BY <1>4, <2>3, <2>9 DEF PersonKept, TagsKept
        <3>2. Of(engine', p) = Of(SavePolicy(store'.policies, policy), p)
            BY <1>4, <2>3, <2>5, <2>7, <2>9 DEF PoliciesKept
        <3> QED
            BY <1>2, <2>4, <3>1, <3>2 DEF AsFarAs, Half
    <2> QED
        BY <1>2, <1>3, <2>2, <2>4, <2>8, <2>9, MemoryWhileRequesting
<1>7. ASSUME NEW u \in OrNone(Users), AssignUser(p, u)
      PROVE  MemoryKept'
    <2>1. /\ store' = [store EXCEPT !.users[p] = u] /\ UNCHANGED <<cache, engine>>
          /\ admin'.at = "set" /\ admin'.user = u
        BY <1>7 DEF AssignUser
    <2>2. /\ store'.rows = store.rows /\ store'.policies = store.policies
          /\ store'.users[p] = u
          /\ \A q \in PDIDs \ {p} : store'.users[q] = store.users[q]
        BY <1>1, <2>1 DEF Stores
    <2>3. \A q \in PDIDs : StoredTags(store', q) = StoredTags(store, q)
        BY <2>2 DEF StoredTags
    <2>4. \A q \in PDIDs \ {p} : Unmoved(q)
        BY <2>1, <2>2, <2>3 DEF Unmoved
    <2>5. AsFarAs(p) => AsFarAs(p)'
        BY <1>2, <1>4, <2>1, <2>2, <2>3 DEF AsFarAs, Half, PoliciesKept, TagsKept
    <2> QED
        BY <1>2, <1>3, <2>1, <2>4, <2>5, MemoryWhileRequesting
<1> QED
    BY <1>5, <1>6, <1>7

LEMMA AnswerMemory == ASSUME TypeOK, TypeOK', MemoryKept, AdminStep \/ SaveFails PROVE MemoryKept'
<1>1. cache \in Caches /\ store \in Stores /\ store' \in Stores /\ engine \in SUBSET Policies
    BY DEF TypeOK
<1>2. PICK p \in PDIDs : p = admin.pdid /\ admin # Idle
    BY JobTypes DEF AdminStep, Save, SetUser, SaveFails
<1>3. admin' = Idle /\ sse' = sse /\ Touched(p) \subseteq raced' /\ raced \subseteq raced'
    BY <1>2 DEF AdminStep, Save, SetUser, SaveFails, Touched
<1>4. admin'.at = "idle"
    BY <1>3 DEF Idle
<1>5. AsFarAs(p) => Half(p)
    BY <1>2 DEF AsFarAs
<1>6. PersonKept(p)' /\ PoliciesKept(p)' /\ TagsKept(p)' => AsFarAs(p)'
    BY <1>3 DEF AsFarAs
<1>7. ASSUME Save, admin.what = "tags"
      PROVE  MemoryKept'
    <2>1. admin.at = "save" /\ admin.tags \in SUBSET TagIDs /\ admin.mac \in OrNone(MACs)
        BY <1>7, JobTypes DEF Save
    <2>2. /\ store' = SaveDeviceTags(store, p, admin.tags, admin.mac)
          /\ UNCHANGED <<cache, engine>>
        BY <1>2, <1>7 DEF Save
    <2>3. /\ store'.users = store.users /\ store'.policies = store.policies
          /\ StoredTags(store', p) = admin.tags
          /\ \A q \in PDIDs : q # p => StoredTags(store', q) = StoredTags(store, q)
        BY <1>1, <2>1, <2>2, SaveTagsStores
    <2>4. \A q \in PDIDs \ {p} : Unmoved(q)
        BY <2>2, <2>3 DEF Unmoved
    <2>5. Half(p) => PersonKept(p)' /\ PoliciesKept(p)' /\ TagsKept(p)'
        BY <1>7, <2>1, <2>2, <2>3 DEF Half, PersonKept, PoliciesKept, TagsKept
    <2> QED
        BY <1>2, <1>3, <1>4, <1>5, <1>6, <2>4, <2>5, MemoryWhileRequesting
<1>8. ASSUME Save, admin.what = "policy"
      PROVE  MemoryKept'
    <2>1. admin.at = "save" /\ admin.policy \in Policies /\ admin.policy.device = p
        BY <1>2, <1>8, JobTypes DEF Save, MemoryKept
    <2>2. /\ store' = [store EXCEPT !.policies = SavePolicy(store.policies, admin.policy)]
          /\ UNCHANGED <<cache, engine>>
        BY <1>8 DEF Save
    <2>3. /\ store'.users = store.users /\ store'.rows = store.rows
          /\ store'.policies = SavePolicy(store.policies, admin.policy)
        BY <1>1, <2>2 DEF Stores
    <2>4. \A q \in PDIDs : StoredTags(store', q) = StoredTags(store, q)
        BY <2>3 DEF StoredTags
    <2>5. store.policies \in SUBSET Policies
        BY <1>1 DEF Stores
    <2>6. \A q \in PDIDs \ {p} : Of(store'.policies, q) = Of(store.policies, q)
        BY <2>1, <2>3, <2>5, SavePolicyStores
    <2>7. \A q \in PDIDs \ {p} : Unmoved(q)
        BY <2>2, <2>3, <2>4, <2>6 DEF Unmoved
    <2>8. Half(p) => PersonKept(p)' /\ PoliciesKept(p)' /\ TagsKept(p)'
        BY <1>8, <2>1, <2>2, <2>3, <2>4 DEF Half, PersonKept, PoliciesKept, TagsKept
    <2> QED
        BY <1>2, <1>3, <1>4, <1>5, <1>6, <2>7, <2>8, MemoryWhileRequesting
<1>9. ASSUME SaveFails
      PROVE  MemoryKept'
    <2>1. UNCHANGED <<cache, engine, store>> /\ p \in raced'
        BY <1>2, <1>9 DEF SaveFails
    <2>2. \A q \in PDIDs \ {p} : Unmoved(q)
        BY <2>1 DEF Unmoved
    <2> QED
        BY <1>2, <1>3, <1>4, <2>1, <2>2, MemoryWhileRequesting
<1>10. ASSUME SetUser
       PROVE  MemoryKept'
    <2>1. admin.at = "set" /\ admin.user \in OrNone(Users)
        BY <1>10, JobTypes DEF SetUser
    <2>2. /\ cache' = SetUserID(cache, p, admin.user) /\ UNCHANGED <<engine, store>>
        BY <1>2, <1>10 DEF SetUser
    <2>3. /\ cache'.users = [cache.users EXCEPT ![p] = admin.user]
          /\ cache'.sticky = cache.sticky /\ cache'.devices = cache.devices
        BY <1>1, <2>1, <2>2, SetUserTypes
    <2>4. cache.users \in [PDIDs -> OrNone(Users)]
        BY <1>1 DEF Caches
    <2>5. \A q \in PDIDs \ {p} : Unmoved(q)
        BY <2>2, <2>3, <2>4 DEF Unmoved, ShownIn
    <2>6. Half(p) => PersonKept(p)' /\ PoliciesKept(p)' /\ TagsKept(p)'
        BY <2>1, <2>2, <2>3, <2>4 DEF Half, PersonKept, PoliciesKept, TagsKept, ShownIn
    <2> QED
        BY <1>2, <1>3, <1>4, <1>5, <1>6, <2>5, <2>6, MemoryWhileRequesting
<1>11. Save => admin.what \in {"tags", "policy"}
    BY JobTypes DEF Save
<1> QED
    BY <1>7, <1>8, <1>9, <1>10, <1>11 DEF AdminStep

\* Memory is what is stored after a start.
LEMMA HydratedMemory ==
    ASSUME store \in Stores, cache = Hydrated(store), engine = store.policies,
           sse = Idle, admin = Idle
    PROVE  MemoryKept
<1>1. \A p \in PDIDs : PersonKept(p) /\ PoliciesKept(p) /\ TagsKept(p)
    BY HydratedTypes DEF PersonKept, PoliciesKept, TagsKept
<1>2. sse.at = "idle" /\ admin.at = "idle"
    BY DEF Idle
<1> QED
    BY <1>1, <1>2 DEF MemoryKept, AsFarAs, Migrating

LEMMA RestartMemory == ASSUME TypeOK, Restart PROVE MemoryKept'
<1>1. store' \in Stores /\ store' = store /\ cache' = Hydrated(store)
      /\ engine' = store.policies /\ sse' = Idle /\ admin' = Idle
    BY DEF TypeOK, Restart
<1>2. \A p \in PDIDs : PersonKept(p)' /\ PoliciesKept(p)' /\ TagsKept(p)'
    BY <1>1, HydratedTypes DEF PersonKept, PoliciesKept, TagsKept
<1>3. sse'.at = "idle" /\ admin'.at = "idle"
    BY <1>1 DEF Idle
<1> QED
    BY <1>1, <1>2, <1>3 DEF MemoryKept, AsFarAs, Migrating

\* What follows the inventory refreshes the cache and nothing else of this.
LEMMA RefreshingMemory ==
    ASSUME TypeOK, TypeOK', MemoryKept,
           \/ DIS \/ Connect \/ Disconnect
           \/ HandleRemoved \/ (\E f \in Fetchers : HandleChange(f)) \/ HandleReidentified
           \/ MigrateFails \/ SSEGet \/ SSEUpsert \/ (\E f \in Fetchers : FetchStep(f))
           \/ PollStep \/ GracePeriod \/ UNCHANGED vars
    PROVE  MemoryKept'
<1>1. cache \in Caches /\ poller \in PollerJobs
    BY DEF TypeOK
<1>2. ASSUME UNCHANGED <<engine, store, admin, raced>>,
             cache' = cache \/ Refreshed(cache, cache'),
             sse' = sse \/ (~Migrating /\ ~Migrating')
      PROVE  MemoryKept'
    BY <1>2, MemoryWhileRefreshing
<1>3. CASE DIS
    <2>1. Changes
        BY <1>3 DEF DIS, Appear, Presence, NewMAC, Removal, Merge
    <2> QED
        BY <1>2, <2>1 DEF Changes, local
<1>4. CASE Connect \/ Disconnect \/ UNCHANGED vars \/ GracePeriod \/ PollGet
           \/ (\E f \in Fetchers : HandleChange(f) \/ Get(f))
    BY <1>2, <1>4 DEF Connect, Disconnect, vars, GracePeriod, PollGet, HandleChange, Get, local,
       history
<1>5. CASE HandleRemoved
    <2>1. PICK e \in Arrivals :
              /\ Read /\ e.type = "removed" /\ cache' = RemoveDevice(cache, e.pdid)
              /\ UNCHANGED <<engine, store, sse, admin, raced>>
        BY <1>5 DEF HandleRemoved, history
    <2>2. e \in Events
        BY <2>1, ReadTypes DEF TypeOK, StreamTyped
    <2>3. e.pdid \in PDIDs
        BY <2>1, <2>2 DEF Events
    <2>4. Refreshed(cache, cache')
        BY <1>1, <2>1, <2>3, RemoveRefreshes
    <2> QED
        BY <1>2, <2>1, <2>4
<1>6. CASE HandleReidentified
    <2>1. PICK e \in Arrivals :
              /\ Read
              /\ sse' = [at |-> "store", old |-> e.old, new |-> e.new, macs |-> e.macs]
              /\ UNCHANGED <<cache, engine, store, admin, raced>>
        BY <1>6 DEF HandleReidentified, history
    <2>2. sse = Idle
        BY <2>1, ReadTypes DEF TypeOK, StreamTyped
    <2>3. ~Migrating /\ ~Migrating'
        BY <2>1, <2>2 DEF Migrating, Idle
    <2> QED
        BY <1>2, <2>1, <2>3
<1>7. CASE MigrateFails
    <2>1. ~Migrating /\ ~Migrating'
        BY <1>7 DEF MigrateFails, Migrating, Idle
    <2> QED
        BY <1>2, <1>7, <2>1 DEF MigrateFails
<1>8. CASE SSEGet
    <2>1. ~Migrating /\ ~Migrating'
        BY <1>8 DEF SSEGet, Answered, Migrating, Idle
    <2> QED
        BY <1>2, <1>8, <2>1 DEF SSEGet, history
<1>9. CASE SSEUpsert
    <2>1. ~Migrating /\ ~Migrating'
        BY <1>9 DEF SSEUpsert, Migrating, Idle
    <2>2. sse.pdid \in PDIDs /\ sse.record \in Records
        BY <1>9, JobTypes DEF SSEUpsert
    <2>3. Refreshed(cache, cache')
        BY <1>1, <1>9, <2>2, UpsertRefreshes DEF SSEUpsert
    <2> QED
        BY <1>2, <1>9, <2>1, <2>3 DEF SSEUpsert, history
<1>10. ASSUME NEW f \in Fetchers, Patch(f)
       PROVE  MemoryKept'
    <2>1. fetch[f].pdid \in PDIDs /\ fetch[f].online \in BOOLEAN
        BY <1>10, JobTypes DEF Patch
    <2>2. Refreshed(cache, cache')
        BY <1>1, <1>10, <2>1, PatchRefreshes DEF Patch
    <2> QED
        BY <1>2, <1>10, <2>2 DEF Patch, history
<1>11. ASSUME NEW f \in Fetchers, Put(f)
       PROVE  MemoryKept'
    <2>1. fetch[f].pdid \in PDIDs /\ fetch[f].record \in Records
        BY <1>11, JobTypes DEF Put
    <2>2. Refreshed(cache, cache')
        BY <1>1, <1>11, <2>1, UpsertRefreshes DEF Put
    <2> QED
        BY <1>2, <1>11, <2>2 DEF Put, history
<1>12. CASE PollRemove
    BY <1>1, <1>2, <1>12, PollRemoveRefreshes DEF PollRemove, history
<1>13. CASE PollUpsert
    BY <1>1, <1>2, <1>13, PollUpsertRefreshes DEF PollUpsert, history
<1> QED
    BY <1>3, <1>4, <1>5, <1>6, <1>7, <1>8, <1>9, <1>10, <1>11, <1>12, <1>13
    DEF FetchStep, PollStep

LEMMA MemoryStep ==
    ASSUME TypeOK, TypeOK', MergesInOrder, MemoryKept, [Next]_vars
    PROVE  MemoryKept'
<1>1. CASE MigrateStore \/ MigrateEngine \/ MigrateCache
    BY <1>1, MigrateStoreMemory, MigrateEngineMemory, MigrateCacheMemory
<1>2. CASE \E p \in PDIDs : \/ \E tags \in SUBSET TagIDs : TagDevice(p, tags)
                            \/ Pause(p)
                            \/ \E u \in OrNone(Users) : AssignUser(p, u)
    BY <1>2, RequestMemory
<1>3. CASE AdminStep \/ SaveFails
    BY <1>3, AnswerMemory
<1>4. CASE Restart
    BY <1>4, RestartMemory
<1>5. CASE \/ DIS \/ Connect \/ Disconnect
           \/ HandleRemoved \/ (\E f \in Fetchers : HandleChange(f)) \/ HandleReidentified
           \/ MigrateFails \/ SSEGet \/ SSEUpsert \/ (\E f \in Fetchers : FetchStep(f))
           \/ PollStep \/ GracePeriod \/ UNCHANGED vars
    BY <1>5, RefreshingMemory
<1> QED
    BY <1>1, <1>2, <1>3, <1>4, <1>5 DEF Next, SSEStep

-----------------------------------------------------------------------------
(* The invariants                                                          *)

LEMMA Invariance == Spec => []IInv
<1>1. Init => IInv
    <2> SUFFICES ASSUME Init PROVE IInv
        OBVIOUS
    <2>1. TypeOK /\ MergesInOrder /\ RedirectsWhole
        BY InitTypes, InitOrder
    <2>2. MemoryKept
        BY <2>1, HydratedMemory DEF Init, TypeOK
    <2> QED
        BY <2>1, <2>2 DEF IInv
<1>2. IInv /\ [Next]_vars => IInv'
    <2> SUFFICES ASSUME IInv, [Next]_vars PROVE IInv'
        OBVIOUS
    <2>1. TypeOK'
        BY TypesKept DEF IInv
    <2>2. MergesInOrder' /\ RedirectsWhole'
        BY MergesKept DEF IInv
    <2>3. MemoryKept'
        BY <2>1, MemoryStep DEF IInv
    <2> QED
        BY <2>1, <2>2, <2>3 DEF IInv
<1> QED
    BY <1>1, <1>2, PTL DEF Spec

\* The channel, the cache, the engine, the database and the jobs of the poller,
\* the stream, its goroutines and requests have their types in every state.
THEOREM TypeCorrect == Spec => []TypeOK
<1>1. IInv => TypeOK
    BY DEF IInv
<1> QED
    BY <1>1, Invariance, PTL

\* A log entry that was queued for a device before it was merged is written for
\* the device that survives in the end, after any number of merges and whatever
\* events were lost (MigrateIdentityState, SaveFlowLog).
THEOREM RedirectsLandAlways == Spec => []RedirectsLand
<1>1. IInv => RedirectsLand
    BY DEF IInv, RedirectsWhole, RedirectsLand, LogTarget
<1> QED
    BY <1>1, Invariance, PTL

\* Between requests and migrations the cache and the engine apply what the
\* database has, for all devices but those that a request and a migration
\* changed at the same time or whose write failed (MigrateIdentity,
\* UpsertDevice, LoadHydrate).
THEOREM MemoryFollowsStoreAlways == Spec => []MemoryFollowsStore
<1>1. IInv => MemoryFollowsStore
    <2> SUFFICES ASSUME IInv, admin = Idle, sse.at \notin {"engine", "cache"},
                        NEW p \in PDIDs \ raced
                 PROVE  PersonKept(p) /\ PoliciesKept(p) /\ TagsKept(p)
        BY DEF MemoryFollowsStore, PersonKept, PoliciesKept, TagsKept, Of, ShownIn, Cached,
               Present
    <2>1. ~Underway(p)
        BY DEF Underway
    <2>2. AsFarAs(p)
        BY <2>1 DEF IInv, MemoryKept
    <2> QED
        BY <2>2 DEF AsFarAs
<1> QED
    BY <1>1, Invariance, PTL

-----------------------------------------------------------------------------
(* What is stored implements whole settings                                *)

\* The rule of the transaction for policies, which compares both sides one by
\* one, gives the stronger of those with the same name.
LEMMA MovedIsInherited ==
    ASSUME store.policies \in SUBSET Policies, NEW old \in PDIDs, NEW new \in PDIDs, old # new
    PROVE  MovedPolicies(store.policies, old, new) = Settings!Inherited(old, new)
<1> DEFINE all == store.policies
           sources == {[p EXCEPT !.device = new] : p \in {p \in all : p.device = old}}
           targets == {p \in all : p.device = new}
           Weaker(p, q) == /\ p.name = q.name /\ {p.device, q.device} = {old, new}
                           /\ \/ p.priority < q.priority
                              \/ p.priority = q.priority /\ p.device = old
           kept == {p \in all : p.device \in {old, new} /\ ~\E q \in all : Weaker(p, q)}
           left == {p \in all : p.device \notin {old, new}}
           won == {p \in sources : \A q \in targets : p.name = q.name => p.priority > q.priority}
           held == {q \in targets : \A p \in sources : p.name = q.name => p.priority <= q.priority}
<1>1. MovedPolicies(all, old, new) = left \cup won \cup held
    BY DEF MovedPolicies
<1>2. Settings!Inherited(old, new) = left \cup {[p EXCEPT !.device = new] : p \in kept}
    BY DEF Settings!Inherited
<1>3. \A p \in all : /\ p \in Policies /\ p.priority \in Int
                     /\ [p EXCEPT !.device = new].name = p.name
                     /\ [p EXCEPT !.device = new].priority = p.priority
                     /\ p.device = new => [p EXCEPT !.device = new] = p
    BY DataAssumption DEF Policies
<1>4. \A p \in all, q \in all : p.device = old /\ q.device = new =>
          (Weaker(p, q) <=> p.name = q.name /\ p.priority <= q.priority)
          /\ (Weaker(q, p) <=> p.name = q.name /\ q.priority < p.priority)
    BY <1>3
<1>5. ASSUME NEW p \in all, NEW q \in all, Weaker(p, q)
      PROVE  \/ p.device = old /\ q.device = new
             \/ p.device = new /\ q.device = old
    <2>1. /\ p.device \in {old, new} /\ q.device \in {old, new}
          /\ old \in {p.device, q.device} /\ new \in {p.device, q.device}
        BY <1>5
    <2> QED
        BY <2>1
<1>10. \A p \in all, q \in all : ~(p.priority <= q.priority) <=> p.priority > q.priority
    BY <1>3
<1>6. ASSUME NEW p \in all, p.device = old
      PROVE  [p EXCEPT !.device = new] \in won <=> p \in kept
    <2>1. [p EXCEPT !.device = new] \in sources
        BY <1>6
    <2>2. p \in kept <=> ~\E q \in targets : p.name = q.name /\ p.priority <= q.priority
        BY <1>4, <1>5, <1>6
    <2>3. [p EXCEPT !.device = new] \in won
          <=> \A q \in targets : p.name = q.name => p.priority > q.priority
        BY <1>3, <2>1
    <2>4. (~\E q \in targets : p.name = q.name /\ p.priority <= q.priority)
          <=> \A q \in targets : p.name = q.name => p.priority > q.priority
        BY <1>10
    <2> HIDE DEF kept, won
    <2> QED
        BY <2>2, <2>3, <2>4
<1>7. ASSUME NEW q \in all, q.device = new
      PROVE  q \in held <=> q \in kept
    <2>1. q \in kept <=> ~\E p \in all : p.device = old /\ p.name = q.name
                                          /\ q.priority < p.priority
        BY <1>4, <1>5, <1>7
    <2>2. q \in held <=> \A x \in sources : x.name = q.name => x.priority <= q.priority
        BY <1>7
    <2>3. (\A x \in sources : x.name = q.name => x.priority <= q.priority)
          <=> \A p \in all : p.device = old => (p.name = q.name => p.priority <= q.priority)
        <3>1. \A p \in all : p.device = old => [p EXCEPT !.device = new] \in sources
            OBVIOUS
        <3>2. ASSUME NEW x \in sources
              PROVE  \E p \in all : p.device = old /\ x.name = p.name /\ x.priority = p.priority
            <4>1. PICK p \in all : p.device = old /\ x = [p EXCEPT !.device = new]
                OBVIOUS
            <4>2. x.name = p.name /\ x.priority = p.priority
                BY <1>3, <4>1
            <4> QED
                BY <4>1, <4>2
        <3>3. ASSUME NEW p \in all, p.device = old
              PROVE  \E x \in sources : x.name = p.name /\ x.priority = p.priority
            <4> DEFINE x == [p EXCEPT !.device = new]
            <4>1. x.name = p.name /\ x.priority = p.priority
                BY <1>3
            <4>2. x \in sources
                BY <3>1, <3>3
            <4> HIDE DEF x, sources
            <4> QED
                BY <4>1, <4>2
        <3> HIDE DEF sources
        <3> QED
            BY <3>2, <3>3
    <2>4. \A p \in all : p.priority <= q.priority <=> ~(q.priority < p.priority)
        BY <1>3, <1>7
    <2> HIDE DEF kept, held
    <2> QED
        BY <2>1, <2>2, <2>3, <2>4
<1>8. won \cup held \subseteq {[p EXCEPT !.device = new] : p \in kept}
    <2>1. ASSUME NEW x \in won PROVE x \in {[p EXCEPT !.device = new] : p \in kept}
        <3>1. PICK p \in all : p.device = old /\ x = [p EXCEPT !.device = new]
            BY <2>1
        <3> QED
            BY <1>6, <2>1, <3>1
    <2>2. ASSUME NEW x \in held PROVE x \in {[p EXCEPT !.device = new] : p \in kept}
        BY <1>3, <1>7, <2>2
    <2> QED
        BY <2>1, <2>2
<1>9. {[p EXCEPT !.device = new] : p \in kept} \subseteq won \cup held
    <2> SUFFICES ASSUME NEW p \in kept PROVE [p EXCEPT !.device = new] \in won \cup held
        OBVIOUS
    <2>1. CASE p.device = old
        BY <1>6, <2>1
    <2>2. CASE p.device = new
        BY <1>3, <1>7, <2>2
    <2> QED
        BY <2>1, <2>2
<1> QED
    BY <1>1, <1>2, <1>8, <1>9

\* The transaction of a migration is one step of the settings.
LEMMA MigrateStoreSucceeds ==
    ASSUME TypeOK, MergesInOrder, MigrateStore
    PROVE  Settings!Next
<1>0. PICK old \in PDIDs, new \in PDIDs : old = sse.old /\ new = sse.new
    BY MigrateStoreTypes
<1>1. old # new /\ store.migrated[old] = None
    BY <1>0, MigrateStoreTypes
<1>2. store \in Stores /\ store' \in Stores
    BY MigrateStoreTypes DEF TypeOK
<1>3. /\ store'.rows = MovedRows(store, old, new)
      /\ store'.users = MovedUsers(store.users, old, new)
      /\ store'.policies = MovedPolicies(store.policies, old, new)
    <2>1. store' = MigrateIdentityState(store, old, new)
        BY <1>0 DEF MigrateStore
    <2>2. store \in Stores
        BY <1>2
    <2> QED
        BY <1>1, <2>1, <2>2, MigrationStores
<1>4. /\ StoredTags(store', old) = {}
      /\ StoredTags(store', new) = StoredTags(store, new) \cup StoredTags(store, old)
      /\ \A q \in PDIDs \ {old, new} : StoredTags(store', q) = StoredTags(store, q)
    BY <1>1, <1>2, <1>3, MovedRowsTags
<1>5. [p \in PDIDs |-> StoredTags(store', p)]
      = [[p \in PDIDs |-> StoredTags(store, p)] EXCEPT
            ![new] = StoredTags(store, new) \cup StoredTags(store, old), ![old] = {}]
    BY <1>1, <1>4
<1>6. store'.policies = Settings!Inherited(old, new)
    <2>1. store.policies \in SUBSET Policies
        BY <1>2 DEF Stores
    <2> QED
        BY <1>1, <1>3, <2>1, MovedIsInherited
<1>7. Settings!Succeed(old, new)
    BY <1>1, <1>3, <1>5, <1>6 DEF Settings!Succeed, MovedUsers
<1> QED
    BY <1>7 DEF Settings!Next

\* What is stored changes by whole settings and moves to a surviving device as a
\* whole: every step is one of DeviceSettings or leaves the settings as they are
\* (MigrateIdentityState, SaveDeviceTags, SavePolicy).
THEOREM SettingsImplemented == Spec => SettingsMoveWhole
<1>1. Init => Settings!Init
    <2> SUFFICES ASSUME Init PROVE Settings!Init
        OBVIOUS
    <2>1. store \in Stores
        BY DataAssumption DEF Init
    <2>2. \A p \in PDIDs : StoredTags(store, p) \in SUBSET TagIDs
        BY <2>1, HydratedTypes
    <2>3. store.users \in [PDIDs -> Users \cup {None}] /\ store.policies \in SUBSET Policies
        BY <2>1 DEF Stores, OrNone
    <2> QED
        BY <2>2, <2>3 DEF Settings!Init, Settings!TypeInvariant, Settings!Policies, Policies
<1>2. IInv /\ [Next]_vars => [Settings!Next]_(Settings!settings)
    <2> SUFFICES ASSUME IInv, [Next]_vars PROVE [Settings!Next]_(Settings!settings)
        OBVIOUS
    <2>1. TypeOK /\ MergesInOrder /\ store \in Stores
        BY DEF IInv, TypeOK
    <2>2. CASE MigrateStore
        BY <2>1, <2>2, MigrateStoreSucceeds
    <2>3. ASSUME NEW p \in PDIDs, NEW u \in OrNone(Users), AssignUser(p, u)
          PROVE  Settings!Next
        <3>1. store' = [store EXCEPT !.users = [store.users EXCEPT ![p] = u]]
            BY <2>3 DEF AssignUser
        <3>2. /\ store'.users = [store.users EXCEPT ![p] = u]
              /\ store'.rows = store.rows /\ store'.policies = store.policies
            BY <2>1, <3>1 DEF Stores
        <3>3. \A q \in PDIDs : StoredTags(store', q) = StoredTags(store, q)
            BY <3>2 DEF StoredTags
        <3>4. Settings!Assign(p)
            BY <3>2, <3>3 DEF Settings!Assign, OrNone
        <3> QED
            BY <3>4 DEF Settings!Next
    <2>4. ASSUME Save, admin.what = "tags"
          PROVE  Settings!Next
        <3>1. PICK p \in PDIDs, tags \in SUBSET TagIDs, mac \in OrNone(MACs) :
                  p = admin.pdid /\ tags = admin.tags /\ mac = admin.mac
            BY <2>1, <2>4, JobTypes DEF Save
        <3>2. store' = SaveDeviceTags(store, p, tags, mac)
            BY <2>4, <3>1 DEF Save
        <3>3. /\ store'.users = store.users /\ store'.policies = store.policies
              /\ StoredTags(store', p) = tags
              /\ \A q \in PDIDs : q # p => StoredTags(store', q) = StoredTags(store, q)
            BY <2>1, <3>2, SaveTagsStores
        <3>4. [q \in PDIDs |-> StoredTags(store', q)]
              = [[q \in PDIDs |-> StoredTags(store, q)] EXCEPT ![p] = tags]
            BY <3>3
        <3>5. Settings!Tag(p)
            BY <3>3, <3>4 DEF Settings!Tag
        <3> QED
            BY <3>5 DEF Settings!Next
    <2>5. ASSUME Save, admin.what = "policy"
          PROVE  Settings!Next
        <3>1. PICK x \in Policies : x = admin.policy
            BY <2>1, <2>5, JobTypes DEF Save
        <3>2. store' = [store EXCEPT !.policies = SavePolicy(store.policies, x)]
            BY <2>5, <3>1 DEF Save
        <3>3. /\ store'.users = store.users /\ store'.rows = store.rows
              /\ store'.policies = SavePolicy(store.policies, x)
            BY <2>1, <3>2 DEF Stores
        <3>4. \A q \in PDIDs : StoredTags(store', q) = StoredTags(store, q)
            BY <3>3 DEF StoredTags
        <3>5. x.device \in PDIDs /\ x \in Settings!Policies
            BY DEF Policies, Settings!Policies
        <3>6. Settings!Decree(x.device)
            BY <3>3, <3>4, <3>5 DEF Settings!Decree, SavePolicy
        <3> QED
            BY <3>5, <3>6 DEF Settings!Next
    <2>6. ASSUME store' = store
          PROVE  UNCHANGED Settings!settings
        BY <2>6 DEF Settings!settings
    <2>7. Save => admin.what \in {"tags", "policy"}
        BY <2>1, JobTypes DEF Save
    <2>8. CASE UNCHANGED vars
        BY <2>6, <2>8 DEF vars
    <2>9. CASE Next
        <3>1. \/ store' = store \/ MigrateStore \/ Save
              \/ \E p \in PDIDs : \E u \in OrNone(Users) : AssignUser(p, u)
            <4>1. DIS => store' = store
                BY <2>1, DISOrder
            <4>2. HandleRemoved \/ (\E f \in Fetchers : HandleChange(f)) \/ HandleReidentified
                  => store' = store
                BY <2>1, HandleOrder
            <4>3. MigrateEngine \/ MigrateCache \/ MigrateFails \/ SSEGet \/ SSEUpsert
                  \/ PollStep \/ GracePeriod \/ SetUser \/ SaveFails => store' = store
                BY DEF MigrateEngine, MigrateCache, MigrateFails, SSEGet, SSEUpsert, PollStep,
                       PollGet, PollRemove, PollUpsert, GracePeriod, SetUser, SaveFails
            <4>4. (\E f \in Fetchers : FetchStep(f)) => store' = store
                BY DEF FetchStep, Patch, Get, Put
            <4>5. (\E p \in PDIDs : Pause(p) \/ \E tags \in SUBSET TagIDs : TagDevice(p, tags))
                  => store' = store
                BY DEF Pause, TagDevice
            <4>6. Connect \/ Disconnect \/ Restart => store' = store
                BY DEF Connect, Disconnect, Restart, local
            <4> QED
                BY <2>9, <4>1, <4>2, <4>3, <4>4, <4>5, <4>6 DEF Next, SSEStep, AdminStep
        <3> QED
            BY <2>2, <2>3, <2>4, <2>5, <2>6, <2>7, <3>1
    <2> QED
        BY <2>8, <2>9
<1> QED
    BY <1>1, <1>2, Invariance, PTL DEF Spec, SettingsMoveWhole, Settings!Spec

=============================================================================
