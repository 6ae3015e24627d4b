------------------------- MODULE Correlation_proofs -------------------------
(* For any devices, keys, sources and bounds: what an index of the          *)
(* inventory cache names is there and has the key (Inv), only what has been *)
(* heard is online (Evidence), and what differs from storage is on its way  *)
(* there (Known and Stored).  Inv is inductive by itself, Evidence and      *)
(* Known are relative to it, and Stored to Inv and Known.                   *)
EXTENDS Correlation, TLAPS

Inv == TypeOK /\ Indexed(inv)

\* What brings a device online, at once or later, has been heard, in the cache
\* and in what goroutines hold of it.
Evident(r, p) == r.online \/ r.waiting => p \in heard
Evidence ==
    /\ \A p \in Cached(inv) : Evident(inv.devices[p], p)
    /\ \A c \in Consumers :
          consumer[c].at = "found" => Evident(consumer[c].clone, consumer[c].device)
    /\ promoter.at = "write" => promoter.device \in heard

\* A new identity is nowhere yet.
Known ==
    /\ Cached(inv) \subseteq issued
    /\ DOMAIN batch \subseteq issued
    /\ \A p \in PDIDs : rows[p] # Absent => p \in issued
    /\ \A c \in Consumers :
          consumer[c].at \in {"found", "persist"} => consumer[c].device \in issued
    /\ promoter.at = "write" => promoter.device \in issued

\* What is being saved is the record as it is, unless the device is marked again.
ToMark == {p \in PDIDs : \E c \in Consumers : consumer[c].at = "mark" /\ consumer[c].device = p}
BatchCurrent ==
    \A p \in (Cached(inv) \cap DOMAIN batch) \ (dirty \cup ToMark \cup overwritten) :
        batch[p] = Material(inv.devices[p])

Stored == BatchCurrent /\ ChangesReachStorage

-----------------------------------------------------------------------------
(* Records                                                                 *)

LEMMA AbsentIsNoRecord == Absent \notin Records
<1>1. DOMAIN Absent = {"absent"}
  BY DEF Absent
<1>2. \A r \in Records : "macs" \in DOMAIN r
  BY DEF Records
<1> QED
  BY <1>1, <1>2

LEMMA RecordFields ==
    ASSUME NEW r \in Records
    PROVE  /\ r.macs \subseteq MACs /\ r.mac \in OrNone(MACs)
           /\ r.ips \subseteq IPs /\ r.ip \in OrNone(IPs)
           /\ r.name \in OrNone(Hosts) /\ r.host \in OrNone(Hosts)
           /\ r.tier \in Tiers /\ r.infra \in BOOLEAN
           /\ r.online \in BOOLEAN /\ r.waiting \in BOOLEAN /\ r.age \in Ages
BY DEF Records

LEMMA AddMACType ==
    ASSUME NEW r \in Records, NEW mac \in OrNone(MACs)
    PROVE  AddMAC(r, mac) \in Records
BY DEF AddMAC, Records, OrNone

LEMMA AddIPType ==
    ASSUME NEW r \in Records, NEW ip \in OrNone(IPs)
    PROVE  AddIP(r, ip) \in Records
BY DEF AddIP, Records, OrNone

LEMMA TierType == \A mac, host : Tier(mac, host) \in Tiers
BY DEF Tier, Tiers

LEMMA SensedType ==
    ASSUME NEW r \in Records, NEW o
    PROVE  Sensed(o, r) \in Records
<1>1. [r EXCEPT !.infra = TRUE, !.online = TRUE, !.waiting = FALSE] \in Records
  BY DEF Records
<1>2. [r EXCEPT !.online = TRUE, !.waiting = FALSE] \in Records
  BY DEF Records
<1>3. [r EXCEPT !.waiting = TRUE] \in Records
  BY DEF Records
<1> QED
  BY <1>1, <1>2, <1>3 DEF Sensed

LEMMA UpdatedType ==
    ASSUME NEW o \in Observations, NEW r \in Records, NEW host \in OrNone(Hosts)
    PROVE  Updated(o, r, host) \in Records
<1>1. o.mac \in OrNone(MACs) /\ o.ip \in OrNone(IPs)
  BY DEF Observations
<1>2. AddMAC(r, o.mac) \in Records
  BY <1>1, AddMACType
<1>3. Sensed(o, AddMAC(r, o.mac)) \in Records
  BY <1>2, SensedType
<1>4. \A s \in Records : Named(s, host) \in Records
  BY DEF Named, Records
<1>5. \A s \in Records : Addressed(o, s) \in Records
  BY <1>1, AddIPType DEF Addressed
<1>6. \A s \in Records : [s EXCEPT !.age = "now"] \in Records
  BY DEF Records, Ages
<1> QED
  BY <1>3, <1>4, <1>5, <1>6 DEF Updated

LEMMA PromoteType ==
    ASSUME NEW o \in Observations, NEW r \in Records, NEW host \in OrNone(Hosts)
    PROVE  Promote(r, o, host) \in Records
<1>1. AddMAC(r, o.mac) \in Records
  BY AddMACType DEF Observations
<1>2. \A s \in Records, t \in Tiers : [s EXCEPT !.tier = t, !.host = host] \in Records
  BY DEF Records
<1> QED
  BY <1>1, <1>2, TierType DEF Promote

LEMMA MaterialType ==
    ASSUME NEW r \in Records
    PROVE  Material(r) \in Rows
BY DEF Material, Records, Rows

LEMMA HydratedType ==
    ASSUME NEW row \in Rows
    PROVE  Hydrated(row) \in Records /\ Hydrated(row).mac = row.mac /\ Hydrated(row).ip = row.ip
BY DEF Hydrated, Records, Rows, Ages

-----------------------------------------------------------------------------
(* Methods of the cache                                                    *)

LEMMA CacheFields ==
    ASSUME NEW v \in Inventories
    PROVE  /\ v.devices \in [PDIDs -> Records \cup {Absent}]
           /\ v.byMAC \in [MACs -> OrNone(PDIDs)]
           /\ v.byIP \in [IPs -> OrNone(PDIDs)]
           /\ v.owners \in [Hosts -> OrNone(PDIDs)]
           /\ \A p \in Cached(v) : p \in PDIDs /\ v.devices[p] \in Records
BY DEF Inventories, Cached

LEMMA Assembled ==
    ASSUME NEW d \in [PDIDs -> Records \cup {Absent}], NEW bm \in [MACs -> OrNone(PDIDs)],
           NEW bi \in [IPs -> OrNone(PDIDs)], NEW w \in [Hosts -> OrNone(PDIDs)]
    PROVE  [devices |-> d, byMAC |-> bm, byIP |-> bi, owners |-> w] \in Inventories
BY DEF Inventories

\* Upsert: the device is indexed under its keys and nowhere else.
LEMMA UpsertKeeps ==
    ASSUME NEW v \in Inventories, Indexed(v), NEW p \in PDIDs, NEW r \in Records
    PROVE  Upsert(v, p, r) \in Inventories /\ Indexed(Upsert(v, p, r))
<1> DEFINE old == v.devices[p]
           oldMAC == IF old = Absent THEN None ELSE old.mac
           oldIP == IF old = Absent THEN None ELSE old.ip
           d == [v.devices EXCEPT ![p] = r]
           bm == Reindexed(v.byMAC, p, oldMAC, r.mac)
           bi == Reindexed(v.byIP, p, oldIP, r.ip)
           u == Upsert(v, p, r)
<1>1. u.devices = d /\ u.byMAC = bm /\ u.byIP = bi /\ u.owners = v.owners
  BY DEF Upsert
<1>2. u = [devices |-> d, byMAC |-> bm, byIP |-> bi, owners |-> v.owners]
  BY DEF Upsert
<1>3. d \in [PDIDs -> Records \cup {Absent}]
  BY CacheFields
<1>4. bm \in [MACs -> OrNone(PDIDs)] /\ bi \in [IPs -> OrNone(PDIDs)]
  BY CacheFields DEF Reindexed, OrNone
<1>5. u \in Inventories
  BY <1>2, <1>3, <1>4, CacheFields, Assembled
<1>6. Cached(u) = Cached(v) \cup {p}
  BY <1>1, AbsentIsNoRecord, CacheFields DEF Cached
<1>7. ASSUME NEW m \in MACs, bm[m] # None
      PROVE  bm[m] \in Cached(u) /\ d[bm[m]].mac = m
  <2>1. CASE m = r.mac
    BY <1>6, <1>7, <2>1, CacheFields DEF Reindexed
  <2>2. CASE m # r.mac
    <3>1. bm[m] = v.byMAC[m] /\ ~(m = oldMAC /\ v.byMAC[m] = p)
      BY <1>7, <2>2, CacheFields DEF Reindexed
    <3>2. v.byMAC[m] \in Cached(v) /\ v.devices[v.byMAC[m]].mac = m
      BY <1>7, <3>1 DEF Indexed
    <3>3. v.byMAC[m] # p
      BY <3>1, <3>2 DEF Cached
    <3> QED
      BY <1>6, <3>1, <3>2, <3>3, CacheFields
  <2> QED
    BY <2>1, <2>2
<1>8. ASSUME NEW i \in IPs, bi[i] # None
      PROVE  bi[i] \in Cached(u) /\ d[bi[i]].ip = i
  <2>1. CASE i = r.ip
    BY <1>6, <1>8, <2>1, CacheFields DEF Reindexed
  <2>2. CASE i # r.ip
    <3>1. bi[i] = v.byIP[i] /\ ~(i = oldIP /\ v.byIP[i] = p)
      BY <1>8, <2>2, CacheFields DEF Reindexed
    <3>2. v.byIP[i] \in Cached(v) /\ v.devices[v.byIP[i]].ip = i
      BY <1>8, <3>1 DEF Indexed
    <3>3. v.byIP[i] # p
      BY <3>1, <3>2 DEF Cached
    <3> QED
      BY <1>6, <3>1, <3>2, <3>3, CacheFields
  <2> QED
    BY <2>1, <2>2
<1> HIDE DEF d, bm, bi, u
<1>9. Indexed(u)
  BY <1>1, <1>7, <1>8 DEF Indexed
<1> QED
  BY <1>5, <1>9 DEF u

\* Methods that change nothing but the owners of hostnames.
LEMMA OwnersKeep ==
    ASSUME NEW v \in Inventories, Indexed(v), NEW h, NEW p \in PDIDs
    PROVE  /\ AcquireHostname(v, h, p) \in Inventories /\ Indexed(AcquireHostname(v, h, p))
           /\ ReleaseHostname(v, h, p) \in Inventories /\ Indexed(ReleaseHostname(v, h, p))
<1> SUFFICES ASSUME NEW x \in OrNone(PDIDs)
             PROVE  /\ [v EXCEPT !.owners[h] = x] \in Inventories
                    /\ Indexed([v EXCEPT !.owners[h] = x])
  BY DEF AcquireHostname, ReleaseHostname, OrNone
<1> DEFINE w == [v EXCEPT !.owners[h] = x]
<1>1. w.devices = v.devices /\ w.byMAC = v.byMAC /\ w.byIP = v.byIP
  BY DEF Inventories
<1>2. w \in Inventories
  BY DEF Inventories
<1>3. Indexed(w)
  BY <1>1 DEF Indexed, Cached
<1> QED
  BY <1>2, <1>3

\* Records that keep their current keys keep the indices.
LEMMA SameKeysKeep ==
    ASSUME NEW v \in Inventories, Indexed(v),
           NEW d \in [PDIDs -> Records \cup {Absent}],
           \A p \in Cached(v) : d[p] # Absent /\ d[p].mac = v.devices[p].mac
                                              /\ d[p].ip = v.devices[p].ip
    PROVE  [v EXCEPT !.devices = d] \in Inventories /\ Indexed([v EXCEPT !.devices = d])
<1> DEFINE w == [v EXCEPT !.devices = d]
<1>1. w.devices = d /\ w.byMAC = v.byMAC /\ w.byIP = v.byIP
  BY DEF Inventories
<1>2. w \in Inventories
  BY DEF Inventories
<1>3. \A p \in Cached(v) : p \in Cached(w)
  BY <1>1 DEF Cached
<1> HIDE DEF w
<1>4. Indexed(w)
  BY <1>1, <1>3 DEF Indexed
<1> QED
  BY <1>2, <1>4 DEF w

\* Delete and purgeOffline: entries of the keys of what goes are dropped, and
\* what is left in the indices is in the cache.
LEMMA RemovedKeeps ==
    ASSUME NEW v \in Inventories, Indexed(v), NEW gone \in SUBSET Cached(v)
    PROVE  Removed(v, gone) \in Inventories /\ Indexed(Removed(v, gone))
<1> DEFINE u == Removed(v, gone)
<1>1. u \in Inventories
  <2>1. [p \in PDIDs |-> IF p \in gone THEN Absent ELSE v.devices[p]]
            \in [PDIDs -> Records \cup {Absent}]
    BY CacheFields
  <2>2. [m \in MACs |-> IF \E p \in gone : v.devices[p].mac = m THEN None ELSE v.byMAC[m]]
            \in [MACs -> OrNone(PDIDs)]
    BY CacheFields DEF OrNone
  <2>3. [i \in IPs |-> IF \E p \in gone : v.devices[p].ip = i THEN None ELSE v.byIP[i]]
            \in [IPs -> OrNone(PDIDs)]
    BY CacheFields DEF OrNone
  <2>4. [h \in Hosts |->
            IF v.owners[h] \in gone /\ v.devices[v.owners[h]].host = h THEN None
            ELSE v.owners[h]] \in [Hosts -> OrNone(PDIDs)]
    BY CacheFields DEF OrNone
  <2> QED
    BY <2>1, <2>2, <2>3, <2>4, Assembled DEF Removed
<1>2. Cached(u) = Cached(v) \ gone /\ \A p \in Cached(u) : u.devices[p] = v.devices[p]
  BY DEF Removed, Cached
<1>3. ASSUME NEW m \in MACs, u.byMAC[m] # None
      PROVE  u.byMAC[m] \in Cached(u) /\ u.devices[u.byMAC[m]].mac = m
  <2>1. u.byMAC[m] = v.byMAC[m] /\ ~\E p \in gone : v.devices[p].mac = m
    BY <1>3 DEF Removed
  <2>2. v.byMAC[m] \in Cached(v) /\ v.devices[v.byMAC[m]].mac = m
    BY <1>3, <2>1 DEF Indexed
  <2> QED
    BY <1>2, <2>1, <2>2
<1>4. ASSUME NEW i \in IPs, u.byIP[i] # None
      PROVE  u.byIP[i] \in Cached(u) /\ u.devices[u.byIP[i]].ip = i
  <2>1. u.byIP[i] = v.byIP[i] /\ ~\E p \in gone : v.devices[p].ip = i
    BY <1>4 DEF Removed
  <2>2. v.byIP[i] \in Cached(v) /\ v.devices[v.byIP[i]].ip = i
    BY <1>4, <2>1 DEF Indexed
  <2> QED
    BY <1>2, <2>1, <2>2
<1> HIDE DEF u
<1>5. Indexed(u)
  BY <1>3, <1>4 DEF Indexed
<1> QED
  BY <1>1, <1>5 DEF u

LEMMA DemoteKeeps ==
    ASSUME NEW v \in Inventories, Indexed(v)
    PROVE  DemoteStale(v) \in Inventories /\ Indexed(DemoteStale(v))
<1> DEFINE d == [p \in PDIDs |->
                    IF v.devices[p] # Absent /\ v.devices[p].age # "now"
                    THEN [v.devices[p] EXCEPT !.online = FALSE] ELSE v.devices[p]]
<1>1. \A r \in Records : /\ [r EXCEPT !.online = FALSE] \in Records
                          /\ [r EXCEPT !.online = FALSE].mac = r.mac
                          /\ [r EXCEPT !.online = FALSE].ip = r.ip
  BY DEF Records
<1>2. d \in [PDIDs -> Records \cup {Absent}]
  BY <1>1, CacheFields
<1>3. \A p \in Cached(v) : d[p] \in Records /\ d[p].mac = v.devices[p].mac
                                             /\ d[p].ip = v.devices[p].ip
  BY <1>1, CacheFields
<1> HIDE DEF d
<1>4. \A p \in Cached(v) : d[p] # Absent
  BY <1>3, AbsentIsNoRecord
<1>5. [v EXCEPT !.devices = d] \in Inventories /\ Indexed([v EXCEPT !.devices = d])
  BY <1>2, <1>3, <1>4, SameKeysKeep
<1> QED
  BY <1>5 DEF DemoteStale, d

\* The device falls back to an address under which it is not found.
LEMMA RemoveIPKeeps ==
    ASSUME NEW v \in Inventories, Indexed(v), NEW i \in IPs, v.byIP[i] # None,
           NEW w \in RemoveIPIndex(v, i)
    PROVE  w \in Inventories /\ Indexed(w)
<1> DEFINE p == v.byIP[i]
           rest == v.devices[p].ips \ {i}
<1>1. p \in Cached(v) /\ v.devices[p].ip = i /\ v.devices[p] \in Records
  BY CacheFields DEF Indexed
<1>2. PICK other \in IF rest = {} THEN {None} ELSE rest :
          w = [v EXCEPT !.devices[p] = [@ EXCEPT !.ips = rest, !.ip = other], !.byIP[i] = None]
  BY DEF RemoveIPIndex
<1>3. other \in OrNone(IPs) /\ rest \subseteq IPs
  BY <1>1, RecordFields DEF OrNone
<1> DEFINE r == [v.devices[p] EXCEPT !.ips = rest, !.ip = other]
<1>4. r \in Records /\ r.mac = v.devices[p].mac
  <2> HIDE DEF p, rest
  <2> QED
    BY <1>1, <1>3 DEF Records
<1> HIDE DEF r
<1>5. /\ w.devices = [v.devices EXCEPT ![p] = r]
      /\ w.byMAC = v.byMAC
      /\ w.byIP = [v.byIP EXCEPT ![i] = None]
      /\ w.owners = v.owners
      /\ w = [devices |-> w.devices, byMAC |-> w.byMAC, byIP |-> w.byIP, owners |-> w.owners]
  BY <1>2 DEF r, Inventories
<1>6. w \in Inventories
  BY <1>4, <1>5, CacheFields, Assembled DEF OrNone
<1>7. Cached(w) = Cached(v)
  BY <1>1, <1>4, <1>5, CacheFields, AbsentIsNoRecord DEF Cached
<1>8. ASSUME NEW m \in MACs, w.byMAC[m] # None
      PROVE  w.byMAC[m] \in Cached(w) /\ w.devices[w.byMAC[m]].mac = m
  BY <1>4, <1>5, <1>7, <1>8, CacheFields DEF Indexed
<1>9. ASSUME NEW j \in IPs, w.byIP[j] # None
      PROVE  w.byIP[j] \in Cached(w) /\ w.devices[w.byIP[j]].ip = j
  <2>1. j # i /\ w.byIP[j] = v.byIP[j]
    BY <1>5, <1>9, CacheFields
  <2>2. v.byIP[j] \in Cached(v) /\ v.devices[v.byIP[j]].ip = j
    BY <1>9, <2>1 DEF Indexed
  <2>3. v.byIP[j] # p
    BY <1>1, <2>1, <2>2
  <2> QED
    BY <1>5, <1>7, <2>1, <2>2, <2>3, CacheFields
<1> QED
  BY <1>6, <1>8, <1>9 DEF Indexed

-----------------------------------------------------------------------------
(* States of the goroutines                                                *)

ConsumerStates == {Idle} \cup Found \cup New \cup Persisting \cup Marking

LEMMA ObservationFields ==
    ASSUME NEW o \in Observations
    PROVE  /\ o.source \in Sources /\ o.mac \in OrNone(MACs)
           /\ o.ip \in OrNone(IPs) /\ o.host \in OrNone(Hosts)
           /\ o.mac = None => o.ip \in IPs
<1>1. /\ o.source \in Sources /\ o.mac \in OrNone(MACs)
      /\ o.ip \in OrNone(IPs) /\ o.host \in OrNone(Hosts)
  BY DEF Observations
<1>2. WellFormed(o)
  BY DEF Observations
<1>3. o.mac = None => o.ip # None
  BY <1>1, <1>2, SourcesAssumption DEF WellFormed
<1> QED
  BY <1>1, <1>3 DEF OrNone

LEMMA ConsumerFields ==
    ASSUME NEW s \in ConsumerStates
    PROVE  /\ s.at = "found" => s.obs \in Observations /\ s.device \in PDIDs /\ s.clone \in Records
           /\ s.at = "new" => s.obs \in Observations
           /\ s.at = "persist" => s.device \in PDIDs /\ s.clone \in Records
           /\ s.at = "mark" => s.device \in PDIDs
BY DEF ConsumerStates, Idle, Found, New, Persisting, Marking

LEMMA ConsumerRecords ==
    /\ \A o \in Observations, p \in PDIDs, r \in Records :
          [at |-> "found", obs |-> o, device |-> p, clone |-> r] \in ConsumerStates
    /\ \A o \in Observations : [at |-> "new", obs |-> o] \in ConsumerStates
    /\ \A p \in PDIDs, r \in Records :
          [at |-> "persist", device |-> p, clone |-> r] \in ConsumerStates
    /\ \A p \in PDIDs : [at |-> "mark", device |-> p] \in ConsumerStates
    /\ Idle \in ConsumerStates
BY DEF ConsumerStates, Found, New, Persisting, Marking

LEMMA HeardType ==
    ASSUME TypeOK, NEW o, NEW p \in PDIDs
    PROVE  Heard(o, p) \subseteq PDIDs
BY DEF TypeOK, Heard

LEMMA OvertakenType ==
    ASSUME NEW p \in PDIDs, NEW r
    PROVE  Overtaken(p, r) \subseteq PDIDs
BY DEF Overtaken

LEMMA HostType ==
    ASSUME NEW o \in Observations, NEW p
    PROVE  HostOf(o, p) \in OrNone(Hosts)
BY ObservationFields DEF HostOf, OrNone

\* What a lookup finds is in the cache, through the indices because of Indexed.
LEMMA LookupFinds ==
    ASSUME Inv, NEW o \in Observations, Lookup(o) # None
    PROVE  Lookup(o) \in PDIDs /\ inv.devices[Lookup(o)] \in Records
<1>1. inv \in Inventories /\ Indexed(inv)
  BY DEF Inv, TypeOK
<1>2. Lookup(o) \in Cached(inv)
  <2>1. CASE o.mac = None
    BY <1>1, <2>1, ObservationFields DEF Lookup, Indexed
  <2>2. CASE o.mac # None /\ Verified(o.mac) # {}
    <3>1. Lookup(o) \in Verified(o.mac)
      BY <2>2 DEF Lookup
    <3> QED
      BY <3>1 DEF Verified
  <2>3. CASE o.mac # None /\ Verified(o.mac) = {}
    <3>1. o.mac \in MACs
      BY <2>3, ObservationFields DEF OrNone
    <3> QED
      BY <1>1, <2>3, <3>1 DEF Lookup, Indexed
  <2> QED
    BY <2>1, <2>2, <2>3
<1> QED
  BY <1>1, <1>2, CacheFields

LEMMA NewRecordType ==
    ASSUME NEW o \in Observations
    PROVE  NewRecord(o) \in Records
<1> DEFINE host == IF o.host # None /\ IsHostnameActivelyOwned(inv, o.host) THEN None ELSE o.host
           blank == [macs |-> {}, mac |-> None, ips |-> {}, ip |-> None, name |-> host,
                     host |-> host, tier |-> Tier(o.mac, host), infra |-> FALSE,
                     online |-> FALSE, waiting |-> FALSE, age |-> "now"]
           keyed == AddMAC(blank, o.mac)
           addressed == IF o.source = "pihole" THEN keyed ELSE AddIP(keyed, o.ip)
<1>1. host \in OrNone(Hosts) /\ Tier(o.mac, host) \in Tiers
  BY ObservationFields, TierType DEF OrNone
<1>2. blank \in Records
  <2> HIDE DEF host
  <2> QED
    BY <1>1 DEF Records, OrNone, Ages
<1> HIDE DEF blank
<1>3. keyed \in Records
  BY <1>2, AddMACType, ObservationFields
<1> HIDE DEF keyed
<1>4. addressed \in Records
  BY <1>3, AddIPType, ObservationFields
<1> HIDE DEF addressed
<1>5. NewRecord(o) = Sensed(o, addressed)
  BY DEF NewRecord, addressed, keyed, blank
<1> QED
  BY <1>4, <1>5, SensedType

-----------------------------------------------------------------------------
(* The invariant                                                           *)

LEMMA InitInv == Init => Inv
<1> SUFFICES ASSUME Init PROVE Inv
  OBVIOUS
<1>1. Empty \in Inventories
  BY Assembled DEF Empty, OrNone
<1>2. Indexed(Empty)
  BY DEF Indexed, Empty
<1>3. NoBatch = [p \in {} |-> Absent] /\ DOMAIN NoBatch = {}
  BY DEF NoBatch
<1> QED
  BY <1>1, <1>2, <1>3, BoundsAssumption DEF Inv, TypeOK, Init, Idle

\* LoadHydrate and the Upserts: whichever of two rows is indexed has the key.
LEMMA HydrateKeeps ==
    ASSUME Inv, Hydrate
    PROVE  inv' \in Inventories /\ Indexed(inv')
<1> DEFINE saved == {p \in PDIDs : rows[p] # Absent}
           d == [p \in PDIDs |-> IF p \in saved THEN Hydrated(rows[p]) ELSE Absent]
<1>1. PICK bm \in [MACs -> OrNone(saved)], bi \in [IPs -> OrNone(saved)] :
          /\ \A m \in MACs : bm[m] \in Candidates({p \in saved : rows[p].mac = m})
          /\ \A i \in IPs : bi[i] \in Candidates({p \in saved : rows[p].ip = i})
          /\ inv' = [devices |-> d, byMAC |-> bm, byIP |-> bi, owners |-> inv.owners]
  BY DEF Hydrate
<1>2. \A p \in saved : rows[p] \in Rows
  BY DEF Inv, TypeOK
<1>3. \A p \in saved : d[p] \in Records /\ d[p].mac = rows[p].mac /\ d[p].ip = rows[p].ip
  BY <1>2, HydratedType
<1>4. d \in [PDIDs -> Records \cup {Absent}]
  BY <1>3
<1>5. inv' \in Inventories
  <2>1. bm \in [MACs -> OrNone(PDIDs)] /\ bi \in [IPs -> OrNone(PDIDs)]
    BY DEF OrNone
  <2>2. inv.owners \in [Hosts -> OrNone(PDIDs)]
    BY CacheFields DEF Inv, TypeOK
  <2> HIDE DEF d
  <2> QED
    BY <1>1, <1>4, <2>1, <2>2, Assembled
<1>6. \A p \in saved : p \in Cached(inv') /\ inv'.devices[p] = d[p]
  BY <1>1, <1>3, AbsentIsNoRecord DEF Cached
<1> HIDE DEF d
<1>7. ASSUME NEW m \in MACs, bm[m] # None
      PROVE  bm[m] \in saved /\ rows[bm[m]].mac = m
  BY <1>1, <1>7, NoneAssumption DEF Candidates
<1>8. ASSUME NEW i \in IPs, bi[i] # None
      PROVE  bi[i] \in saved /\ rows[bi[i]].ip = i
  BY <1>1, <1>8, NoneAssumption DEF Candidates
<1>9. inv'.byMAC = bm /\ inv'.byIP = bi
  BY <1>1
<1>10. Indexed(inv')
  BY <1>3, <1>6, <1>7, <1>8, <1>9 DEF Indexed
<1> QED
  BY <1>5, <1>10

\* Time passing changes no key.
LEMMA AgeKeeps ==
    ASSUME Inv, NEW q \in PDIDs, Age(q)
    PROVE  inv' \in Inventories /\ Indexed(inv')
<1> DEFINE older == IF inv.devices[q].age = "now" THEN "stale" ELSE "old"
           r == [inv.devices[q] EXCEPT !.age = older]
           d == [inv.devices EXCEPT ![q] = r]
<1>1. inv \in Inventories /\ Indexed(inv) /\ q \in Cached(inv)
  BY DEF Inv, TypeOK, Age
<1>2. inv.devices[q] \in Records
  BY <1>1, CacheFields
<1>3. r \in Records /\ r.mac = inv.devices[q].mac /\ r.ip = inv.devices[q].ip
  BY <1>2 DEF Records, Ages
<1>4. inv' = [inv EXCEPT !.devices = d]
  BY <1>1 DEF Age
<1> HIDE DEF r
<1>5. d \in [PDIDs -> Records \cup {Absent}]
  BY <1>1, <1>3, CacheFields
<1>6. \A p \in Cached(inv) : d[p] # Absent /\ d[p].mac = inv.devices[p].mac
                                           /\ d[p].ip = inv.devices[p].ip
  BY <1>1, <1>3, CacheFields, AbsentIsNoRecord DEF Cached
<1> HIDE DEF d
<1> QED
  BY <1>1, <1>4, <1>5, <1>6, SameKeysKeep

\* The types of the variables apart from the cache, with the goroutines' states named.
LEMMA Types ==
    ASSUME TypeOK
    PROVE  /\ consumer \in [Consumers -> ConsumerStates]
           /\ \A c \in Consumers : consumer[c] \in ConsumerStates
           /\ promoter.at = "write" => promoter.device \in PDIDs /\ promoter.clone \in Records
BY DEF TypeOK, ConsumerStates, Idle, Holding

LEMMA ObserveKeeps ==
    ASSUME Inv, NEW c \in Consumers, NEW o \in Observations, Observe(c, o)
    PROVE  Inv'
<1>1. /\ UNCHANGED <<rows, bound, deferred, promoter, batch, issued, bindings, restarts>>
      /\ UNCHANGED <<overwritten, heard>>
  BY DEF Observe, history
<1>2. observations' \in 0 .. MaxObservations
  BY BoundsAssumption DEF Inv, TypeOK, Observe
<1>3. consumer' \in [Consumers -> ConsumerStates]
  <2>1. consumer \in [Consumers -> ConsumerStates]
    BY Types DEF Inv
  <2>2. (IF Lookup(o) = None THEN [at |-> "new", obs |-> o]
         ELSE [at |-> "found", obs |-> o, device |-> Lookup(o),
               clone |-> inv.devices[Lookup(o)]]) \in ConsumerStates
    BY ConsumerRecords, LookupFinds
  <2> QED
    BY <2>1, <2>2 DEF Observe
<1>4. inv' \in Inventories /\ Indexed(inv') /\ dirty' \subseteq PDIDs
  <2>1. CASE Displaces(o)
    <3>1. o.ip \in IPs /\ inv.byIP[o.ip] # None
      BY <2>1, ObservationFields DEF Displaces, OrNone
    <3>2. inv' \in RemoveIPIndex(inv, o.ip) /\ dirty' = dirty \cup {inv.byIP[o.ip]}
      BY <2>1 DEF Observe
    <3>3. inv.byIP[o.ip] \in PDIDs
      BY <3>1, CacheFields DEF Inv, TypeOK, OrNone
    <3> QED
      BY <3>1, <3>2, <3>3, RemoveIPKeeps DEF Inv, TypeOK
  <2>2. CASE ~Displaces(o)
    BY <2>2 DEF Observe, Inv, TypeOK
  <2> QED
    BY <2>1, <2>2
<1> QED
  BY <1>1, <1>2, <1>3, <1>4 DEF Inv, TypeOK, ConsumerStates

LEMMA WriteKeeps ==
    ASSUME Inv, NEW c \in Consumers, Write(c)
    PROVE  Inv'
<1> DEFINE o == consumer[c].obs
           p == consumer[c].device
           r == consumer[c].clone
           host == HostOf(o, p)
           promoted == CanPromote(r.tier, Tier(o.mac, host))
           new == IF promoted THEN Promote(r, o, host) ELSE Updated(o, r, host)
           cache == IF promoted THEN Claimed(o, p) ELSE Renamed(Claimed(o, p), p, r, host)
<1>1. o \in Observations /\ p \in PDIDs /\ r \in Records
  BY Types, ConsumerFields DEF Inv, Write
<1>2. /\ inv' = Upsert(cache, p, new)
      /\ consumer' = [consumer EXCEPT ![c] =
             IF promoted \/ Marks(r, new) THEN [at |-> "mark", device |-> p] ELSE Idle]
      /\ deferred' = IF ~promoted /\ Positive(o) /\ new.waiting THEN deferred \cup {p} ELSE deferred
      /\ overwritten' = overwritten \cup Overtaken(p, r)
      /\ heard' = Heard(o, p)
      /\ UNCHANGED <<rows, bound, dirty, promoter, batch, issued, observations, bindings, restarts>>
  BY DEF Write, counters
<1> HIDE DEF o, p, r
<1>3. host \in OrNone(Hosts)
  BY <1>1, HostType
<1> HIDE DEF host
<1>4. new \in Records
  BY <1>1, <1>3, PromoteType, UpdatedType
<1>5. Claimed(o, p) \in Inventories /\ Indexed(Claimed(o, p))
  BY <1>1, OwnersKeep DEF Claimed, Inv, TypeOK
<1>6. cache \in Inventories /\ Indexed(cache)
  <2>1. \A v \in Inventories : Indexed(v) =>
            Renamed(v, p, r, host) \in Inventories /\ Indexed(Renamed(v, p, r, host))
    <3> SUFFICES ASSUME NEW v \in Inventories, Indexed(v)
                 PROVE  Renamed(v, p, r, host) \in Inventories /\ Indexed(Renamed(v, p, r, host))
      OBVIOUS
    <3>1. /\ ReleaseHostname(v, r.host, p) \in Inventories
          /\ Indexed(ReleaseHostname(v, r.host, p))
      BY <1>1, OwnersKeep
    <3>2. LET w == AcquireHostname(ReleaseHostname(v, r.host, p), host, p)
          IN w \in Inventories /\ Indexed(w)
      BY <1>1, <3>1, OwnersKeep
    <3> QED
      BY <3>2 DEF Renamed
  <2> QED
    BY <1>5, <2>1
<1> HIDE DEF cache, new
<1>7. inv' \in Inventories /\ Indexed(inv')
  BY <1>1, <1>2, <1>4, <1>6, UpsertKeeps
<1>8. consumer' \in [Consumers -> ConsumerStates]
  BY <1>1, <1>2, Types, ConsumerRecords DEF Inv
<1>9. deferred' \subseteq PDIDs /\ overwritten' \subseteq PDIDs
  BY <1>1, <1>2, OvertakenType DEF Inv, TypeOK
<1>10. heard' \subseteq PDIDs
  BY <1>1, <1>2, HeardType DEF Inv
<1> QED
  BY <1>2, <1>7, <1>8, <1>9, <1>10 DEF Inv, TypeOK, ConsumerStates

LEMMA CreateKeeps ==
    ASSUME Inv, NEW c \in Consumers, Create(c)
    PROVE  Inv'
<1> DEFINE o == consumer[c].obs
           r == NewRecord(o)
<1>1. o \in Observations
  BY Types, ConsumerFields DEF Inv, Create
<1>2. r \in Records
  BY <1>1, NewRecordType
<1>3. PICK p \in PDIDs \ issued :
          LET cache == Upsert(inv, p, r)
          IN /\ inv' = IF r.host = None THEN cache ELSE AcquireHostname(cache, r.host, p)
             /\ issued' = issued \cup {p}
             /\ heard' = Heard(o, p)
             /\ consumer' = [consumer EXCEPT ![c] = [at |-> "persist", device |-> p, clone |-> r]]
  BY DEF Create
<1>4. UNCHANGED <<rows, bound, dirty, deferred, promoter, batch, observations, bindings,
                  restarts, overwritten>>
  BY DEF Create, counters
<1> HIDE DEF o, r
<1>5. Upsert(inv, p, r) \in Inventories /\ Indexed(Upsert(inv, p, r))
  BY <1>2, UpsertKeeps DEF Inv, TypeOK
<1>6. inv' \in Inventories /\ Indexed(inv')
  BY <1>3, <1>5, OwnersKeep
<1>7. consumer' \in [Consumers -> ConsumerStates]
  BY <1>2, <1>3, Types, ConsumerRecords DEF Inv
<1>8. heard' \subseteq PDIDs
  BY <1>3, HeardType DEF Inv
<1>9. issued' \subseteq PDIDs
  BY <1>3 DEF Inv, TypeOK
<1> QED
  BY <1>4, <1>6, <1>7, <1>8, <1>9 DEF Inv, TypeOK, ConsumerStates

LEMMA PersistKeeps ==
    ASSUME Inv, NEW c \in Consumers, Mark(c) \/ Persist(c) \/ PersistFails(c)
    PROVE  Inv'
<1>1. CASE Mark(c)
  <2>1. consumer[c].device \in PDIDs
    BY <1>1, Types, ConsumerFields DEF Inv, Mark
  <2>2. consumer' \in [Consumers -> ConsumerStates]
    BY <1>1, Types, ConsumerRecords DEF Inv, Mark
  <2> QED
    BY <1>1, <2>1, <2>2 DEF Mark, Inv, TypeOK, ConsumerStates, counters, history
<1>2. CASE Persist(c)
  <2>1. consumer[c].device \in PDIDs /\ consumer[c].clone \in Records
    BY <1>2, Types, ConsumerFields DEF Inv, Persist
  <2>2. consumer' \in [Consumers -> ConsumerStates]
    BY <1>2, Types, ConsumerRecords DEF Inv, Persist
  <2>3. rows' \in [PDIDs -> Rows \cup {Absent}]
    BY <1>2, <2>1, MaterialType DEF Inv, TypeOK, Persist
  <2>4. deferred' \subseteq PDIDs /\ overwritten' \subseteq PDIDs
    BY <1>2, <2>1, OvertakenType DEF Inv, TypeOK, Persist
  <2> QED
    BY <1>2, <2>2, <2>3, <2>4 DEF Persist, Inv, TypeOK, ConsumerStates, counters
<1>3. CASE PersistFails(c)
  <2>1. consumer' \in [Consumers -> ConsumerStates]
    BY <1>3, Types, ConsumerRecords DEF Inv, PersistFails
  <2>2. {consumer[c].device} \cap Cached(inv) \in SUBSET Cached(inv)
    OBVIOUS
  <2>3. inv' \in Inventories /\ Indexed(inv')
    BY <1>3, <2>2, RemovedKeeps DEF PersistFails, Delete, Inv, TypeOK
  <2> QED
    BY <1>3, <2>1, <2>3 DEF PersistFails, Inv, TypeOK, ConsumerStates, counters, history
<1> QED
  BY <1>1, <1>2, <1>3

LEMMA FlushKeeps ==
    ASSUME Inv, FlushTake \/ FlushSave \/ FlushFails
    PROVE  Inv'
<1>1. CASE FlushTake
  <2>1. \A p \in DOMAIN batch' : batch'[p] \in Rows
    BY <1>1, MaterialType, CacheFields DEF FlushTake, Inv, TypeOK
  <2>2. DOMAIN batch' \subseteq PDIDs
    BY <1>1 DEF FlushTake, Cached
  <2> QED
    BY <1>1, <2>1, <2>2 DEF FlushTake, Inv, TypeOK, counters, history
<1>2. CASE FlushSave
  <2>1. rows' \in [PDIDs -> Rows \cup {Absent}]
    BY <1>2 DEF FlushSave, Inv, TypeOK
  <2> QED
    BY <1>2, <2>1 DEF FlushSave, NoBatch, Inv, TypeOK, counters, history
<1>3. CASE FlushFails
  BY <1>3 DEF FlushFails, Retried, NoBatch, Inv, TypeOK, counters, history
<1> QED
  BY <1>1, <1>2, <1>3

LEMMA SweepKeeps ==
    ASSUME Inv, Demote \/ Purge \/ \E p \in PDIDs : Age(p)
    PROVE  Inv'
<1>1. CASE Demote
  BY <1>1, DemoteKeeps DEF Demote, Inv, TypeOK, counters, history
<1>2. CASE Purge
  <2>1. {p \in Cached(inv) : ~inv.devices[p].online /\ inv.devices[p].age = "old"}
            \in SUBSET Cached(inv)
    OBVIOUS
  <2>2. inv' \in Inventories /\ Indexed(inv')
    BY <1>2, <2>1, RemovedKeeps DEF Purge, PurgeOffline, Inv, TypeOK
  <2> QED
    BY <1>2, <2>2 DEF Purge, Inv, TypeOK, counters, history
<1>3. CASE \E p \in PDIDs : Age(p)
  <2>1. PICK p \in PDIDs : Age(p)
    BY <1>3
  <2>2. inv' \in Inventories /\ Indexed(inv')
    BY <2>1, AgeKeeps
  <2>3. heard' \subseteq PDIDs
    BY <2>1 DEF Age, Inv, TypeOK, history
  <2> QED
    BY <2>1, <2>2, <2>3 DEF Age, Inv, TypeOK, counters, history
<1> QED
  BY <1>1, <1>2, <1>3

LEMMA DeferredKeeps ==
    ASSUME Inv, DeferredWrite \/ \E p \in PDIDs : DeferredTake(p)
    PROVE  Inv'
<1>1. CASE DeferredWrite
  <2>1. promoter.device \in PDIDs /\ promoter.clone \in Records
    BY <1>1, Types DEF DeferredWrite, Inv
  <2>2. [promoter.clone EXCEPT !.online = TRUE, !.waiting = FALSE] \in Records
    BY <2>1 DEF Records
  <2>3. inv' \in Inventories /\ Indexed(inv')
    BY <1>1, <2>1, <2>2, UpsertKeeps DEF DeferredWrite, Inv, TypeOK
  <2>4. overwritten' \subseteq PDIDs
    BY <1>1, <2>1, OvertakenType DEF DeferredWrite, Inv, TypeOK
  <2> QED
    BY <1>1, <2>3, <2>4 DEF DeferredWrite, Inv, TypeOK, counters
<1>2. CASE \E p \in PDIDs : DeferredTake(p)
  <2>1. PICK p \in PDIDs : DeferredTake(p)
    BY <1>2
  <2>2. Due(p) \in {Idle} \cup Holding
    BY CacheFields DEF Due, Holding, Inv, TypeOK
  <2> QED
    BY <2>1, <2>2 DEF DeferredTake, Inv, TypeOK, counters, history
<1> QED
  BY <1>1, <1>2

LEMMA AdministratorKeeps ==
    ASSUME Inv, NEW m \in Bindable, NEW p \in PDIDs, Bind(m, p) \/ Revoke(m, p)
    PROVE  Inv'
<1>1. bound' \in [MACs -> SUBSET PDIDs]
  BY DEF Bind, Revoke, Inv, TypeOK
<1>2. bindings' \in 0 .. MaxBindings
  BY BoundsAssumption DEF Bind, Revoke, Inv, TypeOK, counters
<1> QED
  BY <1>1, <1>2 DEF Bind, Revoke, Inv, TypeOK, counters, history

LEMMA RestartKeeps ==
    ASSUME Inv, Restart
    PROVE  Inv'
<1>1. inv' \in Inventories /\ Indexed(inv')
  BY HydrateKeeps DEF Restart
<1>2. restarts' \in 0 .. MaxRestarts
  BY BoundsAssumption DEF Restart, Inv, TypeOK
<1>3. consumer' \in [Consumers -> {Idle} \cup Found \cup New \cup Persisting \cup Marking]
  BY DEF Restart
<1> QED
  BY <1>1, <1>2, <1>3 DEF Restart, NoBatch, Inv, TypeOK

LEMMA NextInv == Inv /\ [Next]_vars => Inv'
<1> SUFFICES ASSUME Inv, [Next]_vars PROVE Inv'
  OBVIOUS
<1>1. CASE \E c \in Consumers, o \in Observations : Observe(c, o)
  BY <1>1, ObserveKeeps
<1>2. CASE \E c \in Consumers : Step(c)
  BY <1>2, WriteKeeps, CreateKeeps, PersistKeeps DEF Step
<1>3. CASE FlushTake \/ FlushSave \/ FlushFails
  BY <1>3, FlushKeeps
<1>4. CASE Demote \/ Purge \/ \E p \in PDIDs : Age(p)
  BY <1>4, SweepKeeps
<1>5. CASE DeferredWrite \/ \E p \in PDIDs : DeferredTake(p)
  BY <1>5, DeferredKeeps
<1>6. CASE \E m \in Bindable, p \in PDIDs : Bind(m, p) \/ Revoke(m, p)
  BY <1>6, AdministratorKeeps
<1>7. CASE Restart
  BY <1>7, RestartKeeps
<1>8. CASE UNCHANGED vars
  BY <1>8 DEF vars, counters, history, Inv, TypeOK, Indexed, Cached
<1> QED
  BY <1>1, <1>2, <1>3, <1>4, <1>5, <1>6, <1>7, <1>8 DEF Next

-----------------------------------------------------------------------------
(* What the actions do to records                                          *)

\* Nothing that r does not have already brings s online, at once or later.
Quiet(s, r) == s.online \/ s.waiting => r.online \/ r.waiting

LEMMA KeyingIsQuiet ==
    /\ \A r \in Records, mac \in OrNone(MACs) : Quiet(AddMAC(r, mac), r)
    /\ \A r \in Records, ip \in OrNone(IPs) : Quiet(AddIP(r, ip), r)
    /\ \A r \in Records, host \in OrNone(Hosts) : Named(r, host) \in Records /\ Quiet(Named(r, host), r)
<1>1. \A r \in Records, mac \in OrNone(MACs) : Quiet(AddMAC(r, mac), r)
  BY DEF AddMAC, Records, Quiet
<1>2. \A r \in Records, ip \in OrNone(IPs) : Quiet(AddIP(r, ip), r)
  BY DEF AddIP, Records, Quiet
<1>3. \A r \in Records, host \in OrNone(Hosts) : Named(r, host) \in Records /\ Quiet(Named(r, host), r)
  BY DEF Named, Records, Quiet
<1> QED
  BY <1>1, <1>2, <1>3

\* Only what is heard brings a record online.
LEMMA SensedIsHeard ==
    ASSUME NEW o, NEW r, NEW p
    PROVE  Sensed(o, r) = r \/ p \in Heard(o, p)
BY DEF Sensed, Positive, Heard

LEMMA HeardGrows ==
    ASSUME NEW o, NEW p
    PROVE  heard \subseteq Heard(o, p)
BY DEF Heard

LEMMA UpdatedIsHeard ==
    ASSUME NEW o \in Observations, NEW r \in Records, NEW host \in OrNone(Hosts), NEW p
    PROVE  Quiet(Updated(o, r, host), r) \/ p \in Heard(o, p)
<1> DEFINE keyed == AddMAC(r, o.mac)
           sensed == Sensed(o, keyed)
           named == Named(sensed, host)
           addressed == Addressed(o, named)
<1>1. o.mac \in OrNone(MACs) /\ o.ip \in OrNone(IPs)
  BY DEF Observations
<1>2. keyed \in Records /\ Quiet(keyed, r)
  BY <1>1, AddMACType, KeyingIsQuiet
<1>3. sensed \in Records /\ (sensed = keyed \/ p \in Heard(o, p))
  <2> HIDE DEF keyed
  <2> QED
    BY <1>2, SensedType, SensedIsHeard
<1> HIDE DEF keyed
<1>4. named \in Records /\ Quiet(named, sensed)
  <2> HIDE DEF sensed
  <2> QED
    BY <1>3, KeyingIsQuiet
<1> HIDE DEF sensed
<1>5. addressed \in Records /\ Quiet(addressed, named)
  <2>1. CASE UpdatesIP(o)
    <3> HIDE DEF named
    <3> QED
      BY <1>1, <1>4, <2>1, AddIPType, KeyingIsQuiet DEF Addressed
  <2>2. CASE ~UpdatesIP(o)
    BY <1>4, <2>2 DEF Addressed, Quiet
  <2> QED
    BY <2>1, <2>2
<1> HIDE DEF named
<1>6. Updated(o, r, host) = [addressed EXCEPT !.age = "now"]
  BY DEF Updated, addressed, named, sensed, keyed
<1> HIDE DEF addressed
<1>7. Quiet([addressed EXCEPT !.age = "now"], addressed)
  BY <1>5 DEF Records, Quiet
<1> QED
  BY <1>2, <1>3, <1>4, <1>5, <1>6, <1>7 DEF Quiet

LEMMA PromoteIsQuiet ==
    ASSUME NEW o \in Observations, NEW r \in Records, NEW host \in OrNone(Hosts)
    PROVE  Quiet(Promote(r, o, host), r)
<1>1. AddMAC(r, o.mac) \in Records /\ Quiet(AddMAC(r, o.mac), r)
  BY AddMACType, KeyingIsQuiet DEF Observations
<1>2. \A s \in Records : \A t : Quiet([s EXCEPT !.tier = t, !.host = host], s)
  BY DEF Records, Quiet
<1>3. Quiet(Promote(r, o, host), AddMAC(r, o.mac))
  BY <1>1, <1>2 DEF Promote
<1> QED
  BY <1>1, <1>3 DEF Quiet

\* A new record is online, or will be, only if it is heard.
LEMMA NewRecordIsHeard ==
    ASSUME NEW o \in Observations, NEW p
    PROVE  LET r == NewRecord(o) IN r.online \/ r.waiting => p \in Heard(o, p)
<1> DEFINE host == IF o.host # None /\ IsHostnameActivelyOwned(inv, o.host) THEN None ELSE o.host
           blank == [macs |-> {}, mac |-> None, ips |-> {}, ip |-> None, name |-> host,
                     host |-> host, tier |-> Tier(o.mac, host), infra |-> FALSE,
                     online |-> FALSE, waiting |-> FALSE, age |-> "now"]
           keyed == AddMAC(blank, o.mac)
           addressed == IF o.source = "pihole" THEN keyed ELSE AddIP(keyed, o.ip)
<1>1. host \in OrNone(Hosts) /\ Tier(o.mac, host) \in Tiers
  BY ObservationFields, TierType DEF OrNone
<1>2. blank \in Records /\ ~blank.online /\ ~blank.waiting
  <2> HIDE DEF host
  <2> QED
    BY <1>1 DEF Records, OrNone, Ages
<1> HIDE DEF blank
<1>3. keyed \in Records /\ Quiet(keyed, blank)
  BY <1>2, AddMACType, ObservationFields, KeyingIsQuiet
<1> HIDE DEF keyed
<1>4. addressed \in Records /\ Quiet(addressed, keyed)
  <2>1. CASE o.source = "pihole"
    BY <1>3, <2>1 DEF Quiet
  <2>2. CASE o.source # "pihole"
    BY <1>3, <2>2, AddIPType, ObservationFields, KeyingIsQuiet
  <2> QED
    BY <2>1, <2>2
<1> HIDE DEF addressed
<1>5. NewRecord(o) = Sensed(o, addressed)
  BY DEF NewRecord, addressed, keyed, blank
<1>6. ~addressed.online /\ ~addressed.waiting
  BY <1>2, <1>3, <1>4 DEF Quiet
<1> QED
  BY <1>5, <1>6, SensedIsHeard

\* The cache holds what it held, with one record replaced or added.
LEMMA ReplacedNow ==
    ASSUME Inv, NEW p \in PDIDs, NEW r \in Records,
           inv'.devices = [inv.devices EXCEPT ![p] = r]
    PROVE  /\ Cached(inv') = Cached(inv) \cup {p}
           /\ inv'.devices[p] = r
           /\ \A q \in Cached(inv') \ {p} :
                 q \in Cached(inv) /\ inv'.devices[q] = inv.devices[q]
<1>1. inv.devices \in [PDIDs -> Records \cup {Absent}] /\ r # Absent
  BY CacheFields, AbsentIsNoRecord DEF Inv, TypeOK
<1> QED
  BY <1>1 DEF Cached

\* The records that are left are as they were, or less of them online.
Softened(w, v) ==
    \A q \in Cached(w) :
        /\ q \in Cached(v)
        /\ Material(w.devices[q]) = Material(v.devices[q])
        /\ Quiet(w.devices[q], v.devices[q])

LEMMA OwnersSoften ==
    ASSUME NEW v \in Inventories, NEW h, NEW p
    PROVE  /\ AcquireHostname(v, h, p).devices = v.devices
           /\ ReleaseHostname(v, h, p).devices = v.devices
BY DEF AcquireHostname, ReleaseHostname, Inventories

LEMMA RemovedSoftens ==
    ASSUME NEW v \in Inventories, NEW gone
    PROVE  Softened(Removed(v, gone), v)
<1> DEFINE u == Removed(v, gone)
<1>1. Cached(u) = Cached(v) \ gone /\ \A p \in Cached(u) : u.devices[p] = v.devices[p]
  BY DEF Removed, Cached
<1> HIDE DEF u
<1>2. Softened(u, v)
  BY <1>1 DEF Softened, Quiet
<1> QED
  BY <1>2 DEF u

LEMMA DemoteSoftens ==
    ASSUME NEW v \in Inventories
    PROVE  Softened(DemoteStale(v), v)
<1> DEFINE w == DemoteStale(v)
<1>1. \A r \in Records : /\ Material([r EXCEPT !.online = FALSE]) = Material(r)
                          /\ Quiet([r EXCEPT !.online = FALSE], r)
  BY DEF Records, Material, Quiet
<1>2. \A r : Quiet(r, r)
  BY DEF Quiet
<1>3. w.devices = [p \in PDIDs |->
                      IF v.devices[p] # Absent /\ v.devices[p].age # "now"
                      THEN [v.devices[p] EXCEPT !.online = FALSE] ELSE v.devices[p]]
  BY DEF DemoteStale, Inventories
<1> HIDE DEF w
<1> SUFFICES ASSUME NEW q \in Cached(w)
             PROVE  /\ q \in Cached(v)
                    /\ Material(w.devices[q]) = Material(v.devices[q])
                    /\ Quiet(w.devices[q], v.devices[q])
  BY DEF Softened, w
<1>4. q \in PDIDs /\ w.devices[q] # Absent
  BY DEF Cached
<1>5. v.devices[q] # Absent
  BY <1>3, <1>4
<1>6. q \in Cached(v) /\ v.devices[q] \in Records
  BY <1>4, <1>5, CacheFields DEF Cached
<1> QED
  BY <1>1, <1>2, <1>3, <1>4, <1>6

LEMMA AgeSoftens ==
    ASSUME Inv, NEW p \in PDIDs, Age(p)
    PROVE  Softened(inv', inv)
<1> DEFINE older == IF inv.devices[p].age = "now" THEN "stale" ELSE "old"
           r == [inv.devices[p] EXCEPT !.age = older]
<1>1. inv \in Inventories /\ p \in Cached(inv) /\ inv.devices[p] \in Records
  BY CacheFields DEF Inv, TypeOK, Age
<1>2. r \in Records /\ Material(r) = Material(inv.devices[p]) /\ Quiet(r, inv.devices[p])
  BY <1>1 DEF Records, Ages, Material, Quiet
<1>3. inv'.devices = [inv.devices EXCEPT ![p] = r]
  BY <1>1 DEF Age, Inventories
<1> HIDE DEF r
<1> QED
  BY <1>1, <1>2, <1>3, ReplacedNow DEF Softened, Quiet

\* What writing a clone back leaves of the device: it is not brought online
\* unheard, and it is about to be marked if it is not what was read.
Written(c, new) ==
    /\ new \in Records
    /\ inv'.devices = [inv.devices EXCEPT ![consumer[c].device] = new]
    /\ Quiet(new, consumer[c].clone) \/ consumer[c].device \in heard'
    /\ \/ consumer' = [consumer EXCEPT ![c] = [at |-> "mark", device |-> consumer[c].device]]
       \/ /\ consumer' = [consumer EXCEPT ![c] = Idle]
          /\ Material(new) = Material(consumer[c].clone)

LEMMA WriteEffect ==
    ASSUME Inv, NEW c \in Consumers, Write(c)
    PROVE  \E new : Written(c, new)
<1> DEFINE o == consumer[c].obs
           p == consumer[c].device
           r == consumer[c].clone
           host == HostOf(o, p)
           promoted == CanPromote(r.tier, Tier(o.mac, host))
           new == IF promoted THEN Promote(r, o, host) ELSE Updated(o, r, host)
           cache == IF promoted THEN Claimed(o, p) ELSE Renamed(Claimed(o, p), p, r, host)
<1>1. o \in Observations /\ p \in PDIDs /\ r \in Records
  BY Types, ConsumerFields DEF Inv, Write
<1>2. /\ inv' = Upsert(cache, p, new)
      /\ consumer' = [consumer EXCEPT ![c] =
             IF promoted \/ Marks(r, new) THEN [at |-> "mark", device |-> p] ELSE Idle]
      /\ heard' = Heard(o, p)
  BY DEF Write
<1>3. host \in OrNone(Hosts)
  BY <1>1, HostType
<1>4. cache.devices = inv.devices
  <2> HIDE DEF o, p, r, host
  <2>1. inv \in Inventories /\ Indexed(inv)
    BY DEF Inv, TypeOK
  <2>2. /\ Claimed(o, p) \in Inventories /\ Indexed(Claimed(o, p))
        /\ Claimed(o, p).devices = inv.devices
    BY <1>1, <2>1, OwnersKeep, OwnersSoften DEF Claimed
  <2>3. ASSUME NEW v \in Inventories, Indexed(v)
        PROVE  Renamed(v, p, r, host).devices = v.devices
    <3>1. /\ ReleaseHostname(v, r.host, p) \in Inventories
          /\ ReleaseHostname(v, r.host, p).devices = v.devices
      BY <1>1, <2>3, OwnersKeep, OwnersSoften
    <3>2. AcquireHostname(ReleaseHostname(v, r.host, p), host, p).devices = v.devices
      BY <3>1, OwnersSoften
    <3> QED
      BY <3>2 DEF Renamed
  <2> QED
    BY <2>2, <2>3
<1> HIDE DEF o, p, r, host, cache
<1>5. new \in Records /\ (Quiet(new, r) \/ p \in Heard(o, p))
  BY <1>1, <1>3, PromoteType, UpdatedType, PromoteIsQuiet, UpdatedIsHeard
<1> HIDE DEF new
<1>6. inv'.devices = [inv.devices EXCEPT ![p] = new]
  BY <1>2, <1>4 DEF Upsert
<1>7. \/ consumer' = [consumer EXCEPT ![c] = [at |-> "mark", device |-> p]]
      \/ consumer' = [consumer EXCEPT ![c] = Idle] /\ Material(new) = Material(r)
  BY <1>2 DEF Marks
<1>8. Written(c, new)
  BY <1>2, <1>5, <1>6, <1>7 DEF Written, p, r
<1> QED
  BY <1>8

\* A new device is one that nothing names yet.
Created(c, p, r) ==
    /\ p \in PDIDs \ issued /\ r \in Records
    /\ inv'.devices = [inv.devices EXCEPT ![p] = r]
    /\ issued' = issued \cup {p}
    /\ r.online \/ r.waiting => p \in heard'
    /\ heard \subseteq heard'
    /\ consumer' = [consumer EXCEPT ![c] = [at |-> "persist", device |-> p, clone |-> r]]

LEMMA CreateEffect ==
    ASSUME Inv, NEW c \in Consumers, Create(c)
    PROVE  \E p, r : Created(c, p, r)
<1> DEFINE o == consumer[c].obs
           r == NewRecord(o)
<1>1. o \in Observations
  BY Types, ConsumerFields DEF Inv, Create
<1>2. r \in Records
  BY <1>1, NewRecordType
<1>3. PICK p \in PDIDs \ issued :
          LET cache == Upsert(inv, p, r)
          IN /\ inv' = IF r.host = None THEN cache ELSE AcquireHostname(cache, r.host, p)
             /\ issued' = issued \cup {p}
             /\ heard' = Heard(o, p)
             /\ consumer' = [consumer EXCEPT ![c] = [at |-> "persist", device |-> p, clone |-> r]]
  BY DEF Create
<1>4. r.online \/ r.waiting => p \in Heard(o, p)
  BY <1>1, NewRecordIsHeard
<1> HIDE DEF o, r
<1>5. Upsert(inv, p, r) \in Inventories
  BY <1>2, UpsertKeeps DEF Inv, TypeOK
<1>6. Upsert(inv, p, r).devices = [inv.devices EXCEPT ![p] = r]
  BY DEF Upsert
<1>7. inv'.devices = [inv.devices EXCEPT ![p] = r]
  BY <1>3, <1>5, <1>6, OwnersSoften
<1>8. Created(c, p, r)
  BY <1>2, <1>3, <1>4, <1>7, HeardGrows DEF Created
<1> QED
  BY <1>8

\* An address that goes over to another device is taken from one record, and
\* that one is marked.
Moved(p, r) ==
    /\ p \in Cached(inv) /\ r \in Records
    /\ inv'.devices = [inv.devices EXCEPT ![p] = r]
    /\ Quiet(r, inv.devices[p])
    /\ dirty' = dirty \cup {p}

LEMMA DisplaceEffect ==
    ASSUME Inv, NEW c \in Consumers, NEW o \in Observations, Observe(c, o), Displaces(o)
    PROVE  \E p, r : Moved(p, r)
<1> DEFINE p == inv.byIP[o.ip]
           rest == inv.devices[p].ips \ {o.ip}
<1>1. inv \in Inventories /\ Indexed(inv)
  BY DEF Inv, TypeOK
<1>2. o.ip \in IPs /\ p # None
  BY ObservationFields DEF Displaces, OrNone
<1>3. p \in Cached(inv) /\ inv.devices[p] \in Records
  BY <1>1, <1>2, CacheFields DEF Indexed
<1>4. inv' \in RemoveIPIndex(inv, o.ip) /\ dirty' = dirty \cup {p}
  BY DEF Observe
<1>5. PICK other \in IF rest = {} THEN {None} ELSE rest :
          inv' = [inv EXCEPT !.devices[p] = [@ EXCEPT !.ips = rest, !.ip = other],
                             !.byIP[o.ip] = None]
  BY <1>4 DEF RemoveIPIndex
<1>6. other \in OrNone(IPs) /\ rest \subseteq IPs
  BY <1>3, RecordFields DEF OrNone
<1> DEFINE r == [inv.devices[p] EXCEPT !.ips = rest, !.ip = other]
<1>7. r \in Records /\ Quiet(r, inv.devices[p])
  <2> HIDE DEF p, rest
  <2> QED
    BY <1>3, <1>6 DEF Records, Quiet
<1>8. inv'.devices = [inv.devices EXCEPT ![p] = r]
  BY <1>1, <1>5 DEF Inventories
<1> HIDE DEF r
<1>9. Moved(p, r)
  BY <1>3, <1>4, <1>7, <1>8 DEF Moved
<1> QED
  BY <1>9

\* What a restart loads is what was stored, with nothing online.
LEMMA HydrateEffect ==
    ASSUME Inv, Hydrate
    PROVE  /\ Cached(inv') = {p \in PDIDs : rows[p] # Absent}
           /\ \A p \in Cached(inv') : /\ Material(inv'.devices[p]) = rows[p]
                                      /\ ~inv'.devices[p].online /\ ~inv'.devices[p].waiting
<1> DEFINE saved == {p \in PDIDs : rows[p] # Absent}
           d == [p \in PDIDs |-> IF p \in saved THEN Hydrated(rows[p]) ELSE Absent]
<1>1. inv'.devices = d
  BY DEF Hydrate
<1>2. \A row \in Rows : /\ Hydrated(row) \in Records /\ Material(Hydrated(row)) = row
                        /\ ~Hydrated(row).online /\ ~Hydrated(row).waiting
  BY HydratedType DEF Hydrated, Material, Rows
<1>3. \A p \in saved : rows[p] \in Rows
  BY DEF Inv, TypeOK
<1>4. \A p \in PDIDs : inv'.devices[p] = IF p \in saved THEN Hydrated(rows[p]) ELSE Absent
  BY <1>1
<1> HIDE DEF d
<1>5. Cached(inv') = saved
  BY <1>2, <1>3, <1>4, AbsentIsNoRecord DEF Cached
<1> QED
  BY <1>2, <1>3, <1>4, <1>5

-----------------------------------------------------------------------------
(* Evidence                                                                *)

LEMMA SameIsSoft ==
    ASSUME inv' = inv
    PROVE  Softened(inv', inv)
BY DEF Softened, Quiet, Cached

\* Steps that hear nobody, read no record and bring none online.
LEMMA SoftEvidence ==
    ASSUME Evidence, Softened(inv', inv), heard' = heard, promoter' = promoter,
           \A c \in Consumers : consumer'[c] = consumer[c] \/ consumer'[c].at # "found"
    PROVE  Evidence'
BY DEF Evidence, Evident, Softened, Quiet

\* Steps that replace one record.
LEMMA ReplacedEvidence ==
    ASSUME Inv, Evidence, NEW p \in PDIDs, NEW r \in Records,
           inv'.devices = [inv.devices EXCEPT ![p] = r],
           r.online \/ r.waiting => p \in heard', heard \subseteq heard',
           promoter' = promoter \/ promoter'.at # "write",
           \A c \in Consumers :
              \/ consumer'[c] = consumer[c]
              \/ consumer'[c].at = "found" => Evident(consumer'[c].clone, consumer'[c].device)
    PROVE  Evidence'
<1>1. /\ Cached(inv') = Cached(inv) \cup {p}
      /\ inv'.devices[p] = r
      /\ \A q \in Cached(inv') \ {p} : q \in Cached(inv) /\ inv'.devices[q] = inv.devices[q]
  BY ReplacedNow
<1>2. ASSUME NEW q \in Cached(inv')
      PROVE  inv'.devices[q].online \/ inv'.devices[q].waiting => q \in heard'
  BY <1>1, <1>2 DEF Evidence, Evident
<1>3. ASSUME NEW c \in Consumers, consumer'[c].at = "found"
      PROVE  consumer'[c].clone.online \/ consumer'[c].clone.waiting
                 => consumer'[c].device \in heard'
  BY <1>3 DEF Evidence, Evident
<1>4. promoter'.at = "write" => promoter'.device \in heard'
  BY DEF Evidence
<1> QED
  BY <1>2, <1>3, <1>4 DEF Evidence, Evident

LEMMA ObserveEvidence ==
    ASSUME Inv, Evidence, NEW c \in Consumers, NEW o \in Observations, Observe(c, o)
    PROVE  Evidence'
<1>1. /\ heard' = heard /\ promoter' = promoter
      /\ consumer' = [consumer EXCEPT ![c] =
             IF Lookup(o) = None THEN [at |-> "new", obs |-> o]
             ELSE [at |-> "found", obs |-> o, device |-> Lookup(o),
                   clone |-> inv.devices[Lookup(o)]]]
  BY DEF Observe, history
<1>2. consumer \in [Consumers -> ConsumerStates]
  BY Types DEF Inv
<1>3. ASSUME consumer'[c].at = "found"
      PROVE  Evident(consumer'[c].clone, consumer'[c].device)
  <2>1. Lookup(o) # None
    BY <1>1, <1>2, <1>3
  <2>2. consumer'[c].device = Lookup(o) /\ consumer'[c].clone = inv.devices[Lookup(o)]
    BY <1>1, <1>2, <2>1
  <2>3. Lookup(o) \in Cached(inv)
    BY <2>1, LookupFinds, AbsentIsNoRecord DEF Cached
  <2> QED
    BY <2>2, <2>3 DEF Evidence
<1>4. \A d \in Consumers : d # c => consumer'[d] = consumer[d]
  BY <1>1, <1>2
<1>5. CASE Displaces(o)
  <2>1. PICK p, r : Moved(p, r)
    BY <1>5, DisplaceEffect
  <2>2. p \in Cached(inv) /\ r \in Records /\ inv'.devices = [inv.devices EXCEPT ![p] = r]
    BY <2>1 DEF Moved
  <2>3. r.online \/ r.waiting => p \in heard'
    BY <1>1, <2>1, <2>2 DEF Moved, Quiet, Evidence, Evident
  <2>4. p \in PDIDs
    BY <2>2 DEF Cached
  <2> QED
    BY <1>1, <1>3, <1>4, <2>2, <2>3, <2>4, ReplacedEvidence
<1>6. CASE ~Displaces(o)
  <2>1. inv' = inv
    BY <1>6 DEF Observe
  <2> QED
    BY <1>1, <1>3, <1>4, <2>1 DEF Evidence, Evident, Cached
<1> QED
  BY <1>5, <1>6

LEMMA WriteEvidence ==
    ASSUME Inv, Evidence, NEW c \in Consumers, Write(c)
    PROVE  Evidence'
<1> DEFINE p == consumer[c].device
<1>1. PICK new : Written(c, new)
  BY WriteEffect
<1>2. p \in PDIDs /\ consumer[c].at = "found"
  BY Types, ConsumerFields DEF Inv, Write
<1>3. heard \subseteq heard' /\ promoter' = promoter
  BY HeardGrows DEF Write
<1>4. new.online \/ new.waiting => p \in heard'
  BY <1>1, <1>2, <1>3 DEF Written, Quiet, Evidence, Evident
<1>5. consumer \in [Consumers -> ConsumerStates]
  BY Types DEF Inv
<1>6. \A d \in Consumers : consumer'[d] = consumer[d] \/ consumer'[d].at # "found"
  BY <1>1, <1>5 DEF Written, Idle
<1> QED
  BY <1>1, <1>2, <1>3, <1>4, <1>6, ReplacedEvidence DEF Written

LEMMA CreateEvidence ==
    ASSUME Inv, Evidence, NEW c \in Consumers, Create(c)
    PROVE  Evidence'
<1>1. PICK p, r : Created(c, p, r)
  BY CreateEffect
<1>2. promoter' = promoter
  BY DEF Create
<1>3. consumer \in [Consumers -> ConsumerStates]
  BY Types DEF Inv
<1>4. \A d \in Consumers : consumer'[d] = consumer[d] \/ consumer'[d].at # "found"
  BY <1>1, <1>3 DEF Created
<1> QED
  BY <1>1, <1>2, <1>4, ReplacedEvidence DEF Created

LEMMA DeferredEvidence ==
    ASSUME Inv, Evidence, DeferredWrite \/ \E p \in PDIDs : DeferredTake(p)
    PROVE  Evidence'
<1>1. CASE DeferredWrite
  <2> DEFINE p == promoter.device
             r == [promoter.clone EXCEPT !.online = TRUE, !.waiting = FALSE]
  <2>1. p \in PDIDs /\ promoter.clone \in Records /\ p \in heard
    BY <1>1, Types DEF DeferredWrite, Inv, Evidence
  <2>2. r \in Records
    BY <2>1 DEF Records
  <2>3. inv'.devices = [inv.devices EXCEPT ![p] = r]
    BY <1>1 DEF DeferredWrite, Upsert
  <2>4. heard' = heard /\ promoter' = Idle /\ consumer' = consumer
    BY <1>1 DEF DeferredWrite
  <2>5. promoter'.at # "write"
    BY <2>4 DEF Idle
  <2> HIDE DEF r
  <2> QED
    BY <2>1, <2>2, <2>3, <2>4, <2>5, ReplacedEvidence
<1>2. CASE \E p \in PDIDs : DeferredTake(p)
  <2>1. PICK p \in PDIDs : DeferredTake(p)
    BY <1>2
  <2>2. promoter' = Due(p) /\ inv' = inv /\ consumer' = consumer /\ heard' = heard
    BY <2>1 DEF DeferredTake, history
  <2>3. Due(p).at = "write" => Due(p).device \in heard
    BY DEF Due, Idle, Evidence, Evident
  <2> QED
    BY <2>2, <2>3 DEF Evidence, Evident, Cached
<1> QED
  BY <1>1, <1>2

LEMMA RestartEvidence ==
    ASSUME Inv, Restart
    PROVE  Evidence'
<1>1. \A p \in Cached(inv') : ~inv'.devices[p].online /\ ~inv'.devices[p].waiting
  BY HydrateEffect DEF Restart
<1>2. \A c \in Consumers : consumer'[c].at # "found"
  BY DEF Restart, Idle
<1>3. promoter'.at # "write"
  BY DEF Restart, Idle
<1> QED
  BY <1>1, <1>2, <1>3 DEF Evidence, Evident

LEMMA NextEvidence == Inv /\ Evidence /\ [Next]_vars => Evidence'
<1> SUFFICES ASSUME Inv, Evidence, [Next]_vars PROVE Evidence'
  OBVIOUS
<1>1. consumer \in [Consumers -> ConsumerStates] /\ inv \in Inventories
  BY Types DEF Inv, TypeOK
<1>2. CASE \E c \in Consumers, o \in Observations : Observe(c, o)
  BY <1>2, ObserveEvidence
<1>3. ASSUME NEW c \in Consumers, Step(c)
      PROVE  Evidence'
  <2>1. CASE Write(c)
    BY <2>1, WriteEvidence
  <2>2. CASE Create(c)
    BY <2>2, CreateEvidence
  <2>3. CASE Mark(c) \/ Persist(c) \/ PersistFails(c)
    <3>1. heard' = heard /\ promoter' = promoter /\ consumer' = [consumer EXCEPT ![c] = Idle]
      BY <2>3 DEF Mark, Persist, PersistFails, history
    <3>2. \A d \in Consumers : consumer'[d] = consumer[d] \/ consumer'[d].at # "found"
      BY <1>1, <3>1 DEF Idle
    <3>3. Softened(inv', inv)
      BY <1>1, <2>3, SameIsSoft, RemovedSoftens DEF Mark, Persist, PersistFails, Delete
    <3> QED
      BY <3>1, <3>2, <3>3, SoftEvidence
  <2> QED
    BY <1>3, <2>1, <2>2, <2>3 DEF Step
<1>4. CASE FlushTake \/ FlushSave \/ FlushFails
  <2>1. inv' = inv /\ heard' = heard /\ promoter' = promoter /\ consumer' = consumer
    BY <1>4 DEF FlushTake, FlushSave, FlushFails, history
  <2> QED
    BY <2>1, SameIsSoft, SoftEvidence
<1>5. CASE Demote \/ Purge \/ \E p \in PDIDs : Age(p)
  <2>1. heard' = heard /\ promoter' = promoter /\ consumer' = consumer
    BY <1>5 DEF Demote, Purge, Age, history
  <2>2. Softened(inv', inv)
    BY <1>1, <1>5, DemoteSoftens, RemovedSoftens, AgeSoftens DEF Demote, Purge, PurgeOffline
  <2> QED
    BY <2>1, <2>2, SoftEvidence
<1>6. CASE DeferredWrite \/ \E p \in PDIDs : DeferredTake(p)
  BY <1>6, DeferredEvidence
<1>7. CASE \E m \in Bindable, p \in PDIDs : Bind(m, p) \/ Revoke(m, p)
  <2>1. inv' = inv /\ heard' = heard /\ promoter' = promoter /\ consumer' = consumer
    BY <1>7 DEF Bind, Revoke, history
  <2> QED
    BY <2>1, SameIsSoft, SoftEvidence
<1>8. CASE Restart
  BY <1>8, RestartEvidence
<1>9. CASE UNCHANGED vars
  <2>1. inv' = inv /\ heard' = heard /\ promoter' = promoter /\ consumer' = consumer
    BY <1>9 DEF vars, history
  <2> QED
    BY <2>1, SameIsSoft, SoftEvidence
<1> QED
  BY <1>2, <1>3, <1>4, <1>5, <1>6, <1>7, <1>8, <1>9 DEF Next

-----------------------------------------------------------------------------
(* Identities                                                              *)

\* Steps that name no device that was not named before.
LEMMA SoftKnown ==
    ASSUME Known, Cached(inv') \subseteq issued, issued \subseteq issued',
           DOMAIN batch' \subseteq issued,
           \A p \in PDIDs : rows'[p] # Absent => p \in issued,
           promoter'.at = "write" => promoter'.device \in issued,
           \A c \in Consumers :
              \/ consumer'[c] = consumer[c]
              \/ consumer'[c].at \in {"found", "persist"} => consumer'[c].device \in issued'
    PROVE  Known'
<1>1. \A c \in Consumers :
          consumer'[c].at \in {"found", "persist"} => consumer'[c].device \in issued'
  BY DEF Known
<1> QED
  BY <1>1 DEF Known

LEMMA StepKnown ==
    ASSUME Inv, Known, NEW c \in Consumers,
           (\E o \in Observations : Observe(c, o)) \/ Step(c)
    PROVE  Known'
<1>1. consumer \in [Consumers -> ConsumerStates] /\ inv \in Inventories
  BY Types DEF Inv, TypeOK
<1>2. CASE \E o \in Observations : Observe(c, o)
  <2>1. PICK o \in Observations : Observe(c, o)
    BY <1>2
  <2>2. /\ UNCHANGED <<issued, batch, rows, promoter>>
        /\ consumer' = [consumer EXCEPT ![c] =
               IF Lookup(o) = None THEN [at |-> "new", obs |-> o]
               ELSE [at |-> "found", obs |-> o, device |-> Lookup(o),
                     clone |-> inv.devices[Lookup(o)]]]
    BY <2>1 DEF Observe
  <2>3. ASSUME consumer'[c].at \in {"found", "persist"}
        PROVE  consumer'[c].device \in issued'
    <3>1. Lookup(o) # None /\ consumer'[c].device = Lookup(o)
      BY <1>1, <2>2, <2>3
    <3>2. Lookup(o) \in Cached(inv)
      BY <3>1, LookupFinds, AbsentIsNoRecord DEF Cached
    <3> QED
      BY <2>2, <3>1, <3>2 DEF Known
  <2>4. \A d \in Consumers : d # c => consumer'[d] = consumer[d]
    BY <1>1, <2>2
  <2>5. Cached(inv') \subseteq issued
    <3>1. CASE Displaces(o)
      <4>1. PICK p, r : Moved(p, r)
        BY <2>1, <3>1, DisplaceEffect
      <4>2. p \in PDIDs /\ p \in Cached(inv) /\ r \in Records
            /\ inv'.devices = [inv.devices EXCEPT ![p] = r]
        BY <4>1 DEF Moved, Cached
      <4> QED
        BY <4>2, ReplacedNow DEF Known
    <3>2. CASE ~Displaces(o)
      BY <2>1, <3>2 DEF Observe, Known, Cached
    <3> QED
      BY <3>1, <3>2
  <2> QED
    BY <2>2, <2>3, <2>4, <2>5, SoftKnown DEF Known
<1>3. CASE Write(c)
  <2>1. PICK new : Written(c, new)
    BY <1>3, WriteEffect
  <2>2. consumer[c].device \in PDIDs /\ consumer[c].device \in issued
    BY <1>3, Types, ConsumerFields DEF Inv, Write, Known
  <2>3. UNCHANGED <<issued, batch, rows, promoter>>
    BY <1>3 DEF Write
  <2>4. Cached(inv') \subseteq issued
    BY <2>1, <2>2, ReplacedNow DEF Written, Known
  <2>5. \A d \in Consumers :
            consumer'[d] = consumer[d] \/ consumer'[d].at \notin {"found", "persist"}
    BY <1>1, <2>1 DEF Written, Idle
  <2> QED
    BY <2>3, <2>4, <2>5, SoftKnown DEF Known
<1>4. CASE Create(c)
  <2>1. PICK p, r : Created(c, p, r)
    BY <1>4, CreateEffect
  <2>2. p \in PDIDs /\ r \in Records /\ issued' = issued \cup {p}
        /\ inv'.devices = [inv.devices EXCEPT ![p] = r]
    BY <2>1 DEF Created
  <2>3. UNCHANGED <<batch, rows, promoter>>
    BY <1>4 DEF Create
  <2>4. Cached(inv') \subseteq issued'
    BY <2>2, ReplacedNow DEF Known
  <2>5. \A d \in Consumers :
            consumer'[d].at \in {"found", "persist"} => consumer'[d].device \in issued'
    BY <1>1, <2>1, <2>2 DEF Created, Known
  <2> QED
    BY <2>2, <2>3, <2>4, <2>5 DEF Known
<1>5. CASE Mark(c) \/ Persist(c) \/ PersistFails(c)
  <2>1. UNCHANGED <<issued, batch, promoter>> /\ consumer' = [consumer EXCEPT ![c] = Idle]
    BY <1>5 DEF Mark, Persist, PersistFails
  <2>2. \A d \in Consumers :
            consumer'[d] = consumer[d] \/ consumer'[d].at \notin {"found", "persist"}
    BY <1>1, <2>1 DEF Idle
  <2>3. Softened(inv', inv)
    BY <1>1, <1>5, SameIsSoft, RemovedSoftens DEF Mark, Persist, PersistFails, Delete
  <2>4. Cached(inv') \subseteq issued
    BY <2>3 DEF Softened, Known
  <2>5. \A p \in PDIDs : rows'[p] # Absent => p \in issued
    <3>1. CASE Persist(c)
      <4>1. consumer[c].device \in issued
        BY <3>1 DEF Persist, Known
      <4> QED
        BY <3>1, <4>1 DEF Persist, Known, Inv, TypeOK
    <3>2. CASE Mark(c) \/ PersistFails(c)
      BY <3>2 DEF Mark, PersistFails, Known
    <3> QED
      BY <1>5, <3>1, <3>2
  <2> QED
    BY <2>1, <2>2, <2>4, <2>5, SoftKnown DEF Known
<1> QED
  BY <1>2, <1>3, <1>4, <1>5 DEF Step

LEMMA NextKnown == Inv /\ Known /\ [Next]_vars => Known'
<1> SUFFICES ASSUME Inv, Known, [Next]_vars PROVE Known'
  OBVIOUS
<1>1. inv \in Inventories
  BY DEF Inv, TypeOK
<1>2. CASE \E c \in Consumers : (\E o \in Observations : Observe(c, o)) \/ Step(c)
  BY <1>2, StepKnown
<1>3. CASE FlushTake \/ FlushSave \/ FlushFails
  <2>1. UNCHANGED <<inv, issued, consumer, promoter>>
    BY <1>3 DEF FlushTake, FlushSave, FlushFails
  <2>2. DOMAIN batch' \subseteq issued
    BY <1>3 DEF FlushTake, FlushSave, FlushFails, NoBatch, Known
  <2>3. \A p \in PDIDs : rows'[p] # Absent => p \in issued
    BY <1>3 DEF FlushTake, FlushSave, FlushFails, Known
  <2> QED
    BY <2>1, <2>2, <2>3 DEF Known, Cached
<1>4. CASE Demote \/ Purge \/ \E p \in PDIDs : Age(p)
  <2>1. UNCHANGED <<rows, batch, issued, consumer, promoter>>
    BY <1>4 DEF Demote, Purge, Age
  <2>2. Softened(inv', inv)
    BY <1>1, <1>4, DemoteSoftens, RemovedSoftens, AgeSoftens DEF Demote, Purge, PurgeOffline
  <2>3. Cached(inv') \subseteq issued
    BY <2>2 DEF Softened, Known
  <2> QED
    BY <2>1, <2>3 DEF Known
<1>5. CASE DeferredWrite
  <2> DEFINE p == promoter.device
             r == [promoter.clone EXCEPT !.online = TRUE, !.waiting = FALSE]
  <2>1. p \in PDIDs /\ promoter.clone \in Records /\ p \in issued
    BY <1>5, Types DEF DeferredWrite, Inv, Known
  <2>2. r \in Records
    BY <2>1 DEF Records
  <2>3. inv'.devices = [inv.devices EXCEPT ![p] = r]
    BY <1>5 DEF DeferredWrite, Upsert
  <2>4. UNCHANGED <<rows, batch, issued, consumer>> /\ promoter'.at # "write"
    BY <1>5 DEF DeferredWrite, Idle
  <2> HIDE DEF r
  <2>5. Cached(inv') \subseteq issued
    BY <2>1, <2>2, <2>3, ReplacedNow DEF Known
  <2> QED
    BY <2>4, <2>5 DEF Known
<1>6. CASE \E p \in PDIDs : DeferredTake(p)
  <2>1. PICK p \in PDIDs : DeferredTake(p)
    BY <1>6
  <2>2. UNCHANGED <<inv, rows, batch, issued, consumer>> /\ promoter' = Due(p)
    BY <2>1 DEF DeferredTake
  <2>3. Due(p).at = "write" => Due(p).device \in issued
    BY DEF Due, Idle, Known
  <2> QED
    BY <2>2, <2>3 DEF Known, Cached
<1>7. CASE \E m \in Bindable, p \in PDIDs : Bind(m, p) \/ Revoke(m, p)
  BY <1>7 DEF Bind, Revoke, Known, Cached
<1>8. CASE Restart
  <2>1. Cached(inv') \subseteq issued
    BY <1>8, HydrateEffect DEF Restart, Known
  <2>2. UNCHANGED <<rows, issued>> /\ DOMAIN batch' = {}
    BY <1>8 DEF Restart, NoBatch
  <2>3. promoter'.at # "write" /\ \A c \in Consumers : consumer'[c].at = "idle"
    BY <1>8 DEF Restart, Idle
  <2> QED
    BY <2>1, <2>2, <2>3 DEF Known
<1>9. CASE UNCHANGED vars
  BY <1>9 DEF vars, Known, Cached
<1> QED
  BY <1>2, <1>3, <1>4, <1>5, <1>6, <1>7, <1>8, <1>9 DEF Next

-----------------------------------------------------------------------------
(* Storage                                                                 *)

\* What keeps a record from being compared with its row, and with the batch.
Excused == dirty \cup ToMark \cup overwritten
ToPersist ==
    {p \in PDIDs : \E c \in Consumers : consumer[c].at = "persist" /\ consumer[c].device = p}

LEMMA StoredMeans ==
    Stored <=>
        \A p \in Cached(inv) \ Excused :
            /\ p \in DOMAIN batch => batch[p] = Material(inv.devices[p])
            /\ p \notin DOMAIN batch \cup ToPersist => rows[p] = Material(inv.devices[p])
<1>1. \A p \in PDIDs : p \in InFlight <=> p \in DOMAIN batch \cup ToPersist \cup ToMark
  BY DEF InFlight, ToPersist, ToMark
<1>2. \A p \in Cached(inv) : p \in PDIDs
  BY DEF Cached
<1> QED
  BY <1>1, <1>2 DEF Stored, BatchCurrent, ChangesReachStorage, Excused

LEMMA StoredMeansNext ==
    Stored' <=>
        \A p \in Cached(inv') \ Excused' :
            /\ p \in DOMAIN batch' => batch'[p] = Material(inv'.devices[p])
            /\ p \notin DOMAIN batch' \cup ToPersist' => rows'[p] = Material(inv'.devices[p])
<1>1. \A p \in PDIDs : p \in InFlight' <=> p \in DOMAIN batch' \cup ToPersist' \cup ToMark'
  BY DEF InFlight, ToPersist, ToMark
<1>2. \A p \in Cached(inv') : p \in PDIDs
  BY DEF Cached
<1> QED
  BY <1>1, <1>2 DEF Stored, BatchCurrent, ChangesReachStorage, Excused

\* Steps that save nothing, and excuse every record they change.
LEMMA SoftStored ==
    ASSUME Stored, rows' = rows, batch' = batch, Excused \subseteq Excused',
           ToPersist \cap Cached(inv') \subseteq ToPersist' \cup Excused',
           \A p \in Cached(inv') \ Excused' :
              p \in Cached(inv) /\ Material(inv'.devices[p]) = Material(inv.devices[p])
    PROVE  Stored'
<1> SUFFICES ASSUME NEW p \in Cached(inv') \ Excused'
             PROVE  /\ p \in DOMAIN batch => batch[p] = Material(inv'.devices[p])
                    /\ p \notin DOMAIN batch \cup ToPersist' => rows[p] = Material(inv'.devices[p])
  BY StoredMeansNext
<1>1. p \in Cached(inv) \ Excused /\ Material(inv'.devices[p]) = Material(inv.devices[p])
  OBVIOUS
<1>2. p \in ToPersist => p \in ToPersist'
  OBVIOUS
<1> QED
  BY <1>1, <1>2, StoredMeans

\* Which devices a step of a goroutine takes from the marks and the new ones,
\* and which it adds.
Regrouped(c, s) ==
    /\ \A p \in ToMark : p \in ToMark' \/ (consumer[c].at = "mark" /\ consumer[c].device = p)
    /\ \A p \in ToPersist :
          p \in ToPersist' \/ (consumer[c].at = "persist" /\ consumer[c].device = p)
    /\ s.at = "mark" /\ s.device \in PDIDs => s.device \in ToMark'
    /\ s.at = "persist" /\ s.device \in PDIDs => s.device \in ToPersist'

LEMMA StepGroups ==
    ASSUME Inv, NEW c \in Consumers, NEW s,
           consumer' = [consumer EXCEPT ![c] = s]
    PROVE  Regrouped(c, s)
<1>1. consumer \in [Consumers -> ConsumerStates]
  BY Types DEF Inv
<1>2. consumer'[c] = s
  BY <1>1
<1>3. \A d \in Consumers : d # c => consumer'[d] = consumer[d]
  BY <1>1
<1>4. ASSUME NEW p \in ToMark, ~(consumer[c].at = "mark" /\ consumer[c].device = p)
      PROVE  p \in ToMark'
  BY <1>3, <1>4 DEF ToMark
<1>5. ASSUME NEW p \in ToPersist, ~(consumer[c].at = "persist" /\ consumer[c].device = p)
      PROVE  p \in ToPersist'
  BY <1>3, <1>5 DEF ToPersist
<1>6. s.at = "mark" /\ s.device \in PDIDs => s.device \in ToMark'
  BY <1>2 DEF ToMark
<1>7. s.at = "persist" /\ s.device \in PDIDs => s.device \in ToPersist'
  BY <1>2 DEF ToPersist
<1> QED
  BY <1>4, <1>5, <1>6, <1>7 DEF Regrouped

LEMMA ObserveStored ==
    ASSUME Inv, Stored, NEW c \in Consumers, NEW o \in Observations, Observe(c, o)
    PROVE  Stored'
<1>1. rows' = rows /\ batch' = batch /\ overwritten' = overwritten /\ consumer[c] = Idle
  BY DEF Observe, history
<1>2. consumer' = [consumer EXCEPT ![c] =
          IF Lookup(o) = None THEN [at |-> "new", obs |-> o]
          ELSE [at |-> "found", obs |-> o, device |-> Lookup(o),
                clone |-> inv.devices[Lookup(o)]]]
  BY DEF Observe
<1>3. ToMark \subseteq ToMark' /\ ToPersist \subseteq ToPersist'
  <2>1. \E s : Regrouped(c, s)
    BY <1>2, StepGroups
  <2>2. consumer[c].at = "idle"
    BY <1>1 DEF Idle
  <2> QED
    BY <2>1, <2>2 DEF Regrouped
<1>4. CASE Displaces(o)
  <2>1. PICK p, r : Moved(p, r)
    BY <1>4, DisplaceEffect
  <2>2. p \in PDIDs /\ p \in Cached(inv) /\ r \in Records
        /\ inv'.devices = [inv.devices EXCEPT ![p] = r] /\ dirty' = dirty \cup {p}
    BY <2>1 DEF Moved, Cached
  <2>3. Excused \subseteq Excused' /\ p \in Excused'
    BY <1>1, <1>3, <2>2 DEF Excused
  <2>4. \A q \in Cached(inv') \ {p} : q \in Cached(inv) /\ inv'.devices[q] = inv.devices[q]
    BY <2>2, ReplacedNow
  <2> QED
    BY <1>1, <1>3, <2>3, <2>4, SoftStored
<1>5. CASE ~Displaces(o)
  <2>1. inv' = inv /\ dirty' = dirty
    BY <1>5 DEF Observe
  <2>2. Excused \subseteq Excused'
    BY <1>1, <1>3, <2>1 DEF Excused
  <2> QED
    BY <1>1, <1>3, <2>1, <2>2, SoftStored
<1> QED
  BY <1>4, <1>5

\* Writing a clone back: a record that was replaced meanwhile is overwritten,
\* and one that is not what was read is about to be marked.
LEMMA WriteStored ==
    ASSUME Inv, Stored, NEW c \in Consumers, Write(c)
    PROVE  Stored'
<1> DEFINE p == consumer[c].device
<1>1. PICK new : Written(c, new)
  BY WriteEffect
<1>2. p \in PDIDs /\ consumer[c].at = "found"
  BY Types, ConsumerFields DEF Inv, Write
<1>3. /\ rows' = rows /\ batch' = batch /\ dirty' = dirty
      /\ overwritten' = overwritten \cup Overtaken(p, consumer[c].clone)
  BY DEF Write
<1>4. new \in Records /\ inv'.devices = [inv.devices EXCEPT ![p] = new]
  BY <1>1 DEF Written
<1>5. /\ inv'.devices[p] = new
      /\ \A q \in Cached(inv') \ {p} : q \in Cached(inv) /\ inv'.devices[q] = inv.devices[q]
  BY <1>2, <1>4, ReplacedNow
<1>6. CASE consumer' = [consumer EXCEPT ![c] = [at |-> "mark", device |-> p]]
  <2>1. ToMark \subseteq ToMark' /\ ToPersist \subseteq ToPersist' /\ p \in ToMark'
    <3>1. Regrouped(c, [at |-> "mark", device |-> p])
      BY <1>6, StepGroups
    <3> QED
      BY <1>2, <3>1 DEF Regrouped
  <2>2. Excused \subseteq Excused' /\ p \in Excused'
    BY <1>3, <2>1 DEF Excused
  <2> QED
    BY <1>3, <1>5, <2>1, <2>2, SoftStored
<1>7. CASE /\ consumer' = [consumer EXCEPT ![c] = Idle]
           /\ Material(new) = Material(consumer[c].clone)
  <2>1. ToMark \subseteq ToMark' /\ ToPersist \subseteq ToPersist'
    <3>1. Regrouped(c, Idle)
      BY <1>7, StepGroups
    <3> QED
      BY <1>2, <3>1 DEF Regrouped
  <2>2. Excused \subseteq Excused'
    BY <1>3, <2>1 DEF Excused
  <2>3. ASSUME p \notin Excused'
        PROVE  p \in Cached(inv) /\ Material(new) = Material(inv.devices[p])
    <3>1. p \notin Overtaken(p, consumer[c].clone)
      BY <1>3, <2>3 DEF Excused
    <3> QED
      BY <1>2, <1>7, <3>1 DEF Overtaken, Cached
  <2> QED
    BY <1>3, <1>5, <2>1, <2>2, <2>3, SoftStored
<1> QED
  BY <1>1, <1>6, <1>7 DEF Written

\* A new device is in no batch: its identity was not there.
LEMMA CreateStored ==
    ASSUME Inv, Known, Stored, NEW c \in Consumers, Create(c)
    PROVE  Stored'
<1>1. PICK p, r : Created(c, p, r)
  BY CreateEffect
<1>2. /\ p \in PDIDs /\ p \notin issued /\ r \in Records
      /\ inv'.devices = [inv.devices EXCEPT ![p] = r]
      /\ consumer' = [consumer EXCEPT ![c] = [at |-> "persist", device |-> p, clone |-> r]]
  BY <1>1 DEF Created
<1>3. rows' = rows /\ batch' = batch /\ dirty' = dirty /\ overwritten' = overwritten
      /\ consumer[c].at = "new"
  BY DEF Create
<1>4. ToMark \subseteq ToMark' /\ ToPersist \subseteq ToPersist' /\ p \in ToPersist'
  <2>1. Regrouped(c, [at |-> "persist", device |-> p, clone |-> r])
    BY <1>2, StepGroups
  <2> QED
    BY <1>2, <1>3, <2>1 DEF Regrouped
<1>5. Excused \subseteq Excused'
  BY <1>3, <1>4 DEF Excused
<1>6. p \notin DOMAIN batch
  BY <1>2 DEF Known
<1>7. \A q \in Cached(inv') \ {p} : q \in Cached(inv) /\ inv'.devices[q] = inv.devices[q]
  BY <1>2, ReplacedNow
<1> SUFFICES ASSUME NEW q \in Cached(inv') \ Excused'
             PROVE  /\ q \in DOMAIN batch => batch[q] = Material(inv'.devices[q])
                    /\ q \notin DOMAIN batch \cup ToPersist' => rows[q] = Material(inv'.devices[q])
  BY <1>3, StoredMeansNext
<1>8. CASE q = p
  BY <1>4, <1>6, <1>8
<1>9. CASE q # p
  BY <1>4, <1>5, <1>7, <1>9, StoredMeans
<1> QED
  BY <1>8, <1>9

LEMMA PersistStored ==
    ASSUME Inv, Stored, NEW c \in Consumers, Mark(c) \/ Persist(c) \/ PersistFails(c)
    PROVE  Stored'
<1> DEFINE p == consumer[c].device
<1>1. batch' = batch /\ consumer' = [consumer EXCEPT ![c] = Idle]
  BY DEF Mark, Persist, PersistFails
<1>2. inv \in Inventories
  BY DEF Inv, TypeOK
<1>3. CASE Mark(c)
  <2>1. inv' = inv /\ rows' = rows /\ dirty' = dirty \cup {p} /\ overwritten' = overwritten
        /\ consumer[c].at = "mark"
    BY <1>3 DEF Mark, history
  <2>2. ToMark \subseteq ToMark' \cup {p} /\ ToPersist \subseteq ToPersist'
    BY <1>1, <2>1, StepGroups DEF Regrouped
  <2>3. Excused \subseteq Excused'
    BY <2>1, <2>2 DEF Excused
  <2> QED
    BY <1>1, <2>1, <2>2, <2>3, SoftStored
<1>4. CASE PersistFails(c)
  <2>1. /\ inv' = Delete(inv, p) /\ rows' = rows /\ dirty' = dirty /\ overwritten' = overwritten
        /\ consumer[c].at = "persist"
    BY <1>4 DEF PersistFails, history
  <2>2. ToMark \subseteq ToMark' /\ ToPersist \subseteq ToPersist' \cup {p}
    BY <1>1, <2>1, StepGroups DEF Regrouped
  <2>3. Excused \subseteq Excused'
    BY <2>1, <2>2 DEF Excused
  <2>4. Softened(inv', inv)
    BY <1>2, <2>1, RemovedSoftens DEF Delete
  <2>5. p \notin Cached(inv')
    BY <2>1 DEF Delete, Removed, Cached
  <2> QED
    BY <1>1, <2>1, <2>2, <2>3, <2>4, <2>5, SoftStored DEF Softened
<1>5. CASE Persist(c)
  <2>1. /\ inv' = inv /\ dirty' = dirty /\ consumer[c].at = "persist"
        /\ rows' = [rows EXCEPT ![p] = Material(consumer[c].clone)]
        /\ overwritten' = overwritten \cup Overtaken(p, consumer[c].clone)
    BY <1>5 DEF Persist
  <2>2. ToMark \subseteq ToMark' /\ ToPersist \subseteq ToPersist' \cup {p}
    BY <1>1, <2>1, StepGroups DEF Regrouped
  <2>3. Excused \subseteq Excused'
    BY <2>1, <2>2 DEF Excused
  <2>4. rows \in [PDIDs -> Rows \cup {Absent}]
    BY DEF Inv, TypeOK
  <2> SUFFICES ASSUME NEW q \in Cached(inv) \ Excused'
               PROVE  /\ q \in DOMAIN batch => batch[q] = Material(inv.devices[q])
                      /\ q \notin DOMAIN batch \cup ToPersist' => rows'[q] = Material(inv.devices[q])
    BY <1>1, <2>1, StoredMeansNext
  <2>5. q \in Cached(inv) \ Excused /\ q \in PDIDs
    BY <2>3 DEF Cached
  <2>6. CASE q = p
    <3>1. q \notin Overtaken(p, consumer[c].clone)
      BY <2>1 DEF Excused
    <3>2. Material(inv.devices[q]) = Material(consumer[c].clone)
      BY <2>6, <3>1 DEF Overtaken
    <3> QED
      BY <2>1, <2>4, <2>5, <2>6, <3>2, StoredMeans
  <2>7. CASE q # p
    BY <2>1, <2>2, <2>4, <2>5, <2>7, StoredMeans
  <2> QED
    BY <2>6, <2>7
<1> QED
  BY <1>3, <1>4, <1>5

\* What is taken from the marks is in the batch, what is saved is the record as
\* it is, and what is not saved is marked again.
LEMMA FlushStored ==
    ASSUME Inv, Stored, FlushTake \/ FlushSave \/ FlushFails
    PROVE  Stored'
<1>1. inv' = inv /\ consumer' = consumer /\ overwritten' = overwritten
  BY DEF FlushTake, FlushSave, FlushFails, history
<1>2. ToMark' = ToMark /\ ToPersist' = ToPersist
  BY <1>1 DEF ToMark, ToPersist
<1>3. CASE FlushTake
  <2>1. /\ DOMAIN batch = {} /\ dirty' = {} /\ rows' = rows
        /\ batch' = [p \in dirty \cap Cached(inv) |-> Material(inv.devices[p])]
    BY <1>3 DEF FlushTake
  <2> SUFFICES ASSUME NEW q \in Cached(inv) \ Excused'
               PROVE  /\ q \in DOMAIN batch' => batch'[q] = Material(inv.devices[q])
                      /\ q \notin DOMAIN batch' \cup ToPersist => rows[q] = Material(inv.devices[q])
    BY <1>1, <1>2, <2>1, StoredMeansNext
  <2>2. CASE q \in dirty
    BY <2>1, <2>2
  <2>3. CASE q \notin dirty
    <3>1. q \notin Excused
      BY <1>1, <1>2, <2>3 DEF Excused
    <3> QED
      BY <2>1, <2>3, <3>1, StoredMeans
  <2> QED
    BY <2>2, <2>3
<1>4. CASE FlushSave
  <2>1. /\ dirty' = dirty /\ DOMAIN batch' = {}
        /\ rows' = [p \in PDIDs |-> IF p \in DOMAIN batch THEN batch[p] ELSE rows[p]]
    BY <1>4 DEF FlushSave, NoBatch
  <2>2. Excused' = Excused
    BY <1>1, <1>2, <2>1 DEF Excused
  <2> SUFFICES ASSUME NEW q \in Cached(inv) \ Excused, q \notin ToPersist
               PROVE  rows'[q] = Material(inv.devices[q])
    BY <1>1, <1>2, <2>1, <2>2, StoredMeansNext
  <2>3. q \in PDIDs
    BY DEF Cached
  <2> QED
    BY <2>1, <2>3, StoredMeans
<1>5. CASE FlushFails
  <2>1. rows' = rows /\ dirty' = dirty \cup DOMAIN batch /\ DOMAIN batch' = {}
    BY <1>5 DEF FlushFails, Retried, NoBatch
  <2>2. \A q \in Cached(inv) \ Excused' : q \notin Excused /\ q \notin DOMAIN batch
    BY <1>1, <1>2, <2>1 DEF Excused
  <2> QED
    BY <1>1, <1>2, <2>1, <2>2, StoredMeans, StoredMeansNext
<1> QED
  BY <1>3, <1>4, <1>5

LEMMA RestartStored ==
    ASSUME Inv, Restart
    PROVE  Stored'
<1>1. \A p \in Cached(inv') : Material(inv'.devices[p]) = rows[p]
  BY HydrateEffect DEF Restart
<1>2. rows' = rows /\ DOMAIN batch' = {}
  BY DEF Restart, NoBatch
<1> QED
  BY <1>1, <1>2, StoredMeansNext

LEMMA NextStored == Inv /\ Known /\ Stored /\ [Next]_vars => Stored'
<1> SUFFICES ASSUME Inv, Known, Stored, [Next]_vars PROVE Stored'
  OBVIOUS
<1>1. inv \in Inventories
  BY DEF Inv, TypeOK
<1>2. CASE \E c \in Consumers, o \in Observations : Observe(c, o)
  BY <1>2, ObserveStored
<1>3. CASE \E c \in Consumers : Step(c)
  BY <1>3, WriteStored, CreateStored, PersistStored DEF Step
<1>4. CASE FlushTake \/ FlushSave \/ FlushFails
  BY <1>4, FlushStored
<1>5. CASE Demote \/ Purge \/ \E p \in PDIDs : Age(p)
  <2>1. UNCHANGED <<rows, batch, dirty, overwritten, consumer>>
    BY <1>5 DEF Demote, Purge, Age, history
  <2>2. Softened(inv', inv)
    BY <1>1, <1>5, DemoteSoftens, RemovedSoftens, AgeSoftens DEF Demote, Purge, PurgeOffline
  <2>3. Excused' = Excused /\ ToPersist' = ToPersist
    BY <2>1 DEF Excused, ToMark, ToPersist
  <2> QED
    BY <2>1, <2>2, <2>3, SoftStored DEF Softened
<1>6. CASE DeferredWrite
  <2> DEFINE p == promoter.device
             r == [promoter.clone EXCEPT !.online = TRUE, !.waiting = FALSE]
  <2>1. p \in PDIDs /\ promoter.clone \in Records
    BY <1>6, Types DEF DeferredWrite, Inv
  <2>2. r \in Records /\ Material(r) = Material(promoter.clone)
    BY <2>1 DEF Records, Material
  <2>3. inv'.devices = [inv.devices EXCEPT ![p] = r]
    BY <1>6 DEF DeferredWrite, Upsert
  <2>4. /\ UNCHANGED <<rows, batch, dirty, consumer>>
        /\ overwritten' = overwritten \cup Overtaken(p, promoter.clone)
    BY <1>6 DEF DeferredWrite
  <2> HIDE DEF r
  <2>5. /\ inv'.devices[p] = r
        /\ \A q \in Cached(inv') \ {p} : q \in Cached(inv) /\ inv'.devices[q] = inv.devices[q]
    BY <2>1, <2>2, <2>3, ReplacedNow
  <2>6. Excused \subseteq Excused' /\ ToPersist' = ToPersist
    BY <2>4 DEF Excused, ToMark, ToPersist
  <2>7. ASSUME p \notin Excused'
        PROVE  p \in Cached(inv) /\ Material(r) = Material(inv.devices[p])
    <3>1. p \notin Overtaken(p, promoter.clone)
      BY <2>4, <2>7 DEF Excused
    <3> QED
      BY <2>1, <2>2, <3>1 DEF Overtaken, Cached
  <2> QED
    BY <2>4, <2>5, <2>6, <2>7, SoftStored
<1>7. CASE \E p \in PDIDs : DeferredTake(p)
  <2>1. UNCHANGED <<inv, rows, batch, dirty, overwritten, consumer>>
    BY <1>7 DEF DeferredTake, history
  <2>2. Excused' = Excused /\ ToPersist' = ToPersist
    BY <2>1 DEF Excused, ToMark, ToPersist
  <2> QED
    BY <2>1, <2>2, SoftStored
<1>8. CASE \E m \in Bindable, p \in PDIDs : Bind(m, p) \/ Revoke(m, p)
  <2>1. UNCHANGED <<inv, rows, batch, overwritten, consumer>> /\ dirty \subseteq dirty'
    BY <1>8 DEF Bind, Revoke, history
  <2>2. Excused \subseteq Excused' /\ ToPersist' = ToPersist
    BY <2>1 DEF Excused, ToMark, ToPersist
  <2> QED
    BY <2>1, <2>2, SoftStored
<1>9. CASE Restart
  BY <1>9, RestartStored
<1>10. CASE UNCHANGED vars
  <2>1. UNCHANGED <<inv, rows, batch, dirty, overwritten, consumer>>
    BY <1>10 DEF vars, history
  <2>2. Excused' = Excused /\ ToPersist' = ToPersist
    BY <2>1 DEF Excused, ToMark, ToPersist
  <2> QED
    BY <2>1, <2>2, SoftStored
<1> QED
  BY <1>2, <1>3, <1>4, <1>5, <1>6, <1>7, <1>8, <1>9, <1>10 DEF Next

LEMMA FullInit == Init => Inv /\ Evidence /\ Known /\ Stored
<1> SUFFICES ASSUME Init PROVE Inv /\ Evidence /\ Known /\ Stored
  OBVIOUS
<1>1. Cached(inv) = {} /\ DOMAIN batch = {}
  BY DEF Init, Empty, Cached, NoBatch
<1>2. promoter.at = "idle" /\ \A c \in Consumers : consumer[c].at = "idle"
  BY DEF Init, Idle
<1>3. \A p \in PDIDs : rows[p] = Absent
  BY DEF Init
<1> QED
  BY <1>1, <1>2, <1>3, InitInv DEF Evidence, Known, Stored, BatchCurrent, ChangesReachStorage

\* The cache, the rows and the clones that processObservation, flushDirty and
\* flushDeferredOnline hold are well formed at every step: no lookup hands out
\* a device that is gone.
THEOREM TypeCorrect == Spec => []TypeOK
<1>1. Inv => TypeOK
  BY DEF Inv
<1> QED
  BY InitInv, NextInv, <1>1, PTL DEF Spec

\* What the MAC or IP index names is in the cache and has the key for its
\* current one, however Upsert, RemoveIPIndex, Delete, purgeOffline and a
\* restart interleave, for any number of providers, devices and keys.
THEOREM IndexNamesHolderAlways == Spec => []IndexNamesHolder
<1>1. Inv => IndexNamesHolder
  BY DEF Inv, IndexNamesHolder
<1> QED
  BY InitInv, NextInv, <1>1, PTL DEF Spec

\* A device is online only if it has answered since the start: not from a
\* lease or a Pi-hole client, not from a clone that processObservation or
\* flushDeferredOnline writes back after it was demoted, and not from storage
\* (canTriggerOnline, LoadHydrate), whatever interleaves.
THEOREM OnlineNeedsEvidenceAlways == Spec => []OnlineNeedsEvidence
<1>1. Evidence => OnlineNeedsEvidence
  BY DEF Evidence, Evident, OnlineNeedsEvidence
<1>2. Init => Inv /\ Evidence
  BY FullInit
<1>3. Inv /\ Evidence /\ [Next]_vars => (Inv /\ Evidence)'
  BY NextInv, NextEvidence
<1> QED
  BY <1>1, <1>2, <1>3, PTL DEF Spec

\* A record that differs from its row is on its way to it, whatever
\* processObservation, flushDirty, the sweeps and restarts do to it meanwhile
\* and however often saving fails, unless a clone older than it replaced it.
THEOREM ChangesReachStorageAlways == Spec => []ChangesReachStorage
<1>1. Stored => ChangesReachStorage
  BY DEF Stored
<1>2. Init => Inv /\ Known /\ Stored
  BY FullInit
<1>3. Inv /\ Known /\ Stored /\ [Next]_vars => (Inv /\ Known /\ Stored)'
  BY NextInv, NextKnown, NextStored
<1> QED
  BY <1>1, <1>2, <1>3, PTL DEF Spec
=============================================================================
