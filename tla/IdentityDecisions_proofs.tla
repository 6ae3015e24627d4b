---------------------- MODULE IdentityDecisions_proofs ----------------------
(* For any devices, aliases, goroutines, requests and bounds: decisions and *)
(* merges stand or fall together, merged devices are gone and lead to those *)
(* they were merged into, aliases that were revoked or are verified stay    *)
(* so, and no MAC is lost in the database.                                  *)
EXTENDS IdentityDecisions, WellFoundedInduction, FiniteSetTheorems, TLAPS

-----------------------------------------------------------------------------
(* The invariants                                                          *)

\* What the MAC index names is in the cache and has the MAC for its current one.
MACIndexed(v) ==
    \A m \in MACs : v.byMAC[m] # None =>
        v.byMAC[m] \in Cached(v) /\ v.devices[v.byMAC[m]].mac = m

\* A goroutine that saves or notes a signal has one.
SignalLeft ==
    \A o \in Observers : observer[o].at \in {"save", "note"} => observer[o].todo # <<>>

Sound == TypeOK /\ MACIndexed(inv) /\ SignalLeft

-----------------------------------------------------------------------------
(* Aliases                                                                 *)

\* The alias an observation is about.
Signal(o) == <<observer[o].device, Head(observer[o].todo)>>

\* An alias has the id of its device, unless both were merged or split.
AtHome(p, id, moved) == id = p \/ {id, p} \subseteq moved
IdsAtHome ==
    /\ \A x \in PDIDs \X Values :
          db.aliases[x] # NoAlias => AtHome(x[1], db.aliases[x].id, disturbed)
    /\ \A x \in PDIDs \X Values :
          activity[x] # Unknown =>
              activity[x].id = None \/ AtHome(x[1], activity[x].id, disturbed)
    /\ \A o \in Observers : observer[o].at = "note" =>
          AtHome(observer[o].device, observer[o].id, disturbed)
    /\ \A a \in Admins :
          admin[a].at \in {"bound", "revoked"} =>
              AtHome(admin[a].alias[1], admin[a].id, disturbed)

\* The index in memory knows an alias that is stored, or is about to.
Noting(x) ==
    \/ \E o \in Observers : observer[o].at = "note" /\ Signal(o) = x
    \/ \E a \in Admins : admin[a].at = "bound" /\ admin[a].alias = x
Noted ==
    \A x \in PDIDs \X Values :
        x[1] \notin disturbed /\ db.aliases[x] # NoAlias =>
            (activity[x] # Unknown /\ activity[x].id = x[1]) \/ Noting(x)

\* What is denied is revoked, in the index as well or soon, and nothing that
\* would change this is under way.
RevokedSoon(x) == \E a \in Admins : admin[a].at = "revoked" /\ admin[a].alias = x
DeniedHolds ==
    \A x \in denied :
        x[1] \notin disturbed =>
            /\ x \in PDIDs \X Values
            /\ db.aliases[x] # NoAlias /\ db.aliases[x].revoked
            /\ ~Underway(x)
            /\ activity[x].revoked \/ RevokedSoon(x)

RevokedIsDenied ==
    \A x \in PDIDs \X Values :
        x[1] \notin disturbed /\ db.aliases[x] # NoAlias /\ db.aliases[x].revoked => x \in denied

AliasInv == IdsAtHome /\ Noted /\ DeniedHolds /\ RevokedIsDenied

-----------------------------------------------------------------------------
(* Devices                                                                 *)

Splits(a) == admin[a].at \in {"split", "parted", "shrunk"}
Decides(a) == admin[a].at \in {"confirm", "merged", "moved"}

\* The devices that a request may write back.
Uses(a) ==
    IF admin[a].at \in {"bind", "bound"} THEN {admin[a].alias[1]}
    ELSE IF Decides(a) THEN {admin[a].source, admin[a].target}
    ELSE IF Splits(a) THEN {admin[a].device} ELSE {}

Busy(o) == observer[o].at # "idle"

\* A new identity is nowhere yet.
Allocated ==
    /\ Cached(inv) \cup Stored(db) \cup Merged \cup DOMAIN batch \subseteq issued
    /\ \A s, t \in PDIDs : db.candidates[<<s, t>>] # "none" => {s, t} \subseteq issued /\ s # t
    /\ \A o \in Observers : Busy(o) => observer[o].device \in issued
    /\ \A a \in Admins : Uses(a) \subseteq issued /\ (Splits(a) => admin[a].new \in issued)

\* A device that is being created is no candidate, not merged, and one
\* goroutine's.
NewIsOpen ==
    \A o \in Observers :
        /\ observer[o].at = "new" => observer[o].new
        /\ Busy(o) /\ observer[o].new =>
              /\ observer[o].device \notin Merged
              /\ observer[o].target # observer[o].device
              /\ observer[o].target # None => observer[o].target \in issued
              /\ \A t \in PDIDs : db.candidates[<<observer[o].device, t>>] = "none"
              /\ \A q \in Observers \ {o} :
                    Busy(q) /\ observer[q].new => observer[q].device # observer[o].device

\* The device a split makes is its own until it is in the cache.
SplitIsOpen ==
    \A a \in Admins :
        Splits(a) =>
            /\ admin[a].new \notin Cached(inv) \cup Merged
            /\ \A o \in Observers : Busy(o) => observer[o].device # admin[a].new
            /\ \A b \in Admins : admin[a].new \notin Uses(b)
            /\ \A b \in Admins \ {a} : Splits(b) => admin[b].new # admin[a].new

\* One request decides at a time, on an open candidate of devices that are there.
OneDecides ==
    /\ \A a, b \in Admins : Decides(a) /\ Decides(b) => a = b
    /\ \A a \in Admins :
          /\ Decides(a) => admin[a].source # admin[a].target /\ admin[a].target \notin Merged \ ghosts
          /\ admin[a].at = "confirm" =>
                /\ db.candidates[<<admin[a].source, admin[a].target>>] = "pending"
                /\ admin[a].source \notin Merged \ ghosts

DeviceInv ==
    Allocated /\ NewIsOpen /\ SplitIsOpen /\ OneDecides /\ DecisionIsMerge /\ MergedIsGone

-----------------------------------------------------------------------------
(* Redirects                                                               *)

\* Redirects do not go round in circles, and lead on until a device is stored.
Acyclic == \A C \in SUBSET PDIDs : C # {} => \E p \in C : db.redirects[p] \notin C
Lead ==
    ghosts = {} =>
        /\ Acyclic
        /\ \A p \in Merged : db.redirects[p] \in Stored(db) \cup Merged

-----------------------------------------------------------------------------
(* The rows and the records                                                *)

\* No older clone replaced a record or a row, and no merged device was written.
Clean == overwritten \cup ghosts = {}

\* The target of a merge is about to have the MAC in its record.
Joining(q, m) ==
    \E a \in Admins : /\ admin[a].at \in {"merged", "moved"} /\ admin[a].target = q
                      /\ m \in admin[a].record.macs

\* The device is about to lose the MAC from its record.
Parting(q, m) ==
    \E a \in Admins : admin[a].at = "parted" /\ admin[a].device = q /\ admin[a].mac = m

\* A row that has a MAC is that of a record with it, or soon will be.
RowFollows(q, m) ==
    /\ q \in Cached(inv) => m \in inv.devices[q].macs \/ Joining(q, m)
    /\ ~Parting(q, m)
    /\ \A a \in Admins :
          Splits(a) /\ admin[a].new = q => admin[a].at # "split" /\ admin[a].mac = m
RowsFollow == \A m \in MACs : db.holder[m] # None => RowFollows(db.holder[m], m)

WritesLive ==
    /\ DOMAIN batch \subseteq Cached(inv) \cup Merged
    /\ \A a \in Admins : admin[a].at = "merged" => admin[a].source \in Merged

\* A device that will have the MAC, one that has not been saved yet, and one
\* that will be saved with it.
Has(p, m) == p \in Cached(inv) \ Merged /\ m \in inv.devices[p].macs /\ ~Parting(p, m)
Fresh(p, m) ==
    \E o \in Observers : /\ observer[o].at = "new" /\ observer[o].device = p
                         /\ m \in observer[o].clone.macs
Owes(p, m) == p \in dirty \/ (p \in DOMAIN batch /\ m \in batch[p].macs)

\* The MAC has to be stored.
Expected(m) ==
    \/ \E p \in PDIDs : Has(p, m) /\ ~Fresh(p, m)
    \/ \E a \in Admins : admin[a].at \in {"merged", "moved"} /\ m \in admin[a].record.macs
    \/ \E a \in Admins : admin[a].at \in {"parted", "shrunk"} /\ m = admin[a].mac

\* If it is not, it will be.
Covered ==
    \A m \in MACs : db.holder[m] = None /\ Expected(m) => \E p \in PDIDs : Has(p, m) /\ Owes(p, m)

Rows == Clean => RowsFollow /\ WritesLive /\ Covered

\* Records lose no MAC but the one that is split off, and rows are of devices
\* that were created.
Growing ==
    /\ \A o \in Observers :
          Busy(o) /\ ~observer[o].new => observer[o].clone.macs \subseteq observer[o].record.macs
    /\ \A a \in Admins :
          admin[a].at \in {"merged", "moved"} => admin[a].clone.macs \subseteq admin[a].record.macs
    /\ \A a \in Admins : Splits(a) => admin[a].record.macs = admin[a].clone.macs \ {admin[a].mac}
    /\ \A m \in MACs : db.holder[m] # None => db.holder[m] \in issued

StorageInv == Rows /\ Growing

-----------------------------------------------------------------------------
(* Data                                                                    *)

LEMMA Distinct ==
    /\ Absent \notin Records /\ NoAlias \notin Aliases /\ Unknown \notin Activities
    /\ Aliases \subseteq Activities
<1>1. Absent \notin Records
  <2>1. DOMAIN Absent = {"absent"}
    BY DEF Absent
  <2>2. \A r \in Records : "macs" \in DOMAIN r
    BY DEF Records
  <2> QED
    BY <2>1, <2>2
<1>2. NoAlias \notin Aliases
  <2>1. DOMAIN NoAlias = {"is"}
    BY DEF NoAlias
  <2>2. \A r \in Aliases : "id" \in DOMAIN r
    BY DEF Aliases
  <2> QED
    BY <2>1, <2>2
<1>3. Unknown \notin Activities
  <2>1. DOMAIN Unknown = {"is"}
    BY DEF Unknown
  <2>2. \A r \in Activities : "id" \in DOMAIN r
    BY DEF Activities
  <2> QED
    BY <2>1, <2>2
<1>4. Aliases \subseteq Activities
  BY DEF Aliases, Activities, OrNone
<1> QED
  BY <1>1, <1>2, <1>3, <1>4

LEMMA RecType ==
    ASSUME NEW macs \in SUBSET MACs, NEW mac \in OrNone(MACs), NEW on \in BOOLEAN
    PROVE  Rec(macs, mac, on) \in Records
BY DEF Rec, Records, OrNone, Tiers, Ages

LEMMA RecordFields ==
    ASSUME NEW r \in Records
    PROVE  r.macs \subseteq MACs /\ r.mac \in OrNone(MACs) /\ r.online \in BOOLEAN
BY DEF Records

LEMMA CacheFields ==
    ASSUME NEW v \in Inventories
    PROVE  /\ v.devices \in [PDIDs -> Records \cup {Absent}]
           /\ v.byMAC \in [MACs -> OrNone(PDIDs)]
           /\ v.byIP \in [IPs -> OrNone(PDIDs)]
           /\ v.owners \in [Hosts -> OrNone(PDIDs)]
           /\ \A p \in Cached(v) : p \in PDIDs /\ v.devices[p] \in Records
BY DEF Inventories, Cached

LEMMA Assembled ==
    ASSUME NEW d \in [PDIDs -> Records \cup {Absent}], NEW bm \in [MACs -> OrNone(PDIDs)],
           NEW bi \in [IPs -> OrNone(PDIDs)], NEW w \in [Hosts -> OrNone(PDIDs)]
    PROVE  [devices |-> d, byMAC |-> bm, byIP |-> bi, owners |-> w] \in Inventories
BY DEF Inventories

LEMMA DatabaseFields ==
    ASSUME NEW d \in Databases
    PROVE  /\ d.rows \in [PDIDs -> OrNone(MACs) \cup {Absent}]
           /\ d.holder \in [MACs -> OrNone(PDIDs)]
           /\ d.aliases \in [PDIDs \X Values -> Aliases \cup {NoAlias}]
           /\ d.candidates \in [PDIDs \X PDIDs -> Statuses]
           /\ d.redirects \in [PDIDs -> OrNone(PDIDs)]
BY DEF Databases

LEMMA DatabaseMade ==
    ASSUME NEW rows \in [PDIDs -> OrNone(MACs) \cup {Absent}],
           NEW holder \in [MACs -> OrNone(PDIDs)],
           NEW aliases \in [PDIDs \X Values -> Aliases \cup {NoAlias}],
           NEW candidates \in [PDIDs \X PDIDs -> Statuses],
           NEW redirects \in [PDIDs -> OrNone(PDIDs)]
    PROVE  [rows |-> rows, holder |-> holder, aliases |-> aliases,
            candidates |-> candidates, redirects |-> redirects] \in Databases
BY DEF Databases

-----------------------------------------------------------------------------
(* Methods of the cache                                                    *)

\* What a method leaves: the records, and an index that is sound.
Becomes(w, devices) == w \in Inventories /\ MACIndexed(w) /\ w.devices = devices

LEMMA UpsertKeeps ==
    ASSUME NEW v \in Inventories, MACIndexed(v), NEW p \in PDIDs, NEW r \in Records
    PROVE  Becomes(Upsert(v, p, r), [v.devices EXCEPT ![p] = r])
<1> DEFINE old == v.devices[p]
           oldMAC == IF old = Absent THEN None ELSE old.mac
           oldIP == IF old = Absent THEN None ELSE old.ip
           d == [v.devices EXCEPT ![p] = r]
           bm == Reindexed(v.byMAC, p, oldMAC, r.mac)
           bi == Reindexed(v.byIP, p, oldIP, r.ip)
           u == Upsert(v, p, r)
<1>1. u.devices = d /\ u.byMAC = bm
  BY DEF Upsert
<1>2. u = [devices |-> d, byMAC |-> bm, byIP |-> bi, owners |-> v.owners]
  BY DEF Upsert
<1>3. d \in [PDIDs -> Records \cup {Absent}]
  BY CacheFields
<1>4. bm \in [MACs -> OrNone(PDIDs)] /\ bi \in [IPs -> OrNone(PDIDs)]
  BY CacheFields DEF Reindexed, OrNone
<1>5. u \in Inventories
  BY <1>2, <1>3, <1>4, CacheFields, Assembled
<1>6. Cached(u) = Cached(v) \cup {p}
  BY <1>1, Distinct, CacheFields DEF Cached
<1>7. ASSUME NEW m \in MACs, bm[m] # None
      PROVE  bm[m] \in Cached(u) /\ d[bm[m]].mac = m
  <2>1. CASE m = r.mac
    BY <1>6, <1>7, <2>1, CacheFields DEF Reindexed
  <2>2. CASE m # r.mac
    <3>1. bm[m] = v.byMAC[m] /\ ~(m = oldMAC /\ v.byMAC[m] = p)
      BY <1>7, <2>2, CacheFields DEF Reindexed
    <3>2. v.byMAC[m] \in Cached(v) /\ v.devices[v.byMAC[m]].mac = m
      BY <1>7, <3>1 DEF MACIndexed
    <3>3. v.byMAC[m] # p
      BY <3>1, <3>2 DEF Cached
    <3> QED
      BY <1>6, <3>1, <3>2, <3>3, CacheFields
  <2> QED
    BY <2>1, <2>2
<1> HIDE DEF d, bm, bi, u
<1>8. MACIndexed(u)
  BY <1>1, <1>7 DEF MACIndexed
<1> QED
  BY <1>1, <1>5, <1>8 DEF Becomes, d, u

LEMMA DeleteKeeps ==
    ASSUME NEW v \in Inventories, MACIndexed(v), NEW p \in PDIDs
    PROVE  Becomes(Delete(v, p), [v.devices EXCEPT ![p] = Absent])
<1> DEFINE gone == {p} \cap Cached(v)
           u == Removed(v, gone)
<1>1. u \in Inventories
  <2>1. [q \in PDIDs |-> IF q \in gone THEN Absent ELSE v.devices[q]]
            \in [PDIDs -> Records \cup {Absent}]
    BY CacheFields
  <2>2. [m \in MACs |-> IF \E q \in gone : v.devices[q].mac = m THEN None ELSE v.byMAC[m]]
            \in [MACs -> OrNone(PDIDs)]
    BY CacheFields DEF OrNone
  <2>3. [i \in IPs |-> IF \E q \in gone : v.devices[q].ip = i THEN None ELSE v.byIP[i]]
            \in [IPs -> OrNone(PDIDs)]
    BY CacheFields DEF OrNone
  <2>4. [h \in Hosts |->
            IF v.owners[h] \in gone /\ v.devices[v.owners[h]].host = h THEN None
            ELSE v.owners[h]] \in [Hosts -> OrNone(PDIDs)]
    BY CacheFields DEF OrNone
  <2> QED
    BY <2>1, <2>2, <2>3, <2>4, Assembled DEF Removed
<1>2. u.devices = [v.devices EXCEPT ![p] = Absent]
  <2>1. u.devices = [q \in PDIDs |-> IF q \in gone THEN Absent ELSE v.devices[q]]
    BY DEF Removed
  <2> QED
    BY <2>1, CacheFields DEF Cached
<1>3. \A q \in Cached(v) \ gone : q \in Cached(u) /\ u.devices[q] = v.devices[q]
  BY DEF Removed, Cached
<1>4. ASSUME NEW m \in MACs, u.byMAC[m] # None
      PROVE  u.byMAC[m] \in Cached(u) /\ u.devices[u.byMAC[m]].mac = m
  <2>1. u.byMAC[m] = v.byMAC[m] /\ ~\E q \in gone : v.devices[q].mac = m
    BY <1>4 DEF Removed
  <2>2. v.byMAC[m] \in Cached(v) /\ v.devices[v.byMAC[m]].mac = m
    BY <1>4, <2>1 DEF MACIndexed
  <2> QED
    BY <1>3, <2>1, <2>2
<1> HIDE DEF u
<1>5. MACIndexed(u)
  BY <1>4 DEF MACIndexed
<1>6. u = Delete(v, p)
  BY DEF Delete, u
<1> QED
  BY <1>1, <1>2, <1>5, <1>6 DEF Becomes

\* The sweep: nothing but presence changes.
LEMMA DemoteKeeps ==
    ASSUME Sound, DemoteQuiet
    PROVE  inv' \in Inventories /\ MACIndexed(inv') /\ Cached(inv') = Cached(inv)
<1>1. inv \in Inventories /\ MACIndexed(inv)
  BY DEF Sound, TypeOK
<1>2. PICK quiet \in SUBSET Cached(inv) :
          inv' = [inv EXCEPT !.devices = [p \in PDIDs |->
                     IF p \in quiet THEN [inv.devices[p] EXCEPT !.online = FALSE]
                     ELSE inv.devices[p]]]
  BY DEF DemoteQuiet
<1>3. \A r \in Records : /\ [r EXCEPT !.online = FALSE] \in Records
                          /\ [r EXCEPT !.online = FALSE].mac = r.mac
  BY DEF Records
<1> DEFINE d == [p \in PDIDs |-> IF p \in quiet THEN [inv.devices[p] EXCEPT !.online = FALSE]
                                 ELSE inv.devices[p]]
<1>4. \A p \in Cached(inv) : d[p] \in Records /\ d[p].mac = inv.devices[p].mac
  BY <1>1, <1>3, CacheFields
<1>5. \A p \in PDIDs \ Cached(inv) : d[p] = Absent
  BY <1>1 DEF Cached
<1>6. d \in [PDIDs -> Records \cup {Absent}]
  BY <1>4, <1>5
<1>7. inv' = [devices |-> d, byMAC |-> inv.byMAC, byIP |-> inv.byIP, owners |-> inv.owners]
  BY <1>1, <1>2 DEF Inventories
<1> HIDE DEF d
<1>8. inv' \in Inventories
  BY <1>1, <1>6, <1>7, CacheFields, Assembled
<1>9. Cached(inv') = Cached(inv)
  BY <1>4, <1>5, <1>7, Distinct DEF Cached
<1>10. MACIndexed(inv')
  BY <1>1, <1>4, <1>7, <1>9 DEF MACIndexed
<1> QED
  BY <1>8, <1>9, <1>10

\* LoadHydrate: what is stored is in the cache, and one of those with a MAC is
\* indexed under it.
LEMMA HydrateKeeps ==
    ASSUME NEW d \in Databases, NEW v \in Hydrations(d)
    PROVE  v \in Inventories /\ MACIndexed(v) /\ Cached(v) = Stored(d)
<1> DEFINE saved == Stored(d)
           dev == [p \in PDIDs |-> IF p \in saved THEN Rec(Held(d, p), d.rows[p], FALSE) ELSE Absent]
<1>1. PICK bm \in {index \in [MACs -> OrNone(saved)] :
                      \A m \in MACs : index[m] \in Indexable({p \in saved : d.rows[p] = m})} :
          v = [devices |-> dev, byMAC |-> bm, byIP |-> Empty.byIP, owners |-> Empty.owners]
  BY DEF Hydrations
<1>2. \A p \in saved : Rec(Held(d, p), d.rows[p], FALSE) \in Records
  <2> SUFFICES ASSUME NEW p \in saved PROVE Rec(Held(d, p), d.rows[p], FALSE) \in Records
    OBVIOUS
  <2>1. Held(d, p) \in SUBSET MACs /\ d.rows[p] \in OrNone(MACs)
    BY DatabaseFields DEF Stored, Held
  <2> QED
    BY <2>1, RecType
<1>3. dev \in [PDIDs -> Records \cup {Absent}]
  BY <1>2
<1>4. \A p \in saved : dev[p].mac = d.rows[p]
  BY DEF Rec, Stored
<1> HIDE DEF dev
<1>5. bm \in [MACs -> OrNone(PDIDs)]
  BY DEF OrNone, Stored
<1>6. Empty.byIP \in [IPs -> OrNone(PDIDs)] /\ Empty.owners \in [Hosts -> OrNone(PDIDs)]
  BY DEF Empty, OrNone
<1>7. v \in Inventories
  BY <1>1, <1>3, <1>5, <1>6, Assembled
<1>8. Cached(v) = saved
  BY <1>1, <1>2, Distinct DEF Cached, Stored, dev
<1>9. \A m \in MACs : bm[m] # None => bm[m] \in saved /\ d.rows[bm[m]] = m
  BY NoneAssumption DEF Indexable
<1>10. MACIndexed(v)
  BY <1>1, <1>4, <1>8, <1>9 DEF MACIndexed
<1> QED
  BY <1>7, <1>8, <1>10

-----------------------------------------------------------------------------
(* Statements of the database                                              *)

\* What a statement on the devices leaves alone.
Saved(e, d, p, r) ==
    /\ e \in Databases
    /\ e.rows = [d.rows EXCEPT ![p] = r.mac]
    /\ e.aliases = d.aliases /\ e.candidates = d.candidates /\ e.redirects = d.redirects

LEMMA SaveKeeps ==
    ASSUME NEW d \in Databases, NEW p \in PDIDs, NEW r \in Records
    PROVE  Saved(SaveDevice(d, p, r), d, p, r)
<1> DEFINE rows == [d.rows EXCEPT ![p] = r.mac]
           holder == [m \in MACs |->
                         IF m \in r.macs /\ d.holder[m] = None THEN p
                         ELSE IF m \notin r.macs /\ d.holder[m] = p THEN None ELSE d.holder[m]]
           e == SaveDevice(d, p, r)
<1>1. e = [rows |-> rows, holder |-> holder, aliases |-> d.aliases,
           candidates |-> d.candidates, redirects |-> d.redirects]
  <2>1. e = [d EXCEPT !.rows[p] = r.mac, !.holder = holder]
    BY DEF SaveDevice
  <2> HIDE DEF holder, e
  <2> QED
    BY <2>1 DEF Databases
<1>2. rows \in [PDIDs -> OrNone(MACs) \cup {Absent}]
  BY DatabaseFields, RecordFields
<1>3. holder \in [MACs -> OrNone(PDIDs)]
  BY DatabaseFields DEF OrNone
<1> HIDE DEF rows, holder, e
<1>4. e \in Databases
  BY <1>1, <1>2, <1>3, DatabaseFields, DatabaseMade
<1> QED
  BY <1>1, <1>4 DEF Saved, e, rows

\* An alias is inserted or kept, and no longer revoked.
Upserted(e, d, p, v, verified) ==
    /\ e \in Databases
    /\ e.rows = d.rows /\ e.candidates = d.candidates /\ e.redirects = d.redirects
    /\ e.holder = d.holder
    /\ \A x \in PDIDs \X Values : x # <<p, v>> => e.aliases[x] = d.aliases[x]
    /\ LET new == e.aliases[<<p, v>>]
           old == d.aliases[<<p, v>>]
       IN /\ new \in Aliases /\ ~new.revoked
          /\ old = NoAlias => new.id = p /\ new.verified = verified
          /\ old # NoAlias => new.id = old.id /\ (new.verified <=> old.verified \/ verified)

LEMMA UpsertAliasKeeps ==
    ASSUME NEW d \in Databases, NEW p \in PDIDs, NEW v \in Values, NEW verified \in BOOLEAN
    PROVE  Upserted(UpsertAlias(d, p, v, verified), d, p, v, verified)
<1> DEFINE old == d.aliases[<<p, v>>]
           new == IF old = NoAlias THEN [id |-> p, verified |-> verified, revoked |-> FALSE]
                  ELSE [old EXCEPT !.verified = old.verified \/ verified, !.revoked = FALSE]
           aliases == [d.aliases EXCEPT ![<<p, v>>] = new]
           e == UpsertAlias(d, p, v, verified)
<1>1. e = [rows |-> d.rows, holder |-> d.holder, aliases |-> aliases,
           candidates |-> d.candidates, redirects |-> d.redirects]
  <2>1. e = [d EXCEPT !.aliases[<<p, v>>] = new]
    BY DEF UpsertAlias
  <2> HIDE DEF new, e
  <2> QED
    BY <2>1 DEF Databases
<1>2. <<p, v>> \in PDIDs \X Values
  OBVIOUS
<1>3. old \in Aliases \cup {NoAlias}
  BY <1>2, DatabaseFields
<1>4. /\ new \in Aliases /\ ~new.revoked
      /\ old = NoAlias => new.id = p /\ new.verified = verified
      /\ old # NoAlias => new.id = old.id /\ (new.verified <=> old.verified \/ verified)
  BY <1>3 DEF Aliases
<1> HIDE DEF new
<1>5. aliases \in [PDIDs \X Values -> Aliases \cup {NoAlias}]
  BY <1>4, DatabaseFields
<1>6. aliases[<<p, v>>] = new
  BY <1>2, DatabaseFields
<1>7. \A x \in PDIDs \X Values : x # <<p, v>> => aliases[x] = d.aliases[x]
  BY DatabaseFields
<1> HIDE DEF aliases, e, old
<1>8. e \in Databases
  BY <1>1, <1>5, DatabaseFields DEF Databases
<1>9. /\ e.rows = d.rows /\ e.candidates = d.candidates /\ e.redirects = d.redirects
      /\ e.holder = d.holder /\ e.aliases = aliases
  BY <1>1
<1> QED
  BY <1>4, <1>6, <1>7, <1>8, <1>9 DEF Upserted, e, old

\* The status of one candidate, and nothing else.
Decided(e, d, c, status) ==
    /\ e \in Databases
    /\ e.rows = d.rows /\ e.aliases = d.aliases /\ e.redirects = d.redirects
    /\ e.holder = d.holder
    /\ e.candidates = [d.candidates EXCEPT ![c] = status]

LEMMA DecideKeeps ==
    ASSUME NEW d \in Databases, NEW c \in PDIDs \X PDIDs, NEW status \in Statuses
    PROVE  Decided([d EXCEPT !.candidates[c] = status], d, c, status)
<1> DEFINE candidates == [d.candidates EXCEPT ![c] = status]
           e == [d EXCEPT !.candidates[c] = status]
<1>1. e = [rows |-> d.rows, holder |-> d.holder, aliases |-> d.aliases,
           candidates |-> candidates, redirects |-> d.redirects]
  BY DEF Databases
<1>2. candidates \in [PDIDs \X PDIDs -> Statuses]
  BY DatabaseFields
<1> HIDE DEF candidates, e
<1>3. e \in Databases
  BY <1>1, <1>2, DatabaseFields DEF Databases
<1> QED
  BY <1>1, <1>3 DEF Decided, e, candidates

\* An alias is marked as revoked.
Denied(e, d, x) ==
    /\ e \in Databases
    /\ e.rows = d.rows /\ e.candidates = d.candidates /\ e.redirects = d.redirects
    /\ e.holder = d.holder
    /\ \A y \in PDIDs \X Values : y # x => e.aliases[y] = d.aliases[y]
    /\ LET new == e.aliases[x]
           old == d.aliases[x]
       IN new \in Aliases /\ new.revoked /\ new.id = old.id /\ new.verified = old.verified

LEMMA RevokeKeeps ==
    ASSUME NEW d \in Databases, NEW x \in PDIDs \X Values, d.aliases[x] # NoAlias
    PROVE  Denied([d EXCEPT !.aliases[x].revoked = TRUE], d, x)
<1> DEFINE old == d.aliases[x]
           new == [old EXCEPT !.revoked = TRUE]
           aliases == [d.aliases EXCEPT ![x] = new]
           e == [d EXCEPT !.aliases[x].revoked = TRUE]
<1>1. e = [rows |-> d.rows, holder |-> d.holder, aliases |-> aliases,
           candidates |-> d.candidates, redirects |-> d.redirects]
  <2>1. DOMAIN d.aliases = PDIDs \X Values
    BY DatabaseFields
  <2>2. e = [d EXCEPT !.aliases[x] = new]
    BY <2>1
  <2> HIDE DEF new, e
  <2> QED
    BY <2>2 DEF Databases
<1>2. old \in Aliases
  BY DatabaseFields
<1>3. new \in Aliases /\ new.revoked /\ new.id = old.id /\ new.verified = old.verified
  BY <1>2 DEF Aliases
<1> HIDE DEF new
<1>4. /\ aliases \in [PDIDs \X Values -> Aliases \cup {NoAlias}]
      /\ aliases[x] = new
      /\ \A y \in PDIDs \X Values : y # x => aliases[y] = d.aliases[y]
  BY <1>3, DatabaseFields
<1> HIDE DEF aliases, e, old
<1>5. e \in Databases
  BY <1>1, <1>4, DatabaseFields DEF Databases
<1>6. /\ e.rows = d.rows /\ e.candidates = d.candidates /\ e.redirects = d.redirects
      /\ e.holder = d.holder /\ e.aliases = aliases
  BY <1>1
<1> QED
  BY <1>3, <1>4, <1>5, <1>6 DEF Denied, e, old

\* A merge: the source loses its row and its aliases and is redirected, the
\* target has the aliases of both, and no alias is verified that was not.
MergedInto(e, d, s, t, r) ==
    /\ e \in Databases
    /\ e.rows = [d.rows EXCEPT ![t] = r.mac, ![s] = Absent]
    /\ e.redirects = [d.redirects EXCEPT ![s] = t]
    /\ e.candidates = d.candidates
    /\ \A x \in PDIDs \X Values : x[1] \notin {s, t} => e.aliases[x] = d.aliases[x]
    /\ \A x \in PDIDs \X Values :
          x[1] \in {s, t} /\ e.aliases[x] # NoAlias =>
              \E y \in {s, t} : /\ d.aliases[<<y, x[2]>>] # NoAlias
                                /\ e.aliases[x].id = d.aliases[<<y, x[2]>>].id

LEMMA MergedAliasKeeps ==
    ASSUME NEW d \in Databases, NEW s \in PDIDs, NEW t \in PDIDs, NEW v \in Values
    PROVE  LET new == MergedAlias(d, s, t, v) IN
           /\ new \in Aliases \cup {NoAlias}
           /\ new # NoAlias => \E y \in {s, t} : /\ d.aliases[<<y, v>>] # NoAlias
                                                 /\ new.id = d.aliases[<<y, v>>].id
<1> DEFINE a == d.aliases[<<s, v>>]
           b == d.aliases[<<t, v>>]
           new == MergedAlias(d, s, t, v)
<1>1. a \in Aliases \cup {NoAlias} /\ b \in Aliases \cup {NoAlias}
  BY DatabaseFields
<1>2. new = IF a = NoAlias THEN b
            ELSE IF b = NoAlias THEN a ELSE [b EXCEPT !.verified = b.verified \/ a.verified]
  BY DEF MergedAlias
<1>3. a \in Aliases /\ b \in Aliases =>
          LET both == [b EXCEPT !.verified = b.verified \/ a.verified] IN
          both \in Aliases /\ both.id = b.id
  BY DEF Aliases
<1> HIDE DEF a, b, new
<1>4. /\ new \in Aliases \cup {NoAlias}
      /\ new # NoAlias => (a # NoAlias /\ new.id = a.id) \/ (b # NoAlias /\ new.id = b.id)
  BY <1>1, <1>2, <1>3
<1> QED
  BY <1>4 DEF a, b, new

LEMMA MergeKeeps ==
    ASSUME NEW d \in Databases, NEW s \in PDIDs, NEW t \in PDIDs, NEW r \in Records
    PROVE  MergedInto(MergeDevices(d, s, t, r), d, s, t, r)
<1> DEFINE holder == [m \in MACs |-> IF d.holder[m] = s THEN None ELSE d.holder[m]]
           freed == [d EXCEPT !.holder = holder]
           saved == SaveDevice(freed, t, r)
           aliases == [x \in PDIDs \X Values |->
                          IF x[1] = t THEN MergedAlias(d, s, t, x[2])
                          ELSE IF x[1] = s THEN NoAlias ELSE d.aliases[x]]
           e == MergeDevices(d, s, t, r)
<1>1. holder \in [MACs -> OrNone(PDIDs)]
  BY DatabaseFields DEF OrNone
<1> HIDE DEF holder
<1>2. freed = [rows |-> d.rows, holder |-> holder, aliases |-> d.aliases,
               candidates |-> d.candidates, redirects |-> d.redirects]
  BY DEF Databases
<1>3. freed \in Databases
  BY <1>1, <1>2, DatabaseFields DEF Databases
<1>4. Saved(saved, freed, t, r)
  BY <1>3, SaveKeeps
<1>5. e = [saved EXCEPT !.rows[s] = Absent, !.redirects[s] = t, !.aliases = aliases]
  BY DEF MergeDevices, holder
<1> HIDE DEF freed, saved, aliases, e
<1>6. e = [rows |-> [saved.rows EXCEPT ![s] = Absent], holder |-> saved.holder,
           aliases |-> aliases, candidates |-> saved.candidates,
           redirects |-> [saved.redirects EXCEPT ![s] = t]]
  BY <1>4, <1>5 DEF Saved, Databases
<1>7. /\ saved.rows = [d.rows EXCEPT ![t] = r.mac] /\ saved.candidates = d.candidates
      /\ saved.redirects = d.redirects
  BY <1>2, <1>4 DEF Saved
<1>8. [saved.rows EXCEPT ![s] = Absent] = [d.rows EXCEPT ![t] = r.mac, ![s] = Absent]
  BY <1>7
<1>9. ASSUME NEW x \in PDIDs \X Values
      PROVE  /\ aliases[x] \in Aliases \cup {NoAlias}
             /\ x[1] \notin {s, t} => aliases[x] = d.aliases[x]
             /\ x[1] \in {s, t} /\ aliases[x] # NoAlias =>
                    \E y \in {s, t} : /\ d.aliases[<<y, x[2]>>] # NoAlias
                                      /\ aliases[x].id = d.aliases[<<y, x[2]>>].id
  <2>1. x[1] \in PDIDs /\ x[2] \in Values
    OBVIOUS
  <2>2. aliases[x] = IF x[1] = t THEN MergedAlias(d, s, t, x[2])
                     ELSE IF x[1] = s THEN NoAlias ELSE d.aliases[x]
    BY DEF aliases
  <2>3. d.aliases[x] \in Aliases \cup {NoAlias}
    BY DatabaseFields
  <2>4. CASE x[1] = t
    BY <2>1, <2>2, <2>4, MergedAliasKeeps
  <2>5. CASE x[1] # t
    BY <2>2, <2>3, <2>5
  <2> QED
    BY <2>4, <2>5
<1>10. aliases \in [PDIDs \X Values -> Aliases \cup {NoAlias}]
  BY <1>9 DEF aliases
<1>11. [saved.rows EXCEPT ![s] = Absent] \in [PDIDs -> OrNone(MACs) \cup {Absent}]
  BY <1>4, DatabaseFields DEF Saved
<1>12. [saved.redirects EXCEPT ![s] = t] \in [PDIDs -> OrNone(PDIDs)]
  BY <1>4, DatabaseFields DEF Saved, OrNone
<1>13. saved.holder \in [MACs -> OrNone(PDIDs)]
       /\ saved.candidates \in [PDIDs \X PDIDs -> Statuses]
  BY <1>4, DatabaseFields DEF Saved
<1>14. e \in Databases
  BY <1>6, <1>10, <1>11, <1>12, <1>13 DEF Databases
<1>15. /\ e.rows = [d.rows EXCEPT ![t] = r.mac, ![s] = Absent]
       /\ e.redirects = [d.redirects EXCEPT ![s] = t]
       /\ e.candidates = d.candidates /\ e.aliases = aliases
  BY <1>6, <1>7, <1>8
<1> QED
  BY <1>9, <1>14, <1>15 DEF MergedInto, e

\* A split: both devices have their row, and an alias for the MAC goes from the
\* one to the other.
SplitOff(e, d, p, r, q, s, m) ==
    /\ e \in Databases
    /\ e.rows = [d.rows EXCEPT ![p] = r.mac, ![q] = s.mac]
    /\ e.candidates = d.candidates /\ e.redirects = d.redirects
    /\ \A x \in PDIDs \X Values : x[1] \notin {p, q} => e.aliases[x] = d.aliases[x]
    /\ \A x \in PDIDs \X Values :
          x[1] \in {p, q} /\ e.aliases[x] # NoAlias =>
              \E y \in {p, q} : /\ d.aliases[<<y, x[2]>>] # NoAlias
                                /\ e.aliases[x].id = d.aliases[<<y, x[2]>>].id

LEMMA SplitKeeps ==
    ASSUME NEW d \in Databases, NEW p \in PDIDs, NEW q \in PDIDs,
           NEW r \in Records, NEW s \in Records, NEW m \in MACs
    PROVE  SplitOff(SplitDevice(d, p, r, q, s, m), d, p, r, q, s, m)
<1> DEFINE first == SaveDevice(d, p, r)
           saved == SaveDevice(first, q, s)
           old == d.aliases[<<p, m>>]
           new == IF old = NoAlias THEN NoAlias
                  ELSE [old EXCEPT !.verified = TRUE, !.revoked = FALSE]
           aliases == [d.aliases EXCEPT ![<<p, m>>] = NoAlias, ![<<q, m>>] = new]
           e == SplitDevice(d, p, r, q, s, m)
<1>1. Saved(first, d, p, r)
  BY SaveKeeps
<1> HIDE DEF first
<1>2. first \in Databases
  BY <1>1 DEF Saved
<1>3. Saved(saved, first, q, s)
  BY <1>2, SaveKeeps
<1>4. e = [saved EXCEPT !.aliases[<<p, m>>] = NoAlias, !.aliases[<<q, m>>] = new]
  BY DEF SplitDevice, first
<1>5. <<p, m>> \in PDIDs \X Values /\ <<q, m>> \in PDIDs \X Values
  BY DEF Values
<1>6. old \in Aliases \cup {NoAlias}
  BY <1>5, DatabaseFields
<1>7. new \in Aliases \cup {NoAlias} /\ (new # NoAlias => old # NoAlias /\ new.id = old.id)
  BY <1>6 DEF Aliases
<1> HIDE DEF saved, new, aliases, e
<1>8. saved.aliases = d.aliases
  BY <1>1, <1>3 DEF Saved
<1>9. e = [rows |-> saved.rows, holder |-> saved.holder, aliases |-> aliases,
           candidates |-> saved.candidates, redirects |-> saved.redirects]
  BY <1>3, <1>4, <1>8 DEF Saved, Databases, aliases
<1>10. ASSUME NEW x \in PDIDs \X Values
       PROVE  /\ x \notin {<<p, m>>, <<q, m>>} => aliases[x] = d.aliases[x]
              /\ x = <<p, m>> /\ p # q => aliases[x] = NoAlias
              /\ x = <<q, m>> => aliases[x] = new
  BY <1>5, DatabaseFields DEF aliases
<1>11. aliases \in [PDIDs \X Values -> Aliases \cup {NoAlias}]
  BY <1>7, DatabaseFields DEF aliases
<1>12. e \in Databases
  BY <1>3, <1>9, <1>11, DatabaseFields DEF Saved, Databases
<1>13. /\ e.rows = [d.rows EXCEPT ![p] = r.mac, ![q] = s.mac]
       /\ e.candidates = d.candidates /\ e.redirects = d.redirects /\ e.aliases = aliases
  BY <1>1, <1>3, <1>9 DEF Saved
<1>14. ASSUME NEW x \in PDIDs \X Values, x[1] \in {p, q}, aliases[x] # NoAlias
       PROVE  \E y \in {p, q} : /\ d.aliases[<<y, x[2]>>] # NoAlias
                                /\ aliases[x].id = d.aliases[<<y, x[2]>>].id
  <2>1. x = <<x[1], x[2]>>
    OBVIOUS
  <2>2. CASE x = <<q, m>>
    BY <1>7, <1>10, <1>14, <2>2 DEF old
  <2>3. CASE x # <<q, m>>
    <3>1. x # <<p, m>> /\ aliases[x] = d.aliases[x]
      BY <1>10, <1>14, <2>3
    <3> QED
      BY <1>14, <2>1, <3>1
  <2> QED
    BY <2>2, <2>3
<1>15. \A x \in PDIDs \X Values : x[1] \notin {p, q} => aliases[x] = d.aliases[x]
  BY <1>10
<1> QED
  BY <1>12, <1>13, <1>14, <1>15 DEF SplitOff, e

\* The device that has a MAC after a device is saved.
HolderAfter(h, p, macs, m) ==
    IF m \in macs /\ h = None THEN p ELSE IF m \notin macs /\ h = p THEN None ELSE h

Gives(e, d, p, r) ==
    \A m \in MACs : e.holder[m] = HolderAfter(d.holder[m], p, r.macs, m)
GivesOn(e, d, s, t, r) ==
    \A m \in MACs :
        e.holder[m] = HolderAfter(IF d.holder[m] = s THEN None ELSE d.holder[m], t, r.macs, m)
GivesUp(e, d, p, r, q, s) ==
    \A m \in MACs :
        e.holder[m] = HolderAfter(HolderAfter(d.holder[m], p, r.macs, m), q, s.macs, m)

LEMMA SaveGives ==
    ASSUME NEW d \in Databases, NEW p, NEW r
    PROVE  Gives(SaveDevice(d, p, r), d, p, r)
<1> DEFINE holder == [m \in MACs |->
                         IF m \in r.macs /\ d.holder[m] = None THEN p
                         ELSE IF m \notin r.macs /\ d.holder[m] = p THEN None ELSE d.holder[m]]
           e == SaveDevice(d, p, r)
<1>1. e.holder = holder
  <2>1. e = [d EXCEPT !.rows[p] = r.mac, !.holder = holder]
    BY DEF SaveDevice
  <2> HIDE DEF holder, e
  <2> QED
    BY <2>1 DEF Databases
<1> HIDE DEF e
<1>2. Gives(e, d, p, r)
  BY <1>1 DEF Gives, HolderAfter
<1> QED
  BY <1>2 DEF e

LEMMA MergeGives ==
    ASSUME NEW d \in Databases, NEW s \in PDIDs, NEW t \in PDIDs, NEW r \in Records
    PROVE  GivesOn(ConfirmIdentityCandidateMerge(d, s, t, r), d, s, t, r)
<1> DEFINE holder == [m \in MACs |-> IF d.holder[m] = s THEN None ELSE d.holder[m]]
           freed == [d EXCEPT !.holder = holder]
           saved == SaveDevice(freed, t, r)
           aliases == [x \in PDIDs \X Values |->
                          IF x[1] = t THEN MergedAlias(d, s, t, x[2])
                          ELSE IF x[1] = s THEN NoAlias ELSE d.aliases[x]]
           e == MergeDevices(d, s, t, r)
           c == ConfirmIdentityCandidateMerge(d, s, t, r)
<1>1. holder \in [MACs -> OrNone(PDIDs)]
  BY DatabaseFields DEF OrNone
<1>2. freed \in Databases /\ freed.holder = holder
  <2> HIDE DEF holder
  <2> QED
    BY <1>1, DatabaseFields DEF Databases
<1>3. Gives(saved, freed, t, r) /\ saved \in Databases
  <2> HIDE DEF freed
  <2> QED
    BY <1>2, SaveGives, SaveKeeps DEF Saved
<1>4. e.holder = saved.holder /\ e \in Databases
  <2>1. e = [saved EXCEPT !.rows[s] = Absent, !.redirects[s] = t, !.aliases = aliases]
    BY DEF MergeDevices
  <2>2. e \in Databases
    BY MergeKeeps DEF MergedInto
  <2> HIDE DEF saved, aliases, e
  <2> QED
    BY <1>3, <2>1, <2>2 DEF Databases
<1>5. c.holder = e.holder
  <2>1. c = [e EXCEPT !.candidates[<<s, t>>] = "confirmed"]
    BY DEF ConfirmIdentityCandidateMerge
  <2> HIDE DEF e, c
  <2> QED
    BY <1>4, <2>1 DEF Databases
<1>6. \A m \in MACs : holder[m] = IF d.holder[m] = s THEN None ELSE d.holder[m]
  OBVIOUS
<1> HIDE DEF holder, freed, saved, e, c
<1>7. GivesOn(c, d, s, t, r)
  BY <1>2, <1>3, <1>4, <1>5, <1>6 DEF Gives, GivesOn
<1> QED
  BY <1>7 DEF c

LEMMA SplitGives ==
    ASSUME NEW d \in Databases, NEW p \in PDIDs, NEW q \in PDIDs,
           NEW r \in Records, NEW s \in Records, NEW m \in MACs
    PROVE  GivesUp(SplitDevice(d, p, r, q, s, m), d, p, r, q, s)
<1> DEFINE first == SaveDevice(d, p, r)
           saved == SaveDevice(first, q, s)
           new == IF d.aliases[<<p, m>>] = NoAlias THEN NoAlias
                  ELSE [d.aliases[<<p, m>>] EXCEPT !.verified = TRUE, !.revoked = FALSE]
           e == SplitDevice(d, p, r, q, s, m)
<1>1. Gives(first, d, p, r) /\ first \in Databases
  BY SaveGives, SaveKeeps DEF Saved
<1> HIDE DEF first
<1>2. Gives(saved, first, q, s) /\ saved \in Databases
  BY <1>1, SaveGives, SaveKeeps DEF Saved
<1>3. e.holder = saved.holder
  <2>1. e = [saved EXCEPT !.aliases[<<p, m>>] = NoAlias, !.aliases[<<q, m>>] = new]
    BY DEF SplitDevice, first
  <2> HIDE DEF saved, new, e
  <2> QED
    BY <1>2, <2>1 DEF Databases
<1> HIDE DEF saved, e
<1>4. GivesUp(e, d, p, r, q, s)
  BY <1>1, <1>2, <1>3 DEF Gives, GivesUp
<1> QED
  BY <1>4 DEF e

-----------------------------------------------------------------------------
(* Recursion over an interval                                              *)

LEMMA Least ==
    ASSUME NEW S, S \subseteq Nat, S # {}
    PROVE  \E x \in S : \A y \in S : x <= y
<1> DEFINE R == OpToRel(<, Nat)
<1>1. IsWellFoundedOn(R, Nat)
  BY NatLessThanWellFounded
<1>2. \A x, y \in Nat : x < y => <<x, y>> \in R
  BY DEF OpToRel
<1> HIDE DEF R
<1>3. PICK x \in S : \A y \in S : ~(<<y, x>> \in R)
  BY <1>1, WFMin
<1>4. \A y \in S : ~(y < x)
  BY <1>2, <1>3
<1>5. \A y \in S : x <= y
  BY <1>4
<1> QED
  BY <1>5

\* A value for each number up to n, from the one before it.
Steps(f, n, p, G) == f = [i \in 0 .. n |-> IF i = 0 THEN p ELSE G[<<i, f[i - 1]>>]]

LEMMA Recursion ==
    ASSUME NEW D, NEW p \in D, NEW k \in Nat, NEW G \in [(1 .. k) \X D -> D],
           NEW n \in 0 .. k
    PROVE  \E f \in [0 .. n -> D] : Steps(f, n, p, G)
<1> DEFINE Bad == {m \in 0 .. k : ~\E f \in [0 .. m -> D] : Steps(f, m, p, G)}
<1> SUFFICES ASSUME Bad # {} PROVE FALSE
  OBVIOUS
<1>1. PICK m \in Bad : \A j \in Bad : m <= j
  <2>1. Bad \subseteq Nat
    OBVIOUS
  <2> HIDE DEF Bad
  <2> QED
    BY <2>1, Least
<1>2. m \in 0 .. k /\ ~\E f \in [0 .. m -> D] : Steps(f, m, p, G)
  BY <1>1
<1>3. m # 0
  <2> DEFINE f == [i \in 0 .. 0 |-> p]
  <2>1. f \in [0 .. 0 -> D] /\ Steps(f, 0, p, G)
    BY DEF Steps
  <2> QED
    BY <1>2, <2>1
<1>4. m - 1 \in 0 .. k /\ m - 1 \notin Bad
  <2>1. m - 1 \in 0 .. k /\ ~(m <= m - 1)
    BY <1>2, <1>3
  <2> HIDE DEF Bad
  <2> QED
    BY <1>1, <2>1
<1>5. PICK f \in [0 .. m - 1 -> D] : Steps(f, m - 1, p, G)
  BY <1>4
<1> DEFINE h == [i \in 0 .. m |-> IF i = m THEN G[<<m, f[m - 1]>>] ELSE f[i]]
<1>6. G[<<m, f[m - 1]>>] \in D
  <2>1. m \in 1 .. k /\ f[m - 1] \in D
    BY <1>2, <1>3
  <2> QED
    BY <2>1
<1>7. h \in [0 .. m -> D]
  BY <1>2, <1>6
<1>8. ASSUME NEW i \in 0 .. m
      PROVE  h[i] = IF i = 0 THEN p ELSE G[<<i, h[i - 1]>>]
  <2>1. CASE i = 0
    BY <1>2, <1>3, <1>5, <2>1 DEF Steps
  <2>2. CASE i = m
    <3>1. i # 0 /\ i - 1 \in 0 .. m /\ i - 1 # m
      BY <1>2, <1>3, <2>2
    <3>2. h[i] = G[<<m, f[m - 1]>>] /\ h[i - 1] = f[i - 1]
      BY <2>2, <3>1
    <3> HIDE DEF h
    <3> QED
      BY <2>2, <3>1, <3>2
  <2>3. CASE i # 0 /\ i # m
    <3>1. i \in 0 .. m - 1 /\ i - 1 \in 0 .. m /\ i - 1 # m
      BY <1>2, <2>3
    <3>2. h[i] = f[i] /\ h[i - 1] = f[i - 1]
      BY <2>3, <3>1
    <3>3. f[i] = IF i = 0 THEN p ELSE G[<<i, f[i - 1]>>]
      BY <1>5, <3>1 DEF Steps
    <3> HIDE DEF h
    <3> QED
      BY <2>3, <3>2, <3>3
  <2> QED
    BY <2>1, <2>2, <2>3
<1>9. Steps(h, m, p, G)
  BY <1>8 DEF Steps
<1> QED
  BY <1>2, <1>7, <1>9

-----------------------------------------------------------------------------
(* SaveDevicesBatch                                                        *)

\* The databases between the first device of the batch and the last.
Saves(f, n, order) ==
    /\ n \in Nat /\ f \in [0 .. n -> Databases] /\ f[0] = db
    /\ order \in [1 .. n -> DOMAIN batch]
    /\ \A i \in 1 .. n : f[i] = SaveDevice(f[i - 1], order[i], batch[order[i]])

LEMMA SavedInSteps ==
    ASSUME TypeOK, NEW order \in Orders(DOMAIN batch)
    PROVE  LET n == Cardinality(DOMAIN batch) IN
           \E f : Saves(f, n, order) /\ SavedAll(order) = f[n]
<1> DEFINE n == Cardinality(DOMAIN batch)
           G == [x \in (1 .. n) \X Databases |->
                    SaveDevice(x[2], order[x[1]], batch[order[x[1]]])]
<1>1. n \in Nat
  <2>1. IsFiniteSet(DOMAIN batch)
    BY FS_Subset, PDIDsAssumption DEF TypeOK
  <2> QED
    BY <2>1, FS_CardinalityType
<1> HIDE DEF n
<1>2. order \in [1 .. n -> DOMAIN batch] /\ Len(order) = n
  BY <1>1 DEF Orders, n
<1>3. \A i \in 1 .. n : order[i] \in PDIDs /\ batch[order[i]] \in Records
  BY <1>2 DEF TypeOK
<1>4. \A x \in (1 .. n) \X Databases :
          SaveDevice(x[2], order[x[1]], batch[order[x[1]]]) \in Databases
  <2> SUFFICES ASSUME NEW x \in (1 .. n) \X Databases
               PROVE  SaveDevice(x[2], order[x[1]], batch[order[x[1]]]) \in Databases
    OBVIOUS
  <2>1. x[1] \in 1 .. n /\ x[2] \in Databases
    OBVIOUS
  <2>2. Saved(SaveDevice(x[2], order[x[1]], batch[order[x[1]]]), x[2], order[x[1]],
              batch[order[x[1]]])
    BY <1>3, <2>1, SaveKeeps
  <2> QED
    BY <2>2 DEF Saved
<1>5. db \in Databases
  BY DEF TypeOK
<1>6. G \in [(1 .. n) \X Databases -> Databases]
  BY <1>4
<1>7. \A i \in 1 .. n : \A e \in Databases :
          G[<<i, e>>] = SaveDevice(e, order[i], batch[order[i]])
  OBVIOUS
<1> HIDE DEF G
<1>8. PICK f \in [0 .. n -> Databases] : Steps(f, n, db, G)
  <2>1. n \in 0 .. n
    BY <1>1
  <2> QED
    BY <1>1, <1>5, <1>6, <2>1, Recursion
<1>9. f = [i \in 0 .. n |->
             IF i = 0 THEN db ELSE SaveDevice(f[i - 1], order[i], batch[order[i]])]
  <2>1. ASSUME NEW i \in 0 .. n, i # 0
        PROVE  G[<<i, f[i - 1]>>] = SaveDevice(f[i - 1], order[i], batch[order[i]])
    <3>1. i \in 1 .. n /\ f[i - 1] \in Databases
      BY <1>1, <2>1
    <3> QED
      BY <1>7, <3>1
  <2> QED
    BY <1>8, <2>1 DEF Steps
<1> DEFINE saved[i \in 0 .. n] ==
               IF i = 0 THEN db ELSE SaveDevice(saved[i - 1], order[i], batch[order[i]])
<1>10. saved = [i \in 0 .. n |->
                  IF i = 0 THEN db ELSE SaveDevice(saved[i - 1], order[i], batch[order[i]])]
  BY <1>9
<1>11. SavedAll(order) = saved[n]
  BY <1>2 DEF SavedAll
<1> HIDE DEF saved
<1>12. \A i \in 0 .. n : saved[i] \in Databases
  <2> DEFINE Bad == {i \in 0 .. n : saved[i] \notin Databases}
  <2> SUFFICES ASSUME Bad # {} PROVE FALSE
    OBVIOUS
  <2>1. PICK m \in Bad : \A j \in Bad : m <= j
    <3>1. Bad \subseteq Nat
      BY <1>1
    <3> HIDE DEF Bad
    <3> QED
      BY <3>1, Least
  <2>2. m \in 0 .. n /\ saved[m] \notin Databases
    BY <2>1
  <2>3. m # 0
    BY <1>1, <1>5, <1>10, <2>2
  <2>4. m - 1 \in 0 .. n /\ ~(m <= m - 1) /\ m \in 1 .. n
    BY <1>1, <2>2, <2>3
  <2>5. saved[m - 1] \in Databases
    BY <2>1, <2>4
  <2>6. saved[m] = SaveDevice(saved[m - 1], order[m], batch[order[m]])
    BY <1>10, <2>2, <2>3
  <2>7. Saved(saved[m], saved[m - 1], order[m], batch[order[m]])
    BY <1>3, <2>4, <2>5, <2>6, SaveKeeps
  <2> QED
    BY <2>2, <2>7 DEF Saved
<1>13. saved \in [0 .. n -> Databases] /\ saved[0] = db
  BY <1>1, <1>10, <1>12
<1>14. \A i \in 1 .. n : saved[i] = SaveDevice(saved[i - 1], order[i], batch[order[i]])
  BY <1>1, <1>10
<1>15. Saves(saved, n, order)
  BY <1>1, <1>2, <1>13, <1>14 DEF Saves
<1> QED
  BY <1>11, <1>15 DEF n

\* The devices of the batch have a row afterwards, and nothing else changes.
Flushed(e) ==
    /\ e \in Databases
    /\ e.aliases = db.aliases /\ e.candidates = db.candidates /\ e.redirects = db.redirects
    /\ \A p \in PDIDs \ DOMAIN batch : e.rows[p] = db.rows[p]
    /\ Stored(db) \subseteq Stored(e)

LEMMA FlushKeeps ==
    ASSUME TypeOK, NEW order \in Orders(DOMAIN batch)
    PROVE  Flushed(SavedAll(order))
<1> DEFINE n == Cardinality(DOMAIN batch)
<1>1. PICK f : Saves(f, n, order) /\ SavedAll(order) = f[n]
  BY SavedInSteps
<1> HIDE DEF n
<1>2. n \in Nat /\ \A i \in 1 .. n : order[i] \in DOMAIN batch /\ batch[order[i]] \in Records
  BY <1>1 DEF Saves, TypeOK
<1>3. ASSUME NEW e, Flushed(e), NEW p \in DOMAIN batch, NEW r \in Records
      PROVE  Flushed(SaveDevice(e, p, r))
  <2>1. p \in PDIDs /\ e \in Databases
    BY <1>3 DEF TypeOK, Flushed
  <2>2. Saved(SaveDevice(e, p, r), e, p, r)
    BY <2>1, SaveKeeps
  <2>3. r.mac # Absent
    BY RecordFields, AbsentAssumption
  <2> DEFINE new == SaveDevice(e, p, r)
  <2> HIDE DEF new
  <2>4. /\ new \in Databases /\ new.rows = [e.rows EXCEPT ![p] = r.mac]
        /\ new.aliases = e.aliases /\ new.candidates = e.candidates
        /\ new.redirects = e.redirects
    BY <2>2 DEF Saved, new
  <2>5. \A q \in PDIDs \ DOMAIN batch : new.rows[q] = db.rows[q]
    BY <1>3, <2>1, <2>4, DatabaseFields DEF Flushed
  <2>6. Stored(db) \subseteq Stored(new)
    BY <1>3, <2>1, <2>3, <2>4, DatabaseFields DEF Flushed, Stored
  <2>7. Flushed(new)
    BY <1>3, <2>4, <2>5, <2>6 DEF Flushed
  <2> QED
    BY <2>7 DEF new
<1>4. \A i \in 0 .. n : Flushed(f[i])
  <2> DEFINE Bad == {i \in 0 .. n : ~Flushed(f[i])}
  <2> SUFFICES ASSUME Bad # {} PROVE FALSE
    OBVIOUS
  <2>1. PICK m \in Bad : \A j \in Bad : m <= j
    <3>1. Bad \subseteq Nat
      BY <1>2
    <3> HIDE DEF Bad
    <3> QED
      BY <3>1, Least
  <2>2. m \in 0 .. n /\ ~Flushed(f[m])
    BY <2>1
  <2>3. m # 0
    BY <1>1, <2>2 DEF Saves, Flushed, TypeOK
  <2>4. m - 1 \in 0 .. n /\ ~(m <= m - 1) /\ m \in 1 .. n
    BY <1>2, <2>2, <2>3
  <2>5. Flushed(f[m - 1])
    BY <2>1, <2>4
  <2>6. f[m] = SaveDevice(f[m - 1], order[m], batch[order[m]])
    BY <1>1, <2>4 DEF Saves
  <2>7. Flushed(f[m])
    BY <1>2, <1>3, <2>4, <2>5, <2>6
  <2> QED
    BY <2>2, <2>7
<1>5. n \in 0 .. n
  BY <1>2
<1> QED
  BY <1>1, <1>4, <1>5

\* After the devices in S were saved: only those of the batch got a MAC, a MAC
\* was taken from one only if its clone did not have it, and a MAC that was
\* nobody's is somebody's if a clone has it.
Settled(e, S) ==
    \A m \in MACs :
        /\ e.holder[m] # None =>
              \/ e.holder[m] = db.holder[m]
              \/ e.holder[m] \in DOMAIN batch /\ m \in batch[e.holder[m]].macs
        /\ db.holder[m] # None /\ e.holder[m] # db.holder[m] =>
              db.holder[m] \in DOMAIN batch /\ m \notin batch[db.holder[m]].macs
        /\ db.holder[m] = None =>
              \A p \in S : m \in batch[p].macs => e.holder[m] # None

LEMMA AllOrdered ==
    ASSUME NEW S, IsFiniteSet(S), NEW order \in Orders(S), NEW p \in S
    PROVE  \E i \in 1 .. Cardinality(S) : order[i] = p
<1> DEFINE n == Cardinality(S)
<1>1. n \in Nat
  BY FS_CardinalityType
<1>2. Cardinality(1 .. n) = n
  <2> HIDE DEF n
  <2>1. Cardinality(1 .. n) = IF 1 > n THEN 0 ELSE n - 1 + 1
    BY <1>1, FS_Interval
  <2> QED
    BY <1>1, <2>1
<1>3. order \in Injection(1 .. n, S)
  BY DEF Orders, Injection, IsInjective
<1>4. order \in Surjection(1 .. n, S)
  <2> HIDE DEF n
  <2> QED
    BY <1>2, <1>3, FS_Injection DEF n
<1> QED
  BY <1>4 DEF Surjection

LEMMA FlushSettles ==
    ASSUME TypeOK, NEW order \in Orders(DOMAIN batch)
    PROVE  Settled(SavedAll(order), DOMAIN batch)
<1> DEFINE n == Cardinality(DOMAIN batch)
           Done(i) == {order[j] : j \in 1 .. i}
<1>1. PICK f : Saves(f, n, order) /\ SavedAll(order) = f[n]
  BY SavedInSteps
<1>2. \A p \in DOMAIN batch : \E i \in 1 .. n : order[i] = p
  <2>1. IsFiniteSet(DOMAIN batch)
    BY FS_Subset, PDIDsAssumption DEF TypeOK
  <2> QED
    BY <2>1, AllOrdered
<1> HIDE DEF n
<1>3. n \in Nat /\ \A i \in 1 .. n : order[i] \in DOMAIN batch /\ order[i] \in PDIDs
  BY <1>1 DEF Saves, TypeOK
<1>4. ASSUME NEW i \in 1 .. n, Settled(f[i - 1], Done(i - 1))
      PROVE  Settled(f[i], Done(i))
  <2> DEFINE p == order[i]
             d == f[i - 1]
             e == f[i]
  <2>1. p \in DOMAIN batch /\ p \in PDIDs /\ p # None
    BY <1>3, NoneAssumption
  <2>2. d \in Databases
    BY <1>1, <1>3 DEF Saves
  <2>3. Gives(e, d, p, batch[p])
    BY <1>1, <2>2, SaveGives DEF Saves
  <2>4. Done(i) = Done(i - 1) \cup {p}
    BY <1>3
  <2>5. Settled(d, Done(i - 1))
    BY <1>4
  <2> HIDE DEF p, d, e, Done
  <2>6. ASSUME NEW m \in MACs
        PROVE  /\ e.holder[m] # None =>
                     \/ e.holder[m] = db.holder[m]
                     \/ e.holder[m] \in DOMAIN batch /\ m \in batch[e.holder[m]].macs
               /\ db.holder[m] # None /\ e.holder[m] # db.holder[m] =>
                     db.holder[m] \in DOMAIN batch /\ m \notin batch[db.holder[m]].macs
               /\ db.holder[m] = None =>
                     \A q \in Done(i) : m \in batch[q].macs => e.holder[m] # None
    <3>1. e.holder[m] = HolderAfter(d.holder[m], p, batch[p].macs, m)
      BY <2>3 DEF Gives
    <3>2. /\ d.holder[m] # None =>
                \/ d.holder[m] = db.holder[m]
                \/ d.holder[m] \in DOMAIN batch /\ m \in batch[d.holder[m]].macs
          /\ db.holder[m] # None /\ d.holder[m] # db.holder[m] =>
                db.holder[m] \in DOMAIN batch /\ m \notin batch[db.holder[m]].macs
          /\ db.holder[m] = None =>
                \A q \in Done(i - 1) : m \in batch[q].macs => d.holder[m] # None
      BY <2>5 DEF Settled
    <3>3. CASE m \in batch[p].macs /\ d.holder[m] = None
      BY <2>1, <3>1, <3>2, <3>3 DEF HolderAfter
    <3>4. CASE m \notin batch[p].macs /\ d.holder[m] = p
      BY <2>1, <2>4, <3>1, <3>2, <3>4 DEF HolderAfter
    <3>5. CASE /\ ~(m \in batch[p].macs /\ d.holder[m] = None)
               /\ ~(m \notin batch[p].macs /\ d.holder[m] = p)
      <4>1. e.holder[m] = d.holder[m]
        BY <3>1, <3>5 DEF HolderAfter
      <4> QED
        BY <2>4, <3>2, <3>5, <4>1
    <3> QED
      BY <3>3, <3>4, <3>5
  <2>7. Settled(e, Done(i))
    BY <2>6 DEF Settled
  <2> QED
    BY <2>7 DEF e
<1>5. \A i \in 0 .. n : Settled(f[i], Done(i))
  <2> DEFINE Bad == {i \in 0 .. n : ~Settled(f[i], Done(i))}
  <2> SUFFICES ASSUME Bad # {} PROVE FALSE
    OBVIOUS
  <2>1. PICK m \in Bad : \A j \in Bad : m <= j
    <3>1. Bad \subseteq Nat
      BY <1>3
    <3> HIDE DEF Bad
    <3> QED
      BY <3>1, Least
  <2>2. m \in 0 .. n /\ ~Settled(f[m], Done(m))
    BY <2>1
  <2>3. m # 0
    <3>1. Done(0) = {} /\ f[0] = db
      BY <1>1 DEF Saves
    <3>2. Settled(db, {})
      BY DEF Settled
    <3> HIDE DEF Done
    <3> QED
      BY <2>2, <3>1, <3>2
  <2>4. m - 1 \in 0 .. n /\ ~(m <= m - 1) /\ m \in 1 .. n
    BY <1>3, <2>2, <2>3
  <2>5. Settled(f[m - 1], Done(m - 1))
    BY <2>1, <2>4
  <2> QED
    BY <1>4, <2>2, <2>4, <2>5
<1>6. Done(n) = DOMAIN batch
  BY <1>2, <1>3
<1>7. n \in 0 .. n
  BY <1>3
<1> HIDE DEF Done
<1> QED
  BY <1>1, <1>5, <1>6, <1>7

-----------------------------------------------------------------------------
(* Types, and the MAC index                                                *)

LEMMA ObserverFields ==
    ASSUME TypeOK, NEW o \in Observers, observer[o].at # "idle"
    PROVE  /\ observer[o] \in Observing
           /\ observer[o].device \in PDIDs /\ observer[o].clone \in Records
           /\ observer[o].todo \in Seq(Values) /\ observer[o].record \in Records
           /\ observer[o].id \in OrNone(PDIDs) /\ observer[o].new \in BOOLEAN
           /\ observer[o].target \in OrNone(PDIDs)
<1>1. observer[o] \in {Idle} \cup Observing
  BY DEF TypeOK
<1>2. observer[o] \in Observing
  BY <1>1 DEF Idle
<1> QED
  BY <1>2 DEF Observing

LEMMA AdminFields ==
    ASSUME TypeOK, NEW a \in Admins
    PROVE  /\ admin[a].at = "bind" => admin[a] \in Binding
           /\ admin[a].at = "bound" => admin[a] \in Bound
           /\ admin[a].at = "revoked" => admin[a] \in Revoking
           /\ admin[a].at = "confirm" => admin[a] \in Confirming
           /\ admin[a].at \in {"merged", "moved"} => admin[a] \in Moving
           /\ admin[a].at \in {"split", "parted", "shrunk"} => admin[a] \in Splitting
<1>1. admin[a] \in {Idle} \cup Requesting
  BY DEF TypeOK
<1> QED
  BY <1>1 DEF Requesting, Idle, Binding, Bound, Revoking, Confirming, Moving, Splitting

\* One goroutine has another job.
LEMMA ObserverMoves ==
    ASSUME Sound, NEW o \in Observers, NEW job \in {Idle} \cup Observing,
           job.at \in {"save", "note"} => job.todo # <<>>,
           observer' = [observer EXCEPT ![o] = job]
    PROVE  /\ observer' \in [Observers -> {Idle} \cup Observing]
           /\ SignalLeft'
BY DEF Sound, TypeOK, SignalLeft

\* One request has another job.
LEMMA AdminMoves ==
    ASSUME TypeOK, NEW a \in Admins, NEW job \in {Idle} \cup Requesting, Goto(a, job)
    PROVE  admin' \in [Admins -> {Idle} \cup Requesting]
BY DEF TypeOK, Goto

LEMMA InitSound == Init => Sound
<1> SUFFICES ASSUME Init PROVE Sound
  OBVIOUS
<1>1. db \in Databases
  <2>1. [p \in PDIDs |-> IF p \in DOMAIN Known THEN Known[p] ELSE Absent]
            \in [PDIDs -> OrNone(MACs) \cup {Absent}]
    BY KnownAssumption DEF OrNone
  <2>2. [m \in MACs |-> IF \E p \in DOMAIN Known : Known[p] = m
                        THEN CHOOSE p \in DOMAIN Known : Known[p] = m ELSE None]
            \in [MACs -> OrNone(PDIDs)]
    <3>1. ASSUME NEW m \in MACs, \E p \in DOMAIN Known : Known[p] = m
          PROVE  (CHOOSE p \in DOMAIN Known : Known[p] = m) \in PDIDs
      BY <3>1, KnownAssumption
    <3> QED
      BY <3>1 DEF OrNone
  <2>3. [x \in PDIDs \X Values |->
            IF x[1] \in DOMAIN Known /\ Known[x[1]] = x[2]
            THEN [id |-> x[1], verified |-> FALSE, revoked |-> FALSE] ELSE NoAlias]
            \in [PDIDs \X Values -> Aliases \cup {NoAlias}]
    BY DEF Aliases
  <2>4. [c \in PDIDs \X PDIDs |-> IF c \in Proposed THEN "pending" ELSE "none"]
            \in [PDIDs \X PDIDs -> Statuses]
    BY DEF Statuses
  <2>5. [p \in PDIDs |-> IF p \in DOMAIN MergedBefore THEN MergedBefore[p] ELSE None]
            \in [PDIDs -> OrNone(PDIDs)]
    BY KnownAssumption DEF OrNone
  <2> QED
    BY <2>1, <2>2, <2>3, <2>4, <2>5, DatabaseMade DEF Init, Before
<1>2. inv \in Inventories /\ MACIndexed(inv)
  BY <1>1, HydrateKeeps DEF Init
<1>3. activity \in [PDIDs \X Values -> Activities \cup {Unknown}]
  BY <1>1, DatabaseFields, Distinct DEF Init, Loaded
<1>4. /\ dirty = {} /\ DOMAIN batch = {} /\ issued \subseteq PDIDs
      /\ observer \in [Observers -> {Idle} \cup Observing]
      /\ admin \in [Admins -> {Idle} \cup Requesting]
  BY KnownAssumption DEF Init, NoBatch
<1>5. /\ observations \in 0 .. MaxObservations /\ requests \in 0 .. MaxRequests
      /\ restarts \in 0 .. MaxRestarts
      /\ ghosts = {} /\ overwritten = {} /\ denied = {} /\ disturbed = {}
  BY BoundsAssumption DEF Init
<1>6. SignalLeft
  BY DEF Init, Idle, SignalLeft
<1> QED
  BY <1>1, <1>2, <1>3, <1>4, <1>5, <1>6 DEF Sound, TypeOK

\* An observation is for a device of the cache.
LEMMA LookupCached ==
    ASSUME Sound, NEW m \in MACs, NEW cred, Lookup(m, cred) # None
    PROVE  Lookup(m, cred) \in Cached(inv)
<1>1. inv.byMAC[m] # None => inv.byMAC[m] \in Cached(inv)
  BY DEF Sound, MACIndexed
<1> QED
  BY <1>1 DEF Lookup

LEMMA SignalsType ==
    ASSUME NEW m \in MACs, NEW cred \in OrNone(Credentials)
    PROVE  Signals(m, cred) \in Seq(Values) /\ Signals(m, cred) # <<>>
<1>1. m \in Values /\ (cred # None => cred \in Values)
  BY DEF OrNone, Values
<1>2. CASE cred = None
  BY <1>1, <1>2 DEF Signals
<1>3. CASE cred # None
  BY <1>1, <1>3 DEF Signals
<1> QED
  BY <1>2, <1>3

LEMMA SoundObserve ==
    ASSUME Sound, NEW o \in Observers, NEW m \in MACs, NEW cred \in OrNone(Credentials),
           NEW on \in BOOLEAN, Observe(o, m, cred, on)
    PROVE  Sound'
<1> DEFINE p == Lookup(m, cred)
           r == inv.devices[p]
           job == [at |-> "next", device |-> p, clone |-> r, todo |-> Signals(m, cred),
                   record |-> Rec(r.macs \cup {m}, m, r.online \/ on), id |-> None,
                   new |-> FALSE, target |-> None]
<1>1. p \in Cached(inv) /\ p \in PDIDs /\ r \in Records
  <2>1. p \in Cached(inv)
    BY LookupCached DEF Observe
  <2>2. inv \in Inventories
    BY DEF Sound, TypeOK
  <2> QED
    BY <2>1, <2>2, CacheFields
<1> HIDE DEF p
<1>2. Rec(r.macs \cup {m}, m, r.online \/ on) \in Records
  <2>1. r.macs \cup {m} \in SUBSET MACs /\ m \in OrNone(MACs) /\ (r.online \/ on) \in BOOLEAN
    BY <1>1, RecordFields DEF OrNone
  <2> QED
    BY <2>1, RecType
<1>3. job \in Observing
  BY <1>1, <1>2, SignalsType DEF Observing, OrNone
<1>4. observer' = [observer EXCEPT ![o] = job]
  BY DEF Observe, p
<1>5. job.at \notin {"save", "note"}
  OBVIOUS
<1> HIDE DEF job
<1>6. observer' \in [Observers -> {Idle} \cup Observing] /\ SignalLeft'
  BY <1>3, <1>4, <1>5, ObserverMoves
<1>7. /\ observations' \in 0 .. MaxObservations
      /\ UNCHANGED <<db, inv, activity, dirty, batch, admin, issued, requests, restarts, ghosts,
                     overwritten, denied, disturbed>>
  BY BoundsAssumption DEF Observe, Sound, TypeOK, memory, history
<1> QED
  BY <1>6, <1>7 DEF Sound, TypeOK

LEMMA SoundCreate ==
    ASSUME Sound, NEW o \in Observers, NEW m \in MACs, NEW cred \in OrNone(Credentials),
           NEW on \in BOOLEAN, NEW target \in OrNone(Cached(inv)),
           Create(o, m, cred, on, target)
    PROVE  Sound'
<1> DEFINE r == Rec({m}, m, on)
<1>1. r \in Records
  BY RecType DEF OrNone
<1> HIDE DEF r
<1>2. PICK p \in PDIDs \ issued :
          /\ issued' = issued \cup {p}
          /\ inv' = Upsert(inv, p, r)
          /\ observer' = [observer EXCEPT ![o] =
                 [at |-> "new", device |-> p, clone |-> r, todo |-> Signals(m, cred),
                  record |-> r, id |-> None, new |-> TRUE, target |-> target]]
  BY DEF Create, r
<1> DEFINE job == [at |-> "new", device |-> p, clone |-> r, todo |-> Signals(m, cred),
                   record |-> r, id |-> None, new |-> TRUE, target |-> target]
<1>3. target \in OrNone(PDIDs)
  BY DEF OrNone, Cached
<1>4. job \in Observing /\ job.at \notin {"save", "note"}
  BY <1>1, <1>3, SignalsType DEF Observing, OrNone
<1>5. observer' = [observer EXCEPT ![o] = job]
  BY <1>2
<1> HIDE DEF job
<1>6. observer' \in [Observers -> {Idle} \cup Observing] /\ SignalLeft'
  BY <1>4, <1>5, ObserverMoves
<1>7. inv' \in Inventories /\ MACIndexed(inv')
  <2>1. inv \in Inventories /\ MACIndexed(inv)
    BY DEF Sound, TypeOK
  <2> QED
    BY <1>1, <1>2, <2>1, UpsertKeeps DEF Becomes
<1>8. dirty' \subseteq PDIDs /\ issued' \subseteq PDIDs
  BY <1>2, <1>3 DEF Create, Sound, TypeOK, OrNone
<1>9. /\ observations' \in 0 .. MaxObservations
      /\ UNCHANGED <<db, activity, batch, admin, requests, restarts, ghosts,
                     overwritten, denied, disturbed>>
  BY BoundsAssumption DEF Create, Sound, TypeOK, memory, history
<1> QED
  BY <1>6, <1>7, <1>8, <1>9 DEF Sound, TypeOK

LEMMA SoundPersist ==
    ASSUME Sound, NEW o \in Observers, Persist(o)
    PROVE  Sound'
<1> DEFINE job == [observer[o] EXCEPT !.at = "next"]
<1>1. observer[o] \in Observing
  BY ObserverFields DEF Persist, Sound
<1>2. job \in Observing /\ job.at \notin {"save", "note"}
  BY <1>1 DEF Observing
<1>3. observer' = [observer EXCEPT ![o] = job]
  BY <1>1 DEF Persist
<1> HIDE DEF job
<1>4. observer' \in [Observers -> {Idle} \cup Observing] /\ SignalLeft'
  BY <1>2, <1>3, ObserverMoves
<1>5. db' \in Databases
  <2>1. observer[o].device \in PDIDs /\ observer[o].clone \in Records /\ db \in Databases
    BY <1>1 DEF Observing, Sound, TypeOK
  <2> QED
    BY <2>1, SaveKeeps DEF Persist, Saved
<1>6. UNCHANGED <<inv, activity, dirty, batch, admin, issued, observations, requests, restarts,
                  ghosts, denied, disturbed>>
  BY DEF Persist, memory, counters
<1>7. overwritten' \subseteq PDIDs
  BY <1>1 DEF Persist, Stores, Observing, Sound, TypeOK
<1> QED
  BY <1>4, <1>5, <1>6, <1>7 DEF Sound, TypeOK

LEMMA SoundPersistFails ==
    ASSUME Sound, NEW o \in Observers, PersistFails(o)
    PROVE  Sound'
<1>1. observer' \in [Observers -> {Idle} \cup Observing] /\ SignalLeft'
  BY ObserverMoves DEF PersistFails, Idle
<1>2. inv' \in Inventories /\ MACIndexed(inv')
  <2>1. inv \in Inventories /\ MACIndexed(inv) /\ observer[o].device \in PDIDs
    BY ObserverFields DEF Sound, TypeOK, PersistFails
  <2> QED
    BY <2>1, DeleteKeeps DEF PersistFails, Becomes
<1>3. UNCHANGED <<db, activity, dirty, batch, admin, issued, observations, requests, restarts,
                  ghosts, denied, disturbed>>
  BY DEF PersistFails, counters
<1>4. overwritten' \subseteq PDIDs
  BY DEF PersistFails, Sound, TypeOK
<1> QED
  BY <1>1, <1>2, <1>3, <1>4 DEF Sound, TypeOK

\* The signal that is next.
LEMMA SignalType ==
    ASSUME Sound, NEW o \in Observers, observer[o].at # "idle", observer[o].todo # <<>>
    PROVE  /\ Head(observer[o].todo) \in Values /\ Tail(observer[o].todo) \in Seq(Values)
           /\ Signal(o) \in PDIDs \X Values
           /\ Signal(o)[1] = observer[o].device /\ Signal(o)[2] = Head(observer[o].todo)
<1>1. observer[o].device \in PDIDs /\ observer[o].todo \in Seq(Values)
  BY ObserverFields DEF Sound
<1>2. Head(observer[o].todo) \in Values /\ Tail(observer[o].todo) \in Seq(Values)
  BY <1>1
<1> QED
  BY <1>1, <1>2 DEF Signal

LEMMA SoundCheck ==
    ASSUME Sound, NEW o \in Observers, NEW higher \in BOOLEAN, Check(o, higher)
    PROVE  Sound'
<1> DEFINE x == Signal(o)
<1>1. observer[o] \in Observing /\ observer[o].at = "next" /\ observer[o].todo # <<>>
  BY ObserverFields DEF Check, Sound
<1>2. x \in PDIDs \X Values /\ x[1] = observer[o].device
  BY <1>1, SignalType
<1>3. activity' \in [PDIDs \X Values -> Activities \cup {Unknown}]
  <2>1. activity' = [activity EXCEPT ![x] =
            IF activity[x] = Unknown THEN [id |-> None, verified |-> FALSE, revoked |-> FALSE]
            ELSE activity[x]]
    BY DEF Check, Signal
  <2>2. [id |-> None, verified |-> FALSE, revoked |-> FALSE] \in Activities
    BY DEF Activities, OrNone
  <2> QED
    BY <1>2, <2>1, <2>2 DEF Sound, TypeOK
<1>4. disturbed' \subseteq PDIDs
  BY <1>1 DEF Check, Sound, TypeOK, Observing
<1>5. observer' \in [Observers -> {Idle} \cup Observing] /\ SignalLeft'
  <2> DEFINE save == [observer[o] EXCEPT !.at = "save"]
             skip == [observer[o] EXCEPT !.todo = Tail(observer[o].todo)]
  <2>1. save \in Observing /\ save.todo # <<>>
    BY <1>1 DEF Observing
  <2>2. Tail(observer[o].todo) \in Seq(Values)
    BY <1>1, SignalType
  <2>3. skip \in Observing /\ skip.at \notin {"save", "note"}
    BY <1>1, <2>2 DEF Observing
  <2>4. observer' = [observer EXCEPT ![o] = save] \/ observer' = [observer EXCEPT ![o] = skip]
    BY DEF Check
  <2> HIDE DEF save, skip
  <2> QED
    BY <2>1, <2>3, <2>4, ObserverMoves
<1>6. UNCHANGED <<db, inv, dirty, batch, admin, issued, observations, requests, restarts,
                  ghosts, overwritten, denied>>
  BY DEF Check, counters
<1> QED
  BY <1>3, <1>4, <1>5, <1>6 DEF Sound, TypeOK

LEMMA SkipMoves ==
    ASSUME Sound, NEW o \in Observers, observer[o].at \in {"save", "note"}, Skip(o)
    PROVE  observer' \in [Observers -> {Idle} \cup Observing] /\ SignalLeft'
<1> DEFINE job == [observer[o] EXCEPT !.at = "next", !.todo = Tail(observer[o].todo)]
<1>1. observer[o] \in Observing /\ observer[o].todo # <<>>
  BY ObserverFields DEF Sound, SignalLeft
<1>2. Tail(observer[o].todo) \in Seq(Values)
  BY <1>1, SignalType
<1>3. job \in Observing /\ job.at \notin {"save", "note"}
  BY <1>1, <1>2 DEF Observing
<1>4. observer' = [observer EXCEPT ![o] = job]
  BY DEF Skip
<1> HIDE DEF job
<1> QED
  BY <1>3, <1>4, ObserverMoves

\* What a save does: the alias is inserted or kept, and its id taken along.
SavedAlias(o) ==
    LET v == Head(observer[o].todo) IN
    /\ ~(v \in Credentials /\ Conflict(db, observer[o].device, v))
    /\ Upserted(db', db, observer[o].device, v, v \in Credentials)
    /\ observer' = [observer EXCEPT ![o] =
           [observer[o] EXCEPT !.at = "note", !.id = db'.aliases[Signal(o)].id]]

LEMMA SaveMoves ==
    ASSUME Sound, NEW o \in Observers, Save(o)
    PROVE  SavedAlias(o) \/ (Skip(o) /\ UNCHANGED db)
<1>1. observer[o].at = "save" /\ observer[o].todo # <<>>
  BY DEF Save, Sound, SignalLeft
<1>2. observer[o].device \in PDIDs /\ Head(observer[o].todo) \in Values /\ db \in Databases
  BY <1>1, SignalType, ObserverFields DEF Sound, TypeOK
<1>3. ASSUME ~(Skip(o) /\ UNCHANGED db)
      PROVE  SavedAlias(o)
  <2> DEFINE v == Head(observer[o].todo)
  <2>1. /\ ~(v \in Credentials /\ Conflict(db, observer[o].device, v))
        /\ db' = UpsertAlias(db, observer[o].device, v, v \in Credentials)
        /\ observer' = [observer EXCEPT
               ![o].at = "note", ![o].id = db'.aliases[<<observer[o].device, v>>].id]
    BY <1>3 DEF Save
  <2>2. Upserted(db', db, observer[o].device, v, v \in Credentials)
    <3> DEFINE verified == v \in Credentials
    <3>1. verified \in BOOLEAN
      OBVIOUS
    <3>2. db' = UpsertAlias(db, observer[o].device, v, verified)
      BY <2>1
    <3> HIDE DEF verified
    <3>3. Upserted(db', db, observer[o].device, v, verified)
      BY <1>2, <3>1, <3>2, UpsertAliasKeeps
    <3> QED
      BY <3>3 DEF verified
  <2>3. observer' = [observer EXCEPT ![o] =
            [observer[o] EXCEPT !.at = "note", !.id = db'.aliases[Signal(o)].id]]
    BY <2>1 DEF Signal
  <2> QED
    BY <2>1, <2>2, <2>3 DEF SavedAlias
<1> QED
  BY <1>3

LEMMA SoundSave ==
    ASSUME Sound, NEW o \in Observers, Save(o)
    PROVE  Sound'
<1>1. observer[o].at = "save" /\ observer[o].todo # <<>> /\ observer[o] \in Observing
  BY ObserverFields DEF Save, Sound, SignalLeft
<1>2. db' \in Databases /\ observer' \in [Observers -> {Idle} \cup Observing] /\ SignalLeft'
  <2>1. CASE SavedAlias(o)
    <3> DEFINE job == [observer[o] EXCEPT !.at = "note", !.id = db'.aliases[Signal(o)].id]
    <3>1. db' \in Databases /\ db'.aliases[Signal(o)] \in Aliases
      BY <2>1 DEF SavedAlias, Upserted, Signal
    <3>2. db'.aliases[Signal(o)].id \in OrNone(PDIDs)
      BY <3>1 DEF Aliases, OrNone
    <3>3. job \in Observing /\ job.todo # <<>>
      BY <1>1, <3>2 DEF Observing
    <3>4. observer' = [observer EXCEPT ![o] = job]
      BY <2>1 DEF SavedAlias
    <3> HIDE DEF job
    <3> QED
      BY <3>1, <3>3, <3>4, ObserverMoves
  <2>2. CASE Skip(o) /\ UNCHANGED db
    BY <1>1, <2>2, SkipMoves DEF Sound, TypeOK
  <2> QED
    BY <2>1, <2>2, SaveMoves
<1>3. UNCHANGED <<inv, activity, dirty, batch, admin, issued, observations, requests, restarts,
                  ghosts, overwritten, denied, disturbed>>
  BY DEF Save, memory, counters, history
<1> QED
  BY <1>2, <1>3 DEF Sound, TypeOK

LEMMA SoundNote ==
    ASSUME Sound, NEW o \in Observers, Note(o)
    PROVE  Sound'
<1> DEFINE x == Signal(o)
<1>1. observer[o].at = "note" /\ observer[o].todo # <<>> /\ observer[o].id \in OrNone(PDIDs)
  BY ObserverFields DEF Note, Sound, SignalLeft
<1>2. x \in PDIDs \X Values
  BY <1>1, SignalType
<1>3. observer' \in [Observers -> {Idle} \cup Observing] /\ SignalLeft'
  BY <1>1, SkipMoves DEF Note
<1>4. activity' \in [PDIDs \X Values -> Activities \cup {Unknown}]
  <2> DEFINE new == [id |-> observer[o].id,
                     verified |-> activity[x].verified \/ x[2] \in Credentials,
                     revoked |-> FALSE]
  <2>1. activity' = [activity EXCEPT ![x] = new]
    BY DEF Note, Signal
  <2>2. new \in Activities
    BY <1>1 DEF Activities
  <2> HIDE DEF new
  <2> QED
    BY <1>2, <2>1, <2>2 DEF Sound, TypeOK
<1>5. UNCHANGED <<db, inv, dirty, batch, admin, issued, observations, requests, restarts,
                  ghosts, overwritten, denied, disturbed>>
  BY DEF Note, counters, history
<1> QED
  BY <1>3, <1>4, <1>5 DEF Sound, TypeOK

\* What becomes of the candidate of a new device.
LEMMA UpsertCandidateKeeps ==
    ASSUME NEW d \in Databases, NEW s \in PDIDs, NEW t \in PDIDs
    PROVE  LET c == <<s, t>> IN
           Decided(UpsertCandidate(d, s, t), d, c,
                   IF d.candidates[c] = "none" THEN "pending" ELSE d.candidates[c])
<1> DEFINE c == <<s, t>>
           status == IF d.candidates[c] = "none" THEN "pending" ELSE d.candidates[c]
<1>1. c \in PDIDs \X PDIDs
  OBVIOUS
<1>2. status \in Statuses
  BY <1>1, DatabaseFields DEF Statuses
<1>3. UpsertCandidate(d, s, t) = [d EXCEPT !.candidates[c] = status]
  BY DEF UpsertCandidate
<1> HIDE DEF status, c
<1>4. Decided(UpsertCandidate(d, s, t), d, c, status)
  BY <1>1, <1>2, <1>3, DecideKeeps
<1> QED
  BY <1>4 DEF status, c

LEMMA SoundPropose ==
    ASSUME Sound, NEW o \in Observers, Propose(o)
    PROVE  Sound'
<1>1. observer' \in [Observers -> {Idle} \cup Observing] /\ SignalLeft'
  BY ObserverMoves DEF Propose, Idle
<1>2. db \in Databases /\ observer[o].device \in PDIDs /\ observer[o].target \in OrNone(PDIDs)
  BY ObserverFields DEF Propose, Sound, TypeOK
<1>3. db' \in Databases
  BY <1>2, UpsertCandidateKeeps DEF Propose, OrNone, Decided
<1>4. UNCHANGED <<inv, activity, dirty, batch, admin, issued, observations, requests, restarts,
                  ghosts, overwritten, denied, disturbed>>
  BY DEF Propose, memory, counters, history
<1> QED
  BY <1>1, <1>3, <1>4 DEF Sound, TypeOK

\* A clone that goes back to the cache.
LEMMA Upserting ==
    ASSUME Sound, NEW p \in PDIDs, NEW r \in Records, inv' = Upsert(inv, p, r),
           NEW clone, WrittenBack(p), Replaces(p, clone)
    PROVE  /\ inv' \in Inventories /\ MACIndexed(inv')
           /\ inv'.devices = [inv.devices EXCEPT ![p] = r]
           /\ Cached(inv') = Cached(inv) \cup {p}
           /\ ghosts' \subseteq PDIDs /\ overwritten' \subseteq PDIDs
<1>1. inv \in Inventories /\ MACIndexed(inv)
  BY DEF Sound, TypeOK
<1>2. inv' \in Inventories /\ MACIndexed(inv') /\ inv'.devices = [inv.devices EXCEPT ![p] = r]
  BY <1>1, UpsertKeeps DEF Becomes
<1>3. Cached(inv') = Cached(inv) \cup {p}
  BY <1>1, <1>2, Distinct, CacheFields DEF Cached
<1>4. ghosts' \subseteq PDIDs /\ overwritten' \subseteq PDIDs
  BY DEF WrittenBack, Replaces, Sound, TypeOK
<1> QED
  BY <1>2, <1>3, <1>4

LEMMA SoundWrite ==
    ASSUME Sound, NEW o \in Observers, Write(o)
    PROVE  Sound'
<1>1. observer' \in [Observers -> {Idle} \cup Observing] /\ SignalLeft'
  BY ObserverMoves DEF Write, Idle
<1>2. observer[o].device \in PDIDs /\ observer[o].record \in Records
  BY ObserverFields DEF Write, Sound
<1>3. /\ inv' \in Inventories /\ MACIndexed(inv')
      /\ ghosts' \subseteq PDIDs /\ overwritten' \subseteq PDIDs
  BY <1>2, Upserting DEF Write
<1>4. dirty' \subseteq PDIDs
  BY <1>2 DEF Write, Sound, TypeOK
<1>5. UNCHANGED <<db, activity, batch, admin, issued, observations, requests, restarts,
                  denied, disturbed>>
  BY DEF Write, counters
<1> QED
  BY <1>1, <1>3, <1>4, <1>5 DEF Sound, TypeOK

LEMMA SoundSweep ==
    ASSUME Sound, DemoteQuiet
    PROVE  Sound'
<1>1. inv' \in Inventories /\ MACIndexed(inv')
  BY DemoteKeeps
<1>2. UNCHANGED <<db, activity, dirty, batch, observer, admin, issued, observations, requests,
                  restarts, ghosts, overwritten, denied, disturbed>>
  BY DEF DemoteQuiet, counters, history
<1> QED
  BY <1>1, <1>2 DEF Sound, TypeOK, SignalLeft

LEMMA SoundFlush ==
    ASSUME Sound, FlushTake \/ FlushSave \/ FlushFails
    PROVE  Sound'
<1>1. CASE FlushTake
  <2>1. DOMAIN batch' \subseteq PDIDs /\ \A p \in DOMAIN batch' : batch'[p] \in Records
    <3>1. inv \in Inventories
      BY DEF Sound, TypeOK
    <3> QED
      BY <1>1, <3>1, CacheFields DEF FlushTake, Cached
  <2>2. dirty' = {} /\ UNCHANGED <<db, inv, activity, observer, admin, issued, observations,
                                   requests, restarts, ghosts, overwritten, denied, disturbed>>
    BY <1>1 DEF FlushTake, counters, history
  <2> QED
    BY <2>1, <2>2 DEF Sound, TypeOK, SignalLeft
<1>2. CASE FlushSave
  <2>1. db' \in Databases
    BY <1>2, FlushKeeps DEF FlushSave, Flushed, Sound
  <2>2. DOMAIN batch' = {}
    BY <1>2 DEF FlushSave, NoBatch
  <2>3. ghosts' \subseteq PDIDs /\ overwritten' \subseteq PDIDs
    BY <1>2 DEF FlushSave, Sound, TypeOK
  <2>4. UNCHANGED <<inv, activity, dirty, observer, admin, issued, observations, requests,
                    restarts, denied, disturbed>>
    BY <1>2 DEF FlushSave, counters
  <2> QED
    BY <2>1, <2>2, <2>3, <2>4 DEF Sound, TypeOK, SignalLeft
<1>3. CASE FlushFails
  <2>1. DOMAIN batch' = {} /\ dirty' \subseteq PDIDs
    BY <1>3 DEF FlushFails, NoBatch, Sound, TypeOK
  <2>2. UNCHANGED <<db, inv, activity, observer, admin, issued, observations, requests,
                    restarts, ghosts, overwritten, denied, disturbed>>
    BY <1>3 DEF FlushFails, counters, history
  <2> QED
    BY <2>1, <2>2 DEF Sound, TypeOK, SignalLeft
<1> QED
  BY <1>1, <1>2, <1>3

LEMMA Requested ==
    ASSUME Sound, NEW a \in Admins, Request(a)
    PROVE  requests' \in 0 .. MaxRequests
BY BoundsAssumption DEF Request, Sound, TypeOK

LEMMA SoundBindTake ==
    ASSUME Sound, NEW a \in Admins, NEW q, NEW v \in Values, BindTake(a, q, v)
    PROVE  Sound'
<1> DEFINE p == Resolve(db, q)
           job == [at |-> "bind", alias |-> <<p, v>>, clone |-> inv.devices[p]]
<1>1. p \in PDIDs /\ inv.devices[p] \in Records
  <2>1. p \in Cached(inv) /\ inv \in Inventories
    BY DEF BindTake, Sound, TypeOK
  <2> QED
    BY <2>1, CacheFields
<1>2. Goto(a, job)
  BY DEF BindTake
<1> HIDE DEF p
<1>3. job \in Requesting
  BY <1>1 DEF Requesting, Binding
<1>4. admin' \in [Admins -> {Idle} \cup Requesting]
  BY <1>2, <1>3, AdminMoves DEF Sound
<1>5. requests' \in 0 .. MaxRequests
  BY Requested DEF BindTake
<1>6. UNCHANGED <<db, inv, activity, dirty, batch, observer, issued, observations, restarts,
                  ghosts, overwritten, denied, disturbed>>
  BY DEF BindTake, memory, history
<1> QED
  BY <1>4, <1>5, <1>6 DEF Sound, TypeOK, SignalLeft

\* What a bind does: the alias is verified and no longer denied.
BoundAlias(a) ==
    LET x == admin[a].alias IN
    /\ ~Conflict(db, x[1], x[2])
    /\ Upserted(db', db, x[1], x[2], TRUE)
    /\ Goto(a, [at |-> "bound", alias |-> x, clone |-> admin[a].clone, id |-> db'.aliases[x].id])
    /\ denied' = denied \ {x}

LEMMA BindMoves ==
    ASSUME Sound, NEW a \in Admins, Bind(a)
    PROVE  /\ admin[a] \in Binding
           /\ BoundAlias(a) \/ (Finish(a) /\ UNCHANGED <<db, denied>>)
<1>1. admin[a] \in Binding
  BY AdminFields DEF Bind, Sound
<1>2. /\ admin[a].alias[1] \in PDIDs /\ admin[a].alias[2] \in Values
      /\ admin[a].alias = <<admin[a].alias[1], admin[a].alias[2]>>
  BY <1>1 DEF Binding
<1>3. Upserted(UpsertAlias(db, admin[a].alias[1], admin[a].alias[2], TRUE), db,
               admin[a].alias[1], admin[a].alias[2], TRUE)
  BY <1>2, UpsertAliasKeeps DEF Sound, TypeOK
<1>4. CASE Conflict(db, admin[a].alias[1], admin[a].alias[2])
  BY <1>1, <1>4 DEF Bind
<1>5. CASE ~Conflict(db, admin[a].alias[1], admin[a].alias[2])
  BY <1>1, <1>3, <1>5 DEF Bind, BoundAlias
<1> QED
  BY <1>4, <1>5

LEMMA SoundBind ==
    ASSUME Sound, NEW a \in Admins, Bind(a)
    PROVE  Sound'
<1>1. admin[a] \in Binding
  BY BindMoves
<1>2. /\ db' \in Databases /\ denied' \subseteq denied
      /\ admin' \in [Admins -> {Idle} \cup Requesting]
  <2>1. CASE BoundAlias(a)
    <3> DEFINE x == admin[a].alias
    <3>1. x \in PDIDs \X Values /\ x = <<x[1], x[2]>>
      BY <1>1 DEF Binding
    <3>2. db' \in Databases /\ db'.aliases[x] \in Aliases
      BY <2>1, <3>1 DEF BoundAlias, Upserted
    <3>3. [at |-> "bound", alias |-> x, clone |-> admin[a].clone, id |-> db'.aliases[x].id]
              \in Requesting
      BY <1>1, <3>1, <3>2 DEF Requesting, Bound, Binding, Aliases
    <3>4. Goto(a, [at |-> "bound", alias |-> x, clone |-> admin[a].clone,
                   id |-> db'.aliases[x].id]) /\ denied' \subseteq denied
      BY <2>1 DEF BoundAlias
    <3> QED
      BY <3>2, <3>3, <3>4, AdminMoves DEF Sound
  <2>2. CASE Finish(a) /\ UNCHANGED <<db, denied>>
    BY <2>2, AdminMoves DEF Finish, Sound, TypeOK
  <2> QED
    BY <2>1, <2>2, BindMoves
<1>3. UNCHANGED <<inv, activity, dirty, batch, observer, issued, observations, requests, restarts,
                  ghosts, overwritten, disturbed>>
  BY DEF Bind, memory, counters
<1> QED
  BY <1>2, <1>3 DEF Sound, TypeOK, SignalLeft

LEMMA SoundBindNote ==
    ASSUME Sound, NEW a \in Admins, BindNote(a)
    PROVE  Sound'
<1> DEFINE x == admin[a].alias
<1>1. admin[a] \in Bound
  BY AdminFields DEF BindNote, Sound
<1>2. x \in PDIDs \X Values /\ x[1] \in PDIDs /\ admin[a].clone \in Records /\ admin[a].id \in PDIDs
  BY <1>1 DEF Bound
<1>3. /\ inv' \in Inventories /\ MACIndexed(inv')
      /\ ghosts' \subseteq PDIDs /\ overwritten' \subseteq PDIDs
  BY <1>2, Upserting DEF BindNote
<1>4. activity' \in [PDIDs \X Values -> Activities \cup {Unknown}]
  <2>1. [id |-> admin[a].id, verified |-> TRUE, revoked |-> FALSE] \in Activities
    BY <1>2 DEF Activities, OrNone
  <2> QED
    BY <1>2, <2>1 DEF BindNote, Sound, TypeOK
<1>5. admin' \in [Admins -> {Idle} \cup Requesting]
  BY AdminMoves DEF BindNote, Finish, Sound
<1>6. dirty' \subseteq PDIDs
  BY <1>2 DEF BindNote, Sound, TypeOK
<1>7. UNCHANGED <<db, batch, observer, issued, observations, requests, restarts, denied, disturbed>>
  BY DEF BindNote, counters
<1> QED
  BY <1>3, <1>4, <1>5, <1>6, <1>7 DEF Sound, TypeOK, SignalLeft

\* What a revocation does.
LEMMA RevokeMoves ==
    ASSUME Sound, NEW a \in Admins, NEW q, NEW v \in Values, Revoke(a, q, v)
    PROVE  LET x == <<Resolve(db, q), v>> IN
           /\ x \in PDIDs \X Values /\ x[1] = Resolve(db, q) /\ db.aliases[x] \in Aliases
           /\ Denied(db', db, x)
<1> DEFINE x == <<Resolve(db, q), v>>
<1>1. x \in PDIDs \X Values /\ x[1] = Resolve(db, q)
  BY DEF Revoke, Stored
<1>2. db.aliases[x] # NoAlias /\ db' = [db EXCEPT !.aliases[x].revoked = TRUE]
  BY DEF Revoke
<1>3. db \in Databases
  BY DEF Sound, TypeOK
<1> HIDE DEF x
<1>4. db.aliases[x] \in Aliases
  BY <1>1, <1>2, <1>3, DatabaseFields
<1>5. Denied(db', db, x)
  BY <1>1, <1>2, <1>3, RevokeKeeps
<1> QED
  BY <1>1, <1>4, <1>5 DEF x

LEMMA SoundRevoke ==
    ASSUME Sound, NEW a \in Admins, NEW q, NEW v \in Values, Revoke(a, q, v)
    PROVE  Sound'
<1> DEFINE x == <<Resolve(db, q), v>>
<1>1. x \in PDIDs \X Values /\ x[1] \in PDIDs /\ db.aliases[x] \in Aliases /\ db' \in Databases
  BY RevokeMoves DEF Denied
<1>2. /\ Goto(a, [at |-> "revoked", alias |-> x, id |-> db.aliases[x].id])
      /\ denied' = denied \cup {x}
      /\ disturbed' = IF Underway(x) THEN disturbed \cup {x[1]} ELSE disturbed
  BY DEF Revoke
<1> HIDE DEF x
<1>3. [at |-> "revoked", alias |-> x, id |-> db.aliases[x].id] \in Requesting
  BY <1>1 DEF Requesting, Revoking, Aliases
<1>4. admin' \in [Admins -> {Idle} \cup Requesting]
  BY <1>2, <1>3, AdminMoves DEF Sound
<1>5. denied' \subseteq PDIDs \X Values /\ disturbed' \subseteq PDIDs
  BY <1>1, <1>2 DEF Sound, TypeOK
<1>6. requests' \in 0 .. MaxRequests
  BY Requested DEF Revoke
<1>7. UNCHANGED <<inv, activity, dirty, batch, observer, issued, observations, restarts,
                  ghosts, overwritten>>
  BY DEF Revoke, memory
<1> QED
  BY <1>1, <1>4, <1>5, <1>6, <1>7 DEF Sound, TypeOK, SignalLeft

\* The entry that is marked, if there is one.
Marked(a, p) ==
    LET x == <<p, admin[a].alias[2]>> IN
    /\ activity[x] # Unknown /\ activity[x].id = admin[a].id
    /\ activity' = [activity EXCEPT ![x] = [activity[x] EXCEPT !.revoked = TRUE]]

LEMMA RevokeNoteMoves ==
    ASSUME Sound, NEW a \in Admins, RevokeNote(a)
    PROVE  \/ \E p \in PDIDs : Marked(a, p)
           \/ /\ UNCHANGED activity
              /\ \A p \in PDIDs : LET x == <<p, admin[a].alias[2]>> IN
                     activity[x] # Unknown => activity[x].id # admin[a].id
<1> DEFINE v == admin[a].alias[2]
           entries == {p \in PDIDs : LET entry == activity[<<p, v>>] IN
                                         entry # Unknown /\ entry.id = admin[a].id}
<1>1. CASE entries = {}
  BY <1>1 DEF RevokeNote
<1>2. CASE entries # {}
  <2>1. PICK p \in entries : activity' = [activity EXCEPT ![<<p, v>>].revoked = TRUE]
    BY <1>2 DEF RevokeNote
  <2>2. activity' = [activity EXCEPT ![<<p, v>>] = [activity[<<p, v>>] EXCEPT !.revoked = TRUE]]
    BY <2>1
  <2> QED
    BY <2>1, <2>2 DEF Marked
<1> QED
  BY <1>1, <1>2

LEMMA SoundRevokeNote ==
    ASSUME Sound, NEW a \in Admins, RevokeNote(a)
    PROVE  Sound'
<1>1. admin[a] \in Revoking
  BY AdminFields DEF RevokeNote, Sound
<1>2. activity' \in [PDIDs \X Values -> Activities \cup {Unknown}]
  <2>1. ASSUME NEW p \in PDIDs, Marked(a, p)
        PROVE  activity' \in [PDIDs \X Values -> Activities \cup {Unknown}]
    <3> DEFINE x == <<p, admin[a].alias[2]>>
               new == [activity[x] EXCEPT !.revoked = TRUE]
    <3>1. x \in PDIDs \X Values
      BY <1>1 DEF Revoking
    <3>2. activity[x] \in Activities
      BY <2>1, <3>1 DEF Sound, TypeOK, Marked
    <3>3. new \in Activities
      BY <3>2 DEF Activities
    <3>4. activity' = [activity EXCEPT ![x] = new]
      BY <2>1 DEF Marked
    <3> HIDE DEF new, x
    <3> QED
      BY <3>1, <3>3, <3>4 DEF Sound, TypeOK
  <2> QED
    BY <2>1, RevokeNoteMoves DEF Sound, TypeOK
<1>3. admin' \in [Admins -> {Idle} \cup Requesting]
  BY AdminMoves DEF RevokeNote, Finish, Sound
<1>4. UNCHANGED <<db, inv, dirty, batch, observer, issued, observations, requests, restarts,
                  ghosts, overwritten, denied, disturbed>>
  BY DEF RevokeNote, counters, history
<1> QED
  BY <1>2, <1>3, <1>4 DEF Sound, TypeOK, SignalLeft

\* What Reject, Reopen and Forget do.
Status(c, from, to) == db.candidates[c] \in from /\ Decided(db', db, c, to)

LEMMA DecisionMoves ==
    ASSUME Sound, NEW c \in PDIDs \X PDIDs
    PROVE  /\ Decide(c, "pending", "rejected") => Status(c, {"pending"}, "rejected")
           /\ Decide(c, "rejected", "pending") => Status(c, {"rejected"}, "pending")
           /\ Forget(c) => Status(c, {"rejected", "confirmed"}, "none")
<1>1. db \in Databases
  BY DEF Sound, TypeOK
<1>2. \A status \in Statuses : Decided([db EXCEPT !.candidates[c] = status], db, c, status)
  BY <1>1, DecideKeeps
<1> QED
  BY <1>2 DEF Status, Decide, Forget, Statuses

LEMMA SoundDecision ==
    ASSUME Sound, NEW c \in PDIDs \X PDIDs,
           Forget(c) \/ \E a \in Admins : Reject(a, c) \/ Reopen(a, c)
    PROVE  Sound'
<1>1. CASE Forget(c)
  <2>1. db' \in Databases
    BY <1>1, DecisionMoves DEF Status, Decided
  <2>2. UNCHANGED <<inv, activity, dirty, batch, observer, admin, issued, observations, requests,
                    restarts, ghosts, overwritten, denied, disturbed>>
    BY <1>1 DEF Forget, memory, counters, history
  <2> QED
    BY <2>1, <2>2 DEF Sound, TypeOK, SignalLeft
<1>2. ASSUME NEW a \in Admins, Reject(a, c) \/ Reopen(a, c)
      PROVE  Sound'
  <2>1. db' \in Databases
    BY <1>2, DecisionMoves DEF Status, Decided, Reject, Reopen
  <2>2. requests' \in 0 .. MaxRequests
    BY <1>2, Requested DEF Reject, Reopen
  <2>3. UNCHANGED <<inv, activity, dirty, batch, observer, admin, issued, observations,
                    restarts, ghosts, overwritten, denied, disturbed>>
    BY <1>2 DEF Reject, Reopen, memory, history
  <2> QED
    BY <2>1, <2>2, <2>3 DEF Sound, TypeOK, SignalLeft
<1> QED
  BY <1>1, <1>2

LEMMA SoundConfirmTake ==
    ASSUME Sound, NEW a \in Admins, NEW c \in PDIDs \X PDIDs, ConfirmTake(a, c)
    PROVE  Sound'
<1> DEFINE job == [at |-> "confirm", source |-> c[1], target |-> c[2],
                   from |-> inv.devices[c[1]], clone |-> inv.devices[c[2]]]
<1>1. /\ c[1] \in PDIDs /\ inv.devices[c[1]] \in Records
      /\ c[2] \in PDIDs /\ inv.devices[c[2]] \in Records
  <2>1. c[1] \in Cached(inv) /\ c[2] \in Cached(inv) /\ inv \in Inventories
    BY DEF ConfirmTake, Mergeable, Sound, TypeOK
  <2> QED
    BY <2>1, CacheFields
<1>2. job \in Requesting
  BY <1>1 DEF Requesting, Confirming
<1>3. admin' \in [Admins -> {Idle} \cup Requesting]
  BY <1>2, AdminMoves DEF ConfirmTake, Sound
<1>4. requests' \in 0 .. MaxRequests
  BY Requested DEF ConfirmTake
<1>5. UNCHANGED <<db, inv, activity, dirty, batch, observer, issued, observations, restarts,
                  ghosts, overwritten, denied, disturbed>>
  BY DEF ConfirmTake, memory, history
<1> QED
  BY <1>3, <1>4, <1>5 DEF Sound, TypeOK, SignalLeft

LEMMA MergedDataType ==
    ASSUME NEW source \in Records, NEW target \in Records
    PROVE  \A merged \in MergedData(source, target) :
               merged \in Records /\ merged.macs = source.macs \cup target.macs
<1>1. \A m \in source.macs : Rec(source.macs \cup target.macs, m, target.online) \in Records
  <2> SUFFICES ASSUME NEW m \in source.macs
               PROVE  Rec(source.macs \cup target.macs, m, target.online) \in Records
    OBVIOUS
  <2>1. /\ source.macs \cup target.macs \in SUBSET MACs /\ m \in OrNone(MACs)
        /\ target.online \in BOOLEAN
    BY RecordFields DEF OrNone
  <2> QED
    BY <2>1, RecType
<1> QED
  BY <1>1 DEF MergedData, Rec

\* What the transaction of a merge does, if it does not fail.
Commits(a, merged) ==
    LET s == admin[a].source
        t == admin[a].target
        renamed == {IF x[1] = s THEN <<t, x[2]>> ELSE x : x \in denied}
    IN /\ \E e : MergedInto(e, db, s, t, merged) /\ Decided(db', e, <<s, t>>, "confirmed")
       /\ GivesOn(db', db, s, t, merged)
       /\ merged.macs = admin[a].from.macs \cup admin[a].clone.macs
       /\ Goto(a, [at |-> "merged", source |-> s, target |-> t, clone |-> admin[a].clone,
                   record |-> merged])
       /\ denied' = {x \in renamed : db'.aliases[x] # NoAlias /\ db'.aliases[x].revoked}
       /\ disturbed' = disturbed \cup {s, t}
       /\ overwritten' = overwritten \cup {p \in {s} : Older(p, admin[a].from)}
                                     \cup {p \in {t} : Older(p, admin[a].clone)}

LEMMA ConfirmMoves ==
    ASSUME Sound, NEW a \in Admins, Confirm(a)
    PROVE  /\ admin[a] \in Confirming
           /\ \/ \E merged \in Records : Commits(a, merged)
              \/ Finish(a) /\ UNCHANGED <<db, denied, disturbed, overwritten>>
<1>1. admin[a] \in Confirming
  BY AdminFields DEF Confirm, Sound
<1> DEFINE s == admin[a].source
           t == admin[a].target
<1>2. s \in PDIDs /\ t \in PDIDs /\ admin[a].from \in Records /\ admin[a].clone \in Records
  BY <1>1 DEF Confirming
<1>3. ASSUME NEW merged \in Records
      PROVE  \E e : /\ MergedInto(e, db, s, t, merged)
                    /\ Decided(ConfirmIdentityCandidateMerge(db, s, t, merged), e, <<s, t>>,
                               "confirmed")
  <2> DEFINE e == MergeDevices(db, s, t, merged)
  <2>1. MergedInto(e, db, s, t, merged)
    BY <1>2, MergeKeeps DEF Sound, TypeOK
  <2>2. e \in Databases
    BY <2>1 DEF MergedInto
  <2>3. ConfirmIdentityCandidateMerge(db, s, t, merged)
            = [e EXCEPT !.candidates[<<s, t>>] = "confirmed"]
    BY DEF ConfirmIdentityCandidateMerge
  <2> HIDE DEF e
  <2>4. Decided(ConfirmIdentityCandidateMerge(db, s, t, merged), e, <<s, t>>, "confirmed")
    BY <1>2, <2>2, <2>3, DecideKeeps DEF Statuses
  <2> QED
    BY <2>1, <2>4
<1>4. \A merged \in MergedData(admin[a].from, admin[a].clone) :
          merged \in Records /\ merged.macs = admin[a].from.macs \cup admin[a].clone.macs
  BY <1>2, MergedDataType
<1>5. ASSUME ~(Finish(a) /\ UNCHANGED <<db, denied, disturbed, overwritten>>)
      PROVE  \E merged \in Records : Commits(a, merged)
  <2>1. PICK merged \in MergedData(admin[a].from, admin[a].clone) :
            LET renamed == {IF x[1] = s THEN <<t, x[2]>> ELSE x : x \in denied} IN
            /\ db' = ConfirmIdentityCandidateMerge(db, s, t, merged)
            /\ Goto(a, [at |-> "merged", source |-> s, target |-> t,
                        clone |-> admin[a].clone, record |-> merged])
            /\ denied' = {x \in renamed : db'.aliases[x] # NoAlias /\ db'.aliases[x].revoked}
            /\ disturbed' = disturbed \cup {s, t}
            /\ overwritten' = overwritten \cup {p \in {s} : Older(p, admin[a].from)}
                                          \cup {p \in {t} : Older(p, admin[a].clone)}
    BY <1>5 DEF Confirm
  <2>2. merged \in Records /\ merged.macs = admin[a].from.macs \cup admin[a].clone.macs
    BY <1>4, <2>1
  <2>3. \E e : MergedInto(e, db, s, t, merged) /\ Decided(db', e, <<s, t>>, "confirmed")
    BY <1>3, <2>1, <2>2
  <2>4. GivesOn(db', db, s, t, merged)
    BY <1>2, <2>1, <2>2, MergeGives DEF Sound, TypeOK
  <2>5. Commits(a, merged)
    BY <2>1, <2>2, <2>3, <2>4 DEF Commits
  <2> QED
    BY <2>2, <2>5
<1> QED
  BY <1>1, <1>5

LEMMA SoundConfirm ==
    ASSUME Sound, NEW a \in Admins, Confirm(a)
    PROVE  Sound'
<1>1. admin[a] \in Confirming
  BY ConfirmMoves
<1>2. /\ db' \in Databases /\ admin' \in [Admins -> {Idle} \cup Requesting]
      /\ denied' \subseteq PDIDs \X Values /\ disturbed' \subseteq PDIDs
      /\ overwritten' \subseteq PDIDs
  <2>1. ASSUME NEW merged \in Records, Commits(a, merged)
        PROVE  /\ db' \in Databases /\ admin' \in [Admins -> {Idle} \cup Requesting]
               /\ denied' \subseteq PDIDs \X Values /\ disturbed' \subseteq PDIDs
               /\ overwritten' \subseteq PDIDs
      /\ overwritten' \subseteq PDIDs
    <3>1. db' \in Databases
      BY <2>1 DEF Commits, Decided
    <3>2. [at |-> "merged", source |-> admin[a].source, target |-> admin[a].target,
           clone |-> admin[a].clone, record |-> merged] \in Requesting
      BY <1>1 DEF Requesting, Moving, Confirming
    <3>3. admin' \in [Admins -> {Idle} \cup Requesting]
      BY <2>1, <3>2, AdminMoves DEF Commits, Sound
    <3>4. \A x \in denied : /\ x \in PDIDs \X Values
                            /\ <<admin[a].target, x[2]>> \in PDIDs \X Values
      BY <1>1 DEF Sound, TypeOK, Confirming
    <3>5. denied' \subseteq PDIDs \X Values
      BY <2>1, <3>4 DEF Commits
    <3>6. disturbed' \subseteq PDIDs
      BY <1>1, <2>1 DEF Commits, Sound, TypeOK, Confirming
    <3>7. overwritten' \subseteq PDIDs
      BY <1>1, <2>1 DEF Commits, Sound, TypeOK, Confirming
    <3> QED
      BY <3>1, <3>3, <3>5, <3>6, <3>7
  <2>2. CASE Finish(a) /\ UNCHANGED <<db, denied, disturbed, overwritten>>
    BY <2>2, AdminMoves DEF Finish, Sound, TypeOK
  <2> QED
    BY <2>1, <2>2, ConfirmMoves
<1>3. UNCHANGED <<inv, activity, dirty, batch, observer, issued, observations, requests, restarts,
                  ghosts>>
  BY DEF Confirm, memory, counters
<1> QED
  BY <1>2, <1>3 DEF Sound, TypeOK, SignalLeft

LEMMA SoundConfirmDelete ==
    ASSUME Sound, NEW a \in Admins, ConfirmDelete(a)
    PROVE  Sound'
<1> DEFINE job == [admin[a] EXCEPT !.at = "moved"]
<1>1. admin[a] \in Moving
  BY AdminFields DEF ConfirmDelete, Sound
<1>2. job \in Requesting
  BY <1>1 DEF Moving, Requesting
<1>3. Goto(a, job)
  BY DEF ConfirmDelete
<1> HIDE DEF job
<1>4. admin' \in [Admins -> {Idle} \cup Requesting]
  BY <1>2, <1>3, AdminMoves DEF Sound
<1>5. inv' \in Inventories /\ MACIndexed(inv')
  <2>1. inv \in Inventories /\ MACIndexed(inv) /\ admin[a].source \in PDIDs
    BY <1>1 DEF Sound, TypeOK, Moving
  <2> QED
    BY <2>1, DeleteKeeps DEF ConfirmDelete, Becomes
<1>6. UNCHANGED <<db, activity, dirty, batch, observer, issued, observations, requests, restarts,
                  ghosts, overwritten, denied, disturbed>>
  BY DEF ConfirmDelete, counters, history
<1> QED
  BY <1>4, <1>5, <1>6 DEF Sound, TypeOK, SignalLeft

LEMMA SoundConfirmUpsert ==
    ASSUME Sound, NEW a \in Admins, ConfirmUpsert(a)
    PROVE  Sound'
<1>1. admin[a] \in Moving
  BY AdminFields DEF ConfirmUpsert, Sound
<1>2. admin[a].target \in PDIDs /\ admin[a].record \in Records
  BY <1>1 DEF Moving
<1>3. /\ inv' \in Inventories /\ MACIndexed(inv')
      /\ ghosts' \subseteq PDIDs /\ overwritten' \subseteq PDIDs
  BY <1>2, Upserting DEF ConfirmUpsert
<1>4. admin' \in [Admins -> {Idle} \cup Requesting]
  BY AdminMoves DEF ConfirmUpsert, Finish, Sound
<1>5. UNCHANGED <<db, activity, dirty, batch, observer, issued, observations, requests, restarts,
                  denied, disturbed>>
  BY DEF ConfirmUpsert, counters
<1> QED
  BY <1>3, <1>4, <1>5 DEF Sound, TypeOK, SignalLeft

LEMMA RemainingType ==
    ASSUME NEW r \in Records, NEW m
    PROVE  Remaining(r, m) \subseteq Records
<1>1. r.macs \ {m} \in SUBSET MACs /\ r.mac \in OrNone(MACs) /\ r.online \in BOOLEAN
  BY RecordFields
<1>2. Rec(r.macs \ {m}, r.mac, r.online) \in Records
  BY <1>1, RecType
<1>3. ASSUME NEW other \in r.macs \ {m}
      PROVE  Rec(r.macs \ {m}, other, r.online) \in Records
  <2>1. other \in OrNone(MACs)
    BY <1>1 DEF OrNone
  <2> QED
    BY <1>1, <2>1, RecType
<1> QED
  BY <1>2, <1>3 DEF Remaining

\* What a request for a split has.
Asks(a, q, new, m) ==
    LET p == Resolve(db, q) IN
    /\ p \in PDIDs /\ p \in Cached(inv)
    /\ new \in PDIDs \ issued /\ issued' = issued \cup {new}
    /\ \E rest \in Records :
          Goto(a, [at |-> "split", device |-> p, new |-> new, mac |-> m,
                   clone |-> inv.devices[p], record |-> rest])

LEMMA SplitTakeMoves ==
    ASSUME Sound, NEW a \in Admins, NEW q, NEW m \in MACs, SplitTake(a, q, m)
    PROVE  \E new \in PDIDs : Asks(a, q, new, m)
<1> DEFINE p == Resolve(db, q)
<1>1. p \in PDIDs /\ p \in Cached(inv) /\ inv.devices[p] \in Records
  <2>1. p \in Cached(inv) /\ inv \in Inventories
    BY DEF SplitTake, Sound, TypeOK
  <2> QED
    BY <2>1, CacheFields
<1>2. PICK new \in PDIDs \ issued, rest \in Remaining(inv.devices[p], m) :
          /\ issued' = issued \cup {new}
          /\ Goto(a, [at |-> "split", device |-> p, new |-> new, mac |-> m,
                      clone |-> inv.devices[p], record |-> rest])
  BY DEF SplitTake
<1>3. rest \in Records
  BY <1>1, RemainingType
<1> QED
  BY <1>1, <1>2, <1>3 DEF Asks

LEMMA SoundSplitTake ==
    ASSUME Sound, NEW a \in Admins, NEW q, NEW m \in MACs, SplitTake(a, q, m)
    PROVE  Sound'
<1>1. PICK new \in PDIDs : Asks(a, q, new, m)
  BY SplitTakeMoves
<1> DEFINE p == Resolve(db, q)
<1>2. PICK rest \in Records :
          Goto(a, [at |-> "split", device |-> p, new |-> new, mac |-> m,
                   clone |-> inv.devices[p], record |-> rest])
  BY <1>1 DEF Asks
<1>3. p \in PDIDs /\ inv.devices[p] \in Records
  BY <1>1, CacheFields DEF Asks, Sound, TypeOK
<1> HIDE DEF p
<1>4. [at |-> "split", device |-> p, new |-> new, mac |-> m,
       clone |-> inv.devices[p], record |-> rest] \in Requesting
  BY <1>3 DEF Requesting, Splitting
<1>5. admin' \in [Admins -> {Idle} \cup Requesting]
  BY <1>2, <1>4, AdminMoves DEF Sound
<1>6. issued' \subseteq PDIDs
  BY <1>1 DEF Asks, Sound, TypeOK
<1>7. requests' \in 0 .. MaxRequests
  BY Requested DEF SplitTake
<1>8. UNCHANGED <<db, inv, activity, dirty, batch, observer, observations, restarts,
                  ghosts, overwritten, denied, disturbed>>
  BY DEF SplitTake, memory, history
<1> QED
  BY <1>5, <1>6, <1>7, <1>8 DEF Sound, TypeOK, SignalLeft

\* What the transaction of a split does, if it does not fail.
Parts(a) ==
    LET p == admin[a].device
        new == admin[a].new
        m == admin[a].mac
    IN /\ SplitOff(db', db, p, admin[a].record, new, Rec({m}, m, FALSE), m)
       /\ GivesUp(db', db, p, admin[a].record, new, Rec({m}, m, FALSE))
       /\ Goto(a, [admin[a] EXCEPT !.at = "parted"])
       /\ WrittenBack(p)
       /\ Stores(p, admin[a].clone)
       /\ denied' = denied \ {<<p, m>>}
       /\ disturbed' = disturbed \cup {p, new}

LEMMA SplitMoves ==
    ASSUME Sound, NEW a \in Admins, Split(a)
    PROVE  /\ admin[a] \in Splitting
           /\ Parts(a) \/ (Finish(a) /\ UNCHANGED <<db, history>>)
<1>1. admin[a] \in Splitting
  BY AdminFields DEF Split, Sound
<1>2. /\ admin[a].device \in PDIDs /\ admin[a].new \in PDIDs /\ admin[a].mac \in MACs
      /\ admin[a].record \in Records
  BY <1>1 DEF Splitting
<1>3. Rec({admin[a].mac}, admin[a].mac, FALSE) \in Records
  BY <1>2, RecType DEF OrNone
<1>4. SplitOff(SplitDevice(db, admin[a].device, admin[a].record, admin[a].new,
                           Rec({admin[a].mac}, admin[a].mac, FALSE), admin[a].mac),
               db, admin[a].device, admin[a].record, admin[a].new,
               Rec({admin[a].mac}, admin[a].mac, FALSE), admin[a].mac)
  BY <1>2, <1>3, SplitKeeps DEF Sound, TypeOK
<1>5. GivesUp(SplitDevice(db, admin[a].device, admin[a].record, admin[a].new,
                          Rec({admin[a].mac}, admin[a].mac, FALSE), admin[a].mac),
              db, admin[a].device, admin[a].record, admin[a].new,
              Rec({admin[a].mac}, admin[a].mac, FALSE))
  BY <1>2, <1>3, SplitGives DEF Sound, TypeOK
<1> QED
  BY <1>1, <1>4, <1>5 DEF Split, Parts

LEMMA SoundSplit ==
    ASSUME Sound, NEW a \in Admins, Split(a)
    PROVE  Sound'
<1>1. admin[a] \in Splitting
  BY SplitMoves
<1>2. /\ db' \in Databases /\ admin' \in [Admins -> {Idle} \cup Requesting]
      /\ ghosts' \subseteq PDIDs /\ denied' \subseteq denied /\ disturbed' \subseteq PDIDs
      /\ overwritten' \subseteq PDIDs
  <2>1. CASE Parts(a)
    <3> DEFINE job == [admin[a] EXCEPT !.at = "parted"]
    <3>1. job \in Requesting
      BY <1>1 DEF Requesting, Splitting
    <3>2. Goto(a, job)
      BY <2>1 DEF Parts
    <3> HIDE DEF job
    <3>3. admin' \in [Admins -> {Idle} \cup Requesting]
      BY <3>1, <3>2, AdminMoves DEF Sound
    <3>4. db' \in Databases
      BY <2>1 DEF Parts, SplitOff
    <3>5. ghosts' \subseteq PDIDs /\ denied' \subseteq denied
      <4>1. denied' = denied \ {<<admin[a].device, admin[a].mac>>}
        BY <2>1 DEF Parts
      <4>2. ghosts \subseteq PDIDs /\ WrittenBack(admin[a].device)
        BY <2>1 DEF Parts, Sound, TypeOK
      <4> QED
        BY <4>1, <4>2 DEF WrittenBack, Merged
    <3>6. disturbed' \subseteq PDIDs
      BY <1>1, <2>1 DEF Parts, Sound, TypeOK, Splitting
    <3>7. overwritten' \subseteq PDIDs
      BY <1>1, <2>1 DEF Parts, Stores, Sound, TypeOK, Splitting
    <3> QED
      BY <3>3, <3>4, <3>5, <3>6, <3>7
  <2>2. CASE Finish(a) /\ UNCHANGED <<db, history>>
    BY <2>2, AdminMoves DEF Finish, Sound, TypeOK, history
  <2> QED
    BY <2>1, <2>2, SplitMoves
<1>3. UNCHANGED <<inv, activity, dirty, batch, observer, issued, observations, requests, restarts>>
  BY DEF Split, memory, counters
<1> QED
  BY <1>2, <1>3 DEF Sound, TypeOK, SignalLeft

LEMMA SoundSplitUpsert ==
    ASSUME Sound, NEW a \in Admins, SplitUpsert(a)
    PROVE  Sound'
<1> DEFINE job == [admin[a] EXCEPT !.at = "shrunk"]
<1>1. admin[a] \in Splitting
  BY AdminFields DEF SplitUpsert, Sound
<1>2. admin[a].device \in PDIDs /\ admin[a].record \in Records
  BY <1>1 DEF Splitting
<1>3. /\ inv' \in Inventories /\ MACIndexed(inv')
      /\ ghosts' \subseteq PDIDs /\ overwritten' \subseteq PDIDs
  BY <1>2, Upserting DEF SplitUpsert
<1>4. job \in Requesting /\ Goto(a, job)
  BY <1>1 DEF Requesting, Splitting, SplitUpsert
<1> HIDE DEF job
<1>5. admin' \in [Admins -> {Idle} \cup Requesting]
  BY <1>4, AdminMoves DEF Sound
<1>6. UNCHANGED <<db, activity, dirty, batch, observer, issued, observations, requests, restarts,
                  denied, disturbed>>
  BY DEF SplitUpsert, counters
<1> QED
  BY <1>3, <1>5, <1>6 DEF Sound, TypeOK, SignalLeft

LEMMA SoundSplitAdd ==
    ASSUME Sound, NEW a \in Admins, SplitAdd(a)
    PROVE  Sound'
<1>1. admin[a] \in Splitting
  BY AdminFields DEF SplitAdd, Sound
<1>2. admin[a].new \in PDIDs /\ admin[a].mac \in MACs
  BY <1>1 DEF Splitting
<1>3. Rec({admin[a].mac}, admin[a].mac, FALSE) \in Records
  BY <1>2, RecType DEF OrNone
<1>4. inv' \in Inventories /\ MACIndexed(inv')
  <2>1. inv \in Inventories /\ MACIndexed(inv)
    BY DEF Sound, TypeOK
  <2> QED
    BY <1>2, <1>3, <2>1, UpsertKeeps DEF SplitAdd, Becomes
<1>5. admin' \in [Admins -> {Idle} \cup Requesting]
  BY AdminMoves DEF SplitAdd, Finish, Sound
<1>6. UNCHANGED <<db, activity, dirty, batch, observer, issued, observations, requests, restarts,
                  ghosts, overwritten, denied, disturbed>>
  BY DEF SplitAdd, counters, history
<1> QED
  BY <1>4, <1>5, <1>6 DEF Sound, TypeOK, SignalLeft

LEMMA SoundRestart ==
    ASSUME Sound, Restart
    PROVE  Sound'
<1>1. db \in Databases /\ db' = db
  BY DEF Sound, TypeOK, Restart
<1>2. inv' \in Inventories /\ MACIndexed(inv')
  BY <1>1, HydrateKeeps DEF Restart
<1>3. activity' \in [PDIDs \X Values -> Activities \cup {Unknown}]
  BY <1>1, DatabaseFields, Distinct DEF Restart, Loaded
<1>4. /\ dirty' = {} /\ DOMAIN batch' = {}
      /\ observer' \in [Observers -> {Idle} \cup Observing] /\ SignalLeft'
      /\ admin' \in [Admins -> {Idle} \cup Requesting]
  BY DEF Restart, NoBatch, SignalLeft, Idle
<1>5. restarts' \in 0 .. MaxRestarts /\ overwritten' = {}
  BY BoundsAssumption DEF Restart, Sound, TypeOK
<1>6. UNCHANGED <<db, issued, observations, requests, ghosts, denied, disturbed>>
  BY DEF Restart
<1> QED
  BY <1>2, <1>3, <1>4, <1>5, <1>6 DEF Sound, TypeOK

LEMMA NextSound ==
    ASSUME Sound, [Next]_vars
    PROVE  Sound'
<1>1. ASSUME NEW o \in Observers, NEW m \in MACs, NEW cred \in OrNone(Credentials),
             NEW on \in BOOLEAN,
             Observe(o, m, cred, on)
             \/ \E target \in OrNone(Cached(inv)) : Create(o, m, cred, on, target)
      PROVE  Sound'
  BY <1>1, SoundObserve, SoundCreate
<1>2. ASSUME NEW o \in Observers, ObserverStep(o)
      PROVE  Sound'
  BY <1>2, SoundPersist, SoundPersistFails, SoundCheck, SoundSave, SoundNote, SoundPropose,
     SoundWrite DEF ObserverStep
<1>3. ASSUME DemoteQuiet \/ FlushTake \/ FlushSave \/ FlushFails
      PROVE  Sound'
  BY <1>3, SoundSweep, SoundFlush
<1>4. \A q \in issued : q \in PDIDs
  BY DEF Sound, TypeOK
<1>5. ASSUME NEW a \in Admins, NEW q \in issued, NEW v \in Values,
             BindTake(a, q, v) \/ Revoke(a, q, v)
      PROVE  Sound'
  BY <1>5, SoundBindTake, SoundRevoke
<1>6. ASSUME NEW a \in Admins, NEW c \in issued \X issued,
             Reject(a, c) \/ Reopen(a, c) \/ ConfirmTake(a, c)
      PROVE  Sound'
  <2>1. c \in PDIDs \X PDIDs
    BY <1>4
  <2> QED
    BY <1>6, <2>1, SoundDecision, SoundConfirmTake
<1>7. ASSUME NEW a \in Admins, NEW q \in issued, NEW m \in MACs, SplitTake(a, q, m)
      PROVE  Sound'
  BY <1>7, SoundSplitTake
<1>8. ASSUME NEW a \in Admins, AdminStep(a)
      PROVE  Sound'
  BY <1>8, SoundBind, SoundBindNote, SoundRevokeNote, SoundConfirm, SoundConfirmDelete,
     SoundConfirmUpsert, SoundSplit, SoundSplitUpsert, SoundSplitAdd DEF AdminStep
<1>9. ASSUME NEW c \in issued \X issued, Forget(c)
      PROVE  Sound'
  <2>1. c \in PDIDs \X PDIDs
    BY <1>4
  <2> QED
    BY <1>9, <2>1, SoundDecision
<1>10. ASSUME Restart
       PROVE  Sound'
  BY <1>10, SoundRestart
<1>11. ASSUME UNCHANGED vars
       PROVE  Sound'
  BY <1>11 DEF vars, memory, counters, history, Sound, TypeOK, SignalLeft, MACIndexed
<1> QED
  BY <1>1, <1>2, <1>3, <1>5, <1>6, <1>7, <1>8, <1>9, <1>10, <1>11 DEF Next

-----------------------------------------------------------------------------
(* The invariant of aliases                                                *)

LEMMA InitAliases == Init => AliasInv
<1> SUFFICES ASSUME Init PROVE AliasInv
  OBVIOUS
<1>1. \A x \in PDIDs \X Values : db.aliases[x] # NoAlias =>
          db.aliases[x] = [id |-> x[1], verified |-> FALSE, revoked |-> FALSE]
  BY DEF Init, Before
<1>2. \A x \in PDIDs \X Values :
          /\ db.aliases[x] = NoAlias => activity[x] = Unknown
          /\ db.aliases[x] # NoAlias => activity[x] = db.aliases[x]
  BY DEF Init, Loaded
<1>3. /\ \A o \in Observers : observer[o].at = "idle"
      /\ \A a \in Admins : admin[a].at = "idle"
      /\ denied = {}
  BY DEF Init, Idle
<1>4. \A x \in PDIDs \X Values : db.aliases[x] # NoAlias =>
          /\ db.aliases[x].id = x[1] /\ ~db.aliases[x].revoked
          /\ activity[x].id = x[1] /\ activity[x] # Unknown
  <2>1. \A p \in PDIDs : [id |-> p, verified |-> FALSE, revoked |-> FALSE] # Unknown
    <3>1. \A p \in PDIDs : [id |-> p, verified |-> FALSE, revoked |-> FALSE] \in Activities
      BY DEF Activities, OrNone
    <3> QED
      BY <3>1, Distinct
  <2> SUFFICES ASSUME NEW x \in PDIDs \X Values, db.aliases[x] # NoAlias
               PROVE  /\ db.aliases[x].id = x[1] /\ ~db.aliases[x].revoked
                      /\ activity[x].id = x[1] /\ activity[x] # Unknown
    OBVIOUS
  <2>2. x[1] \in PDIDs /\ activity[x] = db.aliases[x]
    BY <1>2
  <2>3. db.aliases[x] = [id |-> x[1], verified |-> FALSE, revoked |-> FALSE]
    BY <1>1
  <2> QED
    BY <2>1, <2>2, <2>3
<1>5. IdsAtHome
  BY <1>2, <1>3, <1>4 DEF IdsAtHome, AtHome
<1>6. Noted
  BY <1>4 DEF Noted
<1> QED
  BY <1>3, <1>4, <1>5, <1>6 DEF AliasInv, DeniedHolds, RevokedIsDenied

\* A step that is not about aliases: nothing that is noted or revoked in it.
AliasesKept == /\ db'.aliases = db.aliases
               /\ UNCHANGED <<activity, denied, disturbed>>
NotesKept ==
    \A o \in Observers :
        observer[o].at = "note" \/ observer'[o].at \in {"save", "note"} => observer'[o] = observer[o]
BindsKept ==
    \A a \in Admins :
        admin[a].at \in {"bound", "revoked"} \/ admin'[a].at \in {"bound", "revoked"} =>
            admin'[a] = admin[a]

\* What such a step keeps of them, whatever else it changes.
LEMMA NotesStay ==
    ASSUME NotesKept, BindsKept
    PROVE  \A x : /\ Noting(x) => Noting(x)'
                  /\ Underway(x)' => Underway(x)
                  /\ RevokedSoon(x) => RevokedSoon(x)'
BY DEF NotesKept, BindsKept, Noting, Underway, RevokedSoon, Signal

LEMMA QuietAliases ==
    ASSUME AliasInv, AliasesKept, NotesKept, BindsKept
    PROVE  AliasInv'
<1>1. IdsAtHome'
  BY DEF AliasInv, IdsAtHome, AliasesKept, NotesKept, BindsKept, AtHome
<1>2. Noted'
  BY NotesStay DEF AliasInv, Noted, AliasesKept
<1>3. DeniedHolds'
  BY NotesStay DEF AliasInv, DeniedHolds, AliasesKept
<1>4. RevokedIsDenied'
  BY DEF AliasInv, RevokedIsDenied, AliasesKept
<1> QED
  BY <1>1, <1>2, <1>3, <1>4 DEF AliasInv

LEMMA CheckAliases ==
    ASSUME Sound, AliasInv, NEW o \in Observers, NEW higher \in BOOLEAN, Check(o, higher)
    PROVE  AliasInv'
<1> DEFINE x == Signal(o)
<1>1. observer[o].at = "next" /\ observer[o].todo # <<>>
  BY DEF Check
<1>2. x \in PDIDs \X Values /\ x[1] = observer[o].device
  BY <1>1, SignalType
<1>3. /\ activity' = [activity EXCEPT ![x] =
             IF activity[x] = Unknown THEN [id |-> None, verified |-> FALSE, revoked |-> FALSE]
             ELSE activity[x]]
      /\ UNCHANGED <<db, admin, denied>>
      /\ disturbed \subseteq disturbed'
  BY DEF Check, Signal
<1>4. \A y \in PDIDs \X Values : activity[y] # Unknown => activity'[y] = activity[y]
  BY <1>2, <1>3 DEF Sound, TypeOK
<1>5. /\ \A q \in Observers \ {o} : observer'[q] = observer[q]
      /\ observer'[o].at \in {"save", "next"}
      /\ observer'[o].at = "save" =>
            /\ observer'[o].device = observer[o].device /\ observer'[o].todo = observer[o].todo
            /\ MaterialChange(activity[x], x[2] \in Credentials, higher)
            /\ RevokedSoon(x) => observer[o].device \in disturbed'
  <2>1. o \in Observers /\ observer \in [Observers -> {Idle} \cup Observing] /\ observer[o] \in Observing
    BY <1>1, ObserverFields DEF Sound, TypeOK
  <2>2. CASE MaterialChange(activity[x], x[2] \in Credentials, higher)
    <3>1. /\ observer' = [observer EXCEPT ![o].at = "save"]
          /\ disturbed' = disturbed \cup {p \in {observer[o].device} :
                 \E a \in Admins : admin[a].at = "revoked" /\ admin[a].alias = x}
      BY <2>2 DEF Check, Signal
    <3> QED
      BY <2>1, <2>2, <3>1 DEF RevokedSoon, Observing
  <2>3. CASE ~MaterialChange(activity[x], x[2] \in Credentials, higher)
    <3>1. observer' = [observer EXCEPT ![o].todo = Tail(observer[o].todo)]
      BY <2>3 DEF Check, Signal
    <3> QED
      BY <1>1, <2>1, <3>1 DEF Observing
  <2> QED
    BY <2>2, <2>3
<1>6. IdsAtHome'
  <2>1. \A p, id : AtHome(p, id, disturbed) => AtHome(p, id, disturbed')
    BY <1>3 DEF AtHome
  <2>2. ASSUME NEW y \in PDIDs \X Values, activity'[y] # Unknown
        PROVE  activity'[y].id = None \/ AtHome(y[1], activity'[y].id, disturbed')
    <3>1. CASE activity[y] # Unknown
      BY <1>4, <2>1, <3>1 DEF AliasInv, IdsAtHome
    <3>2. CASE activity[y] = Unknown
      BY <1>2, <1>3, <2>2, <3>2 DEF Sound, TypeOK
    <3> QED
      BY <3>1, <3>2
  <2>3. \A q \in Observers : observer'[q].at = "note" =>
            observer[q].at = "note" /\ observer'[q] = observer[q]
    BY <1>5
  <2> QED
    BY <1>3, <2>1, <2>2, <2>3 DEF AliasInv, IdsAtHome
<1>7. \A y : Noting(y) => Noting(y)'
  BY <1>1, <1>3, <1>5 DEF Noting, Signal
<1>8. Noted'
  BY <1>3, <1>4, <1>7 DEF AliasInv, Noted
<1>9. DeniedHolds'
  <2> SUFFICES ASSUME NEW y \in denied, y[1] \notin disturbed'
               PROVE  /\ ~Underway(y)'
                      /\ activity'[y].revoked \/ RevokedSoon(y)'
    BY <1>3 DEF AliasInv, DeniedHolds
  <2>1. /\ y \in PDIDs \X Values /\ db.aliases[y] # NoAlias
        /\ ~Underway(y) /\ (activity[y].revoked \/ RevokedSoon(y))
    BY <1>3 DEF AliasInv, DeniedHolds
  <2>2. activity[y] # Unknown
    BY <1>3, <2>1 DEF AliasInv, Noted, Noting, Underway, Signal
  <2>3. ~(observer'[o].at = "save" /\ x = y)
    BY <1>2, <1>5, <2>1, <2>2 DEF MaterialChange
  <2>4. ~Underway(y)'
    BY <1>3, <1>5, <2>1, <2>3 DEF Underway, Signal
  <2> QED
    BY <1>3, <1>4, <2>1, <2>2, <2>4 DEF RevokedSoon
<1>10. RevokedIsDenied'
  BY <1>3 DEF AliasInv, RevokedIsDenied
<1> QED
  BY <1>6, <1>8, <1>9, <1>10 DEF AliasInv

\* An alias that is looked up, saved or noted is not denied, or disturbed.
LEMMA UnderwayIsOpen ==
    ASSUME AliasInv, NEW x, Underway(x)
    PROVE  x \in denied => x[1] \in disturbed
BY DEF AliasInv, DeniedHolds

LEMMA SaveAliases ==
    ASSUME Sound, AliasInv, NEW o \in Observers, Save(o)
    PROVE  AliasInv'
<1>1. observer[o].at = "save" /\ observer[o].todo # <<>> /\ observer[o] \in Observing
  BY ObserverFields DEF Save, Sound, SignalLeft
<1>2. PICK x \in PDIDs \X Values :
          x = Signal(o) /\ x[1] = observer[o].device /\ x[2] = Head(observer[o].todo)
  BY <1>1, SignalType
<1>3. UNCHANGED <<activity, admin, denied, disturbed>>
  BY DEF Save, memory, history
<1>4. observer \in [Observers -> {Idle} \cup Observing]
  BY DEF Sound, TypeOK
<1>5. CASE Skip(o) /\ UNCHANGED db
  <2>1. NotesKept /\ BindsKept
    BY <1>1, <1>3, <1>4, <1>5 DEF Skip, NotesKept, BindsKept
  <2> QED
    BY <1>3, <1>5, <2>1, QuietAliases DEF AliasesKept
<1>6. CASE SavedAlias(o)
  <2>1. x = <<observer[o].device, Head(observer[o].todo)>>
    BY <1>2 DEF Signal
  <2> DEFINE new == db'.aliases[x]
             old == db.aliases[x]
  <2>2. /\ \A y \in PDIDs \X Values : y # x => db'.aliases[y] = db.aliases[y]
        /\ new \in Aliases /\ ~new.revoked
        /\ old = NoAlias => new.id = x[1]
        /\ old # NoAlias => new.id = old.id
    BY <1>2, <1>6, <2>1 DEF SavedAlias, Upserted
  <2>3. /\ \A q \in Observers \ {o} : observer'[q] = observer[q]
        /\ observer'[o] = [observer[o] EXCEPT !.at = "note", !.id = new.id]
    BY <1>2, <1>4, <1>6 DEF SavedAlias
  <2>4. /\ observer'[o].at = "note" /\ observer'[o].id = new.id
        /\ observer'[o].device = observer[o].device /\ observer'[o].todo = observer[o].todo
    BY <1>1, <2>3 DEF Observing
  <2>5. AtHome(x[1], new.id, disturbed)
    BY <1>2, <2>2 DEF AliasInv, IdsAtHome, AtHome
  <2>6. x \in denied => x[1] \in disturbed
    <3>1. Underway(x)
      BY <1>1, <1>2 DEF Underway, Signal
    <3> QED
      BY <3>1, UnderwayIsOpen
  <2> HIDE DEF new, old
  <2>7. disturbed' = disturbed
    BY <1>3
  <2>8. IdsAtHome'
    <3>1. \A y \in PDIDs \X Values :
              db'.aliases[y] # NoAlias => AtHome(y[1], db'.aliases[y].id, disturbed)
      BY <2>2, <2>5 DEF AliasInv, IdsAtHome, new
    <3>2. \A q \in Observers : observer'[q].at = "note" =>
              AtHome(observer'[q].device, observer'[q].id, disturbed)
      BY <1>2, <2>3, <2>4, <2>5 DEF AliasInv, IdsAtHome
    <3> QED
      BY <1>3, <2>7, <3>1, <3>2 DEF AliasInv, IdsAtHome
  <2>9. /\ Noting(x)'
        /\ \A y : Noting(y) => Noting(y)'
        /\ \A y : Underway(y)' => Underway(y) \/ y = x
        /\ \A y : RevokedSoon(y)' <=> RevokedSoon(y)
    BY <1>1, <1>2, <1>3, <2>3, <2>4 DEF Noting, Underway, RevokedSoon, Signal
  <2>10. Noted'
    <3> SUFFICES ASSUME NEW y \in PDIDs \X Values, y[1] \notin disturbed',
                        db'.aliases[y] # NoAlias
                 PROVE  (activity'[y] # Unknown /\ activity'[y].id = y[1]) \/ Noting(y)'
      BY DEF Noted
    <3>1. CASE y = x
      BY <2>9, <3>1
    <3>2. CASE y # x
      <4>1. (activity[y] # Unknown /\ activity[y].id = y[1]) \/ Noting(y)
        BY <1>3, <2>2, <3>2 DEF AliasInv, Noted
      <4> QED
        BY <1>3, <2>9, <4>1
    <3> QED
      BY <3>1, <3>2
  <2>11. DeniedHolds'
    BY <1>3, <2>2, <2>6, <2>9 DEF AliasInv, DeniedHolds
  <2>12. RevokedIsDenied'
    BY <1>3, <2>2 DEF AliasInv, RevokedIsDenied, new
  <2> QED
    BY <2>8, <2>10, <2>11, <2>12 DEF AliasInv
<1> QED
  BY <1>5, <1>6, SaveMoves

\* The index in memory follows: after an observation, or a bind.
LEMMA FollowAliases ==
    ASSUME Sound, AliasInv, NEW x \in PDIDs \X Values, NEW new \in Activities,
           AtHome(x[1], new.id, disturbed), Underway(x),
           activity' = [activity EXCEPT ![x] = new],
           UNCHANGED <<db, denied, disturbed>>,
           \A y : /\ Noting(y) /\ y # x => Noting(y)'
                  /\ Underway(y)' => Underway(y)
                  /\ RevokedSoon(y) => RevokedSoon(y)',
           \A o \in Observers : observer'[o].at = "note" => observer'[o] = observer[o],
           \A a \in Admins : admin'[a].at \in {"bound", "revoked"} => admin'[a] = admin[a]
    PROVE  AliasInv'
<1>1. /\ activity'[x] = new /\ new # Unknown
      /\ \A y \in PDIDs \X Values : y # x => activity'[y] = activity[y]
  BY Distinct DEF Sound, TypeOK
<1>2. IdsAtHome'
  <2>1. \A y \in PDIDs \X Values : activity'[y] # Unknown =>
            activity'[y].id = None \/ AtHome(y[1], activity'[y].id, disturbed)
    BY <1>1 DEF AliasInv, IdsAtHome
  <2> QED
    BY <2>1 DEF AliasInv, IdsAtHome
<1>3. Noted'
  <2> SUFFICES ASSUME NEW y \in PDIDs \X Values, y[1] \notin disturbed, db.aliases[y] # NoAlias
               PROVE  (activity'[y] # Unknown /\ activity'[y].id = y[1]) \/ Noting(y)'
    BY DEF Noted
  <2>1. CASE y = x
    BY <1>1, <2>1 DEF AtHome
  <2>2. CASE y # x
    BY <1>1, <2>2 DEF AliasInv, Noted
  <2> QED
    BY <2>1, <2>2
<1>4. DeniedHolds'
  <2> SUFFICES ASSUME NEW y \in denied, y[1] \notin disturbed
               PROVE  /\ y \in PDIDs \X Values
                      /\ db.aliases[y] # NoAlias /\ db.aliases[y].revoked
                      /\ ~Underway(y)'
                      /\ activity'[y].revoked \/ RevokedSoon(y)'
    BY DEF DeniedHolds
  <2>1. y # x
    BY UnderwayIsOpen
  <2> QED
    BY <1>1, <2>1 DEF AliasInv, DeniedHolds
<1>5. RevokedIsDenied'
  BY DEF AliasInv, RevokedIsDenied
<1> QED
  BY <1>2, <1>3, <1>4, <1>5 DEF AliasInv

LEMMA NoteAliases ==
    ASSUME Sound, AliasInv, NEW o \in Observers, Note(o)
    PROVE  AliasInv'
<1>1. observer[o].at = "note" /\ observer[o].todo # <<>> /\ observer[o] \in Observing
  BY ObserverFields DEF Note, Sound, SignalLeft
<1>2. PICK x \in PDIDs \X Values : x = Signal(o) /\ x[1] = observer[o].device
  BY <1>1, SignalType
<1> DEFINE new == [id |-> observer[o].id,
                   verified |-> activity[x].verified \/ x[2] \in Credentials, revoked |-> FALSE]
<1>3. new \in Activities /\ new.id = observer[o].id
  BY <1>1 DEF Activities, Observing
<1>4. AtHome(x[1], new.id, disturbed)
  BY <1>1, <1>2, <1>3 DEF AliasInv, IdsAtHome
<1>5. activity' = [activity EXCEPT ![x] = new]
  BY <1>2 DEF Note, Signal
<1> HIDE DEF new
<1>6. UNCHANGED <<db, admin, denied, disturbed>>
  BY DEF Note, history
<1>7. /\ \A q \in Observers \ {o} : observer'[q] = observer[q]
      /\ observer'[o].at = "next"
  BY <1>1 DEF Note, Skip, Sound, TypeOK, Observing
<1>8. Underway(x)
  BY <1>1, <1>2 DEF Underway, Signal
<1>9. \A y : /\ Noting(y) /\ y # x => Noting(y)'
             /\ Underway(y)' => Underway(y)
             /\ RevokedSoon(y) => RevokedSoon(y)'
  BY <1>2, <1>6, <1>7 DEF Noting, Underway, RevokedSoon, Signal
<1>10. \A q \in Observers : observer'[q].at = "note" => observer'[q] = observer[q]
  BY <1>7
<1> QED
  BY <1>3, <1>4, <1>5, <1>6, <1>8, <1>9, <1>10, FollowAliases

\* What a request does to the others.
LEMMA GotoOthers ==
    ASSUME Sound, NEW a \in Admins, NEW job, Goto(a, job)
    PROVE  admin'[a] = job /\ \A b \in Admins \ {a} : admin'[b] = admin[b]
BY DEF Goto, Sound, TypeOK

LEMMA BindNoteAliases ==
    ASSUME Sound, AliasInv, NEW a \in Admins, BindNote(a)
    PROVE  AliasInv'
<1>1. admin[a] \in Bound /\ admin[a].at = "bound"
  BY AdminFields DEF BindNote, Sound
<1>2. PICK x \in PDIDs \X Values : x = admin[a].alias
  BY <1>1 DEF Bound
<1> DEFINE new == [id |-> admin[a].id, verified |-> TRUE, revoked |-> FALSE]
<1>3. new \in Activities /\ new.id = admin[a].id
  BY <1>1 DEF Activities, Bound, OrNone
<1>4. AtHome(x[1], new.id, disturbed)
  BY <1>1, <1>2, <1>3 DEF AliasInv, IdsAtHome
<1>5. activity' = [activity EXCEPT ![x] = new]
  BY <1>2 DEF BindNote
<1> HIDE DEF new
<1>6. UNCHANGED <<db, observer, denied, disturbed>>
  BY DEF BindNote
<1>7. admin'[a].at = "idle" /\ \A b \in Admins \ {a} : admin'[b] = admin[b]
  BY GotoOthers DEF BindNote, Finish, Idle
<1>8. Underway(x)
  BY <1>1, <1>2 DEF Underway
<1>9. \A y : /\ Noting(y) /\ y # x => Noting(y)'
             /\ Underway(y)' => Underway(y)
             /\ RevokedSoon(y) => RevokedSoon(y)'
  BY <1>1, <1>2, <1>6, <1>7 DEF Noting, Underway, RevokedSoon, Signal
<1>10. \A b \in Admins : admin'[b].at \in {"bound", "revoked"} => admin'[b] = admin[b]
  BY <1>7
<1>11. \A q \in Observers : observer'[q].at = "note" => observer'[q] = observer[q]
  BY <1>6
<1> QED
  BY <1>3, <1>4, <1>5, <1>6, <1>8, <1>9, <1>10, <1>11, FollowAliases

LEMMA BindAliases ==
    ASSUME Sound, AliasInv, NEW a \in Admins, Bind(a)
    PROVE  AliasInv'
<1>1. admin[a] \in Binding /\ admin[a].at = "bind"
  BY BindMoves DEF Bind
<1>2. UNCHANGED <<activity, observer, disturbed>>
  BY DEF Bind, memory
<1>3. CASE Finish(a) /\ UNCHANGED <<db, denied>>
  <2>1. admin'[a].at = "idle" /\ \A b \in Admins \ {a} : admin'[b] = admin[b]
    BY <1>3, GotoOthers DEF Finish, Idle
  <2>2. NotesKept /\ BindsKept
    BY <1>1, <1>2, <2>1 DEF NotesKept, BindsKept
  <2> QED
    BY <1>2, <1>3, <2>2, QuietAliases DEF AliasesKept
<1>4. CASE BoundAlias(a)
  <2>1. PICK x \in PDIDs \X Values : x = admin[a].alias /\ x = <<x[1], x[2]>>
    BY <1>1 DEF Binding
  <2> DEFINE new == db'.aliases[x]
             old == db.aliases[x]
  <2>2. /\ \A y \in PDIDs \X Values : y # x => db'.aliases[y] = db.aliases[y]
        /\ new \in Aliases /\ ~new.revoked
        /\ old = NoAlias => new.id = x[1]
        /\ old # NoAlias => new.id = old.id
    BY <1>4, <2>1 DEF BoundAlias, Upserted
  <2>3. AtHome(x[1], new.id, disturbed)
    BY <2>2 DEF AliasInv, IdsAtHome, AtHome
  <2>4. /\ admin'[a].at = "bound" /\ admin'[a].alias = x /\ admin'[a].id = new.id
        /\ \A b \in Admins \ {a} : admin'[b] = admin[b]
        /\ denied' = denied \ {x}
    BY <1>4, <2>1, GotoOthers DEF BoundAlias
  <2> HIDE DEF new, old
  <2>5. /\ Noting(x)'
        /\ \A y : Noting(y) => Noting(y)'
        /\ \A y : Underway(y)' => Underway(y) \/ y = x
        /\ \A y : RevokedSoon(y) => RevokedSoon(y)'
    BY <1>1, <1>2, <2>4 DEF Noting, Underway, RevokedSoon, Signal
  <2>6. IdsAtHome'
    <3>1. \A y \in PDIDs \X Values :
              db'.aliases[y] # NoAlias => AtHome(y[1], db'.aliases[y].id, disturbed)
      BY <2>2, <2>3 DEF AliasInv, IdsAtHome, new
    <3>2. \A b \in Admins : admin'[b].at \in {"bound", "revoked"} =>
              AtHome(admin'[b].alias[1], admin'[b].id, disturbed)
      BY <2>3, <2>4 DEF AliasInv, IdsAtHome
    <3> QED
      BY <1>2, <3>1, <3>2 DEF AliasInv, IdsAtHome
  <2>7. Noted'
    <3> SUFFICES ASSUME NEW y \in PDIDs \X Values, y[1] \notin disturbed',
                        db'.aliases[y] # NoAlias
                 PROVE  (activity'[y] # Unknown /\ activity'[y].id = y[1]) \/ Noting(y)'
      BY DEF Noted
    <3>1. CASE y = x
      BY <2>5, <3>1
    <3>2. CASE y # x
      BY <1>2, <2>2, <2>5, <3>2 DEF AliasInv, Noted
    <3> QED
      BY <3>1, <3>2
  <2>8. DeniedHolds'
    BY <1>2, <2>2, <2>4, <2>5 DEF AliasInv, DeniedHolds
  <2>9. RevokedIsDenied'
    BY <1>2, <2>2, <2>4 DEF AliasInv, RevokedIsDenied, new
  <2> QED
    BY <2>6, <2>7, <2>8, <2>9 DEF AliasInv
<1> QED
  BY <1>3, <1>4, BindMoves

LEMMA RevokeAliases ==
    ASSUME Sound, AliasInv, NEW a \in Admins, NEW q, NEW v \in Values, Revoke(a, q, v)
    PROVE  AliasInv'
<1>1. PICK x \in PDIDs \X Values : x = <<Resolve(db, q), v>> /\ db.aliases[x] \in Aliases
  BY RevokeMoves
<1>2. /\ \A y \in PDIDs \X Values : y # x => db'.aliases[y] = db.aliases[y]
      /\ db'.aliases[x] \in Aliases /\ db'.aliases[x].revoked
      /\ db'.aliases[x].id = db.aliases[x].id
  BY <1>1, RevokeMoves DEF Denied
<1>3. /\ UNCHANGED <<activity, observer>>
      /\ denied' = denied \cup {x}
      /\ disturbed' = IF Underway(x) THEN disturbed \cup {x[1]} ELSE disturbed
  BY <1>1 DEF Revoke, memory
<1>4. /\ admin[a].at = "idle"
      /\ admin'[a].at = "revoked" /\ admin'[a].alias = x /\ admin'[a].id = db.aliases[x].id
      /\ \A b \in Admins \ {a} : admin'[b] = admin[b]
  BY <1>1, GotoOthers DEF Revoke, Request, Idle
<1>5. /\ \A y : Noting(y) => Noting(y)'
      /\ \A y : Underway(y)' => Underway(y)
      /\ \A y : RevokedSoon(y) => RevokedSoon(y)'
      /\ RevokedSoon(x)'
  BY <1>3, <1>4 DEF Noting, Underway, RevokedSoon, Signal
<1>6. disturbed \subseteq disturbed' /\ (Underway(x) => x[1] \in disturbed')
  BY <1>3
<1>7. db.aliases[x] # NoAlias /\ db'.aliases[x] # NoAlias
  BY <1>1, <1>2, Distinct
<1>8. \A p, id : AtHome(p, id, disturbed) => AtHome(p, id, disturbed')
  BY <1>6 DEF AtHome
<1>9. IdsAtHome'
  <2>1. \A y \in PDIDs \X Values :
            db'.aliases[y] # NoAlias => AtHome(y[1], db'.aliases[y].id, disturbed')
    BY <1>2, <1>7, <1>8 DEF AliasInv, IdsAtHome
  <2>2. \A b \in Admins : admin'[b].at \in {"bound", "revoked"} =>
            AtHome(admin'[b].alias[1], admin'[b].id, disturbed')
    BY <1>4, <1>7, <1>8 DEF AliasInv, IdsAtHome
  <2>3. /\ \A y \in PDIDs \X Values : activity'[y] # Unknown =>
               activity'[y].id = None \/ AtHome(y[1], activity'[y].id, disturbed')
        /\ \A o \in Observers : observer'[o].at = "note" =>
               AtHome(observer'[o].device, observer'[o].id, disturbed')
    BY <1>3, <1>8 DEF AliasInv, IdsAtHome
  <2> QED
    BY <2>1, <2>2, <2>3 DEF IdsAtHome
<1>10. Noted'
  BY <1>2, <1>3, <1>5, <1>6, <1>7 DEF AliasInv, Noted
<1>11. DeniedHolds'
  <2> SUFFICES ASSUME NEW y \in denied', y[1] \notin disturbed'
               PROVE  /\ y \in PDIDs \X Values
                      /\ db'.aliases[y] # NoAlias /\ db'.aliases[y].revoked
                      /\ ~Underway(y)'
                      /\ activity'[y].revoked \/ RevokedSoon(y)'
    BY DEF DeniedHolds
  <2>1. CASE y = x
    BY <1>2, <1>5, <1>6, <1>7, <2>1
  <2>2. CASE y # x
    BY <1>2, <1>3, <1>5, <1>6, <2>2 DEF AliasInv, DeniedHolds
  <2> QED
    BY <2>1, <2>2
<1>12. RevokedIsDenied'
  BY <1>2, <1>3, <1>6 DEF AliasInv, RevokedIsDenied
<1> QED
  BY <1>9, <1>10, <1>11, <1>12 DEF AliasInv

LEMMA RevokeNoteAliases ==
    ASSUME Sound, AliasInv, NEW a \in Admins, RevokeNote(a)
    PROVE  AliasInv'
<1>1. admin[a] \in Revoking /\ admin[a].at = "revoked"
  BY AdminFields DEF RevokeNote, Sound
<1>2. PICK x \in PDIDs \X Values : x = admin[a].alias /\ x = <<x[1], x[2]>> /\ x[1] \in PDIDs
  BY <1>1 DEF Revoking
<1>3. UNCHANGED <<db, observer, denied, disturbed>>
  BY DEF RevokeNote, history
<1>4. admin'[a].at = "idle" /\ \A b \in Admins \ {a} : admin'[b] = admin[b]
  BY GotoOthers DEF RevokeNote, Finish, Idle
<1>5. AtHome(x[1], admin[a].id, disturbed)
  BY <1>1, <1>2 DEF AliasInv, IdsAtHome
<1>6. /\ \A y : Noting(y) => Noting(y)'
      /\ \A y : Underway(y)' => Underway(y)
      /\ \A y : RevokedSoon(y) /\ y # x => RevokedSoon(y)'
  BY <1>1, <1>2, <1>3, <1>4 DEF Noting, Underway, RevokedSoon, Signal
<1>7. \A b \in Admins : admin'[b].at \in {"bound", "revoked"} => admin'[b] = admin[b]
  BY <1>4
\* The entries stay what they are, but for the one that is marked.
<1>8. \A y \in PDIDs \X Values :
          /\ (activity'[y] # Unknown) = (activity[y] # Unknown)
          /\ activity[y] # Unknown => activity'[y].id = activity[y].id
          /\ activity[y] # Unknown /\ activity[y].revoked => activity'[y].revoked
  <2>1. ASSUME NEW p \in PDIDs, Marked(a, p)
        PROVE  \A y \in PDIDs \X Values :
                   /\ (activity'[y] # Unknown) = (activity[y] # Unknown)
                   /\ activity[y] # Unknown => activity'[y].id = activity[y].id
                   /\ activity[y] # Unknown /\ activity[y].revoked => activity'[y].revoked
    <3>1. PICK z \in PDIDs \X Values : z = <<p, admin[a].alias[2]>>
      BY <1>1 DEF Revoking
    <3> DEFINE new == [activity[z] EXCEPT !.revoked = TRUE]
    <3>2. activity[z] # Unknown /\ activity' = [activity EXCEPT ![z] = new]
      BY <2>1, <3>1 DEF Marked
    <3>3. activity[z] \in Activities
      BY <3>2 DEF Sound, TypeOK
    <3>4. new \in Activities /\ new.id = activity[z].id /\ new.revoked
      BY <3>3 DEF Activities
    <3> HIDE DEF new
    <3>5. activity'[z] = new /\ \A y \in PDIDs \X Values : y # z => activity'[y] = activity[y]
      BY <3>2 DEF Sound, TypeOK
    <3>6. new # Unknown
      BY <3>4, Distinct
    <3> QED
      BY <3>2, <3>4, <3>5, <3>6
  <2> QED
    BY <2>1, RevokeNoteMoves
<1>9. IdsAtHome'
  BY <1>3, <1>7, <1>8 DEF AliasInv, IdsAtHome
<1>10. Noted'
  BY <1>3, <1>6, <1>8 DEF AliasInv, Noted
<1>11. DeniedHolds'
  <2> SUFFICES ASSUME NEW y \in denied, y[1] \notin disturbed
               PROVE  /\ y \in PDIDs \X Values
                      /\ db.aliases[y] # NoAlias /\ db.aliases[y].revoked
                      /\ ~Underway(y)'
                      /\ activity'[y].revoked \/ RevokedSoon(y)'
    BY <1>3 DEF DeniedHolds
  <2>1. /\ y \in PDIDs \X Values
        /\ db.aliases[y] # NoAlias /\ db.aliases[y].revoked
        /\ ~Underway(y) /\ (activity[y].revoked \/ RevokedSoon(y))
    BY DEF AliasInv, DeniedHolds
  <2>2. activity[y] # Unknown /\ activity[y].id = y[1]
    BY <2>1 DEF AliasInv, Noted, Noting, Underway, Signal
  <2>3. CASE activity[y].revoked \/ y # x
    BY <1>6, <1>8, <2>1, <2>2, <2>3
  <2>4. CASE y = x
    <3>1. admin[a].id = x[1]
      BY <1>5, <2>4 DEF AtHome
    <3>2. x[1] # None
      BY <1>2, NoneAssumption
    <3>3. PICK p \in PDIDs : Marked(a, p)
      BY <1>2, <2>2, <2>4, <3>1, RevokeNoteMoves
    <3>4. PICK z \in PDIDs \X Values : z = <<p, x[2]>> /\ z[1] = p
      <4>1. <<p, x[2]>> \in PDIDs \X Values /\ <<p, x[2]>>[1] = p
        BY <1>2
      <4> QED
        BY <4>1
    <3>5. /\ activity[z] # Unknown /\ activity[z].id = x[1]
          /\ activity' = [activity EXCEPT ![z] = [activity[z] EXCEPT !.revoked = TRUE]]
      BY <1>2, <3>1, <3>3, <3>4 DEF Marked
    <3>6. p = x[1]
      BY <2>4, <3>2, <3>4, <3>5 DEF AliasInv, IdsAtHome, AtHome
    <3>7. z = x
      BY <1>2, <3>4, <3>6
    <3>8. activity[z] \in Activities
      BY <3>5 DEF Sound, TypeOK
    <3>9. activity'[x].revoked
      <4>1. activity'[z] = [activity[z] EXCEPT !.revoked = TRUE]
        BY <3>5 DEF Sound, TypeOK
      <4> QED
        BY <3>7, <3>8, <4>1 DEF Activities
    <3> QED
      BY <1>6, <2>1, <2>4, <3>9
  <2> QED
    BY <2>3, <2>4
<1>12. RevokedIsDenied'
  BY <1>3 DEF AliasInv, RevokedIsDenied
<1> QED
  BY <1>9, <1>10, <1>11, <1>12 DEF AliasInv

\* Two devices exchange aliases: a merge, or a split.
LEMMA MoveAliases ==
    ASSUME Sound, AliasInv, NEW S \in SUBSET PDIDs, disturbed' = disturbed \cup S,
           UNCHANGED <<activity, observer>>, BindsKept,
           \A x \in PDIDs \X Values : x[1] \notin S => db'.aliases[x] = db.aliases[x],
           \A x \in PDIDs \X Values :
               x[1] \in S /\ db'.aliases[x] # NoAlias =>
                   \E y \in S : /\ db.aliases[<<y, x[2]>>] # NoAlias
                                /\ db'.aliases[x].id = db.aliases[<<y, x[2]>>].id,
           \A x \in denied' : x[1] \notin S => x \in denied,
           \A x \in denied : x[1] \notin S /\ db.aliases[x] # NoAlias /\ db.aliases[x].revoked =>
               x \in denied'
    PROVE  AliasInv'
<1>1. \A p, id : AtHome(p, id, disturbed) => AtHome(p, id, disturbed')
  BY DEF AtHome
<1>2. NotesKept
  BY DEF NotesKept
<1>3. IdsAtHome'
  <2>1. ASSUME NEW x \in PDIDs \X Values, db'.aliases[x] # NoAlias
        PROVE  AtHome(x[1], db'.aliases[x].id, disturbed')
    <3>1. CASE x[1] \notin S
      BY <1>1, <2>1, <3>1 DEF AliasInv, IdsAtHome
    <3>2. CASE x[1] \in S
      <4>1. PICK y \in S : /\ db.aliases[<<y, x[2]>>] # NoAlias
                           /\ db'.aliases[x].id = db.aliases[<<y, x[2]>>].id
        BY <2>1, <3>2
      <4>2. PICK z \in PDIDs \X Values : z = <<y, x[2]>> /\ z[1] = y
        <5>1. <<y, x[2]>> \in PDIDs \X Values /\ <<y, x[2]>>[1] = y
          OBVIOUS
        <5> QED
          BY <5>1
      <4>3. AtHome(y, db'.aliases[x].id, disturbed)
        BY <4>1, <4>2 DEF AliasInv, IdsAtHome
      <4> QED
        BY <3>2, <4>3 DEF AtHome
    <3> QED
      BY <3>1, <3>2
  <2> QED
    BY <1>1, <2>1 DEF AliasInv, IdsAtHome, BindsKept
<1>4. Noted'
  BY <1>2, NotesStay DEF AliasInv, Noted
<1>5. DeniedHolds'
  BY <1>2, NotesStay DEF AliasInv, DeniedHolds
<1>6. RevokedIsDenied'
  BY DEF AliasInv, RevokedIsDenied
<1> QED
  BY <1>3, <1>4, <1>5, <1>6 DEF AliasInv

LEMMA ConfirmAliases ==
    ASSUME Sound, AliasInv, NEW a \in Admins, Confirm(a)
    PROVE  AliasInv'
<1>1. admin[a] \in Confirming /\ admin[a].at = "confirm"
  BY ConfirmMoves DEF Confirm
<1>2. UNCHANGED <<activity, observer>>
  BY DEF Confirm, memory
<1>3. CASE Finish(a) /\ UNCHANGED <<db, denied, disturbed>>
  <2>1. NotesKept /\ BindsKept
    BY <1>1, <1>2, <1>3, GotoOthers DEF Finish, Idle, NotesKept, BindsKept
  <2> QED
    BY <1>2, <1>3, <2>1, QuietAliases DEF AliasesKept
<1>4. ASSUME NEW merged \in Records, Commits(a, merged)
      PROVE  AliasInv'
  <2> DEFINE s == admin[a].source
             t == admin[a].target
  <2>1. {s, t} \in SUBSET PDIDs
    BY <1>1 DEF Confirming
  <2>2. PICK e : MergedInto(e, db, s, t, merged) /\ db'.aliases = e.aliases
    BY <1>4 DEF Commits, Decided
  <2>3. BindsKept
    <3>1. admin'[a].at = "merged" /\ \A b \in Admins \ {a} : admin'[b] = admin[b]
      BY <1>4, GotoOthers DEF Commits
    <3> QED
      BY <1>1, <3>1 DEF BindsKept
  <2>4. /\ disturbed' = disturbed \cup {s, t}
        /\ denied' = {x \in {IF x[1] = s THEN <<t, x[2]>> ELSE x : x \in denied} :
                          db'.aliases[x] # NoAlias /\ db'.aliases[x].revoked}
    BY <1>4 DEF Commits
  <2>5. \A x \in PDIDs \X Values : x[1] \notin {s, t} => db'.aliases[x] = db.aliases[x]
    BY <2>2 DEF MergedInto
  <2>6. \A x \in PDIDs \X Values :
            x[1] \in {s, t} /\ db'.aliases[x] # NoAlias =>
                \E y \in {s, t} : /\ db.aliases[<<y, x[2]>>] # NoAlias
                                  /\ db'.aliases[x].id = db.aliases[<<y, x[2]>>].id
    BY <2>2 DEF MergedInto
  <2> HIDE DEF s, t
  <2>7. denied \subseteq PDIDs \X Values
    BY DEF Sound, TypeOK
  <2>8. \A x \in denied' : x[1] \notin {s, t} => x \in denied
    BY <2>4
  <2>9. \A x \in denied : x[1] \notin {s, t} /\ db.aliases[x] # NoAlias /\ db.aliases[x].revoked =>
            x \in denied'
    BY <2>4, <2>5, <2>7
  <2> QED
    BY <1>2, <2>1, <2>3, <2>4, <2>5, <2>6, <2>8, <2>9, MoveAliases
<1> QED
  BY <1>3, <1>4, ConfirmMoves

LEMMA SplitAliases ==
    ASSUME Sound, AliasInv, NEW a \in Admins, Split(a)
    PROVE  AliasInv'
<1>1. admin[a] \in Splitting /\ admin[a].at = "split"
  BY SplitMoves DEF Split
<1>2. UNCHANGED <<activity, observer>>
  BY DEF Split, memory
<1>3. CASE Finish(a) /\ UNCHANGED <<db, history>>
  <2>1. NotesKept /\ BindsKept
    BY <1>1, <1>2, <1>3, GotoOthers DEF history, Finish, Idle, NotesKept, BindsKept
  <2> QED
    BY <1>2, <1>3, <2>1, QuietAliases DEF AliasesKept, history
<1>4. CASE Parts(a)
  <2> DEFINE p == admin[a].device
             new == admin[a].new
             m == admin[a].mac
  <2>1. {p, new} \in SUBSET PDIDs
    BY <1>1 DEF Splitting
  <2>2. SplitOff(db', db, p, admin[a].record, new, Rec({m}, m, FALSE), m)
    BY <1>4 DEF Parts
  <2>3. BindsKept
    <3>1. /\ admin'[a] = [admin[a] EXCEPT !.at = "parted"]
          /\ \A b \in Admins \ {a} : admin'[b] = admin[b]
      BY <1>4, GotoOthers DEF Parts
    <3> QED
      BY <1>1, <3>1 DEF BindsKept, Splitting
  <2>4. disturbed' = disturbed \cup {p, new} /\ denied' = denied \ {<<p, m>>}
    BY <1>4 DEF Parts
  <2>5. \A x \in PDIDs \X Values : x[1] \notin {p, new} => db'.aliases[x] = db.aliases[x]
    BY <2>2 DEF SplitOff
  <2>6. \A x \in PDIDs \X Values :
            x[1] \in {p, new} /\ db'.aliases[x] # NoAlias =>
                \E y \in {p, new} : /\ db.aliases[<<y, x[2]>>] # NoAlias
                                    /\ db'.aliases[x].id = db.aliases[<<y, x[2]>>].id
    BY <2>2 DEF SplitOff
  <2> HIDE DEF p, new, m
  <2>7. \A x \in denied : x[1] \notin {p, new} => x \in denied'
    BY <2>4
  <2> QED
    BY <1>2, <2>1, <2>3, <2>4, <2>5, <2>6, <2>7, MoveAliases
<1> QED
  BY <1>3, <1>4, SplitMoves

LEMMA RestartAliases ==
    ASSUME Sound, AliasInv, Restart
    PROVE  AliasInv'
<1>1. UNCHANGED <<db, denied, disturbed>>
  BY DEF Restart
<1>2. \A x \in PDIDs \X Values :
          activity'[x] = IF db.aliases[x] = NoAlias THEN Unknown ELSE db.aliases[x]
  BY DEF Restart, Loaded
<1>3. \A x \in PDIDs \X Values : db.aliases[x] # NoAlias => db.aliases[x] # Unknown
  <2>1. \A x \in PDIDs \X Values : db.aliases[x] # NoAlias => db.aliases[x] \in Aliases
    BY DatabaseFields DEF Sound, TypeOK
  <2> QED
    BY <2>1, Distinct
<1>4. /\ \A o \in Observers : observer'[o].at = "idle"
      /\ \A a \in Admins : admin'[a].at = "idle"
  BY DEF Restart, Idle
<1>5. IdsAtHome'
  BY <1>1, <1>2, <1>4 DEF AliasInv, IdsAtHome
<1>6. Noted'
  BY <1>1, <1>2, <1>3 DEF AliasInv, IdsAtHome, AtHome, Noted
<1>7. DeniedHolds'
  BY <1>1, <1>2, <1>4 DEF AliasInv, DeniedHolds, Underway
<1>8. RevokedIsDenied'
  BY <1>1 DEF AliasInv, RevokedIsDenied
<1> QED
  BY <1>5, <1>6, <1>7, <1>8 DEF AliasInv

\* The steps that are not about aliases.
Other ==
    \/ \E o \in Observers :
          \/ \E m, cred, on : \/ Observe(o, m, cred, on)
                              \/ \E target : Create(o, m, cred, on, target)
          \/ Persist(o) \/ PersistFails(o) \/ Propose(o) \/ Write(o)
    \/ DemoteQuiet \/ FlushTake \/ FlushSave \/ FlushFails
    \/ \E a \in Admins :
          \/ \E q, v : BindTake(a, q, v)
          \/ \E q, m : SplitTake(a, q, m)
          \/ \E c \in PDIDs \X PDIDs : Reject(a, c) \/ Reopen(a, c) \/ ConfirmTake(a, c)
          \/ ConfirmDelete(a) \/ ConfirmUpsert(a) \/ SplitUpsert(a) \/ SplitAdd(a)
    \/ \E c \in PDIDs \X PDIDs : Forget(c)
    \/ UNCHANGED vars

LEMMA OtherKeeps ==
    ASSUME Sound, Other
    PROVE  AliasesKept /\ NotesKept /\ BindsKept
<1>1. observer \in [Observers -> {Idle} \cup Observing]
  BY DEF Sound, TypeOK
<1>2. ASSUME NEW o \in Observers, NEW m, NEW cred, NEW on,
             Observe(o, m, cred, on) \/ \E target : Create(o, m, cred, on, target)
      PROVE  AliasesKept /\ NotesKept /\ BindsKept
  <2>1. /\ observer[o].at = "idle" /\ observer'[o].at \in {"new", "next"}
        /\ \A q \in Observers \ {o} : observer'[q] = observer[q]
    BY <1>1, <1>2 DEF Observe, Create, Idle
  <2>2. UNCHANGED <<db, activity, admin, denied, disturbed>>
    BY <1>2 DEF Observe, Create, memory, history
  <2>3. NotesKept /\ BindsKept
    BY <2>1, <2>2 DEF NotesKept, BindsKept
  <2> QED
    BY <2>2, <2>3 DEF AliasesKept
<1>3. ASSUME NEW o \in Observers, Persist(o) \/ PersistFails(o) \/ Propose(o) \/ Write(o)
      PROVE  AliasesKept /\ NotesKept /\ BindsKept
  <2>1. observer[o].at \in {"new", "next"} /\ observer[o] \in Observing
    BY <1>3, ObserverFields DEF Persist, PersistFails, Propose, Write, Sound
  <2>2. /\ observer'[o].at \in {"idle", "next"}
        /\ \A q \in Observers \ {o} : observer'[q] = observer[q]
    BY <1>1, <1>3, <2>1 DEF Persist, PersistFails, Propose, Write, Idle, Observing
  <2>3. UNCHANGED <<activity, admin, denied, disturbed>>
    BY <1>3 DEF Persist, PersistFails, Propose, Write, memory, history
  <2>4. db'.aliases = db.aliases
    <3>1. CASE Persist(o)
      <4>1. db \in Databases /\ observer[o].device \in PDIDs /\ observer[o].clone \in Records
        BY <2>1 DEF Sound, TypeOK, Observing
      <4> QED
        BY <3>1, <4>1, SaveKeeps DEF Persist, Saved
    <3>2. CASE Propose(o)
      <4>1. db \in Databases /\ observer[o].device \in PDIDs /\ observer[o].target \in OrNone(PDIDs)
        BY <2>1 DEF Sound, TypeOK, Observing
      <4> QED
        BY <3>2, <4>1, UpsertCandidateKeeps DEF Propose, Decided, OrNone
    <3> QED
      BY <1>3, <3>1, <3>2 DEF PersistFails, Write
  <2>5. NotesKept /\ BindsKept
    BY <2>1, <2>2, <2>3 DEF NotesKept, BindsKept
  <2> QED
    BY <2>3, <2>4, <2>5 DEF AliasesKept
<1>4. ASSUME DemoteQuiet \/ FlushTake \/ FlushSave \/ FlushFails
      PROVE  AliasesKept /\ NotesKept /\ BindsKept
  <2>1. UNCHANGED <<activity, observer, admin, denied, disturbed>>
    BY <1>4 DEF DemoteQuiet, FlushTake, FlushSave, FlushFails, history
  <2>2. db'.aliases = db.aliases
    BY <1>4, FlushKeeps DEF DemoteQuiet, FlushTake, FlushSave, FlushFails, Flushed, Sound
  <2>3. NotesKept /\ BindsKept
    BY <2>1 DEF NotesKept, BindsKept
  <2> QED
    BY <2>1, <2>2, <2>3 DEF AliasesKept
<1>5. ASSUME NEW a \in Admins, NEW c \in PDIDs \X PDIDs, Reject(a, c) \/ Reopen(a, c)
      PROVE  AliasesKept /\ NotesKept /\ BindsKept
  <2>1. UNCHANGED <<activity, observer, admin, denied, disturbed>>
    BY <1>5 DEF Reject, Reopen, memory, history
  <2>2. db'.aliases = db.aliases
    BY <1>5, DecisionMoves DEF Reject, Reopen, Status, Decided
  <2>3. NotesKept /\ BindsKept
    BY <2>1 DEF NotesKept, BindsKept
  <2> QED
    BY <2>1, <2>2, <2>3 DEF AliasesKept
<1>6. ASSUME NEW c \in PDIDs \X PDIDs, Forget(c)
      PROVE  AliasesKept /\ NotesKept /\ BindsKept
  <2>1. UNCHANGED <<activity, observer, admin, denied, disturbed>>
    BY <1>6 DEF Forget, memory, history
  <2>2. db'.aliases = db.aliases
    BY <1>6, DecisionMoves DEF Status, Decided
  <2>3. NotesKept /\ BindsKept
    BY <2>1 DEF NotesKept, BindsKept
  <2> QED
    BY <2>1, <2>2, <2>3 DEF AliasesKept
<1>7. ASSUME NEW a \in Admins,
             \/ \E q, v : BindTake(a, q, v)
             \/ \E q, m : SplitTake(a, q, m)
             \/ \E c : ConfirmTake(a, c)
             \/ ConfirmDelete(a) \/ ConfirmUpsert(a) \/ SplitUpsert(a) \/ SplitAdd(a)
      PROVE  AliasesKept /\ NotesKept /\ BindsKept
  <2>1. UNCHANGED <<db, activity, observer, denied, disturbed>>
    BY <1>7 DEF BindTake, SplitTake, ConfirmTake, ConfirmDelete, ConfirmUpsert, SplitUpsert,
                SplitAdd, memory, history
  <2>2. admin[a].at \notin {"bound", "revoked"}
    <3>1. CASE \E q, v : BindTake(a, q, v)
      BY <3>1 DEF BindTake, Request, Idle
    <3>2. CASE \E q, m : SplitTake(a, q, m)
      BY <3>2 DEF SplitTake, Request, Idle
    <3>3. CASE \E c : ConfirmTake(a, c)
      BY <3>3 DEF ConfirmTake, Request, Idle
    <3>4. CASE ConfirmDelete(a) \/ ConfirmUpsert(a) \/ SplitUpsert(a) \/ SplitAdd(a)
      BY <3>4 DEF ConfirmDelete, ConfirmUpsert, SplitUpsert, SplitAdd
    <3> QED
      BY <1>7, <3>1, <3>2, <3>3, <3>4
  <2>3. /\ admin'[a].at \notin {"bound", "revoked"}
        /\ \A b \in Admins \ {a} : admin'[b] = admin[b]
    <3>1. ASSUME NEW job, Goto(a, job), job.at \notin {"bound", "revoked"}
          PROVE  <2>3
      BY <3>1, GotoOthers
    <3>2. admin[a].at \in {"merged", "parted", "shrunk"} =>
              /\ [admin[a] EXCEPT !.at = "moved"].at = "moved"
              /\ [admin[a] EXCEPT !.at = "shrunk"].at = "shrunk"
      BY AdminFields DEF Sound, Moving, Splitting
    <3>3. Idle.at = "idle"
      BY DEF Idle
    <3>4. CASE \E q, v : BindTake(a, q, v)
      BY <3>1, <3>4 DEF BindTake
    <3>5. CASE \E q, m : SplitTake(a, q, m)
      BY <3>1, <3>5 DEF SplitTake
    <3>6. CASE \E c : ConfirmTake(a, c)
      BY <3>1, <3>6 DEF ConfirmTake
    <3>7. CASE ConfirmDelete(a)
      BY <3>1, <3>2, <3>7 DEF ConfirmDelete
    <3>8. CASE SplitUpsert(a)
      BY <3>1, <3>2, <3>8 DEF SplitUpsert
    <3>9. CASE ConfirmUpsert(a) \/ SplitAdd(a)
      BY <3>1, <3>3, <3>9 DEF ConfirmUpsert, SplitAdd, Finish
    <3> QED
      BY <1>7, <3>4, <3>5, <3>6, <3>7, <3>8, <3>9
  <2>4. NotesKept /\ BindsKept
    BY <2>1, <2>2, <2>3 DEF NotesKept, BindsKept
  <2> QED
    BY <2>1, <2>4 DEF AliasesKept
<1>8. ASSUME UNCHANGED vars
      PROVE  AliasesKept /\ NotesKept /\ BindsKept
  <2>1. UNCHANGED <<db, activity, observer, admin, denied, disturbed>>
    BY <1>8 DEF vars, memory, history
  <2>2. NotesKept /\ BindsKept
    BY <2>1 DEF NotesKept, BindsKept
  <2> QED
    BY <2>1, <2>2 DEF AliasesKept
<1> QED
  BY <1>2, <1>3, <1>4, <1>5, <1>6, <1>7, <1>8 DEF Other

LEMMA OtherAliases ==
    ASSUME Sound, AliasInv, Other
    PROVE  AliasInv'
BY OtherKeeps, QuietAliases

LEMMA NextAliases ==
    ASSUME Sound, AliasInv, [Next]_vars
    PROVE  AliasInv'
<1>1. \A c \in issued \X issued : c \in PDIDs \X PDIDs
  BY DEF Sound, TypeOK
<1>2. ASSUME NEW o \in Observers, ObserverStep(o)
      PROVE  AliasInv'
  BY <1>2, CheckAliases, SaveAliases, NoteAliases, OtherAliases DEF ObserverStep, Other
<1>3. ASSUME NEW a \in Admins, AdminStep(a)
      PROVE  AliasInv'
  BY <1>3, BindAliases, BindNoteAliases, RevokeNoteAliases, ConfirmAliases, SplitAliases,
     OtherAliases DEF AdminStep, Other
<1>4. ASSUME NEW a \in Admins, NEW q \in issued, NEW v \in Values, Revoke(a, q, v)
      PROVE  AliasInv'
  BY <1>4, RevokeAliases
<1>5. ASSUME NEW o \in Observers, NEW m \in MACs, NEW cred \in OrNone(Credentials),
             NEW on \in BOOLEAN,
             Observe(o, m, cred, on)
             \/ \E target \in OrNone(Cached(inv)) : Create(o, m, cred, on, target)
      PROVE  AliasInv'
  BY <1>5, OtherAliases DEF Other
<1>6. ASSUME NEW a \in Admins,
             \/ \E q \in issued, v \in Values : BindTake(a, q, v)
             \/ \E q \in issued, m \in MACs : SplitTake(a, q, m)
      PROVE  AliasInv'
  BY <1>6, OtherAliases DEF Other
<1>7. ASSUME NEW a \in Admins, NEW c \in issued \X issued,
             Reject(a, c) \/ Reopen(a, c) \/ ConfirmTake(a, c)
      PROVE  AliasInv'
  BY <1>1, <1>7, OtherAliases DEF Other
<1>8. ASSUME NEW c \in issued \X issued, Forget(c)
      PROVE  AliasInv'
  BY <1>1, <1>8, OtherAliases DEF Other
<1>9. ASSUME DemoteQuiet \/ FlushTake \/ FlushSave \/ FlushFails \/ UNCHANGED vars
      PROVE  AliasInv'
  BY <1>9, OtherAliases DEF Other
<1>10. ASSUME Restart
       PROVE  AliasInv'
  BY <1>10, RestartAliases
<1> QED
  BY <1>2, <1>3, <1>4, <1>5, <1>6, <1>7, <1>8, <1>9, <1>10 DEF Next

-----------------------------------------------------------------------------
(* One verified owner                                                      *)

\* What becomes of the aliases that are active in a step: none but one that no
\* other device has actively, of devices that stay undisturbed.
Owned ==
    /\ disturbed \subseteq disturbed'
    /\ \A p \in PDIDs \ disturbed' : \A v \in Values :
          Active(db'.aliases[<<p, v>>]) =>
              Active(db.aliases[<<p, v>>]) \/ ~Conflict(db, p, v)
    /\ \A p, q \in PDIDs \ disturbed' : \A v \in Values :
          Active(db'.aliases[<<p, v>>]) /\ Active(db'.aliases[<<q, v>>]) =>
              Active(db.aliases[<<p, v>>]) \/ Active(db.aliases[<<q, v>>]) \/ p = q

LEMMA OwnedKeeps ==
    ASSUME OneVerifiedOwner, Owned
    PROVE  OneVerifiedOwner'
BY DEF OneVerifiedOwner, Owned, Conflict

\* One alias is inserted or updated.
LEMMA UpsertOwned ==
    ASSUME Sound, AliasInv, NEW x \in PDIDs \X Values, NEW verified \in BOOLEAN,
           Upserted(db', db, x[1], x[2], verified), disturbed' = disturbed,
           verified => ~Conflict(db, x[1], x[2]),
           ~verified => (x \in denied => x[1] \in disturbed)
    PROVE  Owned
<1>1. x = <<x[1], x[2]>> /\ x[1] \in PDIDs /\ x[2] \in Values
  OBVIOUS
<1>2. /\ \A y \in PDIDs \X Values : y # x => db'.aliases[y] = db.aliases[y]
      /\ db.aliases[x] = NoAlias => db'.aliases[x].verified = verified
      /\ db.aliases[x] # NoAlias => (db'.aliases[x].verified <=> db.aliases[x].verified \/ verified)
  BY <1>1 DEF Upserted
<1>3. Active(db'.aliases[x]) /\ x[1] \notin disturbed => Active(db.aliases[x]) \/ ~Conflict(db, x[1], x[2])
  <2>1. CASE verified
    BY <2>1
  <2>2. CASE ~verified
    <3>1. db.aliases[x] = NoAlias => ~db'.aliases[x].verified
      BY <1>2, <2>2
    <3>2. ASSUME db.aliases[x] # NoAlias, db.aliases[x].verified, x[1] \notin disturbed
          PROVE  Active(db.aliases[x])
      BY <2>2, <3>2 DEF Active, AliasInv, RevokedIsDenied
    <3> QED
      BY <1>2, <2>2, <3>1, <3>2 DEF Active
  <2> QED
    BY <2>1, <2>2
<1>4. ASSUME NEW p \in PDIDs, NEW v \in Values, <<p, v>> # x
      PROVE  db'.aliases[<<p, v>>] = db.aliases[<<p, v>>]
  BY <1>2, <1>4
<1>5. \A p \in PDIDs : \A v \in Values : <<p, v>> = x => p = x[1] /\ v = x[2]
  OBVIOUS
<1>6. ASSUME NEW p \in PDIDs \ disturbed', NEW v \in Values, Active(db'.aliases[<<p, v>>])
      PROVE  /\ Active(db.aliases[<<p, v>>]) \/ ~Conflict(db, p, v)
             /\ ~Active(db.aliases[<<p, v>>]) => p = x[1]
  <2>1. CASE <<p, v>> = x
    BY <1>3, <1>5, <1>6, <2>1
  <2>2. CASE <<p, v>> # x
    BY <1>4, <1>6, <2>2
  <2> QED
    BY <2>1, <2>2
<1>7. \A p, q \in PDIDs \ disturbed' : \A v \in Values :
          Active(db'.aliases[<<p, v>>]) /\ Active(db'.aliases[<<q, v>>]) =>
              Active(db.aliases[<<p, v>>]) \/ Active(db.aliases[<<q, v>>]) \/ p = q
  BY <1>6
<1>8. \A p \in PDIDs \ disturbed' : \A v \in Values :
          Active(db'.aliases[<<p, v>>]) =>
              Active(db.aliases[<<p, v>>]) \/ ~Conflict(db, p, v)
  BY <1>6
<1> QED
  BY <1>7, <1>8 DEF Owned

\* The aliases of undisturbed devices stay what they are.
LEMMA KeptOwned ==
    ASSUME disturbed \subseteq disturbed',
           \A p \in PDIDs \ disturbed' : \A v \in Values :
               Active(db'.aliases[<<p, v>>]) => Active(db.aliases[<<p, v>>])
    PROVE  Owned
BY DEF Owned

LEMMA ObserverOwned ==
    ASSUME Sound, AliasInv, NEW o \in Observers, ObserverStep(o)
    PROVE  Owned
<1>1. CASE Other
  BY <1>1, OtherKeeps, KeptOwned DEF AliasesKept
<1>2. ASSUME NEW higher \in BOOLEAN, Check(o, higher)
      PROVE  Owned
  BY <1>2, KeptOwned DEF Check
<1>3. CASE Note(o)
  BY <1>3, KeptOwned DEF Note, history
<1>4. CASE Save(o)
  <2>1. observer[o].at = "save" /\ observer[o].todo # <<>> /\ disturbed' = disturbed
    BY <1>4 DEF Save, Sound, SignalLeft, history
  <2>2. PICK x \in PDIDs \X Values :
            x = Signal(o) /\ x[1] = observer[o].device /\ x[2] = Head(observer[o].todo)
    BY <2>1, SignalType
  <2>3. CASE Skip(o) /\ UNCHANGED db
    BY <2>1, <2>3, KeptOwned
  <2>4. CASE SavedAlias(o)
    <3> DEFINE verified == x[2] \in Credentials
    <3>1. verified \in BOOLEAN
      OBVIOUS
    <3>2. /\ Upserted(db', db, x[1], x[2], verified)
          /\ verified => ~Conflict(db, x[1], x[2])
      BY <2>2, <2>4 DEF SavedAlias
    <3>3. x \in denied => x[1] \in disturbed
      <4>1. Underway(x)
        BY <2>1, <2>2 DEF Underway, Signal
      <4> QED
        BY <4>1, UnderwayIsOpen
    <3> HIDE DEF verified
    <3> QED
      BY <2>1, <3>1, <3>2, <3>3, UpsertOwned
  <2> QED
    BY <1>4, <2>3, <2>4, SaveMoves
<1> QED
  BY <1>1, <1>2, <1>3, <1>4 DEF ObserverStep, Other

LEMMA AdminOwned ==
    ASSUME Sound, AliasInv, NEW a \in Admins, AdminStep(a)
    PROVE  Owned
<1>1. CASE Other
  BY <1>1, OtherKeeps, KeptOwned DEF AliasesKept
<1>2. CASE BindNote(a) \/ RevokeNote(a)
  BY <1>2, KeptOwned DEF BindNote, RevokeNote, history
<1>3. CASE Bind(a)
  <2>1. disturbed' = disturbed
    BY <1>3 DEF Bind
  <2>2. CASE BoundAlias(a)
    <3>1. PICK x \in PDIDs \X Values : x = admin[a].alias
      BY <1>3, BindMoves DEF Binding
    <3>2. Upserted(db', db, x[1], x[2], TRUE) /\ ~Conflict(db, x[1], x[2])
      BY <2>2, <3>1 DEF BoundAlias
    <3> QED
      BY <2>1, <3>2, UpsertOwned
  <2>3. CASE Finish(a) /\ UNCHANGED <<db, denied>>
    BY <2>1, <2>3, KeptOwned
  <2> QED
    BY <1>3, <2>2, <2>3, BindMoves
<1>4. CASE Confirm(a)
  <2>1. ASSUME NEW merged \in Records, Commits(a, merged)
        PROVE  Owned
    <3> DEFINE s == admin[a].source
               t == admin[a].target
    <3>1. PICK e : MergedInto(e, db, s, t, merged) /\ db'.aliases = e.aliases
      BY <2>1 DEF Commits, Decided
    <3>2. disturbed' = disturbed \cup {s, t}
      BY <2>1 DEF Commits
    <3>3. \A x \in PDIDs \X Values : x[1] \notin {s, t} => db'.aliases[x] = db.aliases[x]
      BY <3>1 DEF MergedInto
    <3> HIDE DEF s, t
    <3>4. \A p \in PDIDs \ disturbed' : \A v \in Values :
              db'.aliases[<<p, v>>] = db.aliases[<<p, v>>]
      BY <3>2, <3>3
    <3> QED
      BY <3>2, <3>4, KeptOwned
  <2>2. CASE Finish(a) /\ UNCHANGED <<db, denied, disturbed>>
    BY <2>2, KeptOwned
  <2> QED
    BY <1>4, <2>1, <2>2, ConfirmMoves
<1>5. CASE Split(a)
  <2>1. CASE Parts(a)
    <3> DEFINE p == admin[a].device
               new == admin[a].new
               m == admin[a].mac
    <3>1. SplitOff(db', db, p, admin[a].record, new, Rec({m}, m, FALSE), m)
      BY <2>1 DEF Parts
    <3>2. disturbed' = disturbed \cup {p, new}
      BY <2>1 DEF Parts
    <3>3. \A x \in PDIDs \X Values : x[1] \notin {p, new} => db'.aliases[x] = db.aliases[x]
      BY <3>1 DEF SplitOff
    <3> HIDE DEF p, new, m
    <3>4. \A q \in PDIDs \ disturbed' : \A v \in Values :
              db'.aliases[<<q, v>>] = db.aliases[<<q, v>>]
      BY <3>2, <3>3
    <3> QED
      BY <3>2, <3>4, KeptOwned
  <2>2. CASE Finish(a) /\ UNCHANGED <<db, history>>
    BY <2>2, KeptOwned DEF history
  <2> QED
    BY <1>5, <2>1, <2>2, SplitMoves
<1> QED
  BY <1>1, <1>2, <1>3, <1>4, <1>5 DEF AdminStep, Other

LEMMA RevokeOwned ==
    ASSUME Sound, NEW a \in Admins, NEW q, NEW v \in Values, Revoke(a, q, v)
    PROVE  Owned
<1>1. PICK x \in PDIDs \X Values : Denied(db', db, x)
  BY RevokeMoves
<1>2. /\ \A y \in PDIDs \X Values : y # x => db'.aliases[y] = db.aliases[y]
      /\ ~Active(db'.aliases[x])
  BY <1>1 DEF Denied, Active
<1>3. disturbed \subseteq disturbed'
  BY DEF Revoke
<1>4. \A p \in PDIDs \ disturbed' : \A w \in Values :
          Active(db'.aliases[<<p, w>>]) => Active(db.aliases[<<p, w>>])
  BY <1>2
<1> QED
  BY <1>3, <1>4, KeptOwned

LEMMA NextOwned ==
    ASSUME Sound, AliasInv, [Next]_vars
    PROVE  Owned
<1>1. \A c \in issued \X issued : c \in PDIDs \X PDIDs
  BY DEF Sound, TypeOK
<1>2. CASE Other
  BY <1>2, OtherKeeps, KeptOwned DEF AliasesKept
<1>3. CASE Restart
  BY <1>3, KeptOwned DEF Restart
<1>4. ASSUME NEW a \in Admins, NEW q \in issued, NEW v \in Values, Revoke(a, q, v)
      PROVE  Owned
  BY <1>4, RevokeOwned
<1>5. (\E c \in issued \X issued :
           Forget(c) \/ \E a \in Admins : Reject(a, c) \/ Reopen(a, c) \/ ConfirmTake(a, c)) => Other
  BY <1>1 DEF Other
<1>6. (\E o \in Observers : \E m \in MACs, cred \in OrNone(Credentials), on \in BOOLEAN :
           \/ Observe(o, m, cred, on)
           \/ \E target \in OrNone(Cached(inv)) : Create(o, m, cred, on, target)) => Other
  BY DEF Other
<1>7. (\E a \in Admins : \/ \E q \in issued, v \in Values : BindTake(a, q, v)
                        \/ \E q \in issued, m \in MACs : SplitTake(a, q, m)) => Other
  BY DEF Other
<1>8. DemoteQuiet \/ FlushTake \/ FlushSave \/ FlushFails \/ UNCHANGED vars => Other
  BY DEF Other
<1> QED
  BY <1>2, <1>3, <1>4, <1>5, <1>6, <1>7, <1>8, ObserverOwned, AdminOwned DEF Next

-----------------------------------------------------------------------------
(* What holds of aliases                                                   *)

\* Every variable keeps its type, whatever the goroutines, the requests and the
\* flush do in which order (processObservation, BindIdentityAlias,
\* ConfirmIdentityCandidate, SplitIdentity, flushDirty).
THEOREM TypeCorrect == Spec => []TypeOK
<1>1. Init => Sound
  BY InitSound
<1>2. Sound /\ [Next]_vars => Sound'
  BY NextSound
<1>3. Sound => TypeOK
  BY DEF Sound
<1> QED
  BY <1>1, <1>2, <1>3, PTL DEF Spec

\* A revoked alias stays revoked in the database until it is bound again: the
\* index in memory knows that it is revoked, or the request that revokes it is
\* still to tell, and no observation that looks it up takes it for new
\* (materialChanged, RevokeIdentityAlias, loadIdentityAliasActivity).
THEOREM RevokedStaysRevokedAlways == Spec => []RevokedStaysRevoked
<1>1. Init => Sound /\ AliasInv
  BY InitSound, InitAliases
<1>2. Sound /\ AliasInv /\ [Next]_vars => (Sound /\ AliasInv)'
  BY NextSound, NextAliases
<1>3. AliasInv => RevokedStaysRevoked
  BY DEF AliasInv, DeniedHolds, RevokedStaysRevoked
<1> QED
  BY <1>1, <1>2, <1>3, PTL DEF Spec

\* No two devices have the same verified alias: a device that saves one has
\* looked whether another has it, and one that notes an alias it has does not
\* bring it back (UpsertIdentityAlias).
THEOREM OneVerifiedOwnerAlways == Spec => []OneVerifiedOwner
<1>1. Init => Sound /\ AliasInv /\ OneVerifiedOwner
  <2>1. Init => \A x \in PDIDs \X Values : ~Active(db.aliases[x])
    BY DEF Init, Before, Active
  <2>2. Init => OneVerifiedOwner
    BY <2>1 DEF OneVerifiedOwner
  <2> QED
    BY <2>2, InitSound, InitAliases
<1>2. Sound /\ AliasInv /\ OneVerifiedOwner /\ [Next]_vars
          => (Sound /\ AliasInv /\ OneVerifiedOwner)'
  BY NextSound, NextAliases, NextOwned, OwnedKeeps
<1> QED
  BY <1>1, <1>2, PTL DEF Spec

-----------------------------------------------------------------------------
(* The invariant of devices                                                *)

LEMMA InitDevices == Init => DeviceInv
<1> SUFFICES ASSUME Init PROVE DeviceInv
  OBVIOUS
<1>1. /\ \A o \in Observers : observer[o].at = "idle"
      /\ \A a \in Admins : admin[a].at = "idle"
      /\ issued = DOMAIN Known \cup DOMAIN MergedBefore /\ DOMAIN batch = {}
  BY DEF Init, Idle, NoBatch
<1>2. db \in Databases /\ db = Before
  BY InitSound DEF Init, Sound, TypeOK
<1>3. Stored(db) = DOMAIN Known
  BY <1>2, KnownAssumption, AbsentAssumption DEF Before, Stored, OrNone
<1>4. Cached(inv) = DOMAIN Known
  BY <1>2, <1>3, HydrateKeeps DEF Init
<1>5. /\ Merged = DOMAIN MergedBefore
      /\ \A p \in PDIDs : db.redirects[p] =
             IF p \in DOMAIN MergedBefore THEN MergedBefore[p] ELSE None
  BY <1>2, KnownAssumption, NoneAssumption DEF Before, Merged
<1>6. \A s, t \in PDIDs : db.candidates[<<s, t>>] =
          IF <<s, t>> \in Proposed THEN "pending" ELSE "none"
  BY <1>2 DEF Before
<1>7. \A s, t \in PDIDs : <<s, t>> \in Proposed =>
          s \in DOMAIN Known /\ t \in DOMAIN Known /\ s # t
  BY KnownAssumption
<1>8. Allocated
  BY <1>1, <1>3, <1>4, <1>5, <1>6, <1>7 DEF Allocated, Busy, Uses, Decides, Splits
<1>9. NewIsOpen /\ SplitIsOpen /\ OneDecides
  BY <1>1 DEF NewIsOpen, SplitIsOpen, OneDecides, Busy, Splits, Decides
<1>10. DecisionIsMerge
  <2> SUFFICES ASSUME NEW s \in PDIDs, NEW t \in PDIDs
               PROVE  /\ db.candidates[<<s, t>>] # "confirmed"
                      /\ db.redirects[s] = t => db.candidates[<<s, t>>] \in {"confirmed", "none"}
    BY DEF DecisionIsMerge
  <2>1. db.redirects[s] = t => s \notin DOMAIN Known
    BY <1>5, KnownAssumption, NoneAssumption
  <2> QED
    BY <1>6, <1>7, <2>1
<1>11. MergedIsGone
  BY <1>3, <1>4, <1>5, KnownAssumption DEF MergedIsGone
<1> QED
  BY <1>8, <1>9, <1>10, <1>11 DEF DeviceInv

\* The goroutines have the devices they had, or known ones of the cache.
SameJobs ==
    \A o \in Observers : Busy(o)' =>
        \/ /\ Busy(o)
           /\ observer'[o].device = observer[o].device /\ observer'[o].new = observer[o].new
           /\ observer'[o].target = observer[o].target
           /\ observer'[o].at = "new" => observer[o].at = "new"
        \/ /\ observer'[o].device \in Cached(inv)
           /\ ~observer'[o].new /\ observer'[o].at # "new"

\* The requests have the devices they had, or those of the cache; none starts to
\* split or to decide.
SameRequests ==
    \A a \in Admins :
        /\ Uses(a)' \subseteq Uses(a) \cup Cached(inv)
        /\ Splits(a)' => Splits(a) /\ admin'[a].new = admin[a].new
        /\ Decides(a)' => /\ Decides(a)
                          /\ admin'[a].source = admin[a].source
                          /\ admin'[a].target = admin[a].target
        /\ admin'[a].at = "confirm" => admin[a].at = "confirm"

SameDecisions == db'.redirects = db.redirects /\ db'.candidates = db.candidates

\* The part of DecisionIsMerge about s and t in the database d.
Decision(d, s, t) ==
    /\ d.candidates[<<s, t>>] = "confirmed" => d.redirects[s] = t /\ s \notin Stored(d)
    /\ d.redirects[s] = t => d.candidates[<<s, t>>] \in {"confirmed", "none"}

\* Devices that are written to the cache or the database again.
WrittenSafely ==
    /\ issued' = issued /\ ghosts \subseteq ghosts'
    /\ \A p \in Cached(inv)' \ Cached(inv) :
          /\ p \in issued /\ p \notin Merged \ ghosts'
          /\ \A a \in Admins : Splits(a)' => admin'[a].new # p
    /\ \A p \in Stored(db)' \ Stored(db) : p \in issued /\ p \notin Merged \ ghosts'
    /\ DOMAIN batch' \subseteq DOMAIN batch \cup Cached(inv)
    /\ \A p \in Cached(inv)' : Merging(p) => Merging(p)'

LEMMA QuietDevices ==
    ASSUME Sound, DeviceInv, SameJobs, SameRequests, SameDecisions, WrittenSafely
    PROVE  DeviceInv'
<1>1. Merged' = Merged
  BY DEF SameDecisions, Merged
<1>2. Allocated'
  <2>1. (Cached(inv) \cup Stored(db) \cup Merged \cup DOMAIN batch \subseteq issued)'
    BY <1>1 DEF DeviceInv, Allocated, WrittenSafely
  <2>2. \A s, t \in PDIDs : db'.candidates[<<s, t>>] # "none" => {s, t} \subseteq issued' /\ s # t
    BY DEF DeviceInv, Allocated, WrittenSafely, SameDecisions
  <2>3. \A o \in Observers : Busy(o)' => observer'[o].device \in issued'
    BY DEF DeviceInv, Allocated, WrittenSafely, SameJobs
  <2>4. \A a \in Admins : Uses(a)' \subseteq issued' /\ (Splits(a)' => admin'[a].new \in issued')
    BY DEF DeviceInv, Allocated, WrittenSafely, SameRequests
  <2> QED
    BY <2>1, <2>2, <2>3, <2>4 DEF Allocated
<1>3. NewIsOpen'
  <2> SUFFICES ASSUME NEW o \in Observers
               PROVE  /\ observer'[o].at = "new" => observer'[o].new
                      /\ Busy(o)' /\ observer'[o].new =>
                          /\ observer'[o].device \notin Merged
                          /\ observer'[o].target # observer'[o].device
                          /\ observer'[o].target # None => observer'[o].target \in issued
                          /\ \A t \in PDIDs : db.candidates[<<observer'[o].device, t>>] = "none"
                          /\ \A q \in Observers \ {o} : Busy(q)' /\ observer'[q].new =>
                                 observer'[q].device # observer'[o].device
    BY <1>1 DEF NewIsOpen, SameDecisions, WrittenSafely
  <2>1. observer'[o].at = "new" => Busy(o)'
    BY DEF Busy
  <2>2. \A q \in Observers : Busy(q)' /\ observer'[q].new =>
            /\ Busy(q) /\ observer[q].new
            /\ observer'[q].device = observer[q].device /\ observer'[q].target = observer[q].target
    BY DEF SameJobs
  <2>3. observer'[o].at = "new" => observer'[o].new
    BY <2>1 DEF SameJobs, DeviceInv, NewIsOpen
  <2> QED
    BY <2>2, <2>3 DEF DeviceInv, NewIsOpen
<1>4. SplitIsOpen'
  <2> SUFFICES ASSUME NEW a \in Admins, Splits(a)'
               PROVE  /\ admin'[a].new \notin Cached(inv)' \cup Merged
                      /\ \A o \in Observers : Busy(o)' => observer'[o].device # admin'[a].new
                      /\ \A b \in Admins : admin'[a].new \notin Uses(b)'
                      /\ \A b \in Admins \ {a} : Splits(b)' => admin'[b].new # admin'[a].new
    BY <1>1 DEF SplitIsOpen
  <2>1. Splits(a) /\ admin'[a].new = admin[a].new
    BY DEF SameRequests
  <2>2. /\ admin[a].new \notin Cached(inv) \cup Merged
        /\ \A o \in Observers : Busy(o) => observer[o].device # admin[a].new
        /\ \A b \in Admins : admin[a].new \notin Uses(b)
        /\ \A b \in Admins \ {a} : Splits(b) => admin[b].new # admin[a].new
    BY <2>1 DEF DeviceInv, SplitIsOpen
  <2>3. admin[a].new \notin Cached(inv)'
    BY <2>1, <2>2 DEF WrittenSafely
  <2>4. \A o \in Observers : Busy(o)' => observer'[o].device # admin'[a].new
    BY <2>1, <2>2 DEF SameJobs
  <2>5. \A b \in Admins : admin'[a].new \notin Uses(b)'
    BY <2>1, <2>2 DEF SameRequests
  <2>6. \A b \in Admins \ {a} : Splits(b)' => admin'[b].new # admin'[a].new
    BY <2>1, <2>2 DEF SameRequests
  <2> QED
    BY <2>1, <2>2, <2>3, <2>4, <2>5, <2>6
<1>5. OneDecides'
  BY <1>1 DEF DeviceInv, OneDecides, SameRequests, SameDecisions, WrittenSafely, Decides
<1>6. MergedIsGone'
  BY <1>1 DEF DeviceInv, MergedIsGone, WrittenSafely
<1>7. DecisionIsMerge'
  <2>1. ASSUME NEW s \in PDIDs \ ghosts', NEW t \in PDIDs
        PROVE  Decision(db', s, t)
    <3>1. s \in PDIDs \ ghosts
      BY DEF WrittenSafely
    <3>2. Decision(db, s, t)
      BY <3>1 DEF DeviceInv, DecisionIsMerge, Decision
    <3>3. db.redirects[s] = t => s \in Merged
      BY NoneAssumption DEF Merged
    <3>4. s \in Merged => (s \in Stored(db') => s \in Stored(db))
      BY <2>1 DEF WrittenSafely
    <3>5. db'.redirects = db.redirects /\ db'.candidates = db.candidates
      BY DEF SameDecisions
    <3> QED
      BY <3>2, <3>3, <3>4, <3>5 DEF Decision
  <2> QED
    BY <2>1 DEF DecisionIsMerge, Decision
<1> QED
  BY <1>2, <1>3, <1>4, <1>5, <1>6, <1>7 DEF DeviceInv

-----------------------------------------------------------------------------
(* Steps that leave the decisions alone                                    *)

\* One goroutine has another job, for its device or for one of the cache.
LEMMA QuietJob ==
    ASSUME TypeOK, NEW o \in Observers, NEW job, observer' = [observer EXCEPT ![o] = job],
           \/ job.at = "idle"
           \/ /\ Busy(o) /\ job.at # "new" /\ job.device = observer[o].device
              /\ job.new = observer[o].new /\ job.target = observer[o].target
           \/ job.device \in Cached(inv) /\ ~job.new /\ job.at # "new"
    PROVE  SameJobs
BY DEF TypeOK, SameJobs, Busy

\* What a request may go on to without splitting or deciding anything anew.
GoesOn(a, job) ==
    \/ job.at \in {"idle", "revoked"}
    \/ job.at \in {"bind", "bound"} /\ job.alias[1] \in Uses(a) \cup Cached(inv)
    \/ /\ job.at \in {"merged", "moved"} /\ Decides(a)
       /\ job.source = admin[a].source /\ job.target = admin[a].target
    \/ /\ job.at \in {"parted", "shrunk"} /\ Splits(a)
       /\ job.device = admin[a].device /\ job.new = admin[a].new

LEMMA QuietRequest ==
    ASSUME TypeOK, NEW a \in Admins, NEW job, Goto(a, job), GoesOn(a, job)
    PROVE  SameRequests
<1> SUFFICES ASSUME NEW b \in Admins
             PROVE  /\ Uses(b)' \subseteq Uses(b) \cup Cached(inv)
                    /\ Splits(b)' => Splits(b) /\ admin'[b].new = admin[b].new
                    /\ Decides(b)' => /\ Decides(b)
                                      /\ admin'[b].source = admin[b].source
                                      /\ admin'[b].target = admin[b].target
                    /\ admin'[b].at = "confirm" => admin[b].at = "confirm"
  BY DEF SameRequests
<1>1. CASE b # a
  <2>1. admin'[b] = admin[b]
    BY <1>1 DEF TypeOK, Goto
  <2> QED
    BY <2>1 DEF Uses, Splits, Decides
<1>2. CASE b = a
  <2>1. admin'[b] = job
    BY <1>2 DEF TypeOK, Goto
  <2>2. CASE job.at \in {"idle", "revoked"}
    BY <2>1, <2>2 DEF Uses, Splits, Decides
  <2>3. CASE job.at \in {"bind", "bound"} /\ job.alias[1] \in Uses(a) \cup Cached(inv)
    BY <1>2, <2>1, <2>3 DEF Uses, Splits, Decides
  <2>4. CASE /\ job.at \in {"merged", "moved"} /\ Decides(a)
             /\ job.source = admin[a].source /\ job.target = admin[a].target
    BY <1>2, <2>1, <2>4 DEF Uses, Splits, Decides
  <2>5. CASE /\ job.at \in {"parted", "shrunk"} /\ Splits(a)
             /\ job.device = admin[a].device /\ job.new = admin[a].new
    BY <1>2, <2>1, <2>5 DEF Uses, Splits, Decides
  <2> QED
    BY <2>2, <2>3, <2>4, <2>5 DEF GoesOn
<1> QED
  BY <1>1, <1>2

LEMMA MergingStays ==
    ASSUME TypeOK, NEW a \in Admins, NEW job, Goto(a, job), admin[a].at # "merged", NEW p
    PROVE  Merging(p) => Merging(p)'
BY DEF TypeOK, Goto, Merging

\* Nothing is written.
LEMMA NothingWritten ==
    ASSUME issued' = issued, ghosts' = ghosts, batch' = batch,
           Cached(inv)' \subseteq Cached(inv), Stored(db)' \subseteq Stored(db),
           \A p \in Cached(inv)' : Merging(p) => Merging(p)'
    PROVE  WrittenSafely
BY DEF WrittenSafely

\* A step of a goroutine that has its device from before, and writes nothing.
LEMMA QuietStep ==
    ASSUME Sound, DeviceInv, SameJobs, SameDecisions,
           UNCHANGED <<admin, issued, ghosts, batch>>,
           Cached(inv)' \subseteq Cached(inv), Stored(db)' \subseteq Stored(db)
    PROVE  DeviceInv'
<1>1. SameRequests
  BY DEF SameRequests, Uses, Splits, Decides
<1>2. WrittenSafely
  <2>1. \A p : Merging(p) => Merging(p)'
    BY DEF Merging
  <2> QED
    BY <2>1, NothingWritten
<1> QED
  BY <1>1, <1>2, QuietDevices

LEMMA ObserveDevices ==
    ASSUME Sound, DeviceInv, NEW o \in Observers, NEW m \in MACs, NEW cred,
           NEW on, Observe(o, m, cred, on)
    PROVE  DeviceInv'
<1> DEFINE p == Lookup(m, cred)
           r == inv.devices[p]
           job == [at |-> "next", device |-> p, clone |-> r, todo |-> Signals(m, cred),
                   record |-> Rec(r.macs \cup {m}, m, r.online \/ on), id |-> None,
                   new |-> FALSE, target |-> None]
<1>1. p \in Cached(inv)
  BY LookupCached DEF Observe
<1>2. observer' = [observer EXCEPT ![o] = job]
  BY DEF Observe
<1>3. job.device \in Cached(inv) /\ ~job.new /\ job.at # "new"
  BY <1>1
<1> HIDE DEF job
<1>4. SameJobs
  BY <1>2, <1>3, QuietJob DEF Sound
<1>5. UNCHANGED <<db, inv, admin, issued, ghosts, batch>>
  BY DEF Observe, memory, history
<1> QED
  BY <1>4, <1>5, QuietStep DEF SameDecisions, Cached, Stored

LEMMA CheckDevices ==
    ASSUME Sound, DeviceInv, NEW o \in Observers, NEW higher, Check(o, higher)
    PROVE  DeviceInv'
<1> DEFINE save == [observer[o] EXCEPT !.at = "save"]
           skip == [observer[o] EXCEPT !.todo = Tail(observer[o].todo)]
<1>1. observer[o] \in Observing /\ observer[o].at = "next"
  BY ObserverFields DEF Check, Sound
<1>2. observer' = [observer EXCEPT ![o] = save] \/ observer' = [observer EXCEPT ![o] = skip]
  BY DEF Check
<1>3. ASSUME NEW job \in {save, skip}
      PROVE  /\ Busy(o) /\ job.at # "new" /\ job.device = observer[o].device
             /\ job.new = observer[o].new /\ job.target = observer[o].target
  BY <1>1 DEF Busy, Observing
<1> HIDE DEF save, skip
<1>4. SameJobs
  <2>1. PICK job \in {save, skip} : observer' = [observer EXCEPT ![o] = job]
    BY <1>2
  <2> QED
    BY <1>3, <2>1, QuietJob DEF Sound
<1>5. UNCHANGED <<db, inv, admin, issued, ghosts, batch>>
  BY DEF Check
<1> QED
  BY <1>4, <1>5, QuietStep DEF SameDecisions, Cached, Stored

LEMMA SkipJobs ==
    ASSUME Sound, NEW o \in Observers, observer[o].at \in {"save", "note"}, Skip(o)
    PROVE  SameJobs
<1> DEFINE job == [observer[o] EXCEPT !.at = "next", !.todo = Tail(observer[o].todo)]
<1>1. observer[o] \in Observing
  BY ObserverFields DEF Sound
<1>2. observer' = [observer EXCEPT ![o] = job]
  BY DEF Skip
<1>3. /\ Busy(o) /\ job.at # "new" /\ job.device = observer[o].device
      /\ job.new = observer[o].new /\ job.target = observer[o].target
  BY <1>1 DEF Busy, Observing
<1> HIDE DEF job
<1> QED
  BY <1>2, <1>3, QuietJob DEF Sound

LEMMA SaveDevices ==
    ASSUME Sound, DeviceInv, NEW o \in Observers, Save(o)
    PROVE  DeviceInv'
<1>1. observer[o].at = "save" /\ observer[o] \in Observing
  BY ObserverFields DEF Save, Sound
<1>2. UNCHANGED <<inv, admin, issued, ghosts, batch>>
  BY DEF Save, memory, history
<1>3. CASE SavedAlias(o)
  <2> DEFINE job == [observer[o] EXCEPT !.at = "note", !.id = db'.aliases[Signal(o)].id]
  <2>1. observer' = [observer EXCEPT ![o] = job]
    BY <1>3 DEF SavedAlias
  <2>2. /\ Busy(o) /\ job.at # "new" /\ job.device = observer[o].device
        /\ job.new = observer[o].new /\ job.target = observer[o].target
    BY <1>1 DEF Busy, Observing
  <2> HIDE DEF job
  <2>3. SameJobs
    BY <2>1, <2>2, QuietJob DEF Sound
  <2>4. db'.rows = db.rows /\ db'.candidates = db.candidates /\ db'.redirects = db.redirects
    BY <1>3 DEF SavedAlias, Upserted
  <2>5. SameDecisions /\ Stored(db)' = Stored(db)
    BY <2>4 DEF SameDecisions, Stored
  <2> QED
    BY <1>2, <2>3, <2>5, QuietStep DEF Cached
<1>4. CASE Skip(o) /\ UNCHANGED db
  BY <1>1, <1>2, <1>4, SkipJobs, QuietStep DEF Cached, Stored, SameDecisions
<1> QED
  BY <1>3, <1>4, SaveMoves

LEMMA NoteDevices ==
    ASSUME Sound, DeviceInv, NEW o \in Observers, Note(o)
    PROVE  DeviceInv'
<1>1. SameJobs
  BY SkipJobs DEF Note
<1>2. UNCHANGED <<db, inv, admin, issued, ghosts, batch>>
  BY DEF Note, history
<1> QED
  BY <1>1, <1>2, QuietStep DEF Cached, Stored, SameDecisions

LEMMA PersistFailsDevices ==
    ASSUME Sound, DeviceInv, NEW o \in Observers, PersistFails(o)
    PROVE  DeviceInv'
<1>1. SameJobs
  BY QuietJob DEF PersistFails, Idle, Sound
<1>2. Cached(inv)' \subseteq Cached(inv)
  <2>1. inv \in Inventories /\ MACIndexed(inv) /\ observer[o].device \in PDIDs
    BY ObserverFields DEF Sound, TypeOK, PersistFails
  <2>2. inv'.devices = [inv.devices EXCEPT ![observer[o].device] = Absent]
    BY <2>1, DeleteKeeps DEF PersistFails, Becomes
  <2> QED
    BY <2>1, <2>2, CacheFields DEF Cached
<1>3. UNCHANGED <<db, admin, issued, ghosts, batch>>
  BY DEF PersistFails, history
<1> QED
  BY <1>1, <1>2, <1>3, QuietStep DEF Stored, SameDecisions

LEMMA SweepDevices ==
    ASSUME Sound, DeviceInv, DemoteQuiet
    PROVE  DeviceInv'
<1>1. UNCHANGED <<db, observer, admin, issued, ghosts, batch>>
  BY DEF DemoteQuiet, history
<1>2. Cached(inv)' = Cached(inv)
  BY DemoteKeeps
<1> QED
  BY <1>1, <1>2, QuietStep DEF Stored, SameDecisions, SameJobs, Busy

LEMMA StutterDevices ==
    ASSUME Sound, DeviceInv, UNCHANGED vars
    PROVE  DeviceInv'
<1>1. UNCHANGED <<db, inv, observer, admin, issued, ghosts, batch>>
  BY DEF vars, memory, history
<1> QED
  BY <1>1, QuietStep DEF Cached, Stored, SameDecisions, SameJobs, Busy

\* A device goes to the cache again.
LEMMA WriteBackDevices ==
    ASSUME Sound, DeviceInv, SameJobs, SameRequests, UNCHANGED <<db, issued, batch>>,
           NEW p \in issued, Cached(inv)' = Cached(inv) \cup {p}, WrittenBack(p),
           \A a \in Admins : Splits(a) => admin[a].new # p,
           \A q \in PDIDs : Merging(q) => Merging(q)'
    PROVE  DeviceInv'
<1>1. SameDecisions /\ Stored(db)' = Stored(db)
  BY DEF SameDecisions, Stored
<1>2. ghosts \subseteq ghosts' /\ p \notin Merged \ ghosts'
  BY DEF WrittenBack
<1>3. \A a \in Admins : Splits(a)' => admin'[a].new # p
  BY DEF SameRequests
<1>4. Cached(inv)' \subseteq PDIDs
  BY DEF Cached
<1>5. WrittenSafely
  BY <1>1, <1>2, <1>3, <1>4 DEF WrittenSafely
<1> QED
  BY <1>1, <1>5, QuietDevices

LEMMA WriteDevices ==
    ASSUME Sound, DeviceInv, NEW o \in Observers, Write(o)
    PROVE  DeviceInv'
<1> DEFINE p == observer[o].device
<1>1. p \in PDIDs /\ observer[o].record \in Records /\ Busy(o)
  BY ObserverFields DEF Write, Sound, Busy
<1>2. Cached(inv)' = Cached(inv) \cup {p} /\ WrittenBack(p)
  BY <1>1, Upserting DEF Write
<1>3. p \in issued
  BY <1>1 DEF DeviceInv, Allocated
<1>4. \A a \in Admins : Splits(a) => admin[a].new # p
  BY <1>1 DEF DeviceInv, SplitIsOpen
<1>5. SameJobs
  BY QuietJob DEF Write, Idle, Sound
<1>6. UNCHANGED <<db, admin, issued, batch>>
  BY DEF Write
<1>7. SameRequests /\ \A q \in PDIDs : Merging(q) => Merging(q)'
  BY <1>6 DEF SameRequests, Uses, Splits, Decides, Merging
<1> HIDE DEF p
<1> QED
  BY <1>2, <1>3, <1>4, <1>5, <1>6, <1>7, WriteBackDevices

LEMMA PersistDevices ==
    ASSUME Sound, DeviceInv, NEW o \in Observers, Persist(o)
    PROVE  DeviceInv'
<1> DEFINE p == observer[o].device
           job == [observer[o] EXCEPT !.at = "next"]
<1>1. /\ observer[o] \in Observing /\ p \in PDIDs /\ observer[o].clone \in Records
      /\ Busy(o) /\ observer[o].at = "new"
  BY ObserverFields DEF Persist, Sound, Busy
<1>2. SameJobs
  <2>1. observer' = [observer EXCEPT ![o] = job]
    BY <1>1 DEF Persist
  <2>2. /\ job.at # "new" /\ job.device = observer[o].device
        /\ job.new = observer[o].new /\ job.target = observer[o].target
    BY <1>1 DEF Observing
  <2> HIDE DEF job
  <2> QED
    BY <1>1, <2>1, <2>2, QuietJob DEF Sound
<1>3. UNCHANGED <<inv, admin, issued, ghosts, batch>>
  BY DEF Persist, memory, history
<1>4. SameRequests /\ \A q : Merging(q) => Merging(q)'
  BY <1>3 DEF SameRequests, Uses, Splits, Decides, Merging
<1>5. Saved(db', db, p, observer[o].clone)
  BY <1>1, SaveKeeps DEF Persist, Sound, TypeOK
<1>6. SameDecisions /\ Stored(db)' \subseteq Stored(db) \cup {p}
  <2>1. db'.rows = [db.rows EXCEPT ![p] = observer[o].clone.mac]
    BY <1>5 DEF Saved
  <2> QED
    BY <1>5, <2>1, DatabaseFields DEF SameDecisions, Stored, Saved, Sound, TypeOK
<1>7. p \in issued /\ p \notin Merged
  BY <1>1 DEF DeviceInv, Allocated, NewIsOpen
<1>8. WrittenSafely
  BY <1>3, <1>4, <1>6, <1>7 DEF WrittenSafely, Cached
<1> QED
  BY <1>2, <1>4, <1>6, <1>8, QuietDevices

LEMMA FlushDevices ==
    ASSUME Sound, DeviceInv, FlushTake \/ FlushSave \/ FlushFails
    PROVE  DeviceInv'
<1>1. UNCHANGED <<inv, observer, admin, issued>>
  BY DEF FlushTake, FlushSave, FlushFails
<1>2. SameJobs
  BY <1>1 DEF SameJobs, Busy
<1>3. SameRequests /\ \A q : Merging(q) => Merging(q)'
  BY <1>1 DEF SameRequests, Uses, Splits, Decides, Merging
<1>4. Cached(inv)' = Cached(inv)
  BY <1>1 DEF Cached
<1>5. CASE FlushTake
  <2>1. db' = db /\ ghosts' = ghosts /\ DOMAIN batch' \subseteq Cached(inv)
    BY <1>5 DEF FlushTake, history
  <2>2. SameDecisions /\ Stored(db)' = Stored(db)
    BY <2>1 DEF SameDecisions, Stored
  <2>3. WrittenSafely
    BY <1>1, <1>3, <1>4, <2>1, <2>2 DEF WrittenSafely
  <2> QED
    BY <1>2, <1>3, <2>2, <2>3, QuietDevices
<1>6. CASE FlushSave
  <2>1. Flushed(db')
    BY <1>6, FlushKeeps DEF FlushSave, Sound
  <2>2. /\ ghosts' = ghosts \cup (DOMAIN batch \cap Merged)
        /\ DOMAIN batch' = {}
    BY <1>6 DEF FlushSave, NoBatch
  <2>3. SameDecisions /\ Stored(db)' \subseteq Stored(db) \cup DOMAIN batch
    BY <2>1 DEF SameDecisions, Stored, Flushed
  <2>4. DOMAIN batch \subseteq issued
    BY DEF DeviceInv, Allocated
  <2>5. WrittenSafely
    BY <1>1, <1>3, <1>4, <2>2, <2>3, <2>4 DEF WrittenSafely
  <2> QED
    BY <1>2, <1>3, <2>3, <2>5, QuietDevices
<1>7. CASE FlushFails
  <2>1. db' = db /\ ghosts' = ghosts /\ DOMAIN batch' = {}
    BY <1>7 DEF FlushFails, NoBatch, history
  <2>2. SameDecisions /\ Stored(db)' = Stored(db)
    BY <2>1 DEF SameDecisions, Stored
  <2>3. WrittenSafely
    BY <1>1, <1>3, <1>4, <2>1, <2>2 DEF WrittenSafely
  <2> QED
    BY <1>2, <1>3, <2>2, <2>3, QuietDevices
<1> QED
  BY <1>5, <1>6, <1>7

\* A step of a request that writes nothing but aliases.
LEMMA QuietAnswer ==
    ASSUME Sound, DeviceInv, NEW a \in Admins, NEW job, Goto(a, job), GoesOn(a, job),
           SameDecisions, UNCHANGED <<observer, issued, ghosts, batch>>,
           Cached(inv)' = Cached(inv), Stored(db)' = Stored(db), admin[a].at # "merged"
    PROVE  DeviceInv'
<1>1. SameRequests
  BY QuietRequest DEF Sound
<1>2. \A p : Merging(p) => Merging(p)'
  BY MergingStays DEF Sound
<1>3. WrittenSafely
  BY <1>2, NothingWritten
<1>4. SameJobs
  BY DEF SameJobs, Busy
<1> QED
  BY <1>1, <1>3, <1>4, QuietDevices

LEMMA BindTakeDevices ==
    ASSUME Sound, DeviceInv, NEW a \in Admins, NEW q, NEW v, BindTake(a, q, v)
    PROVE  DeviceInv'
<1> DEFINE p == Resolve(db, q)
           job == [at |-> "bind", alias |-> <<p, v>>, clone |-> inv.devices[p]]
<1>1. p \in Cached(inv) /\ Goto(a, job) /\ admin[a].at # "merged"
  BY DEF BindTake, Request, Idle
<1> HIDE DEF p
<1>2. GoesOn(a, job)
  BY <1>1 DEF GoesOn
<1>3. UNCHANGED <<db, inv, observer, issued, ghosts, batch>>
  BY DEF BindTake, memory, history
<1> HIDE DEF job
<1> QED
  BY <1>1, <1>2, <1>3, QuietAnswer DEF SameDecisions, Cached, Stored

LEMMA BindDevices ==
    ASSUME Sound, DeviceInv, NEW a \in Admins, Bind(a)
    PROVE  DeviceInv'
<1>1. admin[a].at = "bind" /\ UNCHANGED <<inv, observer, issued, ghosts, batch>>
  BY DEF Bind, memory
<1>2. CASE BoundAlias(a)
  <2> DEFINE x == admin[a].alias
             job == [at |-> "bound", alias |-> x, clone |-> admin[a].clone,
                     id |-> db'.aliases[x].id]
  <2>1. Goto(a, job)
    BY <1>2 DEF BoundAlias
  <2>2. GoesOn(a, job)
    BY <1>1 DEF GoesOn, Uses
  <2>3. db'.rows = db.rows /\ db'.candidates = db.candidates /\ db'.redirects = db.redirects
    BY <1>2 DEF BoundAlias, Upserted
  <2>4. SameDecisions /\ Stored(db)' = Stored(db) /\ Cached(inv)' = Cached(inv)
    BY <1>1, <2>3 DEF SameDecisions, Stored, Cached
  <2> HIDE DEF job
  <2> QED
    BY <1>1, <2>1, <2>2, <2>4, QuietAnswer
<1>3. CASE Finish(a) /\ UNCHANGED <<db, denied>>
  <2>1. Goto(a, Idle) /\ GoesOn(a, Idle)
    BY <1>3 DEF Finish, GoesOn, Idle
  <2> QED
    BY <1>1, <1>3, <2>1, QuietAnswer DEF SameDecisions, Stored, Cached
<1> QED
  BY <1>2, <1>3, BindMoves

LEMMA RevokeDevices ==
    ASSUME Sound, DeviceInv, NEW a \in Admins, NEW q, NEW v \in Values, Revoke(a, q, v)
    PROVE  DeviceInv'
<1> DEFINE x == <<Resolve(db, q), v>>
           job == [at |-> "revoked", alias |-> x, id |-> db.aliases[x].id]
<1>1. Goto(a, job) /\ admin[a].at # "merged"
  BY DEF Revoke, Request, Idle
<1>2. GoesOn(a, job)
  BY DEF GoesOn
<1>3. Denied(db', db, x)
  BY RevokeMoves
<1> HIDE DEF x, job
<1>4. db'.rows = db.rows /\ db'.candidates = db.candidates /\ db'.redirects = db.redirects
  BY <1>3 DEF Denied
<1>5. UNCHANGED <<inv, observer, issued, ghosts, batch>>
  BY DEF Revoke, memory
<1>6. SameDecisions /\ Stored(db)' = Stored(db) /\ Cached(inv)' = Cached(inv)
  BY <1>4, <1>5 DEF SameDecisions, Stored, Cached
<1> QED
  BY <1>1, <1>2, <1>5, <1>6, QuietAnswer

LEMMA RevokeNoteDevices ==
    ASSUME Sound, DeviceInv, NEW a \in Admins, RevokeNote(a)
    PROVE  DeviceInv'
<1>1. Goto(a, Idle) /\ GoesOn(a, Idle) /\ admin[a].at # "merged"
  BY DEF RevokeNote, Finish, GoesOn, Idle
<1>2. UNCHANGED <<db, inv, observer, issued, ghosts, batch>>
  BY DEF RevokeNote, history
<1> QED
  BY <1>1, <1>2, QuietAnswer DEF SameDecisions, Stored, Cached

\* A request that writes a device back which it has: no split makes that one.
LEMMA AnswerDevices ==
    ASSUME Sound, DeviceInv, NEW a \in Admins, NEW job, Goto(a, job), GoesOn(a, job),
           UNCHANGED <<db, observer, issued, batch>>, admin[a].at # "merged",
           NEW p \in Uses(a), Cached(inv)' = Cached(inv) \cup {p}, WrittenBack(p)
    PROVE  DeviceInv'
<1>1. SameRequests /\ \A q : Merging(q) => Merging(q)'
  BY QuietRequest, MergingStays DEF Sound
<1>2. p \in issued /\ \A b \in Admins : Splits(b) => admin[b].new # p
  BY DEF DeviceInv, Allocated, SplitIsOpen
<1>3. SameJobs
  BY DEF SameJobs, Busy
<1> QED
  BY <1>1, <1>2, <1>3, WriteBackDevices

LEMMA BindNoteDevices ==
    ASSUME Sound, DeviceInv, NEW a \in Admins, BindNote(a)
    PROVE  DeviceInv'
<1> DEFINE p == admin[a].alias[1]
<1>1. admin[a] \in Bound /\ admin[a].at = "bound"
  BY AdminFields DEF BindNote, Sound
<1>2. p \in PDIDs /\ admin[a].clone \in Records /\ p \in Uses(a)
  BY <1>1 DEF Bound, Uses
<1>3. Cached(inv)' = Cached(inv) \cup {p} /\ WrittenBack(p)
  BY <1>2, Upserting DEF BindNote
<1>4. Goto(a, Idle) /\ GoesOn(a, Idle)
  BY DEF BindNote, Finish, GoesOn, Idle
<1>5. UNCHANGED <<db, observer, issued, batch>>
  BY DEF BindNote
<1> HIDE DEF p
<1> QED
  BY <1>1, <1>2, <1>3, <1>4, <1>5, AnswerDevices

LEMMA ConfirmDeleteDevices ==
    ASSUME Sound, DeviceInv, NEW a \in Admins, ConfirmDelete(a)
    PROVE  DeviceInv'
<1> DEFINE s == admin[a].source
           job == [admin[a] EXCEPT !.at = "moved"]
<1>1. admin[a] \in Moving /\ admin[a].at = "merged" /\ s \in PDIDs
  BY AdminFields DEF ConfirmDelete, Sound, Moving
<1>2. Goto(a, job) /\ GoesOn(a, job)
  BY <1>1 DEF ConfirmDelete, GoesOn, Decides, Moving
<1>3. SameRequests
  BY <1>2, QuietRequest DEF Sound
<1>4. UNCHANGED <<db, observer, issued, ghosts, batch>>
  BY DEF ConfirmDelete, history
<1>5. Cached(inv)' = Cached(inv) \ {s}
  <2>1. inv \in Inventories /\ MACIndexed(inv)
    BY DEF Sound, TypeOK
  <2>2. inv'.devices = [inv.devices EXCEPT ![s] = Absent]
    BY <1>1, <2>1, DeleteKeeps DEF ConfirmDelete, Becomes
  <2> QED
    BY <1>1, <2>1, <2>2, CacheFields DEF Cached
<1>6. ASSUME NEW p \in Cached(inv)', Merging(p)
      PROVE  Merging(p)'
  <2>1. PICK b \in Admins : admin[b].at = "merged" /\ admin[b].source = p
    BY <1>6 DEF Merging
  <2>2. b # a
    BY <1>5, <2>1, <1>6
  <2>3. admin'[b] = admin[b]
    BY <1>2, <2>2 DEF Goto, Sound, TypeOK
  <2> QED
    BY <2>1, <2>3 DEF Merging
<1>7. SameJobs /\ SameDecisions /\ Stored(db)' = Stored(db)
  BY <1>4 DEF SameJobs, Busy, SameDecisions, Stored
<1>8. WrittenSafely
  BY <1>4, <1>5, <1>6, <1>7, NothingWritten
<1> QED
  BY <1>3, <1>7, <1>8, QuietDevices

LEMMA ConfirmUpsertDevices ==
    ASSUME Sound, DeviceInv, NEW a \in Admins, ConfirmUpsert(a)
    PROVE  DeviceInv'
<1> DEFINE t == admin[a].target
<1>1. admin[a] \in Moving /\ admin[a].at = "moved"
  BY AdminFields DEF ConfirmUpsert, Sound
<1>2. t \in PDIDs /\ admin[a].record \in Records /\ t \in Uses(a)
  BY <1>1 DEF Moving, Uses, Decides
<1>3. Cached(inv)' = Cached(inv) \cup {t} /\ WrittenBack(t)
  BY <1>2, Upserting DEF ConfirmUpsert
<1>4. Goto(a, Idle) /\ GoesOn(a, Idle)
  BY DEF ConfirmUpsert, Finish, GoesOn, Idle
<1>5. UNCHANGED <<db, observer, issued, batch>>
  BY DEF ConfirmUpsert
<1> HIDE DEF t
<1> QED
  BY <1>1, <1>2, <1>3, <1>4, <1>5, AnswerDevices

LEMMA SplitUpsertDevices ==
    ASSUME Sound, DeviceInv, NEW a \in Admins, SplitUpsert(a)
    PROVE  DeviceInv'
<1> DEFINE p == admin[a].device
           job == [admin[a] EXCEPT !.at = "shrunk"]
<1>1. admin[a] \in Splitting /\ admin[a].at = "parted"
  BY AdminFields DEF SplitUpsert, Sound
<1>2. p \in PDIDs /\ admin[a].record \in Records /\ p \in Uses(a)
  BY <1>1 DEF Splitting, Uses, Decides, Splits
<1>3. Cached(inv)' = Cached(inv) \cup {p} /\ WrittenBack(p)
  BY <1>2, Upserting DEF SplitUpsert
<1>4. Goto(a, job) /\ GoesOn(a, job)
  BY <1>1 DEF SplitUpsert, GoesOn, Splits, Splitting
<1>5. UNCHANGED <<db, observer, issued, batch>>
  BY DEF SplitUpsert
<1> HIDE DEF p, job
<1> QED
  BY <1>1, <1>2, <1>3, <1>4, <1>5, AnswerDevices

LEMMA SplitDevices ==
    ASSUME Sound, DeviceInv, NEW a \in Admins, Split(a)
    PROVE  DeviceInv'
<1> DEFINE p == admin[a].device
           new == admin[a].new
           job == [admin[a] EXCEPT !.at = "parted"]
<1>1. admin[a] \in Splitting /\ admin[a].at = "split"
  BY SplitMoves DEF Split
<1>2. UNCHANGED <<inv, observer, issued, batch>>
  BY DEF Split, memory
<1>3. CASE Finish(a) /\ UNCHANGED <<db, history>>
  <2>1. Goto(a, Idle) /\ GoesOn(a, Idle)
    BY <1>3 DEF Finish, GoesOn, Idle
  <2> QED
    BY <1>1, <1>2, <1>3, <2>1, QuietAnswer DEF history, SameDecisions, Stored, Cached
<1>4. CASE Parts(a)
  <2>1. Goto(a, job) /\ GoesOn(a, job)
    BY <1>1, <1>4 DEF Parts, GoesOn, Splits, Splitting
  <2> HIDE DEF job
  <2>2. SameRequests /\ \A q : Merging(q) => Merging(q)'
    BY <1>1, <2>1, QuietRequest, MergingStays DEF Sound
  <2>3. SplitOff(db', db, p, admin[a].record, new, Rec({admin[a].mac}, admin[a].mac, FALSE),
                 admin[a].mac)
    BY <1>4 DEF Parts
  <2>4. SameDecisions /\ Stored(db)' \subseteq Stored(db) \cup {p, new}
    <3>1. db'.rows = [db.rows EXCEPT ![p] = admin[a].record.mac,
                                     ![new] = Rec({admin[a].mac}, admin[a].mac, FALSE).mac]
      BY <2>3 DEF SplitOff
    <3> QED
      BY <2>3, <3>1, DatabaseFields DEF SplitOff, SameDecisions, Stored, Sound, TypeOK
  <2>5. ghosts' = ghosts \cup ({p} \cap Merged)
    BY <1>4 DEF Parts, WrittenBack
  <2>6. Splits(a) /\ p \in Uses(a)
    BY <1>1 DEF Splits, Uses, Decides
  <2>7. {p, new} \subseteq issued /\ new \notin Merged
    BY <2>6 DEF DeviceInv, Allocated, SplitIsOpen
  <2>8. SameJobs /\ Cached(inv)' = Cached(inv)
    BY <1>2 DEF SameJobs, Busy, Cached
  <2>9. WrittenSafely
    BY <1>2, <2>2, <2>4, <2>5, <2>7, <2>8 DEF WrittenSafely
  <2> QED
    BY <2>2, <2>4, <2>8, <2>9, QuietDevices
<1> QED
  BY <1>3, <1>4, SplitMoves

LEMMA SplitAddDevices ==
    ASSUME Sound, DeviceInv, NEW a \in Admins, SplitAdd(a)
    PROVE  DeviceInv'
<1> DEFINE new == admin[a].new
           r == Rec({admin[a].mac}, admin[a].mac, FALSE)
<1>1. admin[a] \in Splitting /\ admin[a].at = "shrunk"
  BY AdminFields DEF SplitAdd, Sound
<1>2. new \in PDIDs /\ admin[a].mac \in MACs
  BY <1>1 DEF Splitting
<1>3. r \in Records
  BY <1>2, RecType DEF OrNone
<1> HIDE DEF r
<1>4. Cached(inv)' = Cached(inv) \cup {new}
  <2>1. inv \in Inventories /\ MACIndexed(inv)
    BY DEF Sound, TypeOK
  <2>2. inv'.devices = [inv.devices EXCEPT ![new] = r]
    BY <1>2, <1>3, <2>1, UpsertKeeps DEF SplitAdd, Becomes, r
  <2> QED
    BY <1>2, <1>3, <2>1, <2>2, Distinct, CacheFields DEF Cached
<1>5. Goto(a, Idle) /\ GoesOn(a, Idle)
  BY DEF SplitAdd, Finish, GoesOn, Idle
<1>6. SameRequests /\ \A q : Merging(q) => Merging(q)'
  BY <1>1, <1>5, QuietRequest, MergingStays DEF Sound
<1>7. UNCHANGED <<db, observer, issued, ghosts, batch>>
  BY DEF SplitAdd, history
<1>8. SameJobs /\ SameDecisions /\ Stored(db)' = Stored(db)
  BY <1>7 DEF SameJobs, Busy, SameDecisions, Stored
<1>9. Splits(a)
  BY <1>1 DEF Splits
<1>10. new \in issued /\ new \notin Merged
  BY <1>9 DEF DeviceInv, Allocated, SplitIsOpen
<1>11. ASSUME NEW b \in Admins, Splits(b)'
       PROVE  admin'[b].new # new
  <2>1. b # a
    BY <1>5, <1>11 DEF Goto, Splits, Idle, Sound, TypeOK
  <2>2. Splits(b) /\ admin'[b].new = admin[b].new
    BY <1>6, <1>11 DEF SameRequests
  <2> QED
    BY <1>9, <2>1, <2>2 DEF DeviceInv, SplitIsOpen
<1>12. WrittenSafely
  BY <1>4, <1>6, <1>7, <1>8, <1>10, <1>11 DEF WrittenSafely
<1> QED
  BY <1>6, <1>8, <1>12, QuietDevices

-----------------------------------------------------------------------------
(* Steps that decide                                                       *)

\* The status of an open or a rejected candidate changes, or of one that is
\* done with; nobody decides meanwhile, unless it is done with.
LEMMA StatusDevices ==
    ASSUME Sound, DeviceInv, NEW c \in PDIDs \X PDIDs, NEW from, NEW to,
           Status(c, from, to), to \in {"none", "pending", "rejected"}, "none" \notin from,
           to = "none" \/ "confirmed" \notin from,
           Deciding => "pending" \notin from,
           UNCHANGED <<inv, observer, admin, issued, ghosts, batch>>
    PROVE  DeviceInv'
<1>1. /\ db'.rows = db.rows /\ db'.redirects = db.redirects
      /\ db'.candidates = [db.candidates EXCEPT ![c] = to]
      /\ db.candidates[c] \in from
  BY DEF Status, Decided
<1>2. \A x \in PDIDs \X PDIDs : db'.candidates[x] = IF x = c THEN to ELSE db.candidates[x]
  BY <1>1, DatabaseFields DEF Sound, TypeOK
<1>3. Stored(db)' = Stored(db) /\ Cached(inv)' = Cached(inv) /\ Merged' = Merged
  BY <1>1 DEF Stored, Cached, Merged
<1>4. db.candidates[c] # "none"
  BY <1>1
<1>5. Allocated'
  <2>1. \A s, t \in PDIDs : db'.candidates[<<s, t>>] # "none" => db.candidates[<<s, t>>] # "none"
    BY <1>2, <1>4
  <2>2. (\A s, t \in PDIDs : db.candidates[<<s, t>>] # "none" => {s, t} \subseteq issued /\ s # t)'
    BY <2>1 DEF DeviceInv, Allocated
  <2> QED
    BY <1>3, <2>2 DEF DeviceInv, Allocated, Busy, Uses, Splits, Decides
<1>6. NewIsOpen'
  <2>1. \A s, t \in PDIDs : db.candidates[<<s, t>>] = "none" => db'.candidates[<<s, t>>] = "none"
    BY <1>2, <1>4
  <2>2. \A o \in Observers : Busy(o) => observer[o].device \in PDIDs
    BY ObserverFields DEF Busy, Sound
  <2> QED
    BY <1>3, <2>1, <2>2 DEF DeviceInv, NewIsOpen, Busy
<1>7. SplitIsOpen'
  BY <1>3 DEF DeviceInv, SplitIsOpen, Busy, Uses, Splits, Decides
<1>8. OneDecides'
  <2>1. ASSUME NEW a \in Admins, admin[a].at = "confirm"
        PROVE  db'.candidates[<<admin[a].source, admin[a].target>>] = "pending"
    <3>1. db.candidates[<<admin[a].source, admin[a].target>>] = "pending"
      BY <2>1 DEF DeviceInv, OneDecides
    <3>2. Deciding
      BY <2>1 DEF Deciding
    <3>3. <<admin[a].source, admin[a].target>> \in PDIDs \X PDIDs
      BY <2>1, AdminFields DEF Sound, Confirming
    <3> QED
      BY <1>1, <1>2, <3>1, <3>2, <3>3
  <2> QED
    BY <1>3, <2>1 DEF DeviceInv, OneDecides, Decides
<1>9. DecisionIsMerge'
  <2>1. ASSUME NEW s \in PDIDs \ ghosts', NEW t \in PDIDs
        PROVE  Decision(db', s, t)
    <3>1. Decision(db, s, t)
      BY DEF DeviceInv, DecisionIsMerge, Decision
    <3>2. db'.candidates[<<s, t>>] = IF <<s, t>> = c THEN to ELSE db.candidates[<<s, t>>]
      BY <1>2
    <3>3. db'.redirects = db.redirects /\ Stored(db') = Stored(db)
      BY <1>1 DEF Stored
    <3> QED
      BY <1>1, <3>1, <3>2, <3>3 DEF Decision
  <2> QED
    BY <2>1 DEF DecisionIsMerge, Decision
<1>10. MergedIsGone'
  BY <1>3 DEF DeviceInv, MergedIsGone, Merging
<1> QED
  BY <1>5, <1>6, <1>7, <1>8, <1>9, <1>10 DEF DeviceInv

LEMMA DecisionDevices ==
    ASSUME Sound, DeviceInv, NEW c \in PDIDs \X PDIDs,
           Forget(c) \/ \E a \in Admins : Reject(a, c) \/ Reopen(a, c)
    PROVE  DeviceInv'
<1>1. CASE Forget(c)
  <2>1. Status(c, {"rejected", "confirmed"}, "none")
    BY <1>1, DecisionMoves
  <2>2. UNCHANGED <<inv, observer, admin, issued, ghosts, batch>>
    BY <1>1 DEF Forget, memory, history
  <2> QED
    BY <2>1, <2>2, StatusDevices
<1>2. ASSUME NEW a \in Admins, Reject(a, c)
      PROVE  DeviceInv'
  <2>1. Status(c, {"pending"}, "rejected") /\ ~Deciding
    BY <1>2, DecisionMoves DEF Reject, Decide
  <2>2. UNCHANGED <<inv, observer, admin, issued, ghosts, batch>>
    BY <1>2 DEF Reject, memory, history
  <2> QED
    BY <2>1, <2>2, StatusDevices
<1>3. ASSUME NEW a \in Admins, Reopen(a, c)
      PROVE  DeviceInv'
  <2>1. Status(c, {"rejected"}, "pending") /\ ~Deciding
    BY <1>3, DecisionMoves DEF Reopen, Decide
  <2>2. UNCHANGED <<inv, observer, admin, issued, ghosts, batch>>
    BY <1>3 DEF Reopen, memory, history
  <2> QED
    BY <2>1, <2>2, StatusDevices
<1> QED
  BY <1>1, <1>2, <1>3

\* A new device becomes a candidate, unless it has no target.
LEMMA ProposeDevices ==
    ASSUME Sound, DeviceInv, NEW o \in Observers, Propose(o)
    PROVE  DeviceInv'
<1> DEFINE p == observer[o].device
           t == observer[o].target
           c == <<p, t>>
<1>1. /\ p \in PDIDs /\ t \in OrNone(PDIDs) /\ Busy(o) /\ observer[o].new
      /\ observer' = [observer EXCEPT ![o] = Idle]
  BY ObserverFields DEF Propose, Sound, Busy
<1>2. UNCHANGED <<inv, admin, issued, ghosts, batch>>
  BY DEF Propose, memory, history
<1>3. SameJobs
  BY <1>1, QuietJob DEF Idle, Sound
<1>4. CASE t = None
  BY <1>2, <1>3, <1>4, QuietStep DEF Propose, Cached, Stored, SameDecisions
<1>5. CASE t # None
  <2>1. t \in PDIDs /\ c \in PDIDs \X PDIDs
    BY <1>1, <1>5 DEF OrNone
  <2>2. /\ p \in issued /\ t \in issued /\ p # t /\ p \notin Merged
        /\ db.candidates[c] = "none"
        /\ \A q \in Observers \ {o} : Busy(q) /\ observer[q].new => observer[q].device # p
    BY <1>1, <1>5, <2>1 DEF DeviceInv, Allocated, NewIsOpen
  <2>3. Decided(db', db, c, "pending")
    BY <1>1, <1>5, <2>1, <2>2, UpsertCandidateKeeps DEF Propose, Sound, TypeOK
  <2> HIDE DEF c
  <2>4. /\ db'.rows = db.rows /\ db'.redirects = db.redirects
        /\ \A x \in PDIDs \X PDIDs :
              db'.candidates[x] = IF x = c THEN "pending" ELSE db.candidates[x]
    BY <2>3, DatabaseFields DEF Decided, Sound, TypeOK
  <2>5. Stored(db)' = Stored(db) /\ Cached(inv)' = Cached(inv) /\ Merged' = Merged
    BY <1>2, <2>4 DEF Stored, Cached, Merged
  <2>6. \A q \in Observers : Busy(q)' => q # o /\ Busy(q) /\ observer'[q] = observer[q]
    BY <1>1 DEF Busy, Idle, Sound, TypeOK
  <2>7. Allocated'
    <3>1. \A s, u \in PDIDs : db'.candidates[<<s, u>>] # "none" => {s, u} \subseteq issued /\ s # u
      BY <2>2, <2>4 DEF DeviceInv, Allocated, c
    <3> QED
      BY <1>2, <2>5, <2>6, <3>1 DEF DeviceInv, Allocated, Uses, Splits, Decides
  <2>8. NewIsOpen'
    <3> SUFFICES ASSUME NEW q \in Observers
                 PROVE  /\ observer'[q].at = "new" => observer'[q].new
                        /\ Busy(q)' /\ observer'[q].new =>
                            /\ observer'[q].device \notin Merged
                            /\ observer'[q].target # observer'[q].device
                            /\ observer'[q].target # None => observer'[q].target \in issued
                            /\ \A u \in PDIDs : db'.candidates[<<observer'[q].device, u>>] = "none"
                            /\ \A r \in Observers \ {q} : Busy(r)' /\ observer'[r].new =>
                                   observer'[r].device # observer'[q].device
      BY <1>2, <2>5 DEF NewIsOpen
    <3>1. CASE Busy(q)'
      <4>1. q # o /\ Busy(q) /\ observer'[q] = observer[q]
        BY <2>6, <3>1
      <4>2. observer[q].device \in PDIDs
        BY <4>1, ObserverFields DEF Busy, Sound
      <4>3. observer[q].new => observer[q].device # p
        BY <2>2, <4>1
      <4>4. observer[q].new => \A u \in PDIDs : db'.candidates[<<observer[q].device, u>>] = "none"
        BY <2>4, <4>1, <4>2, <4>3 DEF c, DeviceInv, NewIsOpen
      <4> QED
        BY <2>6, <4>1, <4>4 DEF DeviceInv, NewIsOpen
    <3>2. CASE ~Busy(q)'
      BY <3>2 DEF Busy
    <3> QED
      BY <3>1, <3>2
  <2>9. SplitIsOpen'
    <3>1. ASSUME NEW a \in Admins PROVE (Splits(a)' <=> Splits(a)) /\ Uses(a)' = Uses(a)
      BY <1>2 DEF Uses, Splits, Decides
    <3>2. \A q \in Observers : Busy(q)' => Busy(q) /\ observer'[q].device = observer[q].device
      BY <2>6
    <3> QED
      BY <1>2, <2>5, <3>1, <3>2 DEF DeviceInv, SplitIsOpen
  <2>10. OneDecides'
    <3>1. ASSUME NEW a \in Admins, admin[a].at = "confirm"
          PROVE  db'.candidates[<<admin[a].source, admin[a].target>>] = "pending"
      <4>1. <<admin[a].source, admin[a].target>> \in PDIDs \X PDIDs
        BY <3>1, AdminFields DEF Sound, Confirming
      <4> QED
        BY <2>4, <3>1, <4>1 DEF DeviceInv, OneDecides
    <3> QED
      BY <1>2, <2>5, <3>1 DEF DeviceInv, OneDecides, Decides
  <2>11. DecisionIsMerge'
    <3>1. ASSUME NEW s \in PDIDs \ ghosts', NEW u \in PDIDs
          PROVE  Decision(db', s, u)
      <4>1. Decision(db, s, u)
        BY <1>2 DEF DeviceInv, DecisionIsMerge, Decision
      <4>2. db.redirects[s] = u => s # p
        BY <2>2, NoneAssumption DEF Merged
      <4>3. db'.candidates[<<s, u>>] = IF <<s, u>> = c THEN "pending" ELSE db.candidates[<<s, u>>]
        BY <2>4
      <4>4. db'.redirects = db.redirects /\ Stored(db') = Stored(db)
        BY <2>4 DEF Stored
      <4>5. <<s, u>> = c => s = p
        BY DEF c
      <4> QED
        BY <4>1, <4>2, <4>3, <4>4, <4>5 DEF Decision
    <3> QED
      BY <3>1 DEF DecisionIsMerge, Decision
  <2>12. MergedIsGone'
    BY <1>2, <2>5 DEF DeviceInv, MergedIsGone, Merging
  <2> QED
    BY <2>7, <2>8, <2>9, <2>10, <2>11, <2>12 DEF DeviceInv
<1> QED
  BY <1>4, <1>5

LEMMA CreateDevices ==
    ASSUME Sound, DeviceInv, NEW o \in Observers, NEW m \in MACs, NEW cred, NEW on \in BOOLEAN,
           NEW target \in OrNone(Cached(inv)), Create(o, m, cred, on, target)
    PROVE  DeviceInv'
<1> DEFINE r == Rec({m}, m, on)
<1>1. r \in Records
  BY RecType DEF OrNone
<1> HIDE DEF r
<1>2. PICK p \in PDIDs \ issued :
          /\ issued' = issued \cup {p}
          /\ inv' = Upsert(inv, p, r)
          /\ observer' = [observer EXCEPT ![o] =
                 [at |-> "new", device |-> p, clone |-> r, todo |-> Signals(m, cred),
                  record |-> r, id |-> None, new |-> TRUE, target |-> target]]
  BY DEF Create, r
<1> DEFINE job == [at |-> "new", device |-> p, clone |-> r, todo |-> Signals(m, cred),
                   record |-> r, id |-> None, new |-> TRUE, target |-> target]
<1>3. UNCHANGED <<db, admin, ghosts, batch>>
  BY DEF Create, history
<1>4. Cached(inv)' = Cached(inv) \cup {p}
  <2>1. inv \in Inventories /\ MACIndexed(inv)
    BY DEF Sound, TypeOK
  <2>2. inv'.devices = [inv.devices EXCEPT ![p] = r]
    BY <1>1, <1>2, <2>1, UpsertKeeps DEF Becomes
  <2> QED
    BY <1>1, <2>1, <2>2, Distinct, CacheFields DEF Cached
<1>5. Stored(db)' = Stored(db) /\ Merged' = Merged
  BY <1>3 DEF Stored, Merged
<1>6. /\ p \notin Cached(inv) \cup Stored(db) \cup Merged
      /\ \A t \in PDIDs : db.candidates[<<p, t>>] = "none"
      /\ \A q \in Observers : Busy(q) => observer[q].device # p
      /\ \A a \in Admins : Splits(a) => admin[a].new # p
  BY DEF DeviceInv, Allocated
<1>7. target # p /\ (target # None => target \in issued)
  <2>1. None # p
    BY NoneAssumption
  <2> QED
    BY <2>1 DEF OrNone, DeviceInv, Allocated
<1>8. observer'[o] = job /\ \A q \in Observers \ {o} : observer'[q] = observer[q]
  BY <1>2 DEF Sound, TypeOK
<1>9. /\ observer'[o].at = "new" /\ observer'[o].device = p /\ observer'[o].new
      /\ observer'[o].target = target
  BY <1>8
<1> HIDE DEF job
<1>10. Allocated'
  <2>1. \A q \in Observers : Busy(q)' => observer'[q].device \in issued'
    BY <1>2, <1>8, <1>9 DEF Busy, DeviceInv, Allocated
  <2> QED
    BY <1>2, <1>3, <1>4, <1>5, <2>1 DEF DeviceInv, Allocated, Uses, Splits, Decides
<1>11. NewIsOpen'
  <2> SUFFICES ASSUME NEW q \in Observers
               PROVE  /\ observer'[q].at = "new" => observer'[q].new
                      /\ Busy(q)' /\ observer'[q].new =>
                          /\ observer'[q].device \notin Merged
                          /\ observer'[q].target # observer'[q].device
                          /\ observer'[q].target # None => observer'[q].target \in issued'
                          /\ \A u \in PDIDs : db.candidates[<<observer'[q].device, u>>] = "none"
                          /\ \A w \in Observers \ {q} : Busy(w)' /\ observer'[w].new =>
                                 observer'[w].device # observer'[q].device
    BY <1>3, <1>5 DEF NewIsOpen
  <2>1. CASE q = o
    BY <1>2, <1>6, <1>7, <1>8, <1>9, <2>1 DEF Busy
  <2>2. CASE q # o
    <3>1. observer'[q] = observer[q] /\ (Busy(q)' <=> Busy(q))
      BY <1>8, <2>2 DEF Busy
    <3>2. \A w \in Observers \ {o} : Busy(w)' => Busy(w) /\ observer'[w] = observer[w]
      BY <1>8 DEF Busy
    <3>3. Busy(q) => observer[q].device # p
      BY <1>6
    <3>4. observer[q].at = "new" => Busy(q)
      BY DEF Busy
    <3>5. /\ observer[q].at = "new" => observer[q].new
          /\ Busy(q) /\ observer[q].new =>
              /\ observer[q].device \notin Merged
              /\ observer[q].target # observer[q].device
              /\ observer[q].target # None => observer[q].target \in issued
              /\ \A u \in PDIDs : db.candidates[<<observer[q].device, u>>] = "none"
              /\ \A w \in Observers \ {q} : Busy(w) /\ observer[w].new =>
                     observer[w].device # observer[q].device
      BY DEF DeviceInv, NewIsOpen
    <3> QED
      BY <1>2, <1>9, <3>1, <3>2, <3>3, <3>5
  <2> QED
    BY <2>1, <2>2
<1>12. SplitIsOpen'
  <2>1. \A q \in Observers, a \in Admins : Busy(q)' /\ Splits(a) => observer'[q].device # admin[a].new
    BY <1>6, <1>8, <1>9 DEF Busy, DeviceInv, SplitIsOpen
  <2> QED
    BY <1>3, <1>4, <1>5, <1>6, <2>1 DEF DeviceInv, SplitIsOpen, Uses, Splits, Decides
<1>13. OneDecides' /\ DecisionIsMerge'
  BY <1>3, <1>5 DEF DeviceInv, OneDecides, Decides, DecisionIsMerge
<1>14. MergedIsGone'
  BY <1>3, <1>4, <1>5, <1>6 DEF DeviceInv, MergedIsGone, Merging
<1> QED
  BY <1>10, <1>11, <1>12, <1>13, <1>14 DEF DeviceInv

\* A decision starts: what is in the cache while nobody decides is not merged.
LEMMA ConfirmTakeDevices ==
    ASSUME Sound, DeviceInv, NEW a \in Admins, NEW c \in PDIDs \X PDIDs, ConfirmTake(a, c)
    PROVE  DeviceInv'
<1> DEFINE s == c[1]
           t == c[2]
           job == [at |-> "confirm", source |-> s, target |-> t,
                   from |-> inv.devices[s], clone |-> inv.devices[t]]
<1>1. /\ s \in PDIDs /\ t \in PDIDs /\ c = <<s, t>> /\ db.candidates[<<s, t>>] = "pending"
      /\ s \in Cached(inv) /\ t \in Cached(inv) /\ ~Deciding
  BY DEF ConfirmTake, Mergeable
<1>2. UNCHANGED <<db, inv, observer, issued, ghosts, batch>>
  BY DEF ConfirmTake, memory, history
<1>3. admin'[a] = job /\ \A b \in Admins \ {a} : admin'[b] = admin[b]
  BY DEF ConfirmTake, Goto, Sound, TypeOK
<1>4. admin'[a].at = "confirm" /\ admin'[a].source = s /\ admin'[a].target = t
  BY <1>3
<1> HIDE DEF job, s, t
<1>5. s # t /\ s \notin Merged \ ghosts /\ t \notin Merged \ ghosts
  BY <1>1 DEF DeviceInv, Allocated, MergedIsGone, Merging, Deciding
<1>6. Stored(db)' = Stored(db) /\ Cached(inv)' = Cached(inv) /\ Merged' = Merged
  BY <1>2 DEF Stored, Cached, Merged
<1>7. \A b \in Admins : ~Decides(b)
  BY <1>1 DEF Deciding, Decides
<1>8. Uses(a)' = {s, t} /\ ~Splits(a)' /\ Decides(a)'
  BY <1>4 DEF Uses, Splits, Decides
<1>9. \A b \in Admins \ {a} : /\ Uses(b)' = Uses(b) /\ Splits(b)' = Splits(b)
                               /\ ~Decides(b)' /\ admin'[b] = admin[b]
  BY <1>3, <1>7 DEF Uses, Splits, Decides
<1>10. Allocated'
  <2>1. {s, t} \subseteq issued
    BY <1>1 DEF DeviceInv, Allocated
  <2> QED
    BY <1>2, <1>6, <1>8, <1>9, <2>1 DEF DeviceInv, Allocated, Busy
<1>11. NewIsOpen'
  BY <1>2, <1>6 DEF DeviceInv, NewIsOpen, Busy
<1>12. SplitIsOpen'
  <2>1. \A b \in Admins \ {a} : Splits(b) => admin[b].new \notin {s, t}
    BY <1>1 DEF DeviceInv, SplitIsOpen
  <2> QED
    BY <1>2, <1>6, <1>8, <1>9, <2>1 DEF DeviceInv, SplitIsOpen, Busy
<1>13. OneDecides'
  <2>1. \A b \in Admins \ {a} : admin'[b].at # "confirm"
    BY <1>9 DEF Decides
  <2> QED
    BY <1>1, <1>2, <1>4, <1>5, <1>6, <1>9, <2>1 DEF OneDecides
<1>14. DecisionIsMerge'
  BY <1>2, <1>6 DEF DeviceInv, DecisionIsMerge
<1>15. MergedIsGone'
  <2>1. \A p : ~Merging(p)
    BY <1>1 DEF Merging, Deciding
  <2> QED
    BY <1>2, <1>6, <2>1 DEF DeviceInv, MergedIsGone
<1> QED
  BY <1>10, <1>11, <1>12, <1>13, <1>14, <1>15 DEF DeviceInv

\* A split starts, with an identity that nobody has.
LEMMA SplitTakeDevices ==
    ASSUME Sound, DeviceInv, NEW a \in Admins, NEW q, NEW m \in MACs, SplitTake(a, q, m)
    PROVE  DeviceInv'
<1>1. PICK new \in PDIDs : Asks(a, q, new, m)
  BY SplitTakeMoves
<1> DEFINE p == Resolve(db, q)
<1>2. PICK rest \in Records :
          Goto(a, [at |-> "split", device |-> p, new |-> new, mac |-> m,
                   clone |-> inv.devices[p], record |-> rest])
  BY <1>1 DEF Asks
<1>3. p \in Cached(inv) /\ new \notin issued /\ issued' = issued \cup {new}
  BY <1>1 DEF Asks
<1> HIDE DEF p
<1>4. UNCHANGED <<db, inv, observer, ghosts, batch>>
  BY DEF SplitTake, memory, history
<1>5. /\ admin'[a].at = "split" /\ admin'[a].device = p /\ admin'[a].new = new
      /\ \A b \in Admins \ {a} : admin'[b] = admin[b]
  BY <1>2 DEF Goto, Sound, TypeOK
<1>6. admin[a].at = "idle"
  BY DEF SplitTake, Request, Idle
<1>7. Stored(db)' = Stored(db) /\ Cached(inv)' = Cached(inv) /\ Merged' = Merged
  BY <1>4 DEF Stored, Cached, Merged
<1>8. Uses(a)' = {p} /\ Splits(a)' /\ ~Decides(a)'
  BY <1>5 DEF Uses, Splits, Decides
<1>9. \A b \in Admins \ {a} : /\ Uses(b)' = Uses(b) /\ Splits(b)' = Splits(b)
                               /\ Decides(b)' = Decides(b) /\ admin'[b] = admin[b]
  BY <1>5 DEF Uses, Splits, Decides
<1>10. /\ p \in issued
       /\ new \notin Cached(inv) \cup Merged
       /\ \A o \in Observers : Busy(o) => observer[o].device # new
       /\ \A b \in Admins : new \notin Uses(b) /\ (Splits(b) => admin[b].new # new)
  BY <1>3 DEF DeviceInv, Allocated
<1>11. Allocated'
  BY <1>3, <1>4, <1>5, <1>7, <1>8, <1>9, <1>10 DEF DeviceInv, Allocated, Busy
<1>12. NewIsOpen'
  BY <1>3, <1>4, <1>7 DEF DeviceInv, NewIsOpen, Busy
<1>13. SplitIsOpen'
  <2>1. \A o \in Observers : Busy(o)' = Busy(o) /\ observer'[o] = observer[o]
    BY <1>4 DEF Busy
  <2>2. ASSUME NEW b \in Admins, b # a, Splits(b)
        PROVE  /\ admin[b].new \notin Cached(inv) \cup Merged
               /\ \A o \in Observers : Busy(o) => observer[o].device # admin[b].new
               /\ \A w \in Admins : admin[b].new \notin Uses(w)'
               /\ \A w \in Admins \ {b} : Splits(w)' => admin'[w].new # admin[b].new
    BY <1>3, <1>5, <1>8, <1>9, <1>10, <2>2 DEF DeviceInv, SplitIsOpen
  <2>3. /\ new \notin Uses(a)'
        /\ \A w \in Admins \ {a} : new \notin Uses(w)' /\ (Splits(w)' => admin'[w].new # new)
    BY <1>3, <1>8, <1>9, <1>10
  <2> QED
    BY <1>5, <1>7, <1>9, <1>10, <2>1, <2>2, <2>3 DEF SplitIsOpen
<1>14. OneDecides'
  <2>1. ~Decides(a) /\ admin[a].at # "confirm" /\ admin'[a].at # "confirm"
    BY <1>5, <1>6 DEF Decides
  <2> QED
    BY <1>4, <1>7, <1>8, <1>9, <2>1 DEF DeviceInv, OneDecides
<1>15. DecisionIsMerge'
  BY <1>4, <1>7 DEF DeviceInv, DecisionIsMerge
<1>16. MergedIsGone'
  <2>1. \A x : Merging(x) => Merging(x)'
    BY <1>2, <1>6, MergingStays DEF Sound
  <2> QED
    BY <1>4, <1>7, <2>1 DEF DeviceInv, MergedIsGone
<1> QED
  BY <1>11, <1>12, <1>13, <1>14, <1>15, <1>16 DEF DeviceInv

\* The transaction of a merge.
LEMMA CommitDevices ==
    ASSUME Sound, DeviceInv, NEW a \in Admins, admin[a] \in Confirming, NEW merged \in Records,
           Commits(a, merged), UNCHANGED <<inv, observer, issued, ghosts, batch>>
    PROVE  DeviceInv'
<1> DEFINE s == admin[a].source
           t == admin[a].target
<1>1. s \in PDIDs /\ t \in PDIDs /\ admin[a].at = "confirm" /\ Decides(a) /\ Uses(a) = {s, t}
  BY DEF Confirming, Decides, Uses
<1>2. /\ s # t /\ s \notin Merged \ ghosts /\ t \notin Merged \ ghosts
      /\ db.candidates[<<s, t>>] = "pending"
      /\ \A b \in Admins : Decides(b) => b = a
  BY <1>1 DEF DeviceInv, OneDecides
<1>3. /\ db'.rows = [db.rows EXCEPT ![t] = merged.mac, ![s] = Absent]
      /\ db'.redirects = [db.redirects EXCEPT ![s] = t]
      /\ db'.candidates = [db.candidates EXCEPT ![<<s, t>>] = "confirmed"]
  BY DEF Commits, MergedInto, Decided
<1>4. /\ admin'[a].at = "merged" /\ admin'[a].source = s /\ admin'[a].target = t
      /\ \A b \in Admins \ {a} : admin'[b] = admin[b]
  BY DEF Commits, Goto, Sound, TypeOK
<1> HIDE DEF s, t
<1>5. db \in Databases
  BY DEF Sound, TypeOK
<1>6. /\ Stored(db)' = (Stored(db) \cup {t}) \ {s}
      /\ Merged' = Merged \cup {s}
      /\ \A p \in PDIDs : db'.redirects[p] = IF p = s THEN t ELSE db.redirects[p]
      /\ \A x \in PDIDs \X PDIDs :
            db'.candidates[x] = IF x = <<s, t>> THEN "confirmed" ELSE db.candidates[x]
  <2>1. /\ \A p \in PDIDs : db'.redirects[p] = IF p = s THEN t ELSE db.redirects[p]
        /\ \A x \in PDIDs \X PDIDs :
              db'.candidates[x] = IF x = <<s, t>> THEN "confirmed" ELSE db.candidates[x]
        /\ \A p \in PDIDs :
              db'.rows[p] = IF p = s THEN Absent ELSE IF p = t THEN merged.mac ELSE db.rows[p]
    BY <1>1, <1>2, <1>3, <1>5, DatabaseFields
  <2>2. merged.mac # Absent
    BY RecordFields, AbsentAssumption
  <2>3. Stored(db)' = (Stored(db) \cup {t}) \ {s}
    BY <1>1, <1>2, <2>1, <2>2 DEF Stored
  <2>4. Merged' = Merged \cup {s}
    BY <1>1, <2>1, NoneAssumption DEF Merged
  <2> QED
    BY <2>1, <2>3, <2>4
<1>7. Cached(inv)' = Cached(inv)
  BY DEF Cached
<1>8. /\ Uses(a)' = {s, t} /\ Decides(a)' /\ ~Splits(a)' /\ ~Splits(a)
      /\ \A b \in Admins \ {a} : /\ Uses(b)' = Uses(b) /\ Splits(b)' = Splits(b)
                                 /\ ~Decides(b)' /\ admin'[b] = admin[b]
  BY <1>1, <1>2, <1>4 DEF Uses, Splits, Decides
<1>9. \A o \in Observers : Busy(o)' = Busy(o) /\ observer'[o] = observer[o]
  BY DEF Busy
<1>10. {s, t} \subseteq issued
  BY <1>1 DEF DeviceInv, Allocated
<1>11. Allocated'
  <2>1. \A p, q \in PDIDs : db'.candidates[<<p, q>>] # "none" => {p, q} \subseteq issued /\ p # q
    BY <1>2, <1>6, <1>10 DEF DeviceInv, Allocated
  <2>2. Cached(inv)' \cup Stored(db)' \cup Merged' \cup DOMAIN batch' \subseteq issued
    BY <1>6, <1>7, <1>10 DEF DeviceInv, Allocated
  <2>3. \A b \in Admins : Uses(b)' \subseteq issued /\ (Splits(b)' => admin'[b].new \in issued)
    BY <1>8, <1>10 DEF DeviceInv, Allocated
  <2> QED
    BY <1>9, <2>1, <2>2, <2>3 DEF DeviceInv, Allocated
<1>12. NewIsOpen'
  <2>1. ASSUME NEW o \in Observers, Busy(o), observer[o].new
        PROVE  /\ observer[o].device \notin Merged'
               /\ \A u \in PDIDs : db'.candidates[<<observer[o].device, u>>] = "none"
    <3>1. observer[o].device \in PDIDs
      BY <2>1, ObserverFields DEF Busy, Sound
    <3>2. /\ observer[o].device \notin Merged
          /\ \A u \in PDIDs : db.candidates[<<observer[o].device, u>>] = "none"
      BY <2>1 DEF DeviceInv, NewIsOpen
    <3>3. observer[o].device # s
      BY <1>1, <1>2, <3>2
    <3> QED
      BY <1>6, <3>1, <3>2, <3>3
  <2> QED
    BY <1>9, <2>1 DEF DeviceInv, NewIsOpen
<1>13. SplitIsOpen'
  <2>1. \A b \in Admins : Splits(b) => admin[b].new # s
    BY <1>1 DEF DeviceInv, SplitIsOpen
  <2>2. \A b \in Admins : Uses(b)' = Uses(b)
    BY <1>1, <1>8
  <2>3. \A b \in Admins : Splits(b)' => Splits(b) /\ admin'[b].new = admin[b].new
    BY <1>8
  <2> QED
    BY <1>6, <1>7, <1>9, <2>1, <2>2, <2>3 DEF DeviceInv, SplitIsOpen
<1>14. OneDecides'
  <2>1. \A b \in Admins : admin'[b].at # "confirm"
    BY <1>4, <1>8 DEF Decides
  <2> QED
    BY <1>2, <1>4, <1>6, <1>8, <2>1 DEF OneDecides
<1>15. DecisionIsMerge'
  <2> SUFFICES ASSUME NEW p \in PDIDs \ ghosts, NEW u \in PDIDs
               PROVE  /\ db'.candidates[<<p, u>>] = "confirmed" =>
                             db'.redirects[p] = u /\ p \notin Stored(db)'
                      /\ db'.redirects[p] = u => db'.candidates[<<p, u>>] \in {"confirmed", "none"}
    BY DEF DecisionIsMerge
  <2>1. /\ db.candidates[<<p, u>>] = "confirmed" => db.redirects[p] = u /\ p \notin Stored(db)
        /\ db.redirects[p] = u => db.candidates[<<p, u>>] \in {"confirmed", "none"}
    BY DEF DeviceInv, DecisionIsMerge
  <2>2. db.redirects[p] = u => p \in Merged
    BY NoneAssumption DEF Merged
  <2>3. CASE p = s
    BY <1>2, <1>6, <2>1, <2>2, <2>3
  <2>4. CASE p # s
    BY <1>2, <1>6, <2>1, <2>2, <2>4
  <2> QED
    BY <2>3, <2>4
<1>16. MergedIsGone'
  <2>1. \E b \in Admins : admin'[b].at = "merged" /\ admin'[b].source = s
    BY <1>4
  <2>2. \A p \in Merged \ ghosts : p # t /\ p \notin Stored(db) /\ p \notin Cached(inv)
    <3>1. \A p : ~Merging(p)
      BY <1>1, <1>2 DEF Merging, Decides
    <3> QED
      BY <1>2, <3>1 DEF DeviceInv, MergedIsGone
  <2> QED
    BY <1>1, <1>2, <1>6, <1>7, <2>1, <2>2 DEF MergedIsGone, Merging
<1> QED
  BY <1>11, <1>12, <1>13, <1>14, <1>15, <1>16 DEF DeviceInv

LEMMA ConfirmDevices ==
    ASSUME Sound, DeviceInv, NEW a \in Admins, Confirm(a)
    PROVE  DeviceInv'
<1>1. UNCHANGED <<inv, observer, issued, ghosts, batch>> /\ admin[a].at = "confirm"
  BY DEF Confirm, memory
<1>2. ASSUME NEW merged \in Records, Commits(a, merged)
      PROVE  DeviceInv'
  BY <1>1, <1>2, ConfirmMoves, CommitDevices
<1>3. CASE Finish(a) /\ UNCHANGED <<db, denied, disturbed>>
  <2>1. Goto(a, Idle) /\ GoesOn(a, Idle)
    BY <1>3 DEF Finish, GoesOn, Idle
  <2> QED
    BY <1>1, <1>3, <2>1, QuietAnswer DEF SameDecisions, Stored, Cached
<1> QED
  BY <1>2, <1>3, ConfirmMoves

\* A restart: what is in the cache is what is stored.
LEMMA RestartDevices ==
    ASSUME Sound, DeviceInv, Restart
    PROVE  DeviceInv'
<1>1. /\ UNCHANGED <<db, issued, ghosts>> /\ DOMAIN batch' = {}
      /\ \A o \in Observers : observer'[o].at = "idle"
      /\ \A a \in Admins : admin'[a].at = "idle"
  BY DEF Restart, Idle, NoBatch
<1>2. Cached(inv)' = Stored(db)
  BY HydrateKeeps DEF Restart, Sound, TypeOK
<1>3. Stored(db)' = Stored(db) /\ Merged' = Merged
  BY <1>1 DEF Stored, Merged
<1>4. /\ \A o \in Observers : ~Busy(o)' /\ observer'[o].at # "new"
      /\ \A a \in Admins : Uses(a)' = {} /\ ~Splits(a)' /\ ~Decides(a)' /\ admin'[a].at # "confirm"
  BY <1>1 DEF Busy, Uses, Splits, Decides
<1>5. Allocated'
  BY <1>1, <1>2, <1>3, <1>4 DEF DeviceInv, Allocated
<1>6. NewIsOpen' /\ SplitIsOpen' /\ OneDecides'
  BY <1>4 DEF NewIsOpen, SplitIsOpen, OneDecides
<1>7. DecisionIsMerge' /\ MergedIsGone'
  BY <1>1, <1>2, <1>3 DEF DeviceInv, DecisionIsMerge, MergedIsGone
<1> QED
  BY <1>5, <1>6, <1>7 DEF DeviceInv

LEMMA NextDevices ==
    ASSUME Sound, DeviceInv, [Next]_vars
    PROVE  DeviceInv'
<1>1. \A c \in issued \X issued : c \in PDIDs \X PDIDs
  BY DEF Sound, TypeOK
<1>2. ASSUME NEW o \in Observers, ObserverStep(o)
      PROVE  DeviceInv'
  BY <1>2, PersistDevices, PersistFailsDevices, CheckDevices, SaveDevices, NoteDevices,
     ProposeDevices, WriteDevices DEF ObserverStep
<1>3. ASSUME NEW a \in Admins, AdminStep(a)
      PROVE  DeviceInv'
  BY <1>3, BindDevices, BindNoteDevices, RevokeNoteDevices, ConfirmDevices, ConfirmDeleteDevices,
     ConfirmUpsertDevices, SplitDevices, SplitUpsertDevices, SplitAddDevices DEF AdminStep
<1>4. ASSUME NEW a \in Admins, NEW q \in issued, NEW v \in Values,
             BindTake(a, q, v) \/ Revoke(a, q, v)
      PROVE  DeviceInv'
  BY <1>4, BindTakeDevices, RevokeDevices
<1>5. ASSUME NEW o \in Observers, NEW m \in MACs, NEW cred \in OrNone(Credentials),
             NEW on \in BOOLEAN,
             Observe(o, m, cred, on)
             \/ \E target \in OrNone(Cached(inv)) : Create(o, m, cred, on, target)
      PROVE  DeviceInv'
  BY <1>5, ObserveDevices, CreateDevices
<1>6. ASSUME NEW a \in Admins, NEW c \in issued \X issued,
             Reject(a, c) \/ Reopen(a, c) \/ ConfirmTake(a, c)
      PROVE  DeviceInv'
  BY <1>1, <1>6, DecisionDevices, ConfirmTakeDevices
<1>7. ASSUME NEW a \in Admins, NEW q \in issued, NEW m \in MACs, SplitTake(a, q, m)
      PROVE  DeviceInv'
  BY <1>7, SplitTakeDevices
<1>8. ASSUME NEW c \in issued \X issued, Forget(c)
      PROVE  DeviceInv'
  BY <1>1, <1>8, DecisionDevices
<1>9. ASSUME DemoteQuiet \/ FlushTake \/ FlushSave \/ FlushFails \/ UNCHANGED vars
      PROVE  DeviceInv'
  BY <1>9, SweepDevices, FlushDevices, StutterDevices
<1>10. ASSUME Restart
       PROVE  DeviceInv'
  BY <1>10, RestartDevices
<1> QED
  BY <1>2, <1>3, <1>4, <1>5, <1>6, <1>7, <1>8, <1>9, <1>10 DEF Next

\* A decision and its merge stand or fall together: one transaction writes both,
\* one request decides at a time, and the device that a candidate is the source
\* of is neither being created nor a split's (ConfirmIdentityCandidateMerge).
THEOREM DecisionIsMergeAlways == Spec => []DecisionIsMerge
<1>1. Init => Sound /\ DeviceInv
  BY InitSound, InitDevices
<1>2. Sound /\ DeviceInv /\ [Next]_vars => (Sound /\ DeviceInv)'
  BY NextSound, NextDevices
<1>3. DeviceInv => DecisionIsMerge
  BY DEF DeviceInv
<1> QED
  BY <1>1, <1>2, <1>3, PTL DEF Spec

\* A merged device is neither listed nor loaded again, unless a goroutine or the
\* flush writes back a clone of it that was taken before
\* (ConfirmIdentityCandidate, cache.Delete).
THEOREM MergedIsGoneAlways == Spec => []MergedIsGone
<1>1. Init => Sound /\ DeviceInv
  BY InitSound, InitDevices
<1>2. Sound /\ DeviceInv /\ [Next]_vars => (Sound /\ DeviceInv)'
  BY NextSound, NextDevices
<1>3. DeviceInv => MergedIsGone
  BY DEF DeviceInv
<1> QED
  BY <1>1, <1>2, <1>3, PTL DEF Spec

-----------------------------------------------------------------------------
(* Paths of redirects                                                      *)

\* One redirect after the other, until there is none.
Path(d, p, n) ==
    LET path[i \in 0 .. n] ==
            IF i = 0 THEN p
            ELSE IF path[i - 1] = None THEN None ELSE d.redirects[path[i - 1]]
    IN path

Follows(f, d, p, n) ==
    /\ f[0] = p
    /\ \A i \in 1 .. n : f[i] = IF f[i - 1] = None THEN None ELSE d.redirects[f[i - 1]]

LEMMA FollowsAgree ==
    ASSUME NEW d, NEW p, NEW n \in Nat, NEW m \in Nat, NEW f, Follows(f, d, p, n),
           NEW g, Follows(g, d, p, m), NEW i \in 0 .. n, i \in 0 .. m
    PROVE  f[i] = g[i]
<1> DEFINE Bad == {j \in 0 .. n : j <= m /\ f[j] # g[j]}
<1> SUFFICES ASSUME Bad # {} PROVE FALSE
  OBVIOUS
<1>1. PICK k \in Bad : \A j \in Bad : k <= j
  <2>1. Bad \subseteq Nat
    OBVIOUS
  <2> HIDE DEF Bad
  <2> QED
    BY <2>1, Least
<1>2. k \in 0 .. n /\ k <= m /\ f[k] # g[k]
  BY <1>1
<1>3. k # 0
  BY <1>2 DEF Follows
<1>4. k \in 1 .. n /\ k \in 1 .. m /\ k - 1 \in 0 .. n /\ k - 1 <= m /\ ~(k <= k - 1)
  BY <1>2, <1>3
<1>5. f[k - 1] = g[k - 1]
  BY <1>1, <1>4
<1>6. f[k] = g[k]
  BY <1>4, <1>5 DEF Follows
<1> QED
  BY <1>2, <1>6

LEMMA PathFollows ==
    ASSUME NEW d \in Databases, NEW p \in PDIDs, NEW n \in Nat
    PROVE  /\ Follows(Path(d, p, n), d, p, n)
           /\ \A i \in 0 .. n : Path(d, p, n)[i] \in OrNone(PDIDs)
<1> DEFINE D == OrNone(PDIDs)
           G == [x \in (1 .. n) \X D |-> IF x[2] = None THEN None ELSE d.redirects[x[2]]]
<1>1. p \in D
  BY DEF OrNone
<1>2. G \in [(1 .. n) \X D -> D]
  <2>1. \A e \in D : (IF e = None THEN None ELSE d.redirects[e]) \in D
    BY DatabaseFields DEF OrNone
  <2> QED
    BY <2>1
<1>3. \A i \in 1 .. n : \A e \in D : G[<<i, e>>] = IF e = None THEN None ELSE d.redirects[e]
  OBVIOUS
<1> HIDE DEF D, G
<1>4. PICK f \in [0 .. n -> D] : Steps(f, n, p, G)
  BY <1>1, <1>2, Recursion
<1>5. f = [i \in 0 .. n |-> IF i = 0 THEN p
                            ELSE IF f[i - 1] = None THEN None ELSE d.redirects[f[i - 1]]]
  <2>1. ASSUME NEW i \in 0 .. n, i # 0
        PROVE  G[<<i, f[i - 1]>>] = IF f[i - 1] = None THEN None ELSE d.redirects[f[i - 1]]
    <3>1. i \in 1 .. n /\ f[i - 1] \in D
      BY <2>1
    <3> QED
      BY <1>3, <3>1
  <2> QED
    BY <1>4, <2>1 DEF Steps
<1> DEFINE path[i \in 0 .. n] ==
               IF i = 0 THEN p
               ELSE IF path[i - 1] = None THEN None ELSE d.redirects[path[i - 1]]
<1>6. path = [i \in 0 .. n |-> IF i = 0 THEN p
                               ELSE IF path[i - 1] = None THEN None ELSE d.redirects[path[i - 1]]]
  BY <1>5
<1>7. Path(d, p, n) = path
  BY DEF Path
<1> HIDE DEF path
<1>8. Follows(path, d, p, n)
  BY <1>6 DEF Follows
<1>9. Follows(f, d, p, n)
  BY <1>5 DEF Follows
<1>10. \A i \in 0 .. n : path[i] \in D
  BY <1>8, <1>9, FollowsAgree
<1> QED
  BY <1>7, <1>8, <1>10 DEF D

\* A path that does not end comes back to where it has been.
LEMMA NoLoop ==
    ASSUME Acyclic, NEW n \in Nat, n = Cardinality(PDIDs), NEW p, NEW f,
           Follows(f, db, p, n), \A i \in 0 .. n : f[i] \in PDIDs
    PROVE  FALSE
<1> DEFINE g == [i \in 0 .. n |-> f[i]]
<1>1. g \in [0 .. n -> PDIDs]
  OBVIOUS
<1>2. IsFiniteSet(0 .. n) /\ Cardinality(PDIDs) < Cardinality(0 .. n)
  BY FS_Interval
<1> HIDE DEF g
<1>3. PICK x, y \in 0 .. n : x # y /\ g[x] = g[y]
  BY <1>1, <1>2, PDIDsAssumption, FS_PigeonHole
<1>4. PICK i, j \in 0 .. n : i < j /\ f[i] = f[j]
  BY <1>3 DEF g
<1> DEFINE C == {f[k] : k \in i .. (j - 1)}
<1>5. C \in SUBSET PDIDs
  OBVIOUS
<1>6. f[i] \in C
  <2>1. i \in i .. (j - 1)
    BY <1>4
  <2> QED
    BY <2>1
<1>7. PICK q \in C : db.redirects[q] \notin C
  BY <1>5, <1>6 DEF Acyclic
<1>8. PICK k \in i .. (j - 1) : q = f[k]
  OBVIOUS
<1>9. k + 1 \in 1 .. n /\ (k + 1) - 1 = k /\ f[k] \in PDIDs
  BY <1>4
<1>10. db.redirects[q] = f[k + 1]
  BY <1>8, <1>9, NoneAssumption DEF Follows
<1>11. CASE k + 1 = j
  BY <1>4, <1>6, <1>7, <1>10, <1>11
<1>12. CASE k + 1 # j
  <2>1. k + 1 \in i .. (j - 1)
    BY <1>12
  <2> QED
    BY <1>7, <1>10, <2>1
<1> QED
  BY <1>11, <1>12

\* A path of redirects keeps to what is stored or merged.
LEMMA PathLeads ==
    ASSUME Sound, Lead, ghosts = {}, NEW p \in Merged, NEW n \in Nat, NEW i \in 0 .. n
    PROVE  Path(db, p, n)[i] \in Stored(db) \cup Merged \cup {None}
<1> DEFINE f == Path(db, p, n)
           Bad == {j \in 0 .. n : f[j] \notin Stored(db) \cup Merged \cup {None}}
<1>1. Follows(f, db, p, n)
  BY PathFollows DEF Sound, TypeOK, Merged
<1> HIDE DEF f
<1> SUFFICES ASSUME Bad # {} PROVE FALSE
  BY DEF f
<1>2. PICK k \in Bad : \A j \in Bad : k <= j
  <2>1. Bad \subseteq Nat
    OBVIOUS
  <2> HIDE DEF Bad
  <2> QED
    BY <2>1, Least
<1>3. k \in 0 .. n /\ f[k] \notin Stored(db) \cup Merged \cup {None}
  BY <1>2
<1>4. k # 0
  BY <1>1, <1>3 DEF Follows
<1>5. k \in 1 .. n /\ k - 1 \in 0 .. n /\ ~(k <= k - 1)
  BY <1>3, <1>4
<1>6. f[k - 1] \in Stored(db) \cup Merged \cup {None}
  BY <1>2, <1>5
<1>7. f[k] = IF f[k - 1] = None THEN None ELSE db.redirects[f[k - 1]]
  BY <1>1, <1>5 DEF Follows
<1>8. \A q \in PDIDs \ Merged : db.redirects[q] = None
  BY DEF Merged
<1>9. \A q \in Merged : db.redirects[q] \in Stored(db) \cup Merged
  BY DEF Lead
<1>10. Stored(db) \subseteq PDIDs
  BY DEF Stored
<1> QED
  BY <1>3, <1>6, <1>7, <1>8, <1>9, <1>10

LEMMA LeadResolves ==
    ASSUME Sound, Lead
    PROVE  RedirectsLead
<1> SUFFICES ASSUME ghosts = {}, NEW p \in Merged, Redirects(p) < MaxDepth
             PROVE  Resolve(db, p) \in Stored(db)
  BY DEF RedirectsLead
<1> DEFINE N == Cardinality(PDIDs)
           f == Path(db, p, N)
           g == Path(db, p, MaxDepth)
           S == {i \in 1 .. N : f[i] # None}
           ends == {i \in 1 .. MaxDepth : g[i] = None /\ g[i - 1] # None}
<1>1. N \in Nat /\ MaxDepth \in Nat
  BY PDIDsAssumption, FS_CardinalityType, BoundsAssumption
<1>2. Redirects(p) = Cardinality(S)
  BY DEF Redirects, Path
<1>3. Resolve(db, p) = IF ends = {} THEN p ELSE g[(CHOOSE i \in ends : TRUE) - 1]
  BY DEF Resolve, Path
<1>4. p \in PDIDs /\ p # None /\ db \in Databases
  BY NoneAssumption DEF Merged, Sound, TypeOK
<1> HIDE DEF N
<1>5. /\ Follows(f, db, p, N) /\ \A i \in 0 .. N : f[i] \in OrNone(PDIDs)
      /\ Follows(g, db, p, MaxDepth)
  BY <1>1, <1>4, PathFollows
<1>6. \A i \in 0 .. MaxDepth : g[i] \in Stored(db) \cup Merged \cup {None}
  BY <1>1, PathLeads
<1> HIDE DEF f, g
<1>7. \A i \in 0 .. N : i \in 0 .. MaxDepth => f[i] = g[i]
  BY <1>1, <1>5, FollowsAgree
<1>8. \E i \in 0 .. MaxDepth : g[i] = None
  <2> SUFFICES ASSUME \A i \in 0 .. MaxDepth : g[i] # None PROVE FALSE
    OBVIOUS
  <2>1. CASE MaxDepth <= N
    <3>1. 1 .. MaxDepth \subseteq S
      <4> SUFFICES ASSUME NEW i \in 1 .. MaxDepth PROVE i \in S
        OBVIOUS
      <4>1. i \in 0 .. MaxDepth /\ i \in 0 .. N /\ i \in 1 .. N
        BY <1>1, <2>1
      <4> QED
        BY <1>7, <4>1
    <3>2. IsFiniteSet(S) /\ Cardinality(S) \in Nat
      <4>1. IsFiniteSet(1 .. N)
        BY <1>1, FS_Interval
      <4> HIDE DEF S
      <4>2. S \subseteq 1 .. N
        BY DEF S
      <4> QED
        BY <4>1, <4>2, FS_Subset, FS_CardinalityType
    <3> HIDE DEF S
    <3>3. Cardinality(1 .. MaxDepth) <= Cardinality(S)
      BY <3>1, <3>2, FS_Subset
    <3>4. Cardinality(1 .. MaxDepth) = MaxDepth
      <4>1. Cardinality(1 .. MaxDepth) = IF 1 > MaxDepth THEN 0 ELSE MaxDepth - 1 + 1
        BY <1>1, FS_Interval
      <4> QED
        BY <1>1, <4>1
    <3> QED
      BY <1>1, <1>2, <3>2, <3>3, <3>4
  <2>2. CASE ~(MaxDepth <= N)
    <3>1. ASSUME NEW i \in 0 .. N
          PROVE  f[i] \in PDIDs
      <4>1. i \in 0 .. MaxDepth
        BY <1>1, <2>2
      <4>2. f[i] # None
        BY <1>7, <4>1
      <4> QED
        BY <1>5, <4>2 DEF OrNone
    <3>2. Acyclic
      BY DEF Lead
    <3> QED
      BY <1>1, <1>5, <3>1, <3>2, NoLoop DEF N
  <2> QED
    BY <2>1, <2>2
<1>9. ends # {}
  <2> DEFINE E == {i \in 0 .. MaxDepth : g[i] = None}
  <2>1. PICK k \in E : \A j \in E : k <= j
    <3>1. E \subseteq Nat /\ E # {}
      BY <1>8
    <3> HIDE DEF E
    <3> QED
      BY <3>1, Least
  <2>2. k \in 0 .. MaxDepth /\ g[k] = None
    BY <2>1
  <2>3. k # 0
    BY <1>4, <1>5, <2>2 DEF Follows
  <2>4. k - 1 \in 0 .. MaxDepth /\ ~(k <= k - 1) /\ k \in 1 .. MaxDepth
    BY <1>1, <2>2, <2>3
  <2>5. g[k - 1] # None
    BY <2>1, <2>4
  <2> QED
    BY <2>2, <2>4, <2>5
<1>10. ASSUME NEW i \in ends
       PROVE  g[i - 1] \in Stored(db)
  <2>1. i \in 1 .. MaxDepth /\ g[i] = None /\ g[i - 1] # None
    OBVIOUS
  <2>2. i - 1 \in 0 .. MaxDepth
    BY <1>1, <2>1
  <2>3. g[i - 1] \in Stored(db) \cup Merged
    BY <1>6, <2>1, <2>2
  <2>4. db.redirects[g[i - 1]] = None
    BY <1>5, <2>1 DEF Follows
  <2>5. g[i - 1] \notin Merged
    BY <2>4 DEF Merged
  <2> QED
    BY <2>3, <2>5
<1> HIDE DEF ends
<1> QED
  BY <1>3, <1>9, <1>10

-----------------------------------------------------------------------------
(* The redirects lead                                                      *)

LEMMA InitLead == Init => Lead
<1> SUFFICES ASSUME Init PROVE Lead
  OBVIOUS
<1>1. db \in Databases /\ db = Before
  BY InitSound DEF Init, Sound, TypeOK
<1>2. Stored(db) = DOMAIN Known
  BY <1>1, KnownAssumption, AbsentAssumption DEF Before, Stored, OrNone
<1>3. \A p \in PDIDs : db.redirects[p] =
             IF p \in DOMAIN MergedBefore THEN MergedBefore[p] ELSE None
  BY <1>1 DEF Before
<1>4. \A p \in PDIDs : db.redirects[p] \in (DOMAIN Known) \cup {None}
  BY <1>3, KnownAssumption
<1>5. \A p \in DOMAIN Known : p \in PDIDs /\ db.redirects[p] = None
  BY <1>3, KnownAssumption
<1>6. Acyclic
  <2> SUFFICES ASSUME NEW C \in SUBSET PDIDs, C # {}, \A p \in C : db.redirects[p] \in C
               PROVE  FALSE
    BY DEF Acyclic
  <2>1. None \notin C
    BY NoneAssumption
  <2>2. PICK p \in C : TRUE
    OBVIOUS
  <2>3. db.redirects[p] \in C /\ db.redirects[p] \in DOMAIN Known
    BY <1>4, <2>1, <2>2
  <2> QED
    BY <1>5, <2>1, <2>3
<1>7. \A p \in Merged : db.redirects[p] \in Stored(db)
  BY <1>2, <1>4 DEF Merged
<1> QED
  BY <1>6, <1>7 DEF Lead

\* No device loses its row, and no redirect changes.
Keeping ==
    db'.redirects = db.redirects /\ Stored(db) \subseteq Stored(db)' /\ ghosts \subseteq ghosts'

LEMMA KeepingLeads ==
    ASSUME Lead, Keeping
    PROVE  Lead'
BY DEF Lead, Keeping, Acyclic, Merged

\* A merge: its target is not merged, so that no circle is closed.
LEMMA CommitLeads ==
    ASSUME Sound, DeviceInv, Lead, NEW a \in Admins, admin[a] \in Confirming,
           NEW merged \in Records, Commits(a, merged), ghosts' = ghosts
    PROVE  Lead'
<1> DEFINE s == admin[a].source
           t == admin[a].target
<1>1. s \in PDIDs /\ t \in PDIDs /\ admin[a].at = "confirm" /\ Decides(a)
  BY DEF Confirming, Decides
<1>2. s # t /\ t \notin Merged \ ghosts
  BY <1>1 DEF DeviceInv, OneDecides
<1>3. /\ db'.rows = [db.rows EXCEPT ![t] = merged.mac, ![s] = Absent]
      /\ db'.redirects = [db.redirects EXCEPT ![s] = t]
  BY DEF Commits, MergedInto, Decided
<1> HIDE DEF s, t
<1>4. db \in Databases
  BY DEF Sound, TypeOK
<1>5. /\ \A p \in PDIDs : db'.redirects[p] = IF p = s THEN t ELSE db.redirects[p]
      /\ \A p \in PDIDs :
            db'.rows[p] = IF p = s THEN Absent ELSE IF p = t THEN merged.mac ELSE db.rows[p]
  BY <1>1, <1>2, <1>3, <1>4, DatabaseFields
<1>6. Stored(db)' = (Stored(db) \cup {t}) \ {s}
  <2>1. merged.mac # Absent
    BY RecordFields, AbsentAssumption
  <2> QED
    BY <1>1, <1>2, <1>5, <2>1 DEF Stored
<1>7. Merged' = Merged \cup {s}
  BY <1>1, <1>5, NoneAssumption DEF Merged
<1> SUFFICES ASSUME ghosts = {}
             PROVE  /\ Acyclic'
                    /\ \A p \in Merged' : db'.redirects[p] \in Stored(db)' \cup Merged'
  BY DEF Lead
<1>8. Acyclic /\ \A p \in Merged : db.redirects[p] \in Stored(db) \cup Merged
  BY DEF Lead
<1>9. db'.redirects[t] = None
  BY <1>1, <1>2, <1>5 DEF Merged
<1>10. Acyclic'
  <2> SUFFICES ASSUME NEW C \in SUBSET PDIDs, C # {}
               PROVE  \E p \in C : db'.redirects[p] \notin C
    BY DEF Acyclic
  <2>1. CASE s \notin C
    BY <1>5, <1>8, <2>1 DEF Acyclic
  <2>2. CASE s \in C /\ t \notin C
    BY <1>1, <1>5, <2>2
  <2>3. CASE t \in C
    BY <1>9, <2>3, NoneAssumption
  <2> QED
    BY <2>1, <2>2, <2>3
<1>11. ASSUME NEW p \in Merged'
       PROVE  db'.redirects[p] \in Stored(db)' \cup Merged'
  <2>1. CASE p = s
    BY <1>1, <1>2, <1>5, <1>6, <2>1
  <2>2. CASE p # s
    <3>1. p \in Merged /\ p \in PDIDs
      BY <1>7, <1>11, <2>2 DEF Merged
    <3> QED
      BY <1>5, <1>6, <1>7, <1>8, <2>2, <3>1
  <2> QED
    BY <2>1, <2>2
<1> QED
  BY <1>10, <1>11

\* A proposal writes the candidate only.
LEMMA ProposedRows ==
    ASSUME NEW o \in Observers, Propose(o), db \in Databases,
           observer[o].device \in PDIDs, observer[o].target \in OrNone(PDIDs)
    PROVE  /\ db'.rows = db.rows /\ db'.redirects = db.redirects
           /\ db'.holder = db.holder
<1> DEFINE s == observer[o].device
           t == observer[o].target
<1>1. CASE t = None
  BY <1>1 DEF Propose
<1>2. CASE t # None
  <2>1. t \in PDIDs /\ db' = UpsertCandidate(db, s, t)
    BY <1>2 DEF Propose, OrNone
  <2>2. \E status : Decided(db', db, <<s, t>>, status)
    BY <2>1, UpsertCandidateKeeps
  <2> QED
    BY <2>2 DEF Decided
<1> QED
  BY <1>1, <1>2

\* A row that is written is a device's.
LEMMA RowsKeep ==
    ASSUME NEW d \in Databases, NEW e, NEW p \in PDIDs, NEW r \in Records, Saved(e, d, p, r)
    PROVE  Stored(d) \subseteq Stored(e)
<1>1. r.mac # Absent
  BY RecordFields, AbsentAssumption
<1>2. e.rows = [d.rows EXCEPT ![p] = r.mac]
  BY DEF Saved
<1> QED
  BY <1>1, <1>2, DatabaseFields DEF Stored

LEMMA ObserverKeeping ==
    ASSUME Sound, DeviceInv, NEW o \in Observers, ObserverStep(o)
    PROVE  Keeping
<1>1. CASE Persist(o)
  <2>1. observer[o].device \in PDIDs /\ observer[o].clone \in Records /\ db \in Databases
    BY <1>1, ObserverFields DEF Persist, Sound, TypeOK
  <2>2. Saved(db', db, observer[o].device, observer[o].clone)
    BY <1>1, <2>1, SaveKeeps DEF Persist
  <2>3. Stored(db) \subseteq Stored(db')
    BY <2>1, <2>2, RowsKeep
  <2>4. db'.redirects = db.redirects /\ ghosts' = ghosts
    BY <1>1, <2>2 DEF Persist, Saved, history
  <2> QED
    BY <2>3, <2>4 DEF Keeping, Stored
<1>2. CASE Save(o)
  <2>1. ghosts' = ghosts
    BY <1>2 DEF Save, history
  <2>2. db'.rows = db.rows /\ db'.redirects = db.redirects
    BY <1>2, SaveMoves DEF SavedAlias, Upserted
  <2> QED
    BY <2>1, <2>2 DEF Keeping, Stored
<1>3. CASE Propose(o)
  <2>1. observer[o].device \in PDIDs /\ observer[o].target \in OrNone(PDIDs) /\ db \in Databases
    BY <1>3, ObserverFields DEF Propose, Sound, TypeOK
  <2>2. db'.rows = db.rows /\ db'.redirects = db.redirects
    BY <1>3, <2>1, ProposedRows
  <2>3. ghosts' = ghosts
    BY <1>3 DEF Propose, history
  <2> QED
    BY <2>2, <2>3 DEF Keeping, Stored
<1>4. CASE Write(o)
  BY <1>4 DEF Write, WrittenBack, Keeping, Stored
<1>5. CASE PersistFails(o) \/ Note(o) \/ \E higher \in BOOLEAN : Check(o, higher)
  BY <1>5 DEF PersistFails, Note, Check, history, Keeping, Stored
<1> QED
  BY <1>1, <1>2, <1>3, <1>4, <1>5 DEF ObserverStep

LEMMA SplitKeeping ==
    ASSUME Sound, NEW a \in Admins, Split(a)
    PROVE  Keeping
<1>1. admin[a] \in Splitting
  BY SplitMoves
<1>2. CASE Parts(a)
  <2> DEFINE p == admin[a].device
             new == admin[a].new
             other == Rec({admin[a].mac}, admin[a].mac, FALSE)
  <2>1. p \in PDIDs /\ new \in PDIDs /\ admin[a].record \in Records /\ admin[a].mac \in MACs
    BY <1>1 DEF Splitting
  <2>2. other \in Records
    BY <2>1, RecType DEF OrNone
  <2>3. SplitOff(db', db, p, admin[a].record, new, other, admin[a].mac)
    BY <1>2 DEF Parts
  <2> HIDE DEF p, new, other
  <2>4. admin[a].record.mac # Absent /\ other.mac # Absent
    BY <2>1, <2>2, RecordFields, AbsentAssumption
  <2>5. /\ db'.rows = [db.rows EXCEPT ![p] = admin[a].record.mac, ![new] = other.mac]
        /\ db'.redirects = db.redirects
    BY <2>3 DEF SplitOff
  <2>6. Stored(db) \subseteq Stored(db)'
    BY <2>1, <2>4, <2>5, DatabaseFields DEF Stored, Sound, TypeOK
  <2>7. ghosts \subseteq ghosts'
    BY <1>2 DEF Parts, WrittenBack
  <2> QED
    BY <2>5, <2>6, <2>7 DEF Keeping
<1>3. CASE Finish(a) /\ UNCHANGED <<db, history>>
  BY <1>3 DEF Keeping, Stored, history
<1> QED
  BY <1>2, <1>3, SplitMoves

LEMMA AdminLeads ==
    ASSUME Sound, DeviceInv, Lead, NEW a \in Admins, AdminStep(a)
    PROVE  Lead'
<1>1. CASE Confirm(a)
  <2>1. ghosts' = ghosts
    BY <1>1 DEF Confirm
  <2>2. ASSUME NEW merged \in Records, Commits(a, merged)
        PROVE  Lead'
    BY <1>1, <2>1, <2>2, ConfirmMoves, CommitLeads
  <2>3. CASE Finish(a) /\ UNCHANGED <<db, denied, disturbed>>
    BY <2>1, <2>3, KeepingLeads DEF Keeping, Stored
  <2> QED
    BY <1>1, <2>2, <2>3, ConfirmMoves
<1>2. CASE Bind(a)
  <2>1. db'.rows = db.rows /\ db'.redirects = db.redirects
    BY <1>2, BindMoves DEF BoundAlias, Upserted
  <2>2. ghosts' = ghosts
    BY <1>2 DEF Bind
  <2> QED
    BY <2>1, <2>2, KeepingLeads DEF Keeping, Stored
<1>3. CASE Split(a)
  BY <1>3, SplitKeeping, KeepingLeads
<1>4. CASE BindNote(a) \/ ConfirmUpsert(a) \/ SplitUpsert(a)
  <2>1. db' = db /\ ghosts \subseteq ghosts'
    BY <1>4 DEF BindNote, ConfirmUpsert, SplitUpsert, WrittenBack
  <2> QED
    BY <2>1, KeepingLeads DEF Keeping, Stored
<1>5. CASE RevokeNote(a) \/ ConfirmDelete(a) \/ SplitAdd(a)
  <2>1. db' = db /\ ghosts' = ghosts
    BY <1>5 DEF RevokeNote, ConfirmDelete, SplitAdd, history
  <2> QED
    BY <2>1, KeepingLeads DEF Keeping, Stored
<1> QED
  BY <1>1, <1>2, <1>3, <1>4, <1>5 DEF AdminStep

LEMMA NextLead ==
    ASSUME Sound, DeviceInv, Lead, [Next]_vars
    PROVE  Lead'
<1>1. \A c \in issued \X issued : c \in PDIDs \X PDIDs
  BY DEF Sound, TypeOK
<1>2. ASSUME NEW o \in Observers, ObserverStep(o)
      PROVE  Lead'
  BY <1>2, ObserverKeeping, KeepingLeads
<1>3. ASSUME NEW a \in Admins, AdminStep(a)
      PROVE  Lead'
  BY <1>3, AdminLeads
<1>4. ASSUME NEW a \in Admins, NEW q, NEW v \in Values, Revoke(a, q, v)
      PROVE  Lead'
  <2>1. db'.rows = db.rows /\ db'.redirects = db.redirects
    BY <1>4, RevokeMoves DEF Denied
  <2>2. ghosts' = ghosts
    BY <1>4 DEF Revoke
  <2> QED
    BY <2>1, <2>2, KeepingLeads DEF Keeping, Stored
<1>5. ASSUME NEW c \in issued \X issued,
             Forget(c) \/ \E a \in Admins : Reject(a, c) \/ Reopen(a, c)
      PROVE  Lead'
  <2>1. db'.rows = db.rows /\ db'.redirects = db.redirects
    BY <1>1, <1>5, DecisionMoves DEF Status, Decided, Reject, Reopen
  <2>2. ghosts' = ghosts
    BY <1>5 DEF Forget, Reject, Reopen, history
  <2> QED
    BY <2>1, <2>2, KeepingLeads DEF Keeping, Stored
<1>6. ASSUME FlushSave
      PROVE  Lead'
  <2>1. Flushed(db')
    BY <1>6, FlushKeeps DEF FlushSave, Sound
  <2>2. ghosts \subseteq ghosts'
    BY <1>6 DEF FlushSave
  <2> QED
    BY <2>1, <2>2, KeepingLeads DEF Keeping, Stored, Flushed
<1>7. ASSUME db' = db, ghosts' = ghosts
      PROVE  Lead'
  BY <1>7, KeepingLeads DEF Keeping, Stored
<1>8. ASSUME DemoteQuiet \/ FlushTake \/ FlushFails \/ Restart \/ UNCHANGED vars
      PROVE  Lead'
  BY <1>7, <1>8 DEF DemoteQuiet, FlushTake, FlushFails, Restart, vars, history
<1>9. ASSUME NEW o \in Observers, NEW m \in MACs, NEW cred \in OrNone(Credentials),
             NEW on \in BOOLEAN,
             \/ Observe(o, m, cred, on)
             \/ \E target \in OrNone(Cached(inv)) : Create(o, m, cred, on, target)
      PROVE  Lead'
  BY <1>7, <1>9 DEF Observe, Create, history
<1>10. ASSUME NEW a \in Admins, NEW q \in issued,
              \/ \E v \in Values : BindTake(a, q, v)
              \/ \E m \in MACs : SplitTake(a, q, m)
       PROVE  Lead'
  BY <1>7, <1>10 DEF BindTake, SplitTake, history
<1>11. ASSUME NEW a \in Admins, NEW c \in issued \X issued, ConfirmTake(a, c)
       PROVE  Lead'
  BY <1>7, <1>11 DEF ConfirmTake, history
<1> QED
  BY <1>2, <1>3, <1>4, <1>5, <1>6, <1>8, <1>9, <1>10, <1>11 DEF Next

\* The identity of a merged device leads to a device that is in the database,
\* if it takes fewer redirects than ResolvePDID follows: no merge closes a
\* circle, as its target is not merged itself, and the path of redirects is no
\* longer than there are identities (ResolvePDID, mergeDevicesTx).
THEOREM RedirectsLeadAlways == Spec => []RedirectsLead
<1>1. Init => Sound /\ DeviceInv /\ Lead
  BY InitSound, InitDevices, InitLead
<1>2. Sound /\ DeviceInv /\ Lead /\ [Next]_vars => (Sound /\ DeviceInv /\ Lead)'
  BY NextSound, NextDevices, NextLead
<1>3. Sound /\ DeviceInv /\ Lead => RedirectsLead
  BY LeadResolves
<1> QED
  BY <1>1, <1>2, <1>3, PTL DEF Spec

-----------------------------------------------------------------------------
(* Steps that leave the rows alone                                         *)

\* The steps of a merge and a split that follow their transaction, and what matters
\* to the rows: it stays as it is.
Pending == {"merged", "moved", "parted", "shrunk"}

SameRecords ==
    /\ Cached(inv') = Cached(inv)
    /\ \A p \in Cached(inv) : inv'.devices[p].macs = inv.devices[p].macs
SameHolders == db'.holder = db.holder /\ db'.redirects = db.redirects
SameMoves ==
    \A a \in Admins :
        \/ admin'[a] = admin[a]
        \/ /\ admin[a].at \notin Pending /\ admin'[a].at \notin Pending
           /\ admin'[a].at = "split" => admin'[a].new \notin issued
SameNew ==
    \A o \in Observers :
        observer'[o] = observer[o] \/ (observer[o].at # "new" /\ observer'[o].at # "new")
SameDebts ==
    /\ \A p \in Cached(inv) : \A m \in inv.devices[p].macs : Owes(p, m) => Owes(p, m)'
    /\ DOMAIN batch' \subseteq DOMAIN batch \cup Cached(inv)
NeverCleaned == overwritten \subseteq overwritten' /\ ghosts \subseteq ghosts'

LEMMA QuietRows ==
    ASSUME Sound, Rows, Growing, SameRecords, SameHolders, SameMoves, SameNew, SameDebts,
           NeverCleaned
    PROVE  Rows'
<1> SUFFICES ASSUME Clean' PROVE RowsFollow' /\ WritesLive' /\ Covered'
  BY DEF Rows
<1>1. RowsFollow /\ WritesLive /\ Covered
  BY DEF Rows, Clean, NeverCleaned
<1>2. Merged' = Merged
  BY DEF SameHolders, Merged
<1>3. \A p, m : Joining(p, m)' <=> Joining(p, m)
  BY DEF Joining, SameMoves, Pending
<1>4. \A p, m : Parting(p, m)' <=> Parting(p, m)
  BY DEF Parting, SameMoves, Pending
<1>5. \A p, m : Fresh(p, m)' <=> Fresh(p, m)
  BY DEF Fresh, SameNew
<1>6. \A p, m : Has(p, m)' <=> Has(p, m)
  BY <1>2, <1>4 DEF Has, SameRecords
<1>7. \A m : Expected(m)' => Expected(m)
  <2>1. \A m : (\E p \in PDIDs : Has(p, m) /\ ~Fresh(p, m))' =>
                  \E p \in PDIDs : Has(p, m) /\ ~Fresh(p, m)
    BY <1>5, <1>6
  <2>2. \A a \in Admins : admin'[a].at \in Pending => admin'[a] = admin[a]
    BY DEF SameMoves
  <2> QED
    BY <2>1, <2>2 DEF Expected, Pending
<1>8. Covered'
  <2> SUFFICES ASSUME NEW m \in MACs, db'.holder[m] = None, Expected(m)'
               PROVE  \E p \in PDIDs : Has(p, m)' /\ Owes(p, m)'
    BY DEF Covered
  <2>1. PICK p \in PDIDs : Has(p, m) /\ Owes(p, m)
    BY <1>1, <1>7 DEF Covered, SameHolders
  <2>2. p \in Cached(inv) /\ m \in inv.devices[p].macs
    BY <2>1 DEF Has
  <2>3. Owes(p, m)'
    BY <2>1, <2>2 DEF SameDebts
  <2> QED
    BY <1>6, <2>1, <2>3
<1>9. WritesLive'
  <2>1. \A a \in Admins : admin'[a].at = "merged" => admin'[a] = admin[a]
    BY DEF SameMoves, Pending
  <2> QED
    BY <1>1, <1>2, <2>1 DEF WritesLive, SameDebts, SameRecords
<1>10. RowsFollow'
  <2> SUFFICES ASSUME NEW m \in MACs, NEW q, q = db'.holder[m], q # None
               PROVE  RowFollows(q, m)'
    BY DEF RowsFollow
  <2>1. q = db.holder[m] /\ q \in issued
    BY DEF SameHolders, Growing
  <2>2. RowFollows(q, m)
    BY <1>1, <2>1 DEF RowsFollow
  <2>3. \A a \in Admins : Splits(a)' /\ admin'[a].new = q => Splits(a) /\ admin'[a] = admin[a]
    BY <2>1 DEF SameMoves, Splits, Pending
  <2>4. q \in Cached(inv') => m \in inv'.devices[q].macs \/ Joining(q, m)'
    BY <1>3, <2>2 DEF RowFollows, SameRecords
  <2>5. ~Parting(q, m)'
    BY <1>4, <2>2 DEF RowFollows
  <2>6. \A a \in Admins :
            Splits(a)' /\ admin'[a].new = q => admin'[a].at # "split" /\ admin'[a].mac = m
    BY <2>2, <2>3 DEF RowFollows
  <2> QED
    BY <2>4, <2>5, <2>6 DEF RowFollows
<1> QED
  BY <1>8, <1>9, <1>10

\* The clones and the records of the goroutines and the requests stay, or a
\* record has all MACs of its clone.
SameGrowth ==
    /\ \A o \in Observers : Busy(o)' /\ ~observer'[o].new =>
          \/ /\ Busy(o) /\ ~observer[o].new
             /\ observer'[o].clone = observer[o].clone /\ observer'[o].record = observer[o].record
          \/ observer'[o].clone.macs \subseteq observer'[o].record.macs
    /\ \A a \in Admins : admin'[a].at \in {"merged", "moved"} =>
          \/ /\ admin[a].at \in {"merged", "moved"}
             /\ admin'[a].clone = admin[a].clone /\ admin'[a].record = admin[a].record
          \/ admin'[a].clone.macs \subseteq admin'[a].record.macs
    /\ \A a \in Admins : Splits(a)' =>
          \/ /\ Splits(a) /\ admin'[a].clone = admin[a].clone
             /\ admin'[a].record = admin[a].record /\ admin'[a].mac = admin[a].mac
          \/ admin'[a].record.macs = admin'[a].clone.macs \ {admin'[a].mac}
    /\ issued \subseteq issued'
    /\ \A m \in MACs : db'.holder[m] \in {db.holder[m], None} \cup issued'

LEMMA KeepsGrowing ==
    ASSUME Growing, SameGrowth
    PROVE  Growing'
<1>1. \A o \in Observers :
          Busy(o)' /\ ~observer'[o].new => observer'[o].clone.macs \subseteq observer'[o].record.macs
  BY DEF Growing, SameGrowth
<1>2. \A a \in Admins :
          admin'[a].at \in {"merged", "moved"} => admin'[a].clone.macs \subseteq admin'[a].record.macs
  BY DEF Growing, SameGrowth
<1>3. \A a \in Admins :
          Splits(a)' => admin'[a].record.macs = admin'[a].clone.macs \ {admin'[a].mac}
  BY DEF Growing, SameGrowth
<1>4. \A m \in MACs : db'.holder[m] # None => db'.holder[m] \in issued'
  BY DEF Growing, SameGrowth
<1> QED
  BY <1>1, <1>2, <1>3, <1>4 DEF Growing

\* A goroutine goes on with what it has, or stops.
JobGoesOn(o, job) ==
    \/ job.at = "idle"
    \/ /\ Busy(o) /\ job.new = observer[o].new
       /\ job.clone = observer[o].clone /\ job.record = observer[o].record
    \/ ~job.new /\ job.clone.macs \subseteq job.record.macs

\* A step of a goroutine that has no device to save.
LEMMA ObserverRows ==
    ASSUME Sound, StorageInv, NEW o \in Observers, NEW job, JobGoesOn(o, job),
           observer' = [observer EXCEPT ![o] = job], observer[o].at # "new", job.at # "new",
           SameHolders, UNCHANGED <<inv, dirty, batch, admin, issued, overwritten, ghosts>>
    PROVE  StorageInv'
<1>1. \A q \in Observers : observer'[q] = IF q = o THEN job ELSE observer[q]
  BY DEF Sound, TypeOK
<1>2. SameRecords /\ SameMoves /\ SameDebts /\ NeverCleaned
  BY DEF SameRecords, SameMoves, SameDebts, NeverCleaned, Owes
<1>3. SameNew
  BY <1>1 DEF SameNew
<1>4. \A q \in Observers : Busy(q)' /\ ~observer'[q].new =>
          \/ /\ Busy(q) /\ ~observer[q].new
             /\ observer'[q].clone = observer[q].clone /\ observer'[q].record = observer[q].record
          \/ observer'[q].clone.macs \subseteq observer'[q].record.macs
  BY <1>1 DEF Busy, JobGoesOn
<1>5. SameGrowth
  BY <1>4 DEF SameGrowth, SameHolders, Splits
<1> QED
  BY <1>2, <1>3, <1>5, QuietRows, KeepsGrowing DEF StorageInv

LEMMA ObserveRows ==
    ASSUME Sound, StorageInv, NEW o \in Observers, NEW m, NEW cred, NEW on,
           Observe(o, m, cred, on)
    PROVE  StorageInv'
<1> DEFINE p == Lookup(m, cred)
           r == inv.devices[p]
           job == [at |-> "next", device |-> p, clone |-> r, todo |-> Signals(m, cred),
                   record |-> Rec(r.macs \cup {m}, m, r.online \/ on), id |-> None,
                   new |-> FALSE, target |-> None]
<1>1. observer' = [observer EXCEPT ![o] = job] /\ observer[o].at # "new"
  BY DEF Observe, Idle
<1>2. job.at # "new" /\ JobGoesOn(o, job)
  BY DEF JobGoesOn, Rec
<1> HIDE DEF job
<1>3. UNCHANGED <<db, inv, dirty, batch, admin, issued, overwritten, ghosts>>
  BY DEF Observe, memory, history
<1> QED
  BY <1>1, <1>2, <1>3, ObserverRows DEF SameHolders

LEMMA CheckRows ==
    ASSUME Sound, StorageInv, NEW o \in Observers, NEW higher, Check(o, higher)
    PROVE  StorageInv'
<1> DEFINE save == [observer[o] EXCEPT !.at = "save"]
           skip == [observer[o] EXCEPT !.todo = Tail(observer[o].todo)]
<1>1. observer[o] \in Observing /\ observer[o].at = "next"
  BY ObserverFields DEF Check, Sound
<1>2. observer' = [observer EXCEPT ![o] = save] \/ observer' = [observer EXCEPT ![o] = skip]
  BY DEF Check
<1>3. ASSUME NEW job \in {save, skip}
      PROVE  job.at # "new" /\ JobGoesOn(o, job)
  BY <1>1 DEF Busy, Observing, JobGoesOn
<1> HIDE DEF save, skip
<1>4. UNCHANGED <<db, inv, dirty, batch, admin, issued, overwritten, ghosts>>
  BY DEF Check
<1>5. PICK job \in {save, skip} : observer' = [observer EXCEPT ![o] = job]
  BY <1>2
<1> QED
  BY <1>1, <1>3, <1>4, <1>5, ObserverRows DEF SameHolders

LEMMA SkipRows ==
    ASSUME Sound, StorageInv, NEW o \in Observers, observer[o].at \in {"save", "note"}, Skip(o),
           UNCHANGED <<db, inv, dirty, batch, admin, issued, overwritten, ghosts>>
    PROVE  StorageInv'
<1> DEFINE job == [observer[o] EXCEPT !.at = "next", !.todo = Tail(observer[o].todo)]
<1>1. observer[o] \in Observing
  BY ObserverFields DEF Sound
<1>2. observer' = [observer EXCEPT ![o] = job]
  BY DEF Skip
<1>3. job.at # "new" /\ JobGoesOn(o, job)
  BY <1>1 DEF Busy, Observing, JobGoesOn
<1> HIDE DEF job
<1> QED
  BY <1>2, <1>3, ObserverRows DEF SameHolders

LEMMA SaveRows ==
    ASSUME Sound, StorageInv, NEW o \in Observers, Save(o)
    PROVE  StorageInv'
<1>1. observer[o].at = "save" /\ observer[o] \in Observing
  BY ObserverFields DEF Save, Sound
<1>2. UNCHANGED <<inv, dirty, batch, admin, issued, overwritten, ghosts>>
  BY DEF Save, memory, history
<1>3. CASE SavedAlias(o)
  <2> DEFINE job == [observer[o] EXCEPT !.at = "note", !.id = db'.aliases[Signal(o)].id]
  <2>1. observer' = [observer EXCEPT ![o] = job]
    BY <1>3 DEF SavedAlias
  <2>2. job.at # "new" /\ JobGoesOn(o, job)
    BY <1>1 DEF Busy, Observing, JobGoesOn
  <2> HIDE DEF job
  <2>3. SameHolders
    BY <1>3 DEF SavedAlias, Upserted, SameHolders
  <2> QED
    BY <1>1, <1>2, <2>1, <2>2, <2>3, ObserverRows
<1>4. CASE Skip(o) /\ UNCHANGED db
  BY <1>1, <1>2, <1>4, SkipRows
<1> QED
  BY <1>3, <1>4, SaveMoves

LEMMA NoteRows ==
    ASSUME Sound, StorageInv, NEW o \in Observers, Note(o)
    PROVE  StorageInv'
<1>1. /\ observer[o].at \in {"save", "note"} /\ Skip(o)
      /\ UNCHANGED <<db, inv, dirty, batch, admin, issued, overwritten, ghosts>>
  BY DEF Note, history
<1> QED
  BY <1>1, SkipRows

LEMMA ProposeRows ==
    ASSUME Sound, StorageInv, NEW o \in Observers, Propose(o)
    PROVE  StorageInv'
<1>1. /\ observer' = [observer EXCEPT ![o] = Idle] /\ observer[o].at # "new"
      /\ UNCHANGED <<inv, dirty, batch, admin, issued, overwritten, ghosts>>
  BY DEF Propose, memory, history
<1>2. Idle.at # "new" /\ JobGoesOn(o, Idle)
  BY DEF JobGoesOn, Idle
<1>3. SameHolders
  <2>1. db \in Databases /\ observer[o].device \in PDIDs /\ observer[o].target \in OrNone(PDIDs)
    BY ObserverFields DEF Propose, Sound, TypeOK
  <2> QED
    BY <2>1, ProposedRows DEF SameHolders
<1> QED
  BY <1>1, <1>2, <1>3, ObserverRows

\* What is not a step of a goroutine or a request.
LEMMA CacheRows ==
    ASSUME Sound, StorageInv, SameRecords, SameHolders, SameDebts, NeverCleaned,
           UNCHANGED <<observer, admin, issued>>
    PROVE  StorageInv'
<1>1. SameMoves /\ SameNew
  BY DEF SameMoves, SameNew
<1>2. SameGrowth
  BY DEF SameGrowth, SameHolders, Busy, Splits
<1> QED
  BY <1>1, <1>2, QuietRows, KeepsGrowing DEF StorageInv

LEMMA DemoteRows ==
    ASSUME Sound, StorageInv, DemoteQuiet
    PROVE  StorageInv'
<1>1. UNCHANGED <<db, dirty, batch, observer, admin, issued, overwritten, ghosts>>
  BY DEF DemoteQuiet, history
<1>2. Cached(inv') = Cached(inv)
  BY DemoteKeeps
<1>3. \A p \in Cached(inv) : inv'.devices[p].macs = inv.devices[p].macs
  <2>1. PICK quiet \in SUBSET Cached(inv) :
            inv' = [inv EXCEPT !.devices = [p \in PDIDs |->
                       IF p \in quiet THEN [inv.devices[p] EXCEPT !.online = FALSE]
                       ELSE inv.devices[p]]]
    BY DEF DemoteQuiet
  <2>2. \A r \in Records : [r EXCEPT !.online = FALSE].macs = r.macs
    BY DEF Records
  <2>3. inv \in Inventories
    BY DEF Sound, TypeOK
  <2> DEFINE d == [p \in PDIDs |-> IF p \in quiet THEN [inv.devices[p] EXCEPT !.online = FALSE]
                                   ELSE inv.devices[p]]
  <2>4. inv'.devices = d
    BY <2>1, <2>3 DEF Inventories
  <2>5. \A p \in Cached(inv) : d[p].macs = inv.devices[p].macs
    BY <2>2, <2>3, CacheFields DEF Cached
  <2> HIDE DEF d
  <2> QED
    BY <2>4, <2>5
<1>4. SameHolders /\ SameDebts /\ NeverCleaned
  BY <1>1 DEF SameHolders, SameDebts, NeverCleaned, Owes
<1> QED
  BY <1>1, <1>2, <1>3, <1>4, CacheRows DEF SameRecords

LEMMA FlushTakeRows ==
    ASSUME Sound, StorageInv, FlushTake
    PROVE  StorageInv'
<1>1. UNCHANGED <<db, inv, observer, admin, issued, overwritten, ghosts>>
  BY DEF FlushTake, history
<1>2. \A p \in Cached(inv) : \A m \in inv.devices[p].macs : Owes(p, m) => Owes(p, m)'
  BY DEF FlushTake, Owes
<1>3. DOMAIN batch' \subseteq DOMAIN batch \cup Cached(inv)
  BY DEF FlushTake
<1>4. SameRecords /\ SameHolders /\ SameDebts /\ NeverCleaned
  BY <1>1, <1>2, <1>3 DEF SameRecords, SameHolders, SameDebts, NeverCleaned
<1> QED
  BY <1>1, <1>4, CacheRows

LEMMA FlushFailsRows ==
    ASSUME Sound, StorageInv, FlushFails
    PROVE  StorageInv'
<1>1. UNCHANGED <<db, inv, observer, admin, issued, overwritten, ghosts>>
  BY DEF FlushFails, history
<1>2. SameDebts
  BY DEF FlushFails, SameDebts, Owes, NoBatch
<1>3. SameRecords /\ SameHolders /\ NeverCleaned
  BY <1>1 DEF SameRecords, SameHolders, NeverCleaned
<1> QED
  BY <1>1, <1>2, <1>3, CacheRows

LEMMA StutterRows ==
    ASSUME Sound, StorageInv, UNCHANGED vars
    PROVE  StorageInv'
<1>1. UNCHANGED <<db, inv, dirty, batch, observer, admin, issued, overwritten, ghosts>>
  BY DEF vars, memory, history
<1>2. SameRecords /\ SameHolders /\ SameDebts /\ NeverCleaned
  BY <1>1 DEF SameRecords, SameHolders, SameDebts, NeverCleaned, Owes
<1> QED
  BY <1>1, <1>2, CacheRows

\* A step of a request that neither merges nor splits yet.
LEMMA AnswerRows ==
    ASSUME Sound, StorageInv, NEW a \in Admins, NEW job, Goto(a, job),
           admin[a].at \notin Pending, job.at \notin Pending,
           job.at = "split" => /\ job.new \notin issued
                               /\ job.record.macs = job.clone.macs \ {job.mac},
           SameHolders, issued \subseteq issued', NeverCleaned,
           UNCHANGED <<inv, dirty, batch, observer>>
    PROVE  StorageInv'
<1>1. \A b \in Admins : admin'[b] = IF b = a THEN job ELSE admin[b]
  BY DEF Goto, Sound, TypeOK
<1>2. SameRecords /\ SameNew /\ SameDebts
  BY DEF SameRecords, SameNew, SameDebts, Owes
<1>3. SameMoves
  BY <1>1 DEF SameMoves
<1>4. \A b \in Admins : admin'[b].at \in {"merged", "moved"} =>
          /\ admin[b].at \in {"merged", "moved"}
          /\ admin'[b].clone = admin[b].clone /\ admin'[b].record = admin[b].record
  BY <1>1 DEF Pending
<1>5. \A b \in Admins : Splits(b)' =>
          \/ /\ Splits(b) /\ admin'[b].clone = admin[b].clone
             /\ admin'[b].record = admin[b].record /\ admin'[b].mac = admin[b].mac
          \/ admin'[b].record.macs = admin'[b].clone.macs \ {admin'[b].mac}
  BY <1>1 DEF Splits, Pending
<1>6. SameGrowth
  BY <1>4, <1>5 DEF SameGrowth, SameHolders, Busy
<1> QED
  BY <1>2, <1>3, <1>6, QuietRows, KeepsGrowing DEF StorageInv

LEMMA FinishRows ==
    ASSUME Sound, StorageInv, NEW a \in Admins, Finish(a), admin[a].at \notin Pending,
           SameHolders, UNCHANGED <<inv, dirty, batch, observer, issued, overwritten, ghosts>>
    PROVE  StorageInv'
<1>1. Goto(a, Idle) /\ Idle.at \notin Pending /\ Idle.at # "split"
  BY DEF Finish, Idle, Pending
<1> QED
  BY <1>1, AnswerRows DEF NeverCleaned

LEMMA BindTakeRows ==
    ASSUME Sound, StorageInv, NEW a \in Admins, NEW q, NEW v, BindTake(a, q, v)
    PROVE  StorageInv'
<1> DEFINE p == Resolve(db, q)
           job == [at |-> "bind", alias |-> <<p, v>>, clone |-> inv.devices[p]]
<1>1. Goto(a, job) /\ admin[a].at \notin Pending
  BY DEF BindTake, Request, Idle, Pending
<1>2. job.at \notin Pending /\ job.at # "split"
  BY DEF Pending
<1>3. UNCHANGED <<db, inv, dirty, batch, observer, issued, overwritten, ghosts>>
  BY DEF BindTake, memory, history
<1> HIDE DEF job
<1> QED
  BY <1>1, <1>2, <1>3, AnswerRows DEF SameHolders, NeverCleaned

LEMMA BindRows ==
    ASSUME Sound, StorageInv, NEW a \in Admins, Bind(a)
    PROVE  StorageInv'
<1>1. /\ admin[a].at \notin Pending
      /\ UNCHANGED <<inv, dirty, batch, observer, issued, overwritten, ghosts>>
  BY DEF Bind, memory, Pending
<1>2. CASE BoundAlias(a)
  <2> DEFINE x == admin[a].alias
             job == [at |-> "bound", alias |-> x, clone |-> admin[a].clone,
                     id |-> db'.aliases[x].id]
  <2>1. Goto(a, job)
    BY <1>2 DEF BoundAlias
  <2>2. job.at \notin Pending /\ job.at # "split"
    BY DEF Pending
  <2>3. SameHolders
    BY <1>2 DEF BoundAlias, Upserted, SameHolders
  <2> HIDE DEF job
  <2> QED
    BY <1>1, <2>1, <2>2, <2>3, AnswerRows DEF NeverCleaned
<1>3. CASE Finish(a) /\ UNCHANGED <<db, denied>>
  BY <1>1, <1>3, FinishRows DEF SameHolders
<1> QED
  BY <1>2, <1>3, BindMoves

LEMMA RevokeRows ==
    ASSUME Sound, StorageInv, NEW a \in Admins, NEW q, NEW v \in Values, Revoke(a, q, v)
    PROVE  StorageInv'
<1> DEFINE x == <<Resolve(db, q), v>>
           job == [at |-> "revoked", alias |-> x, id |-> db.aliases[x].id]
<1>1. Goto(a, job) /\ admin[a].at \notin Pending
  BY DEF Revoke, Request, Idle, Pending
<1>2. job.at \notin Pending /\ job.at # "split"
  BY DEF Pending
<1>3. Denied(db', db, x)
  BY RevokeMoves
<1> HIDE DEF x, job
<1>4. SameHolders
  BY <1>3 DEF Denied, SameHolders
<1>5. UNCHANGED <<inv, dirty, batch, observer, issued, overwritten, ghosts>>
  BY DEF Revoke, memory
<1> QED
  BY <1>1, <1>2, <1>4, <1>5, AnswerRows DEF NeverCleaned

LEMMA RevokeNoteRows ==
    ASSUME Sound, StorageInv, NEW a \in Admins, RevokeNote(a)
    PROVE  StorageInv'
<1>1. Finish(a) /\ admin[a].at \notin Pending
  BY DEF RevokeNote, Pending
<1>2. UNCHANGED <<db, inv, dirty, batch, observer, issued, overwritten, ghosts>>
  BY DEF RevokeNote, history
<1> QED
  BY <1>1, <1>2, FinishRows DEF SameHolders

LEMMA DecisionRows ==
    ASSUME Sound, StorageInv, NEW c \in PDIDs \X PDIDs,
           (\E a \in Admins : Reject(a, c) \/ Reopen(a, c)) \/ Forget(c)
    PROVE  StorageInv'
<1>1. SameHolders
  <2>1. Decide(c, "pending", "rejected") \/ Decide(c, "rejected", "pending") \/ Forget(c)
    BY DEF Reject, Reopen
  <2> QED
    BY <2>1, DecisionMoves DEF Status, Decided, SameHolders
<1>2. UNCHANGED <<inv, dirty, batch, observer, admin, issued, overwritten, ghosts>>
  BY DEF Reject, Reopen, Forget, memory, history
<1>3. SameRecords /\ SameDebts /\ NeverCleaned
  BY <1>2 DEF SameRecords, SameDebts, NeverCleaned, Owes
<1> QED
  BY <1>1, <1>2, <1>3, CacheRows

LEMMA ConfirmTakeRows ==
    ASSUME Sound, StorageInv, NEW a \in Admins, NEW c, ConfirmTake(a, c)
    PROVE  StorageInv'
<1> DEFINE job == [at |-> "confirm", source |-> c[1], target |-> c[2],
                   from |-> inv.devices[c[1]], clone |-> inv.devices[c[2]]]
<1>1. Goto(a, job) /\ admin[a].at \notin Pending
  BY DEF ConfirmTake, Request, Idle, Pending
<1>2. job.at \notin Pending /\ job.at # "split"
  BY DEF Pending
<1>3. UNCHANGED <<db, inv, dirty, batch, observer, issued, overwritten, ghosts>>
  BY DEF ConfirmTake, memory, history
<1> HIDE DEF job
<1> QED
  BY <1>1, <1>2, <1>3, AnswerRows DEF SameHolders, NeverCleaned

LEMMA SplitTakeRows ==
    ASSUME Sound, StorageInv, NEW a \in Admins, NEW q, NEW m \in MACs, SplitTake(a, q, m)
    PROVE  StorageInv'
<1> DEFINE p == Resolve(db, q)
           r == inv.devices[p]
<1>1. PICK new \in PDIDs \ issued, rest \in Remaining(r, m) :
          /\ issued' = issued \cup {new}
          /\ Goto(a, [at |-> "split", device |-> p, new |-> new, mac |-> m,
                      clone |-> r, record |-> rest])
  BY DEF SplitTake
<1>2. rest.macs = r.macs \ {m}
  BY DEF Remaining, Rec
<1> DEFINE job == [at |-> "split", device |-> p, new |-> new, mac |-> m,
                   clone |-> r, record |-> rest]
<1>3. Goto(a, job)
  BY <1>1
<1>4. /\ job.at \notin Pending /\ job.new \notin issued
      /\ job.record.macs = job.clone.macs \ {job.mac}
  BY <1>2 DEF Pending
<1>5. admin[a].at \notin Pending
  BY DEF SplitTake, Request, Idle, Pending
<1>6. UNCHANGED <<db, inv, dirty, batch, observer, overwritten, ghosts>>
  BY DEF SplitTake, memory, history
<1> HIDE DEF job
<1> QED
  BY <1>1, <1>3, <1>4, <1>5, <1>6, AnswerRows DEF SameHolders, NeverCleaned

-----------------------------------------------------------------------------
(* Steps that change a record or a row                                     *)

\* What a record is after a method of the cache.
Replaced(p, r) ==
    \A q \in PDIDs : inv'.devices[q] = IF q = p THEN r ELSE inv.devices[q]

LEMMA Upserts ==
    ASSUME Sound, NEW p \in PDIDs, NEW r \in Records, inv' = Upsert(inv, p, r)
    PROVE  Cached(inv') = Cached(inv) \cup {p} /\ Replaced(p, r)
<1>1. inv \in Inventories /\ MACIndexed(inv)
  BY DEF Sound, TypeOK
<1>2. inv'.devices = [inv.devices EXCEPT ![p] = r]
  BY <1>1, UpsertKeeps DEF Becomes
<1>3. Replaced(p, r)
  BY <1>1, <1>2, CacheFields DEF Replaced
<1> QED
  BY <1>3, Distinct DEF Cached, Replaced

LEMMA Deletes ==
    ASSUME Sound, NEW p \in PDIDs, inv' = Delete(inv, p)
    PROVE  Cached(inv') = Cached(inv) \ {p} /\ Replaced(p, Absent)
<1>1. inv \in Inventories /\ MACIndexed(inv)
  BY DEF Sound, TypeOK
<1>2. inv'.devices = [inv.devices EXCEPT ![p] = Absent]
  BY <1>1, DeleteKeeps DEF Becomes
<1>3. Replaced(p, Absent)
  BY <1>1, <1>2, CacheFields DEF Replaced
<1> QED
  BY <1>3 DEF Cached, Replaced

LEMMA BindNoteRows ==
    ASSUME Sound, StorageInv, NEW a \in Admins, BindNote(a)
    PROVE  StorageInv'
<1> DEFINE p == admin[a].alias[1]
<1>1. p \in PDIDs /\ admin[a].clone \in Records /\ admin[a].at \notin Pending
  BY AdminFields DEF BindNote, Sound, Bound, Pending
<1>2. Cached(inv') = Cached(inv) \cup {p} /\ Replaced(p, admin[a].clone)
  BY <1>1, Upserts DEF BindNote
<1>3. \A b \in Admins : admin'[b] = IF b = a THEN Idle ELSE admin[b]
  BY DEF BindNote, Finish, Goto, Sound, TypeOK
<1>4. /\ dirty' = dirty \cup {p} /\ WrittenBack(p) /\ Replaces(p, admin[a].clone)
      /\ UNCHANGED <<db, batch, observer, issued>>
  BY DEF BindNote
<1> HIDE DEF p
<1>5. SameHolders /\ SameNew /\ SameDebts
  BY <1>4 DEF SameHolders, SameNew, SameDebts, Owes
<1>6. SameMoves
  BY <1>1, <1>3 DEF SameMoves, Idle, Pending
<1>7. NeverCleaned
  BY <1>4 DEF NeverCleaned, WrittenBack, Replaces
<1>8. SameGrowth
  <2>1. \A b \in Admins : admin'[b] = Idle \/ admin'[b] = admin[b]
    BY <1>3
  <2> QED
    BY <1>4, <2>1 DEF SameGrowth, Busy, Splits, Idle
<1>9. ASSUME Clean'
      PROVE  SameRecords
  <2>1. inv.devices[p] = admin[a].clone
    BY <1>4, <1>9 DEF Clean, Replaces
  <2>2. p \in Cached(inv)
    BY <1>1, <2>1, Distinct DEF Cached
  <2>3. \A q \in Cached(inv) : inv'.devices[q] = inv.devices[q]
    BY <1>2, <2>1 DEF Replaced, Cached
  <2> QED
    BY <1>2, <2>2, <2>3 DEF SameRecords
<1>10. Rows'
  BY <1>5, <1>6, <1>7, <1>9, QuietRows DEF Rows, StorageInv
<1> QED
  BY <1>8, <1>10, KeepsGrowing DEF StorageInv

LEMMA CreateRows ==
    ASSUME Sound, DeviceInv, StorageInv, NEW o \in Observers, NEW mac, NEW cred, NEW on, NEW target,
           mac \in MACs, on \in BOOLEAN, Create(o, mac, cred, on, target)
    PROVE  StorageInv'
<1> DEFINE r == Rec({mac}, mac, on)
           job(p) == [at |-> "new", device |-> p, clone |-> r, todo |-> Signals(mac, cred),
                      record |-> r, id |-> None, new |-> TRUE, target |-> target]
<1>1. PICK p \in PDIDs \ issued : /\ issued' = issued \cup {p}
                                  /\ inv' = Upsert(inv, p, r)
                                  /\ observer' = [observer EXCEPT ![o] = job(p)]
  BY DEF Create
<1>2. /\ dirty \subseteq dirty' /\ observer[o].at = "idle"
      /\ UNCHANGED <<db, batch, admin, overwritten, ghosts>>
  BY DEF Create, history, Idle
<1>3. r \in Records /\ r.macs = {mac}
  BY RecType DEF OrNone, Rec
<1>4. job(p).at = "new" /\ job(p).device = p /\ job(p).clone.macs = {mac} /\ job(p).new
  BY <1>3
<1>5. \A q \in Observers : observer'[q] = IF q = o THEN job(p) ELSE observer[q]
  BY <1>1 DEF Sound, TypeOK
<1>6. Cached(inv') = Cached(inv) \cup {p} /\ Replaced(p, r)
  BY <1>1, <1>3, Upserts
<1> HIDE DEF r, job
<1>7. SameGrowth
  BY <1>1, <1>2, <1>4, <1>5 DEF SameGrowth, Busy, Splits
<1>8. ASSUME Clean'
      PROVE  RowsFollow' /\ WritesLive' /\ Covered'
  <2>1. RowsFollow /\ WritesLive /\ Covered
    BY <1>2, <1>8 DEF StorageInv, Rows, Clean
  <2>2. Merged' = Merged /\ \A q, m : (Parting(q, m)' <=> Parting(q, m)) /\ (Joining(q, m)' <=> Joining(q, m))
    BY <1>2 DEF Merged, Parting, Joining
  <2>3. \A q \in PDIDs : \A m : q # p => (Has(q, m)' <=> Has(q, m)) /\ (Fresh(q, m)' <=> Fresh(q, m))
    <3>1. \A q \in PDIDs : \A m : q # p => (Has(q, m)' <=> Has(q, m))
      BY <1>6, <2>2 DEF Has, Replaced
    <3>2. \A q \in PDIDs : \A m : q # p => (Fresh(q, m)' <=> Fresh(q, m))
      BY <1>2, <1>4, <1>5 DEF Fresh
    <3> QED
      BY <3>1, <3>2
  <2>4. \A m : Has(p, m)' => Fresh(p, m)'
    <3>1. \A m : Has(p, m)' => m = mac
      BY <1>3, <1>6 DEF Has, Replaced
    <3> QED
      BY <1>4, <1>5, <3>1 DEF Fresh
  <2>5. \A m : Expected(m)' => Expected(m)
    BY <1>2, <2>3, <2>4 DEF Expected
  <2>6. p \notin Cached(inv)
    BY DEF DeviceInv, Allocated
  <2>7. \A q, m : Has(q, m) => q # p /\ q \in PDIDs
    BY <2>6 DEF Has, Cached
  <2>8. \A q, m : Owes(q, m) => Owes(q, m)'
    BY <1>2 DEF Owes
  <2>9. Covered'
    BY <1>2, <2>1, <2>3, <2>5, <2>7, <2>8 DEF Covered
  <2>10. WritesLive'
    BY <1>2, <1>6, <2>1, <2>2 DEF WritesLive
  <2>11. RowsFollow'
    <3> SUFFICES ASSUME NEW m \in MACs, NEW q, q = db'.holder[m], q # None
                 PROVE  RowFollows(q, m)'
      BY DEF RowsFollow
    <3>1. q = db.holder[m] /\ q \in issued /\ q # p /\ q \in PDIDs
      BY <1>2 DEF StorageInv, Growing, Sound, TypeOK
    <3>2. RowFollows(q, m)
      BY <2>1, <3>1 DEF RowsFollow
    <3>3. q \in Cached(inv') => m \in inv'.devices[q].macs \/ Joining(q, m)'
      BY <1>6, <2>2, <3>1, <3>2 DEF RowFollows, Replaced
    <3> QED
      BY <1>2, <2>2, <3>2, <3>3 DEF RowFollows, Splits
  <2> QED
    BY <2>9, <2>10, <2>11
<1> QED
  BY <1>7, <1>8, KeepsGrowing DEF StorageInv, Rows

LEMMA PersistFailsRows ==
    ASSUME Sound, StorageInv, NEW o \in Observers, PersistFails(o)
    PROVE  StorageInv'
<1> DEFINE p == observer[o].device
<1>1. p \in PDIDs /\ observer[o].at = "new"
  BY ObserverFields DEF PersistFails, Sound
<1>2. Cached(inv') = Cached(inv) \ {p} /\ Replaced(p, Absent)
  BY <1>1, Deletes DEF PersistFails
<1>3. /\ UNCHANGED <<db, dirty, batch, admin, issued, ghosts>>
      /\ overwritten' = overwritten \cup ({p} \cap (dirty \cup DOMAIN batch))
  BY DEF PersistFails, counters
<1>4. \A q \in Observers : observer'[q] = IF q = o THEN Idle ELSE observer[q]
  BY DEF PersistFails, Sound, TypeOK
<1>5. SameGrowth
  <2>1. \A q \in Observers : observer'[q] = Idle \/ observer'[q] = observer[q]
    BY <1>4
  <2> QED
    BY <1>3, <2>1 DEF SameGrowth, Busy, Splits, Idle
<1>6. ASSUME Clean'
      PROVE  RowsFollow' /\ WritesLive' /\ Covered'
  <2>1. RowsFollow /\ WritesLive /\ Covered
    BY <1>3, <1>6 DEF StorageInv, Rows, Clean
  <2>2. p \notin dirty /\ p \notin DOMAIN batch
    BY <1>3, <1>6 DEF Clean
  <2>3. Merged' = Merged /\ \A q, m : (Parting(q, m)' <=> Parting(q, m)) /\ (Joining(q, m)' <=> Joining(q, m))
    BY <1>3 DEF Merged, Parting, Joining
  <2>4. \A q \in PDIDs : \A m : Has(q, m)' <=> q # p /\ Has(q, m)
    BY <1>2, <2>3 DEF Has, Replaced
  <2>5. \A q, m : q # p /\ Fresh(q, m) => Fresh(q, m)'
    BY <1>4 DEF Fresh
  <2>6. \A q, m : Owes(q, m) => q # p /\ Owes(q, m)'
    BY <1>3, <2>2 DEF Owes
  <2> HIDE DEF p
  <2>7. \A m : Expected(m)' => Expected(m)
    BY <1>3, <2>4, <2>5 DEF Expected
  <2>8. Covered'
    BY <1>3, <2>1, <2>4, <2>6, <2>7 DEF Covered
  <2>9. WritesLive'
    BY <1>2, <1>3, <2>1, <2>2, <2>3 DEF WritesLive
  <2>10. RowsFollow'
    <3> SUFFICES ASSUME NEW m \in MACs, NEW q, q = db'.holder[m], q # None
                 PROVE  RowFollows(q, m)'
      BY DEF RowsFollow
    <3>1. RowFollows(q, m)
      BY <1>3, <2>1 DEF RowsFollow
    <3>2. q \in Cached(inv') => m \in inv'.devices[q].macs \/ Joining(q, m)'
      BY <1>2, <2>3, <3>1 DEF RowFollows, Replaced, Cached
    <3> QED
      BY <1>3, <2>3, <3>1, <3>2 DEF RowFollows, Splits
  <2> QED
    BY <2>8, <2>9, <2>10
<1> QED
  BY <1>5, <1>6, KeepsGrowing DEF StorageInv, Rows

LEMMA PersistRows ==
    ASSUME Sound, DeviceInv, StorageInv, NEW o \in Observers, Persist(o)
    PROVE  StorageInv'
<1> DEFINE p == observer[o].device
           r == observer[o].clone
           job == [observer[o] EXCEPT !.at = "next"]
<1>1. /\ observer[o] \in Observing /\ observer[o].at = "new" /\ p \in PDIDs /\ r \in Records
      /\ observer[o].new /\ p \in issued /\ Busy(o)
  <2>1. observer[o] \in Observing /\ observer[o].at = "new" /\ p \in PDIDs /\ r \in Records
    BY ObserverFields DEF Persist, Sound
  <2> QED
    BY <2>1 DEF DeviceInv, NewIsOpen, Allocated, Busy
<1>2. job.at = "next" /\ job.new
  BY <1>1 DEF Observing
<1>3. \A q \in Observers : observer'[q] = IF q = o THEN job ELSE observer[q]
  BY DEF Persist, Sound, TypeOK
<1>4. /\ UNCHANGED <<inv, dirty, batch, admin, issued, ghosts>>
      /\ Stores(p, r)
  BY DEF Persist, memory
<1>5. Gives(db', db, p, r) /\ db'.redirects = db.redirects
  BY <1>1, SaveGives, SaveKeeps DEF Persist, Saved, Sound, TypeOK
<1> HIDE DEF job
<1>6. SameGrowth
  <2>1. \A m \in MACs : db'.holder[m] \in {db.holder[m], None, p}
    BY <1>5 DEF Gives, HolderAfter
  <2> QED
    BY <1>1, <1>2, <1>3, <1>4, <2>1 DEF SameGrowth, Busy, Splits
<1>7. ASSUME Clean'
      PROVE  RowsFollow' /\ WritesLive' /\ Covered'
  <2>1. overwritten \subseteq overwritten' /\ ~Older(p, r)
    BY <1>4, <1>7 DEF Clean, Stores
  <2>2. RowsFollow /\ WritesLive /\ Covered
    BY <1>4, <1>7, <2>1 DEF StorageInv, Rows, Clean
  <2>3. inv.devices[p] = r /\ p \in Cached(inv)
    BY <1>1, <2>1, Distinct DEF Older, Cached
  <2>4. /\ \A m : ~Joining(p, m) /\ ~Parting(p, m)
        /\ \A a \in Admins : Splits(a) => admin[a].new # p
    <3>1. \A m : ~Joining(p, m) /\ ~Parting(p, m)
      BY <2>1 DEF Older, RowIsAhead, Joining, Parting
    <3> QED
      BY <1>1, <3>1 DEF DeviceInv, SplitIsOpen
  <2>5. \A m \in MACs : m \in r.macs => db'.holder[m] # None
    BY <1>1, <1>5, NoneAssumption DEF Gives, HolderAfter
  <2>6. \A m \in MACs : db.holder[m] # None => db'.holder[m] = db.holder[m]
    <3>1. \A m \in MACs : db.holder[m] = p => m \in r.macs
      BY <1>1, <2>2, <2>3, <2>4, NoneAssumption DEF RowsFollow, RowFollows
    <3> QED
      BY <1>5, <3>1 DEF Gives, HolderAfter
  <2>7. \A m \in MACs : db'.holder[m] # None /\ db.holder[m] = None => db'.holder[m] = p /\ m \in r.macs
    BY <1>5 DEF Gives, HolderAfter
  <2>8. Merged' = Merged /\ \A q, m : (Parting(q, m)' <=> Parting(q, m)) /\ (Joining(q, m)' <=> Joining(q, m))
    BY <1>4, <1>5 DEF Merged, Parting, Joining
  <2>9. \A q, m : (Has(q, m)' <=> Has(q, m)) /\ (Owes(q, m)' <=> Owes(q, m))
    BY <1>4, <2>8 DEF Has, Owes
  <2>10. \A q, m : m \notin r.macs /\ Fresh(q, m) => Fresh(q, m)'
    BY <1>3 DEF Fresh
  <2>11. \A m : m \notin r.macs /\ Expected(m)' => Expected(m)
    BY <1>4, <2>9, <2>10 DEF Expected
  <2>12. Covered'
    BY <2>2, <2>5, <2>6, <2>9, <2>11 DEF Covered
  <2>13. WritesLive'
    BY <1>4, <2>2, <2>8 DEF WritesLive
  <2>14. RowsFollow'
    <3> HIDE DEF p, r
    <3> SUFFICES ASSUME NEW m \in MACs, NEW q, q = db'.holder[m], q # None
                 PROVE  RowFollows(q, m)'
      BY DEF RowsFollow
    <3>1. RowFollows(q, m)
      <4>1. CASE db.holder[m] # None
        BY <2>2, <2>6, <4>1 DEF RowsFollow
      <4>2. CASE db.holder[m] = None
        BY <2>3, <2>4, <2>7, <4>2 DEF RowFollows
      <4> QED
        BY <4>1, <4>2
    <3> QED
      BY <1>4, <2>8, <3>1 DEF RowFollows, Splits
  <2> QED
    BY <2>12, <2>13, <2>14
<1> QED
  BY <1>6, <1>7, KeepsGrowing DEF StorageInv, Rows

LEMMA WriteRows ==
    ASSUME Sound, StorageInv, NEW o \in Observers, Write(o)
    PROVE  StorageInv'
<1> DEFINE p == observer[o].device
           c == observer[o].clone
           r == observer[o].record
<1>1. /\ p \in PDIDs /\ r \in Records /\ c \in Records /\ observer[o].at = "next"
      /\ ~observer[o].new
  BY ObserverFields DEF Write, Sound
<1>2. c.macs \subseteq r.macs
  BY <1>1 DEF StorageInv, Growing, Busy
<1>3. Cached(inv') = Cached(inv) \cup {p} /\ Replaced(p, r)
  BY <1>1, Upserts DEF Write
<1>4. /\ UNCHANGED <<db, batch, admin, issued>> /\ WrittenBack(p) /\ Replaces(p, c)
      /\ dirty \subseteq dirty' /\ (r.macs # c.macs => p \in dirty')
  BY DEF Write
<1>5. \A q \in Observers : observer'[q] = IF q = o THEN Idle ELSE observer[q]
  BY DEF Write, Sound, TypeOK
<1>6. SameGrowth
  <2>1. \A q \in Observers : observer'[q] = Idle \/ observer'[q] = observer[q]
    BY <1>5
  <2> QED
    BY <1>4, <2>1 DEF SameGrowth, Busy, Splits, Idle
<1>7. \A q, m : Fresh(q, m)' <=> Fresh(q, m)
  BY <1>1, <1>5 DEF Fresh, Idle
<1> HIDE DEF p, c, r
<1>8. ASSUME Clean'
      PROVE  RowsFollow' /\ WritesLive' /\ Covered'
  <2>1. overwritten \subseteq overwritten' /\ ghosts \subseteq ghosts' /\ inv.devices[p] = c
    BY <1>4, <1>8 DEF Clean, Replaces, WrittenBack
  <2>2. RowsFollow /\ WritesLive /\ Covered
    BY <1>8, <2>1 DEF StorageInv, Rows, Clean
  <2>3. p \in Cached(inv) /\ p \notin Merged
    BY <1>1, <1>4, <1>8, <2>1, Distinct DEF Cached, Clean, WrittenBack
  <2>4. Merged' = Merged /\ \A q, m : (Parting(q, m)' <=> Parting(q, m)) /\ (Joining(q, m)' <=> Joining(q, m))
    BY <1>4 DEF Merged, Parting, Joining
  <2>5. Cached(inv') = Cached(inv)
    BY <1>3, <2>3
  <2>6. \A q \in PDIDs : \A m : m \in inv.devices[q].macs => m \in inv'.devices[q].macs
    BY <1>2, <1>3, <2>1 DEF Replaced
  <2>7. \A q \in PDIDs : \A m :
            q # p \/ m \in c.macs \/ m \notin r.macs =>
                (m \in inv'.devices[q].macs <=> m \in inv.devices[q].macs)
    BY <1>2, <1>3, <2>1 DEF Replaced
  <2>8. \A q, m : (Has(q, m) => Has(q, m)') /\ (Owes(q, m) => Owes(q, m)')
    BY <1>4, <2>4, <2>5, <2>6 DEF Has, Owes, Cached
  <2>9. \A q \in PDIDs : \A m : Has(q, m)' /\ ~Has(q, m) => q = p /\ p \in dirty'
    BY <1>4, <2>4, <2>5, <2>7 DEF Has
  <2>10. Covered'
    <3> SUFFICES ASSUME NEW m \in MACs, db'.holder[m] = None, Expected(m)'
                 PROVE  \E q \in PDIDs : Has(q, m)' /\ Owes(q, m)'
      BY DEF Covered
    <3>1. CASE Expected(m)
      BY <1>4, <2>2, <2>8, <3>1 DEF Covered
    <3>2. CASE ~Expected(m)
      <4>1. PICK q \in PDIDs : Has(q, m)' /\ ~Fresh(q, m)' /\ ~Has(q, m)
        BY <1>4, <1>7, <3>2 DEF Expected
      <4>2. Owes(q, m)'
        BY <2>9, <4>1 DEF Owes
      <4> QED
        BY <4>1, <4>2
    <3> QED
      BY <3>1, <3>2
  <2>11. WritesLive'
    BY <1>4, <2>2, <2>4, <2>5 DEF WritesLive
  <2>12. RowsFollow'
    <3> SUFFICES ASSUME NEW m \in MACs, NEW q, q = db'.holder[m], q # None
                 PROVE  RowFollows(q, m)'
      BY DEF RowsFollow
    <3>1. RowFollows(q, m)
      BY <1>4, <2>2 DEF RowsFollow
    <3>2. q \in Cached(inv') => m \in inv'.devices[q].macs \/ Joining(q, m)'
      BY <2>4, <2>5, <2>6, <3>1 DEF RowFollows, Cached
    <3> QED
      BY <1>4, <2>4, <3>1, <3>2 DEF RowFollows, Splits
  <2> QED
    BY <2>10, <2>11, <2>12
<1> QED
  BY <1>6, <1>8, KeepsGrowing DEF StorageInv, Rows

LEMMA FlushSaveRows ==
    ASSUME Sound, DeviceInv, StorageInv, FlushSave
    PROVE  StorageInv'
<1>1. Settled(db', DOMAIN batch) /\ db'.redirects = db.redirects
  BY FlushSettles, FlushKeeps DEF FlushSave, Flushed, Sound
<1>2. /\ UNCHANGED <<inv, dirty, observer, admin, issued>> /\ DOMAIN batch' = {}
      /\ ghosts' = ghosts \cup (DOMAIN batch \cap Merged)
      /\ overwritten' = overwritten \cup {p \in DOMAIN batch : Outdated(p)}
  BY DEF FlushSave, NoBatch
<1>3. DOMAIN batch \subseteq issued /\ DOMAIN batch \subseteq PDIDs
  BY DEF DeviceInv, Allocated, Sound, TypeOK
<1>4. SameGrowth
  <2>1. \A m \in MACs : db'.holder[m] \in {db.holder[m], None} \cup issued'
    BY <1>1, <1>2, <1>3 DEF Settled
  <2> QED
    BY <1>2, <2>1 DEF SameGrowth, Busy, Splits
<1>5. ASSUME Clean'
      PROVE  RowsFollow' /\ WritesLive' /\ Covered'
  <2>1. RowsFollow /\ WritesLive /\ Covered
    BY <1>2, <1>5 DEF StorageInv, Rows, Clean
  <2>2. ASSUME NEW p \in DOMAIN batch
        PROVE  /\ p \in Cached(inv) /\ p \notin Merged
               /\ batch[p].macs \subseteq inv.devices[p].macs
               /\ p \in dirty \/ batch[p] = inv.devices[p]
               /\ \A m : ~Joining(p, m) /\ ~Parting(p, m)
               /\ \A a \in Admins : Splits(a) => admin[a].new # p
    <3>1. p \notin Merged /\ ~Outdated(p)
      BY <1>2, <1>5 DEF Clean
    <3>2. \A m : ~Joining(p, m) /\ ~Parting(p, m)
      BY <3>1 DEF Outdated, RowIsAhead, Joining, Parting
    <3>3. p \in Cached(inv)
      BY <3>1 DEF Outdated
    <3> QED
      BY <3>1, <3>2, <3>3 DEF Outdated, DeviceInv, SplitIsOpen
  <2>3. Merged' = Merged /\ \A q, m : (Parting(q, m)' <=> Parting(q, m)) /\ (Joining(q, m)' <=> Joining(q, m))
    BY <1>1, <1>2 DEF Merged, Parting, Joining
  <2>4. \A q, m : (Has(q, m)' <=> Has(q, m)) /\ (Fresh(q, m)' <=> Fresh(q, m))
    BY <1>2, <2>3 DEF Has, Fresh
  <2>5. \A m : Expected(m)' => Expected(m)
    BY <1>2, <2>4 DEF Expected
  <2>6. Covered'
    <3> SUFFICES ASSUME NEW m \in MACs, db'.holder[m] = None, Expected(m)'
                 PROVE  \E q \in PDIDs : Has(q, m)' /\ Owes(q, m)'
      BY DEF Covered
    <3>1. CASE db.holder[m] # None
      <4> DEFINE q == db.holder[m]
      <4>1. q \in DOMAIN batch /\ m \notin batch[q].macs
        BY <1>1, <3>1 DEF Settled
      <4>2. RowFollows(q, m)
        BY <2>1, <3>1 DEF RowsFollow
      <4> HIDE DEF q
      <4>3. m \in inv.devices[q].macs
        BY <2>2, <4>1, <4>2 DEF RowFollows
      <4>4. q \in dirty /\ Has(q, m)
        BY <2>2, <4>1, <4>3 DEF Has
      <4>5. \E p \in PDIDs : Has(p, m) /\ p \in dirty
        BY <1>3, <4>1, <4>4
      <4> QED
        BY <1>2, <2>4, <4>5 DEF Owes
    <3>2. CASE db.holder[m] = None
      <4>1. PICK q \in PDIDs : Has(q, m) /\ Owes(q, m)
        BY <2>1, <2>5, <3>2 DEF Covered
      <4>2. ~(q \in DOMAIN batch /\ m \in batch[q].macs)
        BY <1>1, <3>2 DEF Settled
      <4>3. q \in dirty'
        BY <1>2, <4>1, <4>2 DEF Owes
      <4> QED
        BY <2>4, <4>1, <4>3 DEF Owes
    <3> QED
      BY <3>1, <3>2
  <2>7. WritesLive'
    BY <1>2, <2>1, <2>3 DEF WritesLive
  <2>8. RowsFollow'
    <3> SUFFICES ASSUME NEW m \in MACs, NEW q, q = db'.holder[m], q # None
                 PROVE  RowFollows(q, m)'
      BY DEF RowsFollow
    <3>1. RowFollows(q, m)
      <4>1. CASE q = db.holder[m]
        BY <2>1, <4>1 DEF RowsFollow
      <4>2. CASE q # db.holder[m]
        <5>1. q \in DOMAIN batch /\ m \in batch[q].macs
          BY <1>1, <4>2 DEF Settled
        <5> QED
          BY <2>2, <5>1 DEF RowFollows
      <4> QED
        BY <4>1, <4>2
    <3> QED
      BY <1>2, <2>3, <3>1 DEF RowFollows, Splits
  <2> QED
    BY <2>6, <2>7, <2>8
<1> QED
  BY <1>4, <1>5, KeepsGrowing DEF StorageInv, Rows

\* The transaction of a merge: what the source had, the target has.
LEMMA CommitRows ==
    ASSUME Sound, DeviceInv, StorageInv, NEW a \in Admins, Confirm(a), NEW r \in Records, Commits(a, r)
    PROVE  StorageInv'
<1> DEFINE s == admin[a].source
           t == admin[a].target
           job == [at |-> "merged", source |-> s, target |-> t, clone |-> admin[a].clone,
                   record |-> r]
<1>1. admin[a] \in Confirming /\ admin[a].at = "confirm"
  BY ConfirmMoves DEF Confirm
<1>2. /\ s \in PDIDs /\ t \in PDIDs /\ admin[a].from \in Records /\ admin[a].clone \in Records
      /\ s # t /\ {s, t} \subseteq issued /\ s # None /\ t # None
  BY <1>1, NoneAssumption DEF Confirming, DeviceInv, OneDecides, Allocated, Decides, Uses
<1>3. /\ GivesOn(db', db, s, t, r) /\ db'.redirects = [db.redirects EXCEPT ![s] = t]
      /\ r.macs = admin[a].from.macs \cup admin[a].clone.macs
      /\ overwritten' = overwritten \cup {p \in {s} : Older(p, admin[a].from)}
                                    \cup {p \in {t} : Older(p, admin[a].clone)}
  BY DEF Commits, MergedInto, Decided
<1>4. UNCHANGED <<inv, dirty, batch, observer, issued, ghosts>>
  BY DEF Confirm, memory
<1>5. \A b \in Admins : admin'[b] = IF b = a THEN job ELSE admin[b]
  BY DEF Commits, Goto, Sound, TypeOK
<1>6. /\ job.at = "merged" /\ job.source = s /\ job.target = t /\ job.record = r
      /\ job.clone = admin[a].clone
  OBVIOUS
<1> HIDE DEF job
<1>7. SameGrowth
  <2>1. \A m \in MACs : db'.holder[m] \in {db.holder[m], None} \cup issued'
    BY <1>2, <1>3, <1>4 DEF GivesOn, HolderAfter
  <2>2. \A b \in Admins : admin'[b] = admin[b] \/ (admin'[b].at = "merged" /\ admin'[b].clone.macs \subseteq admin'[b].record.macs)
    BY <1>3, <1>5, <1>6
  <2> QED
    BY <1>4, <2>1, <2>2 DEF SameGrowth, Busy, Splits
<1>8. ASSUME Clean'
      PROVE  RowsFollow' /\ WritesLive' /\ Covered'
  <2>1. /\ overwritten \subseteq overwritten'
        /\ ~Older(s, admin[a].from) /\ ~Older(t, admin[a].clone)
    BY <1>3, <1>8 DEF Clean
  <2>2. RowsFollow /\ WritesLive /\ Covered
    BY <1>4, <1>8, <2>1 DEF StorageInv, Rows, Clean
  <2>3. /\ inv.devices[s] = admin[a].from /\ inv.devices[t] = admin[a].clone
        /\ \A p \in {s, t} : \A m : ~Joining(p, m) /\ ~Parting(p, m)
    <3>1. \A p \in {s, t} : ~RowIsAhead(p)
      BY <2>1 DEF Older
    <3> QED
      BY <2>1, <3>1 DEF Older, RowIsAhead, Joining, Parting
  <2>4. s \in Cached(inv) /\ t \in Cached(inv)
    BY <1>2, <2>3, Distinct DEF Cached
  <2>5. Merged' = Merged \cup {s}
    BY <1>2, <1>3, DatabaseFields DEF Merged, Sound, TypeOK
  <2>6. /\ \A q, m : Parting(q, m)' <=> Parting(q, m)
        /\ \A q, m : Joining(q, m) => Joining(q, m)'
        /\ \A q, m : q = t /\ m \in r.macs => Joining(q, m)'
    <3>1. \A q, m : Parting(q, m)' <=> Parting(q, m)
      BY <1>1, <1>5, <1>6 DEF Parting
    <3>2. \A q, m : Joining(q, m) => Joining(q, m)'
      BY <1>1, <1>5 DEF Joining
    <3>3. \A q, m : q = t /\ m \in r.macs => Joining(q, m)'
      BY <1>5, <1>6 DEF Joining
    <3> QED
      BY <3>1, <3>2, <3>3
  <2>7. \A m \in MACs : db.holder[m] \in {s, t} => m \in r.macs
    BY <1>2, <1>3, <2>2, <2>3, <2>4 DEF RowsFollow, RowFollows
  <2>8. \A m \in MACs : m \in r.macs => db'.holder[m] # None
    BY <1>2, <1>3 DEF GivesOn, HolderAfter
  <2>9. \A m \in MACs : m \notin r.macs => db'.holder[m] = db.holder[m]
    BY <1>3, <2>7 DEF GivesOn, HolderAfter
  <2>10. \A q \in PDIDs : \A m : Has(q, m)' <=> q # s /\ Has(q, m)
    BY <1>4, <2>5, <2>6 DEF Has
  <2>11. \A q, m : (Fresh(q, m)' <=> Fresh(q, m)) /\ (Owes(q, m)' <=> Owes(q, m))
    BY <1>4 DEF Fresh, Owes
  <2>12. \A m \in MACs : m \notin r.macs /\ Expected(m)' => Expected(m)
    <3>1. \A b \in Admins : admin'[b].at \in {"merged", "moved"} => admin'[b] = admin[b] \/ admin'[b].record = r
      BY <1>5, <1>6
    <3>2. \A b \in Admins : admin'[b].at \in {"parted", "shrunk"} => admin'[b] = admin[b]
      BY <1>5, <1>6
    <3> QED
      BY <2>10, <2>11, <3>1, <3>2 DEF Expected
  <2>13. Covered'
    <3> SUFFICES ASSUME NEW m \in MACs, db'.holder[m] = None, Expected(m)'
                 PROVE  \E q \in PDIDs : Has(q, m)' /\ Owes(q, m)'
      BY DEF Covered
    <3>1. m \notin r.macs /\ db.holder[m] = None /\ Expected(m)
      BY <2>8, <2>9, <2>12
    <3>2. PICK q \in PDIDs : Has(q, m) /\ Owes(q, m)
      BY <2>2, <3>1 DEF Covered
    <3>3. q # s
      BY <1>3, <2>3, <3>1, <3>2 DEF Has
    <3> QED
      BY <2>10, <2>11, <3>2, <3>3
  <2>14. WritesLive'
    <3>1. \A b \in Admins : admin'[b].at = "merged" => admin'[b].source \in Merged'
      BY <1>5, <1>6, <2>2, <2>5 DEF WritesLive
    <3> QED
      BY <1>4, <2>2, <2>5, <3>1 DEF WritesLive
  <2>15. RowsFollow'
    <3> SUFFICES ASSUME NEW m \in MACs, NEW q, q = db'.holder[m], q # None
                 PROVE  RowFollows(q, m)'
      BY DEF RowsFollow
    <3>1. q = db.holder[m] \/ (q = t /\ m \in r.macs)
      BY <1>3, <2>9 DEF GivesOn, HolderAfter
    <3>2. \A b \in Admins : Splits(b)' => Splits(b) /\ admin'[b] = admin[b]
      BY <1>5, <1>6 DEF Splits
    <3>3. CASE q = t
      <4>1. m \in r.macs
        BY <2>7, <3>1, <3>3
      <4>2. \A b \in Admins : Splits(b) => admin[b].new # t
        BY <1>1 DEF DeviceInv, SplitIsOpen, Uses, Decides
      <4>3. Joining(q, m)' /\ ~Parting(q, m)'
        BY <2>3, <2>6, <3>3, <4>1
      <4>4. \A b \in Admins : Splits(b)' => admin'[b].new # q
        BY <3>2, <3>3, <4>2
      <4> QED
        BY <4>3, <4>4 DEF RowFollows
    <3>4. CASE q # t
      <4>1. RowFollows(q, m)
        BY <2>2, <3>1, <3>4 DEF RowsFollow
      <4> QED
        BY <1>4, <2>6, <3>2, <4>1 DEF RowFollows
    <3> QED
      BY <3>3, <3>4
  <2> QED
    BY <2>13, <2>14, <2>15
<1> QED
  BY <1>7, <1>8, KeepsGrowing DEF StorageInv, Rows

LEMMA ConfirmRows ==
    ASSUME Sound, DeviceInv, StorageInv, NEW a \in Admins, Confirm(a)
    PROVE  StorageInv'
<1>1. admin[a].at \notin Pending /\ UNCHANGED <<inv, dirty, batch, observer, issued, ghosts>>
  BY DEF Confirm, memory, Pending
<1>2. CASE \E r \in Records : Commits(a, r)
  BY <1>2, CommitRows
<1>3. CASE Finish(a) /\ UNCHANGED <<db, denied, disturbed, overwritten>>
  BY <1>1, <1>3, FinishRows DEF SameHolders
<1> QED
  BY <1>2, <1>3, ConfirmMoves

LEMMA ConfirmDeleteRows ==
    ASSUME Sound, StorageInv, NEW a \in Admins, ConfirmDelete(a)
    PROVE  StorageInv'
<1> DEFINE s == admin[a].source
           job == [admin[a] EXCEPT !.at = "moved"]
<1>1. admin[a] \in Moving /\ admin[a].at = "merged" /\ s \in PDIDs
  BY AdminFields DEF ConfirmDelete, Sound, Moving
<1>2. Cached(inv') = Cached(inv) \ {s} /\ Replaced(s, Absent)
  BY <1>1, Deletes DEF ConfirmDelete
<1>3. UNCHANGED <<db, dirty, batch, observer, issued, overwritten, ghosts>>
  BY DEF ConfirmDelete, history
<1>4. \A b \in Admins : admin'[b] = IF b = a THEN job ELSE admin[b]
  BY DEF ConfirmDelete, Goto, Sound, TypeOK
<1>5. /\ job.at = "moved" /\ job.target = admin[a].target /\ job.record = admin[a].record
      /\ job.clone = admin[a].clone
  BY <1>1 DEF Moving
<1> HIDE DEF job, s
<1>6. SameGrowth
  <2>1. \A b \in Admins : admin'[b] = admin[b] \/ (b = a /\ admin'[b] = job)
    BY <1>4
  <2> QED
    BY <1>1, <1>3, <1>5, <2>1 DEF SameGrowth, Busy, Splits
<1>7. ASSUME Clean'
      PROVE  RowsFollow' /\ WritesLive' /\ Covered'
  <2>1. RowsFollow /\ WritesLive /\ Covered
    BY <1>3, <1>7 DEF StorageInv, Rows, Clean
  <2>2. s \in Merged
    BY <1>1, <2>1 DEF WritesLive, s
  <2>3. Merged' = Merged /\ \A q, m : (Parting(q, m)' <=> Parting(q, m)) /\ (Joining(q, m)' <=> Joining(q, m))
    <3>1. \A q, m : Parting(q, m)' <=> Parting(q, m)
      BY <1>1, <1>4, <1>5 DEF Parting
    <3>2. \A q, m : Joining(q, m)' <=> Joining(q, m)
      BY <1>1, <1>4, <1>5 DEF Joining
    <3> QED
      BY <1>3, <3>1, <3>2 DEF Merged
  <2>4. \A q \in PDIDs : \A m : Has(q, m)' <=> Has(q, m)
    BY <1>2, <2>2, <2>3 DEF Has, Replaced
  <2>5. \A q, m : (Fresh(q, m)' <=> Fresh(q, m)) /\ (Owes(q, m)' <=> Owes(q, m))
    BY <1>3 DEF Fresh, Owes
  <2>6. \A m : Expected(m)' => Expected(m)
    <3>1. \A b \in Admins : admin'[b].at \in {"merged", "moved"} =>
              admin[b].at \in {"merged", "moved"} /\ admin'[b].record = admin[b].record
      BY <1>1, <1>4, <1>5
    <3>2. \A b \in Admins : admin'[b].at \in {"parted", "shrunk"} => admin'[b] = admin[b]
      BY <1>4, <1>5
    <3> QED
      BY <2>4, <2>5, <3>1, <3>2 DEF Expected
  <2>7. Covered'
    BY <1>3, <2>1, <2>4, <2>5, <2>6 DEF Covered
  <2>8. WritesLive'
    <3>1. \A b \in Admins : admin'[b].at = "merged" => admin'[b] = admin[b]
      BY <1>4, <1>5
    <3> QED
      BY <1>2, <1>3, <2>1, <2>2, <2>3, <3>1 DEF WritesLive
  <2>9. RowsFollow'
    <3> SUFFICES ASSUME NEW m \in MACs, NEW q, q = db'.holder[m], q # None
                 PROVE  RowFollows(q, m)'
      BY DEF RowsFollow
    <3>1. RowFollows(q, m)
      BY <1>3, <2>1 DEF RowsFollow
    <3>2. q \in Cached(inv') => m \in inv'.devices[q].macs \/ Joining(q, m)'
      BY <1>2, <2>3, <3>1 DEF RowFollows, Replaced, Cached
    <3>3. \A b \in Admins : Splits(b)' => Splits(b) /\ admin'[b] = admin[b]
      BY <1>4, <1>5 DEF Splits
    <3> QED
      BY <2>3, <3>1, <3>2, <3>3 DEF RowFollows
  <2> QED
    BY <2>7, <2>8, <2>9
<1> QED
  BY <1>6, <1>7, KeepsGrowing DEF StorageInv, Rows

LEMMA ConfirmUpsertRows ==
    ASSUME Sound, DeviceInv, StorageInv, NEW a \in Admins, ConfirmUpsert(a)
    PROVE  StorageInv'
<1> DEFINE t == admin[a].target
           c == admin[a].clone
           r == admin[a].record
<1>1. /\ admin[a] \in Moving /\ admin[a].at = "moved" /\ t \in PDIDs /\ c \in Records
      /\ r \in Records
  BY AdminFields DEF ConfirmUpsert, Sound, Moving
<1>2. c.macs \subseteq r.macs
  BY <1>1 DEF StorageInv, Growing
<1>3. Cached(inv') = Cached(inv) \cup {t} /\ Replaced(t, r)
  BY <1>1, Upserts DEF ConfirmUpsert
<1>4. /\ UNCHANGED <<db, dirty, batch, observer, issued>>
      /\ WrittenBack(t) /\ Replaces(t, c)
  BY DEF ConfirmUpsert
<1>5. \A b \in Admins : admin'[b] = IF b = a THEN Idle ELSE admin[b]
  BY DEF ConfirmUpsert, Finish, Goto, Sound, TypeOK
<1>6. \A b \in Admins : admin'[b].at # "idle" => b # a /\ admin'[b] = admin[b]
  BY <1>5 DEF Idle
<1>7. SameGrowth
  BY <1>4, <1>6 DEF SameGrowth, Busy, Splits
<1>8. \A b \in Admins : b # a => admin[b].at \notin {"merged", "moved"}
  BY <1>1 DEF DeviceInv, OneDecides, Decides
<1>9. \A q, m : Joining(q, m) => q = t /\ m \in r.macs
  BY <1>8 DEF Joining
<1> HIDE DEF t, c, r
<1>10. ASSUME Clean'
       PROVE  RowsFollow' /\ WritesLive' /\ Covered'
  <2>1. overwritten \subseteq overwritten' /\ ghosts \subseteq ghosts' /\ inv.devices[t] = c
    BY <1>4, <1>10 DEF Clean, Replaces, WrittenBack
  <2>2. RowsFollow /\ WritesLive /\ Covered
    BY <1>10, <2>1 DEF StorageInv, Rows, Clean
  <2>3. t \in Cached(inv) /\ t \notin Merged
    BY <1>1, <1>4, <1>10, <2>1, Distinct DEF Cached, Clean, WrittenBack
  <2>4. Merged' = Merged /\ Cached(inv') = Cached(inv)
    BY <1>3, <1>4, <2>3 DEF Merged
  <2>5. \A q, m : Parting(q, m)' <=> Parting(q, m)
    BY <1>1, <1>5 DEF Parting, Idle
  <2>6. \A q, m : (Fresh(q, m)' <=> Fresh(q, m)) /\ (Owes(q, m)' <=> Owes(q, m))
    BY <1>4 DEF Fresh, Owes
  <2>7. \A q \in PDIDs : \A m : m \in inv.devices[q].macs => m \in inv'.devices[q].macs
    BY <1>2, <1>3, <2>1 DEF Replaced
  <2>8. \A q \in PDIDs : \A m : Has(q, m) => Has(q, m)'
    BY <2>4, <2>5, <2>7 DEF Has
  <2>9. \A q \in PDIDs : \A m : Has(q, m)' => Has(q, m) \/ m \in r.macs
    BY <1>3, <2>4, <2>5 DEF Has, Replaced
  <2>10. \A m : Expected(m)' => Expected(m)
    <3>1. \A m : m \in r.macs => Expected(m)
      BY <1>1 DEF Expected, r
    <3> QED
      BY <1>6, <2>6, <2>9, <3>1 DEF Expected
  <2>11. Covered'
    BY <1>4, <2>2, <2>6, <2>8, <2>10 DEF Covered
  <2>12. WritesLive'
    BY <1>4, <1>6, <2>2, <2>4 DEF WritesLive
  <2>13. RowsFollow'
    <3> SUFFICES ASSUME NEW m \in MACs, NEW q, q = db'.holder[m], q # None
                 PROVE  RowFollows(q, m)'
      BY DEF RowsFollow
    <3>1. RowFollows(q, m)
      BY <1>4, <2>2 DEF RowsFollow
    <3>2. q \in Cached(inv') => m \in inv'.devices[q].macs
      BY <1>1, <1>3, <1>9, <2>4, <2>7, <3>1 DEF RowFollows, Replaced, Cached
    <3>3. \A b \in Admins : Splits(b)' => Splits(b) /\ admin'[b] = admin[b]
      BY <1>6 DEF Splits
    <3> QED
      BY <2>5, <3>1, <3>2, <3>3 DEF RowFollows
  <2> QED
    BY <2>11, <2>12, <2>13
<1> QED
  BY <1>7, <1>10, KeepsGrowing DEF StorageInv, Rows

\* The transaction of a split: one device has the MAC, the other one the rest.
LEMMA PartRows ==
    ASSUME Sound, DeviceInv, StorageInv, NEW a \in Admins, Split(a), Parts(a)
    PROVE  StorageInv'
<1> DEFINE p == admin[a].device
           new == admin[a].new
           mac == admin[a].mac
           c == admin[a].clone
           r == admin[a].record
           job == [admin[a] EXCEPT !.at = "parted"]
<1>1. admin[a] \in Splitting /\ admin[a].at = "split" /\ Splits(a)
  BY SplitMoves DEF Split, Splits
<1>2. /\ p \in PDIDs /\ new \in PDIDs /\ mac \in MACs /\ c \in Records /\ r \in Records
      /\ p \in issued /\ new \in issued /\ p # None /\ new # None
      /\ r.macs = c.macs \ {mac} /\ new \notin Cached(inv)
  <2>1. /\ p \in PDIDs /\ new \in PDIDs /\ mac \in MACs /\ c \in Records /\ r \in Records
        /\ p # None /\ new # None
    BY <1>1, NoneAssumption DEF Splitting
  <2>2. /\ p \in issued /\ new \in issued /\ r.macs = c.macs \ {mac} /\ new \notin Cached(inv)
    BY <1>1 DEF DeviceInv, Allocated, SplitIsOpen, Uses, Decides, Splits, StorageInv, Growing
  <2> QED
    BY <2>1, <2>2
<1>3. /\ \A m \in MACs :
            db'.holder[m] = HolderAfter(HolderAfter(db.holder[m], p, r.macs, m), new, {mac}, m)
      /\ db'.redirects = db.redirects
      /\ WrittenBack(p) /\ Stores(p, c)
  <2>1. Rec({mac}, mac, FALSE).macs = {mac}
    BY DEF Rec
  <2> QED
    BY <2>1 DEF Parts, GivesUp, SplitOff
<1>4. UNCHANGED <<inv, dirty, batch, observer, issued>>
  BY DEF Split, memory
<1>5. \A b \in Admins : admin'[b] = IF b = a THEN job ELSE admin[b]
  BY DEF Parts, Goto, Sound, TypeOK
<1>6. /\ job.at = "parted" /\ job.device = p /\ job.new = new /\ job.mac = mac
      /\ job.record = r /\ job.clone = c
  BY <1>1 DEF Splitting
<1> HIDE DEF job
<1>7. SameGrowth
  <2>1. \A m \in MACs : db'.holder[m] \in {db.holder[m], None} \cup issued'
    BY <1>2, <1>3, <1>4 DEF HolderAfter
  <2>2. \A b \in Admins : admin'[b] = admin[b] \/ (b = a /\ admin'[b] = job)
    BY <1>5
  <2> QED
    BY <1>1, <1>4, <1>6, <2>1, <2>2 DEF SameGrowth, Busy, Splits
<1>8. ASSUME Clean'
      PROVE  RowsFollow' /\ WritesLive' /\ Covered'
  <2>1. overwritten \subseteq overwritten' /\ ghosts \subseteq ghosts' /\ ~Older(p, c)
    BY <1>3, <1>8 DEF Clean, Stores, WrittenBack
  <2>2. RowsFollow /\ WritesLive /\ Covered
    BY <1>8, <2>1 DEF StorageInv, Rows, Clean
  <2>3. /\ inv.devices[p] = c /\ p \in Cached(inv) /\ p # new
        /\ \A m : ~Joining(p, m) /\ ~Parting(p, m)
    <3>1. inv.devices[p] = c /\ \A m : ~Joining(p, m) /\ ~Parting(p, m)
      BY <2>1 DEF Older, RowIsAhead, Joining, Parting
    <3> QED
      BY <1>2, <3>1, Distinct DEF Cached
  <2>4. Merged' = Merged
    BY <1>3 DEF Merged
  <2>5. /\ \A q, m : Parting(q, m)' <=> Parting(q, m) \/ (q = p /\ m = mac)
        /\ \A q, m : Joining(q, m)' <=> Joining(q, m)
    <3>1. \A q, m : Parting(q, m)' <=> Parting(q, m) \/ (q = p /\ m = mac)
      BY <1>1, <1>5, <1>6 DEF Parting
    <3>2. \A q, m : Joining(q, m)' <=> Joining(q, m)
      BY <1>1, <1>5, <1>6 DEF Joining
    <3> QED
      BY <3>1, <3>2
  <2>6. \A m \in MACs : db.holder[m] = p => m \in c.macs
    BY <1>2, <2>2, <2>3 DEF RowsFollow, RowFollows
  <2>7. \A m \in MACs : db.holder[m] # new
    BY <1>1, <1>2, <2>2 DEF RowsFollow, RowFollows
  <2>8. \A m \in MACs : m = mac \/ m \in c.macs => db'.holder[m] # None
    <3>1. \A m \in MACs : m = mac => db'.holder[m] # None
      BY <1>2, <1>3 DEF HolderAfter
    <3>2. \A m \in MACs : m # mac /\ m \in c.macs => db'.holder[m] # None
      BY <1>2, <1>3, <2>3, <2>7 DEF HolderAfter
    <3> QED
      BY <3>1, <3>2
  <2>9. \A m \in MACs : m \notin c.macs /\ m # mac => db'.holder[m] = db.holder[m]
    BY <1>2, <1>3, <2>6, <2>7 DEF HolderAfter
  <2>10. \A q, m : m # mac => (Has(q, m)' <=> Has(q, m))
    BY <1>4, <2>4, <2>5 DEF Has
  <2>11. \A q, m : (Fresh(q, m)' <=> Fresh(q, m)) /\ (Owes(q, m)' <=> Owes(q, m))
    BY <1>4 DEF Fresh, Owes
  <2>12. \A m \in MACs : m # mac /\ Expected(m)' => Expected(m)
    <3>1. \A b \in Admins : admin'[b] = admin[b] \/ (admin'[b].at = "parted" /\ admin'[b].mac = mac)
      BY <1>5, <1>6
    <3> QED
      BY <2>10, <2>11, <3>1 DEF Expected
  <2>13. Covered'
    <3> SUFFICES ASSUME NEW m \in MACs, db'.holder[m] = None, Expected(m)'
                 PROVE  \E q \in PDIDs : Has(q, m)' /\ Owes(q, m)'
      BY DEF Covered
    <3>1. m # mac /\ db.holder[m] = None /\ Expected(m)
      BY <1>2, <2>6, <2>8, <2>9, <2>12
    <3> QED
      BY <2>2, <2>10, <2>11, <3>1 DEF Covered
  <2>14. WritesLive'
    <3>1. \A b \in Admins : admin'[b].at = "merged" => admin'[b] = admin[b]
      BY <1>5, <1>6
    <3> QED
      BY <1>4, <2>2, <2>4, <3>1 DEF WritesLive
  <2>15. RowsFollow'
    <3> SUFFICES ASSUME NEW m \in MACs, NEW q, q = db'.holder[m], q # None
                 PROVE  RowFollows(q, m)'
      BY DEF RowsFollow
    <3>1. \A b \in Admins : Splits(b)' =>
              /\ Splits(b) /\ admin'[b].new = admin[b].new /\ admin'[b].mac = admin[b].mac
              /\ admin'[b] = admin[b] \/ b = a
      BY <1>1, <1>5, <1>6 DEF Splits
    <3>2. \A b \in Admins : Splits(b) /\ b # a => admin[b].new # new
      BY <1>1 DEF DeviceInv, SplitIsOpen
    <3>3. CASE q = new
      <4>1. m = mac
        BY <1>3, <2>3, <2>7, <3>3 DEF HolderAfter
      <4>2. ~Parting(new, m)
        <5>1. \A b \in Admins : Splits(b) => admin[b].device # new
          BY <1>1 DEF DeviceInv, SplitIsOpen, Uses, Decides, Splits
        <5> QED
          BY <5>1 DEF Parting, Splits
      <4>3. ~Parting(q, m)'
        BY <2>3, <2>5, <3>3, <4>2
      <4>4. \A b \in Admins : Splits(b)' /\ admin'[b].new = q => admin'[b].at # "split" /\ admin'[b].mac = m
        BY <1>5, <1>6, <3>1, <3>2, <3>3, <4>1
      <4> QED
        BY <1>2, <1>4, <3>3, <4>3, <4>4 DEF RowFollows
    <3>4. CASE q = p
      <4>1. m \in c.macs /\ m # mac
        BY <1>2, <1>3, <2>3, <2>6, <3>4 DEF HolderAfter
      <4>2. ~Parting(q, m)'
        BY <2>3, <2>5, <3>4, <4>1
      <4>3. \A b \in Admins : Splits(b)' => admin'[b].new # q
        BY <2>3, <3>1, <3>4 DEF DeviceInv, SplitIsOpen
      <4> QED
        BY <1>4, <2>3, <3>4, <4>1, <4>2, <4>3 DEF RowFollows
    <3>5. CASE q # new /\ q # p
      <4>1. q = db.holder[m]
        BY <1>3, <3>5 DEF HolderAfter
      <4>2. RowFollows(q, m)
        BY <2>2, <4>1 DEF RowsFollow
      <4>3. \A b \in Admins : Splits(b)' /\ admin'[b].new = q => admin'[b] = admin[b]
        BY <3>1, <3>5
      <4> QED
        BY <1>4, <2>5, <3>1, <3>5, <4>2, <4>3 DEF RowFollows
    <3> QED
      BY <3>3, <3>4, <3>5
  <2> QED
    BY <2>13, <2>14, <2>15
<1> QED
  BY <1>7, <1>8, KeepsGrowing DEF StorageInv, Rows

LEMMA SplitRows ==
    ASSUME Sound, DeviceInv, StorageInv, NEW a \in Admins, Split(a)
    PROVE  StorageInv'
<1>1. admin[a].at \notin Pending /\ UNCHANGED <<inv, dirty, batch, observer, issued>>
  BY DEF Split, memory, Pending
<1>2. CASE Parts(a)
  BY <1>2, PartRows
<1>3. CASE Finish(a) /\ UNCHANGED <<db, history>>
  BY <1>1, <1>3, FinishRows DEF SameHolders, history
<1> QED
  BY <1>2, <1>3, SplitMoves

LEMMA SplitUpsertRows ==
    ASSUME Sound, DeviceInv, StorageInv, NEW a \in Admins, SplitUpsert(a)
    PROVE  StorageInv'
<1> DEFINE p == admin[a].device
           mac == admin[a].mac
           c == admin[a].clone
           r == admin[a].record
           job == [admin[a] EXCEPT !.at = "shrunk"]
<1>1. /\ admin[a] \in Splitting /\ admin[a].at = "parted" /\ Splits(a)
      /\ p \in PDIDs /\ c \in Records /\ r \in Records /\ mac \in MACs
  BY AdminFields DEF SplitUpsert, Sound, Splitting, Splits
<1>2. r.macs = c.macs \ {mac}
  BY <1>1 DEF StorageInv, Growing
<1>3. Cached(inv') = Cached(inv) \cup {p} /\ Replaced(p, r)
  BY <1>1, Upserts DEF SplitUpsert
<1>4. /\ UNCHANGED <<db, dirty, batch, observer, issued>>
      /\ WrittenBack(p) /\ Replaces(p, c)
  BY DEF SplitUpsert
<1>5. \A b \in Admins : admin'[b] = IF b = a THEN job ELSE admin[b]
  BY DEF SplitUpsert, Goto, Sound, TypeOK
<1>6. /\ job.at = "shrunk" /\ job.device = p /\ job.new = admin[a].new /\ job.mac = mac
      /\ job.record = r /\ job.clone = c
  BY <1>1 DEF Splitting
<1>7. Parting(p, mac)
  BY <1>1 DEF Parting
<1>8. \A q, m : Parting(q, m) <=> Parting(q, m)' \/ (q = p /\ m = mac)
  BY <1>1, <1>5, <1>6 DEF Parting
<1>9. \A q, m : Joining(q, m)' <=> Joining(q, m)
  BY <1>1, <1>5, <1>6 DEF Joining
<1>10. Expected(mac)
  BY <1>1 DEF Expected
<1> HIDE DEF job, p, mac, c, r
<1>11. SameGrowth
  <2>1. \A b \in Admins : admin'[b] = admin[b] \/ (b = a /\ admin'[b] = job)
    BY <1>5
  <2> QED
    BY <1>1, <1>2, <1>4, <1>6, <2>1 DEF SameGrowth, Busy, Splits
<1>12. ASSUME Clean'
       PROVE  RowsFollow' /\ WritesLive' /\ Covered'
  <2>1. overwritten \subseteq overwritten' /\ ghosts \subseteq ghosts' /\ inv.devices[p] = c
    BY <1>4, <1>12 DEF Clean, Replaces, WrittenBack
  <2>2. RowsFollow /\ WritesLive /\ Covered
    BY <1>12, <2>1 DEF StorageInv, Rows, Clean
  <2>3. p \in Cached(inv)
    BY <1>1, <2>1, Distinct DEF Cached
  <2>4. Merged' = Merged /\ Cached(inv') = Cached(inv)
    BY <1>3, <1>4, <2>3 DEF Merged
  <2>5. \A q \in PDIDs : \A m : q # p \/ m # mac =>
            (m \in inv'.devices[q].macs <=> m \in inv.devices[q].macs)
    BY <1>2, <1>3, <2>1 DEF Replaced
  <2>6. mac \notin inv'.devices[p].macs
    BY <1>1, <1>2, <1>3 DEF Replaced
  <2>7. \A q \in PDIDs : \A m : Has(q, m)' <=> Has(q, m)
    <3>1. \A q \in PDIDs : \A m : q # p \/ m # mac => (Has(q, m)' <=> Has(q, m))
      BY <1>8, <2>4, <2>5 DEF Has
    <3>2. ~Has(p, mac)
      BY <1>7 DEF Has
    <3>3. \A q \in PDIDs : \A m : q = p /\ m = mac => ~Has(q, m)'
      BY <2>6 DEF Has
    <3> QED
      BY <3>1, <3>2, <3>3
  <2>8. \A q, m : (Fresh(q, m)' <=> Fresh(q, m)) /\ (Owes(q, m)' <=> Owes(q, m))
    BY <1>4 DEF Fresh, Owes
  <2>9. \A m : Expected(m)' => Expected(m)
    <3>1. \A b \in Admins : admin'[b] = admin[b] \/ (admin'[b].at = "shrunk" /\ admin'[b].mac = mac)
      BY <1>5, <1>6
    <3> QED
      BY <1>10, <2>7, <2>8, <3>1 DEF Expected
  <2>10. Covered'
    BY <1>4, <2>2, <2>7, <2>8, <2>9 DEF Covered
  <2>11. WritesLive'
    <3>1. \A b \in Admins : admin'[b].at = "merged" => admin'[b] = admin[b]
      BY <1>5, <1>6
    <3> QED
      BY <1>4, <2>2, <2>4, <3>1 DEF WritesLive
  <2>12. RowsFollow'
    <3> SUFFICES ASSUME NEW m \in MACs, NEW q, q = db'.holder[m], q # None
                 PROVE  RowFollows(q, m)'
      BY DEF RowsFollow
    <3>1. RowFollows(q, m)
      BY <1>4, <2>2 DEF RowsFollow
    <3>2. ~Parting(q, m)' /\ (q # p \/ m # mac)
      BY <1>7, <1>8, <3>1 DEF RowFollows
    <3>3. q \in Cached(inv') => m \in inv'.devices[q].macs \/ Joining(q, m)'
      BY <1>9, <2>4, <2>5, <3>1, <3>2 DEF RowFollows, Cached
    <3>4. \A b \in Admins : Splits(b)' => Splits(b) /\ admin'[b].new = admin[b].new
                                          /\ admin'[b].mac = admin[b].mac
                                          /\ (admin'[b].at = "split" => admin[b].at = "split")
      BY <1>1, <1>5, <1>6 DEF Splits, mac
    <3> QED
      BY <3>1, <3>2, <3>3, <3>4 DEF RowFollows
  <2> QED
    BY <2>10, <2>11, <2>12
<1> QED
  BY <1>11, <1>12, KeepsGrowing DEF StorageInv, Rows

LEMMA SplitAddRows ==
    ASSUME Sound, DeviceInv, StorageInv, NEW a \in Admins, SplitAdd(a)
    PROVE  StorageInv'
<1> DEFINE new == admin[a].new
           mac == admin[a].mac
           r == Rec({mac}, mac, FALSE)
<1>1. /\ admin[a] \in Splitting /\ admin[a].at = "shrunk" /\ Splits(a)
      /\ new \in PDIDs /\ mac \in MACs
  BY AdminFields DEF SplitAdd, Sound, Splitting, Splits
<1>2. r \in Records /\ r.macs = {mac}
  BY <1>1, RecType DEF OrNone, Rec
<1>3. Cached(inv') = Cached(inv) \cup {new} /\ Replaced(new, r)
  BY <1>1, <1>2, Upserts DEF SplitAdd
<1>4. UNCHANGED <<db, dirty, batch, observer, issued, overwritten, ghosts>>
  BY DEF SplitAdd, history
<1>5. \A b \in Admins : admin'[b] = IF b = a THEN Idle ELSE admin[b]
  BY DEF SplitAdd, Finish, Goto, Sound, TypeOK
<1>6. \A b \in Admins : admin'[b].at # "idle" => b # a /\ admin'[b] = admin[b]
  BY <1>5 DEF Idle
<1>7. SameGrowth
  BY <1>4, <1>6 DEF SameGrowth, Busy, Splits
<1>8. Expected(mac)
  BY <1>1 DEF Expected
<1>9. new \notin Cached(inv)
  BY <1>1 DEF DeviceInv, SplitIsOpen
<1>10. /\ \A q, m : Parting(q, m)' <=> Parting(q, m)
       /\ \A q, m : Joining(q, m)' <=> Joining(q, m)
  <2>1. \A q, m : Parting(q, m)' <=> Parting(q, m)
    BY <1>1, <1>5 DEF Parting, Idle
  <2>2. \A q, m : Joining(q, m)' <=> Joining(q, m)
    BY <1>1, <1>5 DEF Joining, Idle
  <2> QED
    BY <2>1, <2>2
<1>11. \A m \in MACs : RowFollows(new, m) => m = mac
  BY <1>1 DEF RowFollows
<1> HIDE DEF new, mac, r
<1>12. ASSUME Clean'
       PROVE  RowsFollow' /\ WritesLive' /\ Covered'
  <2>1. RowsFollow /\ WritesLive /\ Covered
    BY <1>4, <1>12 DEF StorageInv, Rows, Clean
  <2>2. Merged' = Merged
    BY <1>4 DEF Merged
  <2>3. \A q \in PDIDs : \A m : q # new => (Has(q, m)' <=> Has(q, m))
    BY <1>3, <1>10, <2>2 DEF Has, Replaced
  <2>4. \A q, m : Has(q, m) => q # new /\ q \in PDIDs
    BY <1>9 DEF Has, Cached
  <2>5. \A q \in PDIDs : \A m : Has(q, m)' /\ q = new => m = mac
    BY <1>2, <1>3 DEF Has, Replaced
  <2>6. \A q, m : (Fresh(q, m)' <=> Fresh(q, m)) /\ (Owes(q, m)' <=> Owes(q, m))
    BY <1>4 DEF Fresh, Owes
  <2>7. \A m : Expected(m)' => Expected(m)
    BY <1>6, <1>8, <2>3, <2>5, <2>6 DEF Expected
  <2>8. Covered'
    BY <1>4, <2>1, <2>3, <2>4, <2>6, <2>7 DEF Covered
  <2>9. WritesLive'
    BY <1>3, <1>4, <1>6, <2>1, <2>2 DEF WritesLive
  <2>10. RowsFollow'
    <3> SUFFICES ASSUME NEW m \in MACs, NEW q, q = db'.holder[m], q # None
                 PROVE  RowFollows(q, m)'
      BY DEF RowsFollow
    <3>1. RowFollows(q, m)
      BY <1>4, <2>1 DEF RowsFollow
    <3>2. q \in Cached(inv') => m \in inv'.devices[q].macs \/ Joining(q, m)'
      BY <1>1, <1>2, <1>3, <1>10, <1>11, <3>1 DEF RowFollows, Replaced, Cached
    <3>3. \A b \in Admins : Splits(b)' => Splits(b) /\ admin'[b] = admin[b]
      BY <1>6 DEF Splits
    <3> QED
      BY <1>10, <3>1, <3>2, <3>3 DEF RowFollows
  <2> QED
    BY <2>8, <2>9, <2>10
<1> QED
  BY <1>7, <1>12, KeepsGrowing DEF StorageInv, Rows

-----------------------------------------------------------------------------
(* What holds of rows                                                      *)

\* A device is loaded with the MACs of its rows.
LEMMA HydrateGives ==
    ASSUME NEW d \in Databases, NEW v \in Hydrations(d), NEW p \in Cached(v)
    PROVE  v.devices[p].macs = Held(d, p)
<1>1. v.devices = [q \in PDIDs |-> IF q \in Stored(d) THEN Rec(Held(d, q), d.rows[q], FALSE) ELSE Absent]
  <2> DEFINE devices == [q \in PDIDs |->
                 IF q \in Stored(d) THEN Rec(Held(d, q), d.rows[q], FALSE) ELSE Absent]
  <2>1. PICK byMAC : v = [devices |-> devices, byMAC |-> byMAC, byIP |-> Empty.byIP,
                          owners |-> Empty.owners]
    BY DEF Hydrations
  <2> HIDE DEF devices
  <2> QED
    BY <2>1 DEF devices
<1>2. p \in PDIDs /\ p \in Stored(d)
  BY HydrateKeeps DEF Cached
<1> QED
  BY <1>1, <1>2 DEF Rec

\* Nothing is on the way after the devices were loaded.
Calm ==
    /\ db \in Databases /\ inv \in Hydrations(db)
    /\ \A o \in Observers : observer[o].at = "idle"
    /\ \A a \in Admins : admin[a].at = "idle"
    /\ DOMAIN batch = {}
    /\ \A m \in MACs : db.holder[m] # None => db.holder[m] \in issued

LEMMA CalmRows == Calm => StorageInv
<1> SUFFICES ASSUME Calm PROVE StorageInv
  OBVIOUS
<1>1. \A p \in Cached(inv) : inv.devices[p].macs = Held(db, p) /\ p \in PDIDs
  BY HydrateGives DEF Calm, Cached
<1>2. \A q, m : ~Joining(q, m) /\ ~Parting(q, m)
  BY DEF Calm, Joining, Parting
<1>3. \A m \in MACs : db.holder[m] \in OrNone(PDIDs)
  BY DatabaseFields DEF Calm
<1>4. RowsFollow
  BY <1>1, <1>2 DEF RowsFollow, RowFollows, Held, Calm, Splits
<1>5. WritesLive
  BY DEF WritesLive, Calm
<1>6. ASSUME NEW m \in MACs, Expected(m)
      PROVE  db.holder[m] # None
  <2>1. PICK p \in PDIDs : Has(p, m)
    BY <1>6 DEF Expected, Calm
  <2>2. db.holder[m] = p
    BY <1>1, <2>1 DEF Has, Held
  <2> QED
    BY <2>2, NoneAssumption
<1>7. Covered
  BY <1>6 DEF Covered
<1>8. Growing
  BY DEF Growing, Calm, Busy, Splits
<1> QED
  BY <1>4, <1>5, <1>7, <1>8 DEF StorageInv, Rows

LEMMA InitRows == Init => StorageInv
<1> SUFFICES ASSUME Init PROVE Calm
  BY CalmRows
<1>1. db \in Databases /\ db = Before /\ inv \in Hydrations(db)
  BY InitSound DEF Init, Sound, TypeOK
<1>2. /\ \A o \in Observers : observer[o].at = "idle"
      /\ \A a \in Admins : admin[a].at = "idle"
      /\ issued = DOMAIN Known \cup DOMAIN MergedBefore /\ DOMAIN batch = {}
  BY DEF Init, Idle, NoBatch
<1>3. ASSUME NEW m \in MACs, db.holder[m] # None
      PROVE  db.holder[m] \in DOMAIN Known
  <2>1. db.holder[m] = IF \E p \in DOMAIN Known : Known[p] = m
                       THEN CHOOSE p \in DOMAIN Known : Known[p] = m ELSE None
    BY <1>1 DEF Before
  <2> QED
    BY <1>3, <2>1
<1> QED
  BY <1>1, <1>2, <1>3 DEF Calm

LEMMA RestartRows ==
    ASSUME Sound, StorageInv, Restart
    PROVE  StorageInv'
<1>1. db \in Databases /\ db' = db /\ inv' \in Hydrations(db)
  BY DEF Sound, TypeOK, Restart
<1>2. /\ \A o \in Observers : observer'[o].at = "idle"
      /\ \A a \in Admins : admin'[a].at = "idle"
      /\ DOMAIN batch' = {} /\ issued' = issued
  BY DEF Restart, Idle, NoBatch
<1>3. \A m \in MACs : db.holder[m] # None => db.holder[m] \in issued
  BY DEF StorageInv, Growing
<1>4. Calm'
  BY <1>1, <1>2, <1>3 DEF Calm
<1>5. (Calm => StorageInv)'
  BY CalmRows, PTL
<1> QED
  BY <1>4, <1>5

LEMMA NextRows ==
    ASSUME Sound, DeviceInv, StorageInv, [Next]_vars
    PROVE  StorageInv'
<1>1. \A c \in issued \X issued : c \in PDIDs \X PDIDs
  BY DEF Sound, TypeOK
<1>2. ASSUME NEW o \in Observers, ObserverStep(o)
      PROVE  StorageInv'
  BY <1>2, PersistRows, PersistFailsRows, CheckRows, SaveRows, NoteRows, ProposeRows, WriteRows
     DEF ObserverStep
<1>3. ASSUME NEW a \in Admins, AdminStep(a)
      PROVE  StorageInv'
  BY <1>3, BindRows, BindNoteRows, RevokeNoteRows, ConfirmRows, ConfirmDeleteRows,
     ConfirmUpsertRows, SplitRows, SplitUpsertRows, SplitAddRows DEF AdminStep
<1>4. ASSUME NEW a \in Admins, NEW q \in issued, NEW v \in Values,
             BindTake(a, q, v) \/ Revoke(a, q, v)
      PROVE  StorageInv'
  BY <1>4, BindTakeRows, RevokeRows
<1>5. ASSUME NEW o \in Observers, NEW m \in MACs, NEW cred \in OrNone(Credentials),
             NEW on \in BOOLEAN,
             Observe(o, m, cred, on)
             \/ \E target \in OrNone(Cached(inv)) : Create(o, m, cred, on, target)
      PROVE  StorageInv'
  BY <1>5, ObserveRows, CreateRows
<1>6. ASSUME NEW a \in Admins, NEW c \in issued \X issued,
             Reject(a, c) \/ Reopen(a, c) \/ ConfirmTake(a, c)
      PROVE  StorageInv'
  BY <1>1, <1>6, DecisionRows, ConfirmTakeRows
<1>7. ASSUME NEW a \in Admins, NEW q \in issued, NEW m \in MACs, SplitTake(a, q, m)
      PROVE  StorageInv'
  BY <1>7, SplitTakeRows
<1>8. ASSUME NEW c \in issued \X issued, Forget(c)
      PROVE  StorageInv'
  BY <1>1, <1>8, DecisionRows
<1>9. ASSUME DemoteQuiet \/ FlushTake \/ FlushSave \/ FlushFails \/ UNCHANGED vars
      PROVE  StorageInv'
  BY <1>9, DemoteRows, FlushTakeRows, FlushSaveRows, FlushFailsRows, StutterRows
<1>10. ASSUME Restart
       PROVE  StorageInv'
  BY <1>10, RestartRows
<1> QED
  BY <1>2, <1>3, <1>4, <1>5, <1>6, <1>7, <1>8, <1>9, <1>10 DEF Next

LEMMA SettledIsStored ==
    ASSUME Sound, DeviceInv, StorageInv
    PROVE  MACsAreStored
<1> SUFFICES ASSUME overwritten \cup ghosts = {}, NEW m \in MACs,
                    NEW p \in Cached(inv), m \in inv.devices[p].macs,
                    \A q \in Cached(inv) : m \in inv.devices[q].macs => q \notin Unsettled,
                    db.holder[m] = None
             PROVE  FALSE
  BY DEF MACsAreStored
<1>1. Covered /\ ghosts = {}
  BY DEF StorageInv, Rows, Clean
<1>2. \A q \in Cached(inv) : q \in PDIDs
  BY DEF Cached
<1>3. p \notin Merged
  <2>1. Merging(p) => p \in Unsettled
    BY <1>2 DEF Merging, Unsettled
  <2> QED
    BY <1>1, <2>1 DEF DeviceInv, MergedIsGone
<1>4. ~Parting(p, m)
  BY <1>2 DEF Parting, Unsettled
<1>5. ~Fresh(p, m)
  BY DEF Fresh, Unsettled
<1>6. Expected(m)
  BY <1>2, <1>3, <1>4, <1>5 DEF Expected, Has
<1>7. PICK q \in PDIDs : Has(q, m) /\ Owes(q, m)
  BY <1>1, <1>6 DEF Covered
<1>8. q \in Unsettled
  BY <1>7 DEF Owes, Unsettled
<1> QED
  BY <1>7, <1>8 DEF Has

\* A merge and a split free the MACs of one device before they store those of
\* the other: unless an older clone was written over a newer record or row, a
\* MAC that no row has is one of a device that is still to be saved
\* (mergeDevicesTx, SplitDevice, INSERT OR IGNORE INTO device_macs).
THEOREM MACsAreStoredAlways == Spec => []MACsAreStored
<1>1. Init => Sound /\ DeviceInv /\ StorageInv
  BY InitSound, InitDevices, InitRows
<1>2. Sound /\ DeviceInv /\ StorageInv /\ [Next]_vars => (Sound /\ DeviceInv /\ StorageInv)'
  BY NextSound, NextDevices, NextRows
<1>3. Sound /\ DeviceInv /\ StorageInv => MACsAreStored
  BY SettledIsStored
<1> QED
  BY <1>1, <1>2, <1>3, PTL DEF Spec
=============================================================================
