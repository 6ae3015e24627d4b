------------------------- MODULE IdentityDecisions --------------------------
(* Identity in DIS: the goroutines of the providers note the aliases of the *)
(* devices they observe and propose candidates, while administrators bind   *)
(* and revoke aliases, decide candidates - a confirmed one merges its       *)
(* source into its target - and split a MAC off a device.  Each transaction *)
(* of the database is one step; the cache and the index of aliases in       *)
(* memory follow in steps of their own.                                     *)
(*                                                                          *)
(* Data: an observation is a MAC, the credential an authenticated source    *)
(* adds and whether it is evidence of presence.  Hostnames and addresses    *)
(* are left out: which device has the address that makes it a candidate's   *)
(* target is left open.  Expectations of a decision request are not         *)
(* modelled: one that is not met changes nothing.                           *)
EXTENDS Inventory, Sequences, FiniteSets

CONSTANTS
    Credentials,        \* stable identifiers of an authenticated source
    Observers,          \* goroutines that process observations
    Admins,             \* requests that are served at the same time
    Known,              \* the devices DIS has seen before, each with its MAC
    Proposed,           \* the candidates among them
    MergedBefore,       \* the devices merged before, each with its target
    MaxDepth,           \* the redirects ResolvePDID follows; 8 in the code
    MaxObservations,    \* bounds the observations
    MaxRequests,        \* bounds the requests of administrators
    MaxRestarts         \* bounds the restarts

\* A PDID is a string of fixed length, and no row is without a device.
ASSUME PDIDsAssumption == IsFiniteSet(PDIDs)
ASSUME AbsentAssumption == Absent \notin OrNone(MACs)
ASSUME CredentialsAssumption == Credentials \cap (MACs \cup {None}) = {}
ASSUME KnownAssumption ==
    /\ DOMAIN Known \subseteq PDIDs
    /\ \A p, q \in DOMAIN Known : Known[p] \in MACs /\ (Known[p] = Known[q] => p = q)
    /\ \A c \in Proposed : c \in (DOMAIN Known) \X (DOMAIN Known) /\ c[1] # c[2]
    /\ DOMAIN MergedBefore \subseteq PDIDs \ DOMAIN Known
    /\ \A p \in DOMAIN MergedBefore : MergedBefore[p] \in DOMAIN Known
ASSUME BoundsAssumption ==
    /\ MaxDepth \in Nat /\ MaxObservations \in Nat
    /\ MaxRequests \in Nat /\ MaxRestarts \in Nat

Values == MACs \cup Credentials

NoAlias == [is |-> "none"]
Unknown == [is |-> "unknown"]
\* The id is the device the row was inserted for: it stays when the row moves.
Aliases == [id : PDIDs, verified : BOOLEAN, revoked : BOOLEAN]
Activities == [id : OrNone(PDIDs), verified : BOOLEAN, revoked : BOOLEAN]
Statuses == {"none", "pending", "rejected", "confirmed"}

VARIABLES
    db,             \* the tables devices, device_macs, identity_aliases,
                    \* identity_candidates and pdid_redirects
    inv,            \* inventory.Cache
    activity,       \* Engine.aliases
    dirty, batch,   \* Engine.dirtyDevices, and the clones flushDirty will save
    observer,       \* where each provider's goroutine is
    admin,          \* where each request is
    issued,         \* the PDIDs allocated so far
    observations, requests, restarts,   \* counted up to their bounds
    ghosts,         \* history: merged devices that were written back
    overwritten,    \* history: devices whose record or row an older clone replaced
    denied,         \* history: revoked aliases that were not bound since
    disturbed       \* history: devices merged, split or revoked under an observation

memory == <<inv, activity, dirty, batch>>
counters == <<observations, requests, restarts>>
history == <<ghosts, overwritten, denied, disturbed>>
vars == <<db, memory, observer, admin, issued, counters, history>>

Rec(macs, mac, online) ==
    [macs |-> macs, mac |-> mac, ips |-> {}, ip |-> None, name |-> None, host |-> None,
     tier |-> "tentative", infra |-> FALSE, online |-> online, waiting |-> FALSE, age |-> "now"]

Databases ==
    [rows : [PDIDs -> OrNone(MACs) \cup {Absent}],      \* current_mac
     holder : [MACs -> OrNone(PDIDs)],                  \* mac is the primary key
     aliases : [PDIDs \X Values -> Aliases \cup {NoAlias}],
     candidates : [PDIDs \X PDIDs -> Statuses],
     redirects : [PDIDs -> OrNone(PDIDs)]]

Idle == [at |-> "idle"]

\* An observation: the clone as it was read and as it will be written, the
\* signals that are left, and for a new device the target of its candidate.
Observing == [at : {"new", "save", "note", "next"}, device : PDIDs, clone : Records,
              todo : Seq(Values), record : Records, id : OrNone(PDIDs), new : BOOLEAN,
              target : OrNone(PDIDs)]

\* Requests: of an alias, of a candidate, and of a split.
Binding == [at : {"bind"}, alias : PDIDs \X Values, clone : Records]
Bound == [at : {"bound"}, alias : PDIDs \X Values, clone : Records, id : PDIDs]
Revoking == [at : {"revoked"}, alias : PDIDs \X Values, id : PDIDs]
Confirming == [at : {"confirm"}, source : PDIDs, target : PDIDs, from : Records, clone : Records]
Moving == [at : {"merged", "moved"}, source : PDIDs, target : PDIDs, clone : Records,
           record : Records]
Splitting == [at : {"split", "parted", "shrunk"}, device : PDIDs, new : PDIDs, mac : MACs,
              clone : Records, record : Records]
Requesting == Binding \cup Bound \cup Revoking \cup Confirming \cup Moving \cup Splitting

TypeOK ==
    /\ db \in Databases
    /\ inv \in Inventories
    /\ activity \in [PDIDs \X Values -> Activities \cup {Unknown}]
    /\ dirty \subseteq PDIDs
    /\ DOMAIN batch \subseteq PDIDs /\ \A p \in DOMAIN batch : batch[p] \in Records
    /\ observer \in [Observers -> {Idle} \cup Observing]
    /\ admin \in [Admins -> {Idle} \cup Requesting]
    /\ issued \subseteq PDIDs
    /\ observations \in 0 .. MaxObservations
    /\ requests \in 0 .. MaxRequests /\ restarts \in 0 .. MaxRestarts
    /\ ghosts \subseteq PDIDs /\ overwritten \subseteq PDIDs
    /\ denied \subseteq PDIDs \X Values /\ disturbed \subseteq PDIDs

Stored(d) == {p \in PDIDs : d.rows[p] # Absent}
Held(d, p) == {m \in MACs : d.holder[m] = p}
Active(alias) == alias # NoAlias /\ alias.verified /\ ~alias.revoked

-----------------------------------------------------------------------------
(* Storage                                                                 *)

\* saveDeviceTx: a MAC that another device holds is not inserted.
SaveDevice(d, p, r) ==
    [d EXCEPT !.rows[p] = r.mac,
              !.holder = [m \in MACs |->
                  IF m \in r.macs /\ d.holder[m] = None THEN p
                  ELSE IF m \notin r.macs /\ d.holder[m] = p THEN None ELSE d.holder[m]]]

\* Mutant of Resolve: one redirect is followed.
Resolve_Once(d, p) == IF d.redirects[p] = None THEN p ELSE d.redirects[p]

\* ResolvePDID: one that needs more than MaxDepth lookups, or comes back to
\* where it has been, stays as it is.
Resolve(d, p) ==
    LET path[i \in 0 .. MaxDepth] ==
            IF i = 0 THEN p
            ELSE IF path[i - 1] = None THEN None ELSE d.redirects[path[i - 1]]
        ends == {i \in 1 .. MaxDepth : path[i] = None /\ path[i - 1] # None}
    IN IF ends = {} THEN p ELSE path[(CHOOSE i \in ends : TRUE) - 1]

\* Mutant of Conflict: an alias that is already in use is verified again.
Conflict_Unchecked(d, p, v) == FALSE

\* UpsertIdentityAlias: another device keeps a verified alias.
Conflict(d, p, v) == \E q \in PDIDs \ {p} : Active(d.aliases[<<q, v>>])

UpsertAlias(d, p, v, verified) ==
    LET old == d.aliases[<<p, v>>] IN
    [d EXCEPT !.aliases[<<p, v>>] =
        IF old = NoAlias THEN [id |-> p, verified |-> verified, revoked |-> FALSE]
        ELSE [old EXCEPT !.verified = old.verified \/ verified, !.revoked = FALSE]]

\* UpsertIdentityCandidate: a pair that is there keeps its status.
UpsertCandidate(d, s, t) ==
    [d EXCEPT !.candidates[<<s, t>>] = IF @ = "none" THEN "pending" ELSE @]

\* An alias of both devices is verified if one of the two was.
MergedAlias(d, s, t, v) ==
    LET a == d.aliases[<<s, v>>]
        b == d.aliases[<<t, v>>]
    IN IF a = NoAlias THEN b
       ELSE IF b = NoAlias THEN a
       ELSE [b EXCEPT !.verified = @ \/ a.verified]

\* mergeDevicesTx: the MACs of the source go first, for the target's row to
\* have them.
MergeDevices(d, s, t, merged) ==
    LET freed == [d EXCEPT !.holder = [m \in MACs |->
                  IF d.holder[m] = s THEN None ELSE d.holder[m]]]
        saved == SaveDevice(freed, t, merged)
    IN [saved EXCEPT
           !.rows[s] = Absent,
           !.redirects[s] = t,
           !.aliases = [x \in PDIDs \X Values |->
               IF x[1] = t THEN MergedAlias(d, s, t, x[2])
               ELSE IF x[1] = s THEN NoAlias ELSE d.aliases[x]]]

\* Mutant of SplitDevice: the new device is saved first.
SplitDevice_NewFirst(d, p, r, q, s, m) ==
    LET saved == SaveDevice(SaveDevice(d, q, s), p, r)
    IN [saved EXCEPT !.aliases[<<p, m>>] = NoAlias,
                     !.aliases[<<q, m>>] =
                         IF d.aliases[<<p, m>>] = NoAlias THEN NoAlias
                         ELSE [d.aliases[<<p, m>>] EXCEPT !.verified = TRUE, !.revoked = FALSE]]

\* The device that keeps the rest is saved first: the MAC is free when the
\* other one is.  An alias for the MAC goes with it, as verified.
SplitDevice(d, p, r, q, s, m) ==
    LET saved == SaveDevice(SaveDevice(d, p, r), q, s)
    IN [saved EXCEPT !.aliases[<<p, m>>] = NoAlias,
                     !.aliases[<<q, m>>] =
                         IF d.aliases[<<p, m>>] = NoAlias THEN NoAlias
                         ELSE [d.aliases[<<p, m>>] EXCEPT !.verified = TRUE, !.revoked = FALSE]]

FindVerifiedAliasPDIDs(d, v) == {p \in Stored(d) : Active(d.aliases[<<p, v>>])}

-----------------------------------------------------------------------------
\* The database of an earlier run: the devices that were created in it, which
\* of them were proposed to be one, and which were merged, long enough ago for
\* the decision to be forgotten.
Before ==
    [rows |-> [p \in PDIDs |-> IF p \in DOMAIN Known THEN Known[p] ELSE Absent],
     holder |-> [m \in MACs |->
         IF \E p \in DOMAIN Known : Known[p] = m
         THEN CHOOSE p \in DOMAIN Known : Known[p] = m ELSE None],
     aliases |-> [x \in PDIDs \X Values |->
         IF x[1] \in DOMAIN Known /\ Known[x[1]] = x[2]
         THEN [id |-> x[1], verified |-> FALSE, revoked |-> FALSE] ELSE NoAlias],
     candidates |-> [c \in PDIDs \X PDIDs |-> IF c \in Proposed THEN "pending" ELSE "none"],
     redirects |-> [p \in PDIDs |->
         IF p \in DOMAIN MergedBefore THEN MergedBefore[p] ELSE None]]

\* The saved devices that one of them is indexed from; None if there is none.
Indexable(saved) == IF saved = {} THEN {None} ELSE saved

\* LoadHydrate: nobody is online, and of two devices with the same current MAC
\* the last one is indexed.
Hydrations(d) ==
    LET saved == Stored(d) IN
    {[devices |-> [p \in PDIDs |->
                      IF p \in saved THEN Rec(Held(d, p), d.rows[p], FALSE) ELSE Absent],
      byMAC |-> byMAC, byIP |-> Empty.byIP, owners |-> Empty.owners] :
        byMAC \in {index \in [MACs -> OrNone(saved)] :
            \A m \in MACs : index[m] \in Indexable({p \in saved : d.rows[p] = m})}}

\* loadIdentityAliasActivity
Loaded(d) ==
    [x \in PDIDs \X Values |-> IF d.aliases[x] = NoAlias THEN Unknown ELSE d.aliases[x]]

NoBatch == [p \in {} |-> Absent]

Init ==
    /\ db = Before
    /\ inv \in Hydrations(db)
    /\ activity = Loaded(db)
    /\ dirty = {} /\ batch = NoBatch
    /\ observer = [o \in Observers |-> Idle]
    /\ admin = [a \in Admins |-> Idle]
    /\ issued = DOMAIN Known \cup DOMAIN MergedBefore
    /\ observations = 0 /\ requests = 0 /\ restarts = 0
    /\ ghosts = {} /\ overwritten = {} /\ denied = {} /\ disturbed = {}

Merged == {p \in PDIDs : db.redirects[p] # None}

\* History: the clone is written although the device has been merged, or
\* although its record is another one by now.
WrittenBack(p) == ghosts' = ghosts \cup ({p} \cap Merged)
Replaces(p, clone) ==
    overwritten' = overwritten \cup (IF inv.devices[p] = clone THEN {} ELSE {p})

\* History: the row was written by a merge or a split which the record is yet
\* to follow, or the record is another one than the clone that is stored.
RowIsAhead(p) ==
    \E a \in Admins :
        \/ admin[a].at \in {"merged", "moved"} /\ p = admin[a].target
        \/ admin[a].at = "parted" /\ p = admin[a].device
Older(p, clone) == inv.devices[p] # clone \/ RowIsAhead(p)
Stores(p, clone) == overwritten' = overwritten \cup {q \in {p} : Older(q, clone)}

-----------------------------------------------------------------------------
(* processObservation and recordIdentitySignals                            *)

\* resolveVerifiedObservation: the one device that has a verified alias for
\* the MAC or the credential, unless it is not in the cache.
Owners(m, cred) ==
    UNION {FindVerifiedAliasPDIDs(db, v) : v \in {m, cred} \ {None}}
Lookup(m, cred) ==
    IF \E p \in Cached(inv) : Owners(m, cred) = {p}
    THEN CHOOSE p \in Cached(inv) : Owners(m, cred) = {p} ELSE inv.byMAC[m]

Signals(m, cred) == IF cred = None THEN <<m>> ELSE <<m, cred>>

\* A device that is known: the clone gets the MAC, which only a verified one lacks.
Observe(o, m, cred, on) ==
    LET p == Lookup(m, cred)
        r == inv.devices[p]
    IN /\ observer[o] = Idle
       /\ observations < MaxObservations
       /\ p # None
       /\ observations' = observations + 1
       /\ observer' = [observer EXCEPT ![o] =
              [at |-> "next", device |-> p, clone |-> r, todo |-> Signals(m, cred),
               record |-> Rec(r.macs \cup {m}, m, r.online \/ on), id |-> None,
               new |-> FALSE, target |-> None]]
       /\ UNCHANGED <<db, memory, admin, issued, requests, restarts, history>>

\* A new device, a candidate for being the one that has its address so far.
Create(o, m, cred, on, target) ==
    /\ observer[o] = Idle
    /\ observations < MaxObservations
    /\ Lookup(m, cred) = None
    /\ observations' = observations + 1
    /\ \E p \in PDIDs \ issued :
          LET r == Rec({m}, m, on) IN
          /\ issued' = issued \cup {p}
          /\ inv' = Upsert(inv, p, r)
          /\ observer' = [observer EXCEPT ![o] =
                 [at |-> "new", device |-> p, clone |-> r, todo |-> Signals(m, cred),
                  record |-> r, id |-> None, new |-> TRUE, target |-> target]]
    /\ dirty' = dirty \cup ({target} \ {None})
    /\ UNCHANGED <<db, activity, batch, admin, requests, restarts, history>>

\* SaveDevice; a failure takes the device out of the cache again.
Persist(o) ==
    /\ observer[o].at = "new"
    /\ db' = SaveDevice(db, observer[o].device, observer[o].clone)
    /\ observer' = [observer EXCEPT ![o].at = "next"]
    /\ Stores(observer[o].device, observer[o].clone)
    /\ UNCHANGED <<memory, admin, issued, counters, ghosts, denied, disturbed>>

\* History: what has been written to the record since goes with it.
PersistFails(o) ==
    /\ observer[o].at = "new"
    /\ inv' = Delete(inv, observer[o].device)
    /\ observer' = [observer EXCEPT ![o] = Idle]
    /\ overwritten' = overwritten \cup ({observer[o].device} \cap (dirty \cup DOMAIN batch))
    /\ UNCHANGED <<db, activity, dirty, batch, admin, issued, counters, ghosts, denied, disturbed>>

\* Mutant of MaterialChange: an alias that was revoked is noted again.
MaterialChange_Revoked(known, verified, higher) ==
    known = Unknown \/ known.revoked \/ ((verified \/ higher) /\ ~known.verified)

\* materialChanged: a passive signal may be more confident than those before.
MaterialChange(known, verified, higher) ==
    known = Unknown \/ (~known.revoked /\ (verified \/ higher) /\ ~known.verified)

\* One signal of recordIdentitySignals: what the index in memory says of it.
Check(o, higher) ==
    LET job == observer[o]
        x == <<job.device, Head(job.todo)>>
        known == activity[x]
    IN /\ job.at = "next" /\ job.todo # <<>>
       /\ activity' = [activity EXCEPT ![x] =
              IF @ = Unknown THEN [id |-> None, verified |-> FALSE, revoked |-> FALSE] ELSE @]
       /\ IF MaterialChange(known, x[2] \in Credentials, higher)
          THEN /\ observer' = [observer EXCEPT ![o].at = "save"]
               /\ disturbed' = disturbed \cup
                      {p \in {job.device} : \E a \in Admins :
                          admin[a].at = "revoked" /\ admin[a].alias = x}
          ELSE observer' = [observer EXCEPT ![o].todo = Tail(@)] /\ UNCHANGED disturbed
       /\ UNCHANGED <<db, inv, dirty, batch, admin, issued, counters, ghosts, overwritten, denied>>

Skip(o) == observer' = [observer EXCEPT ![o].at = "next", ![o].todo = Tail(@)]

\* A verified signal may be another device's, and the database may fail.
Save(o) ==
    LET job == observer[o]
        v == Head(job.todo)
    IN /\ job.at = "save"
       /\ \/ /\ ~(v \in Credentials /\ Conflict(db, job.device, v))
             /\ db' = UpsertAlias(db, job.device, v, v \in Credentials)
             /\ observer' = [observer EXCEPT
                    ![o].at = "note", ![o].id = db'.aliases[<<job.device, v>>].id]
          \/ Skip(o) /\ UNCHANGED db
       /\ UNCHANGED <<memory, admin, issued, counters, history>>

Note(o) ==
    LET x == <<observer[o].device, Head(observer[o].todo)>>
    IN /\ observer[o].at = "note"
       /\ activity' = [activity EXCEPT ![x] =
              [id |-> observer[o].id, verified |-> @.verified \/ x[2] \in Credentials,
               revoked |-> FALSE]]
       /\ Skip(o)
       /\ UNCHANGED <<db, inv, dirty, batch, admin, issued, counters, history>>

\* The end of a new device: the candidate.
Propose(o) ==
    LET job == observer[o] IN
    /\ job.at = "next" /\ job.todo = <<>> /\ job.new
    /\ db' = IF job.target = None THEN db ELSE UpsertCandidate(db, job.device, job.target)
    /\ observer' = [observer EXCEPT ![o] = Idle]
    /\ UNCHANGED <<memory, admin, issued, counters, history>>

\* The end of any other: the clone is written back, and marked if it has a new
\* MAC or another current one.
Write(o) ==
    LET job == observer[o]
        p == job.device
    IN /\ job.at = "next" /\ job.todo = <<>> /\ ~job.new
       /\ inv' = Upsert(inv, p, job.record)
       /\ dirty' = IF job.record.macs # job.clone.macs \/ job.record.mac # job.clone.mac
                   THEN dirty \cup {p} ELSE dirty
       /\ WrittenBack(p)
       /\ Replaces(p, job.clone)
       /\ observer' = [observer EXCEPT ![o] = Idle]
       /\ UNCHANGED <<db, activity, batch, admin, issued, counters, denied, disturbed>>

\* The sweep: the devices that have been quiet go offline.
DemoteQuiet ==
    /\ \E quiet \in SUBSET Cached(inv) :
          inv' = [inv EXCEPT !.devices = [p \in PDIDs |->
                     IF p \in quiet THEN [inv.devices[p] EXCEPT !.online = FALSE]
                     ELSE inv.devices[p]]]
    /\ UNCHANGED <<db, activity, dirty, batch, observer, admin, issued, counters, history>>

\* flushDirty
FlushTake ==
    /\ dirty # {} /\ DOMAIN batch = {}
    /\ batch' = [p \in dirty \cap Cached(inv) |-> inv.devices[p]]
    /\ dirty' = {}
    /\ UNCHANGED <<db, inv, activity, observer, admin, issued, counters, history>>

\* SaveDevicesBatch: one transaction, the devices in the order of a map.
SavedAll(order) ==
    LET saved[i \in 0 .. Len(order)] ==
            IF i = 0 THEN db ELSE SaveDevice(saved[i - 1], order[i], batch[order[i]])
    IN saved[Len(order)]

Orders(S) ==
    {s \in [1 .. Cardinality(S) -> S] : \A i, j \in DOMAIN s : s[i] = s[j] => i = j}

\* History: the clone is older and will not be saved again, or has a MAC that
\* was split off since.
Outdated(p) ==
    \/ RowIsAhead(p)
    \/ p \notin dirty /\ batch[p] # inv.devices[p]
    \/ p \notin Cached(inv) \/ ~(batch[p].macs \subseteq inv.devices[p].macs)

FlushSave ==
    /\ DOMAIN batch # {}
    /\ \E order \in Orders(DOMAIN batch) : db' = SavedAll(order)
    /\ batch' = NoBatch
    /\ ghosts' = ghosts \cup (DOMAIN batch \cap Merged)
    /\ overwritten' = overwritten \cup {p \in DOMAIN batch : Outdated(p)}
    /\ UNCHANGED <<inv, activity, dirty, observer, admin, issued, counters, denied, disturbed>>

FlushFails ==
    /\ DOMAIN batch # {}
    /\ dirty' = dirty \cup DOMAIN batch
    /\ batch' = NoBatch
    /\ UNCHANGED <<db, inv, activity, observer, admin, issued, counters, history>>

-----------------------------------------------------------------------------
(* BindIdentityAlias, RevokeIdentityAlias                                  *)

Request(a) ==
    /\ admin[a] = Idle
    /\ requests < MaxRequests
    /\ requests' = requests + 1

Goto(a, job) == admin' = [admin EXCEPT ![a] = job]
Finish(a) == Goto(a, Idle)

BindTake(a, q, v) ==
    LET p == Resolve(db, q) IN
    /\ Request(a)
    /\ p \in Cached(inv)
    /\ Goto(a, [at |-> "bind", alias |-> <<p, v>>, clone |-> inv.devices[p]])
    /\ UNCHANGED <<db, memory, observer, issued, observations, restarts, history>>

Bind(a) ==
    LET x == admin[a].alias IN
    /\ admin[a].at = "bind"
    /\ IF Conflict(db, x[1], x[2])
       THEN Finish(a) /\ UNCHANGED <<db, denied>>
       ELSE /\ db' = UpsertAlias(db, x[1], x[2], TRUE)
            /\ Goto(a, [at |-> "bound", alias |-> x, clone |-> admin[a].clone,
                        id |-> db'.aliases[x].id])
            /\ denied' = denied \ {x}
    /\ UNCHANGED <<memory, observer, issued, counters, ghosts, overwritten, disturbed>>

\* The index in memory, and the clone with its assurance back to the cache.
BindNote(a) ==
    LET x == admin[a].alias IN
    /\ admin[a].at = "bound"
    /\ activity' = [activity EXCEPT ![x] =
           [id |-> admin[a].id, verified |-> TRUE, revoked |-> FALSE]]
    /\ inv' = Upsert(inv, x[1], admin[a].clone)
    /\ dirty' = dirty \cup {x[1]}
    /\ WrittenBack(x[1])
    /\ Replaces(x[1], admin[a].clone)
    /\ Finish(a)
    /\ UNCHANGED <<db, batch, observer, issued, counters, denied, disturbed>>

\* History: an observation that has looked the alias up before it is revoked,
\* or a bind that the index in memory is yet to follow.
Underway(x) ==
    \/ \E o \in Observers : /\ observer[o].at \in {"save", "note"}
                            /\ <<observer[o].device, Head(observer[o].todo)>> = x
    \/ \E a \in Admins : admin[a].at = "bound" /\ admin[a].alias = x

Revoke(a, q, v) ==
    LET x == <<Resolve(db, q), v>> IN
    /\ Request(a)
    /\ x[1] \in Stored(db) /\ db.aliases[x] # NoAlias
    /\ db' = [db EXCEPT !.aliases[x].revoked = TRUE]
    /\ Goto(a, [at |-> "revoked", alias |-> x, id |-> db.aliases[x].id])
    /\ denied' = denied \cup {x}
    /\ disturbed' = IF Underway(x) THEN disturbed \cup {x[1]} ELSE disturbed
    /\ UNCHANGED <<memory, observer, issued, observations, restarts, ghosts, overwritten>>

\* One entry with the id of the row, which of them is up to the map.
RevokeNote(a) ==
    LET v == admin[a].alias[2]
        entries == {p \in PDIDs : LET entry == activity[<<p, v>>] IN
                                      entry # Unknown /\ entry.id = admin[a].id}
    IN /\ admin[a].at = "revoked"
       /\ IF entries = {} THEN UNCHANGED activity
          ELSE \E p \in entries : activity' = [activity EXCEPT ![<<p, v>>].revoked = TRUE]
       /\ Finish(a)
       /\ UNCHANGED <<db, inv, dirty, batch, observer, issued, counters, history>>

-----------------------------------------------------------------------------
(* Candidates                                                              *)

\* identityMu
Deciding == \E a \in Admins : admin[a].at \in {"confirm", "merged", "moved"}

Decide(c, from, to) ==
    /\ ~Deciding
    /\ db.candidates[c] = from
    /\ db' = [db EXCEPT !.candidates[c] = to]

Reject(a, c) ==
    /\ Request(a)
    /\ Decide(c, "pending", "rejected")
    /\ UNCHANGED <<memory, observer, admin, issued, observations, restarts, history>>

Reopen(a, c) ==
    /\ Request(a)
    /\ Decide(c, "rejected", "pending")
    /\ UNCHANGED <<memory, observer, admin, issued, observations, restarts, history>>

\* pendingEventsRetentionLoop: a decision is forgotten after 30 days.
Forget(c) ==
    /\ db.candidates[c] \in {"rejected", "confirmed"}
    /\ db' = [db EXCEPT !.candidates[c] = "none"]
    /\ UNCHANGED <<memory, observer, admin, issued, counters, history>>

Mergeable(s, t) ==
    /\ {s, t} \subseteq Cached(inv)
    /\ ~(inv.devices[s].online /\ inv.devices[t].online)

ConfirmTake(a, c) ==
    /\ Request(a)
    /\ ~Deciding
    /\ db.candidates[c] = "pending"
    /\ Mergeable(c[1], c[2])
    /\ Goto(a, [at |-> "confirm", source |-> c[1], target |-> c[2],
                from |-> inv.devices[c[1]], clone |-> inv.devices[c[2]]])
    /\ UNCHANGED <<db, memory, observer, issued, observations, restarts, history>>

\* mergeDeviceData: the MACs of the source are added one by one, so that the
\* last of them is the current one of the target.
MergedData(source, target) ==
    IF source.macs = {} THEN {target}
    ELSE {Rec(source.macs \cup target.macs, m, target.online) : m \in source.macs}

\* Mutant of ConfirmIdentityCandidateMerge: the decision is not part of the
\* transaction.
ConfirmIdentityCandidateMerge_Undecided(d, s, t, merged) == MergeDevices(d, s, t, merged)

\* The decision and the merge are one transaction.
ConfirmIdentityCandidateMerge(d, s, t, merged) ==
    [MergeDevices(d, s, t, merged) EXCEPT !.candidates[<<s, t>>] = "confirmed"]

\* The transaction, or its failure.
Confirm(a) ==
    LET job == admin[a]
        s == job.source
        t == job.target
        renamed == {IF x[1] = s THEN <<t, x[2]>> ELSE x : x \in denied}
    IN /\ job.at = "confirm"
       /\ \/ \E merged \in MergedData(job.from, job.clone) :
                /\ db' = ConfirmIdentityCandidateMerge(db, s, t, merged)
                /\ Goto(a, [at |-> "merged", source |-> s, target |-> t,
                            clone |-> job.clone, record |-> merged])
                /\ denied' = {x \in renamed : db'.aliases[x] # NoAlias /\ db'.aliases[x].revoked}
                /\ disturbed' = disturbed \cup {s, t}
                /\ overwritten' = overwritten
                       \cup {p \in {s} : Older(p, job.from)} \cup {p \in {t} : Older(p, job.clone)}
          \/ Finish(a) /\ UNCHANGED <<db, denied, disturbed, overwritten>>
       /\ UNCHANGED <<memory, observer, issued, counters, ghosts>>

\* Mutant of ConfirmDelete: the source stays in the cache.
ConfirmDelete_Kept(a) ==
    /\ admin[a].at = "merged"
    /\ Goto(a, [admin[a] EXCEPT !.at = "moved"])
    /\ UNCHANGED <<db, memory, observer, issued, counters, history>>

ConfirmDelete(a) ==
    /\ admin[a].at = "merged"
    /\ inv' = Delete(inv, admin[a].source)
    /\ Goto(a, [admin[a] EXCEPT !.at = "moved"])
    /\ UNCHANGED <<db, activity, dirty, batch, observer, issued, counters, history>>

ConfirmUpsert(a) ==
    LET t == admin[a].target IN
    /\ admin[a].at = "moved"
    /\ inv' = Upsert(inv, t, admin[a].record)
    /\ WrittenBack(t)
    /\ Replaces(t, admin[a].clone)
    /\ Finish(a)
    /\ UNCHANGED <<db, activity, dirty, batch, observer, issued, counters, denied, disturbed>>

-----------------------------------------------------------------------------
(* SplitIdentity                                                           *)

\* The device without the MAC; its first other MAC becomes the current one.
Remaining(r, m) ==
    IF r.mac # m THEN {Rec(r.macs \ {m}, r.mac, r.online)}
    ELSE {Rec(r.macs \ {m}, other, r.online) : other \in r.macs \ {m}}

SplitTake(a, q, m) ==
    LET p == Resolve(db, q)
        r == inv.devices[p]
    IN /\ Request(a)
       /\ p \in Cached(inv)
       /\ m \in r.macs /\ Cardinality(r.macs) >= 2
       /\ \E new \in PDIDs \ issued, rest \in Remaining(r, m) :
             /\ issued' = issued \cup {new}
             /\ Goto(a, [at |-> "split", device |-> p, new |-> new, mac |-> m,
                         clone |-> r, record |-> rest])
       /\ UNCHANGED <<db, memory, observer, observations, restarts, history>>

Split(a) ==
    LET job == admin[a]
        x == <<job.device, job.mac>>
    IN /\ job.at = "split"
       /\ \/ /\ db' = SplitDevice(db, job.device, job.record, job.new,
                                  Rec({job.mac}, job.mac, FALSE), job.mac)
             /\ Goto(a, [job EXCEPT !.at = "parted"])
             /\ WrittenBack(job.device)
             /\ Stores(job.device, job.clone)
             /\ denied' = denied \ {x}
             /\ disturbed' = disturbed \cup {job.device, job.new}
          \/ Finish(a) /\ UNCHANGED <<db, history>>
       /\ UNCHANGED <<memory, observer, issued, counters>>

SplitUpsert(a) ==
    LET p == admin[a].device IN
    /\ admin[a].at = "parted"
    /\ inv' = Upsert(inv, p, admin[a].record)
    /\ WrittenBack(p)
    /\ Replaces(p, admin[a].clone)
    /\ Goto(a, [admin[a] EXCEPT !.at = "shrunk"])
    /\ UNCHANGED <<db, activity, dirty, batch, observer, issued, counters, denied, disturbed>>

SplitAdd(a) ==
    LET job == admin[a] IN
    /\ job.at = "shrunk"
    /\ inv' = Upsert(inv, job.new, Rec({job.mac}, job.mac, FALSE))
    /\ Finish(a)
    /\ UNCHANGED <<db, activity, dirty, batch, observer, issued, counters, history>>

-----------------------------------------------------------------------------
(* Restart                                                                 *)

Restart ==
    /\ restarts < MaxRestarts
    /\ restarts' = restarts + 1
    /\ inv' \in Hydrations(db)
    /\ activity' = Loaded(db)
    /\ dirty' = {} /\ batch' = NoBatch
    /\ observer' = [o \in Observers |-> Idle]
    /\ admin' = [a \in Admins |-> Idle]
    /\ overwritten' = {}
    /\ UNCHANGED <<db, issued, observations, requests, ghosts, denied, disturbed>>

ObserverStep(o) ==
    \/ Persist(o) \/ PersistFails(o) \/ (\E higher \in BOOLEAN : Check(o, higher))
    \/ Save(o) \/ Note(o) \/ Propose(o) \/ Write(o)

AdminStep(a) ==
    \/ Bind(a) \/ BindNote(a) \/ RevokeNote(a)
    \/ Confirm(a) \/ ConfirmDelete(a) \/ ConfirmUpsert(a)
    \/ Split(a) \/ SplitUpsert(a) \/ SplitAdd(a)

Next ==
    \/ \E o \in Observers :
          \/ \E m \in MACs, cred \in OrNone(Credentials), on \in BOOLEAN :
                \/ Observe(o, m, cred, on)
                \/ \E target \in OrNone(Cached(inv)) : Create(o, m, cred, on, target)
          \/ ObserverStep(o)
    \/ DemoteQuiet \/ FlushTake \/ FlushSave \/ FlushFails
    \/ \E a \in Admins :
          \/ \E q \in issued, v \in Values : BindTake(a, q, v) \/ Revoke(a, q, v)
          \/ \E c \in issued \X issued : Reject(a, c) \/ Reopen(a, c) \/ ConfirmTake(a, c)
          \/ \E q \in issued, m \in MACs : SplitTake(a, q, m)
          \/ AdminStep(a)
    \/ \E c \in issued \X issued : Forget(c)
    \/ Restart

Spec == Init /\ [][Next]_vars

-----------------------------------------------------------------------------
(* Properties                                                              *)

\* Where a merge is between its transaction and the cache.
Merging(p) == \E a \in Admins : admin[a].at = "merged" /\ admin[a].source = p

\* A decision and its merge stand or fall together (ConfirmIdentityCandidateMerge,
\* SQLite): the source of a confirmed candidate is gone from the database and
\* redirected to the target, and that of an open one is not.  A source that a
\* clone of it was written back for is not gone.
DecisionIsMerge ==
    \A s \in PDIDs \ ghosts : \A t \in PDIDs :
        /\ db.candidates[<<s, t>>] = "confirmed" => db.redirects[s] = t /\ s \notin Stored(db)
        /\ db.redirects[s] = t => db.candidates[<<s, t>>] \in {"confirmed", "none"}

\* A merged device is neither listed nor loaded again (cache.Delete in
\* ConfirmIdentityCandidate, DELETE FROM devices), except while its merge is on
\* the way to the cache, and if a clone of it was written back.
MergedIsGone ==
    \A p \in Merged \ ghosts : p \notin Stored(db) /\ (p \in Cached(inv) => Merging(p))

\* Whatever is merged in which order, the PDID of a merged device leads to a
\* device that is in the database, if it takes fewer redirects than
\* ResolvePDID follows (ResolvePDID, mergeDevicesTx).
Redirects(p) ==
    LET path[i \in 0 .. Cardinality(PDIDs)] ==
            IF i = 0 THEN p
            ELSE IF path[i - 1] = None THEN None ELSE db.redirects[path[i - 1]]
    IN Cardinality({i \in 1 .. Cardinality(PDIDs) : path[i] # None})

RedirectsLead ==
    ghosts = {} => \A p \in Merged : Redirects(p) < MaxDepth => Resolve(db, p) \in Stored(db)

\* Where the row of a device is still to follow its record, or the record the row.
Unsettled ==
    dirty \cup DOMAIN batch
    \cup {observer[o].device : o \in {o \in Observers : observer[o].at = "new"}}
    \cup {p \in PDIDs : \E a \in Admins :
             \/ admin[a].at \in {"merged", "moved"} /\ p = admin[a].target
             \/ admin[a].at \in {"merged", "moved"} /\ p = admin[a].source
             \/ admin[a].at \in {"parted", "shrunk"} /\ p \in {admin[a].device, admin[a].new}}

\* No MAC is lost in the database by a merge or a split, where one device has to
\* give it up before the other can have it (mergeDevicesTx, SplitDevice, INSERT
\* OR IGNORE INTO device_macs), unless an older clone was written over a newer
\* record or row.
MACsAreStored ==
    overwritten \cup ghosts = {} =>
        \A m \in MACs :
            LET with == {p \in Cached(inv) : m \in inv.devices[p].macs} IN
            with # {} /\ with \cap Unsettled = {} => db.holder[m] # None

\* A revoked alias stays revoked until it is bound again, however often it is
\* observed and also after a restart (recordIdentitySignals,
\* RevokeIdentityAlias, loadIdentityAliasActivity).  The exceptions are an alias
\* of a device that was merged or split, and an observation that had looked
\* it up before it was revoked.
RevokedStaysRevoked ==
    \A x \in denied : x[1] \notin disturbed => db.aliases[x].revoked

\* A verified alias belongs to one device (UpsertIdentityAlias), unless a
\* device with it was merged or split, or revoked under an observation.
OneVerifiedOwner ==
    \A v \in Values : \A p, q \in PDIDs \ disturbed :
        Active(db.aliases[<<p, v>>]) /\ Active(db.aliases[<<q, v>>]) => p = q
=============================================================================
