--------------------------- MODULE Administration ---------------------------
(* The management API of LIAS: the handlers that create, change and delete  *)
(* users, tags, policies, schedules and the settings of a device, and       *)
(* Snapshot, from which the dashboard reads everything at once under an     *)
(* ETag.                                                                    *)
(*                                                                          *)
(* A handler keeps what it writes twice, in an engine (here: memory) and in *)
(* the database (store), and then bumps the revision the ETag is made of.   *)
(* Each of these locks, nothing locks them together, and two requests or a  *)
(* snapshot come in between.  Users, names and owners are stored first and  *)
(* remembered after; tags, policies, schedules and the tags of a device the *)
(* other way round.  Names, owners and tags of a device live in the cache,  *)
(* which bumps the revision itself while it holds its lock.                 *)
(*                                                                          *)
(* The value of an object is the number of the request that wrote it, 0 for *)
(* one of an earlier run; an owner is a user.  A request that its validation refuses changes nothing  *)
(* and is not modelled.  The database is there: without one (memory-only    *)
(* mode) the steps on it are skipped.                                       *)
EXTENDS Integers, Sequences, FiniteSets

CONSTANTS
    Users, Tags, Policies, Schedules, Devices,
    Global,         \* the policy global_default
    Handlers,       \* HTTP requests that can be served at a time
    None,           \* no such object
    Preset,         \* what a start makes up: global_default, a tag that is only carried
    Kept,           \* the rows an earlier run may have left
    MaxRequests,    \* bound on the requests
    MaxFaults       \* bound on the writes that fail and the restarts

ASSUME ConstantsAssumption ==
    /\ Global \in Policies
    /\ MaxRequests \in Nat /\ MaxFaults \in Nat
    /\ None \notin Users \cup Nat /\ Preset \notin Users \cup Nat /\ None # Preset

Object(kind, ids) == {kind} \X ids
Cached == Object("name", Devices) \cup Object("tag of", Devices) \cup Object("owner", Devices)
Objects == Cached \cup Object("tag", Tags) \cup Object("policy", Policies)
              \cup Object("schedule", Schedules) \cup Object("user", Users)
Kind(o) == o[1]
Values == Users \cup 0 .. MaxRequests \cup {None, Preset}
Rows == [Objects -> Values \ {Preset}]

\* The rows assign devices to users, and to users who are there.
Consistent(rows) == \A d \in Devices :
    LET u == rows[<<"owner", d>>] IN
    u # None => u \in Users /\ rows[<<"user", u>>] # None

\* What an earlier run has left is what the statements of this one leave.
ASSUME KeptAssumption == \A rows \in Kept : rows \in Rows /\ Consistent(rows)

VARIABLES
    memory,     \* the cache, tags.Manager, policy.Engine, schedule.Engine, Handlers.users
    store,      \* the rows of the database
    revision,   \* Cache.revision
    request,    \* per handler: its next step, what it writes and where
    client,     \* the snapshot being read: the revision, the objects
    got,        \* the last snapshot the client received
    issued, failures, restarts,     \* counted against the bounds
    torn,       \* objects two requests wrote at a time, or whose write failed
    silent      \* objects of requests that failed between memory and bump, until a bump

bookkeeping == <<issued, failures, restarts, torn, silent>>
vars == <<memory, store, revision, request, client, got, bookkeeping>>

Idle == [at |-> "done", objects |-> {}, left |-> {}, value |-> None]
\* What an ETag "rev-N" is worth: the run of the program that gave it is not in it.
NoSnapshot == [revision |-> 0, run |-> 0, content |-> [o \in Objects |-> None]]
NotReading == [revision |-> 0, attempt |-> 0, next |-> 1, content |-> [o \in Objects |-> None]]

\* The kinds of objects Snapshot reads, in its order.
Reads == <<{"name", "tag of", "owner"}, {"tag"}, {"policy"}, {"schedule"}, {"user"}>>

Requests == [at : {"done", "save", "remember", "persist", "toggle", "bump"},
             objects : SUBSET Objects, left : SUBSET Objects, value : Values]

Readings == [revision : Nat, attempt : 0 .. 3, next : 1 .. 6, content : [Objects -> Values]]

TypeOK ==
    /\ memory \in [Objects -> Values]
    /\ store \in Rows
    /\ revision \in Nat \ 0 .. 2
    /\ request \in [Handlers -> Requests]
    /\ client \in Readings
    /\ got \in [revision : Nat, run : 0 .. MaxFaults, content : [Objects -> Values]]
    /\ issued \in 0 .. MaxRequests 
    /\ {failures, restarts} \subseteq 0 .. MaxFaults
    /\ torn \subseteq Objects /\ silent \subseteq Objects

Busy == {h \in Handlers : request[h].at # "done"}
Written(f, objects, value) == [o \in Objects |-> IF o \in objects THEN value ELSE f[o]]

\* Changed in memory, and the revision does not tell yet.
Unannounced ==
    silent \cup UNION {LET r == request[h] IN IF r.at = "remember" THEN r.objects \ r.left
                                             ELSE IF r.at = "save" THEN {} ELSE r.objects
                       : h \in Handlers}

-----------------------------------------------------------------------------
\* A request reaches its first step that changes something.
Begin(h, step, objects, value) ==
    /\ request[h].at = "done"
    /\ issued < MaxRequests
    /\ issued' = issued + 1
    /\ request' = [request EXCEPT ![h] =
                      [at |-> step, objects |-> objects, left |-> objects, value |-> value]]
    /\ torn' = torn \cup (objects \cap UNION {request[g].objects : g \in Handlers})
    /\ UNCHANGED <<failures, restarts, silent>>

\* ... which is in the database,
StoreFirst(h, o, value) ==
    /\ Begin(h, "save", {o}, value)
    /\ UNCHANGED <<memory, store, revision, client, got>>

\* ... or in memory: the database comes next.
MemoryFirst(h, o, value, step) ==
    /\ Begin(h, step, {o}, value)
    /\ memory' = Written(memory, {o}, value)
    /\ revision' = IF o \in Cached THEN revision + 1 ELSE revision
    /\ UNCHANGED <<store, client, got>>

New == issued + 1

CreateUser(h, u) == StoreFirst(h, <<"user", u>>, New)
UpdateUser(h, u) == memory[<<"user", u>>] # None /\ StoreFirst(h, <<"user", u>>, New)

\* It is looked up, and no device in the cache may be assigned to it.
DeleteUser(h, u) ==
    /\ memory[<<"user", u>>] # None
    /\ \A d \in Devices : memory[<<"owner", d>>] # u
    /\ StoreFirst(h, <<"user", u>>, None)

AssignDeviceUser(h, d, u) ==
    /\ memory[<<"user", u>>] # None
    /\ StoreFirst(h, <<"owner", d>>, u)

UnassignDeviceUser(h, d) == StoreFirst(h, <<"owner", d>>, None)
RenameDevice(h, d) == StoreFirst(h, <<"name", d>>, New)

\* The device takes the custom tag, or none but generic.
AssignDeviceTag(h, d) == \E v \in {New, None} : MemoryFirst(h, <<"tag of", d>>, v, "persist")

CreateTag(h, t) == memory[<<"tag", t>>] = None /\ MemoryFirst(h, <<"tag", t>>, New, "persist")
UpdateTag(h, t) == memory[<<"tag", t>>] # None /\ MemoryFirst(h, <<"tag", t>>, New, "persist")
DeleteTag(h, t) == memory[<<"tag", t>>] # None /\ MemoryFirst(h, <<"tag", t>>, None, "persist")

\* CreatePolicy replaces a policy of the same ID, UpdatePolicy creates one.
PutPolicy(h, p) == MemoryFirst(h, <<"policy", p>>, New, "persist")
DeletePolicy(h, p) == MemoryFirst(h, <<"policy", p>>, None, "persist")

\* Mutant of DeleteSchedule: the row is not deleted.
DeleteSchedule_Kept(h, s) == MemoryFirst(h, <<"schedule", s>>, None, "bump")

PutSchedule(h, s) == MemoryFirst(h, <<"schedule", s>>, New, "persist")
DeleteSchedule(h, s) == MemoryFirst(h, <<"schedule", s>>, None, "persist")

\* The vacation switch; whether it could be saved is not looked at.
ToggleVacationMode(h) == MemoryFirst(h, <<"policy", Global>>, New, "toggle")

\* One transaction for all of them, then one policy after the other.
ImportPolicies(h) ==
    /\ Begin(h, "save", Object("policy", Policies), New)
    /\ UNCHANGED <<memory, store, revision, client, got>>

-----------------------------------------------------------------------------
\* Mutant of Accepts: DeleteUser in the place of DeleteUserIfUnassigned.
Accepts_Assigned(o, value) ==
    CASE Kind(o) = "user" /\ value = None -> store[o] # None
      [] Kind(o) = "owner" /\ value # None -> store[<<"user", value>>] # None
      [] OTHER -> TRUE

\* Mutant of Accepts: the owner is inserted without SELECT ... FROM users.
Accepts_AnyUser(o, value) ==
    CASE Kind(o) = "user" /\ value = None ->
            store[o] # None /\ \A d \in Devices : store[<<"owner", d>>] # o[2]
      [] OTHER -> TRUE

\* DeleteUserIfUnassigned and AssignDeviceToUser decide in the statement that
\* writes.
Accepts(o, value) ==
    CASE Kind(o) = "user" /\ value = None ->
            store[o] # None /\ \A d \in Devices : store[<<"owner", d>>] # o[2]
      [] Kind(o) = "owner" /\ value # None -> store[<<"user", value>>] # None
      [] OTHER -> TRUE

Goto(h, step) == request' = [request EXCEPT ![h].at = step]
End(h) == request' = [request EXCEPT ![h] = Idle]

\* SaveUser, DeleteUserIfUnassigned, AssignDeviceToUser, UnassignDeviceUser,
\* SaveDeviceOverride, ImportPolicies.
Save(h) ==
    LET r == request[h] IN
    /\ r.at = "save"
    /\ \A o \in r.objects : Accepts(o, r.value)
    /\ store' = Written(store, r.objects, r.value)
    /\ Goto(h, "remember")
    /\ UNCHANGED <<memory, revision, client, got, bookkeeping>>

\* The database refuses, or fails: an error is answered and nothing has changed.
Refused(h) ==
    LET r == request[h] IN
    /\ r.at = "save"
    /\ \/ /\ \E o \in r.objects : ~Accepts(o, r.value)
          /\ UNCHANGED failures
       \/ /\ failures + restarts < MaxFaults
          /\ failures' = failures + 1
    /\ End(h)
    /\ UNCHANGED <<memory, store, revision, client, got, issued, restarts, torn, silent>>

\* The same in memory, one object at a time.
Remember(h) ==
    LET r == request[h] IN
    /\ r.at = "remember"
    /\ \E o \in r.left :
          /\ memory' = Written(memory, {o}, r.value)
          /\ revision' = IF o \in Cached THEN revision + 1 ELSE revision
          /\ silent' = IF o \in Cached THEN {} ELSE silent
          /\ request' = [request EXCEPT ![h].left = @ \ {o},
                                        ![h].at = IF r.left = {o} THEN "bump" ELSE @]
    /\ UNCHANGED <<store, client, got, issued, failures, restarts, torn>>

\* SaveTag, SavePolicy, SaveSchedule, SaveDeviceTags and their deletes.
Persist(h) ==
    LET r == request[h] IN
    /\ r.at \in {"persist", "toggle"}
    /\ store' = Written(store, r.objects, r.value)
    /\ Goto(h, "bump")
    /\ UNCHANGED <<memory, revision, client, got, bookkeeping>>

\* When they fail the engine keeps the change and the handler returns before
\* tryTrigger; ToggleVacationMode goes on.
PersistFails(h) ==
    LET r == request[h] IN
    /\ r.at \in {"persist", "toggle"}
    /\ failures + restarts < MaxFaults
    /\ failures' = failures + 1
    /\ torn' = torn \cup r.objects
    /\ \/ r.at = "toggle" /\ Goto(h, "bump") /\ UNCHANGED silent
       \/ r.at = "persist" /\ End(h) /\ silent' = silent \cup (r.objects \ Cached)
    /\ UNCHANGED <<memory, store, revision, client, got, issued, restarts>>

\* tryTrigger, or BumpRevision alone for a user.
Bump(h) ==
    /\ request[h].at = "bump"
    /\ revision' = revision + 1
    /\ silent' = {}
    /\ End(h)
    /\ UNCHANGED <<memory, store, client, got, issued, failures, restarts, torn>>

-----------------------------------------------------------------------------
\* Snapshot answers 304 to a client that has this revision; else it reads the
\* revision first ...
SnapshotBegin ==
    /\ client = NotReading
    /\ got.revision # revision
    /\ client' = [NotReading EXCEPT !.revision = revision, !.attempt = 1]
    /\ UNCHANGED <<memory, store, revision, request, got, bookkeeping>>

\* ... then one engine after the other ...
SnapshotRead ==
    /\ client.attempt > 0
    /\ client.next <= Len(Reads)
    /\ client' = [client EXCEPT !.next = @ + 1,
                                !.content = [o \in Objects |-> IF Kind(o) \in Reads[client.next]
                                                                THEN memory[o] ELSE @[o]]]
    /\ UNCHANGED <<memory, store, revision, request, got, bookkeeping>>

\* Mutant of SnapshotEnd: the ETag is made when the answer is complete.
SnapshotEnd_TaggedLast ==
    /\ client.next > Len(Reads)
    /\ got' = [revision |-> revision, run |-> restarts, content |-> client.content]
    /\ client' = NotReading
    /\ UNCHANGED <<memory, store, revision, request, bookkeeping>>

\* ... and the revision again.  If it is another one Snapshot starts over,
\* twice, before it answers 503; 304 is possible each time.
SnapshotEnd ==
    /\ client.next > Len(Reads)
    /\ \/ /\ client.revision = revision
          /\ got' = [revision |-> revision, run |-> restarts, content |-> client.content]
          /\ client' = NotReading
       \/ /\ client.revision # revision
          /\ client' = IF client.attempt = 3 \/ got.revision = revision THEN NotReading
                       ELSE [NotReading EXCEPT !.revision = revision, !.attempt = client.attempt + 1]
          /\ UNCHANGED got
    /\ UNCHANGED <<memory, store, revision, request, bookkeeping>>

-----------------------------------------------------------------------------
\* What NewHandlers, LoadHydrate, LoadStickyTags and LoadLocalMetadata make of
\* the rows: a tag that a device still carries exists again (EnsureTagExists),
\* and so does global_default (NewEngine).
Hydrated(rows) == [o \in Objects |->
    IF rows[o] # None THEN rows[o]
    ELSE IF \/ o = <<"policy", Global>>
            \/ Kind(o) = "tag" /\ \E d \in Devices : rows[<<"tag of", d>>] # None
         THEN Preset ELSE None]

Init ==
    /\ store \in Kept
    /\ memory = Hydrated(store)
    /\ revision = 3
    /\ request = [h \in Handlers |-> Idle]
    /\ client = NotReading
    /\ got = NoSnapshot
    /\ issued = 0 /\ failures = 0 /\ restarts = 0
    /\ torn = {} /\ silent = {}

\* The process dies and starts again.  The revision starts at 1 and is bumped
\* when the tags and when the names and owners are loaded; the client keeps
\* its ETag.
Restart ==
    /\ failures + restarts < MaxFaults
    /\ restarts' = restarts + 1
    /\ memory' = Hydrated(store)
    /\ revision' = 3
    /\ request' = [h \in Handlers |-> Idle]
    /\ client' = NotReading
    /\ torn' = {} /\ silent' = {}
    /\ UNCHANGED <<store, got, issued, failures>>

UserRequest(h) ==
    \/ \E u \in Users : CreateUser(h, u) \/ UpdateUser(h, u) \/ DeleteUser(h, u)
    \/ \E d \in Devices, u \in Users : AssignDeviceUser(h, d, u)
    \/ \E d \in Devices : UnassignDeviceUser(h, d) \/ RenameDevice(h, d)

EngineRequest(h) ==
    \/ \E d \in Devices : AssignDeviceTag(h, d)
    \/ \E t \in Tags : CreateTag(h, t) \/ UpdateTag(h, t) \/ DeleteTag(h, t)
    \/ \E p \in Policies : PutPolicy(h, p) \/ DeletePolicy(h, p)
    \/ \E s \in Schedules : PutSchedule(h, s) \/ DeleteSchedule(h, s)
    \/ ToggleVacationMode(h)
    \/ ImportPolicies(h)

HandlerStep(h) ==
    Save(h) \/ Refused(h) \/ Remember(h) \/ Persist(h) \/ PersistFails(h) \/ Bump(h)

SnapshotStep == SnapshotBegin \/ SnapshotRead \/ SnapshotEnd

Next ==
    \/ \E h \in Handlers : UserRequest(h) \/ EngineRequest(h) \/ HandlerStep(h)
    \/ SnapshotStep
    \/ Restart

Spec == Init /\ [][Next]_vars

-----------------------------------------------------------------------------
(* Properties                                                              *)

\* Snapshot, tryTrigger: a client that is told 304 has what is served now, but
\* for what a request in progress or a failed one has changed unannounced: no
\* snapshot mixes two states, is tagged with the wrong one or outlives a
\* change.
ETagIsSound ==
    got.revision = revision /\ got.run = restarts =>
        \A o \in Objects \ Unannounced : got.content[o] = memory[o]

\* DeleteUserIfUnassigned, AssignDeviceToUser: whatever two requests do at a
\* time, no device is assigned in the database to a user who is not there.
AssignedUsersExist ==
    \A d \in Devices : store[<<"owner", d>>] # None =>
        store[<<"user", store[<<"owner", d>>]>>] # None

\* The same in memory, once every request is answered, unless two requests
\* have written the user or the owner at a time.
ServedUsersExist ==
    Busy = {} => \A d \in Devices :
        LET u == memory[<<"owner", d>>] IN
        u # None /\ {<<"owner", d>>, <<"user", u>>} \cap torn = {} => memory[<<"user", u>>] # None

\* Every handler and LoadHydrate: when no request is in progress, what is
\* served is what is stored, so that a restart changes nothing; but for what
\* a start makes up and what was torn.
ServedIsStored ==
    Busy = {} => \A o \in Objects \ torn :
        memory[o] = store[o] \/ (memory[o] = Preset /\ store[o] = None)
=============================================================================
