----------------------- MODULE Administration_proofs -----------------------
(* The four properties of the management API, for any number of requests at *)
(* a time, users, devices and settings, failed writes and restarts.         *)
EXTENDS Administration, TLAPS

-----------------------------------------------------------------------------
(* The inductive invariant                                                 *)

\* What StoreFirst and ImportPolicies write first to the database, and what
\* MemoryFirst writes first to an engine.
StoredFirst == {"user", "name", "owner"}

\* A request in progress: its objects, what is left of them, its value.
WellFormed(r) ==
    /\ r.left \subseteq r.objects
    /\ r.at = "done" => r.objects = {}
    /\ r.at = "save" => r.left = r.objects
    /\ r.at \in {"save", "remember"} =>
          \/ r.objects = Object("policy", Policies)
          \/ \E o \in Objects : Kind(o) \in StoredFirst /\ r.objects = {o}
    /\ r.at \in {"persist", "toggle"} => \A o \in r.objects : Kind(o) \notin StoredFirst
    /\ (\E o \in r.objects : Kind(o) = "owner") => r.value \in Users \cup {None}
    /\ r.value # Preset

RequestsWellFormed == \A h \in Handlers : WellFormed(request[h])

\* An object means the same in memory and in the database; a start makes up
\* tags and the global policy.
MadeUp(o) == Kind(o) \in {"tag", "policy"} /\ store[o] = None
Alike(o) == memory[o] = store[o] \/ (memory[o] = Preset /\ MadeUp(o))

\* How far the only request for an object has come with it.
Progress(o, r) ==
    /\ r.at \in {"save", "bump"} => Alike(o)
    /\ r.at = "remember" => store[o] = r.value /\ (o \notin r.left => memory[o] = r.value)
    /\ r.at \in {"persist", "toggle"} => memory[o] = r.value

\* One request writes it at a time, and it is alike in both places but for the
\* progress of that request.
AgreesOn(o) ==
    /\ \A g, h \in Handlers :
          o \in request[g].objects /\ o \in request[h].objects => g = h
    /\ (\A h \in Handlers : o \notin request[h].objects) => Alike(o)
    /\ \A h \in Handlers : o \in request[h].objects => Progress(o, request[h])

Agreement == \A o \in Objects \ torn : AgreesOn(o)

\* The cache bumps the revision while it changes: its objects are announced
\* at once.
Announced == Objects \ (Unannounced \ Cached)

ReadBy(o, next) == \E i \in 1 .. next - 1 : Kind(o) \in Reads[i]

\* A snapshot with the present revision has what is announced, as far as it
\* has been read.
SnapshotsSound ==
    /\ got.run <= restarts
    /\ got.run = restarts => got.revision <= revision
    /\ client.revision <= revision
    /\ client.attempt = 0 => client.next = 1
    /\ got.revision = revision /\ got.run = restarts =>
          \A o \in Announced : got.content[o] = memory[o]
    /\ client.revision = revision =>
          \A o \in Announced : ReadBy(o, client.next) => client.content[o] = memory[o]

IInv ==
    /\ TypeOK
    /\ RequestsWellFormed
    /\ Consistent(store)
    /\ Agreement
    /\ SnapshotsSound

-----------------------------------------------------------------------------
(* Objects and requests                                                    *)

LEMMA ObjectKinds ==
    /\ \A d \in Devices : /\ <<"owner", d>> \in Cached /\ <<"name", d>> \in Cached
                          /\ <<"tag of", d>> \in Cached
    /\ \A u \in Users : <<"user", u>> \in Objects \ Cached
    /\ \A t \in Tags : <<"tag", t>> \in Objects \ Cached
    /\ \A p \in Policies : <<"policy", p>> \in Objects \ Cached
    /\ \A s \in Schedules : <<"schedule", s>> \in Objects \ Cached
    /\ Cached \subseteq Objects
BY DEF Objects, Cached, Object

LEMMA ObjectOfKind ==
    ASSUME NEW o \in Objects
    PROVE  /\ Kind(o) = "owner" => \E d \in Devices : o = <<"owner", d>>
           /\ Kind(o) = "user" => \E u \in Users : o = <<"user", u>>
           /\ ReadBy(o, 6) /\ Len(Reads) = 5
<1>1. \A k, ids : o \in Object(k, ids) => Kind(o) = k /\ \E x \in ids : o = <<k, x>>
  BY DEF Object, Kind
<1>2. \/ Kind(o) \in {"name", "tag of", "tag", "policy", "schedule"}
      \/ Kind(o) = "owner" /\ \E d \in Devices : o = <<"owner", d>>
      \/ Kind(o) = "user" /\ \E u \in Users : o = <<"user", u>>
  BY <1>1 DEF Objects, Cached
<1>3. /\ Reads[1] = {"name", "tag of", "owner"} /\ Reads[2] = {"tag"}
      /\ Reads[3] = {"policy"} /\ Reads[4] = {"schedule"} /\ Reads[5] = {"user"}
      /\ Len(Reads) = 5
  BY DEF Reads
<1>4. \/ Kind(o) \in Reads[1] \/ Kind(o) \in Reads[2] \/ Kind(o) \in Reads[3]
      \/ Kind(o) \in Reads[4] \/ Kind(o) \in Reads[5]
  BY <1>2, <1>3
<1>5. ReadBy(o, 6)
  <2>1. 1 .. 6 - 1 = {1, 2, 3, 4, 5}
    OBVIOUS
  <2> QED
    BY <1>4, <2>1 DEF ReadBy
<1> QED
  BY <1>2, <1>3, <1>5

LEMMA NewIsAValue ==
    ASSUME TypeOK, issued < MaxRequests
    PROVE  New \in Values \ {Preset, None} /\ None \in Values \ {Preset}
BY ConstantsAssumption DEF TypeOK, Values, New

LEMMA WrittenType ==
    ASSUME NEW f \in [Objects -> Values], NEW objects \in SUBSET Objects, NEW v \in Values
    PROVE  /\ Written(f, objects, v) \in [Objects -> Values]
           /\ f \in Rows /\ v # Preset => Written(f, objects, v) \in Rows
           /\ \A o \in Objects : Written(f, objects, v)[o] = IF o \in objects THEN v ELSE f[o]
BY DEF Written, Rows

LEMMA RequestType ==
    ASSUME TypeOK, NEW h \in Handlers
    PROVE  /\ request[h].at \in {"done", "save", "remember", "persist", "toggle", "bump"}
           /\ request[h].objects \in SUBSET Objects
           /\ request[h].left \in SUBSET Objects
           /\ request[h].value \in Values
BY DEF TypeOK, Requests

LEMMA IdleWellFormed ==
    /\ WellFormed(Idle)
    /\ Idle \in Requests
BY ConstantsAssumption DEF WellFormed, Idle, Values, Requests

\* A snapshot stays sound when the revision is bumped, and when nothing that
\* stays announced changes.
LEMMA SoundWhileWriting ==
    ASSUME IInv, UNCHANGED <<client, got, restarts>>,
           \/ revision' = revision + 1
           \/ /\ revision' = revision
              /\ \A o \in Announced' : o \in Announced /\ memory'[o] = memory[o]
    PROVE  SnapshotsSound'
<1>1. revision \in Nat /\ got.revision \in Nat /\ client.revision \in Nat
  BY DEF IInv, TypeOK, Readings
<1>2. CASE revision' = revision + 1
  BY <1>1, <1>2 DEF IInv, SnapshotsSound
<1>3. CASE revision' = revision /\ \A o \in Announced' : o \in Announced /\ memory'[o] = memory[o]
  BY <1>3 DEF IInv, SnapshotsSound, ReadBy
<1> QED
  BY <1>2, <1>3

\* Changed in memory by a request that has not bumped the revision.
Unsaid(r) == IF r.at = "remember" THEN r.objects \ r.left
             ELSE IF r.at = "save" THEN {} ELSE r.objects

LEMMA AnnouncedMeans ==
    /\ \A o \in Objects : o \in Announced <=>
          o \in Cached \/ (o \notin silent /\ \A h \in Handlers : o \notin Unsaid(request[h]))
    /\ Announced \subseteq Objects
BY DEF Announced, Unannounced, Unsaid

LEMMA AnnouncedMeansNext ==
    /\ \A o \in Objects : o \in Announced' <=>
          o \in Cached \/ (o \notin silent' /\ \A h \in Handlers : o \notin Unsaid(request'[h]))
    /\ Announced' \subseteq Objects
BY DEF Announced, Unannounced, Unsaid

-----------------------------------------------------------------------------
(* What a step of one request leaves of the agreement                      *)

\* Objects that the request has nothing to do with agree as before.
LEMMA AgreesElsewhere ==
    ASSUME NEW x, AgreesOn(x), NEW h \in Handlers,
           \A g \in Handlers \ {h} : request'[g] = request[g],
           x \notin request[h].objects, x \notin request'[h].objects,
           memory'[x] = memory[x], store'[x] = store[x]
    PROVE  AgreesOn(x)'
BY DEF AgreesOn, Alike, MadeUp, Progress

\* Its own agree when it has come as far with them as its step says.
LEMMA AgreesHere ==
    ASSUME NEW x, NEW h \in Handlers,
           \A g \in Handlers \ {h} : x \notin request'[g].objects,
           x \in request'[h].objects => Progress(x, request[h])',
           x \notin request'[h].objects => Alike(x)'
    PROVE  AgreesOn(x)'
BY DEF AgreesOn

LEMMA AgreementAfterStep ==
    ASSUME IInv, NEW h \in Handlers, torn \subseteq torn',
           \A g \in Handlers \ {h} : request'[g] = request[g],
           \A x \in Objects \ request[h].objects :
               x \notin request'[h].objects /\ memory'[x] = memory[x] /\ store'[x] = store[x],
           \A x \in request[h].objects \ torn' :
               /\ Progress(x, request[h]) =>
                      /\ x \in request'[h].objects => Progress(x, request[h])'
                      /\ x \notin request'[h].objects => Alike(x)'
    PROVE  Agreement'
<1> SUFFICES ASSUME NEW x \in Objects \ torn' PROVE AgreesOn(x)'
  BY DEF Agreement
<1>1. AgreesOn(x)
  BY DEF IInv, Agreement
<1>2. CASE x \notin request[h].objects
  BY <1>1, <1>2, AgreesElsewhere
<1>3. CASE x \in request[h].objects
  <2>1. \A g \in Handlers \ {h} : x \notin request'[g].objects
    BY <1>1, <1>3 DEF AgreesOn
  <2>2. Progress(x, request[h])
    BY <1>1, <1>3 DEF AgreesOn
  <2> QED
    BY <1>3, <2>1, <2>2, AgreesHere
<1> QED
  BY <1>2, <1>3

\* A request that begins marks what another one is writing as torn.
LEMMA AgreementAfterBegin ==
    ASSUME IInv, NEW h \in Handlers, request[h].at = "done",
           \A g \in Handlers \ {h} : request'[g] = request[g],
           torn' = torn \cup (request'[h].objects \cap UNION {request[g].objects : g \in Handlers}),
           \A x \in Objects \ request'[h].objects : memory'[x] = memory[x] /\ store'[x] = store[x],
           \A x \in request'[h].objects : Alike(x) => Progress(x, request[h])'
    PROVE  Agreement'
<1> SUFFICES ASSUME NEW x \in Objects \ torn' PROVE AgreesOn(x)'
  BY DEF Agreement
<1>1. AgreesOn(x)
  BY DEF IInv, Agreement
<1>2. x \notin request[h].objects
  BY DEF IInv, RequestsWellFormed, WellFormed
<1>3. CASE x \notin request'[h].objects
  BY <1>1, <1>2, <1>3, AgreesElsewhere
<1>4. CASE x \in request'[h].objects
  <2>1. \A g \in Handlers : x \notin request[g].objects
    BY <1>4
  <2>2. Alike(x)
    BY <1>1, <2>1 DEF AgreesOn
  <2>3. \A g \in Handlers \ {h} : x \notin request'[g].objects
    BY <2>1
  <2> QED
    BY <1>4, <2>2, <2>3, AgreesHere
<1> QED
  BY <1>3, <1>4

-----------------------------------------------------------------------------
(* A request begins                                                        *)

\* What a beginning leaves behind it: the request r of h, the numbers and the torn objects.
Begun(h, r) ==
    /\ request' \in [Handlers -> Requests]
    /\ issued' \in 0 .. MaxRequests /\ torn' \subseteq Objects
    /\ RequestsWellFormed'
    /\ request'[h] = r
    /\ \A g \in Handlers \ {h} : request'[g] = request[g]
    /\ torn' = torn \cup (request'[h].objects \cap UNION {request[g].objects : g \in Handlers})
    /\ request[h].objects = {}

LEMMA BeginKeeps ==
    ASSUME IInv, NEW h \in Handlers, NEW step \in {"save", "persist", "toggle"},
           NEW objects \in SUBSET Objects, NEW v \in Values \ {Preset},
           Begin(h, step, objects, v),
           WellFormed([at |-> step, objects |-> objects, left |-> objects, value |-> v])
    PROVE  Begun(h, [at |-> step, objects |-> objects, left |-> objects, value |-> v])
<1> DEFINE r == [at |-> step, objects |-> objects, left |-> objects, value |-> v]
<1>1. request' = [request EXCEPT ![h] = r] /\ issued' = issued + 1 /\ issued < MaxRequests
      /\ torn' = torn \cup (objects \cap UNION {request[g].objects : g \in Handlers})
      /\ request[h].at = "done"
  BY DEF Begin
<1>2. r \in Requests
  BY DEF Requests
<1>3. request'[h] = r /\ \A g \in Handlers \ {h} : request'[g] = request[g]
  BY <1>1 DEF IInv, TypeOK
<1>4. request' \in [Handlers -> Requests]
  BY <1>1, <1>2 DEF IInv, TypeOK
<1>5. issued' \in 0 .. MaxRequests /\ torn' \subseteq Objects
  BY <1>1, ConstantsAssumption DEF IInv, TypeOK
<1>6. \A g \in Handlers : WellFormed(request'[g])
  BY <1>3 DEF IInv, RequestsWellFormed
<1>7. RequestsWellFormed'
  BY <1>6 DEF RequestsWellFormed, WellFormed
<1>8. request[h].objects = {}
  BY <1>1 DEF IInv, RequestsWellFormed, WellFormed
<1> QED
  BY <1>1, <1>3, <1>4, <1>5, <1>7, <1>8 DEF Begun

LEMMA StoreFirstKeeps ==
    ASSUME IInv, NEW h \in Handlers, NEW o \in Objects, Kind(o) \in StoredFirst,
           NEW v \in Values \ {Preset}, Kind(o) = "owner" => v \in Users \cup {None},
           StoreFirst(h, o, v)
    PROVE  IInv'
<1>1. WellFormed([at |-> "save", objects |-> {o}, left |-> {o}, value |-> v])
  BY DEF WellFormed
<1>2. {o} \in SUBSET Objects /\ Begin(h, "save", {o}, v) /\ UNCHANGED <<memory, store, revision, client, got>>
  BY DEF StoreFirst
<1>3. /\ request' \in [Handlers -> Requests] /\ issued' \in 0 .. MaxRequests /\ torn' \subseteq Objects
      /\ RequestsWellFormed'
      /\ request'[h] = [at |-> "save", objects |-> {o}, left |-> {o}, value |-> v]
      /\ \A g \in Handlers \ {h} : request'[g] = request[g]
      /\ torn' = torn \cup (request'[h].objects \cap UNION {request[g].objects : g \in Handlers})
      /\ request[h].objects = {}
  <2>1. Begun(h, [at |-> "save", objects |-> {o}, left |-> {o}, value |-> v])
    BY <1>1, <1>2, BeginKeeps
  <2> QED
    BY <2>1 DEF Begun
<1>4. TypeOK'
  BY <1>2, <1>3 DEF Begin, IInv, TypeOK
<1>5. Consistent(store)'
  BY <1>2 DEF IInv, Consistent
<1>6. \A x \in request'[h].objects : Alike(x) => Progress(x, request[h])'
  BY <1>2, <1>3 DEF Progress, Alike, MadeUp
<1>7. Agreement'
  BY <1>2, <1>3, <1>6, AgreementAfterBegin DEF Begin
<1>8. \A g \in Handlers : Unsaid(request'[g]) = Unsaid(request[g])
  BY <1>2, <1>3 DEF Unsaid, Begin
<1>9. SnapshotsSound'
  <2>1. \A x \in Announced' : x \in Announced /\ memory'[x] = memory[x]
    BY <1>2, <1>8, AnnouncedMeans, AnnouncedMeansNext DEF Begin
  <2> QED
    BY <1>2, <2>1, SoundWhileWriting DEF Begin
<1> QED
  BY <1>3, <1>4, <1>5, <1>7, <1>9 DEF IInv

LEMMA ImportPoliciesKeeps ==
    ASSUME IInv, NEW h \in Handlers, ImportPolicies(h)
    PROVE  IInv'
<1> DEFINE all == Object("policy", Policies)
           r == [at |-> "save", objects |-> all, left |-> all, value |-> New]
<1>1. all \in SUBSET Objects /\ \A o \in all : Kind(o) = "policy"
  BY DEF Objects, Object, Kind
<1>2. Begin(h, "save", all, New) /\ UNCHANGED <<memory, store, revision, client, got>>
  BY DEF ImportPolicies
<1>3. New \in Values \ {Preset}
  <2>1. TypeOK /\ issued < MaxRequests
    BY <1>2 DEF Begin, IInv
  <2> QED
    BY <2>1, NewIsAValue
<1>4. WellFormed(r)
  BY <1>1, <1>3 DEF WellFormed
<1>5. /\ request' \in [Handlers -> Requests] /\ issued' \in 0 .. MaxRequests /\ torn' \subseteq Objects
      /\ RequestsWellFormed'
      /\ request'[h] = r
      /\ \A g \in Handlers \ {h} : request'[g] = request[g]
      /\ torn' = torn \cup (request'[h].objects \cap UNION {request[g].objects : g \in Handlers})
      /\ request[h].objects = {}
  <2>1. Begun(h, r)
    BY <1>1, <1>2, <1>3, <1>4, BeginKeeps
  <2> QED
    BY <2>1 DEF Begun
<1>6. TypeOK'
  BY <1>2, <1>5 DEF Begin, IInv, TypeOK
<1>7. Consistent(store)'
  BY <1>2 DEF IInv, Consistent
<1>8. \A x \in request'[h].objects : Alike(x) => Progress(x, request[h])'
  BY <1>2, <1>5 DEF Progress, Alike, MadeUp
<1>9. Agreement'
  BY <1>2, <1>5, <1>8, AgreementAfterBegin DEF Begin
<1>10. SnapshotsSound'
  <2>1. \A g \in Handlers : Unsaid(request'[g]) = Unsaid(request[g])
    BY <1>2, <1>5 DEF Unsaid, Begin
  <2>2. \A x \in Announced' : x \in Announced /\ memory'[x] = memory[x]
    BY <1>2, <2>1, AnnouncedMeans, AnnouncedMeansNext DEF Begin
  <2> QED
    BY <1>2, <2>2, SoundWhileWriting DEF Begin
<1> QED
  BY <1>5, <1>6, <1>7, <1>9, <1>10 DEF IInv

LEMMA MemoryFirstKeeps ==
    ASSUME IInv, NEW h \in Handlers, NEW o \in Objects, Kind(o) \notin StoredFirst,
           NEW v \in Values \ {Preset}, NEW step \in {"persist", "toggle"},
           MemoryFirst(h, o, v, step)
    PROVE  IInv'
<1> DEFINE r == [at |-> step, objects |-> {o}, left |-> {o}, value |-> v]
<1>1. WellFormed(r)
  BY DEF WellFormed, StoredFirst
<1>2. /\ {o} \in SUBSET Objects /\ step \in {"save", "persist", "toggle"}
      /\ Begin(h, step, {o}, v) /\ UNCHANGED <<store, client, got>>
      /\ memory' = Written(memory, {o}, v)
      /\ revision' = IF o \in Cached THEN revision + 1 ELSE revision
  BY DEF MemoryFirst
<1>3. /\ request' \in [Handlers -> Requests] /\ issued' \in 0 .. MaxRequests /\ torn' \subseteq Objects
      /\ RequestsWellFormed'
      /\ request'[h] = r
      /\ \A g \in Handlers \ {h} : request'[g] = request[g]
      /\ torn' = torn \cup (request'[h].objects \cap UNION {request[g].objects : g \in Handlers})
      /\ request[h].objects = {}
  <2>1. Begun(h, r)
    BY <1>1, <1>2, BeginKeeps
  <2> QED
    BY <2>1 DEF Begun
<1>4. /\ memory' \in [Objects -> Values]
      /\ \A x \in Objects : memory'[x] = IF x = o THEN v ELSE memory[x]
  <2>1. memory \in [Objects -> Values]
    BY DEF IInv, TypeOK
  <2> QED
    BY <1>2, <2>1, WrittenType
<1>5. TypeOK'
  <2>1. revision' \in Nat \ 0 .. 2
    BY <1>2 DEF IInv, TypeOK
  <2> QED
    BY <1>2, <1>3, <1>4, <2>1 DEF Begin, IInv, TypeOK
<1>6. Consistent(store)'
  BY <1>2 DEF IInv, Consistent
<1>7. \A x \in request'[h].objects : Progress(x, request[h])'
  BY <1>3, <1>4 DEF Progress
<1>8. Agreement'
  BY <1>2, <1>3, <1>4, <1>7, AgreementAfterBegin DEF Begin
<1>9. SnapshotsSound'
  <2>1. CASE o \in Cached
    BY <1>2, <2>1, SoundWhileWriting DEF Begin
  <2>2. CASE o \notin Cached
    <3>0. request'[h].at \in {"persist", "toggle"} /\ request'[h].objects = {o}
      BY <1>3
    <3>1. Unsaid(request'[h]) = {o} /\ \A g \in Handlers \ {h} : Unsaid(request'[g]) = Unsaid(request[g])
      BY <1>3, <3>0 DEF Unsaid
    <3>2. Unsaid(request[h]) = {}
      BY <1>3 DEF Unsaid
    <3>3. \A x \in Announced' : x # o
      BY <2>2, <3>1, AnnouncedMeansNext
    <3>4. \A x \in Announced' : x \in Announced
      BY <1>2, <3>1, <3>2, AnnouncedMeans, AnnouncedMeansNext DEF Begin
    <3>5. \A x \in Announced' : memory'[x] = memory[x]
      BY <1>4, <3>3, AnnouncedMeansNext
    <3> QED
      BY <1>2, <2>2, <3>4, <3>5, SoundWhileWriting DEF Begin
  <2> QED
    BY <2>1, <2>2
<1> QED
  BY <1>3, <1>5, <1>6, <1>8, <1>9 DEF IInv

-----------------------------------------------------------------------------
(* A request goes on                                                       *)

LEMMA GotoIs ==
    ASSUME IInv, NEW h \in Handlers, Goto(h, "remember") \/ Goto(h, "bump")
    PROVE  /\ request' \in [Handlers -> Requests]
           /\ request'[h].objects = request[h].objects
           /\ request'[h].left = request[h].left
           /\ request'[h].value = request[h].value
           /\ Goto(h, "remember") => request'[h].at = "remember"
           /\ Goto(h, "bump") => request'[h].at = "bump"
           /\ \A g \in Handlers \ {h} : request'[g] = request[g]
BY DEF IInv, TypeOK, Goto, Requests

LEMMA EndIs ==
    ASSUME IInv, NEW h \in Handlers, End(h)
    PROVE  /\ request' \in [Handlers -> Requests]
           /\ request'[h] = Idle
           /\ RequestsWellFormed'
           /\ \A g \in Handlers \ {h} : request'[g] = request[g]
<1>1. /\ request' \in [Handlers -> Requests]
      /\ request'[h] = Idle
      /\ \A g \in Handlers \ {h} : request'[g] = request[g]
  BY IdleWellFormed DEF End, IInv, TypeOK
<1>2. \A g \in Handlers : WellFormed(request'[g])
  BY <1>1, IdleWellFormed DEF IInv, RequestsWellFormed
<1>3. RequestsWellFormed'
  BY <1>2 DEF RequestsWellFormed, WellFormed
<1> QED
  BY <1>1, <1>3

LEMMA RequestAt ==
    ASSUME IInv, NEW h \in Handlers
    PROVE  WellFormed(request[h]) /\ request[h] \in Requests /\ request[h].objects \in SUBSET Objects
           /\ request[h].left \in SUBSET Objects /\ request[h].value \in Values \ {Preset}
<1>1. request[h] \in Requests /\ WellFormed(request[h])
  BY DEF IInv, TypeOK, RequestsWellFormed
<1> QED
  BY <1>1 DEF Requests, WellFormed

\* The statements decide while they write: a user who is deleted has no device,
\* and a device is assigned to a user who is there.
LEMMA SaveConsistent ==
    ASSUME IInv, NEW h \in Handlers, Save(h)
    PROVE  Consistent(store)'
<1> DEFINE r == request[h]
<1>1. /\ \A o \in r.objects : Accepts(o, r.value)
      /\ store' = Written(store, r.objects, r.value)
      /\ r.at = "save"
  BY DEF Save
<1>2. \A o \in Objects : store'[o] = IF o \in r.objects THEN r.value ELSE store[o]
  BY <1>1 DEF Written
<1>3. SUFFICES ASSUME NEW d \in Devices, store'[<<"owner", d>>] # None
               PROVE  /\ store'[<<"owner", d>>] \in Users
                      /\ store'[<<"user", store'[<<"owner", d>>]>>] # None
  BY DEF Consistent
<1>4. \A u \in Users : <<"user", u>> \in Objects /\ <<"user", u>> # <<"owner", d>>
  BY ObjectKinds
<1>5. <<"owner", d>> \in Objects
  BY ObjectKinds
<1>6. /\ store[<<"owner", d>>] # None => /\ store[<<"owner", d>>] \in Users
                                         /\ store[<<"user", store[<<"owner", d>>]>>] # None
  BY DEF IInv, Consistent
<1>7. CASE \A o \in r.objects : Kind(o) \notin {"owner", "user"}
  <2>1. <<"owner", d>> \notin r.objects /\ \A u \in Users : <<"user", u>> \notin r.objects
    BY <1>7 DEF Kind
  <2> QED
    BY <1>2, <1>3, <1>4, <1>5, <1>6, <2>1
<1>8. CASE \E e \in Devices : r.objects = {<<"owner", e>>}
  <2>1. PICK e \in Devices : r.objects = {<<"owner", e>>}
    BY <1>8
  <2>2. r.value # None => r.value \in Users /\ store[<<"user", r.value>>] # None
    <3>1. <<"owner", e>> \in r.objects /\ Kind(<<"owner", e>>) = "owner"
      BY <2>1 DEF Kind
    <3>2. r.value \in Users \cup {None}
      BY <3>1, RequestAt DEF WellFormed
    <3>3. r.value # None => store[<<"user", r.value>>] # None
      BY <1>1, <3>1 DEF Accepts
    <3> QED
      BY <3>2, <3>3
  <2>3. \A u \in Users : store'[<<"user", u>>] = store[<<"user", u>>]
    BY <1>2, <1>4, <2>1
  <2>4. store'[<<"owner", d>>] \in {store[<<"owner", d>>], r.value}
    BY <1>2, <1>5
  <2> QED
    BY <1>3, <1>6, <2>2, <2>3, <2>4
<1>9. CASE \E u \in Users : r.objects = {<<"user", u>>}
  <2>1. PICK u \in Users : r.objects = {<<"user", u>>}
    BY <1>9
  <2>2. r.value = None => store[<<"owner", d>>] # u
    BY <1>1, <2>1 DEF Accepts, Kind
  <2>3. store'[<<"owner", d>>] = store[<<"owner", d>>]
    BY <1>2, <1>5, <2>1
  <2>4. store[<<"owner", d>>] # u =>
           store'[<<"user", store[<<"owner", d>>]>>] = store[<<"user", store[<<"owner", d>>]>>]
    BY <1>2, <1>3, <1>4, <1>6, <2>1, <2>3
  <2>5. store[<<"owner", d>>] = u => store'[<<"user", u>>] = r.value
    BY <1>2, <1>4, <2>1
  <2> QED
    BY <1>3, <1>6, <2>2, <2>3, <2>4, <2>5
<1>10. \/ r.objects = Object("policy", Policies)
       \/ \E o \in Objects : Kind(o) \in StoredFirst /\ r.objects = {o}
  BY <1>1, RequestAt DEF WellFormed
<1>11. CASE r.objects = Object("policy", Policies)
  <2>1. \A o \in r.objects : Kind(o) = "policy"
    BY <1>11 DEF Object, Kind
  <2> QED
    BY <1>7, <2>1
<1>12. ASSUME NEW o \in Objects, r.objects = {o}
       PROVE  \/ \A x \in r.objects : Kind(x) \notin {"owner", "user"}
              \/ \E e \in Devices : r.objects = {<<"owner", e>>}
              \/ \E u \in Users : r.objects = {<<"user", u>>}
  BY <1>12, ObjectOfKind
<1> QED
  BY <1>7, <1>8, <1>9, <1>10, <1>11, <1>12

LEMMA SaveKeeps ==
    ASSUME IInv, NEW h \in Handlers, Save(h)
    PROVE  IInv'
<1> DEFINE r == request[h]
<1>1. /\ store' = Written(store, r.objects, r.value)
      /\ r.at = "save" /\ Goto(h, "remember")
      /\ UNCHANGED <<memory, revision, client, got, bookkeeping>>
  BY DEF Save
<1>2. /\ store' \in Rows
      /\ \A o \in Objects : store'[o] = IF o \in r.objects THEN r.value ELSE store[o]
  <2>1. store \in Rows /\ store \in [Objects -> Values]
    BY DEF IInv, TypeOK, Rows
  <2>2. r.objects \in SUBSET Objects /\ r.value \in Values /\ r.value # Preset
    BY RequestAt
  <2>3. Written(store, r.objects, r.value) \in Rows
    BY <2>1, <2>2, WrittenType
  <2>4. \A o \in Objects : Written(store, r.objects, r.value)[o] = IF o \in r.objects THEN r.value ELSE store[o]
    BY DEF Written
  <2> QED
    BY <1>1, <2>3, <2>4
<1>3. /\ request' \in [Handlers -> Requests]
      /\ request'[h].at = "remember" /\ request'[h].objects = r.objects
      /\ request'[h].left = r.left /\ request'[h].value = r.value
      /\ \A g \in Handlers \ {h} : request'[g] = request[g]
  BY <1>1, GotoIs
<1>4. r.left = r.objects
  BY <1>1, RequestAt DEF WellFormed
<1>5. TypeOK'
  BY <1>1, <1>2, <1>3 DEF IInv, TypeOK, bookkeeping
<1>6. RequestsWellFormed'
  <2>1. \A g \in Handlers \ {h} : WellFormed(request'[g])
    BY <1>3, RequestAt
  <2>2. WellFormed(request'[h])
    BY <1>1, <1>3, RequestAt DEF WellFormed
  <2>3. \A g \in Handlers : WellFormed(request'[g])
    BY <2>1, <2>2
  <2> QED
    BY <2>3 DEF RequestsWellFormed, WellFormed
<1>7. Agreement'
  <2>1. \A x \in r.objects : x \in request'[h].objects /\ Progress(x, request[h])'
    BY <1>2, <1>3, <1>4, RequestAt DEF Progress
  <2>2. \A x \in Objects \ r.objects :
           x \notin request'[h].objects /\ memory'[x] = memory[x] /\ store'[x] = store[x]
    BY <1>1, <1>2, <1>3
  <2> QED
    BY <1>1, <1>3, <2>1, <2>2, AgreementAfterStep DEF bookkeeping
<1>8. SnapshotsSound'
  <2>1. Unsaid(request'[h]) = {}
    BY <1>3, <1>4 DEF Unsaid
  <2>2. Unsaid(r) = {}
    BY <1>1 DEF Unsaid
  <2>3. \A x \in Announced' : x \in Announced
    BY <1>1, <1>3, <2>1, <2>2, AnnouncedMeans, AnnouncedMeansNext DEF bookkeeping
  <2> QED
    BY <1>1, <2>3, SoundWhileWriting DEF bookkeeping
<1> QED
  BY <1>5, <1>6, <1>7, <1>8, SaveConsistent DEF IInv

LEMMA RefusedKeeps ==
    ASSUME IInv, NEW h \in Handlers, Refused(h)
    PROVE  IInv'
<1>1. /\ request[h].at = "save" /\ End(h) /\ failures' \in 0 .. MaxFaults
      /\ UNCHANGED <<memory, store, revision, client, got, issued, restarts, torn, silent>>
  BY ConstantsAssumption DEF Refused, IInv, TypeOK
<1>2. /\ request' \in [Handlers -> Requests]
      /\ request'[h] = Idle
      /\ RequestsWellFormed'
      /\ \A g \in Handlers \ {h} : request'[g] = request[g]
  BY <1>1, EndIs
<1>3. TypeOK'
  BY <1>1, <1>2 DEF IInv, TypeOK
<1>4. Consistent(store)'
  BY <1>1 DEF IInv, Consistent
<1>5. Agreement'
  <2>1. \A x \in request[h].objects : Progress(x, request[h]) => Alike(x)'
    BY <1>1 DEF Progress, Alike, MadeUp
  <2>2. \A x : x \notin request'[h].objects
    BY <1>2 DEF Idle
  <2> QED
    BY <1>1, <1>2, <2>1, <2>2, AgreementAfterStep
<1>6. SnapshotsSound'
  <2>1. Unsaid(request'[h]) = {} /\ Unsaid(request[h]) = {}
    BY <1>1, <1>2 DEF Unsaid, Idle
  <2>2. \A x \in Announced' : x \in Announced
    BY <1>1, <1>2, <2>1, AnnouncedMeans, AnnouncedMeansNext
  <2> QED
    BY <1>1, <2>2, SoundWhileWriting
<1> QED
  BY <1>2, <1>3, <1>4, <1>5, <1>6 DEF IInv

LEMMA RememberKeeps ==
    ASSUME IInv, NEW h \in Handlers, Remember(h)
    PROVE  IInv'
<1> DEFINE r == request[h]
<1>1. r.at = "remember"
  BY DEF Remember
<1>2. PICK o \in r.left :
          /\ memory' = Written(memory, {o}, r.value)
          /\ revision' = IF o \in Cached THEN revision + 1 ELSE revision
          /\ silent' = IF o \in Cached THEN {} ELSE silent
          /\ request' = [request EXCEPT ![h].left = @ \ {o},
                                        ![h].at = IF r.left = {o} THEN "bump" ELSE @]
  BY DEF Remember
<1>3. UNCHANGED <<store, client, got, issued, failures, restarts, torn>>
  BY DEF Remember
<1>4. o \in Objects /\ o \in r.objects
  BY <1>2, RequestAt DEF WellFormed
<1>5. /\ request' \in [Handlers -> Requests]
      /\ request'[h].objects = r.objects /\ request'[h].value = r.value
      /\ request'[h].left = r.left \ {o}
      /\ request'[h].at = IF r.left = {o} THEN "bump" ELSE "remember"
      /\ \A g \in Handlers \ {h} : request'[g] = request[g]
  <2>1. request \in [Handlers -> Requests] /\ r \in Requests
    BY RequestAt DEF IInv, TypeOK
  <2>2. /\ request'[h] = [r EXCEPT !.left = r.left \ {o}, !.at = IF r.left = {o} THEN "bump" ELSE r.at]
        /\ \A g \in Handlers \ {h} : request'[g] = request[g]
        /\ request' = [request EXCEPT ![h] = request'[h]]
    BY <1>2, <2>1
  <2>3. r = [at |-> r.at, objects |-> r.objects, left |-> r.left, value |-> r.value]
    BY <2>1 DEF Requests
  <2>4. request'[h] = [at |-> IF r.left = {o} THEN "bump" ELSE "remember", objects |-> r.objects,
                       left |-> r.left \ {o}, value |-> r.value]
    BY <1>1, <2>2, <2>3
  <2>5. r.objects \in SUBSET Objects /\ r.left \ {o} \in SUBSET Objects /\ r.value \in Values
    BY <2>1 DEF Requests
  <2>6. request'[h] \in Requests
    BY <2>4, <2>5 DEF Requests
  <2>7. request' \in [Handlers -> Requests]
    BY <2>1, <2>2, <2>6
  <2>8. /\ request'[h].objects = r.objects /\ request'[h].value = r.value
        /\ request'[h].left = r.left \ {o}
        /\ request'[h].at = IF r.left = {o} THEN "bump" ELSE "remember"
    BY <2>4
  <2>9. \A g \in Handlers \ {h} : request'[g] = request[g]
    BY <2>2
  <2> QED
    BY <2>7, <2>8, <2>9
<1>6. /\ memory' \in [Objects -> Values]
      /\ \A x \in Objects : memory'[x] = IF x = o THEN r.value ELSE memory[x]
  <2>1. memory \in [Objects -> Values] /\ r.value \in Values /\ {o} \in SUBSET Objects
    BY <1>4, RequestAt DEF IInv, TypeOK
  <2>2. memory' = [x \in Objects |-> IF x \in {o} THEN r.value ELSE memory[x]]
    BY <1>2 DEF Written
  <2> HIDE DEF r
  <2> QED
    BY <2>1, <2>2
<1>7. TypeOK'
  <2>1. revision' \in Nat \ 0 .. 2 /\ silent' \subseteq Objects
    BY <1>2 DEF IInv, TypeOK
  <2> QED
    BY <1>3, <1>5, <1>6, <2>1 DEF IInv, TypeOK
<1>8. RequestsWellFormed'
  <2>1. \A g \in Handlers \ {h} : WellFormed(request'[g])
    BY <1>5, RequestAt
  <2>2. WellFormed(request'[h])
    BY <1>1, <1>5, RequestAt DEF WellFormed
  <2>3. \A g \in Handlers : WellFormed(request'[g])
    BY <2>1, <2>2
  <2> QED
    BY <2>3 DEF RequestsWellFormed, WellFormed
<1>9. Consistent(store)'
  BY <1>3 DEF IInv, Consistent
<1>10. Agreement'
  <2>1. ASSUME NEW x \in r.objects, Progress(x, r) PROVE Progress(x, request[h])'
    <3>1. x \in Objects
      BY RequestAt
    <3>2. store'[x] = r.value /\ (x \notin r.left => memory[x] = r.value)
      BY <1>1, <1>3, <2>1 DEF Progress
    <3>3. x \notin r.left \ {o} => memory'[x] = r.value
      BY <1>6, <3>1, <3>2
    <3>4. r.left = {o} => Alike(x)'
      BY <3>2, <3>3 DEF Alike, MadeUp
    <3> QED
      BY <1>5, <3>2, <3>3, <3>4 DEF Progress
  <2>2. \A x \in Objects \ r.objects :
           x \notin request'[h].objects /\ memory'[x] = memory[x] /\ store'[x] = store[x]
    BY <1>3, <1>4, <1>5, <1>6
  <2> QED
    BY <1>3, <1>5, <2>1, <2>2, AgreementAfterStep
<1>11. SnapshotsSound'
  <2>1. CASE o \in Cached
    BY <1>2, <1>3, <2>1, SoundWhileWriting
  <2>2. CASE o \notin Cached
    <3>1. o \in Unsaid(request'[h])
      BY <1>4, <1>5 DEF Unsaid
    <3>2. Unsaid(r) \subseteq Unsaid(request'[h])
      BY <1>1, <1>5 DEF Unsaid
    <3>3. \A x \in Announced' : x # o
      BY <2>2, <3>1, AnnouncedMeansNext
    <3>4. \A x \in Announced' : x \in Announced
      BY <1>2, <1>5, <2>2, <3>2, AnnouncedMeans, AnnouncedMeansNext
    <3>5. \A x \in Announced' : memory'[x] = memory[x]
      BY <1>6, <3>3, AnnouncedMeansNext
    <3> QED
      BY <1>2, <1>3, <2>2, <3>4, <3>5, SoundWhileWriting
  <2> QED
    BY <2>1, <2>2
<1> QED
  BY <1>7, <1>8, <1>9, <1>10, <1>11 DEF IInv

LEMMA PersistKeeps ==
    ASSUME IInv, NEW h \in Handlers, Persist(h)
    PROVE  IInv'
<1> DEFINE r == request[h]
<1>1. /\ store' = Written(store, r.objects, r.value)
      /\ r.at \in {"persist", "toggle"} /\ Goto(h, "bump")
      /\ UNCHANGED <<memory, revision, client, got, bookkeeping>>
  BY DEF Persist
<1>2. /\ store' \in Rows
      /\ \A o \in Objects : store'[o] = IF o \in r.objects THEN r.value ELSE store[o]
  <2>1. store \in Rows /\ store \in [Objects -> Values]
    BY DEF IInv, TypeOK, Rows
  <2>2. r.objects \in SUBSET Objects /\ r.value \in Values /\ r.value # Preset
    BY RequestAt
  <2>3. Written(store, r.objects, r.value) \in Rows
    BY <2>1, <2>2, WrittenType
  <2> QED
    BY <1>1, <2>3 DEF Written
<1>3. /\ request' \in [Handlers -> Requests]
      /\ request'[h].at = "bump" /\ request'[h].objects = r.objects
      /\ request'[h].left = r.left /\ request'[h].value = r.value
      /\ \A g \in Handlers \ {h} : request'[g] = request[g]
  BY <1>1, GotoIs
<1>4. TypeOK'
  BY <1>1, <1>2, <1>3 DEF IInv, TypeOK, bookkeeping
<1>5. RequestsWellFormed'
  <2>1. \A g \in Handlers \ {h} : WellFormed(request'[g])
    BY <1>3, RequestAt
  <2>2. WellFormed(request'[h])
    BY <1>1, <1>3, RequestAt DEF WellFormed
  <2>3. \A g \in Handlers : WellFormed(request'[g])
    BY <2>1, <2>2
  <2> QED
    BY <2>3 DEF RequestsWellFormed, WellFormed
<1>6. Consistent(store)'
  <2>1. \A d \in Devices : <<"owner", d>> \notin r.objects /\ <<"owner", d>> \in Objects
    BY <1>1, RequestAt, ObjectKinds DEF WellFormed, Kind, StoredFirst
  <2>2. \A u \in Users : <<"user", u>> \notin r.objects /\ <<"user", u>> \in Objects
    BY <1>1, RequestAt, ObjectKinds DEF WellFormed, Kind, StoredFirst
  <2> QED
    BY <1>2, <2>1, <2>2 DEF IInv, Consistent
<1>7. Agreement'
  <2>1. ASSUME NEW x \in r.objects, Progress(x, r) PROVE Progress(x, request[h])'
    BY <1>1, <1>2, <1>3, <2>1, RequestAt DEF Progress, Alike, MadeUp
  <2>2. \A x \in Objects \ r.objects :
           x \notin request'[h].objects /\ memory'[x] = memory[x] /\ store'[x] = store[x]
    BY <1>1, <1>2, <1>3
  <2> QED
    BY <1>1, <1>3, <2>1, <2>2, AgreementAfterStep DEF bookkeeping
<1>8. SnapshotsSound'
  <2>1. Unsaid(request'[h]) = r.objects /\ Unsaid(r) = r.objects
    BY <1>1, <1>3 DEF Unsaid
  <2>2. \A x \in Announced' : x \in Announced
    BY <1>1, <1>3, <2>1, AnnouncedMeans, AnnouncedMeansNext DEF bookkeeping
  <2> QED
    BY <1>1, <2>2, SoundWhileWriting DEF bookkeeping
<1> QED
  BY <1>4, <1>5, <1>6, <1>7, <1>8 DEF IInv

LEMMA PersistFailsKeeps ==
    ASSUME IInv, NEW h \in Handlers, PersistFails(h)
    PROVE  IInv'
<1> DEFINE r == request[h]
<1>1. /\ r.at \in {"persist", "toggle"} /\ torn' = torn \cup r.objects
      /\ UNCHANGED <<memory, store, revision, client, got, issued, restarts>>
      /\ \/ r.at = "toggle" /\ Goto(h, "bump") /\ UNCHANGED silent
         \/ r.at = "persist" /\ End(h) /\ silent' = silent \cup (r.objects \ Cached)
  BY DEF PersistFails
<1>2. failures' \in 0 .. MaxFaults
  BY ConstantsAssumption DEF PersistFails, IInv, TypeOK
<1>3. \/ r.at = "toggle" /\ request'[h].objects = r.objects
      \/ r.at = "persist" /\ request'[h].objects = {}
  BY <1>1, GotoIs, EndIs DEF Idle
<1>4. /\ request' \in [Handlers -> Requests]
      /\ \A g \in Handlers \ {h} : request'[g] = request[g]
  BY <1>1, GotoIs, EndIs
<1>5. RequestsWellFormed'
  <2>1. CASE Goto(h, "bump")
    <3>1. WellFormed(request'[h])
      BY <1>1, <2>1, GotoIs, RequestAt DEF WellFormed
    <3>2. \A g \in Handlers : WellFormed(request'[g])
      BY <1>4, <3>1, RequestAt
    <3> QED
      BY <3>2 DEF RequestsWellFormed, WellFormed
  <2>2. CASE End(h)
    BY <2>2, EndIs
  <2> QED
    BY <1>1, <2>1, <2>2
<1>6. TypeOK'
  <2>1. torn' \subseteq Objects /\ silent' \subseteq Objects
    BY <1>1, RequestAt DEF IInv, TypeOK
  <2> QED
    BY <1>1, <1>2, <1>4, <2>1 DEF IInv, TypeOK
<1>7. Consistent(store)'
  BY <1>1 DEF IInv, Consistent
<1>8. Agreement'
  <2>1. \A x \in Objects \ r.objects :
           x \notin request'[h].objects /\ memory'[x] = memory[x] /\ store'[x] = store[x]
    BY <1>1, <1>3
  <2> QED
    BY <1>1, <1>4, <2>1, AgreementAfterStep
<1>9. SnapshotsSound'
  <2>1. Unsaid(r) = r.objects
    BY <1>1 DEF Unsaid
  <2>2. r.at = "toggle" => Unsaid(request'[h]) = r.objects
    BY <1>1, GotoIs DEF Unsaid
  <2>3. \A x \in Announced' : x \in Announced
    <3>1. CASE r.at = "toggle"
      BY <1>1, <1>4, <2>1, <2>2, <3>1, AnnouncedMeans, AnnouncedMeansNext
    <3>2. CASE r.at = "persist"
      <4>1. silent' = silent \cup (r.objects \ Cached)
        BY <1>1, <3>2
      <4> QED
        BY <1>4, <2>1, <4>1, AnnouncedMeans, AnnouncedMeansNext
    <3> QED
      BY <1>1, <3>1, <3>2
  <2> QED
    BY <1>1, <2>3, SoundWhileWriting
<1> QED
  BY <1>5, <1>6, <1>7, <1>8, <1>9 DEF IInv

LEMMA BumpKeeps ==
    ASSUME IInv, NEW h \in Handlers, Bump(h)
    PROVE  IInv'
<1>1. /\ request[h].at = "bump" /\ revision' = revision + 1 /\ silent' = {} /\ End(h)
      /\ UNCHANGED <<memory, store, client, got, issued, failures, restarts, torn>>
  BY DEF Bump
<1>2. /\ request' \in [Handlers -> Requests]
      /\ request'[h] = Idle
      /\ RequestsWellFormed'
      /\ \A g \in Handlers \ {h} : request'[g] = request[g]
  BY <1>1, EndIs
<1>3. TypeOK'
  BY <1>1, <1>2 DEF IInv, TypeOK
<1>4. Consistent(store)'
  BY <1>1 DEF IInv, Consistent
<1>5. Agreement'
  <2>1. \A x \in request[h].objects : Progress(x, request[h]) => Alike(x)'
    BY <1>1 DEF Progress, Alike, MadeUp
  <2>2. \A x : x \notin request'[h].objects
    BY <1>2 DEF Idle
  <2> QED
    BY <1>1, <1>2, <2>1, <2>2, AgreementAfterStep
<1>6. SnapshotsSound'
  BY <1>1, SoundWhileWriting
<1> QED
  BY <1>2, <1>3, <1>4, <1>5, <1>6 DEF IInv

-----------------------------------------------------------------------------
(* The client, and a restart                                               *)

LEMMA ReadingType ==
    /\ NotReading \in Readings /\ NotReading.next = 1 /\ NotReading.revision = 0
    /\ \A n \in 0 .. 3, v \in Nat :
          /\ [NotReading EXCEPT !.revision = v, !.attempt = n] \in Readings
          /\ [NotReading EXCEPT !.revision = v, !.attempt = n].next = 1
          /\ [NotReading EXCEPT !.revision = v, !.attempt = n].revision = v
          /\ [NotReading EXCEPT !.revision = v, !.attempt = n].attempt = n
<1>1. [o \in Objects |-> None] \in [Objects -> Values]
  BY DEF Values
<1>2. NotReading \in Readings /\ NotReading.next = 1 /\ NotReading.revision = 0
  BY <1>1 DEF NotReading, Readings
<1>3. ASSUME NEW n \in 0 .. 3, NEW v \in Nat
      PROVE  /\ [NotReading EXCEPT !.revision = v, !.attempt = n] \in Readings
             /\ [NotReading EXCEPT !.revision = v, !.attempt = n].next = 1
             /\ [NotReading EXCEPT !.revision = v, !.attempt = n].revision = v
             /\ [NotReading EXCEPT !.revision = v, !.attempt = n].attempt = n
  BY <1>2 DEF Readings
<1> QED
  BY <1>2, <1>3

LEMMA SnapshotStepKeeps ==
    ASSUME IInv, SnapshotStep
    PROVE  IInv'
<1>1. UNCHANGED <<memory, store, revision, request, bookkeeping>>
  BY DEF SnapshotStep, SnapshotBegin, SnapshotRead, SnapshotEnd
<1>2. RequestsWellFormed' /\ Consistent(store)' /\ Agreement'
  BY <1>1 DEF bookkeeping, IInv, RequestsWellFormed, WellFormed, Consistent, Agreement,
              AgreesOn, Progress, Alike, MadeUp
<1>3. Announced' = Announced
  BY <1>1 DEF Announced, Unannounced, bookkeeping
<1>4. client \in Readings
  BY DEF IInv, TypeOK
<1>5. NotReading \in Readings
  BY ReadingType
<1>6. revision \in Nat \ 0 .. 2 /\ memory \in [Objects -> Values] /\ Announced \subseteq Objects
  BY DEF IInv, TypeOK, Announced
<1>7. CASE SnapshotBegin
  <2>1. client' = [NotReading EXCEPT !.revision = revision, !.attempt = 1] /\ got' = got
    BY <1>7 DEF SnapshotBegin
  <2>2. client'.next = 1 /\ client'.revision = revision /\ client'.attempt = 1
    <3>1. revision \in Nat /\ 1 \in 0 .. 3
      BY <1>6
    <3> QED
      BY <2>1, <3>1, ReadingType
  <2>3. client' \in Readings
    <3>1. revision \in Nat /\ 1 \in 0 .. 3
      BY <1>6
    <3> QED
      BY <2>1, <3>1, ReadingType
  <2>4. TypeOK'
    BY <1>1, <2>1, <2>3 DEF IInv, TypeOK, bookkeeping
  <2>5. SnapshotsSound'
    BY <1>1, <1>3, <1>6, <2>1, <2>2 DEF IInv, SnapshotsSound, ReadBy, bookkeeping
  <2> QED
    BY <1>2, <2>4, <2>5 DEF IInv
<1>8. CASE SnapshotRead
  <2> DEFINE c == [o \in Objects |-> IF Kind(o) \in Reads[client.next] THEN memory[o] ELSE client.content[o]]
  <2>1. /\ client.attempt > 0 /\ client.next \in 1 .. 5 /\ got' = got
        /\ client' = [client EXCEPT !.next = client.next + 1, !.content = c]
    BY <1>4, <1>8 DEF SnapshotRead, Reads, Readings
  <2>2. c \in [Objects -> Values]
    BY <1>4, <1>6 DEF Readings
  <2>3. client.next + 1 \in 1 .. 6
    BY <2>1
  <2>4. /\ client' \in Readings
        /\ client'.next = client.next + 1 /\ client'.revision = client.revision
        /\ client'.attempt = client.attempt /\ client'.content = c
    <3> HIDE DEF c
    <3> QED
      BY <1>4, <2>1, <2>2, <2>3 DEF Readings
  <2>5. TypeOK'
    BY <1>1, <2>1, <2>4 DEF IInv, TypeOK, bookkeeping
  <2>6. ASSUME NEW o \in Announced, client.revision = revision, ReadBy(o, client.next + 1)
        PROVE  c[o] = memory[o]
    <3>1. CASE Kind(o) \in Reads[client.next]
      BY <1>6, <3>1
    <3>2. CASE Kind(o) \notin Reads[client.next]
      <4>1. ReadBy(o, client.next)
        BY <1>4, <2>6, <3>2 DEF ReadBy, Readings
      <4> QED
        BY <1>6, <2>6, <3>2, <4>1 DEF IInv, SnapshotsSound
    <3> QED
      BY <3>1, <3>2
  <2>7. /\ restarts' = restarts /\ revision' = revision /\ memory' = memory
        /\ client.attempt \in 1 .. 3
    BY <1>1, <1>4, <2>1 DEF bookkeeping, Readings
  <2>8. \A o \in Announced : ReadBy(o, client.next)' <=> ReadBy(o, client.next + 1)
    BY <2>4 DEF ReadBy
  <2>9. client'.revision = revision =>
           \A o \in Announced' : ReadBy(o, client.next)' => client'.content[o] = memory'[o]
    BY <1>3, <2>4, <2>6, <2>7, <2>8
  <2>10. SnapshotsSound'
    BY <1>3, <2>1, <2>4, <2>7, <2>9 DEF IInv, SnapshotsSound
  <2> QED
    BY <1>2, <2>5, <2>10 DEF IInv
<1>9. CASE SnapshotEnd
  <2>1. client.next = 6
    BY <1>4, <1>9 DEF SnapshotEnd, Reads, Readings
  <2>2. \/ client' = NotReading
        \/ \E n \in 1 .. 3 : client' = [NotReading EXCEPT !.revision = revision, !.attempt = n]
    <3>1. client.attempt \in 1 .. 3
      BY <1>4, <2>1 DEF IInv, SnapshotsSound, Readings
    <3>2. client.attempt # 3 => client.attempt + 1 \in 1 .. 3
      BY <3>1
    <3> QED
      BY <1>9, <3>2 DEF SnapshotEnd
  <2>3. /\ client' \in Readings
        /\ client'.next = 1 /\ client'.revision \in {0, revision}
    <3>1. \A n \in 1 .. 3 : n \in 0 .. 3 /\ revision \in Nat
      BY <1>6
    <3>2. CASE client' = NotReading
      BY <3>2, ReadingType
    <3>3. CASE client' # NotReading
      <4>1. PICK n \in 1 .. 3 :
               client' = [NotReading EXCEPT !.revision = revision, !.attempt = n]
        BY <2>2, <3>3
      <4>2. n \in 0 .. 3 /\ revision \in Nat
        BY <3>1
      <4> QED
        BY <4>1, <4>2, ReadingType
    <3> QED
      BY <3>2, <3>3
  <2>4. \/ got' = got
        \/ /\ client.revision = revision
           /\ got' = [revision |-> revision, run |-> restarts, content |-> client.content]
    BY <1>9 DEF SnapshotEnd
  <2>5. TypeOK'
    <3>1. got' \in [revision : Nat, run : 0 .. MaxFaults, content : [Objects -> Values]]
      BY <1>4, <1>6, <2>4 DEF IInv, TypeOK, Readings
    <3> QED
      BY <1>1, <2>3, <3>1 DEF IInv, TypeOK, bookkeeping
  <2>6. ASSUME NEW o \in Announced, client.revision = revision
        PROVE  client.content[o] = memory[o]
    BY <1>6, <2>1, <2>6, ObjectOfKind DEF IInv, SnapshotsSound
  <2>7. got'.run = restarts /\ got'.revision = revision => \A o \in Announced : got'.content[o] = memory[o]
    BY <2>4, <2>6 DEF IInv, SnapshotsSound
  <2>8. got'.run <= restarts /\ (got'.run = restarts => got'.revision <= revision)
    BY <1>6, <2>4 DEF IInv, SnapshotsSound, TypeOK
  <2>9. SnapshotsSound'
    BY <1>1, <1>3, <1>6, <2>3, <2>7, <2>8 DEF SnapshotsSound, ReadBy, bookkeeping
  <2> QED
    BY <1>2, <2>5, <2>9 DEF IInv
<1> QED
  BY <1>7, <1>8, <1>9 DEF SnapshotStep

LEMMA HydratedAlike ==
    ASSUME NEW rows \in Rows
    PROVE  /\ Hydrated(rows) \in [Objects -> Values]
           /\ \A o \in Objects : \/ Hydrated(rows)[o] = rows[o]
                                 \/ /\ Hydrated(rows)[o] = Preset /\ rows[o] = None
                                    /\ Kind(o) \in {"tag", "policy"}
<1>1. \A o \in Objects : rows[o] \in Values /\ None \in Values /\ Preset \in Values
  BY DEF Rows, Values
<1>2. Kind(<<"policy", Global>>) = "policy"
  BY DEF Kind
<1>3. Hydrated(rows) \in [Objects -> Values]
  BY <1>1 DEF Hydrated
<1>4. ASSUME NEW o \in Objects
      PROVE  \/ Hydrated(rows)[o] = rows[o]
             \/ /\ Hydrated(rows)[o] = Preset /\ rows[o] = None
                /\ Kind(o) = "tag" \/ o = <<"policy", Global>>
  BY DEF Hydrated
<1> QED
  BY <1>2, <1>3, <1>4

\* Nothing is in progress and memory was just made from the rows.
LEMMA FreshStart ==
    ASSUME store \in Rows, memory = Hydrated(store), request = [h \in Handlers |-> Idle]
    PROVE  RequestsWellFormed /\ Agreement
<1>1. \A h \in Handlers : request[h] = Idle
  OBVIOUS
<1>2. \A o \in Objects : Alike(o)
  BY HydratedAlike DEF Alike, MadeUp
<1> QED
  BY <1>1, <1>2, IdleWellFormed DEF RequestsWellFormed, Agreement, AgreesOn, Idle

LEMMA FreshStartNext ==
    ASSUME store' \in Rows, memory' = Hydrated(store'), request' = [h \in Handlers |-> Idle]
    PROVE  RequestsWellFormed' /\ Agreement'
<1>1. \A h \in Handlers : request'[h] = Idle
  OBVIOUS
<1>2. \A o \in Objects : Alike(o)'
  BY HydratedAlike DEF Alike, MadeUp
<1>3. RequestsWellFormed'
  <2>1. \A h \in Handlers : WellFormed(request'[h])
    BY <1>1, IdleWellFormed
  <2> QED
    BY <2>1 DEF RequestsWellFormed, WellFormed
<1>4. Agreement'
  BY <1>1, <1>2 DEF Agreement, AgreesOn, Idle
<1> QED
  BY <1>3, <1>4

LEMMA RestartKeeps ==
    ASSUME IInv, Restart
    PROVE  IInv'
<1>1. /\ memory' = Hydrated(store) /\ store' = store /\ revision' = 3
      /\ request' = [h \in Handlers |-> Idle] /\ client' = NotReading
      /\ torn' = {} /\ silent' = {} /\ restarts' = restarts + 1
      /\ UNCHANGED <<got, issued, failures>>
  BY DEF Restart
<1>2. store \in Rows /\ got.run <= restarts /\ restarts \in 0 .. MaxFaults /\ got.run \in 0 .. MaxFaults
  BY DEF IInv, TypeOK, SnapshotsSound
<1>3. RequestsWellFormed' /\ Agreement'
  BY <1>1, <1>2, FreshStartNext
<1>4. Consistent(store)'
  BY <1>1 DEF IInv, Consistent
<1>5. TypeOK'
  <2>1. restarts' \in 0 .. MaxFaults
    BY ConstantsAssumption DEF Restart, IInv, TypeOK
  <2>2. memory' \in [Objects -> Values] /\ client' \in Readings
    BY <1>1, <1>2, HydratedAlike, ReadingType
  <2>3. request' \in [Handlers -> Requests]
    BY <1>1, IdleWellFormed
  <2> QED
    BY <1>1, <2>1, <2>2, <2>3 DEF IInv, TypeOK
<1>6. SnapshotsSound'
  <2>1. got'.run < restarts'
    BY <1>1, <1>2
  <2>2. client'.next = 1 /\ client'.revision = 0 /\ revision' = 3
    BY <1>1, ReadingType
  <2> QED
    BY <1>1, <1>2, <2>1, <2>2 DEF SnapshotsSound
<1> QED
  BY <1>3, <1>4, <1>5, <1>6 DEF IInv

LEMMA InitInv == Init => IInv
<1> SUFFICES ASSUME Init PROVE IInv
  OBVIOUS
<1>1. /\ memory = Hydrated(store) /\ store \in Rows /\ Consistent(store)
      /\ request = [h \in Handlers |-> Idle]
  BY KeptAssumption DEF Init
<1>2. RequestsWellFormed /\ Agreement
  BY <1>1, FreshStart
<1>3. TypeOK
  <2>1. memory \in [Objects -> Values]
    BY <1>1, HydratedAlike
  <2>5. client = NotReading
    BY DEF Init
  <2>6. client \in Readings
    BY <2>5, ReadingType
  <2>2. request \in [Handlers -> Requests]
    BY <1>1, IdleWellFormed
  <2>3. [o \in Objects |-> None] \in [Objects -> Values]
    BY DEF Values
  <2>4. got \in [revision : Nat, run : 0 .. MaxFaults, content : [Objects -> Values]]
    BY <2>3, ConstantsAssumption DEF Init, NoSnapshot
  <2> QED
    BY <1>1, <2>1, <2>2, <2>4, <2>6, ConstantsAssumption DEF Init, TypeOK
<1>4. SnapshotsSound
  <2>1. got.run = 0 /\ got.revision = 0
    BY DEF Init, NoSnapshot
  <2>2. client.next = 1 /\ client.revision = 0
    BY ReadingType DEF Init
  <2> QED
    BY <2>1, <2>2 DEF Init, SnapshotsSound
<1> QED
  BY <1>1, <1>2, <1>3, <1>4 DEF IInv

-----------------------------------------------------------------------------
(* Every request                                                           *)

LEMMA UserRequestKeeps ==
    ASSUME IInv, NEW h \in Handlers, UserRequest(h)
    PROVE  IInv'
<1>1. New \in Values \ {Preset} /\ None \in Values \ {Preset}
  <2>1. issued < MaxRequests
    BY DEF UserRequest, CreateUser, UpdateUser, DeleteUser, AssignDeviceUser,
           UnassignDeviceUser, RenameDevice, StoreFirst, Begin
  <2> QED
    BY <2>1, NewIsAValue DEF IInv
<1>2. \A u \in Users : u \in Values \ {Preset}
  BY ConstantsAssumption DEF Values
<1>3. ASSUME NEW u \in Users, CreateUser(h, u) \/ UpdateUser(h, u) \/ DeleteUser(h, u)
      PROVE  IInv'
  <2>1. <<"user", u>> \in Objects /\ Kind(<<"user", u>>) = "user"
    BY ObjectKinds DEF Kind
  <2>2. PICK v \in {New, None} : StoreFirst(h, <<"user", u>>, v)
    BY <1>3 DEF CreateUser, UpdateUser, DeleteUser
  <2> QED
    BY <1>1, <2>1, <2>2, StoreFirstKeeps DEF StoredFirst
<1>4. ASSUME NEW d \in Devices, NEW u \in Users, AssignDeviceUser(h, d, u)
      PROVE  IInv'
  <2>1. <<"owner", d>> \in Objects /\ Kind(<<"owner", d>>) = "owner"
    BY ObjectKinds DEF Kind
  <2>2. StoreFirst(h, <<"owner", d>>, u)
    BY <1>4 DEF AssignDeviceUser
  <2> QED
    BY <1>2, <2>1, <2>2, StoreFirstKeeps DEF StoredFirst
<1>5. ASSUME NEW d \in Devices, UnassignDeviceUser(h, d)
      PROVE  IInv'
  <2>1. <<"owner", d>> \in Objects /\ Kind(<<"owner", d>>) = "owner"
    BY ObjectKinds DEF Kind
  <2>2. StoreFirst(h, <<"owner", d>>, None)
    BY <1>5 DEF UnassignDeviceUser
  <2> QED
    BY <1>1, <2>1, <2>2, StoreFirstKeeps DEF StoredFirst
<1>6. ASSUME NEW d \in Devices, RenameDevice(h, d)
      PROVE  IInv'
  <2>1. <<"name", d>> \in Objects /\ Kind(<<"name", d>>) = "name"
    BY ObjectKinds DEF Kind
  <2>2. StoreFirst(h, <<"name", d>>, New)
    BY <1>6 DEF RenameDevice
  <2> QED
    BY <1>1, <2>1, <2>2, StoreFirstKeeps DEF StoredFirst
<1> QED
  BY <1>3, <1>4, <1>5, <1>6 DEF UserRequest

LEMMA EngineRequestKeeps ==
    ASSUME IInv, NEW h \in Handlers, EngineRequest(h)
    PROVE  IInv'
<1>1. CASE ImportPolicies(h)
  BY <1>1, ImportPoliciesKeeps
<1>2. CASE ~ImportPolicies(h)
  <2>1. \E o \in Objects : /\ Kind(o) \notin StoredFirst
                           /\ \E v \in {New, None}, step \in {"persist", "toggle"} : MemoryFirst(h, o, v, step)
    <3>1. ASSUME NEW d \in Devices, AssignDeviceTag(h, d)
          PROVE  \E v \in {New, None} : MemoryFirst(h, <<"tag of", d>>, v, "persist")
      BY <3>1 DEF AssignDeviceTag
    <3>2. ASSUME NEW t \in Tags, CreateTag(h, t) \/ UpdateTag(h, t) \/ DeleteTag(h, t)
          PROVE  \E v \in {New, None} : MemoryFirst(h, <<"tag", t>>, v, "persist")
      BY <3>2 DEF CreateTag, UpdateTag, DeleteTag
    <3>3. ASSUME NEW p \in Policies, PutPolicy(h, p) \/ DeletePolicy(h, p)
          PROVE  \E v \in {New, None} : MemoryFirst(h, <<"policy", p>>, v, "persist")
      BY <3>3 DEF PutPolicy, DeletePolicy
    <3>4. ASSUME NEW s \in Schedules, PutSchedule(h, s) \/ DeleteSchedule(h, s)
          PROVE  \E v \in {New, None} : MemoryFirst(h, <<"schedule", s>>, v, "persist")
      BY <3>4 DEF PutSchedule, DeleteSchedule
    <3>5. ASSUME ToggleVacationMode(h)
          PROVE  Global \in Policies /\ MemoryFirst(h, <<"policy", Global>>, New, "toggle")
      BY <3>5, ConstantsAssumption DEF ToggleVacationMode
    <3>6. \A x : /\ Kind(<<"tag of", x>>) \notin StoredFirst /\ Kind(<<"tag", x>>) \notin StoredFirst
                 /\ Kind(<<"policy", x>>) \notin StoredFirst /\ Kind(<<"schedule", x>>) \notin StoredFirst
      BY DEF Kind, StoredFirst
    <3>7. CASE \E d \in Devices : AssignDeviceTag(h, d)
      BY <3>1, <3>6, <3>7, ObjectKinds
    <3>8. CASE \E t \in Tags : CreateTag(h, t) \/ UpdateTag(h, t) \/ DeleteTag(h, t)
      BY <3>2, <3>6, <3>8, ObjectKinds
    <3>9. CASE \E p \in Policies : PutPolicy(h, p) \/ DeletePolicy(h, p)
      BY <3>3, <3>6, <3>9, ObjectKinds
    <3>10. CASE \E s \in Schedules : PutSchedule(h, s) \/ DeleteSchedule(h, s)
      BY <3>4, <3>6, <3>10, ObjectKinds
    <3>11. CASE ToggleVacationMode(h)
      BY <3>5, <3>6, <3>11, ObjectKinds
    <3> QED
      BY <1>2, <3>7, <3>8, <3>9, <3>10, <3>11 DEF EngineRequest
  <2>2. PICK o \in Objects, v \in {New, None}, step \in {"persist", "toggle"} :
           Kind(o) \notin StoredFirst /\ MemoryFirst(h, o, v, step)
    BY <2>1
  <2>3. New \in Values \ {Preset} /\ None \in Values \ {Preset}
    <3>1. issued < MaxRequests
      BY <2>2 DEF MemoryFirst, Begin
    <3> QED
      BY <3>1, NewIsAValue DEF IInv
  <2> QED
    BY <2>2, <2>3, MemoryFirstKeeps
<1> QED
  BY <1>1, <1>2

LEMMA NextInv == IInv /\ [Next]_vars => IInv'
<1> SUFFICES ASSUME IInv, [Next]_vars PROVE IInv'
  OBVIOUS
<1>1. CASE \E h \in Handlers : UserRequest(h) \/ EngineRequest(h)
  BY <1>1, UserRequestKeeps, EngineRequestKeeps
<1>2. CASE \E h \in Handlers : HandlerStep(h)
  BY <1>2, SaveKeeps, RefusedKeeps, RememberKeeps, PersistKeeps, PersistFailsKeeps, BumpKeeps
     DEF HandlerStep
<1>3. CASE SnapshotStep
  BY <1>3, SnapshotStepKeeps
<1>4. CASE Restart
  BY <1>4, RestartKeeps
<1>5. CASE UNCHANGED vars
  BY <1>5 DEF vars, bookkeeping, IInv, TypeOK, RequestsWellFormed, WellFormed, Consistent,
              Agreement, AgreesOn, Progress, Alike, MadeUp, SnapshotsSound, Announced, Unannounced, ReadBy
<1> QED
  BY <1>1, <1>2, <1>3, <1>4, <1>5 DEF Next

LEMMA Invariance == Spec => []IInv
BY InitInv, NextInv, PTL DEF Spec

-----------------------------------------------------------------------------
(* What the API promises                                                   *)

\* Memory, rows, requests and snapshots are well formed at every step of the
\* handlers of handlers.go.
THEOREM TypeCorrect == Spec => []TypeOK
<1>1. IInv => TypeOK
  BY DEF IInv
<1> QED
  BY Invariance, <1>1, PTL

\* DeleteUserIfUnassigned and AssignDeviceToUser decide in the statement that
\* writes, which is all it takes: no row ever assigns a device to a user who is
\* not there, whatever the handlers have seen in memory before.
THEOREM AssignedUsersExistAlways == Spec => []AssignedUsersExist
<1>1. IInv => AssignedUsersExist
  BY DEF IInv, Consistent, AssignedUsersExist
<1> QED
  BY Invariance, <1>1, PTL

\* When no request is in progress a restart would change nothing that is not
\* torn: every handler and LoadHydrate leave memory and rows alike.
THEOREM ServedIsStoredAlways == Spec => []ServedIsStored
<1>1. ASSUME IInv, Busy = {} PROVE \A o \in Objects \ torn : Alike(o)
  <2>1. \A h \in Handlers : request[h].objects = {}
    BY <1>1 DEF IInv, Busy, RequestsWellFormed, WellFormed
  <2> QED
    BY <1>1, <2>1 DEF IInv, Agreement, AgreesOn
<1>2. IInv => ServedIsStored
  BY <1>1 DEF ServedIsStored, Alike, MadeUp
<1> QED
  BY Invariance, <1>2, PTL

\* The devices that are served as assigned have their users: it follows from
\* the rows and from what is served being stored.
THEOREM ServedUsersExistAlways == Spec => []ServedUsersExist
<1>1. ASSUME IInv, Busy = {}, NEW d \in Devices, memory[<<"owner", d>>] # None,
             <<"owner", d>> \notin torn, <<"user", memory[<<"owner", d>>]>> \notin torn
      PROVE  memory[<<"user", memory[<<"owner", d>>]>>] # None
  <2>1. \A o \in Objects \ torn : Alike(o)
    <3>1. \A h \in Handlers : request[h].objects = {}
      BY <1>1 DEF IInv, Busy, RequestsWellFormed, WellFormed
    <3> QED
      BY <1>1, <3>1 DEF IInv, Agreement, AgreesOn
  <2> DEFINE u == memory[<<"owner", d>>]
  <2>2. Alike(<<"owner", d>>) /\ Kind(<<"owner", d>>) = "owner"
    BY <1>1, <2>1, ObjectKinds DEF Kind
  <2>3. store[<<"owner", d>>] = u
    BY <2>2 DEF Alike, MadeUp
  <2>4. u \in Users /\ store[<<"user", u>>] # None
    BY <1>1, <2>3 DEF IInv, Consistent
  <2>5. Alike(<<"user", u>>)
    BY <1>1, <2>1, <2>4, ObjectKinds
  <2> QED
    BY <2>4, <2>5, ConstantsAssumption DEF Alike
<1>2. IInv => ServedUsersExist
  BY <1>1 DEF ServedUsersExist
<1> QED
  BY Invariance, <1>2, PTL

\* Snapshot and tryTrigger: a client that is answered 304 has what is served,
\* but for what has not been announced; the cache announces at once.
THEOREM ETagIsSoundAlways == Spec => []ETagIsSound
<1>1. IInv => ETagIsSound
  BY DEF IInv, SnapshotsSound, ETagIsSound, Announced
<1> QED
  BY Invariance, <1>1, PTL
=============================================================================
