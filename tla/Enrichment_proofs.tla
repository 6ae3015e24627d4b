-------------------------- MODULE Enrichment_proofs --------------------------
(* A device is pending while exactly one goroutine or place in the channel is *)
(* responsible for it, and it is not scanned more often than its attempts     *)
(* allow, for any devices, callers, workers, providers and queue size.        *)
EXTENDS Enrichment, TLAPS

WorkerStates == {Idle} \cup Clearing \cup Executing \cup Enriching \cup Writing

\* At most one holder, in the three parts of Holders.
Alone(d) ==
    /\ \A c1, c2 \in PushersOf(d) : c1 = c2
    /\ \A i, j \in PlacesOf(d) : i = j
    /\ \A w1, w2 \in WorkersOf(d) : w1 = w2
    /\ PushersOf(d) = {} \/ PlacesOf(d) = {}
    /\ PushersOf(d) = {} \/ WorkersOf(d) = {}
    /\ PlacesOf(d) = {} \/ WorkersOf(d) = {}

Held(d) == PushersOf(d) # {} \/ PlacesOf(d) # {} \/ WorkersOf(d) # {}

Holding == \A d \in Devices : Alone(d) /\ (pending[d] # NotPending <=> Held(d))

\* The device's worker is between Get and the end of WriteAgain.
Carries(w, d) == worker[w].at \in {"enrich", "write", "again"} /\ worker[w].device = d
Writes(w, d) == worker[w].at = "write" /\ worker[w].device = d

\* The attempts of a record account for the scans, in the clone of a worker and,
\* unless a worker is about to overwrite it, in the cache.
Counted(d) ==
    /\ scans[d] <= MaxRetries
    /\ \A w \in Workers : Carries(w, d) => scans[d] <= worker[w].clone.attempts
    /\ cache[d] # Gone /\ (\A w \in Workers : ~Writes(w, d)) => scans[d] <= cache[d].attempts

Counting == \A d \in Devices : Counted(d)

Inv == TypeOK /\ Holding /\ Counting

-----------------------------------------------------------------------------
(* What is in the states                                                   *)

LEMMA CallerStates ==
    /\ Idle.at = "idle"
    /\ \A d \in Devices : [at |-> "push", device |-> d] \in Pushing
    /\ \A s \in Pushing : s.at = "push" /\ s.device \in Devices
BY DEF Idle, Pushing

LEMMA WorkerRecords ==
    /\ \A d \in Devices : [at |-> "clear", device |-> d] \in Clearing
    /\ \A d \in Devices, f \in BOOLEAN : [at |-> "get", device |-> d, force |-> f] \in Executing
    /\ \A d \in Devices, f \in BOOLEAN, r \in Records :
          [at |-> "enrich", device |-> d, force |-> f, clone |-> r] \in Enriching
    /\ \A d \in Devices, r \in Records :
          [at |-> "write", device |-> d, clone |-> r] \in Writing
BY DEF Clearing, Executing, Enriching, Writing

LEMMA WorkerFields ==
    ASSUME NEW s \in WorkerStates
    PROVE  /\ s.at # "idle" => s # Idle /\ s.device \in Devices
           /\ s # Idle => s.device \in Devices /\ s.at # "idle"
           /\ s.at = "get" => s.force \in BOOLEAN
           /\ s.at = "enrich" => s.force \in BOOLEAN /\ s.clone \in Records
           /\ s.at \in {"write", "again"} => s \in Writing /\ s.clone \in Records
BY DEF WorkerStates, Idle, Clearing, Executing, Enriching, Writing

LEMMA ToAgain ==
    ASSUME NEW s \in Writing
    PROVE  /\ [s EXCEPT !.at = "again"] \in Writing
           /\ [s EXCEPT !.at = "again"].device = s.device
BY DEF Writing

LEMMA Identify ==
    ASSUME NEW r \in Records
    PROVE  [r EXCEPT !.identified = TRUE] \in Records
BY DEF Records

LEMMA Rescanned ==
    ASSUME NEW r \in Records
    PROVE  [r EXCEPT !.scanned = FALSE] \in Records
BY DEF Records

LEMMA PrimariesType ==
    ASSUME NEW r \in Records, NEW found \in Primaries(r)
    PROVE  found.record \in Records
BY Identify DEF Primaries

LEMMA ScannedType ==
    ASSUME NEW r \in Records, NEW changed, NEW result \in Scanned(r, changed)
    PROVE  result.record \in Records
<1> DEFINE n == Capped(r.attempts + 1, MaxRetries)
           counted == [r EXCEPT !.attempts = n, !.scanned = TRUE]
           success == [counted EXCEPT !.attempts = 0]
<1>1. n \in 0 .. MaxRetries
  BY MaxRetriesAssumption DEF Capped, Records
<1>2. counted \in Records
  BY <1>1 DEF Records
<1>3. success \in Records
  <2>1. 0 \in 0 .. MaxRetries
    BY MaxRetriesAssumption
  <2> HIDE DEF counted
  <2> QED
    BY <1>2, <2>1 DEF Records
<1>4. [success EXCEPT !.identified = TRUE] \in Records
  BY <1>3, Identify
<1>5. result.record \in {counted, success, [success EXCEPT !.identified = TRUE]}
  BY DEF Scanned
<1> QED
  BY <1>2, <1>3, <1>4, <1>5

LEMMA QueueStep ==
    ASSUME queue \in Seq(Devices)
    PROVE  /\ Len(queue) \in Nat
           /\ \A d \in Devices : /\ Append(queue, d) \in Seq(Devices)
                                 /\ Len(Append(queue, d)) = Len(queue) + 1
           /\ queue # <<>> => /\ Head(queue) \in Devices /\ Head(queue) = queue[1]
                              /\ Len(queue) > 0
                              /\ Tail(queue) \in Seq(Devices)
                              /\ Len(Tail(queue)) = Len(queue) - 1
                              /\ \A i \in 1 .. Len(queue) - 1 : Tail(queue)[i] = queue[i + 1]
<1>1. Len(queue) \in Nat
  OBVIOUS
<1>2. \A d \in Devices : Append(queue, d) \in Seq(Devices) /\ Len(Append(queue, d)) = Len(queue) + 1
  OBVIOUS
<1>3. queue # <<>> => Head(queue) \in Devices /\ Head(queue) = queue[1] /\ Len(queue) > 0
  OBVIOUS
<1>4. queue # <<>> => Tail(queue) \in Seq(Devices) /\ Len(Tail(queue)) = Len(queue) - 1
  OBVIOUS
<1>5. queue # <<>> => \A i \in 1 .. Len(queue) - 1 : Tail(queue)[i] = queue[i + 1]
  OBVIOUS
<1> QED
  BY <1>1, <1>2, <1>3, <1>4, <1>5

LEMMA InitInv == Init => Inv
<1> SUFFICES ASSUME Init PROVE Inv
  OBVIOUS
<1>1. TypeOK
  <2>1. \A d \in Devices : [identified |-> d \in Known, attempts |-> 0, scanned |-> FALSE] \in Records
    BY MaxRetriesAssumption DEF Records
  <2>2. <<>> \in Seq(Devices) /\ Len(<<>>) <= QueueSize
    BY QueueSizeAssumption
  <2>3. 0 \in 0 .. MaxRetries + 1
    BY MaxRetriesAssumption
  <2> QED
    BY <2>1, <2>2, <2>3 DEF Init, TypeOK, Marks
<1>2. \A d \in Devices : PushersOf(d) = {} /\ PlacesOf(d) = {} /\ WorkersOf(d) = {}
  <2> TAKE d \in Devices
  <2>1. PushersOf(d) = {}
    BY CallerStates DEF Init, PushersOf
  <2>2. Len(queue) = 0
    BY DEF Init
  <2>3. PlacesOf(d) = {}
    BY <2>2 DEF PlacesOf
  <2>4. WorkersOf(d) = {}
    BY DEF Init, WorkersOf
  <2> QED
    BY <2>1, <2>3, <2>4
<1>3. Holding
  BY <1>2 DEF Holding, Alone, Held, Init
<1>4. Counting
  <2>1. \A w \in Workers, d \in Devices : ~Carries(w, d)
    BY DEF Init, Carries, Idle
  <2>2. \A d \in Devices : scans[d] = 0 /\ cache[d].attempts = 0
    BY DEF Init
  <2>3. 0 <= MaxRetries
    BY MaxRetriesAssumption
  <2>4. ASSUME NEW d \in Devices PROVE Counted(d)
    BY <2>1, <2>2, <2>3 DEF Counted
  <2> QED
    BY <2>4 DEF Counting
<1> QED
  BY <1>1, <1>3, <1>4 DEF Inv

-----------------------------------------------------------------------------
(* TypeOK is preserved                                                     *)

LEMMA StepType ==
    ASSUME TypeOK, [Next]_vars
    PROVE  TypeOK'
<1> USE DEF TypeOK
<1>1. ASSUME NEW c \in Callers, NEW d \in Devices, NEW force \in BOOLEAN, Coalesce(c, d, force)
      PROVE  TypeOK'
  BY <1>1 DEF Coalesce, Marks
<1>2. ASSUME NEW c \in Callers, NEW d \in Devices, NEW force \in BOOLEAN, Admit(c, d, force)
      PROVE  TypeOK'
  BY <1>2, CallerStates DEF Admit, Marks
<1>3. ASSUME NEW c \in Callers, Push(c) PROVE TypeOK'
  <2>1. caller[c].device \in Devices
    BY <1>3, CallerStates DEF Push
  <2>2. queue' \in Seq(Devices) /\ Len(queue') <= QueueSize
    BY <1>3, <2>1, QueueStep, QueueSizeAssumption DEF Push
  <2> QED
    BY <1>3, <2>2 DEF Push
<1>4. ASSUME NEW c \in Callers, Drop(c) PROVE TypeOK'
  BY <1>4 DEF Drop, Marks
<1>5. ASSUME NEW w \in Workers, Take(w) PROVE TypeOK'
  <2>1. /\ queue # <<>> /\ Head(queue) \in Devices
        /\ Tail(queue) \in Seq(Devices) /\ Len(Tail(queue)) <= QueueSize
    BY <1>5, QueueStep, QueueSizeAssumption DEF Take
  <2> QED
    BY <1>5, <2>1, WorkerRecords DEF Take
<1>6. ASSUME NEW w \in Workers, Get(w) PROVE TypeOK'
  <2>1. worker[w].device \in Devices /\ worker[w].force \in BOOLEAN
    BY <1>6, WorkerFields DEF Get, WorkerStates
  <2>2. CASE cache[worker[w].device] = Gone \/ (~worker[w].force /\ worker[w].device \in cooling)
    BY <1>6, <2>1, <2>2, WorkerRecords DEF Get
  <2>3. CASE ~(cache[worker[w].device] = Gone \/ (~worker[w].force /\ worker[w].device \in cooling))
    <3>1. cache[worker[w].device] \in Records
      BY <2>1, <2>3
    <3> QED
      BY <1>6, <2>1, <2>3, <3>1, WorkerRecords DEF Get
  <2> QED
    BY <2>2, <2>3
<1>7. ASSUME NEW w \in Workers, Enrich(w) PROVE TypeOK'
  <2>1. worker[w].device \in Devices /\ worker[w].clone \in Records
    BY <1>7, WorkerFields DEF Enrich, WorkerStates
  <2>2. PICK found \in Primaries(worker[w].clone) :
           \/ /\ ~ShouldRunNmap(found.record, worker[w].force)
              /\ worker' = [worker EXCEPT ![w] =
                     IF found.changed
                     THEN [at |-> "write", device |-> worker[w].device, clone |-> found.record]
                     ELSE [at |-> "clear", device |-> worker[w].device]]
              /\ UNCHANGED scans
           \/ \E result \in Scanned(found.record, found.changed) :
                /\ worker' = [worker EXCEPT ![w] =
                       [at |-> "write", device |-> worker[w].device, clone |-> result.record]]
                /\ scans' = [scans EXCEPT ![worker[w].device] =
                       IF result.record.attempts = 0 THEN 0
                       ELSE IF worker[w].force THEN @ ELSE Capped(@ + 1, MaxRetries + 1)]
    BY <1>7 DEF Enrich
  <2>3. found.record \in Records
    BY <2>1, PrimariesType
  <2>4. \A result \in Scanned(found.record, found.changed) : result.record \in Records
    BY <2>3, ScannedType
  <2>5. \A n \in 0 .. MaxRetries + 1 : Capped(n + 1, MaxRetries + 1) \in 0 .. MaxRetries + 1
    BY MaxRetriesAssumption DEF Capped
  <2>6. worker' \in [Workers -> WorkerStates]
    BY <2>1, <2>2, <2>3, <2>4, WorkerRecords DEF WorkerStates
  <2>7. scans' \in [Devices -> 0 .. MaxRetries + 1]
    BY <2>1, <2>2, <2>5, MaxRetriesAssumption
  <2> QED
    BY <1>7, <2>6, <2>7 DEF Enrich, WorkerStates
<1>8. ASSUME NEW w \in Workers, WriteBack(w) PROVE TypeOK'
  <2>1. worker[w] \in Writing /\ worker[w].device \in Devices /\ worker[w].clone \in Records
    BY <1>8, WorkerFields DEF WriteBack, WorkerStates
  <2> QED
    BY <1>8, <2>1, ToAgain DEF WriteBack
<1>9. ASSUME NEW w \in Workers, WriteAgain(w) PROVE TypeOK'
  <2>1. worker[w].device \in Devices /\ worker[w].clone \in Records
    BY <1>9, WorkerFields DEF WriteAgain, WorkerStates
  <2> QED
    BY <1>9, <2>1, WorkerRecords DEF WriteAgain
<1>10. ASSUME NEW w \in Workers, ClearPending(w) PROVE TypeOK'
  BY <1>10 DEF ClearPending, Marks
<1>11. ASSUME NEW p \in Providers, Observed(p) PROVE TypeOK'
  <2>1. provider[p].device \in Devices /\ provider[p].clone \in Records
    BY <1>11 DEF Observed, Observing, Idle
  <2>2. PICK r \in {provider[p].clone, [provider[p].clone EXCEPT !.identified = TRUE]} :
           cache' = [cache EXCEPT ![provider[p].device] = r]
    BY <1>11 DEF Observed
  <2>3. r \in Records
    BY <2>1, <2>2, Identify
  <2>4. scans' \in [Devices -> 0 .. MaxRetries + 1]
    BY <1>11, <2>1, MaxRetriesAssumption DEF Observed
  <2> QED
    BY <1>11, <2>2, <2>3, <2>4 DEF Observed
<1>12. ASSUME NEW p \in Providers, NEW d \in Devices, Observe(p, d) PROVE TypeOK'
  <2>1. [at |-> "observe", device |-> d, clone |-> cache[d]] \in Observing
    BY <1>12 DEF Observe, Observing
  <2> QED
    BY <1>12, <2>1 DEF Observe
<1>13. ASSUME NEW d \in Devices, Purge(d) PROVE TypeOK'
  BY <1>13 DEF Purge
<1>14. ASSUME NEW d \in Devices, CoolDown(d) PROVE TypeOK'
  BY <1>14 DEF CoolDown
<1>15. ASSUME NEW d \in Devices, NmapCoolDown(d) PROVE TypeOK'
  BY <1>15, Rescanned DEF NmapCoolDown
<1>16. CASE UNCHANGED vars
  BY <1>16 DEF vars
<1> QED
  BY <1>1, <1>2, <1>3, <1>4, <1>5, <1>6, <1>7, <1>8, <1>9, <1>10, <1>11, <1>12, <1>13,
     <1>14, <1>15, <1>16 DEF Next, Work

-----------------------------------------------------------------------------
(* Holding is preserved                                                    *)

\* Steps that move no request: whether a device is pending stays, and each
\* worker keeps its device.
LEMMA Unmoved ==
    ASSUME Holding,
           \A d \in Devices : pending'[d] = NotPending <=> pending[d] = NotPending,
           UNCHANGED <<queue, caller>>,
           \A w \in Workers : /\ worker'[w] = Idle <=> worker[w] = Idle
                              /\ worker[w] # Idle => worker'[w].device = worker[w].device
    PROVE  Holding'
<1>1. \A d \in Devices : /\ PushersOf(d)' = PushersOf(d) /\ PlacesOf(d)' = PlacesOf(d)
                         /\ WorkersOf(d)' = WorkersOf(d)
  BY DEF PushersOf, PlacesOf, WorkersOf
<1> QED
  BY <1>1 DEF Holding, Alone, Held

\* A worker that is busy goes on with the same device.
LEMMA SameDevice ==
    ASSUME TypeOK, Holding, NEW w \in Workers, worker[w] # Idle, NEW s,
           worker' = [worker EXCEPT ![w] = s], s # Idle, s.device = worker[w].device,
           UNCHANGED <<pending, queue, caller>>
    PROVE  Holding'
<1>1. \A v \in Workers : worker'[v] = IF v = w THEN s ELSE worker[v]
  BY DEF TypeOK
<1> QED
  BY <1>1, Unmoved

LEMMA StepHolding ==
    ASSUME TypeOK, TypeOK', Holding, [Next]_vars
    PROVE  Holding'
<1>1. ASSUME NEW c \in Callers, NEW d \in Devices, NEW force \in BOOLEAN, Coalesce(c, d, force)
      PROVE  Holding'
  <2>1. \A e \in Devices : pending'[e] = NotPending <=> pending[e] = NotPending
    BY <1>1 DEF Coalesce, TypeOK, NotPending
  <2> QED
    BY <1>1, <2>1, Unmoved DEF Coalesce
<1>2. ASSUME NEW c \in Callers, NEW d \in Devices, NEW force \in BOOLEAN, Admit(c, d, force)
      PROVE  Holding'
  <2>1. \A e \in Devices :
          /\ PushersOf(e)' = IF e = d THEN PushersOf(e) \cup {c} ELSE PushersOf(e)
          /\ PlacesOf(e)' = PlacesOf(e) /\ WorkersOf(e)' = WorkersOf(e)
    BY <1>2, CallerStates DEF Admit, Accepted, TypeOK, PushersOf, PlacesOf, WorkersOf
  <2>2. \A e \in Devices : e # d => pending'[e] = pending[e]
    BY <1>2 DEF Admit, TypeOK
  <2>3. pending[d] = NotPending /\ pending'[d] # NotPending
    BY <1>2 DEF Admit, TypeOK, NotPending
  <2>4. \A e \in Devices : e # d => Alone(e)' /\ (Held(e)' <=> Held(e))
    BY <2>1 DEF Holding, Alone, Held
  <2>5. Alone(d)' /\ Held(d)'
    BY <2>1, <2>3 DEF Holding, Alone, Held
  <2> QED
    BY <2>2, <2>3, <2>4, <2>5 DEF Holding
<1>3. ASSUME NEW c \in Callers, Push(c) PROVE Holding'
  <2>0. caller[c].device \in Devices
    BY <1>3, CallerStates DEF Push, TypeOK, PushersOf
  <2> PICK d \in Devices : d = caller[c].device
    BY <2>0
  <2>1. c \in PushersOf(d)
    BY <1>3, CallerStates DEF Push, TypeOK, PushersOf
  <2>2. \A e \in Devices : PushersOf(e)' = PushersOf(e) \ {c} /\ WorkersOf(e)' = WorkersOf(e)
    BY <1>3, CallerStates DEF Push, TypeOK, PushersOf, WorkersOf
  <2>3. \A e \in Devices : PlacesOf(e)' = IF e = d THEN PlacesOf(e) \cup {Len(queue) + 1}
                                          ELSE PlacesOf(e)
    BY <1>3, <2>1, QueueStep DEF Push, TypeOK, PlacesOf
  <2>4. \A e \in Devices : e # d => c \notin PushersOf(e)
    BY DEF PushersOf
  <2>5. PushersOf(d)' = {} /\ PlacesOf(d)' # {} /\ Alone(d)'
    BY <2>1, <2>2, <2>3 DEF Holding, Alone
  <2>6. \A e \in Devices : e # d => Alone(e)' /\ (Held(e)' <=> Held(e))
    BY <2>2, <2>3, <2>4 DEF Holding, Alone, Held
  <2>7. pending' = pending /\ Held(d) /\ Held(d)'
    BY <1>3, <2>1, <2>5 DEF Push, Held
  <2> QED
    BY <2>1, <2>5, <2>6, <2>7 DEF Holding
<1>4. ASSUME NEW c \in Callers, Drop(c) PROVE Holding'
  <2>0. caller[c].device \in Devices
    BY <1>4, CallerStates DEF Drop, TypeOK, PushersOf
  <2> PICK d \in Devices : d = caller[c].device
    BY <2>0
  <2>1. c \in PushersOf(d)
    BY <1>4, CallerStates DEF Drop, TypeOK, PushersOf
  <2>2. \A e \in Devices : /\ PushersOf(e)' = PushersOf(e) \ {c}
                           /\ WorkersOf(e)' = WorkersOf(e) /\ PlacesOf(e)' = PlacesOf(e)
    BY <1>4, CallerStates DEF Drop, TypeOK, PushersOf, WorkersOf, PlacesOf
  <2>3. \A e \in Devices : e # d => c \notin PushersOf(e)
    BY DEF PushersOf
  <2>4. Alone(d)' /\ ~Held(d)'
    BY <2>1, <2>2 DEF Holding, Alone, Held
  <2>5. \A e \in Devices : e # d => Alone(e)' /\ (Held(e)' <=> Held(e))
    BY <2>2, <2>3 DEF Holding, Alone, Held
  <2>6. \A e \in Devices : pending'[e] = IF e = d THEN NotPending ELSE pending[e]
    BY <1>4, <2>1 DEF Drop, TypeOK
  <2> QED
    BY <2>4, <2>5, <2>6 DEF Holding
<1>5. ASSUME NEW w \in Workers, Take(w) PROVE Holding'
  <2>0. Head(queue) \in Devices
    BY <1>5, QueueStep DEF Take, TypeOK, PlacesOf
  <2> PICK d \in Devices : d = Head(queue)
    BY <2>0
  <2>1. 1 \in PlacesOf(d)
    BY <1>5, QueueStep DEF Take, TypeOK, PlacesOf
  <2>2. \A v \in Workers : /\ v # w => worker'[v] = worker[v]
                           /\ worker'[w] # Idle /\ worker'[w].device = d
    <3>1. \A e, f : /\ [at |-> "clear", device |-> e] # Idle
                    /\ [at |-> "get", device |-> e, force |-> f] # Idle
      BY DEF Idle
    <3> QED
      BY <1>5, <3>1 DEF Take, TypeOK
  <2>3. \A e \in Devices : WorkersOf(e)' = IF e = d THEN WorkersOf(e) \cup {w} ELSE WorkersOf(e)
    BY <1>5, <2>2 DEF Take, WorkersOf
  <2>4. \A e \in Devices : PushersOf(e)' = PushersOf(e)
    BY <1>5 DEF Take, PushersOf
  <2>5. \A e \in Devices, i \in Nat :
          i \in PlacesOf(e)' <=> (i \in 1 .. Len(queue) - 1 /\ i + 1 \in PlacesOf(e))
    BY <1>5, QueueStep DEF Take, TypeOK, PlacesOf
  <2>6. \A e \in Devices : PlacesOf(e) \subseteq Nat \ {0} /\ PlacesOf(e)' \subseteq Nat
    BY <1>5, QueueStep DEF Take, TypeOK, PlacesOf
  <2>7. PlacesOf(d)' = {} /\ PlacesOf(d) = {1}
    BY <2>1, <2>5, <2>6 DEF Holding, Alone
  <2>8. Alone(d)' /\ Held(d)' /\ Held(d)
    BY <2>1, <2>3, <2>4, <2>7 DEF Holding, Alone, Held
  <2>9. ASSUME NEW e \in Devices, e # d PROVE Alone(e)' /\ (Held(e)' <=> Held(e))
    <3>1. \A i, j \in PlacesOf(e)' : i = j
      BY <2>5, <2>6, <2>9 DEF Holding, Alone
    <3>2. 1 \notin PlacesOf(e)
      BY <1>5, <2>9, QueueStep DEF Take, TypeOK, PlacesOf
    <3>3. PlacesOf(e)' = {} <=> PlacesOf(e) = {}
      <4>1. ASSUME NEW i \in PlacesOf(e) PROVE i - 1 \in PlacesOf(e)'
        <5>1. i \in 2 .. Len(queue) /\ Len(queue) \in Nat
          BY <3>2, <4>1, QueueStep DEF TypeOK, PlacesOf
        <5> QED
          BY <2>5, <4>1, <5>1
      <4>2. ASSUME NEW i \in PlacesOf(e)' PROVE i + 1 \in PlacesOf(e)
        BY <2>5, <2>6
      <4> QED
        BY <4>1, <4>2
    <3> QED
      BY <2>3, <2>4, <2>9, <3>1, <3>3 DEF Holding, Alone, Held
  <2>10. pending' = pending
    BY <1>5 DEF Take
  <2> QED
    BY <2>1, <2>8, <2>9, <2>10 DEF Holding
<1>6. ASSUME NEW w \in Workers, Get(w) PROVE Holding'
  <2>1. worker[w] # Idle /\ worker[w].device \in Devices
    BY <1>6, WorkerFields DEF Get, TypeOK, WorkerStates
  <2>2. PICK s \in {[at |-> "clear", device |-> worker[w].device],
                    [at |-> "enrich", device |-> worker[w].device, force |-> worker[w].force,
                     clone |-> cache[worker[w].device]]} :
          worker' = [worker EXCEPT ![w] = s]
    BY <1>6 DEF Get
  <2>3. s # Idle /\ s.device = worker[w].device
    BY <2>2 DEF Idle
  <2> QED
    BY <1>6, <2>1, <2>2, <2>3, SameDevice DEF Get
<1>7. ASSUME NEW w \in Workers, Enrich(w) PROVE Holding'
  <2>1. worker[w] # Idle
    BY <1>7, WorkerFields DEF Enrich, TypeOK, WorkerStates
  <2>2. PICK s : /\ worker' = [worker EXCEPT ![w] = s]
                 /\ \/ s = [at |-> "clear", device |-> worker[w].device]
                    \/ \E r : s = [at |-> "write", device |-> worker[w].device, clone |-> r]
    BY <1>7 DEF Enrich
  <2>3. s # Idle /\ s.device = worker[w].device
    BY <2>2 DEF Idle
  <2> QED
    BY <1>7, <2>1, <2>2, <2>3, SameDevice DEF Enrich
<1>8. ASSUME NEW w \in Workers, WriteBack(w) PROVE Holding'
  <2>1. worker[w] # Idle /\ worker[w] \in Writing
    BY <1>8, WorkerFields DEF WriteBack, TypeOK, WorkerStates
  <2>2. worker' = [worker EXCEPT ![w] = [worker[w] EXCEPT !.at = "again"]]
    BY <1>8 DEF WriteBack
  <2>3. /\ [worker[w] EXCEPT !.at = "again"] # Idle
        /\ [worker[w] EXCEPT !.at = "again"].device = worker[w].device
    BY <2>1, ToAgain, WorkerFields DEF WorkerStates, Writing, Idle
  <2> QED
    BY <1>8, <2>1, <2>2, <2>3, SameDevice DEF WriteBack
<1>9. ASSUME NEW w \in Workers, WriteAgain(w) PROVE Holding'
  <2>1. worker[w] # Idle
    BY <1>9, WorkerFields DEF WriteAgain, TypeOK, WorkerStates
  <2>2. [at |-> "clear", device |-> worker[w].device] # Idle
    BY DEF Idle
  <2> QED
    BY <1>9, <2>1, <2>2, SameDevice DEF WriteAgain
<1>10. ASSUME NEW w \in Workers, ClearPending(w) PROVE Holding'
  <2>0. worker[w].device \in Devices
    BY <1>10, WorkerFields DEF ClearPending, TypeOK, WorkerStates, WorkersOf
  <2> PICK d \in Devices : d = worker[w].device
    BY <2>0
  <2>1. w \in WorkersOf(d)
    BY <1>10, WorkerFields DEF ClearPending, TypeOK, WorkerStates, WorkersOf
  <2>2. \A e \in Devices : /\ WorkersOf(e)' = WorkersOf(e) \ {w}
                           /\ PushersOf(e)' = PushersOf(e) /\ PlacesOf(e)' = PlacesOf(e)
    BY <1>10 DEF ClearPending, TypeOK, PushersOf, WorkersOf, PlacesOf
  <2>3. \A e \in Devices : e # d => w \notin WorkersOf(e)
    BY DEF WorkersOf
  <2>4. Alone(d)' /\ ~Held(d)'
    BY <2>1, <2>2 DEF Holding, Alone, Held
  <2>5. \A e \in Devices : e # d => Alone(e)' /\ (Held(e)' <=> Held(e))
    BY <2>2, <2>3 DEF Holding, Alone, Held
  <2>6. \A e \in Devices : pending'[e] = IF e = d THEN NotPending ELSE pending[e]
    BY <1>10, <2>1 DEF ClearPending, TypeOK
  <2> QED
    BY <2>4, <2>5, <2>6 DEF Holding
<1>11. ASSUME UNCHANGED <<pending, queue, caller, worker>> PROVE Holding'
  BY <1>11, Unmoved
<1>12. ASSUME NEW p \in Providers, Observed(p) PROVE Holding'
  BY <1>11, <1>12 DEF Observed
<1>13. ASSUME NEW p \in Providers, NEW d \in Devices, Observe(p, d) PROVE Holding'
  BY <1>11, <1>13 DEF Observe
<1>14. ASSUME NEW d \in Devices, Purge(d) \/ CoolDown(d) \/ NmapCoolDown(d) PROVE Holding'
  BY <1>11, <1>14 DEF Purge, CoolDown, NmapCoolDown
<1>15. CASE UNCHANGED vars
  BY <1>11, <1>15 DEF vars
<1> QED
  BY <1>1, <1>2, <1>3, <1>4, <1>5, <1>6, <1>7, <1>8, <1>9, <1>10, <1>12, <1>13, <1>14,
     <1>15 DEF Next, Work

-----------------------------------------------------------------------------
(* Counting is preserved                                                   *)

\* What a record counts as at most.
LEMMA Attempts ==
    ASSUME NEW r \in Records
    PROVE  /\ r.attempts \in Nat /\ r.attempts <= MaxRetries
           /\ [r EXCEPT !.identified = TRUE].attempts = r.attempts
           /\ [r EXCEPT !.scanned = FALSE].attempts = r.attempts
BY MaxRetriesAssumption DEF Records

LEMMA PrimariesKeep ==
    ASSUME NEW r \in Records, NEW found \in Primaries(r)
    PROVE  found.record.attempts = r.attempts
<1>1. found.record \in {r, [r EXCEPT !.identified = TRUE]}
  BY DEF Primaries
<1> QED
  BY <1>1, Attempts

LEMMA ScannedCounts ==
    ASSUME NEW r \in Records, NEW changed, NEW result \in Scanned(r, changed)
    PROVE  result.record.attempts \in {0, Capped(r.attempts + 1, MaxRetries)}
<1> DEFINE n == Capped(r.attempts + 1, MaxRetries)
           counted == [r EXCEPT !.attempts = n, !.scanned = TRUE]
           success == [counted EXCEPT !.attempts = 0]
<1>1. counted.attempts = n /\ success.attempts = 0
      /\ [success EXCEPT !.identified = TRUE].attempts = 0
  BY DEF Records
<1>2. result.record \in {counted, success, [success EXCEPT !.identified = TRUE]}
  BY DEF Scanned
<1> QED
  BY <1>1, <1>2

\* Steps that leave the scans and the workers alone, and the records that are
\* in the cache or their attempts.
LEMMA StillCounted ==
    ASSUME TypeOK, Counting, UNCHANGED <<worker, scans>>,
           \A d \in Devices : cache'[d] # Gone =>
               cache[d] # Gone /\ cache'[d].attempts = cache[d].attempts
    PROVE  Counting'
BY DEF Counting, Counted, Carries, Writes

\* A worker moves to a state in which it carries nothing.
LEMMA PutsDown ==
    ASSUME TypeOK, Counting, UNCHANGED <<cache, scans>>, NEW w \in Workers, NEW s,
           worker' = [worker EXCEPT ![w] = s], worker[w].at # "write",
           s.at \notin {"enrich", "write", "again"}
    PROVE  Counting'
<1>1. \A v \in Workers : worker'[v] = IF v = w THEN s ELSE worker[v]
  BY DEF TypeOK
<1>2. \A v \in Workers, d \in Devices : /\ Carries(v, d)' => Carries(v, d) /\ worker'[v] = worker[v]
                                        /\ Writes(v, d)' <=> Writes(v, d)
  BY <1>1 DEF Carries, Writes
<1> QED
  BY <1>2 DEF Counting, Counted

\* The worker that carries a device is the only one.
LEMMA OneCarries ==
    ASSUME TypeOK, Holding, NEW d \in Devices, NEW v \in Workers, NEW w \in Workers,
           worker[v] # Idle, worker[v].device = d, Carries(w, d)
    PROVE  v = w
<1>1. worker[w] # Idle
  BY DEF Carries, Idle
<1>2. v \in WorkersOf(d) /\ w \in WorkersOf(d)
  BY <1>1 DEF WorkersOf, Carries
<1> QED
  BY <1>2 DEF Holding, Alone

LEMMA GetCounts ==
    ASSUME TypeOK, Holding, Counting, NEW w \in Workers, Get(w)
    PROVE  Counting'
<1>1. worker[w] # Idle /\ worker[w].device \in Devices
  BY WorkerFields DEF Get, TypeOK, WorkerStates
<1> PICK d \in Devices : d = worker[w].device
  BY <1>1
<1>2. CASE cache[d] = Gone \/ (~worker[w].force /\ d \in cooling)
  BY <1>2, PutsDown DEF Get
<1>3. CASE ~(cache[d] = Gone \/ (~worker[w].force /\ d \in cooling))
  <2> DEFINE s == [at |-> "enrich", device |-> d, force |-> worker[w].force, clone |-> cache[d]]
  <2>1. worker' = [worker EXCEPT ![w] = s] /\ UNCHANGED <<cache, scans>>
    BY <1>3 DEF Get
  <2>2. \A v \in Workers : worker'[v] = IF v = w THEN s ELSE worker[v]
    BY <2>1 DEF TypeOK
  <2>3. \A v \in Workers : ~Carries(v, d)
    BY <1>1, OneCarries DEF Get, Carries
  <2>4. \A v \in Workers, e \in Devices :
           /\ Carries(v, e)' <=> (Carries(v, e) \/ (v = w /\ e = d))
           /\ Writes(v, e)' <=> Writes(v, e)
    BY <2>2 DEF Get, Carries, Writes
  <2>5. \A v \in Workers : ~Writes(v, d)
    BY <2>3 DEF Writes, Carries
  <2>6. scans[d] <= cache[d].attempts
    BY <1>3, <2>5 DEF Counting, Counted
  <2>7. \A e \in Devices, v \in Workers : Carries(v, e)' => scans[e] <= worker'[v].clone.attempts
    BY <2>2, <2>4, <2>6 DEF Counting, Counted, Get, Carries
  <2> QED
    BY <2>1, <2>4, <2>7 DEF Counting, Counted
<1> QED
  BY <1>2, <1>3

\* A worker ends a run of the enrichers with a record that accounts for the scans.
LEMMA EndsCounted ==
    ASSUME TypeOK, Holding, Counting, NEW w \in Workers, NEW d \in Devices, NEW r, NEW n \in Nat,
           worker[w] # Idle, worker[w].device = d, UNCHANGED cache,
           worker' = [worker EXCEPT ![w] = [at |-> "write", device |-> d, clone |-> r]],
           scans' = [scans EXCEPT ![d] = n], n <= r.attempts, n <= MaxRetries
    PROVE  Counting'
<1>1. \A v \in Workers : worker'[v] = IF v = w THEN [at |-> "write", device |-> d, clone |-> r]
                                      ELSE worker[v]
  BY DEF TypeOK
<1>2. \A e \in Devices : scans'[e] = IF e = d THEN n ELSE scans[e]
  BY DEF TypeOK
<1>3. \A v \in Workers : Carries(v, d)' => v = w
  BY <1>1, OneCarries DEF Carries
<1>4. Writes(w, d)'
  BY <1>1 DEF Writes
<1>5. Counted(d)'
  BY <1>1, <1>2, <1>3, <1>4 DEF Counted
<1>6. ASSUME NEW e \in Devices, e # d PROVE Counted(e)'
  <2>1. \A v \in Workers : /\ Carries(v, e)' => Carries(v, e) /\ worker'[v] = worker[v]
                           /\ Writes(v, e)' <=> Writes(v, e)
    BY <1>1, <1>6 DEF Carries, Writes
  <2> QED
    BY <1>2, <1>6, <2>1 DEF Counting, Counted
<1> QED
  BY <1>5, <1>6 DEF Counting

LEMMA EnrichCounts ==
    ASSUME TypeOK, Holding, Counting, NEW w \in Workers, Enrich(w)
    PROVE  Counting'
<1>1. /\ worker[w] # Idle /\ worker[w].device \in Devices /\ worker[w].clone \in Records
      /\ worker[w].force \in BOOLEAN
  BY WorkerFields DEF Enrich, TypeOK, WorkerStates
<1> PICK d \in Devices : d = worker[w].device
  BY <1>1
<1>2. scans[d] <= worker[w].clone.attempts
  BY DEF Counting, Counted, Carries, Enrich
<1>3. PICK found \in Primaries(worker[w].clone) :
         \/ /\ worker' = [worker EXCEPT ![w] =
                   IF found.changed
                   THEN [at |-> "write", device |-> d, clone |-> found.record]
                   ELSE [at |-> "clear", device |-> d]]
            /\ UNCHANGED scans
         \/ /\ ShouldRunNmap(found.record, worker[w].force)
            /\ \E result \in Scanned(found.record, found.changed) :
                  /\ worker' = [worker EXCEPT ![w] =
                         [at |-> "write", device |-> d, clone |-> result.record]]
                  /\ scans' = [scans EXCEPT ![d] =
                         IF result.record.attempts = 0 THEN 0
                         ELSE IF worker[w].force THEN @ ELSE Capped(@ + 1, MaxRetries + 1)]
  BY DEF Enrich
<1>4. found.record \in Records /\ found.record.attempts = worker[w].clone.attempts
  BY <1>1, PrimariesType, PrimariesKeep
<1>5. UNCHANGED cache
  BY DEF Enrich
<1>6. scans[d] \in Nat /\ scans[d] <= found.record.attempts /\ scans[d] <= MaxRetries
  BY <1>2, <1>4, MaxRetriesAssumption DEF TypeOK, Counting, Counted
<1>7. CASE /\ found.changed
           /\ worker' = [worker EXCEPT ![w] =
                  [at |-> "write", device |-> d, clone |-> found.record]]
           /\ UNCHANGED scans
  <2>1. scans' = [scans EXCEPT ![d] = scans[d]]
    BY <1>7 DEF TypeOK
  <2> QED
    BY <1>1, <1>5, <1>6, <1>7, <2>1, EndsCounted
<1>8. CASE /\ worker' = [worker EXCEPT ![w] = [at |-> "clear", device |-> d]]
           /\ UNCHANGED scans
  BY <1>5, <1>8, PutsDown DEF Enrich
<1>9. ASSUME ShouldRunNmap(found.record, worker[w].force),
             NEW result \in Scanned(found.record, found.changed),
             worker' = [worker EXCEPT ![w] =
                 [at |-> "write", device |-> d, clone |-> result.record]],
             scans' = [scans EXCEPT ![d] =
                 IF result.record.attempts = 0 THEN 0
                 ELSE IF worker[w].force THEN @ ELSE Capped(@ + 1, MaxRetries + 1)]
      PROVE  Counting'
  <2> DEFINE n == IF result.record.attempts = 0 THEN 0
                  ELSE IF worker[w].force THEN scans[d] ELSE Capped(scans[d] + 1, MaxRetries + 1)
  <2>1. scans' = [scans EXCEPT ![d] = n]
    BY <1>9 DEF TypeOK
  <2>2. result.record.attempts \in {0, Capped(found.record.attempts + 1, MaxRetries)}
    BY <1>4, <1>9, ScannedCounts
  <2>3. found.record.attempts \in Nat /\ found.record.attempts <= MaxRetries
    BY <1>4, Attempts
  <2>4. ~worker[w].force => found.record.attempts < MaxRetries
    BY <1>9 DEF ShouldRunNmap
  <2>5. n \in Nat /\ n <= result.record.attempts /\ n <= MaxRetries
    BY <1>1, <1>6, <2>2, <2>3, <2>4, MaxRetriesAssumption DEF Capped
  <2> HIDE DEF n
  <2> QED
    BY <1>1, <1>5, <1>9, <2>1, <2>5, EndsCounted
<1> QED
  BY <1>3, <1>7, <1>8, <1>9

LEMMA WriteBackCounts ==
    ASSUME TypeOK, Holding, Counting, NEW w \in Workers, WriteBack(w)
    PROVE  Counting'
<1>1. worker[w] # Idle /\ worker[w] \in Writing /\ worker[w].device \in Devices
  BY WorkerFields DEF WriteBack, TypeOK, WorkerStates
<1> PICK d \in Devices : d = worker[w].device
  BY <1>1
<1> DEFINE s == [worker[w] EXCEPT !.at = "again"]
<1>2. s.at = "again" /\ s.device = d /\ s.clone = worker[w].clone
  BY <1>1 DEF Writing
<1>3. \A v \in Workers : worker'[v] = IF v = w THEN s ELSE worker[v]
  BY DEF WriteBack, TypeOK
<1>4. \A e \in Devices : cache'[e] = IF e = d THEN worker[w].clone ELSE cache[e]
  BY DEF WriteBack, TypeOK
<1>5. UNCHANGED scans
  BY DEF WriteBack
<1> HIDE DEF s
<1>6. Carries(w, d)
  BY DEF WriteBack, Carries
<1>7. \A v \in Workers, e \in Devices :
         Carries(v, e)' => Carries(v, e) /\ worker'[v].clone = worker[v].clone
  BY <1>2, <1>3, <1>6 DEF Carries
<1>8. \A v \in Workers, e \in Devices : Writes(v, e) /\ e # d => Writes(v, e)'
  BY <1>3 DEF Writes
<1>9. scans[d] <= cache'[d].attempts
  BY <1>4, <1>6 DEF Counting, Counted
<1> QED
  BY <1>4, <1>5, <1>7, <1>8, <1>9 DEF Counting, Counted

LEMMA WriteAgainCounts ==
    ASSUME TypeOK, Holding, Counting, NEW w \in Workers, WriteAgain(w)
    PROVE  Counting'
<1>1. worker[w] # Idle /\ worker[w].device \in Devices
  BY WorkerFields DEF WriteAgain, TypeOK, WorkerStates
<1> PICK d \in Devices : d = worker[w].device
  BY <1>1
<1>2. \A v \in Workers : worker'[v] = IF v = w THEN [at |-> "clear", device |-> d] ELSE worker[v]
  BY DEF WriteAgain, TypeOK
<1>3. \A e \in Devices : cache'[e] = IF e = d THEN worker[w].clone ELSE cache[e]
  BY DEF WriteAgain, TypeOK
<1>4. UNCHANGED scans
  BY DEF WriteAgain
<1>5. Carries(w, d)
  BY DEF WriteAgain, Carries
<1>6. \A v \in Workers, e \in Devices : /\ Carries(v, e)' => Carries(v, e) /\ worker'[v] = worker[v]
                                        /\ Writes(v, e) => Writes(v, e)'
  BY <1>2 DEF Carries, Writes, WriteAgain
<1>7. scans[d] <= cache'[d].attempts
  BY <1>3, <1>5 DEF Counting, Counted
<1> QED
  BY <1>3, <1>4, <1>6, <1>7 DEF Counting, Counted

LEMMA ObservedCounts ==
    ASSUME TypeOK, Counting, NEW p \in Providers, Observed(p)
    PROVE  Counting'
<1>1. provider[p].device \in Devices /\ provider[p].clone \in Records
  BY DEF Observed, TypeOK, Observing, Idle
<1> PICK d \in Devices : d = provider[p].device
  BY <1>1
<1> DEFINE clone == provider[p].clone
           back == cache[d] = Gone \/ clone.attempts < cache[d].attempts
<1>2. PICK r \in {clone, [clone EXCEPT !.identified = TRUE]} : cache' = [cache EXCEPT ![d] = r]
  BY DEF Observed
<1>3. r.attempts = clone.attempts /\ clone.attempts \in Nat
  BY <1>1, <1>2, Attempts
<1>4. \A e \in Devices : cache'[e] = IF e = d THEN r ELSE cache[e]
  BY <1>2 DEF TypeOK
<1>5. \A e \in Devices : scans'[e] = IF e = d /\ back THEN 0 ELSE scans[e]
  BY DEF Observed, TypeOK
<1>6. \A v \in Workers, e \in Devices : /\ Carries(v, e)' <=> Carries(v, e)
                                        /\ Writes(v, e)' <=> Writes(v, e)
                                        /\ worker'[v] = worker[v]
  BY DEF Observed, Carries, Writes
<1>7. \A e \in Devices, v \in Workers : Carries(v, e) => worker[v].clone.attempts \in Nat
  BY WorkerFields, Attempts DEF Carries, TypeOK, WorkerStates
<1>8. ~back => cache[d] # Gone /\ cache[d].attempts \in Nat /\ cache[d].attempts <= clone.attempts
  BY <1>3, Attempts DEF TypeOK
<1> HIDE DEF clone, back
<1>9. \A e \in Devices : scans[e] \in Nat
  BY MaxRetriesAssumption DEF TypeOK
<1>10. Counted(d)'
  <2>1. CASE back
    BY <1>3, <1>4, <1>5, <1>6, <1>7, <2>1, MaxRetriesAssumption DEF Counted
  <2>2. CASE ~back
    BY <1>3, <1>4, <1>5, <1>6, <1>8, <1>9, <2>2 DEF Counting, Counted
  <2> QED
    BY <2>1, <2>2
<1>11. \A e \in Devices : e # d => Counted(e)'
  BY <1>4, <1>5, <1>6 DEF Counting, Counted
<1> QED
  BY <1>10, <1>11 DEF Counting

LEMMA StepCounting ==
    ASSUME TypeOK, Holding, Counting, [Next]_vars
    PROVE  Counting'
<1>1. ASSUME UNCHANGED <<cache, worker, scans>> PROVE Counting'
  BY <1>1, StillCounted
<1>2. ASSUME NEW c \in Callers, NEW d \in Devices, NEW force \in BOOLEAN,
             Coalesce(c, d, force) \/ Admit(c, d, force)
      PROVE  Counting'
  BY <1>1, <1>2 DEF Coalesce, Admit
<1>3. ASSUME NEW c \in Callers, Push(c) \/ Drop(c) PROVE Counting'
  BY <1>1, <1>3 DEF Push, Drop
<1>4. ASSUME NEW w \in Workers, Take(w) PROVE Counting'
  <2>1. PICK s \in {[at |-> "clear", device |-> Head(queue)],
                    [at |-> "get", device |-> Head(queue),
                     force |-> pending[Head(queue)] = "forced"]} :
           worker' = [worker EXCEPT ![w] = s]
    BY <1>4 DEF Take
  <2>2. UNCHANGED <<cache, scans>> /\ worker[w].at = "idle"
    BY <1>4 DEF Take, Idle
  <2>3. s.at \in {"clear", "get"}
    BY <2>1
  <2> QED
    BY <2>1, <2>2, <2>3, PutsDown
<1>5. ASSUME NEW w \in Workers, Work(w) PROVE Counting'
  <2>1. CASE ClearPending(w)
    BY <2>1, PutsDown DEF ClearPending, Idle
  <2> QED
    BY <1>5, <2>1, GetCounts, EnrichCounts, WriteBackCounts, WriteAgainCounts DEF Work
<1>6. ASSUME NEW p \in Providers, Observed(p) PROVE Counting'
  BY <1>6, ObservedCounts
<1>7. ASSUME NEW p \in Providers, NEW d \in Devices, Observe(p, d) PROVE Counting'
  BY <1>1, <1>7 DEF Observe
<1>8. ASSUME NEW d \in Devices, Purge(d) PROVE Counting'
  <2>1. \A e \in Devices : cache'[e] # Gone => cache'[e] = cache[e]
    BY <1>8 DEF Purge, TypeOK
  <2> QED
    BY <1>8, <2>1, StillCounted DEF Purge
<1>9. ASSUME NEW d \in Devices, CoolDown(d) PROVE Counting'
  BY <1>1, <1>9 DEF CoolDown
<1>10. ASSUME NEW d \in Devices, NmapCoolDown(d) PROVE Counting'
  <2>1. cache[d] \in Records
    BY <1>10 DEF NmapCoolDown, TypeOK
  <2>2. \A e \in Devices :
           cache'[e] = IF e = d THEN [cache[d] EXCEPT !.scanned = FALSE] ELSE cache[e]
    BY <1>10 DEF NmapCoolDown, TypeOK
  <2>3. \A e \in Devices : cache'[e] # Gone =>
           cache[e] # Gone /\ cache'[e].attempts = cache[e].attempts
    BY <1>10, <2>1, <2>2, Attempts DEF NmapCoolDown
  <2> QED
    BY <1>10, <2>3, StillCounted DEF NmapCoolDown
<1>11. CASE UNCHANGED vars
  BY <1>1, <1>11 DEF vars
<1> QED
  BY <1>2, <1>3, <1>4, <1>5, <1>6, <1>7, <1>8, <1>9, <1>10, <1>11 DEF Next

-----------------------------------------------------------------------------
LEMMA HoldingIsOneHolder == Holding => OneHolder
<1> SUFFICES ASSUME Holding, NEW d \in Devices
             PROVE  IF pending[d] = NotPending THEN Holders(d) = {}
                    ELSE \E h \in Holders(d) : Holders(d) = {h}
  BY DEF OneHolder
<1>1. Alone(d) /\ (pending[d] # NotPending <=> Held(d))
  BY DEF Holding
<1>2. CASE pending[d] = NotPending
  BY <1>1, <1>2 DEF Held, Holders
<1>3. CASE pending[d] # NotPending /\ PushersOf(d) # {}
  <2>1. PICK c : PushersOf(d) = {c} /\ PlacesOf(d) = {} /\ WorkersOf(d) = {}
    BY <1>1, <1>3 DEF Alone
  <2>2. Holders(d) = {<<"caller", c>>}
    BY <2>1 DEF Holders
  <2> QED
    BY <1>3, <2>2
<1>4. CASE pending[d] # NotPending /\ PlacesOf(d) # {}
  <2>1. PICK i : PlacesOf(d) = {i} /\ PushersOf(d) = {} /\ WorkersOf(d) = {}
    BY <1>1, <1>4 DEF Alone
  <2>2. Holders(d) = {<<"queue", i>>}
    BY <2>1 DEF Holders
  <2> QED
    BY <1>4, <2>2
<1>5. CASE pending[d] # NotPending /\ WorkersOf(d) # {}
  <2>1. PICK w : WorkersOf(d) = {w} /\ PushersOf(d) = {} /\ PlacesOf(d) = {}
    BY <1>1, <1>5 DEF Alone
  <2>2. Holders(d) = {<<"worker", w>>}
    BY <2>1 DEF Holders
  <2> QED
    BY <1>5, <2>2
<1> QED
  BY <1>1, <1>2, <1>3, <1>4, <1>5 DEF Held

LEMMA Invariance == Spec => []Inv
<1>1. Inv /\ [Next]_vars => Inv'
  BY StepType, StepHolding, StepCounting DEF Inv
<1> QED
  BY InitInv, <1>1, PTL DEF Spec

\* The orchestrator keeps its types; in particular its queue stays within its
\* capacity whatever TriggerEnrichment is called with.
THEOREM TypeCorrect == Spec => []TypeOK
<1>1. Inv => TypeOK
  BY DEF Inv
<1> QED
  BY Invariance, <1>1, PTL

\* Coalescing works: the mark in Orchestrator.pending always has exactly one
\* holder, so two workers never enrich the same device at a time and no mark is
\* left behind.
THEOREM OneHolderAlways == Spec => []OneHolder
<1>1. Inv => OneHolder
  BY HoldingIsOneHolder DEF Inv
<1> QED
  BY Invariance, <1>1, PTL

\* The limit of unforced scans holds for any number of workers and providers:
\* the clone of a worker keeps the account while providers and purges change the
\* record, and no other worker can scan the device meanwhile.
THEOREM RetryLimitAlways == Spec => []RetryLimit
<1>1. Inv => RetryLimit
  BY DEF Inv, Counting, Counted, RetryLimit
<1> QED
  BY Invariance, <1>1, PTL
=============================================================================
