----------------------------- MODULE Enrichment -----------------------------
(* The enrichment orchestrator of DIS: callers mark a device as pending and *)
(* push it on a bounded channel without waiting, workers take it off, run   *)
(* the enrichers on a clone of its record and write the clone back.         *)
(*                                                                          *)
(* Data: of a record only what gates the scanner is kept: whether the       *)
(* device is fully identified, its attempts, and whether the last one is    *)
(* less than a day old.  What enrichers find is a choice.  Providers write  *)
(* the same records, from clones of their own.  Stop, after which the       *)
(* process ends, is left out.                                               *)
EXTENDS Integers, Sequences

CONSTANTS
    Devices,        \* the PDIDs
    Known,          \* those that are fully identified when DIS starts
    Callers,        \* goroutines that call TriggerEnrichment
    Workers,        \* the worker goroutines
    Providers,      \* provider goroutines that write records meanwhile
    QueueSize,      \* the capacity of the channel
    MaxRetries      \* maxNmapRetries

ASSUME KnownAssumption == Known \subseteq Devices
ASSUME QueueSizeAssumption == QueueSize \in Nat \ {0}
ASSUME MaxRetriesAssumption == MaxRetries \in Nat \ {0}

Records == [identified : BOOLEAN, attempts : 0 .. MaxRetries, scanned : BOOLEAN]
Gone == [purged |-> TRUE]

NotPending == "none"
Marks == {NotPending, "normal", "forced"}

Idle == [at |-> "idle"]
Pushing == [at : {"push"}, device : Devices]
Clearing == [at : {"clear"}, device : Devices]
Executing == [at : {"get"}, device : Devices, force : BOOLEAN]
Enriching == [at : {"enrich"}, device : Devices, force : BOOLEAN, clone : Records]
Writing == [at : {"write", "again"}, device : Devices, clone : Records]
Observing == [at : {"observe"}, device : Devices, clone : Records]

VARIABLES
    cache,      \* inventory.Cache: the record of each device
    cooling,    \* devices whose lastAttemptMap entry is within enrichmentCooldown
    pending,    \* Orchestrator.pending
    queue,      \* Orchestrator.queue
    caller,     \* where each call of TriggerEnrichment is
    worker,     \* where each worker is
    provider,   \* where each provider goroutine is
    scans       \* history: unforced scans since the attempts were last set back

vars == <<cache, cooling, pending, queue, caller, worker, provider, scans>>

TypeOK ==
    /\ cache \in [Devices -> Records \cup {Gone}]
    /\ cooling \subseteq Devices
    /\ pending \in [Devices -> Marks]
    /\ queue \in Seq(Devices) /\ Len(queue) <= QueueSize
    /\ caller \in [Callers -> {Idle} \cup Pushing]
    /\ worker \in [Workers -> {Idle} \cup Clearing \cup Executing \cup Enriching \cup Writing]
    /\ provider \in [Providers -> {Idle} \cup Observing]
    /\ scans \in [Devices -> 0 .. MaxRetries + 1]

Init ==
    /\ cache = [d \in Devices |-> [identified |-> d \in Known, attempts |-> 0, scanned |-> FALSE]]
    /\ cooling = {}
    /\ pending = [d \in Devices |-> NotPending]
    /\ queue = <<>>
    /\ caller = [c \in Callers |-> Idle]
    /\ worker = [w \in Workers |-> Idle]
    /\ provider = [p \in Providers |-> Idle]
    /\ scans = [d \in Devices |-> 0]

\* Counters stop at a bound above which nothing depends on them.
Capped(n, bound) == IF n < bound THEN n ELSE bound

-----------------------------------------------------------------------------
(* TriggerEnrichment                                                       *)

\* The first checks: the device is in the cache and not cooling down.  Both
\* may be out of date when pendingMu is held, as when a request has waited.
Accepted(c, d, force) ==
    /\ caller[c] = Idle
    /\ cache[d] # Gone
    /\ force \/ d \notin cooling

\* Under pendingMu: a device that is pending already is only marked.
Coalesce(c, d, force) ==
    /\ Accepted(c, d, force)
    /\ pending[d] # NotPending
    /\ pending' = [pending EXCEPT ![d] = IF force THEN "forced" ELSE @]
    /\ UNCHANGED <<cache, cooling, queue, caller, worker, provider, scans>>

Admit(c, d, force) ==
    /\ Accepted(c, d, force)
    /\ pending[d] = NotPending
    /\ pending' = [pending EXCEPT ![d] = IF force THEN "forced" ELSE "normal"]
    /\ caller' = [caller EXCEPT ![c] = [at |-> "push", device |-> d]]
    /\ UNCHANGED <<cache, cooling, queue, worker, provider, scans>>

\* Mutant of Push: nothing bounds the queue.
Push_Unbounded(c) ==
    /\ caller[c].at = "push"
    /\ queue' = Append(queue, caller[c].device)
    /\ caller' = [caller EXCEPT ![c] = Idle]
    /\ UNCHANGED <<cache, cooling, pending, worker, provider, scans>>

Push(c) ==
    /\ caller[c].at = "push"
    /\ Len(queue) < QueueSize
    /\ queue' = Append(queue, caller[c].device)
    /\ caller' = [caller EXCEPT ![c] = Idle]
    /\ UNCHANGED <<cache, cooling, pending, worker, provider, scans>>

\* Mutant of Drop: the mark of a request that was dropped is left behind.
Drop_Marked(c) ==
    /\ caller[c].at = "push"
    /\ Len(queue) = QueueSize
    /\ caller' = [caller EXCEPT ![c] = Idle]
    /\ UNCHANGED <<cache, cooling, pending, queue, worker, provider, scans>>

\* The channel is full.
Drop(c) ==
    /\ caller[c].at = "push"
    /\ Len(queue) = QueueSize
    /\ pending' = [pending EXCEPT ![caller[c].device] = NotPending]
    /\ caller' = [caller EXCEPT ![c] = Idle]
    /\ UNCHANGED <<cache, cooling, queue, worker, provider, scans>>

-----------------------------------------------------------------------------
(* A worker                                                                *)

\* The worker receives a request and looks up whether it is forced.
Take(w) ==
    /\ worker[w] = Idle
    /\ queue # <<>>
    /\ LET d == Head(queue) IN
       worker' = [worker EXCEPT ![w] =
           IF pending[d] = NotPending THEN [at |-> "clear", device |-> d]
           ELSE [at |-> "get", device |-> d, force |-> pending[d] = "forced"]]
    /\ queue' = Tail(queue)
    /\ UNCHANGED <<cache, cooling, pending, caller, provider, scans>>

\* Mutant of Get: a worker that finds nothing to do turns to the next request.
Get_Returns(w) ==
    /\ worker[w].at = "get"
    /\ LET d == worker[w].device
           force == worker[w].force IN
       IF cache[d] = Gone \/ (~force /\ d \in cooling)
       THEN /\ worker' = [worker EXCEPT ![w] = Idle]
            /\ UNCHANGED cooling
       ELSE /\ cooling' = cooling \cup {d}
            /\ worker' = [worker EXCEPT ![w] =
                   [at |-> "enrich", device |-> d, force |-> force, clone |-> cache[d]]]
    /\ UNCHANGED <<cache, pending, queue, caller, provider, scans>>

\* execute takes a clone; the request may have waited for so long that the
\* device is gone or is cooling down again.
Get(w) ==
    /\ worker[w].at = "get"
    /\ LET d == worker[w].device
           force == worker[w].force IN
       IF cache[d] = Gone \/ (~force /\ d \in cooling)
       THEN /\ worker' = [worker EXCEPT ![w] = [at |-> "clear", device |-> d]]
            /\ UNCHANGED cooling
       ELSE /\ cooling' = cooling \cup {d}
            /\ worker' = [worker EXCEPT ![w] =
                   [at |-> "enrich", device |-> d, force |-> force, clone |-> cache[d]]]
    /\ UNCHANGED <<cache, pending, queue, caller, provider, scans>>

\* Mutant of ShouldRunNmap: the limit is checked after the scan has been counted.
ShouldRunNmap_OneMore(r, force) ==
    ~r.identified /\ (force \/ (r.attempts <= MaxRetries /\ ~r.scanned))

\* A forced request does not look at limits, but never scans what is known.
ShouldRunNmap(r, force) ==
    ~r.identified /\ (force \/ (r.attempts < MaxRetries /\ ~r.scanned))

\* What the primaries leave in the clone: something may have changed, and the
\* device may be identified by it.
Primaries(r) ==
    {[changed |-> FALSE, record |-> r], [changed |-> TRUE, record |-> r],
     [changed |-> TRUE, record |-> [r EXCEPT !.identified = TRUE]]}

\* What the scan leaves: it finds nothing or fails, or it returns a result.
\* A result after any change resets the attempts.
Scanned(r, changed) ==
    LET counted == [r EXCEPT !.attempts = Capped(@ + 1, MaxRetries), !.scanned = TRUE]
        success == [counted EXCEPT !.attempts = 0] IN
    {[changed |-> changed, record |-> counted], [changed |-> TRUE, record |-> success],
     [changed |-> TRUE, record |-> [success EXCEPT !.identified = TRUE]]}

\* The enrichers run for seconds on the clone; nothing is held.  A clone that
\* has neither changed nor been scanned is dropped.
Enrich(w) ==
    /\ worker[w].at = "enrich"
    /\ LET d == worker[w].device
           force == worker[w].force
           EndsWith(result) ==
               worker' = [worker EXCEPT ![w] = [at |-> "write", device |-> d, clone |-> result.record]]
       IN \E found \in Primaries(worker[w].clone) :
            \/ /\ ~ShouldRunNmap(found.record, force)
               /\ IF found.changed THEN EndsWith(found)
                  ELSE worker' = [worker EXCEPT ![w] = [at |-> "clear", device |-> d]]
               /\ UNCHANGED scans
            \/ /\ ShouldRunNmap(found.record, force)
               /\ \E result \in Scanned(found.record, found.changed) :
                    /\ EndsWith(result)
                    /\ scans' = [scans EXCEPT ![d] =
                           IF result.record.attempts = 0 THEN 0
                           ELSE IF force THEN @ ELSE Capped(@ + 1, MaxRetries + 1)]
    /\ UNCHANGED <<cache, cooling, pending, queue, caller, provider>>

\* Upsert of the clone, whatever is in the cache by now.  What
\* PromoteDeviceIdentity reads right after it is taken to be the same record: one
\* written in between would only be written again.
WriteBack(w) ==
    /\ worker[w].at = "write"
    /\ cache' = [cache EXCEPT ![worker[w].device] = worker[w].clone]
    /\ worker' = [worker EXCEPT ![w].at = "again"]
    /\ UNCHANGED <<cooling, pending, queue, caller, provider, scans>>

\* ... it is written once more, and persisted.
WriteAgain(w) ==
    /\ worker[w].at = "again"
    /\ cache' = [cache EXCEPT ![worker[w].device] = worker[w].clone]
    /\ worker' = [worker EXCEPT ![w] = [at |-> "clear", device |-> worker[w].device]]
    /\ UNCHANGED <<cooling, pending, queue, caller, provider, scans>>

ClearPending(w) ==
    /\ worker[w].at = "clear"
    /\ pending' = [pending EXCEPT ![worker[w].device] = NotPending]
    /\ worker' = [worker EXCEPT ![w] = Idle]
    /\ UNCHANGED <<cache, cooling, queue, caller, provider, scans>>

-----------------------------------------------------------------------------
(* The others                                                              *)

\* A provider reads a clone of the record, fills in what it has observed and
\* writes it back.
Observe(p, d) ==
    /\ provider[p] = Idle
    /\ cache[d] # Gone
    /\ provider' = [provider EXCEPT ![p] = [at |-> "observe", device |-> d, clone |-> cache[d]]]
    /\ UNCHANGED <<cache, cooling, pending, queue, caller, worker, scans>>

Observed(p) ==
    /\ provider[p].at = "observe"
    /\ LET d == provider[p].device
           clone == provider[p].clone IN
        /\ \E r \in {clone, [clone EXCEPT !.identified = TRUE]} : cache' = [cache EXCEPT ![d] = r]
        /\ scans' = IF cache[d] = Gone \/ clone.attempts < cache[d].attempts
                    THEN [scans EXCEPT ![d] = 0] ELSE scans
    /\ provider' = [provider EXCEPT ![p] = Idle]
    /\ UNCHANGED <<cooling, pending, queue, caller, worker>>

\* purgeOffline.
Purge(d) ==
    /\ cache[d] # Gone
    /\ cache' = [cache EXCEPT ![d] = Gone]
    /\ UNCHANGED <<cooling, pending, queue, caller, worker, provider, scans>>

\* An hour, or a day, after the last attempt.
CoolDown(d) ==
    /\ d \in cooling
    /\ cooling' = cooling \ {d}
    /\ UNCHANGED <<cache, pending, queue, caller, worker, provider, scans>>

NmapCoolDown(d) ==
    /\ cache[d] # Gone
    /\ cache[d].scanned
    /\ cache' = [cache EXCEPT ![d].scanned = FALSE]
    /\ UNCHANGED <<cooling, pending, queue, caller, worker, provider, scans>>

\* A worker that has taken a request goes on with it.
Work(w) ==
    \/ Get(w) \/ Enrich(w) \/ WriteBack(w) \/ WriteAgain(w) \/ ClearPending(w)

Next ==
    \/ \E c \in Callers, d \in Devices, force \in BOOLEAN :
          Coalesce(c, d, force) \/ Admit(c, d, force)
    \/ \E c \in Callers : Push(c) \/ Drop(c)
    \/ \E w \in Workers : Take(w) \/ Work(w)
    \/ \E p \in Providers : Observed(p) \/ \E d \in Devices : Observe(p, d)
    \/ \E d \in Devices : Purge(d) \/ CoolDown(d) \/ NmapCoolDown(d)

\* Goroutines run, and a timeout bounds every enricher.
Fairness ==
    /\ \A c \in Callers : WF_vars(Push(c) \/ Drop(c))
    /\ \A w \in Workers : WF_vars(Take(w)) /\ WF_vars(Work(w))

Spec == Init /\ [][Next]_vars /\ Fairness

-----------------------------------------------------------------------------
(* Properties                                                              *)

PushersOf(d) == {c \in Callers : caller[c].at = "push" /\ caller[c].device = d}
PlacesOf(d) == {i \in 1 .. Len(queue) : queue[i] = d}
WorkersOf(d) == {w \in Workers : worker[w] # Idle /\ worker[w].device = d}
Holders(d) == ({"caller"} \X PushersOf(d)) \cup ({"queue"} \X PlacesOf(d)) \cup ({"worker"} \X WorkersOf(d))

\* A device is pending while exactly one goroutine or place in the channel is
\* responsible for it, so a device is never enriched twice at a time and no
\* mark is left that would swallow all later requests.
OneHolder ==
    \A d \in Devices :
        IF pending[d] = NotPending THEN Holders(d) = {}
        ELSE \E h \in Holders(d) : Holders(d) = {h}

\* orchestrator_test.go:75 "does NOT trigger nmap more than 3 times": however
\* requests, workers and purges interleave, a device is not scanned unforced more
\* often before its attempts are set back, by a success or by a provider that
\* writes back a clone from before a scan.
RetryLimit == \A d \in Devices : scans[d] <= MaxRetries

\* Every request that was accepted ends, by its worker or because it is dropped:
\* a device cannot stay pending, which would swallow all requests for it.
Released == \A d \in Devices : pending[d] # NotPending ~> pending[d] = NotPending
=============================================================================
