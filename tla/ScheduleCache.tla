---------------------------- MODULE ScheduleCache ----------------------------
(* schedule.Engine: the schedules, the cache of merged bundles and the      *)
(* reverse index that says which cached bundles a schedule is part of.      *)
(*                                                                          *)
(* A lookup takes the read lock; a miss gives it up and takes the write     *)
(* lock, so schedules may be stored or deleted in between.  reverseIdx is   *)
(* the set of keys of the slice: the code appends a key once for every time *)
(* the bundle is merged.  What Evaluate makes of the merged schedule and    *)
(* the clock comes after both locks and is left out.                        *)
EXTENDS ScheduleEvaluation

VARIABLES
    mergedCache,    \* the merged schedule of a bundle, or NotCached
    reverseIdx,     \* the bundles to forget when a schedule changes
    missed          \* the bundle a caller has missed in the cache, or None

vars == <<schedules, answer, mergedCache, reverseIdx, missed>>

NotCached == [is |-> FALSE]
Cached(merged) == [is |-> TRUE, merged |-> merged]
None == [is |-> FALSE]
Missed(b) == [is |-> TRUE, bundle |-> b]

Entries(b) == {NotCached} \cup {Cached(m) : m \in [b -> Contents]}

TypeOK ==
    /\ schedules \in [Ids -> Contents \cup {Absent}]
    /\ mergedCache \in [Bundles -> UNION {Entries(b) : b \in Bundles}]
    /\ \A b \in Bundles : mergedCache[b] \in Entries(b)
    /\ reverseIdx \in [Ids -> SUBSET Bundles]
    /\ missed \in [Callers -> {None} \cup {Missed(b) : b \in Bundles \ {{}}}]

-----------------------------------------------------------------------------
CacheInit ==
    /\ Init
    /\ mergedCache = [b \in Bundles |-> NotCached]
    /\ reverseIdx = [id \in Ids |-> {}]
    /\ missed = [c \in Callers |-> None]

\* Mutant of Invalidate: the bundles stay that hold other schedules too.
Invalidate_OwnBundle(id) ==
    /\ mergedCache' = [b \in Bundles |-> IF b = {id} THEN NotCached ELSE mergedCache[b]]
    /\ reverseIdx' = [reverseIdx EXCEPT ![id] = {}]

\* invalidateCacheForScheduleLocked: the other schedules of a bundle keep it
\* in their part of the index.
Invalidate(id) ==
    /\ mergedCache' = [b \in Bundles |->
                          IF b \in reverseIdx[id] THEN NotCached ELSE mergedCache[b]]
    /\ reverseIdx' = [reverseIdx EXCEPT ![id] = {}]

UpsertSchedule(id, content) ==
    /\ schedules' = [schedules EXCEPT ![id] = content]
    /\ Invalidate(id)
    /\ UNCHANGED <<answer, missed>>

DeleteSchedule(id) ==
    /\ schedules' = [schedules EXCEPT ![id] = Absent]
    /\ Invalidate(id)
    /\ UNCHANGED <<answer, missed>>

\* EvaluateBundle of no schedules.
EvaluateNothing(c) ==
    /\ ~missed[c].is
    /\ answer' = [answer EXCEPT ![c] = Answer({}, "allow", <<>>)]
    /\ UNCHANGED <<schedules, mergedCache, reverseIdx, missed>>

\* EvaluateBundle finds the bundle under the read lock.
Hit(c, b) ==
    /\ ~missed[c].is
    /\ b # {}
    /\ mergedCache[b].is
    /\ answer' = [answer EXCEPT ![c] = Answer(b, "schedule", mergedCache[b].merged)]
    /\ UNCHANGED <<schedules, mergedCache, reverseIdx, missed>>

\* EvaluateBundle does not find it and gives the read lock up.
Miss(c, b) ==
    /\ ~missed[c].is
    /\ b # {}
    /\ ~mergedCache[b].is
    /\ missed' = [missed EXCEPT ![c] = Missed(b)]
    /\ UNCHANGED <<schedules, answer, mergedCache, reverseIdx>>

\* Under the write lock somebody else has merged the bundle by now.
FilledMeanwhile(c) ==
    /\ missed[c].is
    /\ LET b == missed[c].bundle IN
          /\ mergedCache[b].is
          /\ answer' = [answer EXCEPT ![c] = Answer(b, "schedule", mergedCache[b].merged)]
    /\ missed' = [missed EXCEPT ![c] = None]
    /\ UNCHANGED <<schedules, mergedCache, reverseIdx>>

\* Mutant of FailClosed: what cannot be resolved is left open.
FailClosed_Open(c) ==
    /\ missed[c].is
    /\ LET b == missed[c].bundle IN
          /\ ~mergedCache[b].is
          /\ Unresolvable(b)
          /\ answer' = [answer EXCEPT ![c] = Answer(b, "allow", <<>>)]
    /\ missed' = [missed EXCEPT ![c] = None]
    /\ UNCHANGED <<schedules, mergedCache, reverseIdx>>

\* Under the write lock the bundle cannot be resolved: blocked, not cached.
FailClosed(c) ==
    /\ missed[c].is
    /\ LET b == missed[c].bundle IN
          /\ ~mergedCache[b].is
          /\ Unresolvable(b)
          /\ answer' = [answer EXCEPT ![c] = Answer(b, "block", <<>>)]
    /\ missed' = [missed EXCEPT ![c] = None]
    /\ UNCHANGED <<schedules, mergedCache, reverseIdx>>

Index(b) == [id \in Ids |-> IF id \in b THEN reverseIdx[id] \cup {b} ELSE reverseIdx[id]]

\* Mutant of Fill: a missing schedule is not noticed.
Fill_Unchecked(c) ==
    /\ missed[c].is
    /\ LET b == missed[c].bundle IN
          /\ ~mergedCache[b].is
          /\ mergedCache' = [mergedCache EXCEPT ![b] = Cached(Merged(b))]
          /\ reverseIdx' = Index(b)
          /\ answer' = [answer EXCEPT ![c] = Answer(b, "schedule", Merged(b))]
    /\ missed' = [missed EXCEPT ![c] = None]
    /\ UNCHANGED schedules

\* Under the write lock the bundle is merged, cached and indexed.
Fill(c) ==
    /\ missed[c].is
    /\ LET b == missed[c].bundle IN
          /\ ~mergedCache[b].is
          /\ ~Unresolvable(b)
          /\ mergedCache' = [mergedCache EXCEPT ![b] = Cached(Merged(b))]
          /\ reverseIdx' = Index(b)
          /\ answer' = [answer EXCEPT ![c] = Answer(b, "schedule", Merged(b))]
    /\ missed' = [missed EXCEPT ![c] = None]
    /\ UNCHANGED schedules

CacheNext ==
    \/ \E id \in Ids, content \in Contents : UpsertSchedule(id, content)
    \/ \E id \in Ids : DeleteSchedule(id)
    \/ \E c \in Callers : EvaluateNothing(c) \/ FilledMeanwhile(c) \/ FailClosed(c) \/ Fill(c)
    \/ \E c \in Callers, b \in Bundles : Hit(c, b) \/ Miss(c, b)

CacheSpec == CacheInit /\ [][CacheNext]_vars

-----------------------------------------------------------------------------
\* A bundle that is cached is cached as the schedules are now, and every one
\* of its schedules will take it out of the cache when it changes.
CacheIsCurrent ==
    \A b \in Bundles : mergedCache[b].is =>
        /\ b # {}
        /\ ~Unresolvable(b)
        /\ mergedCache[b].merged = Merged(b)
        /\ \A id \in b : b \in reverseIdx[id]

\* No caller can tell that there is a cache: EvaluateBundle implements
\* ScheduleEvaluation, whatever is stored between its two locks.
AsIfUncached == Spec
=============================================================================
