----------------------- MODULE ScheduleEngine_proofs -----------------------
(* The schedule engine, for any number of schedules, bundles and callers    *)
(* and for days and weeks of any length.                                    *)
(*                                                                          *)
(* The cache of merged bundles is invisible.  CacheIsCurrent holds because  *)
(* the reverse index is complete for what is cached, so every change of a   *)
(* schedule reaches all of its bundles; the index may also name bundles     *)
(* that are not cached.                                                     *)
(*                                                                          *)
(* What a merged bundle says is never ambiguous: two rules that match at    *)
(* one time cover the same minute of the week, so if they disagreed the     *)
(* segments they are projected to would overlap.  And it does not change    *)
(* before the timer goes off: between two minutes that are no boundary no   *)
(* window begins or ends.  Both are proved of any merged bundle first; that *)
(* the engine answers with no other then follows from the refinement.       *)
EXTENDS ScheduleEngine, SequenceTheorems, WellFoundedInduction, FiniteSetTheorems, TLAPS

-----------------------------------------------------------------------------
(* The cache                                                               *)

IInv == TypeOK /\ CacheIsCurrent

LEMMA InitIInv == CacheInit => IInv
<1> SUFFICES ASSUME CacheInit PROVE IInv
  OBVIOUS
<1>1. \A b \in Bundles : mergedCache[b] = NotCached /\ NotCached \in Entries(b)
  BY DEF CacheInit, Entries
<1>2. TypeOK
  BY <1>1 DEF CacheInit, Init, TypeOK
<1>3. CacheIsCurrent
  BY <1>1 DEF CacheIsCurrent, NotCached
<1> QED
  BY <1>2, <1>3 DEF IInv

\* Invalidate empties the cache of every bundle the changed schedule is in.
LEMMA InvalidateForgets ==
    ASSUME TypeOK, CacheIsCurrent, NEW id \in Ids, Invalidate(id)
    PROVE  /\ mergedCache' \in [Bundles -> UNION {Entries(b) : b \in Bundles}]
           /\ \A b \in Bundles : mergedCache'[b] \in Entries(b)
           /\ reverseIdx' \in [Ids -> SUBSET Bundles]
           /\ \A b \in Bundles : mergedCache'[b].is =>
                 /\ id \notin b
                 /\ mergedCache'[b] = mergedCache[b]
                 /\ \A i \in b : b \in reverseIdx'[i]
<1>1. \A b \in Bundles : mergedCache'[b] \in {NotCached, mergedCache[b]} \cap Entries(b)
  BY DEF Invalidate, TypeOK, Entries
<1>2. mergedCache' \in [Bundles -> UNION {Entries(b) : b \in Bundles}]
  BY <1>1 DEF Invalidate
<1>3. reverseIdx' \in [Ids -> SUBSET Bundles]
  BY DEF Invalidate, TypeOK
<1>4. ASSUME NEW b \in Bundles, mergedCache'[b].is
      PROVE  /\ id \notin b
             /\ mergedCache'[b] = mergedCache[b]
             /\ \A i \in b : b \in reverseIdx'[i]
  <2>1. mergedCache'[b] = mergedCache[b] /\ b \notin reverseIdx[id]
    BY <1>4 DEF Invalidate, NotCached
  <2>2. id \notin b /\ \A i \in b : b \in reverseIdx[i]
    BY <1>4, <2>1 DEF CacheIsCurrent
  <2>3. b \subseteq Ids
    BY BundlesAssumption
  <2> QED
    BY <2>1, <2>2, <2>3 DEF Invalidate, TypeOK
<1> QED
  BY <1>1, <1>2, <1>3, <1>4

\* A schedule is stored or deleted: the bundles still cached do not hold it.
LEMMA StoreKeepsIInv ==
    ASSUME IInv, NEW id \in Ids, NEW content \in Contents \cup {Absent},
           schedules' = [schedules EXCEPT ![id] = content],
           Invalidate(id), UNCHANGED missed
    PROVE  IInv'
<1> USE DEF IInv
<1>1. TypeOK'
  BY InvalidateForgets DEF TypeOK
<1>2. ASSUME NEW b \in Bundles, mergedCache'[b].is
      PROVE  /\ b # {}
             /\ ~Unresolvable(b)'
             /\ mergedCache'[b].merged = Merged(b)'
             /\ \A i \in b : b \in reverseIdx'[i]
  <2>1. id \notin b /\ mergedCache'[b] = mergedCache[b] /\ \A i \in b : b \in reverseIdx'[i]
    BY <1>2, InvalidateForgets
  <2>2. \A i \in b : schedules'[i] = schedules[i]
    BY <2>1, BundlesAssumption DEF TypeOK
  <2>3. {schedules'[i] : i \in b} = {schedules[i] : i \in b}
    BY <2>2
  <2>4. b # {} /\ ~Unresolvable(b) /\ mergedCache[b].merged = Merged(b)
    BY <1>2, <2>1 DEF CacheIsCurrent
  <2>5. ~Unresolvable(b)'
    BY <2>2, <2>3, <2>4 DEF Unresolvable
  <2>6. mergedCache'[b].merged = Merged(b)'
    BY <2>1, <2>2, <2>4 DEF Merged
  <2> QED
    BY <2>1, <2>4, <2>5, <2>6
<1> QED
  BY <1>1, <1>2 DEF CacheIsCurrent

\* A bundle is merged under the write lock, from the schedules of that moment.
LEMMA FillKeepsIInv ==
    ASSUME IInv, NEW c \in Callers, Fill(c)
    PROVE  IInv'
<1> USE DEF IInv
<1> DEFINE b == missed[c].bundle
<1>1. b \in Bundles /\ b # {}
  BY DEF Fill, TypeOK, None, Missed
<1>2. /\ ~Unresolvable(b)
      /\ mergedCache' = [mergedCache EXCEPT ![b] = Cached(Merged(b))]
      /\ reverseIdx' = Index(b)
      /\ missed' = [missed EXCEPT ![c] = None]
      /\ schedules' = schedules
  BY DEF Fill
<1>3. Merged(b) \in [b -> Contents]
  BY <1>1, <1>2, BundlesAssumption DEF Merged, Unresolvable, TypeOK
<1>4. Cached(Merged(b)) \in Entries(b)
  BY <1>3 DEF Entries
<1> HIDE DEF b
<1>5. TypeOK'
  <2>1. /\ mergedCache' \in [Bundles -> UNION {Entries(d) : d \in Bundles}]
        /\ \A d \in Bundles : mergedCache'[d] \in Entries(d)
    BY <1>1, <1>2, <1>4 DEF TypeOK
  <2>2. reverseIdx' \in [Ids -> SUBSET Bundles]
    BY <1>1, <1>2 DEF TypeOK, Index
  <2> QED
    BY <1>2, <2>1, <2>2 DEF TypeOK
<1>6. ASSUME NEW d \in Bundles, mergedCache'[d].is
      PROVE  /\ d # {}
             /\ ~Unresolvable(d)'
             /\ mergedCache'[d].merged = Merged(d)'
             /\ \A i \in d : d \in reverseIdx'[i]
  <2>1. Unresolvable(d)' = Unresolvable(d) /\ Merged(d)' = Merged(d)
    BY <1>2 DEF Unresolvable, Merged
  <2>2. \A i \in d : d \in reverseIdx[i] \/ d = b => d \in reverseIdx'[i]
    BY <1>2, BundlesAssumption DEF Index
  <2>3. CASE d = b
    BY <1>1, <1>2, <2>1, <2>2, <2>3 DEF TypeOK, Cached
  <2>4. CASE d # b
    <3>1. mergedCache'[d] = mergedCache[d]
      BY <1>2, <2>4 DEF TypeOK
    <3> QED
      BY <1>6, <2>1, <2>2, <3>1 DEF CacheIsCurrent
  <2> QED
    BY <2>3, <2>4
<1> QED
  BY <1>5, <1>6 DEF CacheIsCurrent

LEMMA StepIInv == IInv /\ [CacheNext]_vars => IInv'
<1> SUFFICES ASSUME IInv, [CacheNext]_vars PROVE IInv'
  OBVIOUS
<1>1. ASSUME UNCHANGED <<schedules, mergedCache, reverseIdx>>,
             missed' \in [Callers -> {None} \cup {Missed(b) : b \in Bundles \ {{}}}]
      PROVE  IInv'
  <2>1. TypeOK'
    BY <1>1 DEF IInv, TypeOK
  <2>2. \A b : Unresolvable(b)' = Unresolvable(b) /\ Merged(b)' = Merged(b)
    BY <1>1 DEF Unresolvable, Merged
  <2>3. CacheIsCurrent'
    BY <1>1, <2>2 DEF IInv, CacheIsCurrent
  <2> QED
    BY <2>1, <2>3 DEF IInv
<1>2. ASSUME NEW id \in Ids, NEW content \in Contents, UpsertSchedule(id, content) PROVE IInv'
  BY <1>2, StoreKeepsIInv DEF UpsertSchedule
<1>3. ASSUME NEW id \in Ids, DeleteSchedule(id) PROVE IInv'
  BY <1>3, StoreKeepsIInv DEF DeleteSchedule
<1>4. ASSUME NEW c \in Callers,
             EvaluateNothing(c) \/ FilledMeanwhile(c) \/ FailClosed(c)
      PROVE  IInv'
  BY <1>1, <1>4 DEF EvaluateNothing, FilledMeanwhile, FailClosed, IInv, TypeOK
<1>5. ASSUME NEW c \in Callers, Fill(c) PROVE IInv'
  BY <1>5, FillKeepsIInv
<1>6. ASSUME NEW c \in Callers, NEW b \in Bundles, Hit(c, b) \/ Miss(c, b) PROVE IInv'
  BY <1>1, <1>6 DEF Hit, Miss, IInv, TypeOK
<1>7. CASE UNCHANGED vars
  BY <1>1, <1>7 DEF vars, IInv, TypeOK
<1> QED
  BY <1>2, <1>3, <1>4, <1>5, <1>6, <1>7 DEF CacheNext

\* The inductive invariant of schedule.Engine.
THEOREM Invariance == CacheSpec => []IInv
<1> QED
  BY InitIInv, StepIInv, PTL DEF CacheSpec

\* The maps of schedule.Engine hold what their names say.
THEOREM TypeCorrect == CacheSpec => []TypeOK
<1>1. IInv => TypeOK
  BY DEF IInv
<1> QED
  BY Invariance, <1>1, PTL

\* A cached bundle is never stale.
THEOREM CacheIsCurrentAlways == CacheSpec => []CacheIsCurrent
<1>1. IInv => CacheIsCurrent
  BY DEF IInv
<1> QED
  BY Invariance, <1>1, PTL

\* What EvaluateBundle answers from the cache, from the second look at it or
\* from the schedules is their meaning at that moment.
LEMMA StepRefines == IInv /\ [CacheNext]_vars => [Next]_<<schedules, answer>>
<1> SUFFICES ASSUME IInv, CacheNext PROVE Next \/ UNCHANGED <<schedules, answer>>
  BY DEF vars
<1>1. ASSUME NEW b \in Bundles, mergedCache[b].is
      PROVE  Answer(b, "schedule", mergedCache[b].merged) = Meaning(b)
  BY <1>1 DEF IInv, CacheIsCurrent, Meaning
<1>2. ASSUME NEW c \in Callers, missed[c].is
      PROVE  missed[c].bundle \in Bundles /\ missed[c].bundle # {}
  BY <1>2 DEF IInv, TypeOK, None, Missed
<1>3. ASSUME NEW id \in Ids, NEW content \in Contents, UpsertSchedule(id, content) PROVE Next
  BY <1>3 DEF UpsertSchedule, Next, Store
<1>4. ASSUME NEW id \in Ids, DeleteSchedule(id) PROVE Next
  BY <1>4 DEF DeleteSchedule, Next, Store
<1>5. ASSUME NEW c \in Callers, NEW b \in Bundles, Hit(c, b) PROVE Next
  BY <1>1, <1>5 DEF Hit, Next, Evaluate
<1>6. ASSUME NEW c \in Callers, FilledMeanwhile(c) PROVE Next
  BY <1>1, <1>2, <1>6 DEF FilledMeanwhile, Next, Evaluate
<1>7. ASSUME NEW c \in Callers, FailClosed(c) PROVE Next
  BY <1>2, <1>7 DEF FailClosed, Next, Evaluate, Meaning
<1>8. ASSUME NEW c \in Callers, Fill(c) PROVE Next
  BY <1>2, <1>8 DEF Fill, Next, Evaluate, Meaning
<1>9. ASSUME NEW c \in Callers, EvaluateNothing(c) PROVE Next
  BY <1>9, BundlesAssumption DEF EvaluateNothing, Next, Evaluate, Meaning
<1>10. ASSUME NEW c \in Callers, NEW b \in Bundles, Miss(c, b)
       PROVE  UNCHANGED <<schedules, answer>>
  BY <1>10 DEF Miss
<1> QED
  BY <1>3, <1>4, <1>5, <1>6, <1>7, <1>8, <1>9, <1>10 DEF CacheNext

\* EvaluateBundle with its cache implements EvaluateBundle without one.
THEOREM Refinement == CacheSpec => AsIfUncached
<1>1. CacheInit => Init
  BY DEF CacheInit
<1> QED
  BY <1>1, Invariance, StepRefines, PTL DEF CacheSpec, AsIfUncached, Spec

-----------------------------------------------------------------------------
(* Division                                                                *)

LEMMA DivMod ==
    ASSUME NEW d \in Nat \ {0}, NEW t \in Nat
    PROVE  t \div d \in Nat /\ t % d \in 0 .. d - 1 /\ t = (t \div d) * d + (t % d)
OBVIOUS

LEMMA Monotone ==
    ASSUME NEW d \in Nat, NEW p \in Nat, NEW q \in Nat, p < q
    PROVE  p * d + d <= q * d
<1>1. PICK k \in Nat : q = p + 1 + k
  <2>1. q - p - 1 \in Nat /\ q = p + 1 + (q - p - 1)
    OBVIOUS
  <2> QED
    BY <2>1
<1>2. q * d = p * d + d + k * d
  BY <1>1
<1>3. k * d \in Nat
  OBVIOUS
<1> QED
  BY <1>2, <1>3

LEMMA Division ==
    ASSUME NEW d \in Nat \ {0}, NEW q \in Nat, NEW r \in 0 .. d - 1
    PROVE  (q * d + r) \div d = q /\ (q * d + r) % d = r
<1> DEFINE t == q * d + r
<1> DEFINE e == t \div d
<1> DEFINE s == t % d
<1>1. t \in Nat /\ q * d \in Nat
  OBVIOUS
<1>2. e \in Nat /\ s \in 0 .. d - 1 /\ t = e * d + s
  BY <1>1, DivMod
<1>3. t = q * d + r
  OBVIOUS
<1> HIDE DEF t, e, s
<1>4. ~(e < q)
  BY <1>2, <1>3, Monotone
<1>5. ~(q < e)
  BY <1>2, <1>3, Monotone
<1>6. e = q
  BY <1>2, <1>4, <1>5
<1>7. s = r
  BY <1>2, <1>3, <1>6
<1> QED
  BY <1>6, <1>7 DEF t, e, s

-----------------------------------------------------------------------------
(* The clock                                                               *)

LEMMA Clock ==
    ASSUME NEW t \in Nat
    PROVE  /\ Day(t) \in Nat /\ Minute(t) \in Minutes /\ Weekday(t) \in 0 .. WeekLength - 1
           /\ t = Day(t) * DayLength + Minute(t)
<1>1. Day(t) \in Nat /\ Minute(t) \in Minutes /\ t = Day(t) * DayLength + Minute(t)
  BY WeekAssumption, DivMod DEF Day, Minute, Minutes
<1> QED
  BY <1>1, WeekAssumption, DivMod DEF Weekday

LEMMA MinuteIs ==
    ASSUME NEW t \in Nat
    PROVE  /\ Day(t) \in Nat /\ Minute(t) \in Nat /\ Minute(t) < DayLength
           /\ t = Day(t) * DayLength + Minute(t)
<1>1. Minute(t) \in 0 .. DayLength - 1
  BY Clock DEF Minutes
<1>2. Minute(t) \in Nat /\ Minute(t) < DayLength
  BY <1>1, WeekAssumption
<1> QED
  BY <1>2, Clock

LEMMA ClockIs ==
    ASSUME NEW q \in Nat, NEW m \in Minutes
    PROVE  Day(q * DayLength + m) = q /\ Minute(q * DayLength + m) = m
BY WeekAssumption, Division DEF Day, Minute, Minutes

\* The weekday before, and the weekday after.
LEMMA DayBefore ==
    ASSUME NEW q \in Nat
    PROVE  /\ (((q + 1) % WeekLength) + WeekLength - 1) % WeekLength = q % WeekLength
           /\ ((q % WeekLength) + 1) % WeekLength = (q + 1) % WeekLength
<1> DEFINE W == WeekLength
<1> DEFINE e == q \div W
<1> DEFINE r == q % W
<1>1. W \in Nat \ {0}
  BY WeekAssumption
<1>2. e \in Nat /\ r \in 0 .. W - 1 /\ q = e * W + r
  BY <1>1, DivMod
<1> HIDE DEF W, e, r
<1>3. CASE r + 1 < W
  <2>1. q + 1 = e * W + (r + 1) /\ r + 1 \in 0 .. W - 1
    BY <1>1, <1>2, <1>3
  <2>2. (q + 1) % W = r + 1
    BY <1>1, <1>2, <2>1, Division
  <2>3. 1 * W + r = r + 1 + W - 1 /\ 0 * W + (r + 1) = r + 1
    BY <1>1, <1>2
  <2>4. (r + 1 + W - 1) % W = r /\ (r + 1) % W = r + 1
    <3>1. (1 * W + r) % W = r /\ (0 * W + (r + 1)) % W = r + 1
      BY <1>1, <1>2, <2>1, Division
    <3> QED
      BY <2>3, <3>1
  <2> QED
    BY <2>2, <2>4 DEF r, W
<1>4. CASE ~(r + 1 < W)
  <2>1. q + 1 = (e + 1) * W + 0 /\ r = W - 1 /\ e + 1 \in Nat /\ 0 \in 0 .. W - 1
    BY <1>1, <1>2, <1>4
  <2>2. (q + 1) % W = 0
    BY <1>1, <2>1, Division
  <2>3. 0 * W + (W - 1) = 0 + W - 1 /\ 1 * W + 0 = r + 1
    BY <1>1, <2>1
  <2>4. (0 + W - 1) % W = r /\ (r + 1) % W = 0
    <3>1. (0 * W + (W - 1)) % W = W - 1 /\ (1 * W + 0) % W = 0
      BY <1>1, <2>1, Division
    <3> QED
      BY <2>1, <2>3, <3>1
  <2> QED
    BY <2>2, <2>4 DEF r, W
<1> QED
  BY <1>3, <1>4

\* The next minute is of the same day, or the first of the next one.
LEMMA NextMinute ==
    ASSUME NEW t \in Nat
    PROVE  \/ /\ Day(t + 1) = Day(t) /\ Minute(t + 1) = Minute(t) + 1
              /\ Weekday(t + 1) = Weekday(t)
           \/ /\ Day(t + 1) = Day(t) + 1 /\ Minute(t + 1) = 0 /\ Minute(t) = DayLength - 1
              /\ (Weekday(t + 1) + WeekLength - 1) % WeekLength = Weekday(t)
<1> DEFINE q == Day(t)
<1> DEFINE m == Minute(t)
<1>1. q \in Nat /\ m \in Minutes /\ t = q * DayLength + m
  BY Clock
<1> HIDE DEF q, m
<1>2. DayLength \in Nat \ {0}
  BY WeekAssumption
<1>3. CASE m + 1 < DayLength
  <2>1. t + 1 = q * DayLength + (m + 1) /\ m + 1 \in Minutes
    BY <1>1, <1>2, <1>3 DEF Minutes
  <2>2. Day(t + 1) = q /\ Minute(t + 1) = m + 1
    BY <1>1, <2>1, ClockIs
  <2> QED
    BY <2>2 DEF q, m, Weekday
<1>4. CASE ~(m + 1 < DayLength)
  <2>1. t + 1 = (q + 1) * DayLength + 0 /\ m = DayLength - 1 /\ 0 \in Minutes /\ q + 1 \in Nat
    BY <1>1, <1>2, <1>4 DEF Minutes
  <2>2. Day(t + 1) = q + 1 /\ Minute(t + 1) = 0
    BY <2>1, ClockIs
  <2>3. (((q + 1) % WeekLength) + WeekLength - 1) % WeekLength = q % WeekLength
    BY <1>1, DayBefore
  <2> QED
    BY <2>1, <2>2, <2>3 DEF q, m, Weekday
<1> QED
  BY <1>3, <1>4

-----------------------------------------------------------------------------
(* NextStateChange                                                         *)

Proper == {r \in Rules : r.start # r.end}

LEMMA RuleFields ==
    ASSUME NEW rule \in Proper
    PROVE  /\ rule.days \subseteq 0 .. WeekLength - 1
           /\ rule.start \in Nat /\ rule.end \in Nat /\ rule.start # rule.end
           /\ rule.start < DayLength /\ rule.end < DayLength
           /\ Dated(rule) => rule.dates \in Nat \X Nat
BY WeekAssumption DEF Proper, Rules, Minutes, Dated

\* No weekly window begins or ends at a minute that is none of its two.
LEMMA WeekStep ==
    ASSUME NEW rule \in Proper, NEW t \in Nat, Minute(t + 1) \notin {rule.start, rule.end}
    PROVE  InWeek(rule, t + 1) <=> InWeek(rule, t)
<1> DEFINE today == Weekday(t) \in rule.days
<1> DEFINE before == (Weekday(t) + WeekLength - 1) % WeekLength \in rule.days
<1>1. /\ rule.start \in Nat /\ rule.end \in Nat
      /\ rule.start < DayLength /\ rule.end < DayLength
  BY RuleFields
<1>2. /\ DayLength \in Nat
      /\ Minute(t) \in Nat /\ Minute(t) < DayLength
  BY MinuteIs, WeekAssumption
<1>3. CASE Weekday(t + 1) = Weekday(t) /\ Minute(t + 1) = Minute(t) + 1
  <2>1. /\ Minute(t) + 1 >= rule.start <=> Minute(t) >= rule.start
        /\ Minute(t) + 1 < rule.end <=> Minute(t) < rule.end
        /\ Minute(t) + 1 \in rule.start .. rule.end - 1
              <=> Minute(t) \in rule.start .. rule.end - 1
    BY <1>1, <1>2, <1>3
  <2> QED
    BY <1>3, <2>1 DEF InWeek
<1>4. CASE /\ (Weekday(t + 1) + WeekLength - 1) % WeekLength = Weekday(t)
           /\ Minute(t + 1) = 0 /\ Minute(t) = DayLength - 1
  <2>1. /\ Minute(t) \notin rule.start .. rule.end - 1 /\ Minute(t) >= rule.start
        /\ ~(Minute(t) < rule.end)
    BY <1>1, <1>2, <1>4
  <2>2. /\ Minute(t + 1) \notin rule.start .. rule.end - 1 /\ ~(Minute(t + 1) >= rule.start)
        /\ Minute(t + 1) < rule.end
    BY <1>1, <1>2, <1>4
  <2> QED
    BY <1>4, <2>1, <2>2 DEF InWeek
<1> QED
  BY <1>3, <1>4, NextMinute

\* Nor does a window with dates, except at the end of the midnight after them.
LEMMA DatesStep ==
    ASSUME NEW rule \in Proper, Dated(rule), ~Overnight(rule), NEW t \in Nat,
           Day(t + 1) \in rule.dates[1] .. rule.dates[2] + 1
               => Minute(t + 1) \notin {rule.start, rule.end},
           ~(Lingers(rule, t) /\ rule.dates[1] <= rule.dates[2] + 1)
    PROVE  InDates(rule, t + 1) <=> InDates(rule, t)
<1> DEFINE D == DayLength
<1> DEFINE first == rule.dates[1]
<1> DEFINE after == rule.dates[2] + 1
<1> DEFINE q == Day(t + 1)
<1>1. /\ D \in Nat /\ first \in Nat /\ after \in Nat
      /\ rule.start \in Nat /\ rule.end \in Nat /\ rule.start < rule.end /\ rule.end < D
  BY RuleFields, WeekAssumption DEF Overnight
<1>2. /\ q \in Nat /\ Minute(t + 1) \in Nat /\ Minute(t + 1) < D
      /\ t + 1 = q * D + Minute(t + 1)
  <2>1. t + 1 \in Nat
    OBVIOUS
  <2> QED
    BY <2>1, MinuteIs
<1>3. Minute(t) \in Nat /\ Minute(t) < D /\ t = Day(t) * D + Minute(t)
  BY MinuteIs
<1>4. \A u \in Nat : InDates(rule, u) <=>
          first * D <= u /\ u <= after * D /\ Minute(u) >= rule.start /\ Minute(u) < rule.end
  BY <1>1 DEF InDates, Overnight
<1>5. /\ q \in first .. after => Minute(t + 1) # rule.start /\ Minute(t + 1) # rule.end
      /\ ~(rule.start = 0 /\ t = after * D /\ first <= after)
  BY DEF Lingers
<1>6. first * D \in Nat /\ after * D \in Nat /\ q * D \in Nat
  BY <1>1, <1>2
<1> HIDE DEF D, first, after, q
<1>7. CASE q < first
  <2>1. q * D + D <= first * D
    BY <1>1, <1>2, <1>7, Monotone
  <2>2. ~(first * D <= t + 1) /\ ~(first * D <= t)
    BY <1>1, <1>2, <1>6, <2>1
  <2> QED
    BY <1>4, <2>2
<1>8. CASE after < q
  <2>1. after * D + D <= q * D
    BY <1>1, <1>2, <1>8, Monotone
  <2>2. ~(t + 1 <= after * D) /\ ~(t <= after * D)
    BY <1>1, <1>2, <1>6, <2>1
  <2> QED
    BY <1>4, <2>2
<1>9. CASE q \in first .. after /\ Day(t + 1) = Day(t) + 1 /\ Minute(t + 1) = 0 /\ Minute(t) = D - 1
  <2>1. ~(Minute(t + 1) >= rule.start) /\ ~(Minute(t) < rule.end)
    BY <1>1, <1>5, <1>9
  <2> QED
    BY <1>4, <2>1
<1>10. CASE q \in first .. after /\ Day(t + 1) = Day(t) /\ Minute(t + 1) = Minute(t) + 1
  <2>1. /\ Minute(t + 1) >= rule.start <=> Minute(t) >= rule.start
        /\ Minute(t + 1) < rule.end <=> Minute(t) < rule.end
    BY <1>1, <1>3, <1>5, <1>10
  <2>2. q = Day(t)
    BY <1>10 DEF q
  <2>3. first * D <= q * D
    <3>1. CASE first = q
      BY <3>1, <1>6
    <3>2. CASE first < q
      BY <3>2, <1>1, <1>2, <1>6, Monotone
    <3> QED
      BY <1>1, <1>2, <1>10, <3>1, <3>2
  <2>4. CASE q < after
    <3>1. q * D + D <= after * D
      BY <1>1, <1>2, <2>4, Monotone
    <3>2. first * D <= t /\ first * D <= t + 1 /\ t <= after * D /\ t + 1 <= after * D
      BY <1>1, <1>2, <1>3, <1>6, <2>2, <2>3, <3>1
    <3> QED
      BY <1>4, <2>1, <3>2
  <2>5. CASE q = after
    <3>1. ~(t + 1 <= after * D)
      BY <1>2, <1>3, <1>6, <1>10, <2>5
    <3>2. t <= after * D => Minute(t) = 0 /\ t = after * D
      BY <1>2, <1>3, <1>6, <2>2, <2>5
    <3>3. first <= after
      BY <1>1, <1>10
    <3>4. ~(t <= after * D /\ Minute(t) >= rule.start)
      BY <1>1, <1>5, <3>2, <3>3
    <3> QED
      BY <1>4, <3>1, <3>4
  <2> QED
    BY <1>1, <1>2, <1>10, <2>4, <2>5
<1>11. \/ q < first \/ after < q \/ q \in first .. after
  BY <1>1, <1>2
<1>12. \/ Day(t + 1) = Day(t) /\ Minute(t + 1) = Minute(t) + 1
       \/ Day(t + 1) = Day(t) + 1 /\ Minute(t + 1) = 0 /\ Minute(t) = D - 1
  BY NextMinute DEF D
<1> QED
  BY <1>7, <1>8, <1>9, <1>10, <1>11, <1>12

LEMMA Least ==
    ASSUME NEW S, S \subseteq Nat, S # {}
    PROVE  \E x \in S : \A y \in S : x <= y
<1> DEFINE R == OpToRel(<, Nat)
<1>1. IsWellFoundedOn(R, Nat)
  BY NatLessThanWellFounded
<1>2. \A x, y \in Nat : x < y => <<x, y>> \in R
  BY DEF OpToRel
<1> HIDE DEF R
<1>3. PICK x \in S : \A y \in S : ~(<<y, x>> \in R)
  BY <1>1, WFMin
<1>4. \A y \in S : ~(y < x)
  BY <1>2, <1>3
<1>5. \A y \in S : x <= y
  BY <1>4
<1> QED
  BY <1>5

\* The rules that match a time, and what is made of them.
Matching(s, t) == {i \in DOMAIN s.rules : Matches(s.rules[i], t)}
Shortest(s, S) == {i \in S : \A j \in S : Duration(s.rules[i]) <= Duration(s.rules[j])}
First(S) == CHOOSE i \in S : \A j \in S : i <= j

LEMMA EvaluationIs ==
    ASSUME NEW s, NEW t
    PROVE  EvaluateSchedule(s, t) =
              IF Matching(s, t) = {} THEN Default(s)
                                     ELSE s.rules[First(Shortest(s, Matching(s, t)))].action
BY DEF EvaluateSchedule, Matching, Shortest, First

LEMMA SameMatches ==
    ASSUME NEW s, NEW t, NEW u,
           \A i \in DOMAIN s.rules : Matches(s.rules[i], t) <=> Matches(s.rules[i], u)
    PROVE  EvaluateSchedule(s, t) = EvaluateSchedule(s, u)
<1>1. Matching(s, t) = Matching(s, u)
  BY DEF Matching
<1> QED
  BY <1>1, EvaluationIs

\* The times the timer may be set to, and the one it is set to.
Points(s, t) ==
    {p \in UNION {Boundaries(s.rules[i], Day(t) + k) :
                     i \in DOMAIN s.rules, k \in 0 .. WeekLength} : p > t}

\* A boundary is a minute of the day it is of.
LEMMA BoundaryIs ==
    ASSUME NEW rule \in Proper, NEW q \in Nat, NEW p \in Boundaries(rule, q)
    PROVE  p \in Nat /\ Day(p) = q
<1>1. rule.start \in Minutes /\ rule.end \in Minutes
  BY DEF Proper, Rules
<1>2. PICK m \in Minutes : p = q * DayLength + m
  BY <1>1 DEF Boundaries
<1>3. m \in Nat /\ q * DayLength \in Nat
  BY WeekAssumption DEF Minutes
<1> QED
  BY <1>2, <1>3, ClockIs

LEMMA PointsAre ==
    ASSUME NEW s, s.rules \in Seq(Proper), NEW t \in Nat, NEW p \in Points(s, t)
    PROVE  p \in Nat /\ p > t /\ Day(p) \in Day(t) .. Day(t) + WeekLength
<1>1. PICK i \in DOMAIN s.rules, k \in 0 .. WeekLength :
          p \in Boundaries(s.rules[i], Day(t) + k) /\ p > t
  BY DEF Points
<1>2. s.rules[i] \in Proper
  OBVIOUS
<1>3. Day(t) \in Nat /\ WeekLength \in Nat
  BY MinuteIs, WeekAssumption
<1>4. Day(t) + k \in Nat /\ Day(t) + k \in Day(t) .. Day(t) + WeekLength
  BY <1>3
<1> QED
  BY <1>1, <1>2, <1>4, BoundaryIs

LEMMA NextStateChangeIs ==
    ASSUME NEW s, s.rules \in Seq(Proper), NEW t \in Nat
    PROVE  /\ NextStateChange(s, t) \in Nat /\ NextStateChange(s, t) > t
           /\ \A p \in Points(s, t) : NextStateChange(s, t) <= p
           /\ Day(NextStateChange(s, t)) <= Day(t) + WeekLength
<1> DEFINE P == Points(s, t)
<1>1. NextStateChange(s, t) = IF P = {} THEN t + DayLength
                              ELSE CHOOSE p \in P : \A q \in P : p <= q
  BY DEF NextStateChange, Points
<1>2. \A p \in P : p \in Nat /\ p > t /\ Day(p) \in Day(t) .. Day(t) + WeekLength
  BY PointsAre
<1>3. Day(t) \in Nat /\ WeekLength \in Nat \ {0} /\ DayLength \in Nat \ {0}
  BY MinuteIs, WeekAssumption
<1> HIDE DEF P
<1>4. CASE P = {}
  <2>1. Minute(t) \in Minutes /\ t = Day(t) * DayLength + Minute(t)
    BY Clock
  <2>2. t + DayLength = (Day(t) + 1) * DayLength + Minute(t)
    BY <1>3, <2>1 DEF Minutes
  <2>3. Day(t + DayLength) = Day(t) + 1
    BY <1>3, <2>1, <2>2, ClockIs
  <2>4. NextStateChange(s, t) = t + DayLength
    BY <1>1, <1>4
  <2> QED
    BY <1>3, <1>4, <2>3, <2>4 DEF P
<1>5. CASE P # {}
  <2> DEFINE n == CHOOSE p \in P : \A q \in P : p <= q
  <2>1. P \subseteq Nat
    BY <1>2
  <2>2. \E p \in P : \A q \in P : p <= q
    BY <1>5, <2>1, Least
  <2>3. n \in P /\ \A q \in P : n <= q
    BY <2>2
  <2>4. n = NextStateChange(s, t)
    BY <1>1, <1>5
  <2> HIDE DEF n
  <2>5. Day(n) <= Day(t) + WeekLength
    BY <1>2, <1>3, <2>3
  <2> QED
    BY <1>2, <2>3, <2>4, <2>5 DEF P
<1> QED
  BY <1>4, <1>5

LEMMA DaysGoOn ==
    ASSUME NEW t \in Nat, NEW u \in Nat, t <= u
    PROVE  Day(t) <= Day(u)
<1> DEFINE p == Day(t)
<1> DEFINE q == Day(u)
<1>1. p \in Nat /\ Minute(t) \in Nat /\ t = p * DayLength + Minute(t)
  BY MinuteIs
<1>2. q \in Nat /\ Minute(u) \in Nat /\ Minute(u) < DayLength /\ u = q * DayLength + Minute(u)
  BY MinuteIs
<1> HIDE DEF p, q
<1>3. q * DayLength \in Nat /\ p * DayLength \in Nat /\ DayLength \in Nat
  BY <1>1, <1>2, WeekAssumption
<1>4. ASSUME q < p PROVE FALSE
  <2>1. q * DayLength + DayLength <= p * DayLength
    BY <1>1, <1>2, <1>3, <1>4, Monotone
  <2> QED
    BY <1>1, <1>2, <1>3, <2>1
<1>5. p <= q
  BY <1>1, <1>2, <1>4
<1> QED
  BY <1>5 DEF p, q

\* Nothing changes from one minute to the next before the timer goes off.
LEMMA NothingInBetween ==
    ASSUME NEW s, s.rules \in Seq(Proper), NEW t \in Nat,
           \A i \in DOMAIN s.rules : ~(Dated(s.rules[i]) /\ Overnight(s.rules[i])),
           \A i \in DOMAIN s.rules : ~Lingers(s.rules[i], t),
           NEW u \in Nat, t <= u, u + 1 < NextStateChange(s, t), NEW i \in DOMAIN s.rules
    PROVE  Matches(s.rules[i], u) <=> Matches(s.rules[i], u + 1)
<1> DEFINE n == NextStateChange(s, t)
<1> DEFINE rule == s.rules[i]
<1>1. rule \in Proper
  OBVIOUS
<1>2. n \in Nat /\ Day(n) <= Day(t) + WeekLength /\ \A p \in Points(s, t) : n <= p
  BY NextStateChangeIs
<1>3. ASSUME NEW v \in Nat, t <= v, v < n, v # t,
             Dated(rule) => Day(v) \in rule.dates[1] .. rule.dates[2] + 1
      PROVE  Minute(v) # rule.start /\ Minute(v) # rule.end
  <2>1. Day(v) \in Nat /\ Day(t) \in Nat /\ Day(n) \in Nat /\ WeekLength \in Nat
    BY <1>2, MinuteIs, WeekAssumption
  <2>2. Day(t) <= Day(v) /\ Day(v) <= Day(n)
    BY <1>2, <1>3, DaysGoOn
  <2>3. Day(v) - Day(t) \in 0 .. WeekLength /\ Day(t) + (Day(v) - Day(t)) = Day(v)
    BY <1>2, <2>1, <2>2
  <2>4. v = Day(v) * DayLength + Minute(v) /\ v > t
    BY <1>3, MinuteIs
  <2>5. CASE Minute(v) = rule.start \/ Minute(v) = rule.end
    <3>1. v \in Boundaries(rule, Day(v))
      BY <1>3, <2>4, <2>5 DEF Boundaries
    <3>2. v \in Points(s, t)
      BY <2>3, <2>4, <3>1 DEF Points
    <3>3. ~(n <= v)
      BY <1>2, <1>3
    <3> QED
      BY <1>2, <3>2, <3>3
  <2> QED
    BY <2>5
<1>4. u + 1 \in Nat /\ t <= u + 1 /\ u + 1 # t
  OBVIOUS
<1>5. CASE ~Dated(rule)
  <2>1. Minute(u + 1) \notin {rule.start, rule.end}
    BY <1>3, <1>4, <1>5
  <2> QED
    BY <1>1, <1>5, <2>1, WeekStep DEF Matches
<1>6. CASE Dated(rule)
  <2>1. Day(u + 1) \in rule.dates[1] .. rule.dates[2] + 1
            => Minute(u + 1) \notin {rule.start, rule.end}
    BY <1>3, <1>4
  <2>2. ~(Lingers(rule, u) /\ rule.dates[1] <= rule.dates[2] + 1)
    <3>1. CASE u = t
      BY <3>1
    <3>2. CASE u # t /\ Lingers(rule, u) /\ rule.dates[1] <= rule.dates[2] + 1
      <4>1. rule.dates[1] \in Nat /\ rule.dates[2] + 1 \in Nat /\ 0 \in Minutes
        <5>1. rule.dates \in Nat \X Nat
          BY <1>1, <1>6, RuleFields
        <5>2. rule.dates[1] \in Nat /\ rule.dates[2] \in Nat
          BY <5>1
        <5>3. 0 \in Minutes
          BY WeekAssumption DEF Minutes
        <5> HIDE DEF rule
        <5> QED
          BY <5>2, <5>3
      <4>2. rule.start = 0 /\ u = (rule.dates[2] + 1) * DayLength
        BY <3>2 DEF Lingers
      <4>3. (rule.dates[2] + 1) * DayLength + 0 = u
        BY <4>1, <4>2
      <4>4. Day(u) = rule.dates[2] + 1 /\ Minute(u) = 0
        BY <4>1, <4>3, ClockIs
      <4>5. Day(u) \in rule.dates[1] .. rule.dates[2] + 1
        BY <3>2, <4>1, <4>4
      <4>6. u < n
        BY <1>2
      <4>7. Minute(u) # rule.start
        BY <1>3, <3>2, <4>5, <4>6
      <4> QED
        BY <4>2, <4>4, <4>7
    <3> QED
      BY <3>1, <3>2
  <2>3. ~Overnight(rule)
    BY <1>6
  <2> QED
    BY <1>1, <1>6, <2>1, <2>2, <2>3, DatesStep DEF Matches
<1> QED
  BY <1>5, <1>6

LEMMA SameUntilNextChange ==
    ASSUME NEW s, s.rules \in Seq(Proper), NEW t \in Nat,
           \A i \in DOMAIN s.rules : ~(Dated(s.rules[i]) /\ Overnight(s.rules[i])),
           \A i \in DOMAIN s.rules : ~Lingers(s.rules[i], t),
           NEW later \in t .. NextStateChange(s, t) - 1
    PROVE  EvaluateSchedule(s, later) = EvaluateSchedule(s, t)
<1> DEFINE n == NextStateChange(s, t)
<1> DEFINE Changed == {v \in t .. n - 1 : EvaluateSchedule(s, v) # EvaluateSchedule(s, t)}
<1>1. n \in Nat
  BY NextStateChangeIs
<1>2. CASE Changed # {}
  <2>1. Changed \subseteq Nat
    BY <1>1
  <2>2. PICK m \in Changed : \A v \in Changed : m <= v
    BY <1>2, <2>1, Least
  <2>3. m \in t .. n - 1 /\ EvaluateSchedule(s, m) # EvaluateSchedule(s, t)
    OBVIOUS
  <2>4. m # t
    BY <2>3
  <2>5. /\ m - 1 \in Nat /\ m - 1 \in t .. n - 1 /\ ~(m <= m - 1)
        /\ t <= m - 1 /\ m - 1 + 1 = m /\ m < n
    BY <1>1, <2>3, <2>4
  <2>6. m - 1 \notin Changed
    BY <2>2, <2>5
  <2>7. EvaluateSchedule(s, m - 1) = EvaluateSchedule(s, t)
    BY <2>5, <2>6
  <2>8. \A i \in DOMAIN s.rules : Matches(s.rules[i], m - 1) <=> Matches(s.rules[i], m)
    <3> DEFINE w == m - 1
    <3>1. w \in Nat /\ t <= w /\ w + 1 = m /\ w + 1 < n
      BY <2>5
    <3> HIDE DEF w
    <3>2. \A i \in DOMAIN s.rules : Matches(s.rules[i], w) <=> Matches(s.rules[i], w + 1)
      BY <3>1, NothingInBetween
    <3> QED
      BY <3>1, <3>2 DEF w
  <2>9. EvaluateSchedule(s, m - 1) = EvaluateSchedule(s, m)
    BY <2>8, SameMatches
  <2> QED
    BY <2>3, <2>7, <2>9
<1> QED
  BY <1>2

-----------------------------------------------------------------------------
(* MergeSchedules                                                          *)

\* The first n sequences, appended to each other one by one.
Appends(seqs, g, n) ==
    g = [i \in 1 .. n |-> IF i = 1 THEN seqs[i] ELSE g[i - 1] \o seqs[i]]

LEMMA AppendsExists ==
    ASSUME NEW seqs, NEW n \in Nat
    PROVE  \E g : Appends(seqs, g, n)
<1> DEFINE Bad == {m \in 0 .. n : ~\E g : Appends(seqs, g, m)}
<1> SUFFICES ASSUME Bad # {} PROVE FALSE
  OBVIOUS
<1>1. Bad \subseteq Nat
  OBVIOUS
<1>2. PICK m \in Bad : \A k \in Bad : m <= k
  BY <1>1, Least
<1>3. m \in 0 .. n /\ ~\E g : Appends(seqs, g, m)
  BY <1>2
<1>4. m # 0
  <2> DEFINE g == [i \in 1 .. 0 |-> seqs]
  <2>1. Appends(seqs, g, 0)
    BY DEF Appends
  <2> QED
    BY <1>3, <2>1
<1>5. m - 1 \in 0 .. n /\ ~(m <= m - 1)
  BY <1>3, <1>4
<1>6. m - 1 \notin Bad
  BY <1>2, <1>5
<1>7. PICK g : Appends(seqs, g, m - 1)
  BY <1>5, <1>6
<1> DEFINE h == [i \in 1 .. m |-> IF i < m THEN g[i]
                                  ELSE IF i = 1 THEN seqs[i] ELSE g[i - 1] \o seqs[i]]
<1>8. ASSUME NEW i \in 1 .. m
      PROVE  h[i] = IF i = 1 THEN seqs[i] ELSE h[i - 1] \o seqs[i]
  <2>1. i # 1 => i - 1 \in 1 .. m /\ i - 1 < m
    BY <1>3, <1>8
  <2>2. i # 1 => h[i - 1] = g[i - 1]
    BY <2>1
  <2>3. CASE i < m
    <3>1. i \in 1 .. m - 1
      BY <1>3, <1>8, <2>3
    <3>2. g[i] = IF i = 1 THEN seqs[i] ELSE g[i - 1] \o seqs[i]
      BY <1>7, <3>1 DEF Appends
    <3>3. h[i] = g[i]
      BY <2>3
    <3> QED
      BY <2>2, <3>2, <3>3
  <2>4. CASE ~(i < m)
    <3>1. h[i] = IF i = 1 THEN seqs[i] ELSE g[i - 1] \o seqs[i]
      BY <2>4
    <3> QED
      BY <2>2, <3>1
  <2> QED
    BY <2>3, <2>4
<1>9. h = [i \in 1 .. m |-> h[i]]
  OBVIOUS
<1> HIDE DEF h
<1>10. Appends(seqs, h, m)
  BY <1>8, <1>9 DEF Appends
<1> QED
  BY <1>3, <1>10

\* What FlattenSeq makes of sequences holds what they hold and nothing else.
LEMMA Flattened ==
    ASSUME NEW S, NEW seqs \in Seq(Seq(S)), seqs # <<>>
    PROVE  FlattenSeq(seqs) \in Seq(S)
<1> DEFINE n == Len(seqs)
<1> DEFINE Flattens(g) ==
        g = [i \in 1 .. Len(seqs) |-> IF i = 1 THEN seqs[i] ELSE g[i - 1] \o seqs[i]]
<1> DEFINE f == CHOOSE g : Flattens(g)
<1>1. n \in Nat \ {0}
  BY EmptySeq
<1>2. FlattenSeq(seqs) = f[n]
  BY <1>1 DEF FlattenSeq
<1>3. Flattens(f)
  <2>1. \E g : Flattens(g)
    BY <1>1, AppendsExists DEF Appends
  <2> HIDE DEF Flattens
  <2> QED
    BY <2>1
<1> HIDE DEF f
<1>4. \A i \in 1 .. n : f[i] = IF i = 1 THEN seqs[i] ELSE f[i - 1] \o seqs[i]
  BY <1>3
<1>5. \A i \in 1 .. n : seqs[i] \in Seq(S)
  BY <1>1
<1> HIDE DEF n, Flattens
<1> DEFINE Bad == {i \in 1 .. n : f[i] \notin Seq(S)}
<1>6. ASSUME Bad # {} PROVE FALSE
  <2>1. Bad \subseteq Nat
    BY <1>1
  <2>2. PICK m \in Bad : \A k \in Bad : m <= k
    BY <1>6, <2>1, Least
  <2>3. m \in 1 .. n /\ f[m] \notin Seq(S)
    BY <2>2
  <2>4. m # 1
    BY <1>4, <1>5, <2>3
  <2>5. m - 1 \in 1 .. n /\ ~(m <= m - 1)
    BY <1>1, <2>3, <2>4
  <2>6. f[m - 1] \in Seq(S)
    BY <2>2, <2>5
  <2>7. f[m - 1] \o seqs[m] \in Seq(S)
    BY <1>5, <2>3, <2>6, ConcatProperties
  <2> QED
    BY <1>4, <2>3, <2>4, <2>7
<1>7. n \in 1 .. n
  BY <1>1
<1> QED
  BY <1>2, <1>6, <1>7

\* The rules of the schedules of a bundle.
RulesOf(b) == {r \in Proper : \E x \in DOMAIN b : \E l \in DOMAIN b[x].rules : r = b[x].rules[l]}

\* What MergeSchedules makes of schedules has their rules and no others.
LEMMA MergeIs ==
    ASSUME NEW b \in Seq(Timetables), b # <<>>
    PROVE  Merge(b).rules \in Seq(RulesOf(b)) /\ Merge(b).rules \in Seq(Proper)
<1> DEFINE seqs == [x \in DOMAIN b |-> b[x].rules]
<1>1. \A x \in DOMAIN b : b[x].rules \in Seq(Proper)
  <2>1. \A x \in DOMAIN b : b[x] \in Timetables
    OBVIOUS
  <2> QED
    BY <2>1, TimetablesAssumption DEF Proper
<1>2. \A x \in DOMAIN b : b[x].rules \in Seq(RulesOf(b))
  <2> TAKE x \in DOMAIN b
  <2>1. b[x].rules \in Seq(Proper)
    BY <1>1
  <2>2. \A l \in DOMAIN b[x].rules : b[x].rules[l] \in RulesOf(b)
    BY <2>1 DEF RulesOf
  <2> QED
    BY <2>1, <2>2
<1>3. DOMAIN b = 1 .. Len(b) /\ Len(b) \in Nat \ {0}
  BY EmptySeq
<1>4. seqs \in Seq(Seq(RulesOf(b))) /\ Len(seqs) = Len(b)
  BY <1>2, <1>3
<1>5. seqs # <<>>
  BY <1>3, <1>4
<1>6. Merge(b).rules = FlattenSeq(seqs)
  BY DEF Merge
<1> HIDE DEF seqs
<1>7. Merge(b).rules \in Seq(RulesOf(b))
  BY <1>4, <1>5, <1>6, Flattened
<1>8. RulesOf(b) \subseteq Proper
  BY DEF RulesOf
<1> QED
  BY <1>7, <1>8, SeqMonotonic

\* A rule of the merged schedule is a rule of one of them.
LEMMA RuleOfOne ==
    ASSUME NEW b \in Seq(Timetables), b # <<>>, NEW k \in DOMAIN Merge(b).rules
    PROVE  /\ Merge(b).rules[k] \in Proper
           /\ \E x \in DOMAIN b : \E l \in DOMAIN b[x].rules : Merge(b).rules[k] = b[x].rules[l]
<1>1. Merge(b).rules[k] \in RulesOf(b)
  BY MergeIs
<1> QED
  BY <1>1 DEF RulesOf

LEMMA MergedIsWeekly ==
    ASSUME NEW b \in Seq(Timetables), b # <<>>, Attachable(b), NEW k \in DOMAIN Merge(b).rules
    PROVE  ~Dated(Merge(b).rules[k])
BY RuleOfOne DEF Attachable, Weekly

\* A weekly rule matches as long as its window is open.
LEMMA MatchesIsOpen ==
    ASSUME NEW rule \in Proper, ~Dated(rule), NEW t \in Nat, t >= DayLength
    PROVE  Matches(rule, t) <=> Open(rule, t)
<1> DEFINE D == DayLength
<1> DEFINE q == Day(t)
<1> DEFINE m == Minute(t)
<1> DEFINE start == rule.start
<1> DEFINE end == rule.end
<1> DEFINE long == Duration(rule)
<1>1. /\ D \in Nat \ {0} /\ start \in Nat /\ end \in Nat /\ start # end
      /\ start < D /\ end < D
  BY RuleFields, WeekAssumption
<1>2. q \in Nat /\ m \in Nat /\ m < D /\ t = q * D + m /\ q * D \in Nat
  <2>1. q \in Nat /\ m \in Nat /\ m < D /\ t = q * D + m
    BY MinuteIs
  <2> QED
    BY <1>1, <2>1
<1>3. q \in Nat \ {0}
  <2>1. q # 0
    BY <1>1, <1>2
  <2> QED
    BY <1>2, <2>1
<1>4. /\ (((q - 1 + 1) % WeekLength) + WeekLength - 1) % WeekLength = (q - 1) % WeekLength
      /\ q - 1 + 1 = q
  <2>1. q - 1 \in Nat /\ q - 1 + 1 = q
    BY <1>3
  <2> QED
    BY <2>1, DayBefore
<1>5. /\ Weekday(t) = q % WeekLength
      /\ (Weekday(t) + WeekLength - 1) % WeekLength = (q - 1) % WeekLength
  BY <1>4 DEF Weekday
<1>6. Matches(rule, t) <=>
        \/ start < end /\ q % WeekLength \in rule.days /\ start <= m /\ m < end
        \/ end < start /\ q % WeekLength \in rule.days /\ start <= m
        \/ end < start /\ (q - 1) % WeekLength \in rule.days /\ m < end
  <2>1. Matches(rule, t) <=> InWeek(rule, t)
    BY DEF Matches
  <2>2. Overnight(rule) <=> end < start
    BY <1>1 DEF Overnight
  <2>3. m \in start .. end - 1 <=> start <= m /\ m < end
    BY <1>1, <1>2
  <2>4. m >= start <=> start <= m
    BY <1>1, <1>2
  <2>5. ~Overnight(rule) <=> start < end
    BY <1>1 DEF Overnight
  <2> QED
    BY <1>5, <2>1, <2>2, <2>3, <2>4, <2>5 DEF InWeek
<1>7. long = IF start < end THEN end - start ELSE end - start + D
  BY <1>1 DEF Duration, Overnight
<1>8. ASSUME NEW p \in Nat, NEW k \in 0 .. long - 1, k <= t, t - k = p * D + start
      PROVE  /\ Day(t - k) = p /\ Minute(t - k) = start /\ Weekday(t - k) = p % WeekLength
  <2>1. start \in Minutes
    BY <1>1 DEF Minutes
  <2>2. Day(t - k) = p /\ Minute(t - k) = start
    BY <1>8, <2>1, ClockIs
  <2> QED
    BY <2>2 DEF Weekday
<1> HIDE DEF D, q, m, start, end, long
<1>9. ASSUME NEW p \in Nat, NEW k \in 0 .. long - 1, k <= t, t - k = p * D + start,
             p % WeekLength \in rule.days
      PROVE  Open(rule, t)
  <2>1. Minute(t - k) = rule.start /\ Weekday(t - k) \in rule.days
    BY <1>8, <1>9 DEF start
  <2> QED
    BY <1>9, <2>1 DEF Open, long
<1>10. ASSUME Matches(rule, t) PROVE Open(rule, t)
  <2>1. CASE start < end /\ q % WeekLength \in rule.days /\ start <= m /\ m < end
    <3>1. m - start \in 0 .. long - 1 /\ m - start <= t /\ t - (m - start) = q * D + start
      BY <1>1, <1>2, <1>7, <2>1
    <3> QED
      BY <1>2, <1>9, <2>1, <3>1
  <2>2. CASE end < start /\ q % WeekLength \in rule.days /\ start <= m
    <3>1. m - start \in 0 .. long - 1 /\ m - start <= t /\ t - (m - start) = q * D + start
      BY <1>1, <1>2, <1>7, <2>2
    <3> QED
      BY <1>2, <1>9, <2>2, <3>1
  <2>3. CASE end < start /\ (q - 1) % WeekLength \in rule.days /\ m < end
    <3>1. (q - 1) * D = q * D - D /\ (q - 1) * D \in Nat /\ q - 1 \in Nat
      BY <1>1, <1>3
    <3>2. m + D - start \in 0 .. long - 1 /\ m + D - start <= t
          /\ t - (m + D - start) = (q - 1) * D + start
      BY <1>1, <1>2, <1>7, <2>3, <3>1
    <3> QED
      BY <1>9, <2>3, <3>1, <3>2
  <2> QED
    BY <1>6, <1>10, <2>1, <2>2, <2>3
<1>11. ASSUME Open(rule, t) PROVE Matches(rule, t)
  <2>1. PICK k \in 0 .. long - 1 :
            k <= t /\ Minute(t - k) = start /\ Weekday(t - k) \in rule.days
    BY <1>11 DEF Open, long, start
  <2> DEFINE p == Day(t - k)
  <2>2. k \in Nat /\ t - k \in Nat /\ k < long
    BY <1>1, <1>7, <2>1
  <2>3. p \in Nat /\ t - k = p * D + start
    BY <2>1, <2>2, MinuteIs DEF D
  <2>4. p % WeekLength \in rule.days
    BY <2>1 DEF Weekday
  <2> HIDE DEF p
  <2>5. p * D \in Nat /\ t = p * D + (start + k)
    BY <1>1, <2>2, <2>3
  <2>6. CASE start + k < D
    <3>1. start + k \in Minutes
      BY <1>1, <2>2, <2>6 DEF Minutes, D
    <3>2. q = p /\ m = start + k
      BY <2>3, <2>5, <3>1, ClockIs DEF q, m, D
    <3>3. start < end => m < end
      BY <1>1, <1>7, <2>2, <3>2
    <3>4. start <= m /\ (start < end \/ end < start)
      BY <1>1, <2>2, <3>2
    <3> QED
      BY <1>6, <2>4, <3>2, <3>3, <3>4
  <2>7. CASE ~(start + k < D)
    <3>1. start + k - D \in Minutes /\ end < start /\ start + k - D < end
      <4>1. end < start
        BY <1>1, <1>7, <2>2, <2>7
      <4>2. k < end - start + D
        BY <1>1, <1>7, <2>2, <4>1
      <4>3. start + k - D < end /\ start + k - D \in 0 .. D - 1
        BY <1>1, <2>2, <2>7, <4>2
      <4> QED
        BY <4>1, <4>3 DEF Minutes, D
    <3>2. p + 1 \in Nat /\ t = (p + 1) * D + (start + k - D)
      BY <1>1, <2>2, <2>3, <2>5
    <3>3. q = p + 1 /\ m = start + k - D
      BY <3>1, <3>2, ClockIs DEF q, m, D
    <3>4. q - 1 = p
      BY <2>3, <3>3
    <3> QED
      BY <1>6, <2>4, <3>1, <3>3, <3>4
  <2> QED
    BY <2>6, <2>7
<1> QED
  BY <1>10, <1>11

\* A weekly rule that matches does so in one of the segments it is projected to.
LEMMA MatchesInSegment ==
    ASSUME NEW rule \in Proper, ~Dated(rule), NEW t \in Nat, Matches(rule, t)
    PROVE  \E a \in Project(rule) :
              /\ a.action = rule.action /\ a.from \in Nat /\ a.until \in Nat
              /\ a.from <= Weekday(t) * DayLength + Minute(t)
              /\ Weekday(t) * DayLength + Minute(t) < a.until
<1> DEFINE D == DayLength
<1> DEFINE d == Weekday(t)
<1> DEFINE e == (Weekday(t) + WeekLength - 1) % WeekLength
<1> DEFINE m == Minute(t)
<1> DEFINE Segment(from, until) == [from |-> from, until |-> until, action |-> rule.action]
<1> DEFINE next(x) == (x + 1) % WeekLength
<1>1. /\ D \in Nat \ {0} /\ rule.start \in Nat /\ rule.end \in Nat /\ rule.start # rule.end
      /\ rule.start < D /\ rule.end < D
  BY RuleFields, WeekAssumption
<1>2. m \in Nat /\ m < D
  BY MinuteIs
<1>3. d \in Nat
  <2>1. d \in 0 .. WeekLength - 1
    BY Clock
  <2> QED
    BY <2>1, WeekAssumption
<1>4. next(e) = d
  <2>1. WeekLength \in Nat \ {0} /\ d \in 0 .. WeekLength - 1
    BY Clock, WeekAssumption
  <2>2. CASE d = 0
    <3>1. /\ d + WeekLength - 1 = 0 * WeekLength + (WeekLength - 1)
          /\ WeekLength - 1 \in 0 .. WeekLength - 1
      BY <2>1, <2>2
    <3>2. e = WeekLength - 1
      BY <2>1, <3>1, Division
    <3>3. e + 1 = 1 * WeekLength + 0 /\ 0 \in 0 .. WeekLength - 1
      BY <2>1, <3>2
    <3>4. (e + 1) % WeekLength = 0
      BY <2>1, <3>3, Division
    <3> QED
      BY <2>2, <3>4
  <2>3. CASE d # 0
    <3>1. d + WeekLength - 1 = 1 * WeekLength + (d - 1) /\ d - 1 \in 0 .. WeekLength - 1
      BY <2>1, <2>3
    <3>2. e = d - 1
      BY <2>1, <3>1, Division
    <3>3. e + 1 = 0 * WeekLength + d
      BY <2>1, <3>2
    <3>4. (e + 1) % WeekLength = d
      BY <2>1, <3>3, Division
    <3> QED
      BY <3>4
  <2> QED
    BY <2>2, <2>3
<1>5. Project(rule) =
        IF ~Overnight(rule) THEN {Segment(x * D + rule.start, x * D + rule.end) : x \in rule.days}
        ELSE {Segment(x * D + rule.start, (x + 1) * D) : x \in rule.days}
             \cup {Segment(next(x) * D, next(x) * D + rule.end) : x \in rule.days}
  BY <1>1 DEF Project
<1>6. \/ ~Overnight(rule) /\ d \in rule.days /\ m \in rule.start .. rule.end - 1
      \/ Overnight(rule) /\ d \in rule.days /\ m >= rule.start
      \/ Overnight(rule) /\ e \in rule.days /\ m < rule.end
  BY DEF Matches, InWeek
<1>7. ASSUME NEW from \in Nat, NEW until \in Nat, Segment(from, until) \in Project(rule),
             from <= d * D + m, d * D + m < until
      PROVE  \E a \in Project(rule) :
                /\ a.action = rule.action /\ a.from \in Nat /\ a.until \in Nat
                /\ a.from <= d * D + m /\ d * D + m < a.until
  <2>1. /\ Segment(from, until).from = from /\ Segment(from, until).until = until
        /\ Segment(from, until).action = rule.action
    OBVIOUS
  <2> QED
    BY <1>7, <2>1
<1>8. d * D \in Nat /\ (d + 1) * D = d * D + D
  BY <1>1, <1>3
<1>9. CASE ~Overnight(rule) /\ d \in rule.days /\ m \in rule.start .. rule.end - 1
  <2>1. Segment(d * D + rule.start, d * D + rule.end) \in Project(rule)
    BY <1>5, <1>9
  <2> HIDE DEF D, d, e, m, Segment, next
  <2>2. /\ d * D + rule.start \in Nat /\ d * D + rule.end \in Nat
        /\ d * D + rule.start <= d * D + m /\ d * D + m < d * D + rule.end
    BY <1>1, <1>2, <1>8, <1>9
  <2>3. \E a \in Project(rule) :
            /\ a.action = rule.action /\ a.from \in Nat /\ a.until \in Nat
            /\ a.from <= d * D + m /\ d * D + m < a.until
    BY <1>7, <2>1, <2>2
  <2> QED
    BY <2>3 DEF d, D, m
<1>10. CASE Overnight(rule) /\ d \in rule.days /\ m >= rule.start
  <2>1. Segment(d * D + rule.start, (d + 1) * D) \in Project(rule)
    BY <1>5, <1>10
  <2> HIDE DEF D, d, e, m, Segment, next
  <2>2. /\ d * D + rule.start \in Nat /\ (d + 1) * D \in Nat
        /\ d * D + rule.start <= d * D + m /\ d * D + m < (d + 1) * D
    BY <1>1, <1>2, <1>8, <1>10
  <2>3. \E a \in Project(rule) :
            /\ a.action = rule.action /\ a.from \in Nat /\ a.until \in Nat
            /\ a.from <= d * D + m /\ d * D + m < a.until
    BY <1>7, <2>1, <2>2
  <2> QED
    BY <2>3 DEF d, D, m
<1>11. CASE Overnight(rule) /\ e \in rule.days /\ m < rule.end
  <2>1. Segment(next(e) * D, next(e) * D + rule.end) \in Project(rule)
    BY <1>5, <1>11
  <2> HIDE DEF D, d, e, m, Segment, next
  <2>2. Segment(d * D, d * D + rule.end) \in Project(rule)
    BY <1>4, <2>1
  <2>3. /\ d * D + rule.end \in Nat
        /\ d * D <= d * D + m /\ d * D + m < d * D + rule.end
    BY <1>1, <1>2, <1>8, <1>11
  <2>4. \E a \in Project(rule) :
            /\ a.action = rule.action /\ a.from \in Nat /\ a.until \in Nat
            /\ a.from <= d * D + m /\ d * D + m < a.until
    BY <1>7, <1>8, <2>2, <2>3
  <2> QED
    BY <2>4 DEF d, D, m
<1> QED
  BY <1>6, <1>9, <1>10, <1>11

\* Two rules of a bundle that match at the same time and disagree are refused.
LEMMA OneActionAtATime ==
    ASSUME NEW b \in Seq(Timetables), b # <<>>, Attachable(b),
           NEW t \in Nat, NEW i \in DOMAIN Merge(b).rules, NEW j \in DOMAIN Merge(b).rules,
           Matches(Merge(b).rules[i], t), Matches(Merge(b).rules[j], t)
    PROVE  Merge(b).rules[i].action = Merge(b).rules[j].action
<1> DEFINE w == Weekday(t) * DayLength + Minute(t)
<1>1. w \in Nat
  <2>1. Weekday(t) \in Nat /\ Minute(t) \in Nat /\ DayLength \in Nat
    <3>1. Weekday(t) \in 0 .. WeekLength - 1
      BY Clock
    <3> QED
      BY <3>1, MinuteIs, WeekAssumption
  <2> QED
    BY <2>1
<1> HIDE DEF w
<1>2. ASSUME NEW k \in DOMAIN Merge(b).rules, Matches(Merge(b).rules[k], t)
      PROVE  \E a \in Segments(b) :
                /\ a.action = Merge(b).rules[k].action /\ a.from \in Nat /\ a.until \in Nat
                /\ a.from <= w /\ w < a.until
  <2> DEFINE rule == Merge(b).rules[k]
  <2>1. rule \in Proper /\ ~Dated(rule) /\ Matches(rule, t)
    BY <1>2, RuleOfOne, MergedIsWeekly
  <2>2. PICK x \in DOMAIN b : \E l \in DOMAIN b[x].rules : rule = b[x].rules[l]
    BY RuleOfOne
  <2>3. PICK l \in DOMAIN b[x].rules : rule = b[x].rules[l]
    BY <2>2
  <2>4. Project(rule) \subseteq Segments(b)
    BY <2>3 DEF Segments
  <2> HIDE DEF rule
  <2>5. PICK a \in Project(rule) :
            /\ a.action = rule.action /\ a.from \in Nat /\ a.until \in Nat
            /\ a.from <= w /\ w < a.until
    BY <2>1, MatchesInSegment DEF w
  <2> QED
    BY <2>4, <2>5 DEF rule
<1>3. PICK x \in Segments(b) :
          /\ x.action = Merge(b).rules[i].action /\ x.from \in Nat /\ x.until \in Nat
          /\ x.from <= w /\ w < x.until
  BY <1>2
<1>4. PICK y \in Segments(b) :
          /\ y.action = Merge(b).rules[j].action /\ y.from \in Nat /\ y.until \in Nat
          /\ y.from <= w /\ w < y.until
  BY <1>2
<1>5. x.from < y.until /\ y.from < x.until
  BY <1>1, <1>3, <1>4
<1> QED
  BY <1>3, <1>4, <1>5 DEF Attachable, Conflicting

\* The rule that decides is one of those that match.
LEMMA ShortestFirst ==
    ASSUME NEW s, s.rules \in Seq(Proper), NEW S, S \subseteq DOMAIN s.rules, S # {}
    PROVE  First(Shortest(s, S)) \in S
<1> DEFINE Lengths == {Duration(s.rules[i]) : i \in S}
<1>1. \A i \in S : s.rules[i] \in Proper /\ i \in Nat
  OBVIOUS
<1>2. \A rule \in Proper : Duration(rule) \in Nat
  <2> TAKE rule \in Proper
  <2>1. rule.start \in Nat /\ rule.end \in Nat /\ rule.start < DayLength /\ DayLength \in Nat
    BY RuleFields, WeekAssumption
  <2> QED
    BY <2>1 DEF Duration, Overnight
<1>3. Lengths \subseteq Nat /\ Lengths # {}
  BY <1>1, <1>2
<1>4. PICK l \in Lengths : \A k \in Lengths : l <= k
  BY <1>3, Least
<1>5. Shortest(s, S) # {} /\ Shortest(s, S) \subseteq S
  BY <1>4 DEF Shortest
<1>6. Shortest(s, S) \subseteq Nat
  BY <1>1, <1>5
<1>7. \E i \in Shortest(s, S) : \A j \in Shortest(s, S) : i <= j
  BY <1>5, <1>6, Least
<1>8. First(Shortest(s, S)) \in Shortest(s, S)
  BY <1>7 DEF First
<1> QED
  BY <1>5, <1>8

LEMMA OnlyOne == ASSUME NEW x PROVE Only({x}) = x
<1>1. Cardinality({x}) = 1
  BY FS_Singleton
<1> QED
  BY <1>1 DEF Only

\* README.md:484, MergeSchedules and Evaluate: whatever weekly schedules may be
\* attached together, and however many, the windows that are open at a time
\* have one action, and the merged schedule answers it.
THEOREM NeverAmbiguous ==
    ASSUME NEW b \in Seq(Timetables), b # <<>>, Attachable(b), NEW t \in Nat, t >= DayLength
    PROVE  Unambiguous(Merge(b), t)
<1> DEFINE merged == Merge(b)
<1> DEFINE openAt == {merged.rules[i].action :
                         i \in {j \in DOMAIN merged.rules : Open(merged.rules[j], t)}}
<1>1. SUFFICES EvaluateSchedule(merged, t) =
                  IF openAt = {} THEN Default(merged) ELSE Only(openAt)
  BY DEF Unambiguous
<1>2. merged.rules \in Seq(Proper)
  BY MergeIs
<1>3. \A j \in DOMAIN merged.rules : Open(merged.rules[j], t) <=> Matches(merged.rules[j], t)
  <2> TAKE j \in DOMAIN merged.rules
  <2>1. merged.rules[j] \in Proper
    BY <1>2
  <2>2. ~Dated(merged.rules[j])
    BY MergedIsWeekly
  <2> HIDE DEF merged
  <2> QED
    BY <2>1, <2>2, MatchesIsOpen
<1> DEFINE M == Matching(merged, t)
<1>4. openAt = {merged.rules[i].action : i \in M}
  BY <1>3 DEF Matching
<1>5. \A i, j \in M : merged.rules[i].action = merged.rules[j].action
  BY OneActionAtATime DEF Matching
<1>6. M \subseteq DOMAIN merged.rules
  BY DEF Matching
<1>7. EvaluateSchedule(merged, t) =
        IF M = {} THEN Default(merged) ELSE merged.rules[First(Shortest(merged, M))].action
  BY EvaluationIs
<1> HIDE DEF M, merged, openAt
<1>8. CASE M = {}
  BY <1>4, <1>7, <1>8
<1>9. CASE M # {}
  <2> DEFINE first == First(Shortest(merged, M))
  <2>1. first \in M
    BY <1>2, <1>6, <1>9, ShortestFirst
  <2>2. EvaluateSchedule(merged, t) = merged.rules[first].action
    BY <1>7, <1>9
  <2> HIDE DEF first
  <2>3. openAt = {merged.rules[first].action}
    BY <1>4, <1>5, <2>1
  <2>4. openAt # {} /\ Only(openAt) = merged.rules[first].action
    BY <2>3, OnlyOne
  <2> QED
    BY <2>2, <2>4
<1> QED
  BY <1>8, <1>9

\* NextStateChange: the action stays what it is until the time it answers,
\* however many schedules are merged.
THEOREM TimerInTime ==
    ASSUME NEW b \in Seq(Timetables), b # <<>>, NEW t \in Nat, Settled(Merge(b), t)
    PROVE  Timely(Merge(b), t)
<1>1. Merge(b).rules \in Seq(Proper)
  BY MergeIs
<1> QED
  BY <1>1, SameUntilNextChange DEF Timely, Settled

-----------------------------------------------------------------------------
(* The engine                                                              *)

LEMMA PairIsBundle ==
    ASSUME NEW b \in Bundles2
    PROVE  b \in Seq(Timetables) /\ b # <<>>
<1>1. PICK x \in Timetables, y \in Timetables : b = <<x, y>>
  BY DEF Bundles2
<1> QED
  BY <1>1

LEMMA HorizonIsTime == \A t \in Horizon : t \in Nat /\ t >= DayLength
<1>1. DayLength \in Nat /\ \A t \in Horizon : t \in Int /\ t >= DayLength
  BY WeekAssumption DEF Horizon
<1> QED
  BY <1>1

\* What is left to the windows has been accepted by MergeSchedules.
Accepted == {m \in Merges : {m.merged[id] : id \in m.bundle} \notin Conflicts}
Admitted(a) == a.kind = "schedule" => OfAnswer(a) \in Accepted

AnswersAdmitted ==
    /\ answer = [c \in Callers |-> answer[c]]
    /\ \A c \in Callers : Admitted(answer[c])

LEMMA MeaningAdmitted == ASSUME TypeOK, NEW b \in Bundles PROVE Admitted(Meaning(b))
<1>1. CASE b = {} \/ Unresolvable(b)
  BY <1>1 DEF Admitted, Meaning, Answer
<1>2. CASE b # {} /\ ~Unresolvable(b)
  <2>1. Meaning(b) = Answer(b, "schedule", Merged(b))
    BY <1>2 DEF Meaning
  <2>2. OfAnswer(Meaning(b)) = [bundle |-> b, merged |-> Merged(b)]
    BY <2>1 DEF OfAnswer, Answer
  <2>3. Merged(b) \in [b -> Contents]
    BY <1>2, BundlesAssumption DEF Merged, Unresolvable, TypeOK
  <2>4. [bundle |-> b, merged |-> Merged(b)] \in Merges
    BY <1>2, <2>3 DEF Merges
  <2>5. {Merged(b)[id] : id \in b} = {schedules[id] : id \in b}
    BY DEF Merged
  <2>6. {schedules[id] : id \in b} \notin Conflicts
    BY <1>2 DEF Unresolvable
  <2> DEFINE m == [bundle |-> b, merged |-> Merged(b)]
  <2>7. m.bundle = b /\ m.merged = Merged(b)
    OBVIOUS
  <2>8. m \in Merges /\ OfAnswer(Meaning(b)) = m
    BY <2>2, <2>4
  <2> HIDE DEF m
  <2>9. m \in Accepted
    BY <2>5, <2>6, <2>7, <2>8 DEF Accepted
  <2> QED
    BY <2>8, <2>9 DEF Admitted
<1> QED
  BY <1>1, <1>2

LEMMA InitAdmitted == CacheInit => AnswersAdmitted
  BY DEF CacheInit, Init, AnswersAdmitted, Admitted, Answer

\* The cache makes no answer that the schedules would not have made.
LEMMA StepAdmitted == IInv /\ AnswersAdmitted /\ [CacheNext]_vars => AnswersAdmitted'
<1> SUFFICES ASSUME IInv, AnswersAdmitted, [CacheNext]_vars PROVE AnswersAdmitted'
  OBVIOUS
<1>1. ASSUME UNCHANGED answer PROVE AnswersAdmitted'
  BY <1>1 DEF AnswersAdmitted, Admitted, OfAnswer, Accepted, Merges
<1>2. ASSUME NEW c \in Callers, NEW b \in Bundles, Evaluate(c, b) PROVE AnswersAdmitted'
  <2>1. Admitted(Meaning(b))
    BY MeaningAdmitted DEF IInv
  <2>2. answer' = [answer EXCEPT ![c] = Meaning(b)]
    BY <1>2 DEF Evaluate
  <2> DEFINE m == Meaning(b)
  <2> HIDE DEF m
  <2>3. answer' = [d \in Callers |-> IF d = c THEN m ELSE answer[d]]
    BY <2>2 DEF AnswersAdmitted, m
  <2>4. \A d \in Callers : Admitted(answer'[d])
    BY <2>1, <2>3 DEF AnswersAdmitted, m
  <2> QED
    BY <2>3, <2>4 DEF AnswersAdmitted
<1>3. [Next]_<<schedules, answer>>
  BY StepRefines
<1>4. ASSUME NEW id \in Ids, Store(id) PROVE UNCHANGED answer
  BY <1>4 DEF Store
<1> QED
  BY <1>1, <1>2, <1>3, <1>4 DEF Next

LEMMA AdmittedAlways == CacheSpec => []AnswersAdmitted
<1> QED
  BY InitAdmitted, StepAdmitted, Invariance, PTL DEF CacheSpec

\* The timetables of an answer, in an order, are a bundle the windows are proved
\* about, and MergeSchedules has not refused them.
LEMMA AcceptedBundle ==
    ASSUME NEW m \in Accepted, NEW order \in Orders(m.bundle)
    PROVE  /\ InOrder(m.merged, order) \in Seq(Timetables)
           /\ InOrder(m.merged, order) # <<>>
           /\ ~Conflicting(InOrder(m.merged, order))
<1> DEFINE b == m.bundle
<1> DEFINE f == m.merged
<1>1. b \in Bundles /\ b # {} /\ f \in [b -> Contents] /\ {f[id] : id \in b} \notin Conflicts
  BY DEF Accepted, Merges
<1>2. order \in Orders(b)
  OBVIOUS
<1> HIDE DEF b, f
<1>3. ~Conflicting(InOrder(f, order))
  BY <1>1, <1>2, ConflictsAssumption
<1>4. Cardinality(b) \in Nat
  BY <1>1, FiniteAssumption, FS_CardinalityType
<1>5. order \in [1 .. Cardinality(b) -> b] /\ {order[i] : i \in DOMAIN order} = b
  BY <1>2 DEF Orders
<1>6. InOrder(f, order) = [i \in 1 .. Cardinality(b) |-> Says[f[order[i]]]]
  BY <1>5 DEF InOrder
<1>7. \A i \in 1 .. Cardinality(b) : Says[f[order[i]]] \in Timetables
  BY <1>1, <1>5, SaysAssumption
<1>8. InOrder(f, order) \in Seq(Timetables)
  BY <1>4, <1>6, <1>7
<1>9. InOrder(f, order) # <<>>
  <2>1. Cardinality(b) # 0
    BY <1>1, FiniteAssumption, FS_EmptySet
  <2>2. 1 \in DOMAIN InOrder(f, order)
    BY <1>4, <1>6, <2>1
  <2> QED
    BY <2>2
<1> QED
  BY <1>3, <1>8, <1>9 DEF f

LEMMA AcceptedIsPlain == Accepted \subseteq PlainMerges
<1> SUFFICES ASSUME NEW m \in Accepted, NEW order \in Orders(m.bundle)
             PROVE  Plain(InOrder(m.merged, order))
  BY DEF PlainMerges, Accepted
<1> DEFINE b == InOrder(m.merged, order)
<1>1. b \in Seq(Timetables) /\ b # <<>> /\ ~Conflicting(b)
  BY AcceptedBundle
<1> HIDE DEF b
<1>2. ASSUME \A i \in DOMAIN b : Weekly(b[i]), NEW t \in Horizon PROVE Unambiguous(Merge(b), t)
  <2>1. Attachable(b)
    BY <1>1, <1>2 DEF Attachable
  <2> QED
    BY <1>1, <2>1, HorizonIsTime, NeverAmbiguous
<1> QED
  BY <1>2 DEF Plain, b

LEMMA AcceptedIsSteady == Accepted \subseteq SteadyMerges
<1> SUFFICES ASSUME NEW m \in Accepted, NEW order \in Orders(m.bundle)
             PROVE  Steady(InOrder(m.merged, order))
  BY DEF SteadyMerges, Accepted
<1> DEFINE b == InOrder(m.merged, order)
<1>1. b \in Seq(Timetables) /\ b # <<>>
  BY AcceptedBundle
<1> HIDE DEF b
<1>2. ASSUME NEW t \in Horizon, Settled(Merge(b), t) PROVE Timely(Merge(b), t)
  BY <1>1, <1>2, HorizonIsTime, TimerInTime
<1> QED
  BY <1>2 DEF Steady, b

\* EvaluateBundle: an answer that is left to the windows is one action, whatever
\* is stored and deleted between its two locks.
THEOREM MergedIsUnambiguousAlways == CacheSpec => []MergedIsUnambiguous
<1>1. AllUnambiguous
  BY PairIsBundle, HorizonIsTime, NeverAmbiguous DEF AllUnambiguous
<1>2. AnswersAdmitted => MergedIsUnambiguous
  BY <1>1, AcceptedIsPlain DEF AnswersAdmitted, Admitted, MergedIsUnambiguous
<1> QED
  BY <1>2, AdmittedAlways, PTL

\* updateNextStateChanges: an answer stays what it is until the timer goes off.
THEOREM NothingChangesBeforeAlways == CacheSpec => []NothingChangesBefore
<1>1. AllTimely
  BY PairIsBundle, HorizonIsTime, TimerInTime DEF AllTimely
<1>2. AnswersAdmitted => NothingChangesBefore
  BY <1>1, AcceptedIsSteady DEF AnswersAdmitted, Admitted, NothingChangesBefore
<1> QED
  BY <1>2, AdmittedAlways, PTL
=============================================================================
