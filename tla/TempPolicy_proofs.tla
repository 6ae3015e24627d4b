-------------------------- MODULE TempPolicy_proofs --------------------------
(* Two promises about temporary policies.  A pause blocks because what is   *)
(* put into the engine, the database or a request under its name carries a  *)
(* schedule that runs out with its own last minute: PausesTimed, whatever   *)
(* the order of the writes.  And with one request at a time and a database  *)
(* that works, nothing that was given up returns, because a row that the    *)
(* engine does not have is one that somebody is about to overwrite          *)
(* (OneWrites), and what is about to be saved is in force and has not       *)
(* expired (SavesInForce), so that no sweep can come in between.            *)
EXTENDS TempPolicy, TLAPS

Writes == {"save policy", "unpause: unsave policy", "cancel: unsave policy"}
Grants == {"pause: save schedule", "pause: policy", "save policy"}

\* The schedule of a pause and the policy itself end in the same minute.
Timed(p) == p # NoPolicy => Truncate(p.expires) = p.schedule.from + Hour

TimedRequest(r) ==
    /\ r.name \in Pauses => Timed(r.policy)
    /\ r.at = "pause: save schedule" => r.policy.schedule \in Schedules

PausesTimed ==
    /\ \A n \in Pauses : Timed(policies[n]) /\ Timed(savedPolicies[n])
    /\ \A h \in Handlers : TimedRequest(request[h])

\* One request at a time, and writes do not fail.
Serial == (\A g, h \in Handlers : g = h) /\ ~StoreMayFail

\* The clock stands still while a request is served.
GrantsAhead ==
    \A h \in Handlers : request[h].at \in Grants => now <= request[h].policy.expires

SavesInForce ==
    \A h \in Handlers : request[h].at = "save policy" => policies[request[h].name] = request[h].policy

\* A row the engine does not have is about to be written by somebody.
OneWrites ==
    \A n \in Names :
        \/ savedPolicies[n] \in {NoPolicy, policies[n]}
        \/ n \in sweep.policies
        \/ \E h \in Handlers : request[h].at \in Writes /\ request[h].name = n

SerialInv == GrantsAhead /\ SavesInForce /\ OneWrites

-----------------------------------------------------------------------------
(* Helpers                                                                 *)

Requests == [at : Steps, name : Names, policy : Policies]

\* The hour of a pause is whole minutes.
LEMMA TruncateHour ==
    ASSUME NEW t \in Nat
    PROVE  Truncate(t + Hour) = Truncate(t) + Hour /\ Truncate(t) \in 0 .. t
BY ConstantsAssumption DEF Truncate, Minute

LEMMA NoPolicyIsOne == NoSchedule \in Schedules \cup {NoSchedule} /\ NoPolicy \in Policies
BY DEF NoPolicy, Policies

LEMMA DoneIsRequest ==
    /\ Done \in Requests /\ Done.at = "done" /\ Done.policy = NoPolicy
    /\ Done = [at |-> "done", name |-> Done.name, policy |-> NoPolicy]
<1>1. (CHOOSE n \in Names : TRUE) \in Names
  BY ConstantsAssumption DEF Names
<1>2. "done" \in Steps
  BY DEF Steps
<1> QED
  BY <1>1, <1>2, NoPolicyIsOne DEF Done, Requests

LEMMA RequestFields ==
    ASSUME TypeOK, NEW h \in Handlers
    PROVE  /\ request \in [Handlers -> Requests] /\ request[h] \in Requests
           /\ request[h].at \in Steps /\ request[h].name \in Names /\ request[h].policy \in Policies
           /\ request[h] = [at |-> request[h].at, name |-> request[h].name,
                            policy |-> request[h].policy]
<1>1. request \in [Handlers -> Requests]
  BY DEF TypeOK, Requests
<1>2. request[h] \in Requests
  BY <1>1
<1> QED
  BY <1>1, <1>2 DEF Requests

\* Only the request r of h is new.
Becomes(h, r) ==
    /\ request' \in [Handlers -> Requests]
    /\ request'[h] = r
    /\ \A g \in Handlers \ {h} : request'[g] = request[g]

LEMMA NewRequest ==
    ASSUME TypeOK, NEW h \in Handlers, NEW r \in Requests,
           request' = [request EXCEPT ![h] = r]
    PROVE  Becomes(h, r)
BY DEF TypeOK, Requests, Becomes

LEMMA FinishIs ==
    ASSUME TypeOK, NEW h \in Handlers, Finish(h)
    PROVE  Becomes(h, Done)
<1>1. request' = [request EXCEPT ![h] = Done]
  BY DEF Finish
<1> QED
  BY <1>1, DoneIsRequest, NewRequest

LEMMA GotoIs ==
    ASSUME TypeOK, NEW h \in Handlers, NEW step \in Steps, Goto(h, step)
    PROVE  Becomes(h, [at |-> step, name |-> request[h].name, policy |-> request[h].policy])
<1> DEFINE r == [at |-> step, name |-> request[h].name, policy |-> request[h].policy]
<1>1. r \in Requests
  BY RequestFields DEF Requests
<1>2. [request[h] EXCEPT !.at = step] = r
  <2>1. request[h] = [at |-> request[h].at, name |-> request[h].name, policy |-> request[h].policy]
    BY RequestFields
  <2> QED
    BY <2>1
<1>3. request' = [request EXCEPT ![h] = [request[h] EXCEPT !.at = step]]
  BY DEF Goto
<1>4. request' = [request EXCEPT ![h] = r]
  BY <1>2, <1>3
<1> HIDE DEF r
<1>5. Becomes(h, r)
  BY <1>1, <1>4, NewRequest
<1> QED
  BY <1>5 DEF r

-----------------------------------------------------------------------------
(* Types and pauses                                                        *)

PauseInv == TypeOK /\ PausesTimed

\* What a pause is made of.
LEMMA GrantedPause ==
    ASSUME TypeOK, NEW n, issued < MaxPauses
    PROVE  LET s == PauseSchedule(n)
               p == [expires |-> now + Hour, schedule |-> s]
           IN  s \in Schedules /\ p \in Policies /\ Timed(p) /\ now <= p.expires
<1> DEFINE s == PauseSchedule(n)
           p == [expires |-> now + Hour, schedule |-> s]
<1>1. now \in Nat /\ now \in Times /\ issued \in Nat /\ issued + 1 \in 1 .. MaxPauses
      /\ Hour \in Nat
  BY ConstantsAssumption DEF TypeOK, Times
<1>2. s.from = Truncate(now) /\ s = [id |-> issued + 1, from |-> Truncate(now)]
  BY DEF PauseSchedule
<1>3. Truncate(now) \in Times
  BY <1>1, TruncateHour, ConstantsAssumption DEF Times
<1>4. s \in Schedules
  BY <1>1, <1>2, <1>3 DEF Schedules
<1>5. now + Hour \in Nat /\ now <= now + Hour
  BY <1>1
<1>6. p \in Policies
  BY <1>4, <1>5 DEF Policies
<1>7. Timed(p)
  BY <1>1, <1>2, TruncateHour DEF Timed
<1> QED
  BY <1>4, <1>5, <1>6, <1>7

LEMMA GrantedExtension ==
    ASSUME TypeOK, NEW d \in Durations
    PROVE  [expires |-> now + d, schedule |-> NoSchedule] \in Policies /\ now <= now + d
<1>1. now \in Nat /\ d \in Nat
  BY ConstantsAssumption DEF TypeOK, Times
<1> QED
  BY <1>1, NoPolicyIsOne DEF Policies

\* A request that keeps its policy, or ends.
LEMMA TimedRequests ==
    ASSUME PauseInv, NEW h \in Handlers, NEW r, Becomes(h, r),
           TimedRequest(r)
    PROVE  \A g \in Handlers : TimedRequest(request'[g])
BY DEF PauseInv, PausesTimed, Becomes

LEMMA DoneTimed == Timed(NoPolicy)
BY DEF Timed

\* A row or an entry is replaced by one that may be there.
LEMMA TimedPut ==
    ASSUME NEW f \in [Names -> Policies], \A n \in Pauses : Timed(f[n]),
           NEW m \in Names, NEW p \in Policies, m \in Pauses => Timed(p)
    PROVE  LET g == [f EXCEPT ![m] = p] IN
           g \in [Names -> Policies] /\ \A n \in Pauses : Timed(g[n])
BY DEF Names

LEMMA WrittenIs ==
    ASSUME NEW old, NEW new, NEW x \in Written(old, new)
    PROVE  (x = old \/ x = new) /\ (~StoreMayFail => x = new)
BY DEF Written

\* A row is saved or deleted, or the write fails.
LEMMA TimedWritten ==
    ASSUME PauseInv, NEW m \in Names, NEW p \in Policies, m \in Pauses => Timed(p),
           savedPolicies' \in Written(savedPolicies, [savedPolicies EXCEPT ![m] = p])
    PROVE  savedPolicies' \in [Names -> Policies] /\ \A n \in Pauses : Timed(savedPolicies'[n])
<1> DEFINE g == [savedPolicies EXCEPT ![m] = p]
<1>1. savedPolicies \in [Names -> Policies] /\ \A n \in Pauses : Timed(savedPolicies[n])
  BY DEF PauseInv, TypeOK, PausesTimed
<1>2. g \in [Names -> Policies] /\ \A n \in Pauses : Timed(g[n])
  BY <1>1, TimedPut
<1> HIDE DEF g
<1>3. savedPolicies' = savedPolicies \/ savedPolicies' = g
  BY WrittenIs DEF g
<1> QED
  BY <1>1, <1>2, <1>3

LEMMA TimedReplaced ==
    ASSUME PauseInv, NEW m \in Names, NEW p \in Policies, m \in Pauses => Timed(p),
           policies' = [policies EXCEPT ![m] = p]
    PROVE  policies' \in [Names -> Policies] /\ \A n \in Pauses : Timed(policies'[n])
BY TimedPut DEF PauseInv, TypeOK, PausesTimed

\* The request of h becomes r, nothing else but rows, entries and schedules changes.
LEMMA PauseStep ==
    ASSUME PauseInv, NEW h \in Handlers, NEW r, Becomes(h, r), TimedRequest(r),
           now' = now, sweep' = sweep, issued' \in 0 .. MaxPauses,
           policies' \in [Names -> Policies], \A n \in Pauses : Timed(policies'[n]),
           savedPolicies' \in [Names -> Policies], \A n \in Pauses : Timed(savedPolicies'[n]),
           schedules' \subseteq Schedules, savedSchedules' \subseteq Schedules
    PROVE  PauseInv'
<1>1. request' \in [Handlers -> [at : Steps, name : Names, policy : Policies]]
  BY DEF Becomes, Requests
<1>2. TypeOK'
  BY <1>1 DEF PauseInv, TypeOK
<1>3. PausesTimed'
  BY TimedRequests DEF PausesTimed, Timed, TimedRequest
<1> QED
  BY <1>2, <1>3 DEF PauseInv

\* What the steps below find unchanged.
LEMMA PauseNow ==
    ASSUME PauseInv
    PROVE  /\ TypeOK /\ issued \in 0 .. MaxPauses
           /\ policies \in [Names -> Policies] /\ \A n \in Pauses : Timed(policies[n])
           /\ savedPolicies \in [Names -> Policies] /\ \A n \in Pauses : Timed(savedPolicies[n])
           /\ schedules \subseteq Schedules /\ savedSchedules \subseteq Schedules
           /\ \A h \in Handlers : TimedRequest(request[h])
BY DEF PauseInv, TypeOK, PausesTimed

\* A step that goes on to the next one and keeps the policy of the request.
LEMMA PauseGoto ==
    ASSUME PauseInv, NEW h \in Handlers, NEW step \in Steps \ {"pause: save schedule"},
           Goto(h, step), now' = now, sweep' = sweep, issued' = issued,
           policies' \in [Names -> Policies], \A n \in Pauses : Timed(policies'[n]),
           savedPolicies' \in [Names -> Policies], \A n \in Pauses : Timed(savedPolicies'[n]),
           schedules' \subseteq Schedules, savedSchedules' \subseteq Schedules
    PROVE  PauseInv'
<1> DEFINE r == [at |-> step, name |-> request[h].name, policy |-> request[h].policy]
<1>1. Becomes(h, r)
  BY GotoIs DEF PauseInv
<1>2. TimedRequest(r)
  BY PauseNow DEF TimedRequest
<1> HIDE DEF r
<1> QED
  BY <1>1, <1>2, PauseNow, PauseStep

LEMMA PauseFinish ==
    ASSUME PauseInv, NEW h \in Handlers, Finish(h),
           now' = now, sweep' = sweep, issued' = issued,
           policies' \in [Names -> Policies], \A n \in Pauses : Timed(policies'[n]),
           savedPolicies' \in [Names -> Policies], \A n \in Pauses : Timed(savedPolicies'[n]),
           schedules' \subseteq Schedules, savedSchedules' \subseteq Schedules
    PROVE  PauseInv'
<1>1. Becomes(h, Done) /\ TimedRequest(Done)
  BY FinishIs, DoneIsRequest, DoneTimed DEF PauseInv, TimedRequest
<1> QED
  BY <1>1, PauseNow, PauseStep

LEMMA BeginPauseInv ==
    ASSUME PauseInv, NEW h \in Handlers,
           \/ \E n \in Pauses : Pause(h, n) \/ Unpause(h, n)
           \/ \E n \in Extensions : Extend(h, n) \/ Cancel(h, n)
    PROVE  PauseInv'
<1>1. ASSUME NEW n \in Pauses, Pause(h, n) PROVE PauseInv'
  <2> DEFINE s == PauseSchedule(n)
             p == [expires |-> now + Hour, schedule |-> s]
             r == [at |-> "pause: save schedule", name |-> n, policy |-> p]
  <2>1. /\ issued < MaxPauses /\ issued' = issued + 1 /\ schedules' = schedules \cup {s}
        /\ request' = [request EXCEPT ![h] = r]
        /\ UNCHANGED <<now, policies, store, sweep>>
    BY <1>1 DEF Pause
  <2>2. s \in Schedules /\ p \in Policies /\ Timed(p)
    BY <2>1, GrantedPause DEF PauseInv
  <2>3. TimedRequest(r) /\ r \in Requests
    BY <2>2 DEF Requests, Steps, Names, TimedRequest
  <2> HIDE DEF s, p, r
  <2>4. Becomes(h, r)
    BY <2>1, <2>3, NewRequest DEF PauseInv
  <2>5. issued' \in 0 .. MaxPauses
    BY <2>1, PauseNow, ConstantsAssumption
  <2>6. UNCHANGED <<savedPolicies, savedSchedules>>
    BY <2>1 DEF store
  <2> QED
    BY <2>1, <2>2, <2>3, <2>4, <2>5, <2>6, PauseNow, PauseStep
<1>2. ASSUME NEW n \in Pauses, Unpause(h, n) PROVE PauseInv'
  <2> DEFINE r == [at |-> "unpause: policy", name |-> n, policy |-> policies[n]]
  <2>1. request' = [request EXCEPT ![h] = r] /\ UNCHANGED <<now, issued, memory, store, sweep>>
    BY <1>2 DEF Unpause
  <2>2. TimedRequest(r) /\ r \in Requests
    BY PauseNow DEF Requests, Steps, Names, TimedRequest
  <2> HIDE DEF r
  <2>3. Becomes(h, r)
    BY <2>1, <2>2, NewRequest DEF PauseInv
  <2>4. UNCHANGED <<policies, schedules, savedPolicies, savedSchedules>>
    BY <2>1 DEF memory, store
  <2> QED
    BY <2>1, <2>2, <2>3, <2>4, PauseNow, PauseStep
<1>3. ASSUME NEW n \in Extensions, Extend(h, n) PROVE PauseInv'
  <2>1. PICK d \in Durations :
          LET p == [expires |-> now + d, schedule |-> NoSchedule] IN
             /\ policies' = [policies EXCEPT ![n] = p]
             /\ request' = [request EXCEPT ![h] =
                               [at |-> "save policy", name |-> n, policy |-> p]]
    BY <1>3 DEF Extend
  <2> DEFINE p == [expires |-> now + d, schedule |-> NoSchedule]
             r == [at |-> "save policy", name |-> n, policy |-> p]
  <2>2. /\ policies' = [policies EXCEPT ![n] = p] /\ request' = [request EXCEPT ![h] = r]
        /\ UNCHANGED <<now, issued, schedules, store, sweep>>
    BY <1>3, <2>1 DEF Extend
  <2>3. n \in Names /\ n \notin Pauses
    BY ConstantsAssumption DEF Names
  <2>4. p \in Policies
    BY GrantedExtension DEF PauseInv
  <2>5. TimedRequest(r) /\ r \in Requests
    BY <2>3, <2>4 DEF Requests, Steps, TimedRequest
  <2> HIDE DEF p, r
  <2>6. Becomes(h, r)
    BY <2>2, <2>5, NewRequest DEF PauseInv
  <2>7. policies' \in [Names -> Policies] /\ \A m \in Pauses : Timed(policies'[m])
    BY <2>2, <2>3, <2>4, TimedReplaced
  <2>8. UNCHANGED <<savedPolicies, savedSchedules>>
    BY <2>2 DEF store
  <2> QED
    BY <2>2, <2>3, <2>5, <2>6, <2>7, <2>8, PauseNow, PauseStep
<1>4. ASSUME NEW n \in Extensions, Cancel(h, n) PROVE PauseInv'
  <2> DEFINE r == [at |-> "cancel: policy", name |-> n, policy |-> NoPolicy]
  <2>1. request' = [request EXCEPT ![h] = r] /\ UNCHANGED <<now, issued, memory, store, sweep>>
    BY <1>4 DEF Cancel
  <2>2. TimedRequest(r) /\ r \in Requests
    BY DoneTimed, NoPolicyIsOne DEF Requests, Steps, Names, TimedRequest
  <2> HIDE DEF r
  <2>3. Becomes(h, r)
    BY <2>1, <2>2, NewRequest DEF PauseInv
  <2>4. UNCHANGED <<policies, schedules, savedPolicies, savedSchedules>>
    BY <2>1 DEF memory, store
  <2> QED
    BY <2>1, <2>2, <2>3, <2>4, PauseNow, PauseStep
<1> QED
  BY <1>1, <1>2, <1>3, <1>4

LEMMA StepNames == Writes \subseteq Steps /\ Grants \subseteq Steps
                   /\ {"unpause: schedule", "unpause: unsave schedule"} \subseteq Steps
BY DEF Writes, Grants, Steps

LEMMA HandlerPauseInv ==
    ASSUME PauseInv, NEW h \in Handlers, HandlerStep(h)
    PROVE  PauseInv'
<1> DEFINE m == request[h].name
           p == request[h].policy
<1>0. m \in Names /\ p \in Policies /\ (m \in Pauses => Timed(p))
  BY RequestFields, PauseNow DEF TimedRequest
<1>1. CASE PauseSaveSchedule(h)
  <2>1. request[h].at = "pause: save schedule" /\ Goto(h, "pause: policy")
        /\ savedSchedules' \in Written(savedSchedules, savedSchedules \cup {p.schedule})
        /\ UNCHANGED <<now, issued, policies, schedules, savedPolicies, sweep>>
    BY <1>1 DEF PauseSaveSchedule, memory, Serving
  <2>2. p.schedule \in Schedules
    BY <2>1, PauseNow DEF TimedRequest
  <2>3. savedSchedules' \subseteq Schedules
    <3>1. savedSchedules' = savedSchedules \/ savedSchedules' = savedSchedules \cup {p.schedule}
      BY <2>1 DEF Written
    <3>2. savedSchedules \subseteq Schedules
      BY PauseNow
    <3> HIDE DEF p
    <3> QED
      BY <2>2, <3>1, <3>2
  <2> QED
    BY <2>1, <2>3, StepNames, PauseNow, PauseGoto DEF Grants
<1>2. CASE PausePolicy(h)
  <2>1. policies' = [policies EXCEPT ![m] = p] /\ Goto(h, "save policy")
        /\ UNCHANGED <<now, issued, schedules, savedPolicies, savedSchedules, sweep>>
    BY <1>2 DEF PausePolicy, store
  <2>2. policies' \in [Names -> Policies] /\ \A n \in Pauses : Timed(policies'[n])
    BY <1>0, <2>1, TimedReplaced
  <2> QED
    BY <2>1, <2>2, StepNames, PauseNow, PauseGoto DEF Grants
<1>3. CASE SavePolicy(h)
  <2>1. savedPolicies' \in Written(savedPolicies, [savedPolicies EXCEPT ![m] = p]) /\ Finish(h)
        /\ UNCHANGED <<now, issued, policies, schedules, savedSchedules, sweep>>
    BY <1>3 DEF SavePolicy, memory
  <2>2. savedPolicies' \in [Names -> Policies] /\ \A n \in Pauses : Timed(savedPolicies'[n])
    BY <1>0, <2>1, TimedWritten
  <2> QED
    BY <2>1, <2>2, PauseNow, PauseFinish
<1>4. CASE UnpausePolicy(h)
  <2>1. policies' = [policies EXCEPT ![m] = NoPolicy] /\ Goto(h, "unpause: unsave policy")
        /\ UNCHANGED <<now, issued, schedules, savedPolicies, savedSchedules, sweep>>
    BY <1>4 DEF UnpausePolicy, store
  <2>2. policies' \in [Names -> Policies] /\ \A n \in Pauses : Timed(policies'[n])
    BY <1>0, <2>1, TimedReplaced, NoPolicyIsOne, DoneTimed
  <2> QED
    BY <2>1, <2>2, StepNames, PauseNow, PauseGoto DEF Writes
<1>5. CASE UnpauseUnsavePolicy(h)
  <2>1. savedPolicies' \in Written(savedPolicies, [savedPolicies EXCEPT ![m] = NoPolicy])
        /\ Goto(h, "unpause: schedule")
        /\ UNCHANGED <<now, issued, policies, schedules, savedSchedules, sweep>>
    BY <1>5 DEF UnpauseUnsavePolicy, memory
  <2>2. savedPolicies' \in [Names -> Policies] /\ \A n \in Pauses : Timed(savedPolicies'[n])
    BY <1>0, <2>1, TimedWritten, NoPolicyIsOne, DoneTimed
  <2> QED
    BY <2>1, <2>2, StepNames, PauseNow, PauseGoto
<1>6. CASE UnpauseSchedule(h)
  <2>1. schedules' = schedules \ {p.schedule} /\ Goto(h, "unpause: unsave schedule")
        /\ UNCHANGED <<now, issued, policies, savedPolicies, savedSchedules, sweep>>
    BY <1>6 DEF UnpauseSchedule, store
  <2>2. schedules' \subseteq Schedules
    BY <2>1, PauseNow
  <2> QED
    BY <2>1, <2>2, StepNames, PauseNow, PauseGoto
<1>7. CASE UnpauseUnsaveSchedule(h)
  <2>1. savedSchedules' \in Written(savedSchedules, savedSchedules \ {p.schedule}) /\ Finish(h)
        /\ UNCHANGED <<now, issued, policies, schedules, savedPolicies, sweep>>
    BY <1>7 DEF UnpauseUnsaveSchedule, memory
  <2>2. savedSchedules' \subseteq Schedules
    BY <2>1, WrittenIs, PauseNow
  <2> QED
    BY <2>1, <2>2, PauseNow, PauseFinish
<1>8. CASE CancelPolicy(h)
  <2>1. policies' = [policies EXCEPT ![m] = NoPolicy] /\ Goto(h, "cancel: unsave policy")
        /\ UNCHANGED <<now, issued, schedules, savedPolicies, savedSchedules, sweep>>
    BY <1>8 DEF CancelPolicy, store
  <2>2. policies' \in [Names -> Policies] /\ \A n \in Pauses : Timed(policies'[n])
    BY <1>0, <2>1, TimedReplaced, NoPolicyIsOne, DoneTimed
  <2> QED
    BY <2>1, <2>2, StepNames, PauseNow, PauseGoto DEF Writes
<1>9. CASE CancelUnsavePolicy(h)
  <2>1. savedPolicies' \in Written(savedPolicies, [savedPolicies EXCEPT ![m] = NoPolicy])
        /\ Finish(h)
        /\ UNCHANGED <<now, issued, policies, schedules, savedSchedules, sweep>>
    BY <1>9 DEF CancelUnsavePolicy, memory
  <2>2. savedPolicies' \in [Names -> Policies] /\ \A n \in Pauses : Timed(savedPolicies'[n])
    BY <1>0, <2>1, TimedWritten, NoPolicyIsOne, DoneTimed
  <2> QED
    BY <2>1, <2>2, PauseNow, PauseFinish
<1> QED
  BY <1>1, <1>2, <1>3, <1>4, <1>5, <1>6, <1>7, <1>8, <1>9 DEF HandlerStep

\* A step of the clock, of the sweep or a restart: requests stay or are gone.
LEMMA PauseElse ==
    ASSUME PauseInv, now' \in Times, issued' = issued, sweep' \in Swept,
           request' = request \/ request' = [h \in Handlers |-> Done],
           policies' \in [Names -> Policies], \A n \in Pauses : Timed(policies'[n]),
           savedPolicies' \in [Names -> Policies], \A n \in Pauses : Timed(savedPolicies'[n]),
           schedules' \subseteq Schedules, savedSchedules' \subseteq Schedules
    PROVE  PauseInv'
<1>1. /\ request' \in [Handlers -> Requests]
      /\ \A h \in Handlers : TimedRequest(request'[h])
  <2>1. CASE request' = request
    BY <2>1, RequestFields, PauseNow DEF TypeOK, Requests
  <2>2. CASE request' = [h \in Handlers |-> Done]
    <3>1. \A h \in Handlers : request'[h] = Done
      BY <2>2
    <3> QED
      BY <2>2, <3>1, DoneIsRequest, DoneTimed DEF TimedRequest
  <2> QED
    BY <2>1, <2>2
<1>2. TypeOK'
  BY <1>1 DEF PauseInv, TypeOK, Requests
<1>3. PausesTimed'
  BY <1>1 DEF PausesTimed, Timed, TimedRequest
<1> QED
  BY <1>2, <1>3 DEF PauseInv

\* What has expired is taken out of rows or entries.
LEMMA TimedWithout ==
    ASSUME NEW f \in [Names -> Policies], \A n \in Pauses : Timed(f[n]), NEW gone
    PROVE  LET g == [n \in Names |-> IF n \in gone THEN NoPolicy ELSE f[n]] IN
           g \in [Names -> Policies] /\ \A n \in Pauses : Timed(g[n])
BY NoPolicyIsOne, DoneTimed DEF Names

LEMMA IdleIsSwept == Idle \in Swept
BY DEF Idle, Swept

LEMMA SweepFields ==
    ASSUME TypeOK
    PROVE  /\ sweep = [policies |-> sweep.policies, schedules |-> sweep.schedules,
                       unsave |-> sweep.unsave]
           /\ sweep.policies \subseteq Names /\ sweep.schedules \subseteq Schedules
           /\ sweep.unsave \subseteq Schedules
BY DEF TypeOK, Swept

LEMMA SweepPauseInv ==
    ASSUME PauseInv, SweepStep
    PROVE  PauseInv'
<1>1. CASE SweepExpired
  <2> DEFINE expired == {n \in Names : Expired(policies[n])}
             owned == {policies[n].schedule : n \in expired} \ {NoSchedule}
  <2>1. /\ policies' = [n \in Names |-> IF n \in expired THEN NoPolicy ELSE policies[n]]
        /\ sweep' = [policies |-> expired, schedules |-> owned, unsave |-> {}]
        /\ UNCHANGED <<now, issued, schedules, savedPolicies, savedSchedules, request>>
    BY <1>1 DEF SweepExpired, store
  <2>2. expired \subseteq Names
    OBVIOUS
  <2>3. owned \subseteq Schedules
    <3>1. \A n \in expired : policies[n].schedule \in Schedules \cup {NoSchedule}
      BY PauseNow DEF Policies
    <3> QED
      BY <3>1
  <2> HIDE DEF expired, owned
  <2>4. sweep' \in Swept
    BY <2>1, <2>2, <2>3 DEF Swept
  <2>5. policies' \in [Names -> Policies] /\ \A n \in Pauses : Timed(policies'[n])
    <3>1. policies \in [Names -> Policies] /\ \A n \in Pauses : Timed(policies[n])
      BY PauseNow
    <3>2. policies' = [n \in Names |-> IF n \in expired THEN NoPolicy ELSE policies[n]]
      BY <2>1
    <3> QED
      BY <3>1, <3>2, TimedWithout
  <2>6. now' \in Times
    BY <2>1, PauseNow DEF TypeOK
  <2> QED
    BY <2>1, <2>4, <2>5, <2>6, PauseNow, PauseElse
<1>2. ASSUME NEW n \in Names, SweepUnsavePolicy(n) PROVE PauseInv'
  <2>1. /\ savedPolicies' \in Written(savedPolicies, [savedPolicies EXCEPT ![n] = NoPolicy])
        /\ sweep' = [sweep EXCEPT !.policies = @ \ {n}]
        /\ UNCHANGED <<now, issued, policies, schedules, savedSchedules, request>>
    BY <1>2 DEF SweepUnsavePolicy, memory
  <2>2. sweep' \in Swept
    BY <2>1, PauseNow DEF TypeOK, Swept
  <2>3. savedPolicies' \in [Names -> Policies] /\ \A m \in Pauses : Timed(savedPolicies'[m])
    BY <2>1, TimedWritten, NoPolicyIsOne, DoneTimed
  <2>4. now' \in Times
    BY <2>1, PauseNow DEF TypeOK
  <2> QED
    BY <2>1, <2>2, <2>3, <2>4, PauseNow, PauseElse
<1>3. ASSUME NEW s \in Schedules, SweepSchedule(s) PROVE PauseInv'
  <2>1. /\ schedules' = schedules \ {s}
        /\ sweep' = [sweep EXCEPT !.schedules = @ \ {s}, !.unsave = {s}]
        /\ UNCHANGED <<now, issued, policies, savedPolicies, savedSchedules, request>>
    BY <1>3 DEF SweepSchedule, store
  <2>2. sweep' \in Swept
    BY <2>1, PauseNow DEF TypeOK, Swept
  <2>3. now' \in Times /\ schedules' \subseteq Schedules
    BY <2>1, PauseNow DEF TypeOK
  <2> QED
    BY <2>1, <2>2, <2>3, PauseNow, PauseElse
<1>4. ASSUME NEW s \in Schedules, SweepUnsaveSchedule(s) PROVE PauseInv'
  <2>1. /\ savedSchedules' \in Written(savedSchedules, savedSchedules \ {s})
        /\ sweep' = [sweep EXCEPT !.unsave = {}]
        /\ UNCHANGED <<now, issued, policies, schedules, savedPolicies, request>>
    BY <1>4 DEF SweepUnsaveSchedule, memory
  <2>2. sweep' \in Swept
    BY <2>1, PauseNow DEF TypeOK, Swept
  <2>3. now' \in Times /\ savedSchedules' \subseteq Schedules
    BY <2>1, WrittenIs, PauseNow DEF TypeOK
  <2> QED
    BY <2>1, <2>2, <2>3, PauseNow, PauseElse
<1> QED
  BY <1>1, <1>2, <1>3, <1>4 DEF SweepStep

LEMMA RestartPauseInv ==
    ASSUME PauseInv, Restart
    PROVE  PauseInv'
<1> DEFINE expired == {n \in Names : Expired(savedPolicies[n])}
<1>1. /\ savedPolicies' = [n \in Names |-> IF n \in expired THEN NoPolicy ELSE savedPolicies[n]]
      /\ savedSchedules' \in {savedSchedules, {}}
      /\ policies' = savedPolicies' /\ schedules' = savedSchedules'
      /\ request' = [h \in Handlers |-> Done] /\ sweep' = Idle
      /\ UNCHANGED <<now, issued>>
  BY DEF Restart
<1> HIDE DEF expired
<1>2. savedPolicies' \in [Names -> Policies] /\ \A n \in Pauses : Timed(savedPolicies'[n])
  BY <1>1, TimedWithout, PauseNow
<1>3. savedSchedules' \subseteq Schedules /\ now' \in Times
  BY <1>1, PauseNow DEF TypeOK
<1> QED
  BY <1>1, <1>2, <1>3, IdleIsSwept, PauseElse

LEMMA TickPauseInv ==
    ASSUME PauseInv, Tick
    PROVE  PauseInv'
<1>1. now' \in Times
  BY PauseNow, ConstantsAssumption DEF Tick, TypeOK, Times
<1>2. sweep' \in Swept /\ UNCHANGED <<issued, policies, schedules, savedPolicies, savedSchedules, request>>
  BY PauseNow DEF Tick, TypeOK, memory, store
<1> QED
  BY <1>1, <1>2, PauseNow, PauseElse

LEMMA StepPauseInv ==
    ASSUME PauseInv, [Next]_vars
    PROVE  PauseInv'
<1>1. CASE UNCHANGED vars
  BY <1>1 DEF vars, memory, store, PauseInv, TypeOK, PausesTimed, Timed, TimedRequest
<1>2. CASE Next
  BY <1>2, TickPauseInv, BeginPauseInv, HandlerPauseInv, SweepPauseInv, RestartPauseInv DEF Next
<1> QED
  BY <1>1, <1>2

LEMMA InitPauseInv == Init => PauseInv
<1> SUFFICES ASSUME Init PROVE PauseInv
  OBVIOUS
<1>1. now \in Times /\ issued \in 0 .. MaxPauses /\ sweep \in Swept
  BY ConstantsAssumption, IdleIsSwept DEF Init, Times
<1>2. policies \in [Names -> Policies] /\ savedPolicies = policies
      /\ \A n \in Pauses : policies[n] = NoPolicy
  BY NoPolicyIsOne DEF Init, Names
<1>3. request \in [Handlers -> Requests] /\ \A h \in Handlers : TimedRequest(request[h])
  <2>1. request = [h \in Handlers |-> Done]
    BY DEF Init
  <2>2. TimedRequest(Done)
    BY DoneIsRequest, DoneTimed DEF TimedRequest
  <2> QED
    BY <2>1, <2>2, DoneIsRequest
<1>4. TypeOK
  BY <1>1, <1>2, <1>3 DEF Init, TypeOK, Requests
<1>5. PausesTimed
  BY <1>2, <1>3, DoneTimed DEF PausesTimed
<1> QED
  BY <1>4, <1>5 DEF PauseInv

LEMMA PauseInvAlways == Spec => []PauseInv
<1>1. PauseInv /\ [Next]_vars => PauseInv'
  BY StepPauseInv
<1> QED
  BY <1>1, InitPauseInv, PTL DEF Spec

\* Whatever requests, sweeps, restarts and failed writes do, the state of the
\* engines, the database and the requests has its types.
THEOREM TypeCorrect == Spec => []TypeOK
<1>1. PauseInv => TypeOK
  BY DEF PauseInv
<1> QED
  BY <1>1, PauseInvAlways, PTL

\* A pause blocks until the minute in which it ends (PauseDeviceInternet,
\* SweepExpired, LoadHydrate): its schedule may be missing, but does not run
\* out before.
THEOREM PausesBlock == Spec => []PauseBlocks
<1>1. ASSUME PauseInv PROVE PauseBlocks
  <2> SUFFICES ASSUME NEW n \in Pauses, policies[n] # NoPolicy, now < Truncate(policies[n].expires)
               PROVE  PauseAction(n) = "block"
    BY DEF PauseBlocks
  <2>1. Truncate(policies[n].expires) = policies[n].schedule.from + Hour
    BY <1>1 DEF PauseInv, PausesTimed, Timed
  <2> QED
    BY <2>1 DEF PauseAction
<1> QED
  BY <1>1, PauseInvAlways, PTL

-----------------------------------------------------------------------------
(* One request at a time                                                   *)

\* What the new request promises.
Promises(r) ==
    /\ r.at \in Grants => now <= r.policy.expires
    /\ r.at = "save policy" => policies'[r.name] = r.policy

LEMMA StepsDiffer ==
    /\ "done" \notin Writes /\ "done" \notin Grants /\ "save policy" \in Writes \cap Grants
    /\ "pause: save schedule" \in Grants \ Writes /\ "pause: policy" \in Grants \ Writes
    /\ "unpause: unsave policy" \in Writes \ Grants /\ "cancel: unsave policy" \in Writes \ Grants
BY DEF Writes, Grants

LEMMA PromisesKept ==
    ASSUME Serial, NEW h \in Handlers, NEW r, Becomes(h, r), now' = now, Promises(r)
    PROVE  GrantsAhead' /\ SavesInForce'
<1>1. \A g \in Handlers : request'[g] = r
  BY DEF Serial, Becomes
<1> QED
  BY <1>1 DEF Promises, GrantsAhead, SavesInForce, Serving

\* A request that has nothing to write yet takes a step that changes no policy.
LEMMA SerialReads ==
    ASSUME Serial, SerialInv, NEW h \in Handlers, NEW r, Becomes(h, r),
           request[h].at \notin Writes, Promises(r),
           UNCHANGED <<now, policies, savedPolicies, sweep>>
    PROVE  SerialInv'
<1>1. \A n \in Names : savedPolicies[n] \in {NoPolicy, policies[n]} \/ n \in sweep.policies
  BY DEF Serial, SerialInv, OneWrites
<1>2. OneWrites'
  BY <1>1 DEF OneWrites
<1> QED
  BY <1>2, PromisesKept DEF SerialInv

\* ... or replaces one in the engine, and has to write it then.
LEMMA SerialReplaces ==
    ASSUME Serial, TypeOK, SerialInv, NEW h \in Handlers, NEW r, Becomes(h, r),
           request[h].at \notin Writes, r.at \in Writes, Promises(r), NEW v,
           policies' = [policies EXCEPT ![r.name] = v],
           UNCHANGED <<now, savedPolicies, sweep>>
    PROVE  SerialInv'
<1>1. \A n \in Names : savedPolicies[n] \in {NoPolicy, policies[n]} \/ n \in sweep.policies
  BY DEF Serial, SerialInv, OneWrites
<1>2. \A n \in Names : n # r.name => policies'[n] = policies[n]
  BY DEF TypeOK
<1>3. request'[h] = r
  BY DEF Becomes
<1>4. OneWrites'
  BY <1>1, <1>2, <1>3 DEF OneWrites
<1> QED
  BY <1>4, PromisesKept DEF SerialInv

\* A request writes its row: what the engine has, or nothing.
LEMMA SerialWrites ==
    ASSUME Serial, TypeOK, SerialInv, NEW h \in Handlers, NEW r, Becomes(h, r), Promises(r),
           NEW v \in {NoPolicy, policies[request[h].name]},
           savedPolicies' = [savedPolicies EXCEPT ![request[h].name] = v],
           UNCHANGED <<now, policies, sweep>>
    PROVE  SerialInv'
<1> DEFINE m == request[h].name
<1>1. m \in Names /\ savedPolicies \in [Names -> Policies]
  BY RequestFields DEF TypeOK
<1>2. savedPolicies'[m] = v /\ \A n \in Names : n # m => savedPolicies'[n] = savedPolicies[n]
  BY <1>1
<1>3. \A n \in Names \ {m} : savedPolicies[n] \in {NoPolicy, policies[n]} \/ n \in sweep.policies
  BY DEF Serial, SerialInv, OneWrites
<1> HIDE DEF m
<1>4. v \in {NoPolicy, policies[m]}
  BY DEF m
<1>5. OneWrites'
  BY <1>2, <1>3, <1>4 DEF OneWrites
<1> QED
  BY <1>5, PromisesKept DEF SerialInv

LEMMA SerialBegin ==
    ASSUME Serial, TypeOK, SerialInv, NEW h \in Handlers,
           \/ \E n \in Pauses : Pause(h, n) \/ Unpause(h, n)
           \/ \E n \in Extensions : Extend(h, n) \/ Cancel(h, n)
    PROVE  SerialInv'
<1>1. ASSUME NEW n \in Pauses, Pause(h, n) PROVE SerialInv'
  <2> DEFINE s == PauseSchedule(n)
             p == [expires |-> now + Hour, schedule |-> s]
             r == [at |-> "pause: save schedule", name |-> n, policy |-> p]
  <2>1. /\ issued < MaxPauses /\ request' = [request EXCEPT ![h] = r]
        /\ request[h].at = "done"
        /\ UNCHANGED <<now, policies, savedPolicies, sweep>>
    BY <1>1 DEF Pause, store, Serving
  <2>2. p \in Policies /\ now <= p.expires
    BY <2>1, GrantedPause
  <2>3. r \in Requests /\ r.at = "pause: save schedule" /\ r.policy = p
    BY <2>2 DEF Requests, Steps, Names
  <2> HIDE DEF s, p, r
  <2>4. Becomes(h, r)
    BY <2>1, <2>3, NewRequest
  <2>5. Promises(r)
    BY <2>2, <2>3 DEF Promises
  <2> QED
    BY <2>1, <2>4, <2>5, StepsDiffer, SerialReads
<1>2. ASSUME NEW n \in Pauses, Unpause(h, n) PROVE SerialInv'
  <2> DEFINE r == [at |-> "unpause: policy", name |-> n, policy |-> policies[n]]
  <2>1. /\ request' = [request EXCEPT ![h] = r] /\ request[h].at = "done"
        /\ UNCHANGED <<now, policies, savedPolicies, sweep>>
    BY <1>2 DEF Unpause, memory, store, Serving
  <2>2. r \in Requests
    BY DEF Requests, Steps, Names, TypeOK
  <2>3. Promises(r)
    BY DEF Promises, Grants
  <2> HIDE DEF r
  <2>4. Becomes(h, r)
    BY <2>1, <2>2, NewRequest
  <2> QED
    BY <2>1, <2>3, <2>4, StepsDiffer, SerialReads
<1>3. ASSUME NEW n \in Extensions, Extend(h, n) PROVE SerialInv'
  <2>1. PICK d \in Durations :
          LET p == [expires |-> now + d, schedule |-> NoSchedule] IN
             /\ policies' = [policies EXCEPT ![n] = p]
             /\ request' = [request EXCEPT ![h] =
                               [at |-> "save policy", name |-> n, policy |-> p]]
    BY <1>3 DEF Extend
  <2> DEFINE p == [expires |-> now + d, schedule |-> NoSchedule]
             r == [at |-> "save policy", name |-> n, policy |-> p]
  <2>2. /\ policies' = [policies EXCEPT ![n] = p] /\ request' = [request EXCEPT ![h] = r]
        /\ request[h].at = "done" /\ UNCHANGED <<now, savedPolicies, sweep>>
    BY <1>3, <2>1 DEF Extend, store, Serving
  <2>3. n \in Names
    BY DEF Names
  <2>4. p \in Policies /\ now <= p.expires
    BY GrantedExtension
  <2>5. r.at = "save policy" /\ r.name = n /\ r.policy = p /\ r \in Requests
    BY <2>3, <2>4 DEF Requests, Steps
  <2> HIDE DEF p, r
  <2>6. Becomes(h, r)
    BY <2>2, <2>5, NewRequest
  <2>7. policies'[n] = p
    BY <2>2, <2>3 DEF TypeOK
  <2>8. Promises(r)
    BY <2>4, <2>5, <2>7 DEF Promises
  <2> QED
    BY <2>2, <2>5, <2>6, <2>8, StepsDiffer, SerialReplaces
<1>4. ASSUME NEW n \in Extensions, Cancel(h, n) PROVE SerialInv'
  <2> DEFINE r == [at |-> "cancel: policy", name |-> n, policy |-> NoPolicy]
  <2>1. /\ request' = [request EXCEPT ![h] = r] /\ request[h].at = "done"
        /\ UNCHANGED <<now, policies, savedPolicies, sweep>>
    BY <1>4 DEF Cancel, memory, store, Serving
  <2>2. r \in Requests
    BY NoPolicyIsOne DEF Requests, Steps, Names
  <2>3. Promises(r)
    BY DEF Promises, Grants
  <2> HIDE DEF r
  <2>4. Becomes(h, r)
    BY <2>1, <2>2, NewRequest
  <2> QED
    BY <2>1, <2>3, <2>4, StepsDiffer, SerialReads
<1> QED
  BY <1>1, <1>2, <1>3, <1>4

\* A write that cannot fail.
LEMMA SurelyWritten ==
    ASSUME Serial, NEW old, NEW new, NEW x \in Written(old, new)
    PROVE  x = new
BY DEF Serial, Written

LEMMA SerialHandler ==
    ASSUME Serial, TypeOK, SerialInv, NEW h \in Handlers, HandlerStep(h)
    PROVE  SerialInv'
<1> DEFINE m == request[h].name
           p == request[h].policy
           Next2(step) == [at |-> step, name |-> m, policy |-> p]
<1>0. /\ m \in Names /\ p \in Policies
      /\ request[h].at \in Grants => now <= p.expires
      /\ request[h].at = "save policy" => policies[m] = p
  BY RequestFields DEF SerialInv, GrantsAhead, SavesInForce
<1>1. CASE PauseSaveSchedule(h) \/ UnpauseSchedule(h)
  <2>1. PICK step \in {"pause: policy", "unpause: unsave schedule"} :
          /\ Goto(h, step) /\ request[h].at \notin Writes
          /\ step \in Grants => request[h].at \in Grants
    BY <1>1, StepsDiffer DEF PauseSaveSchedule, UnpauseSchedule, Serving, Writes, Grants
  <2>2. UNCHANGED <<now, policies, savedPolicies, sweep>>
    BY <1>1 DEF PauseSaveSchedule, UnpauseSchedule, memory, store
  <2>3. Becomes(h, Next2(step))
    BY <2>1, GotoIs DEF Steps
  <2>4. Promises(Next2(step))
    BY <1>0, <2>1 DEF Promises
  <2> QED
    BY <2>1, <2>2, <2>3, <2>4, SerialReads
<1>2. CASE PausePolicy(h)
  <2>1. policies' = [policies EXCEPT ![m] = p] /\ Goto(h, "save policy")
        /\ request[h].at = "pause: policy" /\ UNCHANGED <<now, savedPolicies, sweep>>
    BY <1>2 DEF PausePolicy, store, Serving
  <2>2. Becomes(h, Next2("save policy"))
    BY <2>1, GotoIs DEF Steps
  <2>3. policies'[m] = p
    BY <1>0, <2>1 DEF TypeOK
  <2>4. Promises(Next2("save policy"))
    BY <1>0, <2>1, <2>3, StepsDiffer DEF Promises
  <2>5. Next2("save policy").at \in Writes /\ Next2("save policy").name = m
    BY StepsDiffer
  <2> HIDE DEF Next2, m, p
  <2> QED
    BY <2>1, <2>2, <2>4, <2>5, StepsDiffer, SerialReplaces
<1>3. CASE SavePolicy(h)
  <2>1. savedPolicies' = [savedPolicies EXCEPT ![m] = p] /\ Finish(h)
        /\ request[h].at = "save policy" /\ UNCHANGED <<now, policies, sweep>>
    BY <1>3, SurelyWritten DEF SavePolicy, memory, Serving
  <2>2. Becomes(h, Done) /\ Promises(Done)
    BY <2>1, FinishIs, DoneIsRequest, StepsDiffer DEF Promises
  <2>3. p = policies[m]
    BY <1>0, <2>1 DEF Serving
  <2> QED
    BY <2>1, <2>2, <2>3, SerialWrites
<1>4. CASE UnpausePolicy(h) \/ CancelPolicy(h)
  <2>1. PICK step \in {"unpause: unsave policy", "cancel: unsave policy"} : Goto(h, step)
    BY <1>4 DEF UnpausePolicy, CancelPolicy
  <2>2. policies' = [policies EXCEPT ![m] = NoPolicy]
        /\ request[h].at \notin Writes /\ UNCHANGED <<now, savedPolicies, sweep>>
    BY <1>4 DEF UnpausePolicy, CancelPolicy, store, Serving, Writes
  <2>3. Becomes(h, Next2(step))
    BY <2>1, GotoIs DEF Steps
  <2>4. Promises(Next2(step)) /\ Next2(step).at \in Writes /\ Next2(step).name = m
    BY StepsDiffer DEF Promises
  <2> HIDE DEF Next2, m, p
  <2> QED
    BY <2>2, <2>3, <2>4, SerialReplaces
<1>5. CASE UnpauseUnsavePolicy(h)
  <2>1. savedPolicies' = [savedPolicies EXCEPT ![m] = NoPolicy]
        /\ Goto(h, "unpause: schedule") /\ UNCHANGED <<now, policies, sweep>>
    BY <1>5, SurelyWritten DEF UnpauseUnsavePolicy, memory
  <2>2. Becomes(h, Next2("unpause: schedule"))
    BY <2>1, GotoIs DEF Steps
  <2>3. Promises(Next2("unpause: schedule"))
    BY DEF Promises, Grants
  <2> HIDE DEF Next2
  <2> QED
    BY <2>1, <2>2, <2>3, SerialWrites
<1>6. CASE UnpauseUnsaveSchedule(h)
  <2>1. request[h].at \notin Writes /\ Finish(h) /\ UNCHANGED <<now, policies, savedPolicies, sweep>>
    BY <1>6 DEF UnpauseUnsaveSchedule, memory, Serving, Writes
  <2>2. Becomes(h, Done) /\ Promises(Done)
    BY <2>1, FinishIs, DoneIsRequest, StepsDiffer DEF Promises
  <2> QED
    BY <2>1, <2>2, SerialReads
<1>7. CASE CancelUnsavePolicy(h)
  <2>1. savedPolicies' = [savedPolicies EXCEPT ![m] = NoPolicy] /\ Finish(h)
        /\ UNCHANGED <<now, policies, sweep>>
    BY <1>7, SurelyWritten DEF CancelUnsavePolicy, memory
  <2>2. Becomes(h, Done) /\ Promises(Done)
    BY <2>1, FinishIs, DoneIsRequest, StepsDiffer DEF Promises
  <2> QED
    BY <2>1, <2>2, SerialWrites
<1> QED
  BY <1>1, <1>2, <1>3, <1>4, <1>5, <1>6, <1>7 DEF HandlerStep

\* What is about to be saved has not expired.
LEMMA NowIsNat == ASSUME TypeOK PROVE now \in Nat
BY ConstantsAssumption DEF TypeOK, Times

LEMMA NotExpired ==
    ASSUME NEW p \in Policies, now \in Nat, now <= p.expires
    PROVE  ~Expired(p)
<1>1. p.expires \in Nat
  BY DEF Policies
<1>2. ~(now > p.expires)
  BY <1>1
<1> QED
  BY <1>2 DEF Expired

LEMMA SerialSweep ==
    ASSUME Serial, TypeOK, SerialInv, SweepStep
    PROVE  SerialInv'
<1>1. CASE SweepExpired
  <2> DEFINE expired == {n \in Names : Expired(policies[n])}
  <2>1. /\ sweep.policies = {} /\ sweep'.policies = expired
        /\ policies' = [n \in Names |-> IF n \in expired THEN NoPolicy ELSE policies[n]]
        /\ UNCHANGED <<now, savedPolicies, request>>
    BY <1>1 DEF SweepExpired, store, Idle
  <2>2. \A n \in Names : policies'[n] = IF n \in expired THEN NoPolicy ELSE policies[n]
    BY <2>1
  <2>3. GrantsAhead'
    BY <2>1 DEF SerialInv, GrantsAhead
  <2>4. SavesInForce'
    <3> SUFFICES ASSUME NEW h \in Handlers, request[h].at = "save policy"
                 PROVE  policies'[request[h].name] = request[h].policy
      BY <2>1 DEF SavesInForce, Serving
    <3>1. policies[request[h].name] = request[h].policy /\ request[h].name \in Names
      BY RequestFields DEF SerialInv, SavesInForce
    <3>2. /\ now \in Nat /\ request[h].policy \in Policies
          /\ now <= request[h].policy.expires
      <4>1. now \in Nat
        BY NowIsNat
      <4>2. request[h].policy \in Policies
        BY RequestFields
      <4>3. now <= request[h].policy.expires
        BY StepsDiffer DEF SerialInv, GrantsAhead
      <4> QED
        BY <4>1, <4>2, <4>3
    <3>3. ~Expired(request[h].policy)
      BY <3>2, NotExpired
    <3>4. request[h].name \notin expired
      BY <3>1, <3>3
    <3> QED
      BY <2>2, <3>1, <3>4
  <2> HIDE DEF expired
  <2>5. OneWrites'
    BY <2>1, <2>2 DEF SerialInv, OneWrites
  <2> QED
    BY <2>3, <2>4, <2>5 DEF SerialInv
<1>2. ASSUME NEW n \in Names, SweepUnsavePolicy(n) PROVE SerialInv'
  <2>1. /\ savedPolicies' = [savedPolicies EXCEPT ![n] = NoPolicy]
        /\ sweep' = [sweep EXCEPT !.policies = @ \ {n}]
        /\ UNCHANGED <<now, policies, request>>
    BY <1>2, SurelyWritten DEF SweepUnsavePolicy, memory
  <2>2. sweep'.policies = sweep.policies \ {n}
    BY <2>1, SweepFields
  <2>3. savedPolicies'[n] = NoPolicy /\ \A q \in Names : q # n => savedPolicies'[q] = savedPolicies[q]
    BY <2>1 DEF TypeOK
  <2>4. OneWrites'
    BY <2>1, <2>2, <2>3 DEF SerialInv, OneWrites
  <2> QED
    BY <2>1, <2>4 DEF SerialInv, GrantsAhead, SavesInForce, Serving
<1>3. ASSUME NEW s \in Schedules, SweepSchedule(s) \/ SweepUnsaveSchedule(s) PROVE SerialInv'
  <2>1. /\ \/ sweep' = [sweep EXCEPT !.schedules = @ \ {s}, !.unsave = {s}]
           \/ sweep' = [sweep EXCEPT !.unsave = {}]
        /\ UNCHANGED <<now, policies, savedPolicies, request>>
    BY <1>3 DEF SweepSchedule, SweepUnsaveSchedule, memory, store
  <2>2. sweep'.policies = sweep.policies
    BY <2>1, SweepFields
  <2> QED
    BY <2>1, <2>2 DEF SerialInv, GrantsAhead, SavesInForce, Serving, OneWrites
<1> QED
  BY <1>1, <1>2, <1>3 DEF SweepStep

LEMMA SerialElse ==
    ASSUME SerialInv, Tick \/ Restart
    PROVE  SerialInv'
<1>1. CASE Tick
  <2>1. \A h \in Handlers : request[h].at = "done"
    BY <1>1 DEF Tick, Quiet, Serving
  <2>2. UNCHANGED <<policies, savedPolicies, request, sweep>>
    BY <1>1 DEF Tick, memory, store
  <2> QED
    BY <2>1, <2>2, StepsDiffer DEF SerialInv, GrantsAhead, SavesInForce, Serving, OneWrites
<1>2. CASE Restart
  <2>1. policies' = savedPolicies' /\ \A h \in Handlers : request'[h] = Done
    BY <1>2 DEF Restart
  <2> QED
    BY <2>1, DoneIsRequest, StepsDiffer DEF SerialInv, GrantsAhead, SavesInForce, Serving, OneWrites
<1> QED
  BY <1>1, <1>2

LEMMA SerialStep ==
    ASSUME Serial, TypeOK, SerialInv, [Next]_vars
    PROVE  SerialInv'
<1>1. CASE UNCHANGED vars
  BY <1>1 DEF vars, memory, store, SerialInv, GrantsAhead, SavesInForce, Serving, OneWrites
<1>2. CASE Next
  BY <1>2, SerialBegin, SerialHandler, SerialSweep, SerialElse DEF Next
<1> QED
  BY <1>1, <1>2

LEMMA SerialInit == Init => SerialInv
<1> SUFFICES ASSUME Init PROVE SerialInv
  OBVIOUS
<1>1. savedPolicies = policies /\ \A h \in Handlers : request[h] = Done
  BY DEF Init
<1> QED
  BY <1>1, DoneIsRequest, StepsDiffer DEF SerialInv, GrantsAhead, SavesInForce, Serving, OneWrites

\* With one request at a time and a database that works nothing that was
\* cancelled, unpaused or swept is left for the next restart to load
\* (CancelDeviceExtension, UnpauseDeviceInternet, the sweep of main, LoadHydrate).
THEOREM NothingComesBack ==
    ASSUME Serial
    PROVE  Spec => []NothingReturns
<1>1. ASSUME SerialInv PROVE NothingReturns
  <2> SUFFICES ASSUME Quiet, NEW n \in Names, savedPolicies[n] # NoPolicy
               PROVE  savedPolicies[n] = policies[n]
    BY DEF NothingReturns
  <2>1. sweep.policies = {} /\ \A h \in Handlers : request[h].at = "done"
    BY DEF Quiet, Idle, Serving
  <2> QED
    BY <1>1, <2>1, StepsDiffer DEF SerialInv, OneWrites
<1>2. TypeOK /\ SerialInv /\ [Next]_vars => SerialInv'
  BY SerialStep
<1> QED
  BY <1>1, <1>2, SerialInit, TypeCorrect, PTL DEF Spec
=============================================================================
