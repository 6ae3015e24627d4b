--------------------------- MODULE DeviceSettings ---------------------------
(* What an administrator has set for each device - its tags, the person it  *)
(* belongs to and the policies that name it - and what becomes of it when   *)
(* two devices turn out to be one: the surviving device has the tags of     *)
(* both, its own person unless it has none, and of two policies with the    *)
(* same name the stronger one, all at once.                                 *)
EXTENDS Integers

CONSTANTS Devices, TagIDs, Users, Names, Priorities, Nobody

VARIABLES tags, person, policies

settings == <<tags, person, policies>>

Policies == [name : Names, device : Devices, priority : Priorities]

TypeInvariant ==
    /\ tags \in [Devices -> SUBSET TagIDs]
    /\ person \in [Devices -> Users \cup {Nobody}]
    /\ policies \subseteq Policies

Init == TypeInvariant

Tag(d) ==
    /\ \E some \in SUBSET TagIDs : tags' = [tags EXCEPT ![d] = some]
    /\ UNCHANGED <<person, policies>>

Assign(d) ==
    /\ \E u \in Users \cup {Nobody} : person' = [person EXCEPT ![d] = u]
    /\ UNCHANGED <<tags, policies>>

\* A policy takes the place of the one of its name.
Decree(d) ==
    /\ \E p \in Policies :
          /\ p.device = d
          /\ policies' = {q \in policies : q.device # d \/ q.name # p.name} \cup {p}
    /\ UNCHANGED <<tags, person>>

\* The policies of both; one is weaker if there is another of its name that has
\* a higher priority, or the same and was the survivor's already.
Inherited(old, new) ==
    LET Weaker(p, q) == /\ p.name = q.name /\ {p.device, q.device} = {old, new}
                        /\ \/ p.priority < q.priority
                           \/ p.priority = q.priority /\ p.device = old
    IN {p \in policies : p.device \notin {old, new}} \cup
       {[p EXCEPT !.device = new] :
           p \in {p \in policies : p.device \in {old, new} /\ ~\E q \in policies : Weaker(p, q)}}

Succeed(old, new) ==
    /\ old # new
    /\ tags' = [tags EXCEPT ![new] = tags[new] \cup tags[old], ![old] = {}]
    /\ person' = [person EXCEPT ![new] = IF @ = Nobody THEN person[old] ELSE @,
                                ![old] = Nobody]
    /\ policies' = Inherited(old, new)

Next ==
    \/ \E d \in Devices : Tag(d) \/ Assign(d) \/ Decree(d)
    \/ \E old, new \in Devices : Succeed(old, new)

Spec == Init /\ [][Next]_settings
=============================================================================
