------------------------ MODULE MCIdentityDecisions ------------------------
(* Two devices that may be one, a device that was merged into one of them, *)
(* and a fourth that a split or an observation makes.                      *)
EXTENDS IdentityDecisions, TLC

CONSTANTS p1, p2, p3, p4, m1, m2, key, provider, admin1, admin2

MCKnown == p1 :> m1 @@ p2 :> m2
MCProposed == {<<p2, p1>>}
MCMergedBefore == p4 :> p2
=============================================================================
