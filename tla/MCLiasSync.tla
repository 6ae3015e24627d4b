----------------------------- MODULE MCLiasSync -----------------------------
(* A tagged device that somebody has and that is paused, a second one that *)
(* is paused as well, and one that was merged into the first.              *)
EXTENDS LiasSync, TLC

CONSTANTS p, q, r, m1, m2, t, u

MCKept ==
    [rows |-> {[device |-> p, tag |-> t, mac |-> m1]},
     users |-> (p :> u) @@ [x \in PDIDs |-> None],
     policies |-> {[name |-> "pause", device |-> p, priority |-> 2],
                   [name |-> "pause", device |-> q, priority |-> 1]},
     migrated |-> (r :> p) @@ [x \in PDIDs |-> None],
     redirects |-> (r :> p) @@ [x \in PDIDs |-> None]]

MCListed ==
    (p :> [macs |-> {m1}, online |-> TRUE]) @@ (q :> [macs |-> {m2}, online |-> FALSE])
    @@ (r :> Absent)
=============================================================================
