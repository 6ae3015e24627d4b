------------------------- MODULE MCPolicyPrecedence -------------------------
(* Two policies of the dashboard: one can allow while the other schedules, *)
(* and two policies of the device can tie.                                 *)
EXTENDS PolicyPrecedence, TLC

CONSTANTS kids, media, c1, c2, evening

Symmetry == Permutations(Custom) \cup Permutations(Tags)
=============================================================================
