---------------------------- MODULE MCEnrichment ----------------------------
(* Two devices and a channel of one: a second request finds it full.       *)
EXTENDS Enrichment

CONSTANTS d1, d2, c1, c2, w1, w2, p1
=============================================================================
