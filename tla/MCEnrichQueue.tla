---------------------------- MODULE MCEnrichQueue ----------------------------
(* Instances of EnrichQueue for TLC. *)
EXTENDS EnrichQueue, TLC

CONSTANTS series, w1, w2, c1, e1, e2, e3

OnePool == [w \in {w1, w2} |-> series]
=============================================================================
