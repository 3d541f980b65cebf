------------------------------- MODULE MCInbox --------------------------------
(* Instances of Inbox for TLC. *)
EXTENDS Inbox, TLC

CONSTANTS e1, e2, t1, d1, d2

(* A release grabbed twice, and one title from two trackers. *)
SameTitle == [g \in Grabs |-> t1]
SameHash == [g \in Grabs |-> d1]
TwoHashes == [g \in Grabs |-> IF g = 1 THEN d1 ELSE d2]
SameEpisodes == Permutations(Episodes)
=============================================================================
