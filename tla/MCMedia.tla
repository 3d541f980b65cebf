------------------------------- MODULE MCMedia --------------------------------
(* Instances of MediaAssets for TLC. *)
EXTENDS MediaAssets, TLC

SameReaders == Permutations(Readers)
=============================================================================
