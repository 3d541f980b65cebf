------------------------------- MODULE MCRegrab -------------------------------
(* A small instance of Regrab: two loops, so that a cancelled one works      *)
(* beside its successor, on one season.                                      *)
EXTENDS Regrab

CONSTANTS l1, l2, t1, s1

Pack == [t \in Torrents |-> s1]

(* FairSpec asks fairness of every loop; this, of one alone.                 *)
OneLoopFair == Spec /\ LoopFair(l1)

(* LoopLive of the loop that is treated fairly, whatever becomes of the      *)
(* others.  The loops are interchangeable: what holds of one holds of each.  *)
OneLoopLive == LoopLive(l1)
=============================================================================
