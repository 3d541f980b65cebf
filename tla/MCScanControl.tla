---------------------------- MODULE MCScanControl ----------------------------
(* Instances of ScanControl for TLC. *)
EXTENDS ScanControl, TLC

CONSTANTS i1, s1, a1, x1, x2, d1

(* One instance that every kind of run competes for. *)
OneInstance == [r \in Runs |-> i1]
OneDecision == [r \in Rescans |-> d1]
=============================================================================
