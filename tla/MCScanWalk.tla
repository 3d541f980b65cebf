------------------------------ MODULE MCScanWalk ------------------------------
(* Instances of ScanWalk for TLC. *)
EXTENDS ScanWalk

CONSTANTS s1, s2, s3, r1, r2, r3

(* Two series, one release for each season. *)
ThreeSeasons == <<<<s1, s2>>, <<s3>>>>
SeasonOfThree == [r \in {r1, r2, r3} |-> IF r = r1 THEN s1 ELSE IF r = r2 THEN s2 ELSE s3]
=============================================================================
