------------------------------ MODULE MCNotices ------------------------------
(* Instances of Notices for TLC. *)
EXTENDS Notices, TLC

CONSTANTS h1, h2, r1, r2, t1, d1, d2, u1, a1, a2

AllEvents == {Turn(r, v) : r \in Requests, v \in Verdicts}
             \cup {Announcement(f, d) : f \in Followers, d \in Dates}
(* Two agents list one of the events, only one of them lists the other. *)
MixedAudience == [e \in AllEvents |-> IF e[3] = d2 THEN {a1, a2} ELSE {a1}]
NoAudience == [e \in AllEvents |-> {}]
SameTitle == [r \in Requests |-> t1]
SameHandlers == Permutations(Handlers) \cup Permutations(Requests)
=============================================================================
