----------------------------- MODULE EnrichJobs -----------------------------
(***************************************************************************)
(* What the enrichment dispatcher promises its callers, without channels,  *)
(* priorities, worker goroutines or locks: a job is one (kind, id) entity; *)
(* an entity is accepted only while no job for it is waiting or running,   *)
(* is handled by at most one handler at a time, and each accepted job is   *)
(* begun at most once.  Nothing is accepted after the shutdown, which may  *)
(* leave jobs waiting for ever.                                            *)
(***************************************************************************)
CONSTANTS Kinds, Ids

VARIABLES waiting, running, accepting

vars == <<waiting, running, accepting>>

Jobs == Kinds \X Ids

Init ==
  /\ waiting = {}
  /\ running = {}
  /\ accepting = TRUE

Accept(j) ==
  /\ accepting
  /\ j \notin waiting \cup running
  /\ waiting' = waiting \cup {j}
  /\ UNCHANGED <<running, accepting>>

Begin(j) ==
  /\ j \in waiting
  /\ j \notin running
  /\ waiting' = waiting \ {j}
  /\ running' = running \cup {j}
  /\ UNCHANGED accepting

Finish(j) ==
  /\ j \in running
  /\ running' = running \ {j}
  /\ UNCHANGED <<waiting, accepting>>

Shut ==
  /\ accepting
  /\ accepting' = FALSE
  /\ UNCHANGED <<waiting, running>>

Next == Shut \/ \E j \in Jobs : Accept(j) \/ Begin(j) \/ Finish(j)

Spec == Init /\ [][Next]_vars

=============================================================================
