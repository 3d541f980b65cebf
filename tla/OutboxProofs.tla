----------------------------- MODULE OutboxProofs -----------------------------
(***************************************************************************)
(* The outbox and its dispatcher keep their promises whatever producers    *)
(* insert, for any rows, agents and ceilings: lemmas about the steps of    *)
(* Outbox and about an insert, for the proofs of its producers.            *)
(***************************************************************************)
EXTENDS Outbox, FiniteSetTheorems, WellFoundedInduction, TLAPS

(* Only the dispatcher settles rows, so what it has fetched is pending;     *)
(* every row is about an event; rows are inserted in the order of their     *)
(* ids.                                                                     *)
BatchPending == \A id \in batch : outbox[id].status = "pending"
AboutEvents == \A id \in Rows : outbox[id].status # "free" => outbox[id].event \in Events
RestFree == \A id \in Rows : id > last => outbox[id] = Free

(* While a row is sent and nothing failed, each agent of the pass is still  *)
(* to be sent to or has the row.                                            *)
PassExact ==
  dpc = "sending" =>
    /\ batch # {}
    /\ ~anyErr => \A a \in listed[Current] : a \in todo \/ sent[Current][a] > 0

(* What a row was sent beyond its counted and its lost passes: once, in the *)
(* pass that is on or in the one that removed it.                           *)
Uncounted(id, a) ==
  IF outbox[id].status \in {"sent", "dead"} \/ (dpc = "sending" /\ id = Current /\ a \notin todo)
    THEN 1 ELSE 0
SentExact ==
  \A id \in Rows, a \in Agents :
    sent[id][a] <= outbox[id].attempts + lost[id] + Uncounted(id, a)
AttemptsFailed == \A id \in Rows : outbox[id].attempts <= failures[id]

OutboxInv ==
  /\ OutboxTypeOK /\ BatchPending /\ AboutEvents /\ RestFree /\ PassExact
  /\ RemovedWhenDelivered /\ SentExact /\ AttemptsFailed /\ DeadAfterCap

-----------------------------------------------------------------------------
(* A set of naturals that is not empty has a least element. *)
LEMMA LeastExists ==
  ASSUME NEW S, S \subseteq Nat, S # {}
  PROVE  \E x \in S : \A y \in S : x <= y
<1> DEFINE R == OpToRel(<, Nat)
<1>1. IsWellFoundedOn(R, Nat)
  BY NatLessThanWellFounded
<1>2. R = {ss \in Nat \X Nat : ss[1] < ss[2]}
  BY DEF OpToRel
<1> HIDE DEF R
<1>3. PICK x \in S : \A y \in S : <<y, x>> \notin R
  BY <1>1, WFMin
<1>4. \A y \in S : ~(y < x)
  BY <1>2, <1>3
<1>5. QED BY <1>4

(* The current row is one of those fetched. *)
LEMMA CurrentFetched ==
  ASSUME OutboxTypeOK, batch # {}
  PROVE  Current \in batch /\ Current \in Rows
<1>1. batch \subseteq Rows /\ Rows \subseteq Nat
  BY DEF OutboxTypeOK, Rows
<1>2. \E id \in batch : \A later \in batch : id <= later
  BY <1>1, LeastExists
<1>3. QED BY <1>1, <1>2 DEF Current

LEMMA OutboxInitInv == OutboxInit => OutboxInv
<1> SUFFICES ASSUME OutboxInit PROVE OutboxInv
  OBVIOUS
<1>1. OutboxTypeOK
  <2>1. Free \in [status : {"free", "pending", "sent", "dead"},
                  attempts : 0 .. AttemptCap - 1, resting : BOOLEAN,
                  event : Events \cup {NoEvent}]
    BY OutboxAssumption DEF Free
  <2>2. [id \in Rows |-> {}] \in [Rows -> SUBSET Agents]
    OBVIOUS
  <2>3. last \in 0 .. MaxRows
    BY OutboxAssumption DEF OutboxInit
  <2>4. QED BY <2>1, <2>2, <2>3 DEF OutboxInit, OutboxTypeOK
<1>2. BatchPending /\ AboutEvents /\ RestFree /\ PassExact /\ RemovedWhenDelivered /\ DeadAfterCap
  BY DEF OutboxInit, BatchPending, AboutEvents, RestFree, PassExact,
         RemovedWhenDelivered, DeadAfterCap, Free
<1>3. SentExact /\ AttemptsFailed
  BY DEF OutboxInit, SentExact, AttemptsFailed, Uncounted, Free
<1>4. QED BY <1>1, <1>2, <1>3 DEF OutboxInv

-----------------------------------------------------------------------------
(* The dispatcher: one lemma for the steps that leave the rows alone, one   *)
(* for each way a row is settled.                                           *)

LEMMA FetchInv == OutboxInv /\ Fetch => OutboxInv'
<1> SUFFICES ASSUME OutboxInv, Fetch PROVE OutboxInv'
  OBVIOUS
<1> USE DEF OutboxInv, Fetch, storeVars, historyVars
<1>1. batch' \subseteq Due
  OBVIOUS
<1>2. OutboxTypeOK' /\ BatchPending'
  BY <1>1 DEF OutboxTypeOK, BatchPending, Due
<1>3. (AboutEvents /\ RestFree /\ PassExact /\ RemovedWhenDelivered /\ AttemptsFailed
       /\ DeadAfterCap)'
  BY DEF AboutEvents, RestFree, PassExact, RemovedWhenDelivered, AttemptsFailed,
         DeadAfterCap
<1>4. SentExact'
  BY DEF SentExact, Uncounted
<1>5. QED BY <1>2, <1>3, <1>4

LEMMA BatchEndsInv == OutboxInv /\ BatchEnds => OutboxInv'
<1> SUFFICES ASSUME OutboxInv, BatchEnds PROVE OutboxInv'
  OBVIOUS
<1> USE DEF OutboxInv, BatchEnds, storeVars, historyVars
<1>1. (OutboxTypeOK /\ BatchPending)'
  BY DEF OutboxTypeOK, BatchPending
<1>2. (AboutEvents /\ RestFree /\ PassExact /\ RemovedWhenDelivered /\ AttemptsFailed
       /\ DeadAfterCap)'
  BY DEF AboutEvents, RestFree, PassExact, RemovedWhenDelivered, AttemptsFailed,
         DeadAfterCap
<1>3. SentExact'
  BY DEF SentExact, Uncounted
<1>4. QED BY <1>1, <1>2, <1>3

(* The agents to send to are those listed; the row is pending, so no        *)
(* removed row is listed anew.                                              *)
LEMMA ListAgentsInv == OutboxInv /\ ListAgents => OutboxInv'
<1> SUFFICES ASSUME OutboxInv, ListAgents PROVE OutboxInv'
  OBVIOUS
<1> USE DEF OutboxInv, ListAgents, storeVars
<1>1. Current \in batch /\ Current \in Rows /\ outbox[Current].status = "pending"
  BY CurrentFetched DEF BatchPending
<1>2. Current' = Current
  BY DEF Current
<1>3. todo' \subseteq Agents /\ listed' = [listed EXCEPT ![Current] = todo']
  BY <1>1, OutboxAssumption DEF AboutEvents, Row
<1>4. OutboxTypeOK'
  BY <1>1, <1>3 DEF OutboxTypeOK
<1>5. PassExact'
  BY <1>1, <1>2 DEF PassExact, OutboxTypeOK
<1>6. RemovedWhenDelivered'
  BY <1>1 DEF RemovedWhenDelivered, OutboxTypeOK
<1>7. (BatchPending /\ AboutEvents /\ RestFree /\ AttemptsFailed /\ DeadAfterCap)'
  BY DEF BatchPending, AboutEvents, RestFree, AttemptsFailed, DeadAfterCap
<1>8. SentExact'
  BY <1>4 DEF SentExact, Uncounted, OutboxTypeOK
<1>9. QED BY <1>4, <1>5, <1>6, <1>7, <1>8

LEMMA ListFailsInv == OutboxInv /\ ListFails => OutboxInv'
<1> SUFFICES ASSUME OutboxInv, ListFails PROVE OutboxInv'
  OBVIOUS
<1> USE DEF OutboxInv, ListFails, storeVars, historyVars
<1>1. OutboxTypeOK' /\ PassExact'
  BY DEF OutboxTypeOK, PassExact
<1>2. (BatchPending /\ AboutEvents /\ RestFree /\ RemovedWhenDelivered
       /\ AttemptsFailed /\ DeadAfterCap)'
  BY DEF BatchPending, AboutEvents, RestFree, RemovedWhenDelivered, AttemptsFailed,
         DeadAfterCap
<1>3. SentExact'
  BY DEF SentExact, Uncounted, OutboxTypeOK
<1>4. QED BY <1>1, <1>2, <1>3

(* Either outcome of a send: one agent fewer is left, and that agent got    *)
(* the row once more or, if the send erred, perhaps not.                    *)
Sends(a) ==
  /\ dpc = "sending" /\ a \in todo /\ todo' = todo \ {a}
  /\ \/ anyErr' = TRUE /\ UNCHANGED sent
     \/ anyErr' \in {anyErr, TRUE} /\ sent' = [sent EXCEPT ![Current][a] = @ + 1]
  /\ UNCHANGED <<storeVars, process, dpc, batch, listed, failures, lost>>

LEMMA SendsInv ==
  ASSUME OutboxInv, NEW a \in Agents, Sends(a)
  PROVE  OutboxInv'
<1> USE DEF OutboxInv, storeVars
<1>1. Current \in batch /\ Current \in Rows /\ outbox[Current].status = "pending"
  BY CurrentFetched DEF Sends, PassExact, BatchPending
<1>2. Current' = Current
  BY DEF Current, Sends
<1>3. /\ sent' \in [Rows -> [Agents -> Nat]]
      /\ \A id \in Rows, b \in Agents :
           \/ sent'[id][b] = sent[id][b]
           \/ id = Current /\ b = a /\ sent'[id][b] = sent[id][b] + 1
      /\ ~anyErr' => ~anyErr /\ sent'[Current][a] = sent[Current][a] + 1
  <2>1. CASE anyErr' = TRUE /\ UNCHANGED sent
    <3>1. sent' \in [Rows -> [Agents -> Nat]] /\ sent' = sent
      BY <2>1 DEF OutboxTypeOK
    <3>2. anyErr'
      BY <2>1
    <3>3. QED BY <3>1, <3>2
  <2>2. CASE anyErr' \in {anyErr, TRUE} /\ sent' = [sent EXCEPT ![Current][a] = @ + 1]
    <3>1. sent \in [Rows -> [Agents -> Nat]] /\ anyErr \in BOOLEAN
      BY DEF OutboxTypeOK
    <3>2. [sent[Current] EXCEPT ![a] = @ + 1] \in [Agents -> Nat]
      BY <1>1, <3>1
    <3>3. sent' = [sent EXCEPT ![Current] = [sent[Current] EXCEPT ![a] = @ + 1]]
      BY <2>2
    <3>4. /\ sent' \in [Rows -> [Agents -> Nat]]
          /\ sent'[Current][a] = sent[Current][a] + 1
          /\ \A id \in Rows, b \in Agents : id # Current \/ b # a => sent'[id][b] = sent[id][b]
      BY <1>1, <3>1, <3>2, <3>3
    <3>5. ~anyErr' => ~anyErr
      BY <2>2, <3>1
    <3>6. QED BY <3>4, <3>5
  <2>3. QED BY <2>1, <2>2 DEF Sends
<1>4. \A id \in Rows, b \in Agents : sent[id][b] \in Nat /\ sent'[id][b] \in Nat
  BY <1>3 DEF OutboxTypeOK
<1>5. OutboxTypeOK'
  <2>1. todo' \subseteq Agents /\ anyErr' \in BOOLEAN
    BY DEF Sends, OutboxTypeOK
  <2>2. QED BY <1>3, <2>1 DEF Sends, OutboxTypeOK
<1>6. PassExact'
  BY <1>1, <1>2, <1>3, <1>4 DEF PassExact, Sends, OutboxTypeOK
<1>7. RemovedWhenDelivered'
  BY <1>1, <1>3, <1>4 DEF RemovedWhenDelivered, Sends, OutboxTypeOK
<1>8. SentExact'
  <2> SUFFICES ASSUME NEW id \in Rows, NEW b \in Agents
               PROVE  sent'[id][b] <= outbox[id].attempts + lost[id] + Uncounted(id, b)'
    BY DEF SentExact, Sends
  <2>1. sent[id][b] <= outbox[id].attempts + lost[id] + Uncounted(id, b)
    BY DEF SentExact
  <2>2. Uncounted(id, b) <= Uncounted(id, b)'
    BY <1>2 DEF Uncounted, Sends
  <2>3. id = Current /\ b = a => Uncounted(id, b) = 0 /\ Uncounted(id, b)' = 1
    BY <1>1, <1>2 DEF Uncounted, Sends
  <2>4. /\ Uncounted(id, b) \in Nat /\ Uncounted(id, b)' \in Nat
        /\ outbox[id].attempts \in Nat /\ lost[id] \in Nat /\ sent[id][b] \in Nat
    BY DEF Uncounted, OutboxTypeOK
  <2>5. QED BY <1>3, <1>4, <2>1, <2>2, <2>3, <2>4
<1>9. (BatchPending /\ AboutEvents /\ RestFree /\ AttemptsFailed /\ DeadAfterCap)'
  BY DEF BatchPending, AboutEvents, RestFree, AttemptsFailed, DeadAfterCap, Sends
<1>10. QED BY <1>5, <1>6, <1>7, <1>8, <1>9

(* A settled row leaves the batch, and no other row is touched.             *)
LEMMA SettlesMoves ==
  ASSUME OutboxInv, Settles
  PROVE  /\ Current \in Rows /\ Current \in batch /\ outbox[Current].status = "pending"
         /\ Current \notin batch' /\ batch' \subseteq batch
         /\ dpc' # "sending" /\ dpc' \in {"idle", "rows", "sending"} /\ anyErr' = FALSE
         /\ ~anyErr => \A a \in listed[Current] : sent[Current][a] > 0
         /\ \A id \in Rows, a \in Agents : id # Current =>
              Uncounted(id, a) = IF outbox[id].status \in {"sent", "dead"} THEN 1 ELSE 0
         /\ \A a \in Agents :
              sent[Current][a] <= outbox[Current].attempts + lost[Current] + 1
<1> USE DEF OutboxInv, Settles
<1>1. Current \in batch /\ Current \in Rows /\ outbox[Current].status = "pending"
  BY CurrentFetched DEF PassExact, BatchPending
<1>2. ~anyErr => \A a \in listed[Current] : sent[Current][a] > 0
  BY DEF PassExact
<1>3. \A a \in Agents : sent[Current][a] <= outbox[Current].attempts + lost[Current] + 1
  BY <1>1 DEF SentExact, Uncounted
<1>4. \A id \in Rows, a \in Agents : id # Current =>
        Uncounted(id, a) = IF outbox[id].status \in {"sent", "dead"} THEN 1 ELSE 0
  BY DEF Uncounted
<1>5. QED BY <1>1, <1>2, <1>3, <1>4

(* What one row is changed to: the others keep what they are.               *)
LEMMA RowChanges ==
  ASSUME OutboxInv, NEW row \in Rows, NEW s \in {"pending", "sent", "dead"},
         NEW n \in 0 .. AttemptCap - 1, NEW r \in BOOLEAN,
         outbox[row].status # "free",
         outbox' = [outbox EXCEPT ![row] = [@ EXCEPT !.status = s, !.attempts = n, !.resting = r]],
         last' = last
  PROVE  /\ outbox' \in [Rows -> [status : {"free", "pending", "sent", "dead"},
                                  attempts : 0 .. AttemptCap - 1, resting : BOOLEAN,
                                  event : Events \cup {NoEvent}]]
         /\ \A id \in Rows \ {row} : outbox'[id] = outbox[id]
         /\ outbox'[row].status = s /\ outbox'[row].attempts = n
         /\ outbox'[row].event = outbox[row].event
         /\ AboutEvents' /\ RestFree'
<1>1. outbox[row] \in [status : {"free", "pending", "sent", "dead"},
                       attempts : 0 .. AttemptCap - 1, resting : BOOLEAN,
                       event : Events \cup {NoEvent}]
  BY DEF OutboxInv, OutboxTypeOK
<1> DEFINE new == [outbox[row] EXCEPT !.status = s, !.attempts = n, !.resting = r]
<1>2. /\ new \in [status : {"free", "pending", "sent", "dead"},
                  attempts : 0 .. AttemptCap - 1, resting : BOOLEAN,
                  event : Events \cup {NoEvent}]
      /\ new.status = s /\ new.attempts = n /\ new.event = outbox[row].event
  BY <1>1
<1>3. outbox' = [outbox EXCEPT ![row] = new]
  OBVIOUS
<1> HIDE DEF new
<1>4. /\ outbox' \in [Rows -> [status : {"free", "pending", "sent", "dead"},
                               attempts : 0 .. AttemptCap - 1, resting : BOOLEAN,
                               event : Events \cup {NoEvent}]]
      /\ \A id \in Rows \ {row} : outbox'[id] = outbox[id]
      /\ outbox'[row] = new
  BY <1>2, <1>3 DEF OutboxInv, OutboxTypeOK
<1>5. AboutEvents'
  BY <1>2, <1>4 DEF OutboxInv, AboutEvents
<1>6. RestFree'
  <2>1. ~(row > last)
    BY DEF OutboxInv, RestFree, Free
  <2>2. QED BY <2>1, <1>4 DEF OutboxInv, RestFree, Free
<1>7. QED BY <1>2, <1>4, <1>5, <1>6

(* A history count goes up by one at one row; a list is closed.             *)
LEMMA CountsUp ==
  ASSUME OutboxInv, NEW row \in Rows
  PROVE  /\ [failures EXCEPT ![row] = @ + 1] \in [Rows -> Nat]
         /\ [lost EXCEPT ![row] = @ + 1] \in [Rows -> Nat]
         /\ [listed EXCEPT ![row] = {}] \in [Rows -> SUBSET Agents]
<1>1. failures \in [Rows -> Nat] /\ lost \in [Rows -> Nat] /\ listed \in [Rows -> SUBSET Agents]
  BY DEF OutboxInv, OutboxTypeOK
<1>2. [listed EXCEPT ![row] = {}] \in [Rows -> SUBSET Agents]
  BY <1>1
<1>3. QED BY <1>1, <1>2

LEMMA MarkSentInv == OutboxInv /\ MarkSent => OutboxInv'
<1> SUFFICES ASSUME OutboxInv, MarkSent PROVE OutboxInv'
  OBVIOUS
<1> DEFINE row == Current
<1>1. /\ row \in Rows /\ row \in batch /\ outbox[row].status = "pending"
      /\ row \notin batch' /\ batch' \subseteq batch
      /\ dpc' # "sending" /\ dpc' \in {"idle", "rows", "sending"} /\ anyErr' = FALSE
      /\ \A a \in listed[row] : sent[row][a] > 0
      /\ \A id \in Rows, a \in Agents : id # row =>
           Uncounted(id, a) = IF outbox[id].status \in {"sent", "dead"} THEN 1 ELSE 0
      /\ \A a \in Agents : sent[row][a] <= outbox[row].attempts + lost[row] + 1
  BY SettlesMoves DEF MarkSent
<1>2. /\ outbox' = [outbox EXCEPT ![row].status = "sent"]
      /\ UNCHANGED <<last, process, todo, sent, listed, failures, lost>>
  BY DEF MarkSent, historyVars
<1> USE DEF OutboxInv
<1> HIDE DEF row
<1>3. /\ outbox' \in [Rows -> [status : {"free", "pending", "sent", "dead"},
                               attempts : 0 .. AttemptCap - 1, resting : BOOLEAN,
                               event : Events \cup {NoEvent}]]
      /\ \A id \in Rows \ {row} : outbox'[id] = outbox[id]
      /\ outbox'[row].status = "sent" /\ outbox'[row].attempts = outbox[row].attempts
      /\ outbox'[row].event = outbox[row].event
      /\ AboutEvents' /\ RestFree'
  <2>1. outbox' = [outbox EXCEPT ![row] = [@ EXCEPT !.status = "sent",
                     !.attempts = outbox[row].attempts, !.resting = outbox[row].resting]]
    BY <1>1, <1>2 DEF OutboxTypeOK
  <2>2. outbox[row].attempts \in 0 .. AttemptCap - 1 /\ outbox[row].resting \in BOOLEAN
    BY <1>1 DEF OutboxTypeOK
  <2>3. QED BY <1>1, <1>2, <2>1, <2>2, RowChanges
<1>4. OutboxTypeOK'
  BY <1>1, <1>2, <1>3 DEF OutboxTypeOK
<1>5. (BatchPending /\ PassExact)'
  BY <1>1, <1>3 DEF BatchPending, PassExact, OutboxTypeOK
<1>6. (AttemptsFailed /\ DeadAfterCap)'
  BY <1>1, <1>2, <1>3 DEF AttemptsFailed, DeadAfterCap
<1>7. RemovedWhenDelivered'
  BY <1>1, <1>2, <1>3 DEF RemovedWhenDelivered
<1>8. SentExact'
  BY <1>1, <1>2, <1>3 DEF SentExact, Uncounted
<1>9. QED BY <1>3, <1>4, <1>5, <1>6, <1>7, <1>8

(* Rescheduled or dead: the pass counts as failed, and its list is closed.  *)
LEMMA RescheduleInv == OutboxInv /\ Reschedule => OutboxInv'
<1> SUFFICES ASSUME OutboxInv, Reschedule PROVE OutboxInv'
  OBVIOUS
<1> DEFINE row == Current
<1>1. /\ row \in Rows /\ row \in batch /\ outbox[row].status = "pending"
      /\ row \notin batch' /\ batch' \subseteq batch
      /\ dpc' # "sending" /\ dpc' \in {"idle", "rows", "sending"} /\ anyErr' = FALSE
      /\ \A id \in Rows, a \in Agents : id # row =>
           Uncounted(id, a) = IF outbox[id].status \in {"sent", "dead"} THEN 1 ELSE 0
      /\ \A a \in Agents : sent[row][a] <= outbox[row].attempts + lost[row] + 1
  BY SettlesMoves DEF Reschedule
<1>2. /\ outbox' = [outbox EXCEPT ![row].attempts = @ + 1, ![row].resting = TRUE]
      /\ failures' = [failures EXCEPT ![row] = @ + 1]
      /\ listed' = [listed EXCEPT ![row] = {}]
      /\ outbox[row].attempts + 1 < AttemptCap
      /\ UNCHANGED <<last, process, todo, sent, lost>>
  BY DEF Reschedule, Row
<1> USE DEF OutboxInv
<1> HIDE DEF row
<1>3. /\ outbox' \in [Rows -> [status : {"free", "pending", "sent", "dead"},
                               attempts : 0 .. AttemptCap - 1, resting : BOOLEAN,
                               event : Events \cup {NoEvent}]]
      /\ \A id \in Rows \ {row} : outbox'[id] = outbox[id]
      /\ outbox'[row].status = "pending" /\ outbox'[row].attempts = outbox[row].attempts + 1
      /\ outbox'[row].event = outbox[row].event
      /\ AboutEvents' /\ RestFree'
  <2>1. outbox' = [outbox EXCEPT ![row] = [@ EXCEPT !.status = "pending",
                     !.attempts = outbox[row].attempts + 1, !.resting = TRUE]]
    BY <1>1, <1>2 DEF OutboxTypeOK
  <2>2. outbox[row].attempts + 1 \in 0 .. AttemptCap - 1
    BY <1>1, <1>2, OutboxAssumption DEF OutboxTypeOK
  <2>3. QED BY <1>1, <1>2, <2>1, <2>2, RowChanges
<1>4. OutboxTypeOK'
  <2>1. failures' \in [Rows -> Nat] /\ listed' \in [Rows -> SUBSET Agents]
    BY <1>1, <1>2, CountsUp
  <2>2. QED BY <1>1, <1>2, <1>3, <2>1 DEF OutboxTypeOK
<1>5. (BatchPending /\ PassExact)'
  BY <1>1, <1>3 DEF BatchPending, PassExact, OutboxTypeOK
<1>6. (AttemptsFailed /\ DeadAfterCap)'
  BY <1>1, <1>2, <1>3 DEF AttemptsFailed, DeadAfterCap, OutboxTypeOK
<1>7. RemovedWhenDelivered'
  BY <1>1, <1>2, <1>3 DEF RemovedWhenDelivered, OutboxTypeOK
<1>8. SentExact'
  BY <1>1, <1>2, <1>3 DEF SentExact, Uncounted, OutboxTypeOK
<1>9. QED BY <1>3, <1>4, <1>5, <1>6, <1>7, <1>8

LEMMA MarkDeadInv == OutboxInv /\ MarkDead => OutboxInv'
<1> SUFFICES ASSUME OutboxInv, MarkDead PROVE OutboxInv'
  OBVIOUS
<1> DEFINE row == Current
<1>1. /\ row \in Rows /\ row \in batch /\ outbox[row].status = "pending"
      /\ row \notin batch' /\ batch' \subseteq batch
      /\ dpc' # "sending" /\ dpc' \in {"idle", "rows", "sending"} /\ anyErr' = FALSE
      /\ \A id \in Rows, a \in Agents : id # row =>
           Uncounted(id, a) = IF outbox[id].status \in {"sent", "dead"} THEN 1 ELSE 0
      /\ \A a \in Agents : sent[row][a] <= outbox[row].attempts + lost[row] + 1
  BY SettlesMoves DEF MarkDead
<1>2. /\ outbox' = [outbox EXCEPT ![row].status = "dead"]
      /\ failures' = [failures EXCEPT ![row] = @ + 1]
      /\ listed' = [listed EXCEPT ![row] = {}]
      /\ outbox[row].attempts + 1 >= AttemptCap
      /\ UNCHANGED <<last, process, todo, sent, lost>>
  BY DEF MarkDead, Row
<1> USE DEF OutboxInv
<1> HIDE DEF row
<1>3. /\ outbox' \in [Rows -> [status : {"free", "pending", "sent", "dead"},
                               attempts : 0 .. AttemptCap - 1, resting : BOOLEAN,
                               event : Events \cup {NoEvent}]]
      /\ \A id \in Rows \ {row} : outbox'[id] = outbox[id]
      /\ outbox'[row].status = "dead" /\ outbox'[row].attempts = outbox[row].attempts
      /\ outbox'[row].event = outbox[row].event
      /\ AboutEvents' /\ RestFree'
  <2>1. outbox' = [outbox EXCEPT ![row] = [@ EXCEPT !.status = "dead",
                     !.attempts = outbox[row].attempts, !.resting = outbox[row].resting]]
    BY <1>1, <1>2 DEF OutboxTypeOK
  <2>2. outbox[row].attempts \in 0 .. AttemptCap - 1 /\ outbox[row].resting \in BOOLEAN
    BY <1>1 DEF OutboxTypeOK
  <2>3. QED BY <1>1, <1>2, <2>1, <2>2, RowChanges
<1>4. OutboxTypeOK'
  <2>1. failures' \in [Rows -> Nat] /\ listed' \in [Rows -> SUBSET Agents]
    BY <1>1, <1>2, CountsUp
  <2>2. QED BY <1>1, <1>2, <1>3, <2>1 DEF OutboxTypeOK
<1>5. (BatchPending /\ PassExact)'
  BY <1>1, <1>3 DEF BatchPending, PassExact, OutboxTypeOK
<1>6. (AttemptsFailed /\ DeadAfterCap)'
  BY <1>1, <1>2, <1>3, OutboxAssumption DEF AttemptsFailed, DeadAfterCap, OutboxTypeOK
<1>7. RemovedWhenDelivered'
  BY <1>1, <1>2, <1>3 DEF RemovedWhenDelivered, OutboxTypeOK
<1>8. SentExact'
  BY <1>1, <1>2, <1>3 DEF SentExact, Uncounted, OutboxTypeOK
<1>9. QED BY <1>3, <1>4, <1>5, <1>6, <1>7, <1>8

(* The outcome is not stored: the pass is lost, and with it one delivery.   *)
LEMMA SettleFailsInv == OutboxInv /\ SettleFails => OutboxInv'
<1> SUFFICES ASSUME OutboxInv, SettleFails PROVE OutboxInv'
  OBVIOUS
<1> DEFINE row == Current
<1>1. /\ row \in Rows /\ row \in batch /\ outbox[row].status = "pending"
      /\ row \notin batch' /\ batch' \subseteq batch
      /\ dpc' # "sending" /\ dpc' \in {"idle", "rows", "sending"} /\ anyErr' = FALSE
      /\ \A id \in Rows, a \in Agents : id # row =>
           Uncounted(id, a) = IF outbox[id].status \in {"sent", "dead"} THEN 1 ELSE 0
      /\ \A a \in Agents : sent[row][a] <= outbox[row].attempts + lost[row] + 1
  BY SettlesMoves DEF SettleFails
<1>2. /\ lost' = [lost EXCEPT ![row] = @ + 1]
      /\ failures' \in {failures, [failures EXCEPT ![row] = @ + 1]}
      /\ listed' = [listed EXCEPT ![row] = {}]
      /\ UNCHANGED <<outbox, last, process, todo, sent>>
  BY DEF SettleFails, storeVars
<1> USE DEF OutboxInv
<1> HIDE DEF row
<1>3. /\ OutboxTypeOK'
      /\ \A id \in Rows : failures'[id] >= failures[id]
      /\ \A id \in Rows \ {row} : lost'[id] = lost[id]
      /\ lost'[row] = lost[row] + 1
  <2>0. failures \in [Rows -> Nat] /\ lost \in [Rows -> Nat]
    BY DEF OutboxTypeOK
  <2>1. /\ failures' \in [Rows -> Nat] /\ listed' \in [Rows -> SUBSET Agents]
        /\ lost' \in [Rows -> Nat]
    BY <1>1, <1>2, <2>0, CountsUp
  <2>2. \A id \in Rows : failures'[id] >= failures[id]
    BY <1>1, <1>2, <2>0
  <2>3. lost'[row] = lost[row] + 1 /\ \A id \in Rows \ {row} : lost'[id] = lost[id]
    BY <1>1, <1>2, <2>0
  <2>4. OutboxTypeOK'
    BY <1>1, <1>2, <2>1 DEF OutboxTypeOK
  <2>5. QED BY <2>2, <2>3, <2>4
<1>4. (BatchPending /\ AboutEvents /\ PassExact /\ RestFree)'
  BY <1>1, <1>2 DEF BatchPending, AboutEvents, PassExact, RestFree
<1>5. (AttemptsFailed /\ DeadAfterCap)'
  BY <1>2, <1>3, OutboxAssumption DEF AttemptsFailed, DeadAfterCap, OutboxTypeOK
<1>6. RemovedWhenDelivered'
  BY <1>1, <1>2 DEF RemovedWhenDelivered, OutboxTypeOK
<1>7. SentExact'
  BY <1>1, <1>2, <1>3 DEF SentExact, Uncounted, OutboxTypeOK
<1>8. QED BY <1>3, <1>4, <1>5, <1>6, <1>7

-----------------------------------------------------------------------------
(* Time and the process. *)

LEMMA RestOverInv ==
  ASSUME OutboxInv, NEW id \in Rows, RestOver(id)
  PROVE  OutboxInv'
<1> USE DEF OutboxInv
<1>1. UNCHANGED <<last, process, dpc, batch, todo, anyErr, sent, listed, failures, lost>>
  BY DEF RestOver, dispatchVars, historyVars
<1>2. /\ outbox' \in [Rows -> [status : {"free", "pending", "sent", "dead"},
                               attempts : 0 .. AttemptCap - 1, resting : BOOLEAN,
                               event : Events \cup {NoEvent}]]
      /\ \A r \in Rows : /\ outbox'[r].status = outbox[r].status
                         /\ outbox'[r].attempts = outbox[r].attempts
                         /\ outbox'[r].event = outbox[r].event
      /\ \A r \in Rows : outbox'[r] = outbox[r] \/ outbox[r].resting
  BY DEF RestOver, OutboxTypeOK
<1>3. OutboxTypeOK'
  BY <1>1, <1>2 DEF OutboxTypeOK
<1>4. Current' = Current
  BY <1>1 DEF Current
<1>5. (BatchPending /\ AboutEvents /\ PassExact)'
  BY <1>1, <1>2, <1>4 DEF BatchPending, AboutEvents, PassExact, OutboxTypeOK
<1>6. (RestFree /\ AttemptsFailed /\ DeadAfterCap /\ RemovedWhenDelivered)'
  BY <1>1, <1>2 DEF RestFree, AttemptsFailed, DeadAfterCap, RemovedWhenDelivered, Free
<1>7. SentExact'
  BY <1>1, <1>2, <1>4 DEF SentExact, Uncounted
<1>8. QED BY <1>3, <1>5, <1>6, <1>7

(* Stop and Restart change nothing but the process. *)
LEMMA ProcessInv ==
  ASSUME OutboxInv, process' \in {"up", "stopping", "down"},
         UNCHANGED <<storeVars, dispatchVars, historyVars>>
  PROVE  OutboxInv'
<1> USE DEF OutboxInv, storeVars, dispatchVars, historyVars
<1>1. Current' = Current
  BY DEF Current
<1>2. (OutboxTypeOK /\ BatchPending /\ AboutEvents /\ PassExact)'
  BY <1>1 DEF OutboxTypeOK, BatchPending, AboutEvents, PassExact
<1>3. (RestFree /\ AttemptsFailed /\ DeadAfterCap /\ RemovedWhenDelivered)'
  BY DEF RestFree, AttemptsFailed, DeadAfterCap, RemovedWhenDelivered
<1>4. SentExact'
  BY <1>1 DEF SentExact, Uncounted
<1>5. QED BY <1>2, <1>3, <1>4

(* The process takes a pass with it: lost, if a row was being sent. *)
LEMMA ProcessEndsInv == OutboxInv /\ ProcessEnds => OutboxInv'
<1> SUFFICES ASSUME OutboxInv, ProcessEnds PROVE OutboxInv'
  OBVIOUS
<1> USE DEF OutboxInv
<1>1. /\ process' = "down" /\ dpc' = "idle" /\ batch' = {} /\ todo' = {} /\ anyErr' = FALSE
      /\ UNCHANGED <<outbox, last, sent, failures>>
  BY DEF ProcessEnds, storeVars
<1>2. CASE dpc # "sending"
  <2>1. UNCHANGED <<lost, listed>>
    BY <1>2 DEF ProcessEnds, MidRow
  <2>2. (OutboxTypeOK /\ BatchPending /\ AboutEvents /\ PassExact)'
    BY <1>1, <2>1 DEF OutboxTypeOK, BatchPending, AboutEvents, PassExact
  <2>3. (RestFree /\ AttemptsFailed /\ DeadAfterCap /\ RemovedWhenDelivered)'
    BY <1>1, <2>1 DEF RestFree, AttemptsFailed, DeadAfterCap, RemovedWhenDelivered
  <2>4. SentExact'
    BY <1>1, <1>2, <2>1 DEF SentExact, Uncounted
  <2>5. QED BY <2>2, <2>3, <2>4
<1>3. CASE dpc = "sending"
  <2> DEFINE row == Current
  <2>1. /\ row \in Rows
        /\ lost' = [lost EXCEPT ![row] = @ + 1] /\ listed' = [listed EXCEPT ![row] = {}]
    BY <1>3, CurrentFetched DEF PassExact, ProcessEnds, MidRow
  <2>2. \A id \in Rows, a \in Agents :
          Uncounted(id, a) <= Uncounted(id, a)' + (IF id = row THEN 1 ELSE 0)
    BY <1>1 DEF Uncounted
  <2> HIDE DEF row
  <2>3. /\ lost' \in [Rows -> Nat] /\ listed' \in [Rows -> SUBSET Agents]
        /\ \A id \in Rows \ {row} : lost'[id] = lost[id] /\ listed'[id] = listed[id]
        /\ lost'[row] = lost[row] + 1 /\ listed'[row] = {}
    BY <2>1, CountsUp DEF OutboxTypeOK
  <2>4. (OutboxTypeOK /\ BatchPending /\ AboutEvents /\ PassExact)'
    BY <1>1, <2>3 DEF OutboxTypeOK, BatchPending, AboutEvents, PassExact
  <2>5. (RestFree /\ AttemptsFailed /\ DeadAfterCap /\ RemovedWhenDelivered)'
    BY <1>1, <2>3 DEF RestFree, AttemptsFailed, DeadAfterCap, RemovedWhenDelivered
  <2>6. SentExact'
    <3>1. \A id \in Rows, a \in Agents : Uncounted(id, a)' \in Nat /\ Uncounted(id, a) \in Nat
      BY DEF Uncounted
    <3>2. ASSUME NEW id \in Rows, NEW a \in Agents
          PROVE  sent[id][a] <= outbox[id].attempts + lost'[id] + Uncounted(id, a)'
      <4>1. sent[id][a] <= outbox[id].attempts + lost[id] + Uncounted(id, a)
        BY DEF SentExact
      <4>2. sent[id][a] \in Nat /\ outbox[id].attempts \in Nat /\ lost[id] \in Nat
        BY DEF OutboxTypeOK
      <4>3. CASE id = row
        BY <2>2, <2>3, <3>1, <4>1, <4>2, <4>3
      <4>4. CASE id # row
        BY <2>2, <2>3, <3>1, <4>1, <4>2, <4>4
      <4>5. QED BY <4>3, <4>4
    <3>3. QED BY <1>1, <3>2 DEF SentExact
  <2>7. QED BY <2>4, <2>5, <2>6
<1>4. QED BY <1>2, <1>3

-----------------------------------------------------------------------------
(* Every step of the dispatcher, of time and of the process keeps the       *)
(* invariant.                                                               *)
LEMMA DispatchInv == OutboxInv /\ DispatchStep => OutboxInv'
<1> SUFFICES ASSUME OutboxInv, DispatchStep PROVE OutboxInv'
  OBVIOUS
<1>1. ASSUME NEW a \in Agents, SendOK(a) \/ SendFails(a) PROVE OutboxInv'
  <2>1. OutboxInv /\ anyErr \in BOOLEAN
    BY DEF OutboxInv, OutboxTypeOK
  <2>2. Sends(a)
    BY <1>1, <2>1 DEF SendOK, SendFails, Sends
  <2>3. QED BY <2>2, SendsInv
<1>2. QED
  BY <1>1, FetchInv, BatchEndsInv, ListAgentsInv, ListFailsInv, MarkSentInv,
     RescheduleInv, MarkDeadInv, SettleFailsInv DEF DispatchStep

LEMMA OutboxStepInv == OutboxInv /\ OutboxStep => OutboxInv'
<1>1. OutboxInv /\ (Stop \/ Restart) => OutboxInv'
  BY ProcessInv DEF Stop, Restart
<1>2. QED
  BY <1>1, DispatchInv, RestOverInv, ProcessEndsInv DEF OutboxStep

(* Producers insert rows behind the last one and touch nothing else. *)
LEMMA InsertsInv ==
  ASSUME OutboxInv,
         last' \in last .. MaxRows, outbox' = [id \in Rows |-> outbox'[id]],
         \A id \in last + 1 .. last' : \E e \in Events : outbox'[id] = Pending(e),
         \A id \in Rows : id \notin last + 1 .. last' => outbox'[id] = outbox[id],
         UNCHANGED <<process, dispatchVars, historyVars>>
  PROVE  OutboxInv'
<1> USE DEF OutboxInv, dispatchVars, historyVars
<1>1. \A id \in Rows :
        \/ outbox'[id] = outbox[id]
        \/ outbox[id] = Free /\ id > last /\ id <= last' /\ \E e \in Events : outbox'[id] = Pending(e)
  BY DEF RestFree, Rows, OutboxTypeOK
<1>2. \A e \in Events : Pending(e) \in
        [status : {"free", "pending", "sent", "dead"}, attempts : 0 .. AttemptCap - 1,
         resting : BOOLEAN, event : Events \cup {NoEvent}]
  BY OutboxAssumption DEF Pending
<1>3. OutboxTypeOK'
  <2>1. \A id \in Rows : outbox'[id] \in
          [status : {"free", "pending", "sent", "dead"}, attempts : 0 .. AttemptCap - 1,
           resting : BOOLEAN, event : Events \cup {NoEvent}]
    BY <1>1, <1>2 DEF OutboxTypeOK
  <2>2. last' \in 0 .. MaxRows
    BY OutboxAssumption DEF OutboxTypeOK
  <2>3. QED BY <2>1, <2>2 DEF OutboxTypeOK
<1>4. Current' = Current
  BY DEF Current
<1>5. \A id \in Rows :
        /\ outbox'[id].status = outbox[id].status \/ outbox'[id].status = "pending"
        /\ outbox'[id].attempts = outbox[id].attempts
        /\ outbox[id].status \in {"sent", "dead"} => outbox'[id].status = outbox[id].status
  BY <1>1 DEF Free, Pending
<1>6. BatchPending' /\ AboutEvents'
  BY <1>1, <1>5 DEF BatchPending, AboutEvents, OutboxTypeOK, Pending
<1>7. RestFree'
  <2>1. last \in Nat /\ last' \in Nat /\ last <= last' /\ Rows \subseteq Nat
    BY OutboxAssumption DEF OutboxTypeOK, Rows
  <2>2. QED BY <1>1, <2>1 DEF RestFree
<1>8. (PassExact /\ AttemptsFailed /\ DeadAfterCap /\ RemovedWhenDelivered)'
  BY <1>4, <1>5 DEF PassExact, AttemptsFailed, DeadAfterCap, RemovedWhenDelivered
<1>9. SentExact'
  BY <1>4, <1>5 DEF SentExact, Uncounted
<1>10. QED BY <1>3, <1>6, <1>7, <1>8, <1>9

(* The ceiling, from what is exactly counted. *)
LEMMA CeilingFollows == OutboxInv => CeilingKept
<1> SUFFICES ASSUME OutboxInv, NEW id \in Rows, NEW a \in Agents
             PROVE  sent[id][a] <= outbox[id].attempts + lost[id] + 1
  BY DEF OutboxInv, CeilingKept, RepeatsBounded
<1>1. sent[id][a] <= outbox[id].attempts + lost[id] + Uncounted(id, a)
  BY DEF OutboxInv, SentExact
<1>2. /\ Uncounted(id, a) \in {0, 1} /\ sent[id][a] \in Nat
      /\ outbox[id].attempts \in Nat /\ lost[id] \in Nat
  BY DEF OutboxInv, OutboxTypeOK, Uncounted
<1>3. QED BY <1>1, <1>2

(* No step of the outbox changes what a row is about. *)
LEMMA EventsKept ==
  ASSUME OutboxInv, OutboxStep
  PROVE  \A id \in Rows : outbox'[id].event = outbox[id].event
<1>1. outbox \in [Rows -> [status : {"free", "pending", "sent", "dead"},
                           attempts : 0 .. AttemptCap - 1, resting : BOOLEAN,
                           event : Events \cup {NoEvent}]]
  BY DEF OutboxInv, OutboxTypeOK
<1>2. CASE UNCHANGED outbox
  BY <1>2
<1>3. CASE MarkSent \/ Reschedule \/ MarkDead
  BY <1>1, <1>3 DEF MarkSent, Reschedule, MarkDead
<1>4. CASE \E id \in Rows : RestOver(id)
  BY <1>1, <1>4 DEF RestOver
<1>5. QED
  BY <1>2, <1>3, <1>4 DEF OutboxStep, DispatchStep, Fetch, BatchEnds, ListAgents, ListFails,
     SendOK, SendFails, SettleFails, Stop, ProcessEnds, Restart, storeVars
=============================================================================
