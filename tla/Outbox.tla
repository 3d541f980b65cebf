-------------------------------- MODULE Outbox --------------------------------
(***************************************************************************)
(* The notification outbox and its dispatcher                              *)
(* (src/internal/notification/persistence/outbox_repository.go,            *)
(* src/internal/notification/app/dispatcher.go).  Producers extend this    *)
(* module: they insert rows in their own transactions.                     *)
(*                                                                         *)
(* Ids are given in the order of created_at.  A backoff is a row that      *)
(* rests until some later step; the ten attempts, the batch of fifty and   *)
(* the agents are constants.                                               *)
(***************************************************************************)
EXTENDS Naturals, Sequences, FiniteSets, SequencesExt

CONSTANTS
  MaxRows,      \* bound on the rows that are ever inserted
  Events,       \* what a row can be about
  Agents,
  Audience,     \* Audience[e]: agents of e's user that list e's event type
  AttemptCap,
  ClaimLimit,
  MaxLost,      \* bound on the passes whose outcome is not stored
  NoEvent

ASSUME OutboxAssumption ==
  /\ MaxRows \in Nat /\ MaxLost \in Nat
  /\ AttemptCap \in Nat \ {0} /\ ClaimLimit \in Nat \ {0}
  /\ Audience \in [Events -> SUBSET Agents]
  /\ NoEvent \notin Events

Rows == 1 .. MaxRows

VARIABLES
  outbox,      \* outbox[id]: the row, or what became of it
  last,        \* the highest id in use
  process,     \* "up", "stopping" (context done), "down"
  dpc,         \* where the dispatcher is
  batch,       \* rows fetched and not yet finished, worked through from the oldest
  todo,        \* agents the current row is still to be sent to
  anyErr,      \* some agent of the current row failed
  sent,        \* sent[id][a]: how often agent a got row id (history)
  listed,      \* listed[id]: agents of the pass that is on, or that removed id (history)
  failures,    \* failures[id]: passes over id that ended in an error (history)
  lost         \* lost[id]: passes over id whose outcome was not stored (history)

storeVars == <<outbox, last>>
historyVars == <<sent, listed, failures, lost>>
dispatchVars == <<dpc, batch, todo, anyErr>>
outboxVars == <<storeVars, process, dispatchVars, historyVars>>

Free == [status |-> "free", attempts |-> 0, resting |-> FALSE, event |-> NoEvent]
Pending(e) == [status |-> "pending", attempts |-> 0, resting |-> FALSE, event |-> e]

OutboxInit ==
  /\ outbox = [id \in Rows |-> Free]
  /\ last = 0
  /\ process = "up"
  /\ dpc = "idle" /\ batch = {} /\ todo = {} /\ anyErr = FALSE
  /\ sent = [id \in Rows |-> [a \in Agents |-> 0]]
  /\ listed = [id \in Rows |-> {}]
  /\ failures = [id \in Rows |-> 0]
  /\ lost = [id \in Rows |-> 0]

(* Insert, inside a producer's transaction. *)
HasRoom == last < MaxRows
Insert(e) ==
  /\ HasRoom
  /\ last' = last + 1
  /\ outbox' = [outbox EXCEPT ![last + 1] = Pending(e)]

RowsAbout(e) == {id \in Rows : outbox[id].event = e}

-----------------------------------------------------------------------------
(* The dispatcher: fetch, list the agents, send to each, settle the row. *)

Current == CHOOSE id \in batch : \A later \in batch : id <= later
Row == outbox[Current]
Due == {id \in Rows : outbox[id].status = "pending" /\ ~outbox[id].resting}

(* Faulty: rows with a next_attempt_at are never due again. *)
FetchNew ==
  /\ dpc = "idle" /\ process = "up"
  /\ \E id \in Due : outbox[id].attempts = 0 /\ batch' = {id}
  /\ dpc' = "rows"
  /\ UNCHANGED <<storeVars, process, todo, anyErr, historyVars>>

(* FetchDueBatch: due rows, oldest first, up to the limit. *)
Fetch ==
  /\ dpc = "idle" /\ process = "up" /\ Due # {}
  /\ batch' = {id \in Due : Cardinality({older \in Due : older < id}) < ClaimLimit}
  /\ dpc' = "rows"
  /\ UNCHANGED <<storeVars, process, todo, anyErr, historyVars>>

(* The loop over the rows ends, or stops at its check of the context. *)
BatchEnds ==
  /\ dpc = "rows"
  /\ batch = {} \/ process = "stopping"
  /\ dpc' = "idle" /\ batch' = {}
  /\ UNCHANGED <<storeVars, process, todo, anyErr, historyVars>>

(* ListEnabledForEventAndUser: those of the audience that the user has      *)
(* enabled by now; with none the row is dropped as sent.                    *)
ListAgents ==
  /\ dpc = "rows" /\ batch # {} /\ process = "up"
  /\ \E S \in SUBSET Audience[Row.event] :
       todo' = S /\ listed' = [listed EXCEPT ![Current] = S]
  /\ anyErr' = FALSE
  /\ dpc' = "sending"
  /\ UNCHANGED <<storeVars, process, batch, sent, failures, lost>>

(* ListEnabledForEventAndUser errs: the row is rescheduled. *)
ListFails ==
  /\ dpc = "rows" /\ batch # {} /\ process = "up"
  /\ todo' = {}
  /\ anyErr' = TRUE
  /\ dpc' = "sending"
  /\ UNCHANGED <<storeVars, process, batch, historyVars>>

(* Send ignores its context: shoutrrr takes none. *)
SendOK(a) ==
  /\ dpc = "sending" /\ a \in todo
  /\ todo' = todo \ {a}
  /\ sent' = [sent EXCEPT ![Current][a] = @ + 1]
  /\ UNCHANGED <<storeVars, process, dpc, batch, anyErr, listed, failures, lost>>

(* Faulty: an error of one agent counts only if no other agent got the row. *)
SendFailureHidden(a) ==
  /\ dpc = "sending" /\ a \in todo
  /\ todo' = todo \ {a}
  /\ anyErr' = (todo \ {a} # {})
  /\ UNCHANGED sent
  /\ UNCHANGED <<storeVars, process, dpc, batch, listed, failures, lost>>

(* An error; the message may have arrived all the same. *)
SendFails(a) ==
  /\ dpc = "sending" /\ a \in todo
  /\ todo' = todo \ {a}
  /\ anyErr' = TRUE
  /\ \/ UNCHANGED sent
     \/ sent' = [sent EXCEPT ![Current][a] = @ + 1]
  /\ UNCHANGED <<storeVars, process, dpc, batch, listed, failures, lost>>

Settles ==
  /\ dpc = "sending" /\ todo = {}
  /\ dpc' = "rows" /\ batch' = batch \ {Current} /\ anyErr' = FALSE

(* MarkSent deletes the row. *)
MarkSent ==
  /\ Settles /\ ~anyErr /\ process = "up"
  /\ outbox' = [outbox EXCEPT ![Current].status = "sent"]
  /\ UNCHANGED <<last, process, todo, historyVars>>

(* Faulty: the ceiling is never looked at. *)
RescheduleUncapped ==
  /\ Settles /\ anyErr /\ process = "up"
  /\ outbox' = [outbox EXCEPT ![Current].attempts = @ + 1, ![Current].resting = TRUE]
  /\ failures' = [failures EXCEPT ![Current] = @ + 1]
  /\ listed' = [listed EXCEPT ![Current] = {}]
  /\ UNCHANGED <<last, process, todo, sent, lost>>

(* Faulty: the attempt is not counted, as a stale row written back would do. *)
RescheduleUncounted ==
  /\ Settles /\ anyErr /\ process = "up"
  /\ Row.attempts + 1 < AttemptCap
  /\ outbox' = [outbox EXCEPT ![Current].resting = TRUE]
  /\ failures' = [failures EXCEPT ![Current] = @ + 1]
  /\ listed' = [listed EXCEPT ![Current] = {}]
  /\ UNCHANGED <<last, process, todo, sent, lost>>

(* reschedule below the ceiling: one attempt more, and a backoff. *)
Reschedule ==
  /\ Settles /\ anyErr /\ process = "up"
  /\ Row.attempts + 1 < AttemptCap
  /\ outbox' = [outbox EXCEPT ![Current].attempts = @ + 1, ![Current].resting = TRUE]
  /\ failures' = [failures EXCEPT ![Current] = @ + 1]
  /\ listed' = [listed EXCEPT ![Current] = {}]
  /\ UNCHANGED <<last, process, todo, sent, lost>>

(* reschedule at the ceiling: dead letter. *)
MarkDead ==
  /\ Settles /\ anyErr /\ process = "up"
  /\ Row.attempts + 1 >= AttemptCap
  /\ outbox' = [outbox EXCEPT ![Current].status = "dead"]
  /\ failures' = [failures EXCEPT ![Current] = @ + 1]
  /\ listed' = [listed EXCEPT ![Current] = {}]
  /\ UNCHANGED <<last, process, todo, sent, lost>>

(* MaxLost bounds the passes that a failing write, a stop or a crash spoils. *)
MayLose == SumFunction(lost) < MaxLost

(* The settling write fails, as it always does once the context is done. *)
SettleFails ==
  /\ Settles
  /\ MayLose \/ process = "stopping"
  /\ lost' = [lost EXCEPT ![Current] = @ + 1]
  /\ failures' = IF anyErr THEN [failures EXCEPT ![Current] = @ + 1] ELSE failures
  /\ listed' = [listed EXCEPT ![Current] = {}]
  /\ UNCHANGED <<storeVars, process, todo, sent>>

DispatchStep ==
  \/ Fetch \/ BatchEnds \/ ListAgents \/ ListFails
  \/ \E a \in Agents : SendOK(a) \/ SendFails(a)
  \/ MarkSent \/ Reschedule \/ MarkDead \/ SettleFails

-----------------------------------------------------------------------------
(* Surroundings: time and the process. *)

(* next_attempt_at passes. *)
RestOver(id) ==
  /\ outbox[id].resting
  /\ outbox' = [outbox EXCEPT ![id].resting = FALSE]
  /\ UNCHANGED <<last, process, dispatchVars, historyVars>>

MidRow == dpc = "sending"

MayInterrupt == MidRow => MayLose

Stop ==
  /\ process = "up" /\ MayInterrupt
  /\ process' = "stopping"
  /\ UNCHANGED <<storeVars, dispatchVars, historyVars>>

(* RunForever returned, or the process died. *)
ProcessEnds ==
  /\ process # "down" /\ MayInterrupt
  /\ process' = "down"
  /\ dpc' = "idle" /\ batch' = {} /\ todo' = {} /\ anyErr' = FALSE
  /\ lost' = IF MidRow THEN [lost EXCEPT ![Current] = @ + 1] ELSE lost
  /\ listed' = IF MidRow THEN [listed EXCEPT ![Current] = {}] ELSE listed
  /\ UNCHANGED <<storeVars, sent, failures>>

Restart ==
  /\ process = "down"
  /\ process' = "up"
  /\ UNCHANGED <<storeVars, dispatchVars, historyVars>>

OutboxStep ==
  \/ DispatchStep
  \/ \E id \in Rows : RestOver(id)
  \/ Stop \/ ProcessEnds \/ Restart

-----------------------------------------------------------------------------
OutboxTypeOK ==
  /\ outbox \in [Rows -> [status : {"free", "pending", "sent", "dead"},
                          attempts : 0 .. AttemptCap - 1, resting : BOOLEAN,
                          event : Events \cup {NoEvent}]]
  /\ last \in 0 .. MaxRows
  /\ process \in {"up", "stopping", "down"}
  /\ dpc \in {"idle", "rows", "sending"}
  /\ batch \subseteq Rows
  /\ todo \subseteq Agents /\ anyErr \in BOOLEAN
  /\ sent \in [Rows -> [Agents -> Nat]]
  /\ listed \in [Rows -> SUBSET Agents]
  /\ failures \in [Rows -> Nat] /\ lost \in [Rows -> Nat]

(* dispatchRow: a row is removed only after every agent that was subscribed *)
(* when it was last listed got it, whatever failed, stopped or died before. *)
RemovedWhenDelivered ==
  \A id \in Rows : outbox[id].status = "sent" =>
    \A a \in listed[id] : sent[id][a] > 0

(* reschedule: the ceiling holds both ways.  What one agent gets of one row *)
(* again is owed to a counted attempt or to an outcome that was not stored, *)
(* and a row is given up after AttemptCap failed passes, not before.        *)
RepeatsBounded ==
  \A id \in Rows, a \in Agents :
    sent[id][a] <= outbox[id].attempts + lost[id] + 1
DeadAfterCap ==
  \A id \in Rows : outbox[id].status = "dead" => failures[id] >= AttemptCap
CeilingKept == RepeatsBounded /\ DeadAfterCap
=============================================================================
