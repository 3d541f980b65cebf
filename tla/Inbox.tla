-------------------------------- MODULE Inbox ---------------------------------
(***************************************************************************)
(* Webhooks of Sonarr: the inbox, its drainer and what an event does to    *)
(* grab records and episode states                                         *)
(* (src/internal/catalog/app/webhook, src/internal/catalog/persistence/    *)
(* webhook_inbox_repository.go, src/internal/grab).                        *)
(*                                                                         *)
(* One series and season.  An event is about one grab and, when a file     *)
(* came or went, one episode; Sonarr sends it again when it got no answer. *)
(* Ids of rows and numbers of grabs are in the order of created_at; leases *)
(* and backoffs end at some later step.                                    *)
(***************************************************************************)
EXTENDS Naturals, FiniteSets, Functions

CONSTANTS
  MaxRows,      \* bound on the deliveries
  Grabs,        \* numbers of the grabs that are ever made
  TitleOf,      \* release title of each grab
  HashOf,       \* download id that Sonarr sends with events of the grab
  Answered,     \* grabs whose download id Sonarr also told in its answer
  Episodes,
  NoEpisode,
  Kinds,        \* kinds of event that Sonarr sends here
  AttemptCap,
  ClaimLimit,
  MaxLost       \* bound on the runs whose outcome is not stored

FileKinds == {"imported", "deleted"}
EventOf(k, g, e) == [kind |-> k, grab |-> g, episode |-> e]
Events == {EventOf(k, g, e) : k \in Kinds \ FileKinds, g \in Grabs, e \in {NoEpisode}}
          \cup {EventOf(k, g, e) : k \in Kinds \cap FileKinds, g \in Grabs, e \in Episodes}
NoEvent == EventOf("none", 0, NoEpisode)

ASSUME InboxAssumption ==
  /\ MaxRows \in Nat /\ MaxLost \in Nat
  /\ AttemptCap \in Nat \ {0} /\ ClaimLimit \in Nat \ {0}
  /\ Grabs \subseteq Nat \ {0} /\ IsFiniteSet(Grabs) /\ Answered \subseteq Grabs
  /\ DOMAIN TitleOf = Grabs /\ DOMAIN HashOf = Grabs
  /\ Kinds \subseteq {"grab", "imported", "failed", "deleted"}
  /\ NoEpisode \notin Episodes

Rows == 1 .. MaxRows

VARIABLES
  inbox,       \* inbox[id]: the row, or what became of it
  last,        \* the highest id in use
  process,     \* "up", "stopping" (context done), "down"
  dpc,         \* where the drainer is
  batch,       \* rows claimed and not yet finished, worked through from the oldest
  verdict,     \* outcome of the run that is to be stored
  succeeded,   \* keys of the events that succeeded in this pass
  record,      \* record[g]: status of the grab record, and what precedes it
  files,       \* episodes on disk, as Sonarr knows
  shown,       \* episode_states
  notices,     \* notices[id]: dead letters in the outbox
  told,        \* told[g]: import.failed notices in the outbox
  runs,        \* runs[id]: how often the event was handed to Process (history)
  unstored,    \* unstored[id]: outcomes that were not stored (history)
  owed,        \* owed[id]: records open and meant when the row came (history)
  blind        \* some refresh of the episode states failed (history)

storeVars == <<inbox, last, notices>>
drainVars == <<dpc, batch, verdict, succeeded>>
grabVars == <<record, told>>
fileVars == <<files, shown, blind>>
historyVars == <<runs, unstored, owed>>
vars == <<storeVars, process, drainVars, grabVars, fileVars, historyVars>>

Free == [status |-> "free", attempts |-> 0, waits |-> FALSE, event |-> NoEvent]

Init ==
  /\ inbox = [id \in Rows |-> Free] /\ last = 0
  /\ process = "up"
  /\ dpc = "idle" /\ batch = {} /\ verdict = "none" /\ succeeded = {}
  /\ record = [g \in Grabs |-> "none"]
  /\ files = {} /\ shown = {} /\ blind = FALSE
  /\ notices = [id \in Rows |-> 0] /\ told = [g \in Grabs |-> 0]
  /\ runs = [id \in Rows |-> 0] /\ unstored = [id \in Rows |-> 0]
  /\ owed = [id \in Rows |-> {}]

-----------------------------------------------------------------------------
(* Grab records. *)

Terminal == {"imported", "import_failed"}
Open == {g \in Grabs : record[g] = "grabbed"}
CanTransition(g) == record[g] \notin Terminal

(* ForceGrab: Sonarr takes the release; its events may come at once. *)
Take(g) ==
  /\ process = "up" /\ record[g] = "none"
  /\ \A h \in Grabs : h < g => record[h] # "none"
  /\ record' = [record EXCEPT ![g] = "taken"]
  /\ UNCHANGED <<storeVars, process, drainVars, told, fileVars, historyVars>>

(* persistSuccess commits, or fails and the grab stays without a record. *)
Store(g) ==
  /\ record[g] = "taken"
  /\ \E r \in {"grabbed", "lost"} : record' = [record EXCEPT ![g] = r]
  /\ UNCHANGED <<storeVars, process, drainVars, told, fileVars, historyVars>>

Newest(S) == CHOOSE g \in S : \A h \in S : h <= g

(* MatchLatest: open records with the download id, else with the title. *)
Meant(e) ==
  LET byHash == {g \in Open \cap Answered : HashOf[g] = HashOf[e.grab]}
  IN  IF byHash # {} THEN byHash ELSE {g \in Open : TitleOf[g] = TitleOf[e.grab]}
MatchLatest(e) == Newest(Meant(e))

-----------------------------------------------------------------------------
(* Sonarr and the webhook handler. *)

(* An episode file comes or goes. *)
FileChanges(e) ==
  /\ files' \in {files \cup {e}, files \ {e}} \ {files}
  /\ (files' \subseteq files) => "deleted" \in Kinds
  /\ UNCHANGED <<storeVars, process, drainVars, grabVars, shown, blind, historyVars>>

Happened(e) ==
  /\ record[e.grab] # "none"
  /\ e.kind = "imported" => e.episode \in files
  /\ e.kind = "deleted" => e.episode \notin files

(* WebhookHandler.Handle: the row is stored before Sonarr gets its answer. *)
Receive(e) ==
  /\ process = "up" /\ last < MaxRows /\ Happened(e)
  /\ last' = last + 1
  /\ inbox' = [inbox EXCEPT ![last + 1] = [Free EXCEPT !.status = "pending", !.event = e]]
  /\ owed' = [owed EXCEPT ![last + 1] = IF e.kind \in {"imported", "failed"} THEN Meant(e) ELSE {}]
  /\ UNCHANGED <<notices, process, drainVars, grabVars, fileVars, runs, unstored>>

-----------------------------------------------------------------------------
(* The drainer. *)

(* Faulty: rows that were tried before are not reclaimed. *)
StaleNew == {id \in Rows : /\ inbox[id].status = "processing" /\ ~inbox[id].waits
                           /\ inbox[id].attempts = 0}

Due == {id \in Rows : inbox[id].status = "pending" /\ ~inbox[id].waits}
Stale == {id \in Rows : inbox[id].status = "processing" /\ ~inbox[id].waits}

Current == CHOOSE id \in batch : \A later \in batch : id <= later
Row == inbox[Current]
Event == Row.event

(* Faulty: without the kind. *)
KeyOfDownload(e) == <<"any", HashOf[e.grab]>>

(* dedupKey: kind, download id, series and season, but no episode. *)
Key(e) == <<e.kind, HashOf[e.grab]>>

PassBegins ==
  /\ dpc = "idle" /\ process = "up" /\ Due \cup Stale # {}
  /\ dpc' = "claiming" /\ succeeded' = {}
  /\ UNCHANGED <<last, notices, process, batch, verdict, grabVars, fileVars, historyVars>>

(* Faulty: a reclaimed row starts over. *)
ReclaimAfresh ==
  /\ PassBegins
  /\ inbox' = [id \in Rows |->
                 IF id \in Stale THEN [Free EXCEPT !.status = "pending", !.event = inbox[id].event]
                 ELSE inbox[id]]

(* A pass with something to do begins with ReclaimStale: rows whose lease   *)
(* has lapsed are pending again.                                            *)
Reclaim ==
  /\ PassBegins
  /\ inbox' = [id \in Rows |->
                 IF id \in Stale THEN [inbox[id] EXCEPT !.status = "pending"] ELSE inbox[id]]

(* An error of it is only logged. *)
ReclaimFails == PassBegins /\ UNCHANGED inbox

(* ClaimDue: due rows, oldest first, up to the limit; they are leased. *)
Claim ==
  /\ dpc = "claiming" /\ process = "up" /\ Due # {}
  /\ batch' = {id \in Due : Cardinality({older \in Due : older < id}) < ClaimLimit}
  /\ inbox' = [id \in Rows |->
                 IF id \in batch'
                 THEN [inbox[id] EXCEPT !.status = "processing", !.waits = TRUE]
                 ELSE inbox[id]]
  /\ dpc' = "rows"
  /\ UNCHANGED <<last, notices, process, verdict, succeeded, grabVars, fileVars, historyVars>>

(* Nothing is due, the claim fails, or the context is done. *)
PassEnds ==
  /\ dpc = "claiming"
  /\ dpc' = "idle"
  /\ UNCHANGED <<storeVars, process, batch, verdict, succeeded, grabVars, fileVars, historyVars>>

(* The batch is done, or the context is and its rows stay leased. *)
BatchEnds ==
  /\ dpc = "rows"
  /\ \/ batch = {} /\ dpc' = "claiming"
     \/ process = "stopping" /\ dpc' = "idle"
  /\ batch' = {}
  /\ UNCHANGED <<storeVars, process, verdict, succeeded, grabVars, fileVars, historyVars>>

AtRow == dpc = "rows" /\ batch # {} /\ process = "up"

(* F-14: an event with this key succeeded in this pass. *)
SkipTwin ==
  /\ AtRow /\ Key(Event) \in succeeded
  /\ verdict' = "ok" /\ dpc' = "settling"
  /\ UNCHANGED <<storeVars, process, batch, succeeded, grabVars, fileVars, historyVars>>

(* The stored body no longer maps. *)
MapFails ==
  /\ AtRow
  /\ verdict' = "dead" /\ dpc' = "settling"
  /\ UNCHANGED <<storeVars, process, batch, succeeded, grabVars, fileVars, historyVars>>

(* Process: a file event first refreshes the episode states; an error of   *)
(* that is only logged.                                                    *)
Run ==
  /\ AtRow /\ Key(Event) \notin succeeded
  /\ runs' = [runs EXCEPT ![Current] = @ + 1]
  /\ dpc' = "applying"
  /\ IF Event.kind \in FileKinds
     THEN \/ shown' = files /\ UNCHANGED blind
          \/ blind' = TRUE /\ UNCHANGED shown
     ELSE UNCHANGED <<shown, blind>>
  /\ UNCHANGED <<storeVars, process, batch, verdict, succeeded, grabVars, files, unstored, owed>>

(* The status and, after a failed import, the notice, in one transaction.  *)
(* An event of another kind, without a record or too late changes nothing. *)
Settle(g, e) ==
  /\ record' = [record EXCEPT ![g] = IF e.kind = "failed" THEN "import_failed" ELSE "imported"]
  /\ told' = IF e.kind = "failed" THEN [told EXCEPT ![g] = @ + 1] ELSE told

Effect(e) ==
  IF e.kind \in {"imported", "failed"} /\ Meant(e) # {} /\ CanTransition(MatchLatest(e))
  THEN Settle(MatchLatest(e), e)
  ELSE UNCHANGED grabVars

Applied ==
  /\ dpc = "applying"
  /\ Effect(Event)
  /\ verdict' = "ok" /\ dpc' = "settling"
  /\ UNCHANGED <<storeVars, process, batch, succeeded, fileVars, historyVars>>

(* Faulty: the notice outlives a transaction that failed. *)
ApplyFailsTold ==
  /\ dpc = "applying"
  /\ \/ Effect(Event)
     \/ /\ Event.kind = "failed" /\ Meant(Event) # {}
        /\ told' = [told EXCEPT ![MatchLatest(Event)] = @ + 1]
        /\ UNCHANGED record
  /\ verdict' = "retry" /\ dpc' = "settling"
  /\ UNCHANGED <<storeVars, process, batch, succeeded, fileVars, historyVars>>

(* An error or the timeout of the job; the commit may have happened. *)
ApplyFails ==
  /\ dpc = "applying"
  /\ Effect(Event) \/ UNCHANGED grabVars
  /\ verdict' = "retry" /\ dpc' = "settling"
  /\ UNCHANGED <<storeVars, process, batch, succeeded, fileVars, historyVars>>

(* The outcome is stored, or not (the context is done, the write fails). *)
NextRow == dpc = "settling" /\ dpc' = "rows" /\ batch' = batch \ {Current} /\ verdict' = "none"

MarkSuccess ==
  /\ NextRow /\ verdict = "ok" /\ process = "up"
  /\ inbox' = [inbox EXCEPT ![Current].status = "gone", ![Current].waits = FALSE]
  /\ succeeded' = succeeded \cup {Key(Event)}
  /\ UNCHANGED <<last, notices, process, grabVars, fileVars, historyVars>>

(* Faulty: the ceiling is never looked at. *)
MayRetryAlways == verdict = "retry"

MayRetry == verdict = "retry" /\ Row.attempts + 1 < AttemptCap

MarkFailure ==
  /\ NextRow /\ MayRetry /\ process = "up"
  /\ inbox' = [inbox EXCEPT ![Current].status = "pending", ![Current].waits = TRUE,
                            ![Current].attempts = @ + 1]
  /\ UNCHANGED <<last, notices, process, succeeded, grabVars, fileVars, historyVars>>

(* markDead: the status and the dead-letter notice, in one transaction. *)
MarkDead ==
  /\ NextRow /\ process = "up"
  /\ verdict = "dead" \/ (verdict = "retry" /\ ~MayRetry)
  /\ inbox' = [inbox EXCEPT ![Current].status = "dead", ![Current].waits = FALSE]
  /\ notices' = [notices EXCEPT ![Current] = @ + 1]
  /\ UNCHANGED <<last, process, succeeded, grabVars, fileVars, historyVars>>

MayLose == SumFunction(unstored) < MaxLost

(* The row stays leased; a success counts for the pass all the same unless *)
(* the context is done.                                                    *)
SettleFails ==
  /\ NextRow /\ (MayLose \/ process = "stopping")
  /\ unstored' = [unstored EXCEPT ![Current] = @ + 1]
  /\ succeeded' = IF verdict = "ok" THEN succeeded \cup {Key(Event)} ELSE succeeded
  /\ UNCHANGED <<storeVars, process, grabVars, fileVars, runs, owed>>

DrainStep ==
  \/ Reclaim \/ ReclaimFails \/ Claim \/ PassEnds \/ BatchEnds
  \/ SkipTwin \/ MapFails \/ Run \/ Applied \/ ApplyFails
  \/ MarkSuccess \/ MarkFailure \/ MarkDead \/ SettleFails

-----------------------------------------------------------------------------
(* Surroundings: time and the process. *)

(* lease_until or next_attempt_at passes. *)
WaitOver(id) ==
  /\ inbox[id].waits
  /\ inbox' = [inbox EXCEPT ![id].waits = FALSE]
  /\ UNCHANGED <<last, notices, process, drainVars, grabVars, fileVars, historyVars>>

MidRow == dpc \in {"applying", "settling"}

Stop ==
  /\ process = "up" /\ (MidRow => MayLose)
  /\ process' = "stopping"
  /\ UNCHANGED <<storeVars, drainVars, grabVars, fileVars, historyVars>>

(* The process ends; a grab it had not stored stays without a record. *)
Dies ==
  /\ process # "down" /\ (MidRow => MayLose)
  /\ process' = "down"
  /\ dpc' = "idle" /\ batch' = {} /\ verdict' = "none" /\ succeeded' = {}
  /\ unstored' = IF MidRow THEN [unstored EXCEPT ![Current] = @ + 1] ELSE unstored
  /\ record' = [g \in Grabs |-> IF record[g] = "taken" THEN "lost" ELSE record[g]]
  /\ UNCHANGED <<storeVars, told, fileVars, runs, owed>>

Restart ==
  /\ process = "down"
  /\ process' = "up"
  /\ UNCHANGED <<storeVars, drainVars, grabVars, fileVars, historyVars>>

Next ==
  \/ \E g \in Grabs : Take(g) \/ Store(g)
  \/ \E e \in Episodes : FileChanges(e)
  \/ \E e \in Events : Receive(e)
  \/ DrainStep
  \/ \E id \in Rows : WaitOver(id)
  \/ Stop \/ Dies \/ Restart

Spec == Init /\ [][Next]_vars

(* The drainer's goroutine is scheduled, reclaims and claims do not fail    *)
(* forever, time passes; Sonarr, grabs and the process have no fairness. *)
FairSpec ==
  /\ Spec
  /\ WF_vars(DrainStep) /\ SF_vars(Reclaim) /\ SF_vars(Claim)
  /\ \A id \in Rows : WF_vars(WaitOver(id))

-----------------------------------------------------------------------------
TypeOK ==
  /\ inbox \in [Rows -> [status : {"free", "pending", "processing", "gone", "dead"},
                         attempts : 0 .. AttemptCap - 1, waits : BOOLEAN,
                         event : Events \cup {NoEvent}]]
  /\ last \in 0 .. MaxRows
  /\ process \in {"up", "stopping", "down"}
  /\ dpc \in {"idle", "claiming", "rows", "applying", "settling"}
  /\ batch \subseteq Rows
  /\ verdict \in {"none", "ok", "retry", "dead"}
  /\ succeeded \subseteq {Key(e) : e \in Events}
  /\ record \in [Grabs -> Terminal \cup {"none", "taken", "lost", "grabbed"}]
  /\ files \subseteq Episodes /\ shown \subseteq Episodes /\ blind \in BOOLEAN
  /\ notices \in [Rows -> Nat] /\ told \in [Grabs -> Nat]
  /\ runs \in [Rows -> Nat] /\ unstored \in [Rows -> Nat]
  /\ owed \in [Rows -> SUBSET Grabs]

(* An acknowledged outcome is never lost: a row that is gone and meant an   *)
(* open record when it came has settled a record of its title, whatever     *)
(* crashed, was reclaimed or was applied twice.  Only the twin of an event  *)
(* that was run before its record was stored is skipped without effect.     *)
SettledByTitle(e) == \E g \in Grabs : TitleOf[g] = TitleOf[e.grab] /\ record[g] \in Terminal
TwinOf(id, other) ==
  /\ inbox[id].event.kind = inbox[other].event.kind
  /\ HashOf[inbox[id].event.grab] = HashOf[inbox[other].event.grab]
OutcomeKept ==
  \A id \in Rows : inbox[id].status = "gone" /\ owed[id] # {} =>
    \/ SettledByTitle(inbox[id].event)
    \/ runs[id] = 0 /\ \E other \in Rows \ {id} : runs[other] > 0 /\ TwinOf(id, other)

(* A notice and the status it is about are one: a failed import is told     *)
(* once and never for a record that another event settled, and so is a dead *)
(* letter, however often the transactions fail or the rows are run again.   *)
FailureToldOnce ==
  \A g \in Grabs : told[g] = IF record[g] = "import_failed" THEN 1 ELSE 0
DeadTold == \A id \in Rows : notices[id] = IF inbox[id].status = "dead" THEN 1 ELSE 0
ToldOnce == FailureToldOnce /\ DeadTold

(* The ceiling bounds the runs of an event: a repeat is owed to a counted   *)
(* attempt or to an outcome that was not stored (also after a reclaim).     *)
RunsBounded == \A id \in Rows : runs[id] <= inbox[id].attempts + unstored[id] + 1

(* Every row that was acknowledged ends gone or dead, also one that a       *)
(* stopped process left leased, once the process stays up.                  *)
RowsSettle == <>[](process = "up") => \A id \in Rows :
  inbox[id].status \in {"pending", "processing"} ~> inbox[id].status \in {"gone", "dead"}

(* drainer.go: rows with one key in one pass "are the same delivery         *)
(* re-sent", so skipping the second leaves no imported file unshown.        *)
ImportShown ==
  \A id \in Rows :
    inbox[id].status = "gone" /\ inbox[id].event.kind = "imported" /\ ~blind
      => inbox[id].event.episode \in shown \/ inbox[id].event.episode \notin files

=============================================================================
