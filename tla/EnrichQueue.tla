----------------------------- MODULE EnrichQueue -----------------------------
(***************************************************************************)
(* The enrichment dispatcher and its priority queue                        *)
(* (src/internal/enrichment/app/queue.go, dispatcher.go).                  *)
(*                                                                         *)
(* Every entity kind owns a hot and a cold buffered channel and a fixed    *)
(* pool of worker goroutines.  A dedup set holds every (kind, id) that is  *)
(* queued or being handled, and a per-kind depth counter is kept with it   *)
(* under the queue's mutex; the value computed under the mutex is stored   *)
(* into the metrics gauge only after the mutex is released, so a store is  *)
(* a step of its own here.  A rejected enqueue (closed queue, duplicate    *)
(* key) returns without a write and is a stuttering step.                  *)
(***************************************************************************)
EXTENDS Integers, Sequences, FiniteSets, Functions

CONSTANTS
  Kinds,        \* knownKinds: series, person, omdb, movie
  Ids,          \* positive entity ids
  Workers,      \* worker goroutines of all the pools
  WorkerKind,   \* the kind each worker was started for
  Callers,      \* goroutines that call Enqueue
  Capacity,     \* queueCapacity
  Nothing       \* "no value": an idle caller, a worker without a job

ASSUME KindsAssumption ==
  /\ IsFiniteSet(Ids)
  /\ WorkerKind \in [Workers -> Kinds]
  /\ Capacity \in Nat \ {0}
  /\ Workers \cap Callers = {}
  /\ Nothing \notin Ids
  /\ Nothing \notin Kinds \X Nat

Prios == {"hot", "cold"}

VARIABLES
  chan,       \* chan[k][p]: ids buffered in kind k's channel of priority p
  inFlight,   \* inFlight[k]: ids of kind k in the dedup set
  depth,      \* depth[k]: the per-kind counter
  closed,     \* priorityQueue.closed; the channels are closed with it
  cancelled,  \* the workers' context is done
  pc,         \* pc[w]: where worker w is in its loop
  job,        \* job[w]: id of the entity worker w took
  store,      \* store[g]: a <<kind, depth>> goroutine g computed and not yet
              \* stored into the gauge
  gauge       \* gauge[k]: the published enrichment queue depth

queueVars == <<chan, inFlight, depth, closed>>
vars == <<chan, inFlight, depth, closed, cancelled, pc, job, store, gauge>>

PCs == {"try_hot", "select", "handler", "released", "hook", "exited"}

Buffered(k) == Range(chan[k]["hot"]) \cup Range(chan[k]["cold"])

Handling(k) == {job[w] : w \in {v \in Workers : WorkerKind[v] = k /\ pc[v] = "handler"}}

(***************************************************************************)
(* newPriorityQueue, NewDispatcher and Start: empty channels, zero depths  *)
(* published, and every worker at the top of its loop.                     *)
(***************************************************************************)
Init ==
  /\ chan = [k \in Kinds |-> [p \in Prios |-> <<>>]]
  /\ inFlight = [k \in Kinds |-> {}]
  /\ depth = [k \in Kinds |-> 0]
  /\ closed = FALSE
  /\ cancelled = FALSE
  /\ pc = [w \in Workers |-> "try_hot"]
  /\ job = [w \in Workers |-> Nothing]
  /\ store = [g \in Workers \cup Callers |-> Nothing]
  /\ gauge = [k \in Kinds |-> 0]

-----------------------------------------------------------------------------
(* Enqueue, under the mutex. *)

Admissible(c, k, id) ==
  /\ store[c] = Nothing
  /\ ~closed
  /\ id \notin inFlight[k]

(* The channel has room: the slot is taken, the counter raised, the job sent. *)
EnqueueAccept(c, k, id, p) ==
  /\ Admissible(c, k, id)
  /\ Len(chan[k][p]) < Capacity
  /\ chan' = [chan EXCEPT ![k][p] = Append(@, id)]
  /\ inFlight' = [inFlight EXCEPT ![k] = @ \cup {id}]
  /\ depth' = [depth EXCEPT ![k] = @ + 1]
  /\ store' = [store EXCEPT ![c] = <<k, depth[k] + 1>>]
  /\ UNCHANGED <<closed, cancelled, pc, job, gauge>>

(* Faulty drops, for the sensitivity of the properties: the slot is kept,   *)
(* the counter is lowered twice.                                            *)
DropKeepsSlot(c, k, id, p) ==
  /\ Admissible(c, k, id)
  /\ Len(chan[k][p]) >= Capacity
  /\ inFlight' = [inFlight EXCEPT ![k] = @ \cup {id}]
  /\ store' = [store EXCEPT ![c] = <<k, depth[k]>>]
  /\ UNCHANGED <<chan, depth, closed, cancelled, pc, job, gauge>>

DropLowersTwice(c, k, id, p) ==
  /\ Admissible(c, k, id)
  /\ Len(chan[k][p]) >= Capacity
  /\ depth' = [depth EXCEPT ![k] = (@ + 1) - 2]
  /\ store' = [store EXCEPT ![c] = <<k, depth'[k]>>]
  /\ UNCHANGED <<chan, inFlight, closed, cancelled, pc, job, gauge>>

(* The channel is full: slot and counter are rolled back and the depth is   *)
(* published again.                                                         *)
EnqueueDrop(c, k, id, p) ==
  /\ Admissible(c, k, id)
  /\ Len(chan[k][p]) >= Capacity
  /\ inFlight' = [inFlight EXCEPT ![k] = (@ \cup {id}) \ {id}]
  /\ depth' = [depth EXCEPT ![k] = (@ + 1) - 1]
  /\ store' = [store EXCEPT ![c] = <<k, (depth[k] + 1) - 1>>]
  /\ UNCHANGED <<chan, closed, cancelled, pc, job, gauge>>

(* SetEnrichmentQueueDepth after the unlock, then the caller returns. *)
CallerStores(c) ==
  /\ store[c] # Nothing
  /\ gauge' = [gauge EXCEPT ![store[c][1]] = store[c][2]]
  /\ store' = [store EXCEPT ![c] = Nothing]
  /\ UNCHANGED <<queueVars, cancelled, pc, job>>

-----------------------------------------------------------------------------
(* dequeue by a worker of the pool of kind k, then the handler. *)

(* Faulty: the dedup slot is freed when the job is taken. *)
TakeFreesSlot(w, p) ==
  LET k == WorkerKind[w] IN
  /\ chan[k][p] # <<>>
  /\ job' = [job EXCEPT ![w] = Head(chan[k][p])]
  /\ chan' = [chan EXCEPT ![k][p] = Tail(@)]
  /\ pc' = [pc EXCEPT ![w] = "handler"]
  /\ inFlight' = [inFlight EXCEPT ![k] = @ \ {Head(chan[k][p])}]
  /\ depth' = [depth EXCEPT ![k] = @ - 1]
  /\ UNCHANGED <<closed, cancelled, store, gauge>>

Take(w, p) ==
  LET k == WorkerKind[w] IN
  /\ chan[k][p] # <<>>
  /\ job' = [job EXCEPT ![w] = Head(chan[k][p])]
  /\ chan' = [chan EXCEPT ![k][p] = Tail(@)]
  /\ pc' = [pc EXCEPT ![w] = "handler"]
  /\ UNCHANGED <<inFlight, depth, closed, cancelled, store, gauge>>

Exit(w) ==
  /\ pc' = [pc EXCEPT ![w] = "exited"]
  /\ UNCHANGED <<queueVars, cancelled, job, store, gauge>>

(* The non-blocking receive on the hot channel: a job, a closed and drained *)
(* channel, or the default branch.                                          *)
TryHotTakes(w) == pc[w] = "try_hot" /\ Take(w, "hot")

(* Faulty: a closed, drained hot channel is polled again. *)
TryHotClosedPolls(w) ==
  /\ pc[w] = "try_hot"
  /\ closed /\ chan[WorkerKind[w]]["hot"] = <<>>
  /\ UNCHANGED vars

TryHotClosed(w) ==
  /\ pc[w] = "try_hot"
  /\ closed /\ chan[WorkerKind[w]]["hot"] = <<>>
  /\ Exit(w)

(* Faulty: no hot fast path. *)
TryHotSkipped(w) ==
  /\ pc[w] = "try_hot"
  /\ ~closed
  /\ pc' = [pc EXCEPT ![w] = "select"]
  /\ UNCHANGED <<queueVars, cancelled, job, store, gauge>>

TryHotEmpty(w) ==
  /\ pc[w] = "try_hot"
  /\ ~closed /\ chan[WorkerKind[w]]["hot"] = <<>>
  /\ pc' = [pc EXCEPT ![w] = "select"]
  /\ UNCHANGED <<queueVars, cancelled, job, store, gauge>>

(* Faulty: the select listens to the hot channel only. *)
SelectTakesHot(w, p) == pc[w] = "select" /\ p = "hot" /\ Take(w, p)

(* The blocking select: any ready branch may be chosen. *)
SelectTakes(w, p) == pc[w] = "select" /\ Take(w, p)

SelectStops(w) ==
  /\ pc[w] = "select"
  /\ \/ cancelled
     \/ closed /\ \E p \in Prios : chan[WorkerKind[w]][p] = <<>>
  /\ Exit(w)

(* The handler returns (success, error, or nil handler) and the deferred    *)
(* release frees the slot under the mutex.  A missing key is left alone.    *)
Release(w) ==
  LET k == WorkerKind[w] IN
  /\ pc[w] = "handler"
  /\ pc' = [pc EXCEPT ![w] = "released"]
  /\ IF job[w] \in inFlight[k]
       THEN /\ inFlight' = [inFlight EXCEPT ![k] = @ \ {job[w]}]
            /\ depth' = [depth EXCEPT ![k] = @ - 1]
            /\ store' = [store EXCEPT ![w] = <<k, depth[k] - 1>>]
       ELSE UNCHANGED <<inFlight, depth, store>>
  /\ UNCHANGED <<chan, closed, cancelled, job, gauge>>

(* release's gauge store, after the unlock. *)
WorkerStores(w) ==
  /\ pc[w] = "released"
  /\ pc' = [pc EXCEPT ![w] = "hook"]
  /\ gauge' = IF store[w] = Nothing THEN gauge
              ELSE [gauge EXCEPT ![store[w][1]] = store[w][2]]
  /\ store' = [store EXCEPT ![w] = Nothing]
  /\ UNCHANGED <<queueVars, cancelled, job>>

(* The completion hooks run, and the worker goes back to the top. *)
Loop(w) ==
  /\ pc[w] = "hook"
  /\ pc' = [pc EXCEPT ![w] = "try_hot"]
  /\ job' = [job EXCEPT ![w] = Nothing]
  /\ UNCHANGED <<queueVars, cancelled, store, gauge>>

-----------------------------------------------------------------------------
(* The root context is cancelled by a signal; Shutdown then calls Close,    *)
(* which closes the queue and waits for the workers.                        *)
Cancel ==
  /\ ~cancelled
  /\ cancelled' = TRUE
  /\ UNCHANGED <<queueVars, pc, job, store, gauge>>

CloseQueue ==
  /\ cancelled /\ ~closed
  /\ closed' = TRUE
  /\ UNCHANGED <<chan, inFlight, depth, cancelled, pc, job, store, gauge>>

WorkerStep(w) ==
  \/ TryHotTakes(w) \/ TryHotClosed(w) \/ TryHotEmpty(w)
  \/ (\E p \in Prios : SelectTakes(w, p)) \/ SelectStops(w)
  \/ Release(w) \/ WorkerStores(w) \/ Loop(w)

Enqueue(c) ==
  \E k \in Kinds, id \in Ids, p \in Prios :
    EnqueueAccept(c, k, id, p) \/ EnqueueDrop(c, k, id, p)

Next ==
  \/ \E c \in Callers : Enqueue(c) \/ CallerStores(c)
  \/ \E w \in Workers : WorkerStep(w)
  \/ Cancel
  \/ CloseQueue

Spec == Init /\ [][Next]_vars

(* Worker goroutines and gauge stores are scheduled, and handlers return    *)
(* (every outbound call of a handler has a client timeout).  Callers and    *)
(* the shutdown signal come when they come; once the context is cancelled   *)
(* Shutdown reaches Close.                                                  *)
Fairness ==
  /\ \A w \in Workers : WF_vars(WorkerStep(w))
  /\ \A c \in Callers : WF_vars(CallerStores(c))
  /\ WF_vars(CloseQueue)

FairSpec == Spec /\ Fairness

-----------------------------------------------------------------------------
(* The types of the state. *)
TypeOK ==
  /\ chan \in [Kinds -> [Prios -> Seq(Ids)]]
  /\ inFlight \in [Kinds -> SUBSET Ids]
  /\ depth \in [Kinds -> Nat]
  /\ closed \in BOOLEAN
  /\ cancelled \in BOOLEAN
  /\ pc \in [Workers -> PCs]
  /\ job \in [Workers -> Ids \cup {Nothing}]
  /\ store \in [Workers \cup Callers -> (Kinds \X Nat) \cup {Nothing}]
  /\ gauge \in [Kinds -> Nat]

(* The dedup set is exactly what is buffered or being handled: no slot is   *)
(* pinned by a job that is gone (the entity could never be enqueued again,  *)
(* the worry of the deferred release and of the rollback on a full          *)
(* channel), and no job runs without its slot.                              *)
SlotsAccounted == \A k \in Kinds : inFlight[k] = Buffered(k) \cup Handling(k)

(* The per-kind counter, which enqueue and release move separately from the *)
(* set, never drifts from it over any run of drops and releases.            *)
DepthExact == \A k \in Kinds : depth[k] = Cardinality(inFlight[k])

(* No entity is handled by two workers of its pool at once, nor buffered    *)
(* again, at either priority, while it is handled or buffered.              *)
OneJobPerEntity ==
  /\ \A v, w \in Workers :
       /\ v # w /\ WorkerKind[v] = WorkerKind[w]
       /\ pc[v] = "handler" /\ pc[w] = "handler"
       => job[v] # job[w]
  /\ \A k \in Kinds : Buffered(k) \cap Handling(k) = {}
  /\ \A k \in Kinds : Range(chan[k]["hot"]) \cap Range(chan[k]["cold"]) = {}
  /\ \A k \in Kinds, p \in Prios : IsInjective(chan[k][p])

(* While a hot job of a kind waits, no worker of the kind goes to wait on   *)
(* both channels, so a hot job is overtaken by at most one cold job per     *)
(* worker: the ones already in the select when it arrived.                  *)
Waiting(k) == {w \in Workers : WorkerKind[w] = k /\ pc[w] = "select"}

HotOvertakenAtMostOncePerWorker ==
  [][\A k \in Kinds :
       chan[k]["hot"] # <<>> => Waiting(k)' \subseteq Waiting(k)]_vars

(* Unless the process is shut down, a buffered hot job is handled, however  *)
(* many jobs of either priority keep arriving, and a buffered cold job if   *)
(* hot jobs of its kind stop coming.                                        *)
JobsServed ==
  \A k \in Kinds, id \in Ids :
    /\ id \in Range(chan[k]["hot"]) ~> (id \in Handling(k) \/ cancelled)
    /\ (id \in Range(chan[k]["cold"]) /\ [](chan[k]["hot"] = <<>>))
         ~> (id \in Handling(k) \/ cancelled)

(* Close's wait for the pools ends: every worker leaves its loop, whatever  *)
(* is still buffered in the closed channels.                                *)
ShutdownEnds == closed ~> (\A w \in Workers : pc[w] = "exited")

(* What callers are promised: EnrichJobs, where a job waits while it is     *)
(* buffered and runs while a worker handles it.                             *)
BufferedJobs == {j \in Kinds \X Ids : j[2] \in Buffered(j[1])}
HandledJobs == {j \in Kinds \X Ids : j[2] \in Handling(j[1])}

Promise == INSTANCE EnrichJobs WITH
  waiting <- BufferedJobs, running <- HandledJobs, accepting <- ~closed

KeepsPromise == Promise!Spec

=============================================================================
