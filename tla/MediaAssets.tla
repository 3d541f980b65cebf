----------------------------- MODULE MediaAssets ------------------------------
(***************************************************************************)
(* One image of the media layer: its row in media_assets, its object in    *)
(* the store, and everybody who writes them                                *)
(* (src/internal/mediaproxy, src/internal/shared/media/resolver.go,        *)
(* src/internal/catalog/app/gc/media_sweep.go).                            *)
(*                                                                         *)
(* Pre-warm workers download what was enqueued, requests fetch on demand   *)
(* what the row does not call stored, and the weekly sweep deletes.        *)
(* Nothing holds a lock over row and object.                               *)
(* The channel of jobs is shared by all images: that it is full, and an    *)
(* enqueue comes to nothing, is a stutter.  The memory cache and the       *)
(* redirect mode in front of the handler answer without touching any of    *)
(* this and are left out.                                                  *)
(***************************************************************************)
EXTENDS Naturals, FiniteSets

CONSTANTS
  Readers,      \* concurrent GETs of the image
  Workers,      \* goroutines of the downloader
  TypedStat,    \* a Stat returns the content type: S3 does, the file store not
  Referenced,   \* the catalogue points at the image
  Path, Hash,   \* what the catalogue stores, and the key of the row
  MaxFaults,    \* bound on failing calls, leaving clients and crashes
  MaxSweeps,    \* bound on the sweeps
  None

ASSUME MediaAssumption ==
  /\ TypedStat \in BOOLEAN /\ Referenced \in BOOLEAN
  /\ MaxFaults \in Nat /\ MaxSweeps \in Nat
  /\ None \notin Readers
  /\ Path # Hash

VARIABLES
  row,        \* status, and whether it knows the content type
  bytes,      \* the object is in the store, under the extension of its type
  upstream,   \* the CDN answers
  dedup,      \* the hash is in the set of the enqueuer
  jobs,       \* jobs of this image in the channel
  work,       \* work[w]: where worker w is
  fetch,      \* fetch[r]: where FetchSync is that r leads
  cooling,    \* the cooldown after a failed fetch
  flight,     \* the reader whose fetch the others wait for
  req,        \* req[r]: where the request is, and the row it serves from
  gone,       \* readers whose client has left
  sweep,      \* where the sweep is, its live set, the row it looks at
  faults, sweeps,
  robbed,     \* the sweep took the object and none was put since (history)
  owed        \* readers whose image is there, no failure between (history)

assetVars == <<row, bytes>>
workVars == <<dedup, jobs, work>>
fetchVars == <<fetch, cooling>>
readVars == <<flight, req, gone>>
sweepVars == <<sweep, sweeps>>
faultVars == <<faults, owed>>
vars == <<assetVars, upstream, workVars, fetchVars, readVars, sweepVars, faultVars, robbed>>

Absent == [status |-> "none", typed |-> FALSE]
NoRequest == [pc |-> "idle", typed |-> FALSE]
NoSweep == [pc |-> "idle", live |-> {}, typed |-> FALSE]

Init ==
  /\ row = Absent /\ bytes = FALSE /\ upstream = TRUE
  /\ dedup = FALSE /\ jobs = 0 /\ work = [w \in Workers |-> "idle"]
  /\ fetch = [x \in Readers |-> "idle"] /\ cooling = FALSE
  /\ flight = None /\ req = [r \in Readers |-> NoRequest] /\ gone = {}
  /\ sweep = NoSweep /\ faults = 0 /\ sweeps = 0
  /\ robbed = FALSE /\ owed = {}

Asked == {r \in Readers : req[r].pc \in {"riding", "load"}}

(* A call to the store or the database fails, times out, or is cut off.    *)
Fault ==
  /\ faults < MaxFaults
  /\ faults' = faults + 1
  /\ owed' = owed \ Asked
NoFault == UNCHANGED faultVars

(* Upsert: the last writer wins, and a write without a content type clears *)
(* it.                                                                     *)
Upsert(status, typed) == row' = [status |-> status, typed |-> typed]

(* Put; one that fails may have stored the object. *)
Stored == bytes' = TRUE /\ robbed' = FALSE
Unput == UNCHANGED <<bytes, robbed>>

-----------------------------------------------------------------------------
(* Producers: resolvers, catalogue lists, the series worker. *)

(* EnsurePending: on conflict do nothing. *)
EnsurePending ==
  /\ row.status = "none"
  /\ Upsert("pending", FALSE)
  /\ UNCHANGED <<bytes, upstream, workVars, fetchVars, readVars, sweepVars, faultVars, robbed>>

(* Faulty: no dedup set. *)
EnqueueAlways ==
  /\ dedup' = TRUE /\ jobs' = jobs + 1
  /\ UNCHANGED <<assetVars, upstream, work, fetchVars, readVars, sweepVars, faultVars, robbed>>

Enqueue ==
  /\ ~dedup
  /\ dedup' = TRUE /\ jobs' = jobs + 1
  /\ UNCHANGED <<assetVars, upstream, work, fetchVars, readVars, sweepVars, faultVars, robbed>>

-----------------------------------------------------------------------------
(* The downloader. *)

OnWork == UNCHANGED <<upstream, jobs, fetchVars, readVars, sweepVars>>
Works(w, from, to) == work[w] = from /\ work' = [work EXCEPT ![w] = to]

(* handle returns; the hash leaves the set. *)
Done(w, from) == Works(w, from, "idle") /\ dedup' = FALSE

TakeJob(w) ==
  /\ jobs > 0 /\ jobs' = jobs - 1
  /\ Works(w, "idle", "stat")
  /\ UNCHANGED <<assetVars, upstream, dedup, fetchVars, readVars, sweepVars, faultVars, robbed>>

(* The Stat hits, or misses, or is given up after its budget, which counts *)
(* as a miss.                                                              *)
WorkStat(w) ==
  /\ \/ bytes /\ Works(w, "stat", "hit") /\ NoFault
     \/ ~bytes /\ Works(w, "stat", "pending") /\ NoFault
     \/ Works(w, "stat", "pending") /\ Fault
  /\ OnWork /\ UNCHANGED <<assetVars, dedup, robbed>>

(* A row write of a worker: an error of it ends the job. *)
WorkWrites(w, from, status, typed) ==
  /\ Done(w, from)
  /\ (Upsert(status, typed) /\ NoFault) \/ (UNCHANGED row /\ Fault)
  /\ OnWork /\ UNCHANGED <<bytes, robbed>>

WorkHit(w) == WorkWrites(w, "hit", "stored", TypedStat)

(* The row is pending, whatever it was before. *)
WorkPending(w) ==
  /\ \/ Works(w, "pending", "get") /\ Upsert("pending", FALSE) /\ NoFault /\ UNCHANGED dedup
     \/ Done(w, "pending") /\ Fault /\ UNCHANGED row
  /\ OnWork /\ UNCHANGED <<bytes, robbed>>

(* Faulty: an error of the Put is only logged. *)
WorkDownloadsQuietly(w) ==
  /\ upstream /\ Works(w, "get", "store")
  /\ (Stored /\ NoFault) \/ (Unput /\ Fault)
  /\ OnWork /\ UNCHANGED <<row, dedup>>

(* downloadWithRetry, both attempts, and Put.                              *)
WorkDownloads(w) ==
  /\ \/ upstream /\ Works(w, "get", "store") /\ Stored /\ NoFault
     \/ upstream /\ Works(w, "get", "failed") /\ (Stored \/ Unput) /\ Fault
     \/ ~upstream /\ Works(w, "get", "failed") /\ Unput /\ NoFault
  /\ OnWork /\ UNCHANGED <<row, dedup>>

WorkStore(w) == WorkWrites(w, "store", "stored", TRUE)
WorkFailed(w) == WorkWrites(w, "failed", "failed", FALSE)

WorkStep(w) ==
  \/ TakeJob(w) \/ WorkStat(w) \/ WorkHit(w) \/ WorkPending(w)
  \/ WorkDownloads(w) \/ WorkStore(w) \/ WorkFailed(w)

-----------------------------------------------------------------------------
(* FetchSync. *)

OnFetch == UNCHANGED <<upstream, workVars, readVars, sweepVars>>
Fetches(r, from, to) == fetch[r] = from /\ fetch' = [fetch EXCEPT ![r] = to]

(* markFailed. *)
Misses(r, from) == Fetches(r, from, "missed") /\ cooling' = TRUE

(* Faulty: the cooldown comes before the Stat. *)
FetchStatUnlessCooling(r) ==
  /\ \/ cooling /\ Fetches(r, "stat", "missed")
     \/ ~cooling /\ bytes /\ Fetches(r, "stat", "hit")
     \/ ~cooling /\ ~bytes /\ Fetches(r, "stat", "gate")
  /\ UNCHANGED cooling
  /\ OnFetch /\ UNCHANGED <<assetVars, faultVars, robbed>>

FetchStat(r) ==
  /\ \/ bytes /\ Fetches(r, "stat", "hit") /\ NoFault /\ UNCHANGED cooling
     \/ ~bytes /\ Fetches(r, "stat", "gate") /\ NoFault /\ UNCHANGED cooling
     \/ Fetches(r, "stat", "gate") /\ Fault /\ UNCHANGED cooling
     \/ Misses(r, "stat") /\ Fault
  /\ OnFetch /\ UNCHANGED <<assetVars, robbed>>

(* An error of this write is ignored. *)
FetchHit(r) ==
  /\ Fetches(r, "hit", "ok") /\ cooling' = FALSE
  /\ \/ Upsert("stored", TypedStat) /\ NoFault
     \/ UNCHANGED row /\ (Fault \/ (r \in gone /\ NoFault))
  /\ OnFetch /\ UNCHANGED <<bytes, robbed>>

(* The cooldown spares the upstream. *)
FetchGate(r) ==
  /\ Fetches(r, "gate", IF cooling THEN "missed" ELSE "get")
  /\ UNCHANGED cooling
  /\ OnFetch /\ UNCHANGED <<assetVars, faultVars, robbed>>

(* GET and Put. *)
FetchDownloads(r) ==
  /\ \/ upstream /\ Fetches(r, "get", "store") /\ UNCHANGED cooling /\ Stored /\ NoFault
     \/ upstream /\ Misses(r, "get") /\ (Stored \/ Unput) /\ Fault
     \/ ~upstream /\ Misses(r, "get") /\ Unput /\ NoFault
  /\ OnFetch /\ UNCHANGED row

(* The object is in the store; a lost row write counts as a failed fetch. *)
FetchStore(r) ==
  /\ \/ Fetches(r, "store", "ok") /\ cooling' = FALSE /\ Upsert("stored", TRUE) /\ NoFault
     \/ Misses(r, "store") /\ UNCHANGED row /\ Fault
  /\ OnFetch /\ UNCHANGED <<bytes, robbed>>

(* The client of the request that leads has left: its next call is cut. *)
FetchCut(r) ==
  /\ r \in gone /\ fetch[r] \in {"stat", "get", "store"}
  /\ Misses(r, fetch[r])
  /\ (fetch[r] = "get" /\ Stored) \/ Unput
  /\ OnFetch /\ UNCHANGED <<row, faultVars>>

CooldownOver ==
  /\ cooling /\ cooling' = FALSE
  /\ UNCHANGED <<assetVars, upstream, workVars, fetch, readVars, sweepVars, faultVars, robbed>>

FetchStep(r) ==
  \/ FetchStat(r) \/ FetchHit(r) \/ FetchGate(r) \/ FetchDownloads(r)
  \/ FetchStore(r) \/ FetchCut(r)

-----------------------------------------------------------------------------
(* MediaHandler.Serve. *)

OnRead == UNCHANGED <<upstream, workVars, cooling, sweepVars>>
Goes(r, pc) == req' = [req EXCEPT ![r].pc = pc]

(* A reader whose client has left is not answered. *)
Answer(r, a) == IF r \in gone THEN "gone" ELSE a
Answers(r, a) == Goes(r, Answer(r, a))

(* Some worker has not seen the object and may yet write over the row. *)
Unseeing == \E w \in Workers : work[w] \in {"pending", "get", "failed"}

(* The image is there when r begins, and was, untouched, when the fetch    *)
(* began that r waits for.                                                 *)
Watch(r, leader) ==
  owed' = IF bytes /\ ~Unseeing /\ leader \in owed \cup {None} THEN owed \cup {r} ELSE owed

(* No row, also after the grace. *)
UnknownHash(r) ==
  /\ req[r].pc = "idle" /\ row.status = "none"
  /\ Goes(r, "placeholder")
  /\ OnRead /\ UNCHANGED <<assetVars, fetch, flight, gone, faultVars, robbed>>

(* The row is stored: serve from the store. *)
FindStored(r) ==
  /\ req[r].pc = "idle" /\ row.status = "stored"
  /\ req' = [req EXCEPT ![r] = [pc |-> "load", typed |-> row.typed]]
  /\ Watch(r, None)
  /\ OnRead /\ UNCHANGED <<assetVars, fetch, flight, gone, faults, robbed>>

(* Faulty: a failed row is not fetched again. *)
FindUnstoredLatched(r) ==
  /\ req[r].pc = "idle" /\ row.status = "pending"
  /\ Goes(r, "riding")
  /\ Watch(r, flight)
  /\ IF flight = None THEN flight' = r /\ Fetches(r, "idle", "stat") ELSE UNCHANGED <<flight, fetch>>
  /\ OnRead /\ UNCHANGED <<assetVars, gone, faults, robbed>>

(* Any other status: serveOnDemand, where one reader fetches for all. *)
FindUnstored(r) ==
  /\ req[r].pc = "idle" /\ row.status \in {"pending", "failed"}
  /\ Goes(r, "riding")
  /\ Watch(r, flight)
  /\ IF flight = None THEN flight' = r /\ Fetches(r, "idle", "stat") ELSE UNCHANGED <<flight, fetch>>
  /\ OnRead /\ UNCHANGED <<assetVars, gone, faults, robbed>>

(* The end of the flight, for all who ride. *)
Lands(r, new(_)) ==
  /\ flight = r /\ flight' = None
  /\ fetch' = [fetch EXCEPT ![r] = "idle"]
  /\ req' = [x \in Readers |-> IF req[x].pc = "riding" THEN new(x) ELSE req[x]]
  /\ OnRead /\ UNCHANGED <<assetVars, gone, robbed>>

ToLoad(x) == [pc |-> "load", typed |-> row.typed]
ToPlaceholder(x) == [pc |-> Answer(x, "placeholder"), typed |-> FALSE]

(* The leader reads the row again, whatever it says by now. *)
FlightLands(r) ==
  /\ fetch[r] = "ok" /\ row.status # "none"
  /\ Lands(r, ToLoad) /\ NoFault

FlightFails(r) ==
  /\ \/ fetch[r] = "missed" /\ NoFault
     \/ fetch[r] = "ok" /\ row.status = "none" /\ NoFault
     \/ fetch[r] = "ok" /\ (Fault \/ (r \in gone /\ NoFault))
  /\ Lands(r, ToPlaceholder)

(* The key is derived from the content type of the row. *)
Load(r) ==
  /\ req[r].pc = "load"
  /\ \/ bytes /\ req[r].typed /\ Answers(r, "bytes") /\ NoFault
     \/ Answers(r, "placeholder") /\ Fault
     \/ r \in gone /\ Goes(r, "gone") /\ NoFault
  /\ OnRead /\ UNCHANGED <<assetVars, fetch, flight, gone, robbed>>

(* A lost object is fetched again and put back; the row is left alone.     *)
Refetch(r) ==
  /\ req[r].pc = "load" /\ ~(bytes /\ req[r].typed)
  /\ \/ upstream /\ Answers(r, "bytes") /\ Stored /\ NoFault
     \/ upstream /\ Answers(r, "bytes") /\ Unput /\ Fault
     \/ ~upstream /\ Answers(r, "placeholder") /\ Unput /\ NoFault
  /\ OnRead /\ UNCHANGED <<row, fetch, flight, gone>>

(* The response is out. *)
Finish(r) ==
  /\ req[r].pc \in {"bytes", "placeholder", "gone"}
  /\ req' = [req EXCEPT ![r] = NoRequest]
  /\ gone' = gone \ {r} /\ owed' = owed \ {r}
  /\ OnRead /\ UNCHANGED <<assetVars, fetch, flight, faults, robbed>>

ClientLeaves(r) ==
  /\ r \in Asked \ gone
  /\ gone' = gone \cup {r} /\ Fault
  /\ OnRead /\ UNCHANGED <<assetVars, fetch, flight, req, robbed>>

ReadStep(r) ==
  \/ UnknownHash(r) \/ FindStored(r) \/ FindUnstored(r)
  \/ FlightLands(r) \/ FlightFails(r) \/ Load(r) \/ Refetch(r) \/ Finish(r)

-----------------------------------------------------------------------------
(* The weekly sweep. *)

OnSweep == UNCHANGED <<upstream, workVars, fetchVars, readVars>>

(* CollectLiveAssetHashes: the columns hold the paths of TMDB. *)
SweepCollects ==
  /\ sweep.pc = "idle" /\ sweeps < MaxSweeps
  /\ sweeps' = sweeps + 1
  /\ sweep' = [pc |-> "row", live |-> IF Referenced THEN {Path} ELSE {}, typed |-> FALSE]
  /\ OnSweep /\ UNCHANGED <<assetVars, faultVars, robbed>>

(* IterateColdAssets and the live check; every row is cold, since nothing   *)
(* ever writes last_access_at.                                              *)
SweepLooks ==
  /\ sweep.pc = "row"
  /\ sweep' = IF row.status # "none" /\ Hash \notin sweep.live
              THEN [sweep EXCEPT !.pc = "object", !.typed = row.typed] ELSE NoSweep
  /\ OnSweep /\ UNCHANGED <<assetVars, sweeps, faultVars, robbed>>

(* Without the content type in the row the key is not that of the object.   *)
SweepDeletesObject ==
  /\ sweep.pc = "object"
  /\ \/ /\ sweep' = [sweep EXCEPT !.pc = "delete"]
        /\ bytes' = (bytes /\ ~sweep.typed)
        /\ robbed' = (robbed \/ (bytes /\ sweep.typed))
        /\ owed' = IF sweep.typed THEN {} ELSE owed
        /\ UNCHANGED faults
     \/ sweep' = NoSweep /\ Fault /\ UNCHANGED <<bytes, robbed>>
  /\ OnSweep /\ UNCHANGED <<row, sweeps>>

SweepDeletesRow ==
  /\ sweep.pc = "delete" /\ sweep' = NoSweep
  /\ \/ row' = Absent /\ owed' = {} /\ UNCHANGED faults
     \/ UNCHANGED row /\ Fault
  /\ OnSweep /\ UNCHANGED <<bytes, sweeps, robbed>>

SweepStep == SweepCollects \/ SweepLooks \/ SweepDeletesObject \/ SweepDeletesRow

-----------------------------------------------------------------------------
(* Surroundings. *)

UpstreamChanges ==
  /\ upstream' = ~upstream
  /\ UNCHANGED <<assetVars, workVars, fetchVars, readVars, sweepVars, faultVars, robbed>>

(* The process dies and starts again. *)
Dies ==
  /\ faults < MaxFaults /\ faults' = faults + 1
  /\ dedup' = FALSE /\ jobs' = 0 /\ work' = [w \in Workers |-> "idle"]
  /\ fetch' = [x \in Readers |-> "idle"] /\ cooling' = FALSE
  /\ flight' = None /\ req' = [r \in Readers |-> NoRequest] /\ gone' = {}
  /\ sweep' = NoSweep /\ owed' = {}
  /\ UNCHANGED <<assetVars, upstream, sweeps, robbed>>

Next ==
  \/ EnsurePending \/ Enqueue
  \/ \E w \in Workers : WorkStep(w)
  \/ \E r \in Readers : FetchStep(r) \/ ReadStep(r) \/ ClientLeaves(r)
  \/ CooldownOver \/ SweepStep \/ UpstreamChanges \/ Dies

Spec == Init /\ [][Next]_vars

(* Goroutines are scheduled, time passes, and readers ask again; nothing   *)
(* makes the CDN answer, a producer enqueue or a sweep run.                *)
FairSpec ==
  /\ Spec
  /\ \A w \in Workers : WF_vars(WorkStep(w))
  /\ \A r \in Readers : WF_vars(FetchStep(r) \/ ReadStep(r))
  /\ WF_vars(CooldownOver)

-----------------------------------------------------------------------------
(* The types of the state; one hash has one job in the channel at a time.   *)
TypeOK ==
  /\ row \in [status : {"none", "pending", "failed", "stored"}, typed : BOOLEAN]
  /\ bytes \in BOOLEAN /\ upstream \in BOOLEAN /\ cooling \in BOOLEAN
  /\ dedup \in BOOLEAN /\ jobs \in 0 .. 1
  /\ work \in [Workers -> {"idle", "stat", "hit", "pending", "get", "store", "failed"}]
  /\ fetch \in [Readers -> {"idle", "stat", "hit", "gate", "get", "store", "ok", "missed"}]
  /\ flight \in Readers \cup {None}
  /\ req \in [Readers -> [pc : {"idle", "riding", "load", "bytes", "placeholder", "gone"},
                          typed : BOOLEAN]]
  /\ gone \subseteq Readers /\ owed \subseteq Readers
  /\ sweep \in [pc : {"idle", "row", "object", "delete"}, live : SUBSET {Path}, typed : BOOLEAN]
  /\ faults \in 0 .. MaxFaults /\ sweeps \in 0 .. MaxSweeps
  /\ robbed \in BOOLEAN

(* Row and object are written by four parties without a lock.  A row is      *)
(* never called stored without its object, but where the sweep took the     *)
(* object from under a writer that had seen it.                             *)
StoredBacked == row.status = "stored" => bytes \/ robbed

(* An image that is in the store is served, whatever its row says, whatever *)
(* the CDN and the cooldown do: a placeholder for one that was there since   *)
(* its fetch began is owed to a failing call, a client that left, or a       *)
(* worker that had missed it before.                                        *)
HeldIsServed ==
  \A r \in owed : req[r].pc # "placeholder"

(* "A transient failure must heal itself on reload": nothing latches.  Once  *)
(* the CDN stays up and readers ask, a row that is pending or failed ends    *)
(* stored, or is swept.                                                     *)
Heals ==
  <>[]upstream => (row.status \in {"pending", "failed"} ~> row.status \in {"stored", "none"})
=============================================================================
