# A verification project for seasonfill

seasonfill is a Go server beside Sonarr, Radarr and qBittorrent. It scans the
Sonarr instances for seasons that lack episodes and grabs season packs, watches
qBittorrent for torrents that their tracker dropped and replaces them (the
"watchdog"), keeps a catalogue enriched from TMDB and OMDb, takes webhooks,
proxies posters, queues requests of users for approval and sends notifications.
One process, one database (SQLite or Postgres), many goroutines.

This directory holds TLA+ modules of the parts where the order of steps
matters, the TLC instances that check them, and TLAPS proofs of what should hold
for every size of them. `PROJECT.json` maps every definition to the lines it
stands for and lists the runs, their mutants, the hazards, the findings and the
theorems. Paths below are relative to `src/`.

    tlc -workers 2 -config scan_control.cfg MCScanControl.tla
    tlapm ScanControlProofs.tla

## 1. Inventory

### Parts with control worth checking

| part | state | operations | hard behaviour | what makes it correct |
|---|---|---|---|---|
| **Scan control** `internal/catalog/app/scan/scan_usecase.go`, `rescan/rescan_usecase.go`, `cmd/server/helpers.go` | inflight map (slot and CancelFunc per instance), `scan_runs` rows, `superseded_by_id`, health registry | start (cron, request, rescan), cancel, finalise, drain at shutdown | check-then-act across goroutines, a CancelFunc armed late, failing writes, crash between two writes, shutdown with a context already cancelled | one run per instance; a freed slot leaves a settled row and pointer; rows settle; a cancel reaches its run; a superseded decision has a successor |
| **Scan walk** (`processScan`), evaluate, **grab** `internal/grab/app` | per-run counters, cooldown rows (series, GUID), decisions, grab records | evaluate a season, grab with retries, record in one transaction, park | cooldowns read in a batch and used late; a grab that succeeded but whose answer or record was lost; streak of failures | no more than the limit of grabs per run; a season is not grabbed again in its cooldown; every grab Sonarr took has a record |
| **Watchdog regrab loop** `internal/watchdog`, `cmd/server/loops/regrab.go` | settings row, registered loop, per-loop streak, regrab cooldowns, `watchdog_state` counter, blacklist | settings edits, refresh, poll, gate, replay, search, grab, counter, park, cooldown | cancel without wait, loads and swaps that interleave, last write of a season lost, crash | the cooldown throttles and a season is parked only for cause, whatever loops overlap; a cancelled loop ends, a registered one survives failures |
| **Enrichment queue** `internal/enrichment/app/queue.go`, `dispatcher.go` | two channels per kind, dedup set, depth counter, gauge, worker pools | enqueue, dequeue, release, close | rollback when full, starvation between priorities, shutdown with buffered jobs, values published after unlock | at most one job per entity; nothing leaks; hot jobs are not starved; everything ends |
| **Enrichment schedulers** `cold_start.go`, `changes_poller.go`, `refresh_scheduler.go` | cursors, per-kind backlog | seed jobs at boot, poll changes, refresh stale rows | a dropped job must come back; a cursor moved before its jobs ran | every stale entity is enqueued again |
| **Quota and OMDb budget** `internal/runtime/quota/counter.go`, `omdb_budget.go` | counter per day, reserve for hot jobs | reserve, refund, roll over | check-then-reserve, day boundary, store errors count as permission | the daily cap |
| **Webhook inbox and drainer** `internal/catalog/app/webhook` | inbox rows (pending, leased, dead), attempts, grab records, episode states | receive, claim a batch, process, back off, reclaim, dead-letter | a batch leased at once and worked one by one; lapse of a lease; replays; twins skipped in a pass | an acknowledged event has its effect; it is told once; its runs are bounded; every row settles |
| **Notification outbox** `internal/notification` | outbox rows, agents | insert in the producer's transaction, dispatch, reschedule, dead-letter | partial failure over agents; crash between send and settle; a failing head of the queue | a row is removed only when every listed agent got it; its passes are bounded; every row settles |
| **Request workflow** `internal/request` | request rows | queue, approve, deny | add outside the transaction; concurrent approve and deny | one terminal state that agrees with what was added |
| **Runtime configuration bus** `internal/runtime/reload.go`, `internal/shared/reload`, `internal/shared/scheduler` | latest snapshot, per-subscriber slot of one, client registry, cron entries | publish, apply, drain removed clients | latest wins, a failing subscriber, order of fan-out | subscribers converge to the last snapshot |
| **Media pipeline** `internal/mediaproxy`, `internal/catalog/app/gc/media_sweep.go` | bounded channel, dedup set, asset rows, object store, cooldowns, flights | enqueue, download, on-demand fetch, serve, sweep | rows overwritten by whoever comes last, a leader whose client leaves, row and object written apart | what a row calls stored is there; what is there is served; no failure latches |
| **Torrent sync** `internal/catalog/app/torrentsync`, `cmd/server/loops/torrentsync.go` | rid and snapshot per instance | poll deltas, reconcile | same lifecycle as the regrab loop; a full update after a re-login | rows equal the last full state |
| **Instance health** `internal/admin/rest/healthcheck` | registry | probe, mark | probe results racing marks of a scan | the gate of scans |

### Parts that are left out

Instances and settings CRUD, discovery, detail pages, search and follow,
torrent actions, administration, webhook installation: requests that read or
write one row or compose a page, with little order to get wrong. Persistence
and HTTP clients appear in the modules as atomic steps and as answers to choose
from. Logging, metrics (but the queue's gauge), wiring, the frontend,
deployment and schema have no behaviour of their own. `PROJECT.json` lists each
with its reason.

### How the parts meet

    cron, requests --> scan control --(one walk)--> evaluate --> grab --> Sonarr
                            ^ slot                                 |
    decisions <-- rescan ---+                                      v
    qBittorrent --> regrab loop --> evaluate --> grab --> records, cooldowns
    settings edit --> publish --> fan-out --> refresh --> regrab loop (start, stop)
    webhook --> inbox --> drainer --> catalogue --> enrichment queue --> workers
    grab, requests, air dates --> outbox rows (same transaction) --> dispatcher --> agents

Calls are Go calls, waits are channels, mutexes and `WaitGroup`s, shared state is
the database. Transactions are short and never span a network call; what a
crash finds between two of them is where most hazards are.

## 2. The modules

| module | models | checked by | proved in |
|---|---|---|---|
| `EnrichJobs` | what the enrichment dispatcher promises | `enrich_queue` | |
| `EnrichQueue` | `queue.go` and the loops of `dispatcher.go` | `enrich_queue` | `EnrichQueueProofs` |
| `ScanControl` | admission, slots, cancel, rows, rescans, shutdown, restart | `scan_control`, `scan_live` | `ScanControlProofs` |
| `GrabUse` | the grab use case and the cooldowns it writes | `scan_walk` | `ScanWalkProofs` |
| `ScanWalk` (extends `GrabUse`) | the walk of a scan, and grabs by hand beside it | `scan_walk` | `ScanWalkProofs` |
| `Regrab` | settings, loops, cycles and gates of the watchdog | `regrab` | `RegrabProofs` |
| `Outbox` | outbox rows and their dispatcher | `requests`, `air_dates` | `OutboxProofs` |
| `Notices` (extends `Outbox`) | two producers: requests and air dates | `requests`, `air_dates` | `NoticesProofs` |
| `Inbox` | webhooks, their drainer, what an event does | `inbox`, `inbox_live`, `inbox_episodes` | `InboxProofs` |
| `MediaAssets` | one image: row, object, workers, readers, sweep | `media`, `media_fs` | `MediaAssetsProofs` |

`MC*` modules only give TLC values for the constants. A component that is called
by others is a module they extend: its actions leave the caller's variables to
the caller, as a Go call does.

### EnrichQueue

`chan[k][p]` are the buffered Go channels, `inFlight` the dedup set, `depth` the
counters under the mutex, `store[g]` a gauge value goroutine g has computed
under the mutex and not yet stored, `gauge` what was published. `pc[w]` follows
a worker: the non-blocking receive on the hot channel (`try_hot`), the `select`,
the handler, the deferred release, the loop's end. A critical section is one
step; the store after it is another. `enqueue` accepts or drops (channel full,
slot and counter taken back); a refused call writes nothing and is a stutter.
`Cancel` is the context of the workers, `CloseQueue` is `close`, after which a
receive finds the rest of the buffer and then the closed channel.

`EnrichJobs` says the same without channels: an entity is accepted only while no
job of it waits or runs, runs once at a time, and each accepted job is begun at
most once. `KeepsPromise` is the refinement; a job waits while it is buffered and
runs while a worker handles it.

### ScanControl

A run is a scan id of one of three kinds: sync (cron and startup, on the
caller's goroutine), async (request, detached goroutine) and rescan. `slot` and
`armed` are the inflight map: the slot is taken with a no-op CancelFunc, and
`Arm` stores the run's own. `pc[r]` walks admission (health gate or decision
check, acquire, create the row), the prelude of a rescan (supersede), the work
(list, tags, walk) and the end (`finalizing` writes `verdict`, `marking` the
health, `rollback` the pointer, `releasing` the slot). `lost` are runs to whose
last writes the database said no. The walk over series and seasons is one state
that one step leaves with one of its outcomes. `phase` follows `Server.Shutdown`:
wait for scans, mark the rest aborted, drain, exit. `Crash` ends the process
anywhere, `Restart` brings it back with what is stored.

### Regrab

One Sonarr instance. `enabled` is its settings row; `task` and `snap` are the
goroutines that edit it or publish a snapshot and then load all settings and
swap the loops (two steps, without a lock across them). `current` is the loop
registered for the instance; a loop that was cancelled may still be inside a
cycle (`pc`), on a context that is done (`ctxDone`), with calls that then fail
except the grab, which has a context of its own. A cycle visits the torrents;
which are unregistered, what a search finds and what Sonarr answers are choices.
`expires`, `attempts` and `parked` are the three tables. The swap starts a new
loop beside those it cancelled; `Loops` is how many goroutines the instance may
have at once, so the swap waits only when all of them are alive. Two history
variables say what the tables stand for: `quietUntil` is the end of the cooldown
of what Sonarr last took, 0 once no row of it can come any more, and `noBetter`
the verdicts since a success, `Threshold` once a reset was lost. The clock ticks
between any two steps.

### GrabUse and ScanWalk

`exec[x]` is the grab that caller x has on: looking at the cooldowns, posting
(up to `MaxAttempts` times, a lost answer being one that Sonarr may have acted
on), storing the record with the season's cooldown in one transaction, or the
failed record with the release's. `dead` are callers whose context is done;
`cooled` and `barred` are the two kinds of cooldown, `open` the records. `stored`
and `taken` count what was recorded and what Sonarr really took, `stale[x]` is
what others cooled since x looked.

The walk (`pc`) lists the series, reads the cooldowns of one in a batch
(`snapshot`), and goes through its seasons (`left`): skipped, without candidate,
failed to evaluate, or grabbed, which bumps `tally`. Limits on grabs and series,
the streak of failures, a 401 and a cancel end it; `Finalize` writes `row`, or
fails to. Other callers are HTTP grabs: they look, then grab, and share nothing
with the scan but the tables. `scan_walk` composes both modules, where
`ScanControl` has the walk as one state.

### Outbox and Notices

`outbox[id]` is the row with its attempts and whether it rests; ids are in the
order of `created_at`. A pass of the dispatcher (`dpc`) fetches a `batch` (the
rows of it still to do; the oldest is the current one), lists
the agents of the current row, sends to each (`todo`), and marks the row sent,
rescheduled or dead; the outcome may not be stored, and the process may stop
anywhere. `sent`, `listed`, `failures` and `lost` say what really happened.

`Notices` adds the handlers of requests: `call[h]` is an HTTP call that queues
(select, then insert), approves (read, add at Sonarr or Radarr, flip with the
event in one transaction) or denies. `library` is what Sonarr or Radarr took. The
series worker reads the old air date (`handle`), stores the new one, and the
announcer inserts marks and rows of all followers in one transaction.

### Inbox

`inbox[id]` is a row with its lease (`waits` stands for a lease or a back-off
that has not run out). The drainer claims a batch, takes the rows in order, skips
what has the key of an event that succeeded in this pass, hands the others to
`Process` and stores the verdict, or does not. `record[g]` is the grab record an
event settles, found by download id or by title; `taken` and `lost` precede it
(Sonarr answered, the row is not yet committed, or never will be). `files` is what
is on disk and `shown` the episode states. `runs`, `unstored`, `owed` and `blind`
are history.

### MediaAssets

`row` is the row of `media_assets` (its status, and whether it knows the content
type the key is derived from), `bytes` the object. `dedup`, `jobs` and `work[w]`
are the enqueuer and the workers: stat, pending, get and put, stored or failed.
`req[r]` is a GET of the image, `flight` the reader whose fetch the others wait
for, `fetch[r]` where that `FetchSync` is, `cooling` the cooldown after a failure.
A call fails, times out or is cut when the client of the leader leaves. The
sweep collects the live set, looks at the row, deletes the object, then the row.
`robbed` (the sweep took the object and none was put since) and `owed` (readers
whose image is there since before their fetch began, with nothing failing) are
history.

## 3. Runs

Passing runs and why their bounds suffice:

- `enrich_queue`: two workers, one caller, three ids, channels of one slot. A
  full channel, a drop, a hot job that arrives while both workers wait and a
  release that races an accept all occur. A critical section is one step, so a
  second caller adds nothing but a gauge store; a second kind shares only
  `closed`. Three ids are what it takes to have one handled, one buffered and one
  turned away.
- `scan_control`: one instance (slots of different instances share nothing), one
  run of each kind, one decision. Three runs make a holder, a waiter between its
  check and its acquire, and a third that comes after a release.
- `scan_live`: an async run and a rescan. The specification is fair to the
  shutdown only; that slots free and rows settle is checked under the hypothesis
  `RunsFair`.
- `scan_walk`: a scan over two series with three seasons in all, and one grab by
  hand. One grab, two series and two failures in a row (three in the code) end a
  scan, so each limit is met by one path and missed by another; two attempts make
  a retry. The grab by hand is what may cool a season between the batch and its
  use.
- `regrab`: two loops, so that a cancelled one works beside its successor at any
  two points of a cycle, and after it has ended, or the process has, a third life
  begins. One torrent: cooldown, counter and blacklist are per season and seasons
  share nothing, and a second torrent of the season is skipped in the cycle that
  evaluated the first. Cooldown one and a clock of one tick, so that a cooldown
  lapses within a cycle and between cycles; threshold and counter two, so that one
  verdict parks nothing and a reset that was lost is told from one that was not.
  A third loop alive would add cancelled loops only, which write neither cooldown
  nor counter; the proofs are for any loops, torrents and seasons. `OneLoopLive`
  asks of one loop that it polls or ends, with no fairness of the other; the loops
  are interchangeable, so each of them does.
- `requests`: two handlers and two request rows of one user and title, so an
  approval meets a denial, another approval or a second queueing at every step of
  either. Without agents: delivery is the next run's.
- `air_dates`: two dates that come, go and come back, one follower, two agents
  that list different events, two rows, two attempts, batches of one (so that a
  failing row can stand before another), one outcome that is not stored.
- `inbox`: two deliveries, two grabs of one release title with different
  download ids, only one of which Sonarr told in its answer (so one record is
  found by id and one by title), events "grab" and "failed", two attempts, one
  outcome lost. Two rows make twins, a redelivery and a batch.
- `inbox_live`: one grab and one episode, two deliveries.
- `media`: two readers, so one may wait for the other's fetch, one worker, one
  sweep, two failures (a failing call, a client that leaves or a crash). Jobs of one
  image are one at a time by the dedup set, so a second worker would be idle.

Deadlock is checked but in `enrich_queue`, `scan_control`, `scan_live` and
`scan_walk`, where the system stops: after the shutdown of the queue and of the
server, and when the scans and clicks of the instance are used up.

Each passing property has a mutant in its module, a definition commented
"Faulty" that differs from the real one as a plausible bug would and that makes
the property fail.

Runs that must find a violation, each a place where a comment says more than
the code does:

| run | what the comment says | what happens |
|---|---|---|
| `inbox_episodes` | rows of one key in a pass are one delivery re-sent (`drainer.go:519`) | the key has no episode: of two imports of a season pack the second is skipped, and its episode keeps the old state |
| `media_fs` | an image already stored always serves (`ondemand.go:273`) | a Stat of the file store knows no content type; the upsert after it clears the column the key is derived from, and the image is not found again |

Read in the code while modelling, modelled as it is, and without a run of its
own. Enrichment queue and scans:

- The gauge is stored after the unlock (`queue.go:180`), so two stores may land in
  the other order although the comment excludes it (`queue.go:52`):
  `CallerStores`, `WorkerStores`.
- `dequeue` still hands out buffered hot jobs with a cancelled context
  (`queue.go:199`; its comment says it returns false). `TryHotTakes` does so, and
  `ShutdownEnds` holds all the same.
- A cancel between acquire and `Arm` fires a no-op and is lost
  (`scan_usecase.go:498`, `rest/scan.go:122`).
- The superseded check of a rescan precedes the slot (`rescan_usecase.go:89`): a
  second rescan may replace the successor of the first.
- Runs beyond the grace are marked on a context the signal has cancelled
  (`server.go:1250`, `helpers.go:38`).
- A rescan that was cancelled is finalised "failed", never "cancelled"
  (`rescan_usecase.go:223`): `RescanFails`.
- A process that dies between the supersede pointer and the new decision leaves
  a decision superseded by nothing (`rescan_usecase.go:127`): the exception in
  `SuccessorReal`. No startup pass settles rows left "running"
  (`scan_usecase.go:474`).
- A 401 on a read ends the scan with a row of zero counters
  (`scan_usecase.go:763`); `CountersAgree` leaves those rows out. A decision that
  cannot be stored after its selection is grabbed all the same.
- Two concurrent grabs by hand of one decision both grab, though the handler is
  called idempotent (`rest/grab.go:24`); `CooldownRespected` excuses what was
  cooled since the caller looked.
- `Set` of a cooldown overwrites, though "later expiry wins"
  (`cooldown_repository.go:28`).
- A release Sonarr took for a caller whose context is done has neither record
  nor cooldown (`grab_usecase.go:161`).
- A cancel that fails the grab in flight may be the last of a streak: the scan
  ends "failed" and marks the instance unavailable (`scan_usecase.go:979`).

Watchdog:

- A disable cancels the loop without waiting for it and an enable starts another
  that polls at once (`loops/regrab.go:223`), so two cycles of an instance may
  overlap, though there is "no overlap by design" (`regrab_usecase.go:247`). One
  passes the gate before the other writes its cooldown, and both grab the season:
  the exception `Overlaps` in `Throttled`. Or the new loop parks the season between
  the old one's grab and its reset: `ResetDue` in `ParkedForCause`.
- The cooldown is the last write of a season and may be lost, so a season may be
  grabbed again (`regrab_usecase.go:1093`): `quietUntil` is then
  given up (`CooldownLost`, `Restart`).
- Load and swap are not one critical section (`bootstrap.go:617`): the swap that
  comes last wins. A failed load is an empty map, which stops every loop.
- A counter whose reset was lost after a success counts older verdicts
  (`regrab_usecase.go:516`): `noBetter` then stands at `Threshold` (`ResetFails`).
- A replay that Sonarr answered "already added" is posted again by the grab
  (`regrab_usecase.go:508`): `Replayed`. `Throttled` counts the two posts of one
  evaluation once.
- README: ten failed polls disable the instance; the streak only feeds a gauge
  (`loops/regrab.go:455`): `PollEnds` leaves `enabled` alone.

Notices and inbox:

- An announcement that failed "self-heals on the next refresh"
  (`air_date_announcer.go:44`), but the date has not changed then, and the
  announcer returns early (56).
- Two approvals of one request both transition it and both insert the event; a
  denial after an approval is accepted (`request/app/usecase.go:103`). The add of a
  series that Sonarr already has is an error, so an approval that crashed after
  its add cannot be repeated.
- An event may be drained before the grab that caused it has committed, and then
  finds no record (`webhook/usecase.go:336`): `lost` and `taken` of `Inbox`. Its
  twin in the same pass is skipped (`drainer.go:332`): the exception in
  `OutcomeKept`.
- A redelivered event may settle an older open record of the same title
  (`grab_repository.go:180`).
- An outcome that could not be stored leaves `attempts` as they were: the term
  `unstored` in `RunsBounded`.

Media:

- The live set of the sweep holds the TMDB paths of the catalogue
  (`live_assets_repository.go:48`), the rows are keyed by hashes of URLs, and
  nothing calls `TouchLastAccess`: every row is swept every week, in use or not,
  against `media_sweep.go:3`. `SweepCollects` and `SweepLooks` do so.
- The sweep derives the key from the content type of the row; for a row that has
  none the row goes and the object stays.
- A leader whose client leaves fails the fetch of all who wait for it and starts
  the cooldown (`rest/media.go:684`), though "every request tries the upstream
  fetch" (644).
- A worker whose Stat timed out writes pending, and later failed, over a stored
  row (`downloader.go:306`); the image is served all the same, which
  `HeldIsServed` is about.
- `Enqueue` after `Close` sends on a closed channel (`enqueuer.go:211`); the
  process is on its way out and the module ends it by `Dies`.

## 4. Fairness

- Go schedules a runnable goroutine: weak fairness of every step of a worker, a
  run, a loop, a dispatcher, a drainer, a fetch. `Regrab` says it of a loop as
  `Scheduled`: since a loop that has not ended can always move, it moves. Handlers, walks and
  cycles return: their lists are finite and every client has a timeout.
- A `select` chooses among ready branches at random; a loop that is offered
  `ctx.Done()` over and over takes it: strong fairness of `Exit` in `Regrab`
  (`LoopFair`).
- The drainer reclaims and claims at the start of every pass, although what
  there is to claim comes and goes with leases: strong fairness of `Reclaim` and
  `Claim`. Leases, back-offs and cooldowns run out: weak fairness.
- Readers of an image ask again (`Heals` is about reloads): weak fairness of a
  reader's steps.
- Requests, edits, signals, ticks, deliveries, sweeps, failures and crashes have
  no fairness; Sonarr, TMDB and agents may fail for ever. Rows settle once the
  process stays up (`<>[](process = "up")`), images heal once the CDN does
  (`<>[]upstream`).
- `Shutdown` has its own clock: in `ShutdownEnds` of `ScanControl` the scans have
  no fairness at all, since a walk may outlast any grace.

## 5. Proofs

Every invariant and every action property that a run checks is a theorem, and so
is the refinement: it holds for every value of the constants within the
`ASSUME`s of the modules. Each component has an inductive invariant (`IInv`),
which TLC checked on the runs' instances before it was proved: the property
itself is seldom inductive, and what has to be added is where the argument lies.
Two theorems have a hypothesis beyond the `ASSUME`s: `OutcomesAreKept` that a
download id names one release (`HashNamesRelease`), and `HeldImagesServed` a store
whose Stat knows the type (`TypedStat`); why is said below.

**`EnrichQueueProofs`.** Slots alone are not inductive: that an id leaves the set
on release needs that it is handled by that worker only and buffered nowhere.
`Bookkeeping` conjoins the types, the slots, the depth (finite sets, cardinality)
and that no entity occurs twice; each step of an enqueue or a worker is shown to
move one id between "absent", "buffered" and "handled". `TypeCorrect`,
`SlotsNeverLeak` and `Deduplication` follow; `HotOvertaken` is an action property;
and `Refinement` maps every step to a step of `EnrichJobs` or to a stutter.

**`ScanControlProofs`.** `SlotHeld` is inductive with the types: acquire is the
only way into `Working` and release the only way out, and a step of a run touches
no other run's slot. `RowSettledBeforeSlot` needs to know what a run past its
finalisation has written (`RowFollowsRun`, `VerdictFollowsRun`), and
`PointerSettledBeforeSlot` that a pointer is set only while its run holds the slot
(`PointerFollowsRun`). `Invariant` conjoins them. `SuccessorsAreReal` adds that a
run that completed has saved what the pointer names; `WrittenOnce` is an action
property.

**`RegrabProofs`.** For any number of loops that overlap. What carries the
proofs is that a loop whose context is not done is the registered one
(`OneRegistered`), so a loop can be crossed only by ones that were cancelled, and
those write neither cooldown nor counter. The rest of the inductive invariant says
where a loop can be with a season (`AtWork`), that the gate a live loop passed
still holds while no release was taken (`GateHolds`), that the quiet time of a
season has a row that reaches as far or a loop on its way to write one
(`Guarded`), and that the counter does not run ahead of the verdicts unless some
loop is at its reset (`CounterBehind`). `CooldownThrottles` and `CounterParks` follow
step by step: the exceptions in the two properties are the cases of a cancelled
loop that these leave.

**`OutboxProofs`, `NoticesProofs`.** `OutboxProofs` has the lemmas about the
dispatcher, for any producer; `NoticesProofs` adds the two producers and states the
theorems. `RemovedWhenDelivered` is about rows that are gone, so the invariant
says of the row at hand that an agent listed for it was sent to, is still to do,
or failed; `CeilingKept` that what was sent in the pass that runs is one more than
what was counted or lost. `OnePending` rests on the unique index, not on the
select before it: the invariant says nothing of what a handler saw.
`ApprovedIsTaken` needs that a handler at its flip has the title in the library,
which no later step takes out. `AnnouncedOnce` is proved as "the mark exactly
when there is the row", which needs the marks of one transaction to come with
their rows. The set of followers is assumed finite: an announcement inserts a row
for each.

**`InboxProofs`.** `ToldOnce` and `RunsBounded` need where the row at hand is between
claim and settlement: its run is counted before its attempt is, its notice and its
status are one transaction. `OutcomesAreKept` is the deepest: a row that is gone
has settled a record of its title, or is the twin of one that was run. The
invariant ties what a row was owed when it came to what it meant (`OwedMeant`), a
success to a settled record (`SuccessSettled`), and a run to its effect
(`RunSettles`). It assumes `HashNamesRelease`, that one download id is one
release: an event settles by its id first, and if two titles shared an id, the
record settled would be of the other. The id is the hash of the torrent.

**`ScanWalkProofs`.** The walk and all callers of `GrabUse` in one invariant.
`ScanBounded` is arithmetic over a walk: failures come in streaks shorter than
the limit, at most one streak after each grab (`StreaksShort`, `Short`), so
`fails <= (StreakLimit - 1) * grabs + streak`. `CountersAgree` needs what the walk
has counted and the grab it still has on (`TallyExact`: `stored` and `taken`
against `tally`, plus what `exec[Walker]` adds). `CooldownsRespected` needs what the
walk knows of the seasons ahead (`SeasonsSeen`: cooled only if in the snapshot or
cooled since it was read) and that it does not meet a season it cooled down itself:
the seasons of a series are different (`Once`), as Sonarr keys them by number.

**`MediaAssetsProofs`.** `TypeCorrect` contains that an image has one job at most,
which needs that the hash is in the dedup set as long as the job waits or runs
(`OneJob`). `StoredIsBacked` follows from `SeenBacked`: who is about to call the row
stored has seen or put the object. `HeldImagesServed` needs what must be true of an
image for its readers: nobody rides without a leader (`Flights`), the row knows the
type of what it calls stored and what is owed is there (`Held`), no worker that had
missed the image is left while somebody asks, and a reader waits only for a leader
that is owed the image itself and has seen it, or will (`RidesWell`). It assumes
`TypedStat`; over the file store it is false, as `media_fs` shows.

Only model-checked: liveness (`JobsServed`, `ShutdownEnds`, `SlotFrees`,
`RowSettles`, `OneLoopLive`, `RowsSettle`, `Heals`), because fairness and `ENABLED` are
beyond the prover; and the refutations of `inbox_episodes` and `media_fs`, which
are counterexamples.

## 6. What is abstracted

- Rankings, filters, parsing, HTTP: choices over their outcomes.
- A statement or transaction of the database is one step that happens or fails.
- A write that fails may be seen by nobody; a call whose answer is lost may have
  succeeded on the other side (`Accepts \/ Ignores`).
- Poll intervals and the wake of a loop are left to the scheduler; an instance of
  an unsupported type is one whose settings read "off".
- The registry of health feeds a gate whose value is a choice of `HealthCheck`.
- Back-offs, leases and cooldowns but those of `Regrab` are flags that some later
  step clears; the order of `created_at` is the order of ids.
- Which agents want an event, and which release a search ranks first, are
  constants or choices. Producers of notices other than those of `Notices` and the
  failed imports of `Inbox` insert rows in the same way and are not modelled.
- `Inbox`: one series and season; events that add or remove a series, Radarr's
  process, and the capture of hash and size are left out.
- `ScanWalk`: dry runs, the refresh of episode states and the flush of progress
  are left out.
- `MediaAssets`: one image. A full channel is a stutter of `Enqueue`; the memory
  cache and the redirect mode answer before anything modelled is touched; the
  resolver's own `FetchSync` for a page runs beside the flight and is left out; two
  reads of the row by one handler are one; the answer to a repository error and the
  handler's negative cache (`rest/media.go`) are among the placeholders; the extension in the URL is taken to
  be that of the content type.

## 7. Not modelled, and the plan

Not modelled: the daily quota and the OMDb budget (a check, then a reservation,
of a counter whose `Increment` reads back in a second statement although its port
says atomically; a store error counts as permission), the configuration bus, the
cold start and the changes poller, torrent sync (a loop of the life cycle that
`Regrab` has), health probes, and the inside of the enrichment workers, which is
mapping and upserts under one job of `EnrichQueue`. The rest of the repository,
most of it read models, clients, generated schema and pages, has no order of
steps of its own.

Proofs to add: abstract specifications that the
outbox and the inbox implement (each row delivered at least once, and repeated
only after a failure that was counted or lost), as `EnrichJobs` is for the queue.

Modules to add: `Budget` over a day boundary with concurrent reservers,
`ReloadBus` (abstractly a register), and `ColdStart` composed with `EnrichQueue`.
