-------------------------------- MODULE Regrab --------------------------------
(***************************************************************************)
(* The watchdog of one Sonarr instance: its qBittorrent settings row, the  *)
(* refreshes that start and stop its polling loop, and the cycles of the   *)
(* loop, which replace unregistered torrents                               *)
(* (src/cmd/server/loops/regrab.go,                                        *)
(* src/internal/watchdog/app/regrab/regrab_usecase.go, settings_usecase.go,*)
(* src/internal/wiring/bootstrap.go, src/internal/grab/app/                *)
(* grab_usecase.go).                                                       *)
(*                                                                         *)
(* A season stands for the (series, season) of a grab: cooldown, counter   *)
(* and blacklist are kept per season.  A loop is one goroutine; a loop     *)
(* that was cancelled may still be inside a cycle when the next one starts.*)
(* The clock advances between any two steps.                               *)
(***************************************************************************)
EXTENDS Naturals

CONSTANTS
  Loops,         \* goroutines of the instance that may be alive at once: the
                 \* registered one, and cancelled ones that have not ended
  Refreshers,    \* goroutines that save settings or publish a snapshot
  Torrents, Seasons,
  SeasonOf,      \* the season of the grab a torrent is mapped to
  Cooldown,      \* regrab_cooldown_hours
  Threshold,     \* max_consecutive_no_better, 0: never
  MaxNow,        \* bound of the clock
  MaxCount,      \* bound of the attempts
  None

ASSUME RegrabAssumption ==
  /\ SeasonOf \in [Torrents -> Seasons]
  /\ Cooldown \in Nat /\ Threshold \in Nat
  /\ MaxNow \in Nat /\ MaxCount \in Nat
  /\ None \notin Loops \cup Seasons

VARIABLES
  now,
  enabled,       \* the settings row
  task, snap,    \* per refresher: its next step, the settings it loaded
  current,       \* the loop registered for the instance, or None
  stopping,      \* the parent context of the loops is done
  pc,            \* pc[l]: where loop l is
  ctxDone,       \* loops whose context is done
  startedAt,     \* startedAt[l]: when the cycle of l began
  todo, seen,    \* per loop: torrents to visit, seasons evaluated this cycle
  season,        \* season[l]: the season l works on
  took,          \* took[l]: Sonarr accepted a release for season[l]
  expires,       \* expires[s]: regrab cooldown row, 0 for none
  attempts,      \* attempts[s]: watchdog_state.attempt_count
  parked,        \* the blacklist
  (* History, which no guard reads: what cooldown and counter stand for.   *)
  quietUntil,    \* quietUntil[s]: end of the cooldown of the last grab, 0
                 \* once it is over or its row could not be written
  noBetter       \* noBetter[s]: no-better verdicts since the last success or
                 \* parking, up to Threshold; Threshold once a reset was lost

settingVars == <<enabled, task, snap, current, stopping>>
loopVars == <<startedAt, todo, seen, season, took>>
storeVars == <<expires, attempts, parked>>
historyVars == <<quietUntil, noBetter>>
vars == <<now, enabled, task, snap, current, stopping, pc, ctxDone, 
          startedAt, todo, seen, season, took, expires, attempts,
          parked, quietUntil, noBetter>>

Waits == {"off", "tick", "idle"}
Evaluating == {"gate", "listed", "replay", "search"}
Acting == {"grab", "reset", "increment", "reread", "park", "cooldown"}
Cycle == {"next"} \cup Evaluating \cup Acting

Init ==
  /\ now = 1
  /\ enabled \in BOOLEAN
  /\ task = [f \in Refreshers |-> "load"]
  /\ snap = [f \in Refreshers |-> "off"]
  /\ current = None
  /\ stopping = FALSE
  /\ pc = [l \in Loops |-> "off"]
  /\ ctxDone = {}
  /\ startedAt = [l \in Loops |-> 0]
  /\ todo = [l \in Loops |-> {}]
  /\ seen = [l \in Loops |-> {}]
  /\ season = [l \in Loops |-> None]
  /\ took = [l \in Loops |-> FALSE]
  /\ expires = [s \in Seasons |-> 0]
  /\ attempts = [s \in Seasons |-> 0]
  /\ parked = {}
  /\ quietUntil = [s \in Seasons |-> 0]
  /\ noBetter = [s \in Seasons |-> 0]

Move(l, from, to) == pc[l] = from /\ pc' = [pc EXCEPT ![l] = to]
Alive(l) == l \notin ctxDone

-----------------------------------------------------------------------------
(* Settings: the row, then a refresh that loads it and swaps the loop. *)

(* PUT or DELETE of the settings; the handler refreshes the loops itself,   *)
(* unless it cannot read back the row it wrote.                             *)
PutSettings(f) ==
  /\ task[f] = "idle"
  /\ \E e \in BOOLEAN : enabled' = e
  /\ task' = [task EXCEPT ![f] = "load"] \/ UNCHANGED task
  /\ UNCHANGED <<now, snap, current, stopping, pc, ctxDone, loopVars, storeVars,
                 historyVars>>

(* Any instance edit publishes a snapshot, whose fan-out refreshes too. *)
Publish(f) ==
  /\ task[f] = "idle"
  /\ task' = [task EXCEPT ![f] = "load"]
  /\ UNCHANGED <<now, enabled, snap, current, stopping, pc, ctxDone,
                 loopVars, storeVars, historyVars>>

(* A failed load is an empty map, which reads as "everything disabled". *)
Load(f) ==
  /\ task[f] = "load"
  /\ task' = [task EXCEPT ![f] = "swap"]
  /\ \/ snap' = [snap EXCEPT ![f] = IF enabled THEN "on" ELSE "off"]
     \/ snap' = [snap EXCEPT ![f] = "off"]
  /\ UNCHANGED <<now, enabled, current, stopping, pc, ctxDone, loopVars, storeVars,
                 historyVars>>

(* SwapSettings: nothing to start (a loop that is cancelled is not waited   *)
(* for) ...                                                                 *)
SwapKeepsOrStops(f) ==
  /\ task[f] = "swap"
  /\ snap[f] # "on" \/ current # None
  /\ task' = [task EXCEPT ![f] = "idle"]
  /\ snap' = [snap EXCEPT ![f] = "off"]
  /\ IF snap[f] = "on" \/ current = None
       THEN UNCHANGED <<current, ctxDone>>
       ELSE /\ current' = None
            /\ ctxDone' = ctxDone \cup {l \in {current} : pc[l] # "off"}
  /\ UNCHANGED <<now, enabled, stopping, pc, loopVars, storeVars, historyVars>>

(* ... or a new loop, which polls at once, beside any that were cancelled. *)
SwapStarts(f, l) ==
  /\ task[f] = "swap" /\ snap[f] = "on" /\ current = None
  /\ Move(l, "off", "tick")
  /\ current' = l
  /\ task' = [task EXCEPT ![f] = "idle"]
  /\ snap' = [snap EXCEPT ![f] = "off"]
  /\ ctxDone' = IF stopping THEN ctxDone \cup {l} ELSE ctxDone \ {l}
  /\ UNCHANGED <<now, enabled, stopping, startedAt, todo, seen, season,
                 took, storeVars, historyVars>>

-----------------------------------------------------------------------------
(* instanceLoop.run: the select, and one RunInstance per tick. *)

Exit(l) ==
  /\ Move(l, "idle", "off")
  /\ ~Alive(l)
  /\ ctxDone' = ctxDone \ {l}
  /\ UNCHANGED <<now, settingVars, loopVars, storeVars, historyVars>>

TimerFires(l) ==
  /\ Move(l, "idle", "tick")
  /\ UNCHANGED <<now, settingVars, ctxDone, loopVars, storeVars, historyVars>>

(* Faulty: a poll that cannot reach qBittorrent ends the loop. *)
PollEndsForGood(l) ==
  /\ Move(l, "tick", "off")
  /\ UNCHANGED <<now, settingVars, ctxDone, loopVars, storeVars, historyVars>>

(* The poll ends early: the row is missing, disabled or unreadable, the      *)
(* registry does not know the instance, or qBittorrent cannot be reached,    *)
(* logged into or listed.  The streak of failures only feeds a gauge.        *)
PollEnds(l) ==
  /\ Move(l, "tick", "idle")
  /\ UNCHANGED <<now, settingVars, ctxDone, loopVars, storeVars, historyVars>>

(* The torrents are listed. *)
CycleStarts(l) ==
  /\ Move(l, "tick", "next")
  /\ enabled /\ Alive(l)
  /\ startedAt' = [startedAt EXCEPT ![l] = now]
  /\ todo' = [todo EXCEPT ![l] = Torrents]
  /\ seen' = [seen EXCEPT ![l] = {}]
  /\ UNCHANGED <<now, settingVars, ctxDone, season, took, storeVars,
                 historyVars>>

(* The top of the torrent loop. *)
CycleEnds(l) ==
  /\ Move(l, "next", "idle")
  /\ todo[l] = {} \/ ~Alive(l)
  /\ startedAt' = [startedAt EXCEPT ![l] = 0]
  /\ todo' = [todo EXCEPT ![l] = {}]
  /\ seen' = [seen EXCEPT ![l] = {}]
  /\ UNCHANGED <<now, settingVars, ctxDone, season, took,
                 storeVars, historyVars>>

(* Not ours, still registered, its tracker down, a lookup that failed, or a *)
(* season this cycle has evaluated.                                         *)
TorrentSkipped(l, t) ==
  /\ pc[l] = "next" /\ t \in todo[l]
  /\ todo' = [todo EXCEPT ![l] = @ \ {t}]
  /\ UNCHANGED <<now, settingVars, pc, ctxDone, startedAt, seen,
                 season, took, storeVars, historyVars>>

(* Unregistered, and its season is new to this cycle. *)
TorrentPicked(l, t) ==
  /\ Move(l, "next", "gate")
  /\ Alive(l) /\ t \in todo[l] /\ SeasonOf[t] \notin seen[l]
  /\ todo' = [todo EXCEPT ![l] = @ \ {t}]
  /\ seen' = [seen EXCEPT ![l] = @ \cup {SeasonOf[t]}]
  /\ season' = [season EXCEPT ![l] = SeasonOf[t]]
  /\ UNCHANGED <<now, settingVars, ctxDone, startedAt, took,
                 storeVars, historyVars>>

-----------------------------------------------------------------------------
(* One season: two gates, the replay or the search, the grab, the counter,  *)
(* and the cooldown last.  A call on a done context fails.                  *)

Work(l, from, to) ==
  /\ Move(l, from, to)
  /\ UNCHANGED <<now, settingVars, ctxDone, startedAt, todo, seen,
                 season, parked>>

(* The iteration is over: its variables are gone. *)
Leave(l, from) ==
  /\ Move(l, from, "next")
  /\ season' = [season EXCEPT ![l] = None]
  /\ took' = [took EXCEPT ![l] = FALSE]
  /\ UNCHANGED <<now, settingVars, ctxDone, startedAt, todo, seen,
                 parked>>

(* A cooldown is active, the season is parked, or a lookup failed. *)
Gated(l) ==
  /\ Leave(l, "gate") \/ Leave(l, "listed")
  /\ UNCHANGED <<expires, attempts, historyVars>>

GatePasses(l) ==
  /\ Work(l, "gate", "listed")
  /\ Alive(l) /\ expires[season[l]] <= startedAt[l]
  /\ UNCHANGED <<took, expires, attempts, historyVars>>

(* A row without GUID or indexer goes straight to the search. *)
NotParked(l) ==
  /\ \E p \in {"replay", "search"} : Work(l, "listed", p)
  /\ Alive(l) /\ season[l] \notin parked
  /\ UNCHANGED <<took, expires, attempts, historyVars>>

(* Sonarr takes a release for l's season: a download starts. *)
Accepts(l) ==
  /\ took' = [took EXCEPT ![l] = TRUE]
  /\ quietUntil' = [quietUntil EXCEPT ![season[l]] = now + Cooldown]
Ignores == UNCHANGED <<took, quietUntil>>

(* tryReplayByGUID posts the old release.  Sonarr takes it, or qBittorrent  *)
(* has it already; then a decision is stored.                               *)
Replayed(l) ==
  /\ \E p \in {"grab", "cooldown"} : Work(l, "replay", p)
  /\ Alive(l)
  /\ Accepts(l) \/ Ignores
  /\ UNCHANGED <<expires, attempts, noBetter>>

(* 404 or 410: the release is gone, another one is searched. *)
ReleaseGone(l) ==
  /\ Work(l, "replay", "search")
  /\ Alive(l)
  /\ UNCHANGED <<took, expires, attempts, historyVars>>

(* Any other answer; one that was lost may have been a success. *)
ReplayFails(l) ==
  /\ Work(l, "replay", "cooldown")
  /\ Accepts(l) \/ Ignores
  /\ UNCHANGED <<expires, attempts, noBetter>>

SearchFinds(l) ==
  /\ Work(l, "search", "grab")
  /\ Alive(l)
  /\ UNCHANGED <<took, expires, attempts, historyVars>>

SearchFails(l) ==
  /\ Work(l, "search", "cooldown")
  /\ UNCHANGED <<took, expires, attempts, historyVars>>

(* Nothing better, or every candidate dropped by a filter. *)
NothingBetter(l) ==
  /\ Work(l, "search", "increment")
  /\ Alive(l)
  /\ noBetter' = [noBetter EXCEPT ![season[l]] = IF @ < Threshold THEN @ + 1 ELSE @]
  /\ UNCHANGED <<took, expires, attempts, quietUntil>>

(* Faulty: the counter is not reset after a success. *)
GrabbedKeepingCounter(l) ==
  /\ Work(l, "grab", "cooldown")
  /\ Accepts(l)
  /\ noBetter' = [noBetter EXCEPT ![season[l]] = 0]
  /\ UNCHANGED <<expires, attempts>>

(* runGrab, on a context of its own: grab.Execute posts the release (again, *)
(* after a replay) and stores the record in one transaction ...             *)
Grabbed(l) ==
  /\ Work(l, "grab", "reset")
  /\ Accepts(l)
  /\ noBetter' = [noBetter EXCEPT ![season[l]] = 0]
  /\ UNCHANGED <<expires, attempts>>

(* ... or fails: it cannot store the record of a release Sonarr took, or    *)
(* runs out of attempts, of which a lost answer may have been a success.    *)
GrabFails(l) ==
  /\ Work(l, "grab", "cooldown")
  /\ Accepts(l) \/ Ignores
  /\ UNCHANGED <<expires, attempts, noBetter>>

(* Faulty: the reset takes one attempt back. *)
ResetByOne(l) ==
  /\ Work(l, "reset", "cooldown")
  /\ Alive(l)
  /\ attempts' = [attempts EXCEPT ![season[l]] = (@ + 1) - 2]
  /\ UNCHANGED <<took, expires, historyVars>>

(* wstate.Reset, after a grab and after parking. *)
Reset(l) ==
  /\ Work(l, "reset", "cooldown")
  /\ Alive(l)
  /\ attempts' = [attempts EXCEPT ![season[l]] = 0]
  /\ UNCHANGED <<took, expires, historyVars>>

(* The counter goes on from where it was. *)
ResetFails(l) ==
  /\ Work(l, "reset", "cooldown")
  /\ noBetter' = [noBetter EXCEPT ![season[l]] = Threshold]
  /\ UNCHANGED <<took, expires, attempts, quietUntil>>

(* wstate.Increment: an atomic upsert, then a read of the row. *)
Increment(l) ==
  /\ Work(l, "increment", "reread")
  /\ Alive(l) /\ attempts[season[l]] < MaxCount
  /\ attempts' = [attempts EXCEPT ![season[l]] = @ + 1]
  /\ UNCHANGED <<took, expires, historyVars>>

Reread(l) ==
  /\ Work(l, "reread", IF Threshold > 0 /\ attempts[season[l]] >= Threshold
                         THEN "park" ELSE "cooldown")
  /\ Alive(l)
  /\ UNCHANGED <<took, expires, attempts, historyVars>>

CounterFails(l) ==
  /\ \E p \in {"increment", "reread", "park"} : Work(l, p, "cooldown")
  /\ UNCHANGED <<took, expires, attempts, historyVars>>

Park(l) ==
  /\ Move(l, "park", "reset")
  /\ Alive(l)
  /\ parked' = parked \cup {season[l]}
  /\ noBetter' = [noBetter EXCEPT ![season[l]] = 0]
  /\ UNCHANGED <<now, settingVars, ctxDone, loopVars, expires, attempts,
                 quietUntil>>

(* Faulty: the cooldown counts from the start of the cycle. *)
CooldownFromStart(l) ==
  /\ Leave(l, "cooldown")
  /\ Alive(l)
  /\ expires' = [expires EXCEPT ![season[l]] = startedAt[l] + Cooldown]
  /\ UNCHANGED <<attempts, historyVars>>

(* activateCooldown, whatever became of the season. *)
CooldownSet(l) ==
  /\ Leave(l, "cooldown")
  /\ Alive(l)
  /\ expires' = [expires EXCEPT ![season[l]] = now + Cooldown]
  /\ UNCHANGED <<attempts, historyVars>>

(* The loops ls go without a cooldown: the seasons they grabbed last have no *)
(* row that lasts as long as theirs, and no other loop is to write one.      *)
LeftOpen(ls) ==
  {s \in Seasons :
     /\ \E l \in ls : took[l] /\ season[l] = s
     /\ \A k \in Loops \ ls : took[k] => season[k] # s
     /\ expires[s] < quietUntil[s]}

GiveUp(ls) ==
  quietUntil' = [s \in Seasons |-> IF s \in LeftOpen(ls) THEN 0 ELSE quietUntil[s]]

CooldownLost(l) ==
  /\ Leave(l, "cooldown")
  /\ GiveUp({l})
  /\ UNCHANGED <<expires, attempts, noBetter>>

-----------------------------------------------------------------------------
(* The environment. *)

(* The operator unblocks a season. *)
Unblock(s) ==
  /\ s \in parked
  /\ parked' = parked \ {s}
  /\ UNCHANGED <<now, settingVars, pc, ctxDone, loopVars, expires, attempts,
                 historyVars>>

Tick ==
  /\ now < MaxNow
  /\ now' = now + 1
  /\ quietUntil' = [s \in Seasons |-> IF quietUntil[s] <= now' THEN 0 ELSE quietUntil[s]]
  /\ UNCHANGED <<settingVars, pc, ctxDone, loopVars, storeVars, noBetter>>

(* SIGTERM cancels the parent of every loop. *)
Signal ==
  /\ stopping' = TRUE
  /\ ctxDone' = {l \in Loops : pc[l] # "off"}
  /\ UNCHANGED <<now, enabled, task, snap, current, pc, loopVars, storeVars,
                 historyVars>>

(* The process ends, anywhere, and boots: what is stored stays, and the     *)
(* first refresh starts a loop.                                             *)
Restart ==
  /\ task' = [f \in Refreshers |-> "load"]
  /\ snap' = [f \in Refreshers |-> "off"]
  /\ current' = None
  /\ stopping' = FALSE
  /\ pc' = [l \in Loops |-> "off"]
  /\ ctxDone' = {}
  /\ GiveUp(Loops)
  /\ noBetter' = [s \in Seasons |->
                    IF \E l \in Loops : pc[l] = "reset" /\ season[l] = s
                      THEN Threshold ELSE noBetter[s]]
  /\ startedAt' = [l \in Loops |-> 0]
  /\ todo' = [l \in Loops |-> {}]
  /\ seen' = [l \in Loops |-> {}]
  /\ season' = [l \in Loops |-> None]
  /\ took' = [l \in Loops |-> FALSE]
  /\ UNCHANGED <<now, enabled, storeVars>>

Refresh(f) ==
  Load(f) \/ SwapKeepsOrStops(f) \/ \E l \in Loops : SwapStarts(f, l)

EvaluateStep(l) ==
  \/ Gated(l) \/ GatePasses(l) \/ NotParked(l)
  \/ Replayed(l) \/ ReleaseGone(l) \/ ReplayFails(l)
  \/ SearchFinds(l) \/ SearchFails(l) \/ NothingBetter(l)

ActStep(l) ==
  \/ Grabbed(l) \/ GrabFails(l)
  \/ Reset(l) \/ ResetFails(l)
  \/ Increment(l) \/ Reread(l) \/ CounterFails(l) \/ Park(l)
  \/ CooldownSet(l) \/ CooldownLost(l)

LoopStep(l) ==
  \/ Exit(l) \/ TimerFires(l) \/ PollEnds(l)
  \/ CycleStarts(l) \/ CycleEnds(l)
  \/ \E t \in Torrents : TorrentSkipped(l, t) \/ TorrentPicked(l, t)
  \/ EvaluateStep(l) \/ ActStep(l)

Next ==
  \/ \E f \in Refreshers : PutSettings(f) \/ Publish(f) \/ Refresh(f)
  \/ \E l \in Loops : LoopStep(l)
  \/ \E s \in Seasons : Unblock(s)
  \/ Tick \/ Signal \/ Restart

Spec == Init /\ [][Next]_vars

(* A goroutine that has not ended moves on: this is WF_vars(LoopStep(l)),    *)
(* some step of which is enabled at every pc but "off", in a form TLC        *)
(* evaluates faster.                                                         *)
Scheduled(l) == []<>(pc[l] = "off") \/ []<><<pc'[l] # pc[l]>>_pc

(* Goroutines are scheduled and every call they make is bounded by a client *)
(* timeout; a select that is offered ctx.Done() again and again takes it    *)
(* (Go chooses among ready branches at random).  Requests, the clock and    *)
(* the process's end come when they come.                                   *)
LoopFair(l) == Scheduled(l) /\ SF_vars(Exit(l))

FairSpec == Spec /\ \A l \in Loops : LoopFair(l)

-----------------------------------------------------------------------------
(* The types of the state. *)
TypeOK ==
  /\ now \in Nat
  /\ enabled \in BOOLEAN /\ stopping \in BOOLEAN
  /\ task \in [Refreshers -> {"idle", "load", "swap"}]
  /\ snap \in [Refreshers -> {"on", "off"}]
  /\ current \in Loops \cup {None}
  /\ pc \in [Loops -> Waits \cup Cycle]
  /\ ctxDone \in SUBSET Loops
  /\ startedAt \in [Loops -> Nat]
  /\ todo \in [Loops -> SUBSET Torrents]
  /\ seen \in [Loops -> SUBSET Seasons]
  /\ season \in [Loops -> Seasons \cup {None}]
  /\ took \in [Loops -> BOOLEAN]
  /\ expires \in [Seasons -> Nat]
  /\ attempts \in [Seasons -> Nat]
  /\ parked \in SUBSET Seasons
  /\ quietUntil \in [Seasons -> Nat]
  /\ noBetter \in [Seasons -> Nat]

(* The first time Sonarr accepts a release in l's work on a season. *)
FirstTake(l) == ~took[l] /\ took'[l]

(* A loop that was cancelled and has not ended works beside its successor,  *)
(* and nothing keeps them off one season.  The cancelled one goes on from a *)
(* gate that its successor has closed since; or one of them has a release   *)
(* accepted before the other, which grabbed one, has come to its cooldown.  *)
Overlaps(l) ==
  \/ ~Alive(l) /\ expires[season[l]] > startedAt[l]
  \/ \E k \in Loops \ {l} : took[k] /\ season[k] = season[l]

(* The README's throttle, "Per-(series, season) re-evaluate cooldown": a    *)
(* season is grabbed again within the cooldown of the last grab only if the *)
(* row of that cooldown could not be written (the write was refused, its    *)
(* context was done, or the process ended before it), or the loop overlaps  *)
(* with one that was cancelled.  The replay and the grab of one evaluation  *)
(* count once.                                                              *)
Throttled ==
  [][\A l \in Loops :
       FirstTake(l) => now >= quietUntil[season[l]] \/ Overlaps(l)]_vars

(* A cancelled loop has grabbed a release of s and not come to its reset.   *)
ResetDue(s) == \E k \in ctxDone : pc[k] = "reset" /\ season[k] = s

(* A season is parked only after as many no-better verdicts since its last  *)
(* success as the settings ask for, unless a reset of its counter was lost, *)
(* or a cancelled loop is between its success and the reset.                *)
Parks(s) == s \notin parked /\ s \in parked'

ParkedForCause ==
  [][\A s \in Seasons : Parks(s) => noBetter[s] >= Threshold \/ ResetDue(s)]_vars

(* iterate's "the loop must survive arbitrary qBit / Sonarr failures": a     *)
(* registered loop polls again unless it is cancelled, and a cancelled one   *)
(* ends, wherever the cancel found it.                                       *)
Polls(l) == pc[l] = "tick" /\ Alive(l)
Ended(l) == pc[l] = "off" /\ (current # l \/ stopping)

LoopLive(l) == (current = l \/ l \in ctxDone) ~> (Polls(l) \/ Ended(l))
=============================================================================
