------------------------------- MODULE ScanWalk -------------------------------
(***************************************************************************)
(* The walk of a scan over series and seasons (processScan of              *)
(* src/internal/catalog/app/scan/scan_usecase.go), and grabs by hand       *)
(* (src/internal/grab/rest/grab.go) beside it.                             *)
(*                                                                         *)
(* One instance: its slot admits one scan at a time, so one row is in use. *)
(* Ranking, filters and file counts are choices; dry runs do not grab and  *)
(* are left out.  What the walk does when its scan is admitted, cancelled  *)
(* before it lists, or shut down is in ScanControl.                        *)
(***************************************************************************)
EXTENDS GrabUse, Sequences

CONSTANTS
  Walker,        \* the scan, one of the callers; the others are HTTP calls
  Library,       \* series of the instance, each a sequence of its seasons
  MaxGrabs,      \* max_grabs_per_scan
  MaxSeries,     \* scan_max_series
  StreakLimit,   \* failures in a row that end the scan, three in the code
  MaxScans,      \* bound on the scans
  MaxClicks      \* bound on the grabs by hand

Once(seasons) == \A i, j \in DOMAIN seasons : seasons[i] = seasons[j] => i = j

ASSUME ScanWalkAssumption ==
  /\ Walker \in Callers
  /\ Library \in Seq(Seq(Seasons))
  /\ \A n \in DOMAIN Library : Once(Library[n])
  /\ MaxGrabs \in Nat \ {0} /\ MaxSeries \in Nat \ {0} /\ StreakLimit \in Nat \ {0}
  /\ MaxScans \in Nat /\ MaxClicks \in Nat

VARIABLES
  pc,          \* where the walk is
  ahead,       \* series not yet reached
  left,        \* seasons of the current series, the current one first
  snapshot,    \* cooldowns of the current series, as read in one batch
  tally,       \* the counters of the walk
  row,         \* scan_run row of the latest scan
  health,      \* of the instance
  scans, clicks   \* how many there were

walkVars == <<pc, ahead, left, snapshot, tally>>
boundVars == <<scans, clicks>>
vars == <<grabVars, walkVars, row, health, boundVars>>

Handlers == Callers \ {Walker}
NoTally == [scanned |-> 0, grabs |-> 0, fails |-> 0, streak |-> 0]
Row(status, t) == [status |-> status, scanned |-> t.scanned, grabs |-> t.grabs, fails |-> t.fails]

Init ==
  /\ GrabInit
  /\ pc = "idle" /\ ahead = <<>> /\ left = <<>> /\ snapshot = {} /\ tally = NoTally
  /\ row = Row("none", NoTally)
  /\ health = "available"
  /\ scans = 0 /\ clicks = 0

-----------------------------------------------------------------------------
(* A scan begins and ends. *)

Start ==
  /\ pc = "idle" /\ health = "available" /\ scans < MaxScans
  /\ scans' = scans + 1
  /\ row' = Row("running", NoTally)
  /\ pc' = "listing" /\ ahead' = Library /\ left' = <<>> /\ snapshot' = {} /\ tally' = NoTally
  /\ dead' = dead \ {Walker}
  /\ stored' = [stored EXCEPT ![Walker] = 0]
  /\ taken' = [taken EXCEPT ![Walker] = 0]
  /\ UNCHANGED <<exec, cooldownVars, stale, health, clicks>>

(* A terminal Update of the row; it has a context of its own, an error is   *)
(* only logged.                                                            *)
Finalize(status, t) ==
  /\ row' = Row(status, t) \/ UNCHANGED row
  /\ pc' = "idle"

restOfGrab == <<dead, cooldownVars, countVars>>
LetGo(x) == /\ exec' = [exec EXCEPT ![x] = NoGrab]
            /\ stale' = [stale EXCEPT ![x] = {}]
Emptied == left' = <<>> /\ ahead' = <<>> /\ snapshot' = {} /\ tally' = NoTally
AtEnd == LetGo(Walker) /\ Emptied

(* finalizeScanAborted. *)
Abort(t) == Finalize("aborted", t) /\ health' = "auth" /\ AtEnd

(* A 401 on a read: the row is saved as it was loaded, without the counters. *)
ReadUnauthorized ==
  /\ pc \in {"listing", "series", "season"} /\ Live(Walker)
  /\ pc = "series" => ahead # <<>> /\ tally.scanned < MaxSeries
  /\ pc = "season" => left # <<>> /\ Head(left) \notin snapshot
  /\ Abort(NoTally)
  /\ UNCHANGED <<restOfGrab, boundVars>>

(* Series or tags cannot be listed, also because of a cancel. *)
ListFails ==
  /\ pc = "listing"
  /\ Finalize("failed", NoTally) /\ AtEnd
  /\ UNCHANGED <<restOfGrab, health, boundVars>>

Listed ==
  /\ pc = "listing" /\ Live(Walker)
  /\ pc' = "series"
  /\ UNCHANGED <<grabVars, ahead, left, snapshot, tally, row, health, boundVars>>

(* The loop is over or stops at its check of the context. *)
WalkEnds ==
  /\ pc = "series"
  /\ ahead = <<>> \/ tally.scanned >= MaxSeries \/ ~Live(Walker)
  /\ Finalize(IF Live(Walker) THEN "completed" ELSE "cancelled", tally) /\ AtEnd
  /\ UNCHANGED <<restOfGrab, health, boundVars>>

-----------------------------------------------------------------------------
(* Series. *)

AtSeries == pc = "series" /\ ahead # <<>> /\ tally.scanned < MaxSeries /\ Live(Walker)
Counted == [tally EXCEPT !.scanned = @ + 1]

(* Skipped by its tags or without monitored seasons; or counted, but        *)
(* complete, or its profile or files cannot be read.                        *)
PassSeries ==
  /\ AtSeries
  /\ ahead' = Tail(ahead)
  /\ tally' \in {tally, Counted}
  /\ UNCHANGED <<grabVars, pc, left, snapshot, row, health, boundVars>>

InSeries(seasons) == {seasons[i] : i \in DOMAIN seasons}

Enter ==
  /\ AtSeries
  /\ ahead' = Tail(ahead) /\ left' = Head(ahead)
  /\ tally' = Counted
  /\ pc' = "season"
  /\ Goes(Walker, "looking")

(* Faulty: only the first series has its cooldowns looked up. *)
OpenSeriesOnce ==
  /\ Enter
  /\ snapshot' = IF tally.scanned = 0 THEN cooled \cap InSeries(Head(ahead)) ELSE snapshot
  /\ stale' = [stale EXCEPT ![Walker] = {}]
  /\ UNCHANGED <<restOfGrab, row, health, boundVars>>

(* The active cooldowns of all its seasons are read at once. *)
OpenSeries ==
  /\ Enter
  /\ snapshot' = cooled \cap InSeries(Head(ahead))
  /\ stale' = [stale EXCEPT ![Walker] = {}]
  /\ UNCHANGED <<restOfGrab, row, health, boundVars>>

(* That read fails: no season counts as cooled down. *)
OpenSeriesBlind ==
  /\ Enter
  /\ snapshot' = {}
  /\ stale' = [stale EXCEPT ![Walker] = cooled \cap InSeries(Head(ahead))]
  /\ UNCHANGED <<restOfGrab, row, health, boundVars>>

SeriesEnds ==
  /\ pc = "season" /\ left = <<>>
  /\ pc' = "series" /\ snapshot' = {} /\ LetGo(Walker)
  /\ UNCHANGED <<restOfGrab, ahead, left, tally, row, health, boundVars>>

-----------------------------------------------------------------------------
(* Seasons. *)

(* Complete, cooled down, unreadable, nothing selected, or the limit of     *)
(* grabs is reached.                                                       *)
PassSeason ==
  /\ pc = "season" /\ left # <<>>
  /\ left' = Tail(left)
  /\ UNCHANGED <<grabVars, pc, ahead, snapshot, tally, row, health, boundVars>>

Choices == {r \in Releases : SeasonOf[r] = Head(left)}
Looked(r) == stale' = [stale EXCEPT ![Walker] = @ \ {r}]
Blind(r) == stale' = [stale EXCEPT ![Walker] = @ \cup ({r} \cap barred)]

(* The evaluator selects a release that has no cooldown, or any if it could *)
(* not look.                                                               *)
Select ==
  /\ pc = "season" /\ left # <<>> /\ Head(left) \notin snapshot
  /\ Live(Walker) /\ tally.grabs < MaxGrabs
  /\ \E r \in Choices :
       /\ Begin(Walker, r)
       /\ (r \notin barred /\ Looked(r)) \/ Blind(r)
  /\ pc' = "grabbing"
  /\ UNCHANGED <<restOfGrab, ahead, left, snapshot, tally, row, health, boundVars>>

Returned(outcomes) == pc = "grabbing" /\ At(Walker, "returned") /\ exec[Walker].outcome \in outcomes
Cleared == /\ exec' = [exec EXCEPT ![Walker] = [NoGrab EXCEPT !.pc = "looking"]]
           /\ stale' = [stale EXCEPT ![Walker] = @ \cap Seasons]

GrabSucceeded ==
  /\ Returned({"ok"}) /\ Cleared
  /\ tally' = [tally EXCEPT !.grabs = @ + 1, !.streak = 0]
  /\ pc' = "season" /\ left' = Tail(left)
  /\ UNCHANGED <<restOfGrab, ahead, snapshot, row, health, boundVars>>

Failure == [tally EXCEPT !.fails = @ + 1, !.streak = @ + 1]

(* Faulty: a failure starts the streak over. *)
GrabFailedForgets ==
  /\ Returned({"failed"}) /\ Cleared
  /\ Failure.streak < StreakLimit
  /\ tally' = [Failure EXCEPT !.streak = 0]
  /\ pc' = "season" /\ left' = Tail(left)
  /\ UNCHANGED <<restOfGrab, ahead, snapshot, row, health, boundVars>>

GrabFailed ==
  /\ Returned({"failed"}) /\ Cleared
  /\ Failure.streak < StreakLimit
  /\ tally' = Failure
  /\ pc' = "season" /\ left' = Tail(left)
  /\ UNCHANGED <<restOfGrab, ahead, snapshot, row, health, boundVars>>

(* The last of a streak, also when a cancel made it fail. *)
StreakEnds ==
  /\ Returned({"failed"})
  /\ Failure.streak >= StreakLimit
  /\ health' = "unknown"
  /\ Finalize("failed", Failure) /\ AtEnd
  /\ UNCHANGED <<restOfGrab, boundVars>>

GrabUnauthorized ==
  /\ Returned({"unauthorized"})
  /\ Abort(Failure)
  /\ UNCHANGED <<restOfGrab, boundVars>>

WalkStep ==
  \/ ReadUnauthorized \/ ListFails \/ Listed \/ WalkEnds
  \/ PassSeries \/ OpenSeries \/ OpenSeriesBlind \/ SeriesEnds
  \/ PassSeason \/ Select
  \/ GrabSucceeded \/ GrabFailed \/ StreakEnds \/ GrabUnauthorized

-----------------------------------------------------------------------------
(* Grabs by hand. *)

Clear(r) == r \notin open /\ SeasonOf[r] \notin cooled /\ r \notin barred

(* ByDecision: no open record of the release, no cooldown; an unreadable    *)
(* one is an error.                                                        *)
Click(h, r) ==
  /\ At(h, "idle") /\ clicks < MaxClicks
  /\ Clear(r)
  /\ clicks' = clicks + 1
  /\ Begin(h, r)
  /\ UNCHANGED <<dead, cooldownVars, countVars, stale, walkVars, row, health, scans>>

Answer(h) ==
  /\ At(h, "returned")
  /\ LetGo(h)
  /\ dead' = dead \ {h}
  /\ stored' = [stored EXCEPT ![h] = 0]
  /\ taken' = [taken EXCEPT ![h] = 0]
  /\ UNCHANGED <<cooldownVars, walkVars, row, health, boundVars>>

-----------------------------------------------------------------------------
(* Surroundings. *)

HealthCheck ==
  /\ health # "available"
  /\ health' = "available"
  /\ UNCHANGED <<grabVars, walkVars, row, boundVars>>

KeptForScan(f, zero) == [x \in Callers |-> IF x = Walker THEN f[x] ELSE zero]

(* The process dies and starts again: the row keeps its status.             *)
Dies ==
  /\ exec' = [x \in Callers |-> NoGrab] /\ dead' = {}
  /\ pc' = "idle" /\ Emptied
  /\ stored' = KeptForScan(stored, 0)
  /\ taken' = KeptForScan(taken, 0)
  /\ stale' = [x \in Callers |-> {}]
  /\ health' = "available"
  /\ pc # "idle" \/ \E x \in Callers : ~At(x, "idle")
  /\ UNCHANGED <<cooldownVars, row, boundVars>>

OnGrab == UNCHANGED <<walkVars, row, health, boundVars>>
Busy(x) == IF x = Walker THEN pc # "idle" ELSE ~At(x, "idle")

Next ==
  \/ Start \/ WalkStep
  \/ \E x \in Callers : GrabStep(x) /\ OnGrab
  \/ \E h \in Handlers, r \in Releases : Click(h, r)
  \/ \E h \in Handlers : Answer(h)
  \/ \E k \in Seasons \cup Releases : Expire(k) /\ OnGrab
  \/ \E r \in Releases : Close(r) /\ OnGrab
  \/ \E x \in Callers : Busy(x) /\ ContextEnds(x) /\ OnGrab
  \/ HealthCheck \/ Dies

Spec == Init /\ [][Next]_vars

-----------------------------------------------------------------------------
TypeOK ==
  /\ GrabTypeOK
  /\ pc \in {"idle", "listing", "series", "season", "grabbing"}
  /\ ahead \in Seq(Seq(Seasons)) /\ left \in Seq(Seasons) /\ snapshot \subseteq Seasons
  /\ tally \in [scanned : 0 .. MaxSeries, grabs : 0 .. MaxGrabs, fails : Nat,
                streak : 0 .. StreakLimit - 1]
  /\ row \in [status : {"none", "running", "completed", "cancelled", "failed", "aborted"},
              scanned : Nat, grabs : Nat, fails : Nat]
  /\ health \in {"available", "unknown", "auth"}
  /\ scans \in 0 .. MaxScans /\ clicks \in 0 .. MaxClicks

(* max_grabs_per_scan and the streak together bound what one scan does to   *)
(* Sonarr, also if every answer is lost: no place in the code states it.    *)
FailuresOfScan == (StreakLimit - 1) * MaxGrabs + 1
ScanBounded ==
  /\ row.fails <= FailuresOfScan /\ tally.fails <= FailuresOfScan
  /\ taken[Walker] <= MaxAttempts * (MaxGrabs + FailuresOfScan)

(* The counters of a row that ended agree with the grab records of its run, *)
(* and every release Sonarr took is an attempt of a counted grab.  A run    *)
(* that a 401 ended is left out: on a read it loses its counters.           *)
Accounts(c) ==
  /\ c.grabs = stored[Walker]
  /\ taken[Walker] <= MaxAttempts * (c.grabs + c.fails)
CountersAgree == row.status \in {"completed", "cancelled", "failed"} => Accounts(row)

=============================================================================
