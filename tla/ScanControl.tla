------------------------------ MODULE ScanControl ------------------------------
(***************************************************************************)
(* Scans and rescans of the Sonarr instances: admission, the single-flight *)
(* slot of an instance, cancellation, the scan_run row, shutdown, restart  *)
(* (src/internal/catalog/app/scan/scan_usecase.go, rescan/                 *)
(* rescan_usecase.go, cmd/server/helpers.go, cmd/server/server.go).        *)
(*                                                                         *)
(* A run is one scan id.  Three kinds share the slots: a sync run (cron,   *)
(* startup) works on the caller's goroutine and context, an async run and  *)
(* a rescan on a goroutine of their own whose context only Cancel fires.   *)
(* The walk over series and seasons is one state here, left by one step.   *)
(***************************************************************************)
EXTENDS Naturals

CONSTANTS
  Instances,
  SyncRuns, AsyncRuns, Rescans,   \* scan ids, by the way they are started
  Inst,                           \* the instance of each run
  Decisions,
  Target,                         \* the decision each rescan supersedes
  None                            \* an empty slot, a decision without successor

Runs == SyncRuns \cup AsyncRuns \cup Rescans
Scans == SyncRuns \cup AsyncRuns

ASSUME RunsAssumption ==
  /\ SyncRuns \cap AsyncRuns = {} /\ Scans \cap Rescans = {}
  /\ Inst \in [Runs -> Instances]
  /\ Target \in [Rescans -> Decisions]
  /\ None \notin Runs

VARIABLES
  health,      \* health[i]: the registry says Available or SelfThrottled
  slot,        \* slot[i]: the run in the inflight map, or None
  armed,       \* armed[i]: the slot's CancelFunc is the run's, not the no-op
  pc,          \* pc[r]: where run r is
  row,         \* row[r]: status column of r's scan_runs row
  verdict,     \* verdict[r]: the status finalize* is about to write
  ctxDone,     \* runs whose context is done
  lost,        \* runs with a DB error while they wrote their end
  successor,   \* successor[d]: the run of decision d's superseded_by_id
  saved,       \* rescans whose new decision is stored
  phase,       \* "up", then the steps of Server.Shutdown, "down"
  toMark       \* runs waitForScans still has to mark aborted

runVars == <<pc, row, verdict, lost, successor, saved>>
slotVars == <<slot, armed>>
downVars == <<phase, toMark>>
vars == <<health, slot, armed, pc, row, verdict, ctxDone, lost, successor,
          saved, phase, toMark>>

Terminal == {"completed", "failed", "aborted", "cancelled"}
Prelude == {"acquired", "created", "superseded"}
Work == {"listing", "tagging", "walking", "calling"}
Closing == {"finalizing", "marking", "rollback", "releasing"}
Working == Prelude \cup Work \cup Closing

Init ==
  /\ health = [i \in Instances |-> FALSE]      \* Bootstrapping
  /\ slot = [i \in Instances |-> None]
  /\ armed = [i \in Instances |-> FALSE]
  /\ pc = [r \in Runs |-> "idle"]
  /\ row = [r \in Runs |-> "none"]
  /\ verdict = [r \in Runs |-> "none"]
  /\ ctxDone = {}
  /\ lost = {}
  /\ successor = [d \in Decisions |-> None]
  /\ saved = {}
  /\ phase = "up"
  /\ toMark = {}

Move(r, from, to) == pc[r] = from /\ pc' = [pc EXCEPT ![r] = to]

-----------------------------------------------------------------------------
(* Admission: a request or a tick, the checks, the slot, the row. *)

(* The health gate of startOne and runOne. *)
GateScan(r) ==
  /\ phase = "up" /\ r \in Scans
  /\ health[Inst[r]]
  /\ Move(r, "idle", "gated")
  /\ UNCHANGED <<health, slotVars, row, verdict, ctxDone, lost, successor,
                 saved, downVars>>

(* rescan.Start reads the decision: not superseded, not executed. *)
GateRescan(r) ==
  /\ phase = "up" /\ r \in Rescans
  /\ successor[Target[r]] = None
  /\ Move(r, "idle", "gated")
  /\ UNCHANGED <<health, slotVars, row, verdict, ctxDone, lost, successor,
                 saved, downVars>>

(* Faulty: the slot is taken whoever holds it. *)
AcquireBlindly(r) ==
  /\ Move(r, "gated", "acquired")
  /\ slot' = [slot EXCEPT ![Inst[r]] = r]
  /\ armed' = [armed EXCEPT ![Inst[r]] = FALSE]
  /\ UNCHANGED <<health, row, verdict, ctxDone, lost, successor, saved,
                 downVars>>

Acquire(r) ==
  /\ slot[Inst[r]] = None
  /\ Move(r, "gated", "acquired")
  /\ slot' = [slot EXCEPT ![Inst[r]] = r]
  /\ armed' = [armed EXCEPT ![Inst[r]] = FALSE]
  /\ UNCHANGED <<health, row, verdict, ctxDone, lost, successor, saved,
                 downVars>>

(* ErrScanAlreadyRunning: the caller gets a conflict. *)
Conflict(r) ==
  /\ slot[Inst[r]] # None
  /\ Move(r, "gated", "idle")
  /\ UNCHANGED <<health, slotVars, row, verdict, ctxDone, lost, successor,
                 saved, downVars>>

(* scans.Create; only a sync run writes with a context that can be done. *)
Create(r) ==
  /\ r \notin ctxDone
  /\ Move(r, "acquired", IF r \in SyncRuns THEN "listing" ELSE "created")
  /\ row' = [row EXCEPT ![r] = "running"]
  /\ UNCHANGED <<health, slotVars, verdict, ctxDone, lost, successor, saved,
                 downVars>>

(* Faulty: the slot is kept when the row cannot be written. *)
CreateFailsKeepingSlot(r) ==
  /\ Move(r, "acquired", "done")
  /\ UNCHANGED <<health, slotVars, row, verdict, ctxDone, lost, successor,
                 saved, downVars>>

CreateFails(r) ==
  /\ Move(r, "acquired", "releasing")
  /\ UNCHANGED <<health, slotVars, row, verdict, ctxDone, lost, successor,
                 saved, downVars>>

(* Faulty: the original is pointed at itself. *)
SupersedeItself(r) ==
  /\ r \in Rescans
  /\ Move(r, "created", "superseded")
  /\ successor' = [successor EXCEPT ![Target[r]] = Target[r]]
  /\ UNCHANGED <<health, slotVars, row, verdict, ctxDone, lost, saved,
                 downVars>>

(* UpdateSupersededBy points the original at the decision to come. *)
Supersede(r) ==
  /\ r \in Rescans
  /\ Move(r, "created", "superseded")
  /\ successor' = [successor EXCEPT ![Target[r]] = r]
  /\ UNCHANGED <<health, slotVars, row, verdict, ctxDone, lost, saved,
                 downVars>>

SupersedeFails(r) ==
  /\ r \in Rescans
  /\ Move(r, "created", "finalizing")
  /\ verdict' = [verdict EXCEPT ![r] = "failed"]
  /\ UNCHANGED <<health, slotVars, row, ctxDone, lost, successor, saved,
                 downVars>>

(* setInflightCancel, then the goroutine is spawned. *)
Arm(r) ==
  /\ \/ r \in AsyncRuns /\ Move(r, "created", "listing")
     \/ r \in Rescans /\ Move(r, "superseded", "calling")
  /\ armed' = [armed EXCEPT ![Inst[r]] = TRUE]
  /\ UNCHANGED <<health, slot, row, verdict, ctxDone, lost, successor, saved,
                 downVars>>

-----------------------------------------------------------------------------
(* The work: processScan, or the rescan's calls.  A call answered after its *)
(* context is done returns the context's error.                             *)

Decide(r, from, status) ==
  /\ Move(r, from, "finalizing")
  /\ verdict' = [verdict EXCEPT ![r] = status]

(* ListSeries, then buildTagFilter, answer. *)
Listed(r) ==
  /\ r \in Scans /\ r \notin ctxDone
  /\ Move(r, "listing", "tagging")
  /\ UNCHANGED <<health, slotVars, row, verdict, ctxDone, lost, successor,
                 saved, downVars>>

(* A failed ListTags is ignored when the include list is empty. *)
Tagged(r) ==
  /\ Move(r, "tagging", "walking")
  /\ UNCHANGED <<health, slotVars, row, verdict, ctxDone, lost, successor,
                 saved, downVars>>

PrefetchFails(r) ==
  /\ \E p \in {"listing", "tagging"} : Decide(r, p, "failed")
  /\ UNCHANGED <<health, slotVars, row, ctxDone, lost, successor, saved,
                 downVars>>

(* Any call may be refused with 401 or 403. *)
Unauthorized(r) ==
  /\ \E p \in {"listing", "tagging", "walking"} : Decide(r, p, "aborted")
  /\ UNCHANGED <<health, slotVars, row, ctxDone, lost, successor, saved,
                 downVars>>

(* Three grabs failed in a row: the instance is marked unavailable. *)
GrabStreak(r) ==
  /\ Decide(r, "walking", "failed")
  /\ health' = [health EXCEPT ![Inst[r]] = FALSE]
  /\ UNCHANGED <<slotVars, row, ctxDone, lost, successor, saved,
                 downVars>>

(* The series loop ends: the list is walked, or the context is done. *)
WalkEnds(r) ==
  /\ Decide(r, "walking", IF r \in ctxDone THEN "cancelled" ELSE "completed")
  /\ UNCHANGED <<health, slotVars, row, ctxDone, lost, successor, saved,
                 downVars>>

(* The evaluator stored the new decision. *)
RescanEvaluated(r) ==
  /\ r \in Rescans /\ r \notin ctxDone
  /\ Decide(r, "calling", "completed")
  /\ saved' = saved \cup {r}
  /\ UNCHANGED <<health, slotVars, row, ctxDone, lost, successor,
                 downVars>>

(* A call or the evaluator failed; a failed search stores an error decision. *)
RescanFails(r) ==
  /\ r \in Rescans
  /\ Decide(r, "calling", "failed")
  /\ \/ saved' = saved \cup {r} /\ r \notin ctxDone
     \/ UNCHANGED saved
  /\ UNCHANGED <<health, slotVars, row, ctxDone, lost, successor,
                 downVars>>

-----------------------------------------------------------------------------
(* The end: finalize* on a detached context, then the slot. *)

(* failAndRollback, unless the rescan failed before its goroutine started;  *)
(* MarkUnavailable after the write of "aborted".                            *)
AfterSave(r) ==
  CASE verdict[r] = "aborted" -> "marking"
    [] r \in Rescans /\ verdict[r] = "failed" /\ armed[Inst[r]] -> "rollback"
    [] OTHER -> "releasing"

(* Faulty saves: on the run's own context, without the rollback, and with a *)
(* cancelled walk that falls through to the completed update.               *)
SaveOnRunContext(r) ==
  /\ Move(r, "finalizing", AfterSave(r))
  /\ row' = IF r \in ctxDone THEN row ELSE [row EXCEPT ![r] = verdict[r]]
  /\ UNCHANGED <<health, slotVars, verdict, ctxDone, lost, successor, saved,
                 downVars>>

SaveSkipsRollback(r) ==
  /\ r \in Rescans
  /\ Move(r, "finalizing", IF verdict[r] = "aborted" THEN "marking" ELSE "releasing")
  /\ row' = [row EXCEPT ![r] = verdict[r]]
  /\ UNCHANGED <<health, slotVars, verdict, ctxDone, lost, successor, saved,
                 downVars>>

SaveFallsThrough(r) ==
  /\ Move(r, "finalizing", IF verdict[r] = "cancelled" THEN "finalizing" ELSE AfterSave(r))
  /\ row' = [row EXCEPT ![r] = verdict[r]]
  /\ verdict' = [verdict EXCEPT ![r] = IF @ = "cancelled" THEN "completed" ELSE @]
  /\ UNCHANGED <<health, slotVars, ctxDone, lost, successor, saved,
                 downVars>>

(* scans.Update saves the whole row, or fails and is logged. *)
Save(r) ==
  /\ Move(r, "finalizing", AfterSave(r))
  /\ row' = [row EXCEPT ![r] = verdict[r]]
  /\ UNCHANGED <<health, slotVars, verdict, ctxDone, lost, successor, saved,
                 downVars>>

SaveFails(r) ==
  /\ Move(r, "finalizing", AfterSave(r))
  /\ lost' = lost \cup {r}
  /\ UNCHANGED <<health, slotVars, row, verdict, ctxDone, successor, saved,
                 downVars>>

(* finalizeScanAborted: MarkUnavailable(UnavailableAuth). *)
MarkAuth(r) ==
  /\ Move(r, "marking", "releasing")
  /\ health' = [health EXCEPT ![Inst[r]] = FALSE]
  /\ UNCHANGED <<slotVars, row, verdict, ctxDone, lost, successor, saved,
                 downVars>>

(* failAndRollback: ClearSupersededBy, whatever the column holds. *)
Rollback(r) ==
  /\ r \in Rescans
  /\ Move(r, "rollback", "releasing")
  /\ \/ successor' = [successor EXCEPT ![Target[r]] = None] /\ UNCHANGED lost
     \/ lost' = lost \cup {r} /\ UNCHANGED successor
  /\ UNCHANGED <<health, slotVars, row, verdict, ctxDone, saved,
                 downVars>>

(* release deletes the entry, whoever it names, and the goroutine ends. *)
Release(r) ==
  /\ Move(r, "releasing", "done")
  /\ slot' = [slot EXCEPT ![Inst[r]] = None]
  /\ armed' = [armed EXCEPT ![Inst[r]] = FALSE]
  /\ verdict' = [verdict EXCEPT ![r] = "none"]
  /\ ctxDone' = ctxDone \ {r}
  /\ UNCHANGED <<health, row, lost, successor, saved, downVars>>

-----------------------------------------------------------------------------
(* The environment: health checks, cancel requests, shutdown, restart. *)

(* The checker's probe or the registry's seed decides the health. *)
HealthCheck(i) ==
  /\ phase = "up"
  /\ \E h \in BOOLEAN : health' = [health EXCEPT ![i] = h]
  /\ UNCHANGED <<slotVars, runVars, ctxDone, downVars>>

(* Cancel finds the slot by scan id and fires its CancelFunc. *)
Cancel(r) ==
  /\ phase = "up"
  /\ slot[Inst[r]] = r
  /\ ctxDone' = IF armed[Inst[r]] THEN ctxDone \cup {r} ELSE ctxDone
  /\ UNCHANGED <<health, slotVars, runVars, downVars>>

(* SIGTERM cancels the root context, the parent of every sync run; a dead   *)
(* HTTP listener does not.  Shutdown then waits for the scans.              *)
Signal ==
  /\ phase = "up"
  /\ phase' = "waiting_signal"
  /\ ctxDone' = ctxDone \cup SyncRuns
  /\ UNCHANGED <<health, slotVars, runVars, toMark>>

ServerDies ==
  /\ phase = "up"
  /\ phase' = "waiting"
  /\ UNCHANGED <<health, slotVars, runVars, ctxDone, toMark>>

Waiting == phase \in {"waiting", "waiting_signal"}
Marking == phase \in {"marking", "marking_signal"}
InFlight == {slot[i] : i \in Instances} \ {None}

(* IsAnyRunning turns false: rootCancel, then the drains. *)
Drain ==
  /\ \/ Waiting /\ InFlight = {}
     \/ Marking /\ toMark = {}
  /\ phase' = "draining"
  /\ ctxDone' = ctxDone \cup SyncRuns
  /\ UNCHANGED <<health, slotVars, runVars, toMark>>

(* Faulty: the grace never expires. *)
GraceIgnored == FALSE /\ UNCHANGED vars

(* The grace is over: a snapshot of the slots is marked one by one. *)
GraceOver ==
  /\ Waiting /\ InFlight # {}
  /\ phase' = IF phase = "waiting" THEN "marking" ELSE "marking_signal"
  /\ toMark' = InFlight
  /\ UNCHANGED <<health, slotVars, runVars, ctxDone>>

(* MarkAborted uses the context Shutdown was given, which is the one the    *)
(* signal cancelled; with a live one it updates the row if it exists.       *)
MarkAborted(r) ==
  /\ Marking /\ r \in toMark
  /\ toMark' = toMark \ {r}
  /\ row' = IF phase = "marking" /\ row[r] # "none"
              THEN [row EXCEPT ![r] = "aborted"] ELSE row
  /\ UNCHANGED <<health, slotVars, pc, verdict, ctxDone, lost, successor,
                 saved, phase>>

(* The process ends: after the drains, which are bounded, or by a crash. *)
Dies ==
  /\ phase # "down"
  /\ phase' = "down"
  /\ slot' = [i \in Instances |-> None]
  /\ armed' = [i \in Instances |-> FALSE]
  /\ health' = [i \in Instances |-> FALSE]
  /\ pc' = [r \in Runs |-> IF pc[r] \in Working THEN "dead"
                           ELSE IF pc[r] = "gated" THEN "idle" ELSE pc[r]]
  /\ verdict' = [r \in Runs |-> "none"]
  /\ ctxDone' = {} /\ toMark' = {}
  /\ UNCHANGED <<row, lost, successor, saved>>

Exit == phase = "draining" /\ Dies
Crash == phase # "draining" /\ Dies

Restart ==
  /\ phase = "down"
  /\ phase' = "up"
  /\ UNCHANGED <<health, slotVars, runVars, ctxDone, toMark>>

-----------------------------------------------------------------------------
Admit(r) == GateScan(r) \/ GateRescan(r)

RunStep(r) ==
  \/ Acquire(r) \/ Conflict(r) \/ Create(r) \/ CreateFails(r)
  \/ Supersede(r) \/ SupersedeFails(r) \/ Arm(r)
  \/ Listed(r) \/ Tagged(r) \/ PrefetchFails(r) \/ Unauthorized(r)
  \/ GrabStreak(r) \/ WalkEnds(r) \/ RescanEvaluated(r) \/ RescanFails(r)
  \/ Save(r) \/ SaveFails(r) \/ MarkAuth(r) \/ Rollback(r) \/ Release(r)

ShutdownStep == Drain \/ GraceOver \/ (\E r \in Runs : MarkAborted(r)) \/ Exit

Next ==
  \/ \E r \in Runs : Admit(r) \/ RunStep(r) \/ Cancel(r)
  \/ \E i \in Instances : HealthCheck(i)
  \/ Signal \/ ServerDies \/ ShutdownStep \/ Crash \/ Restart

Spec == Init /\ [][Next]_vars

(* Shutdown's waits are bounded by the grace and the drain timeouts,        *)
(* whatever the runs do.                                                    *)
FairSpec == Spec /\ WF_vars(ShutdownStep)

(* A started run keeps stepping: goroutines are scheduled, every outbound   *)
(* call has a client timeout and a walk is over a finite list.              *)
RunsFair == \A r \in Runs : WF_vars(RunStep(r))

-----------------------------------------------------------------------------
(* The types of the state. *)
TypeOK ==
  /\ health \in [Instances -> BOOLEAN]
  /\ slot \in [Instances -> Runs \cup {None}]
  /\ armed \in [Instances -> BOOLEAN]
  /\ pc \in [Runs -> Working \cup {"idle", "gated", "done", "dead"}]
  /\ row \in [Runs -> Terminal \cup {"none", "running"}]
  /\ verdict \in [Runs -> Terminal \cup {"none"}]
  /\ ctxDone \subseteq Runs /\ lost \subseteq Runs
  /\ saved \subseteq Rescans
  /\ successor \in [Decisions -> Rescans \cup {None}]
  /\ phase \in {"up", "waiting", "waiting_signal", "marking", "marking_signal",
                "draining", "down"}
  /\ toMark \subseteq Runs

(* Single flight: a slot names exactly the run that is between acquire and  *)
(* release on its instance, so two runs never work on one instance, though  *)
(* release and setInflightCancel never look at whose entry they change.     *)
SlotHeld == \A r \in Runs : pc[r] \in Working <=> slot[Inst[r]] = r

(* A run that has freed its slot has a settled row, however it ended and    *)
(* whenever its context was cancelled, unless the database refused the last *)
(* write: a follow-up run never meets a row still "running" of a live       *)
(* process (the worry of the detached write contexts and the defer order).  *)
RowSettledBeforeSlot ==
  \A r \in Runs : pc[r] \in {"releasing", "done"} /\ row[r] = "running" => r \in lost

(* A rescan that failed takes its pointer off the decision before it frees  *)
(* the slot, whichever step of its prelude or its work failed.              *)
PointerSettledBeforeSlot ==
  \A r \in Rescans :
    pc[r] = "releasing" /\ successor[Target[r]] = r
      => verdict[r] = "completed" \/ r \in lost

(* rest/rescan.go sends the operator to "the successor": a decision is      *)
(* superseded only by a stored decision or one in the making, unless the    *)
(* rescan died with the process or could not write its end.                 *)
SuccessorReal ==
  \A d \in Decisions :
    \/ successor[d] \in saved \cup lost \cup {None}
    \/ pc[successor[d]] \in Working \cup {"dead"}

(* A settled status changes only while a shutdown marks rows.               *)
StatusWrittenOnce ==
  [][\A r \in Runs :
       row[r] \in Terminal /\ row'[r] # row[r] => Marking \/ phase = "draining"]_vars

(* Every slot that is taken is freed: no end of a run forgets the release.  *)
SlotFrees == RunsFair => \A i \in Instances : slot[i] # None ~> slot[i] = None

(* Every accepted run's row leaves "running", unless the process dies or    *)
(* the database refuses the write.                                          *)
RowSettles ==
  RunsFair => \A r \in Runs :
    row[r] = "running" ~> (row[r] # "running" \/ r \in lost \/ pc[r] = "dead")

(* Shutdown ends even when the runs in flight never finish.                 *)
ShutdownEnds == Waiting ~> phase = "down"

=============================================================================
