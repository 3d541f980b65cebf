--------------------------- MODULE ScanControlProofs ---------------------------
(***************************************************************************)
(* Proofs about ScanControl for any instances, runs and decisions: single  *)
(* flight, the rows and pointers that are settled when a slot is freed,    *)
(* and the statuses that are written once.                                 *)
(***************************************************************************)
EXTENDS ScanControl, TLAPS

(* A run has no row before Create, and a status is settled only at its end  *)
(* or by a shutdown that marks rows.                                        *)
RowFollowsRun ==
  \A r \in Runs :
    /\ pc[r] \in {"idle", "gated", "acquired"} => row[r] = "none"
    /\ row[r] \in Terminal =>
         \/ pc[r] \in {"marking", "rollback", "releasing", "done", "dead"}
         \/ phase \in {"marking", "draining"}
    /\ pc[r] \in {"marking", "rollback", "releasing", "done"} /\ row[r] = "running"
         => r \in lost

(* What a run is about to write, and the states only scans reach.           *)
VerdictFollowsRun ==
  \A r \in Runs :
    /\ pc[r] = "finalizing" => verdict[r] \in Terminal
    /\ r \in Rescans => pc[r] \notin {"listing", "tagging", "walking", "marking"}
    /\ r \in Rescans /\ pc[r] = "finalizing" => verdict[r] \in {"completed", "failed"}

(* A decision points at a rescan only after that rescan's Supersede, and a  *)
(* rescan that comes to its end with the pointer set has started its        *)
(* goroutine.                                                               *)
PointerFollowsRun ==
  \A r \in Rescans :
    /\ successor[Target[r]] = r => pc[r] \notin {"idle", "gated", "acquired", "created"}
    /\ pc[r] = "calling" => armed[Inst[r]]
    /\ pc[r] = "finalizing" /\ successor[Target[r]] = r => armed[Inst[r]]

IInv ==
  /\ TypeOK /\ SlotHeld
  /\ RowFollowsRun /\ VerdictFollowsRun /\ PointerFollowsRun
  /\ PointerSettledBeforeSlot

States == Working \cup {"idle", "gated", "done", "dead"}

-----------------------------------------------------------------------------
(* Types are kept by every step. *)
LEMMA StepType == TypeOK /\ [Next]_vars => TypeOK'
<1> SUFFICES ASSUME TypeOK, [Next]_vars PROVE TypeOK'
  OBVIOUS
<1> USE DEF TypeOK, Working, Prelude, Work, Closing, Terminal
<1> USE DEF slotVars, runVars, downVars
<1>0. Inst \in [Runs -> Instances] /\ Target \in [Rescans -> Decisions] /\ Rescans \subseteq Runs
      /\ SyncRuns \subseteq Runs
  BY RunsAssumption DEF Runs
<1> USE <1>0
<1>1. ASSUME NEW r \in Runs, Admit(r) PROVE TypeOK'
  BY <1>1 DEF Admit, GateScan, GateRescan, Move
<1>2. ASSUME NEW r \in Runs, Acquire(r) \/ Conflict(r) \/ Create(r) \/ CreateFails(r)
      PROVE  TypeOK'
  <2>1. CASE Acquire(r)
    BY <2>1 DEF Acquire, Move
  <2>2. CASE Conflict(r) \/ CreateFails(r)
    BY <2>2 DEF Conflict, CreateFails, Move
  <2>3. CASE Create(r)
    BY <2>3 DEF Create, Move
  <2> QED BY <1>2, <2>1, <2>2, <2>3
<1>3. ASSUME NEW r \in Runs, Supersede(r) \/ SupersedeFails(r) \/ Arm(r)
      PROVE  TypeOK'
  <2>1. CASE Supersede(r)
    BY <2>1 DEF Supersede, Move
  <2>2. CASE SupersedeFails(r)
    BY <2>2 DEF SupersedeFails, Move
  <2>3. CASE Arm(r)
    BY <2>3 DEF Arm, Move
  <2> QED BY <1>3, <2>1, <2>2, <2>3
<1>4. ASSUME NEW r \in Runs,
             Listed(r) \/ Tagged(r) \/ PrefetchFails(r) \/ Unauthorized(r)
      PROVE  TypeOK'
  BY <1>4 DEF Listed, Tagged, PrefetchFails, Unauthorized, Decide, Move
<1>5. ASSUME NEW r \in Runs, GrabStreak(r) \/ WalkEnds(r)
      PROVE  TypeOK'
  BY <1>5 DEF GrabStreak, WalkEnds, Decide, Move
<1>6. ASSUME NEW r \in Runs, RescanEvaluated(r) \/ RescanFails(r)
      PROVE  TypeOK'
  <2>1. r \in Rescans \/ saved' = saved \/ saved' = saved \cup {r}
    BY <1>6 DEF RescanEvaluated, RescanFails
  <2> QED BY <1>6, <2>1 DEF RescanEvaluated, RescanFails, Decide, Move
<1>7. ASSUME NEW r \in Runs, Save(r) \/ SaveFails(r) \/ MarkAuth(r) \/ Rollback(r) \/ Release(r)
      PROVE  TypeOK'
  <2>0. AfterSave(r) \in States
    BY DEF AfterSave, States
  <2>1. CASE Save(r) \/ SaveFails(r)
    <3>1. /\ pc' \in [Runs -> States] /\ lost' \subseteq Runs
          /\ verdict[r] \in Terminal \cup {"none"}
      BY <2>0, <2>1 DEF Save, SaveFails, Move, States
    <3>2. row' \in [Runs -> Terminal \cup {"none", "running"}]
      BY <2>1, <3>1 DEF Save, SaveFails
    <3> QED BY <2>1, <3>1, <3>2 DEF Save, SaveFails, States
  <2>2. CASE MarkAuth(r)
    BY <2>2 DEF MarkAuth, Move
  <2>3. CASE Rollback(r)
    BY <2>3 DEF Rollback, Move
  <2>4. CASE Release(r)
    BY <2>4 DEF Release, Move
  <2> QED BY <1>7, <2>1, <2>2, <2>3, <2>4
<1>8. ASSUME NEW r \in Runs, Cancel(r) PROVE TypeOK'
  BY <1>8 DEF Cancel
<1>9. ASSUME NEW i \in Instances, HealthCheck(i) PROVE TypeOK'
  BY <1>9 DEF HealthCheck
<1>10. CASE Signal \/ ServerDies \/ Drain \/ GraceOver \/ Restart
  <2>1. CASE Signal \/ ServerDies
    BY <2>1 DEF Signal, ServerDies
  <2>2. CASE Drain \/ Restart
    BY <2>2 DEF Drain, Restart
  <2>3. CASE GraceOver
    BY <2>3 DEF GraceOver, InFlight
  <2> QED BY <1>10, <2>1, <2>2, <2>3
<1>11. ASSUME NEW r \in Runs, MarkAborted(r) PROVE TypeOK'
  BY <1>11 DEF MarkAborted
<1>12. CASE Exit \/ Crash
  <2>1. Dies
    BY <1>12 DEF Exit, Crash
  <2>2. pc' \in [Runs -> States]
    BY <2>1 DEF Dies, States
  <2>3. slot' \in [Instances -> Runs \cup {None}] /\ armed' \in [Instances -> BOOLEAN]
        /\ health' \in [Instances -> BOOLEAN] /\ verdict' \in [Runs -> Terminal \cup {"none"}]
    BY <2>1 DEF Dies
  <2> QED BY <2>1, <2>2, <2>3 DEF Dies, States
<1>13. CASE UNCHANGED vars
  BY <1>13 DEF vars
<1> QED
  BY <1>1, <1>2, <1>3, <1>4, <1>5, <1>6, <1>7, <1>8, <1>9, <1>10, <1>11, <1>12, <1>13
  DEF Next, RunStep, ShutdownStep

-----------------------------------------------------------------------------
(* The slot.  Only acquire, release and the end of the process touch it,    *)
(* and a run's other steps keep it inside, or outside, the working states.  *)

Inside(r) == pc[r] \in Working /\ pc'[r] \in Working

LEMMA InsideSteps ==
  ASSUME TypeOK, NEW r \in Runs,
         \/ Create(r) \/ CreateFails(r) \/ Supersede(r) \/ SupersedeFails(r) \/ Arm(r)
         \/ Listed(r) \/ Tagged(r) \/ PrefetchFails(r) \/ Unauthorized(r)
         \/ GrabStreak(r) \/ WalkEnds(r) \/ RescanEvaluated(r) \/ RescanFails(r)
         \/ Save(r) \/ SaveFails(r) \/ MarkAuth(r) \/ Rollback(r)
  PROVE  /\ Inside(r) /\ UNCHANGED <<slot, phase>>
         /\ \A q \in Runs \ {r} : pc'[q] = pc[q]
<1> USE DEF Inside, Working, Prelude, Work, Closing, TypeOK, Move, Decide, slotVars, downVars
<1>1. CASE Create(r) \/ CreateFails(r)
  BY <1>1 DEF Create, CreateFails
<1>2. CASE Supersede(r) \/ SupersedeFails(r) \/ Arm(r)
  BY <1>2 DEF Supersede, SupersedeFails, Arm
<1>3. CASE Listed(r) \/ Tagged(r) \/ PrefetchFails(r) \/ Unauthorized(r)
  BY <1>3 DEF Listed, Tagged, PrefetchFails, Unauthorized
<1>4. CASE GrabStreak(r) \/ WalkEnds(r) \/ RescanEvaluated(r) \/ RescanFails(r)
  BY <1>4 DEF GrabStreak, WalkEnds, RescanEvaluated, RescanFails
<1>5. CASE Save(r) \/ SaveFails(r)
  BY <1>5 DEF Save, SaveFails, AfterSave
<1>6. CASE MarkAuth(r) \/ Rollback(r)
  BY <1>6 DEF MarkAuth, Rollback
<1> QED BY <1>1, <1>2, <1>3, <1>4, <1>5, <1>6

(* Single flight is inductive on its own. *)
LEMMA StepSlot == TypeOK /\ SlotHeld /\ [Next]_vars => SlotHeld'
<1> SUFFICES ASSUME TypeOK, SlotHeld, [Next]_vars PROVE SlotHeld'
  OBVIOUS
<1>0. Inst \in [Runs -> Instances] /\ None \notin Runs
  BY RunsAssumption
<1> USE <1>0 DEF SlotHeld
<1>1. ASSUME NEW r \in Runs, Admit(r) \/ Conflict(r) PROVE SlotHeld'
  <2>1. pc[r] \notin Working /\ pc'[r] \notin Working /\ UNCHANGED slot
        /\ \A q \in Runs \ {r} : pc'[q] = pc[q]
    BY <1>1 DEF Admit, GateScan, GateRescan, Conflict, Move, slotVars, TypeOK,
                Working, Prelude, Work, Closing
  <2> QED BY <2>1
<1>2. ASSUME NEW r \in Runs, Acquire(r) PROVE SlotHeld'
  <2>1. pc[r] \notin Working /\ pc'[r] \in Working /\ slot[Inst[r]] = None
        /\ \A q \in Runs \ {r} : pc'[q] = pc[q]
    BY <1>2 DEF Acquire, Move, TypeOK, Working, Prelude, Work, Closing
  <2>2. slot'[Inst[r]] = r /\ \A i \in Instances \ {Inst[r]} : slot'[i] = slot[i]
    BY <1>2 DEF Acquire, TypeOK
  <2> QED BY <2>1, <2>2
<1>3. ASSUME NEW r \in Runs, Release(r) PROVE SlotHeld'
  <2>1. pc[r] \in Working /\ pc'[r] \notin Working
        /\ \A q \in Runs \ {r} : pc'[q] = pc[q]
    BY <1>3 DEF Release, Move, TypeOK, Working, Prelude, Work, Closing
  <2>2. slot'[Inst[r]] = None /\ \A i \in Instances \ {Inst[r]} : slot'[i] = slot[i]
    BY <1>3 DEF Release, TypeOK
  <2> QED BY <2>1, <2>2
<1>4. ASSUME NEW r \in Runs, RunStep(r) PROVE SlotHeld'
  BY <1>1, <1>2, <1>3, <1>4, InsideSteps DEF RunStep, Inside
<1>5. CASE (\E r \in Runs : Cancel(r) \/ MarkAborted(r)) \/ (\E i \in Instances : HealthCheck(i))
           \/ Signal \/ ServerDies \/ Drain \/ GraceOver \/ Restart
  BY <1>5 DEF Cancel, MarkAborted, HealthCheck, Signal, ServerDies, Drain, GraceOver,
              Restart, slotVars, runVars
<1>6. CASE Exit \/ Crash
  <2>1. \A r \in Runs : pc'[r] \notin Working /\ slot'[Inst[r]] = None
    BY <1>6 DEF Exit, Crash, Dies, TypeOK, Working, Prelude, Work, Closing
  <2> QED BY <2>1
<1>7. CASE UNCHANGED vars
  BY <1>7 DEF vars
<1> QED BY <1>1, <1>4, <1>5, <1>6, <1>7 DEF Next, ShutdownStep

(* Type correctness for every choice of the constants.                      *)
THEOREM TypeCorrect == Spec => []TypeOK
<1>1. Init => TypeOK
  BY RunsAssumption
  DEF Init, TypeOK, Runs, Scans, Working, Prelude, Work, Closing, Terminal
<1> QED BY <1>1, StepType, PTL DEF Spec

(* At most one run works on an instance, and the slot names it.             *)
THEOREM SingleFlight == Spec => []SlotHeld
<1>1. Init => SlotHeld
  BY RunsAssumption DEF Init, SlotHeld, Working, Prelude, Work, Closing
<1> QED BY <1>1, StepSlot, TypeCorrect, PTL DEF Spec

-----------------------------------------------------------------------------
(* What a run is about to write changes only by the run's own steps.        *)
LEMMA StepVerdict == TypeOK /\ VerdictFollowsRun /\ [Next]_vars => VerdictFollowsRun'
<1> SUFFICES ASSUME TypeOK, VerdictFollowsRun, [Next]_vars PROVE VerdictFollowsRun'
  OBVIOUS
<1>0. Scans \cap Rescans = {} /\ SyncRuns \subseteq Scans /\ AsyncRuns \subseteq Scans
  BY RunsAssumption DEF Scans
<1> USE <1>0 DEF VerdictFollowsRun, TypeOK, Terminal
<1>1. ASSUME NEW r \in Runs, Admit(r) \/ Acquire(r) \/ Conflict(r) PROVE VerdictFollowsRun'
  BY <1>1 DEF Admit, GateScan, GateRescan, Acquire, Conflict, Move
<1>2. ASSUME NEW r \in Runs, Create(r) \/ CreateFails(r) PROVE VerdictFollowsRun'
  BY <1>2 DEF Create, CreateFails, Move
<1>3. ASSUME NEW r \in Runs, Supersede(r) \/ SupersedeFails(r) \/ Arm(r)
      PROVE  VerdictFollowsRun'
  BY <1>3 DEF Supersede, SupersedeFails, Arm, Move
<1>4. ASSUME NEW r \in Runs, Listed(r) \/ Tagged(r) \/ PrefetchFails(r) \/ Unauthorized(r)
      PROVE  VerdictFollowsRun'
  BY <1>4 DEF Listed, Tagged, PrefetchFails, Unauthorized, Decide, Move
<1>5. ASSUME NEW r \in Runs, GrabStreak(r) \/ WalkEnds(r) \/ RescanEvaluated(r) \/ RescanFails(r)
      PROVE  VerdictFollowsRun'
  BY <1>5 DEF GrabStreak, WalkEnds, RescanEvaluated, RescanFails, Decide, Move
<1>6. ASSUME NEW r \in Runs, Save(r) \/ SaveFails(r) PROVE VerdictFollowsRun'
  <2>1. AfterSave(r) \in {"marking", "rollback", "releasing"}
        /\ (AfterSave(r) = "marking" => verdict[r] = "aborted")
    BY DEF AfterSave
  <2>2. pc[r] = "finalizing" /\ pc' = [pc EXCEPT ![r] = AfterSave(r)] /\ UNCHANGED verdict
    BY <1>6 DEF Save, SaveFails, Move
  <2> QED BY <2>1, <2>2
<1>7. ASSUME NEW r \in Runs, MarkAuth(r) \/ Rollback(r) \/ Release(r) PROVE VerdictFollowsRun'
  BY <1>7 DEF MarkAuth, Rollback, Release, Move
<1>8. CASE (\E r \in Runs : Cancel(r) \/ MarkAborted(r)) \/ (\E i \in Instances : HealthCheck(i))
           \/ Signal \/ ServerDies \/ Drain \/ GraceOver \/ Restart
  BY <1>8 DEF Cancel, MarkAborted, HealthCheck, Signal, ServerDies, Drain, GraceOver,
              Restart, slotVars, runVars
<1>9. CASE Exit \/ Crash
  BY <1>9 DEF Exit, Crash, Dies, Working, Prelude, Work, Closing
<1>10. CASE UNCHANGED vars
  BY <1>10 DEF vars
<1> QED BY <1>1, <1>2, <1>3, <1>4, <1>5, <1>6, <1>7, <1>8, <1>9, <1>10
        DEF Next, RunStep, ShutdownStep

LEMMA StepRow ==
  TypeOK /\ VerdictFollowsRun /\ RowFollowsRun /\ [Next]_vars => RowFollowsRun'
<1> SUFFICES ASSUME TypeOK, VerdictFollowsRun, RowFollowsRun, [Next]_vars
             PROVE  RowFollowsRun'
  OBVIOUS
<1> USE DEF RowFollowsRun, TypeOK, Terminal, slotVars, runVars, downVars
<1>1. ASSUME NEW r \in Runs, Admit(r) \/ Acquire(r) \/ Conflict(r) PROVE RowFollowsRun'
  BY <1>1 DEF Admit, GateScan, GateRescan, Acquire, Conflict, Move
<1>2. ASSUME NEW r \in Runs, Create(r) \/ CreateFails(r) PROVE RowFollowsRun'
  BY <1>2 DEF Create, CreateFails, Move
<1>3. ASSUME NEW r \in Runs, Supersede(r) \/ SupersedeFails(r) \/ Arm(r)
      PROVE  RowFollowsRun'
  BY <1>3 DEF Supersede, SupersedeFails, Arm, Move
<1>4. ASSUME NEW r \in Runs, Listed(r) \/ Tagged(r) \/ PrefetchFails(r) \/ Unauthorized(r)
      PROVE  RowFollowsRun'
  BY <1>4 DEF Listed, Tagged, PrefetchFails, Unauthorized, Decide, Move
<1>5. ASSUME NEW r \in Runs, GrabStreak(r) \/ WalkEnds(r) \/ RescanEvaluated(r) \/ RescanFails(r)
      PROVE  RowFollowsRun'
  BY <1>5 DEF GrabStreak, WalkEnds, RescanEvaluated, RescanFails, Decide, Move
<1>6. ASSUME NEW r \in Runs, Save(r) \/ SaveFails(r) PROVE RowFollowsRun'
  <2>1. AfterSave(r) \in {"marking", "rollback", "releasing"}
    BY DEF AfterSave
  <2>2. pc[r] = "finalizing" /\ pc' = [pc EXCEPT ![r] = AfterSave(r)] /\ UNCHANGED phase
    BY <1>6 DEF Save, SaveFails, Move
  <2>3. \/ row' = [row EXCEPT ![r] = verdict[r]] /\ UNCHANGED lost
        \/ UNCHANGED row /\ lost' = lost \cup {r}
    BY <1>6 DEF Save, SaveFails
  <2>4. verdict[r] \in Terminal
    BY <2>2 DEF VerdictFollowsRun
  <2> QED BY <2>1, <2>2, <2>3, <2>4
<1>7. ASSUME NEW r \in Runs, MarkAuth(r) \/ Rollback(r) \/ Release(r) PROVE RowFollowsRun'
  BY <1>7 DEF MarkAuth, Rollback, Release, Move
<1>8. CASE (\E r \in Runs : Cancel(r)) \/ (\E i \in Instances : HealthCheck(i))
           \/ Signal \/ ServerDies \/ Drain \/ GraceOver \/ Restart
  BY <1>8 DEF Cancel, HealthCheck, Signal, ServerDies, Drain, GraceOver, Restart,
              Waiting, Marking
<1>9. ASSUME NEW r \in Runs, MarkAborted(r) PROVE RowFollowsRun'
  BY <1>9 DEF MarkAborted, Marking
<1>10. CASE Exit \/ Crash
  BY <1>10 DEF Exit, Crash, Dies, Working, Prelude, Work, Closing
<1>11. CASE UNCHANGED vars
  BY <1>11 DEF vars
<1> QED BY <1>1, <1>2, <1>3, <1>4, <1>5, <1>6, <1>7, <1>8, <1>9, <1>10, <1>11
        DEF Next, RunStep, ShutdownStep

-----------------------------------------------------------------------------
(* The pointer: armed[i] belongs to the run that holds i's slot.            *)

(* No step of another run, nor of the environment, disarms a working run,   *)
(* points a decision at it or moves it.                                     *)
LEMMA ArmedKept ==
  ASSUME TypeOK, SlotHeld, NEW r \in Runs, NEW q \in Runs \ {r},
         Admit(r) \/ RunStep(r)
  PROVE  /\ pc'[q] = pc[q] /\ verdict'[q] = verdict[q]
         /\ pc[q] \in Working /\ armed[Inst[q]] => armed'[Inst[q]]
         /\ q \in lost => q \in lost'
<1>0. Inst \in [Runs -> Instances] /\ None \notin Runs
  BY RunsAssumption
<1> USE DEF TypeOK, Move, Decide, slotVars, downVars
<1>1. CASE Acquire(r)
  <2>1. pc[q] \in Working => Inst[q] # Inst[r]
    BY <1>0, <1>1 DEF Acquire, SlotHeld
  <2> QED BY <1>0, <1>1, <2>1 DEF Acquire
<1>2. CASE Release(r)
  <2>1. pc[r] \in Working
    BY <1>2 DEF Release, Working, Closing
  <2>2. pc[q] \in Working => Inst[q] # Inst[r]
    BY <2>1 DEF SlotHeld
  <2> QED BY <1>0, <1>2, <2>2 DEF Release
<1>3. CASE Arm(r)
  BY <1>0, <1>3 DEF Arm
<1>4. CASE \/ Admit(r) \/ Conflict(r) \/ Create(r) \/ CreateFails(r) \/ Supersede(r)
           \/ SupersedeFails(r)
  BY <1>4 DEF Admit, GateScan, GateRescan, Conflict, Create, CreateFails, Supersede,
              SupersedeFails
<1>5. CASE \/ Listed(r) \/ Tagged(r) \/ PrefetchFails(r) \/ Unauthorized(r)
           \/ GrabStreak(r) \/ WalkEnds(r) \/ RescanEvaluated(r) \/ RescanFails(r)
  BY <1>5 DEF Listed, Tagged, PrefetchFails, Unauthorized, GrabStreak, WalkEnds,
              RescanEvaluated, RescanFails
<1>6. CASE Save(r) \/ SaveFails(r) \/ MarkAuth(r) \/ Rollback(r)
  BY <1>6 DEF Save, SaveFails, MarkAuth, Rollback
<1> QED BY <1>1, <1>2, <1>3, <1>4, <1>5, <1>6 DEF RunStep

PInv == PointerFollowsRun /\ PointerSettledBeforeSlot

(* The same two facts of one rescan.                                        *)
POf(q) ==
  /\ successor[Target[q]] = q => pc[q] \notin {"idle", "gated", "acquired", "created"}
  /\ pc[q] = "calling" => armed[Inst[q]]
  /\ pc[q] = "finalizing" /\ successor[Target[q]] = q => armed[Inst[q]]
  /\ pc[q] = "releasing" /\ successor[Target[q]] = q => verdict[q] = "completed" \/ q \in lost

LEMMA PInvOf == (PInv <=> \A q \in Rescans : POf(q)) /\ (PInv' <=> \A q \in Rescans : POf(q)')
  BY RunsAssumption DEF PInv, PointerFollowsRun, PointerSettledBeforeSlot, POf

LEMMA StepPointer ==
  TypeOK /\ SlotHeld /\ VerdictFollowsRun /\ PInv /\ [Next]_vars => PInv'
<1> SUFFICES ASSUME TypeOK, SlotHeld, VerdictFollowsRun, PInv, [Next]_vars,
                    NEW q \in Rescans
             PROVE  POf(q)'
  BY PInvOf
<1>0. /\ Inst \in [Runs -> Instances] /\ Target \in [Rescans -> Decisions]
      /\ None \notin Runs /\ q \in Runs /\ q \notin Scans /\ Rescans \subseteq Runs
      /\ q \notin SyncRuns /\ q \notin AsyncRuns
  BY RunsAssumption DEF Runs, Scans
<1>p. POf(q)
  BY PInvOf
<1>1. ASSUME NEW r \in Runs \ {q}, Admit(r) \/ RunStep(r) PROVE POf(q)'
  <2>1. /\ pc'[q] = pc[q] /\ verdict'[q] = verdict[q]
        /\ pc[q] \in Working /\ armed[Inst[q]] => armed'[Inst[q]]
        /\ q \in lost => q \in lost'
    BY <1>0, <1>1, ArmedKept
  <2>2. successor'[Target[q]] = q => successor[Target[q]] = q
    <3>1. CASE Supersede(r) \/ Rollback(r)
      BY <1>0, <3>1 DEF Supersede, Rollback, TypeOK
    <3>2. CASE ~Supersede(r) /\ ~Rollback(r)
      <4>1. successor' = successor
        BY <1>1, <3>2 DEF Admit, GateScan, GateRescan, RunStep, Acquire, Conflict, Create,
             CreateFails, SupersedeFails, Arm, Listed, Tagged, PrefetchFails, Unauthorized,
             GrabStreak, WalkEnds, RescanEvaluated, RescanFails, Save, SaveFails, MarkAuth,
             Release
      <4> QED BY <4>1
    <3> QED BY <3>1, <3>2
  <2> QED BY <1>p, <2>1, <2>2 DEF POf, Working, Work, Closing
<1>2. ASSUME Admit(q) \/ RunStep(q) PROVE POf(q)'
  <2> USE <1>0, <1>p DEF POf, TypeOK, Move, Decide, slotVars, downVars
  <2>1. CASE Admit(q) \/ Acquire(q) \/ Conflict(q)
    BY <2>1 DEF Admit, GateScan, GateRescan, Acquire, Conflict
  <2>2. CASE Create(q) \/ CreateFails(q)
    BY <2>2 DEF Create, CreateFails
  <2>3. CASE Supersede(q) \/ SupersedeFails(q)
    BY <2>3 DEF Supersede, SupersedeFails
  <2>4. CASE Arm(q)
    BY <2>4 DEF Arm
  <2>5. CASE Listed(q) \/ Tagged(q) \/ PrefetchFails(q) \/ Unauthorized(q) \/ GrabStreak(q)
             \/ WalkEnds(q) \/ MarkAuth(q)
    BY <2>5 DEF Listed, Tagged, PrefetchFails, Unauthorized, GrabStreak, WalkEnds, MarkAuth,
                VerdictFollowsRun
  <2>6. CASE RescanEvaluated(q) \/ RescanFails(q)
    BY <2>6 DEF RescanEvaluated, RescanFails
  <2>7. CASE Save(q) \/ SaveFails(q)
    <3>1. verdict[q] \in {"completed", "failed"}
      BY <2>7 DEF Save, SaveFails, VerdictFollowsRun
    <3>2. verdict[q] = "failed" /\ armed[Inst[q]] => AfterSave(q) = "rollback"
      BY DEF AfterSave
    <3>3. AfterSave(q) \in {"marking", "rollback", "releasing"}
      BY DEF AfterSave
    <3> QED BY <2>7, <3>1, <3>2, <3>3 DEF Save, SaveFails
  <2>8. CASE Rollback(q)
    BY <2>8 DEF Rollback
  <2>9. CASE Release(q)
    BY <2>9 DEF Release
  <2> QED BY <1>2, <2>1, <2>2, <2>3, <2>4, <2>5, <2>6, <2>7, <2>8, <2>9 DEF RunStep
<1>3. CASE (\E r \in Runs : Cancel(r) \/ MarkAborted(r)) \/ (\E i \in Instances : HealthCheck(i))
           \/ Signal \/ ServerDies \/ Drain \/ GraceOver \/ Restart
  BY <1>3, <1>p DEF POf, Cancel, MarkAborted, HealthCheck, Signal, ServerDies, Drain,
                    GraceOver, Restart, slotVars, runVars
<1>4. CASE Exit \/ Crash
  <2>0. pc'[q] = IF pc[q] \in Working THEN "dead"
                 ELSE IF pc[q] = "gated" THEN "idle" ELSE pc[q]
    BY <1>0, <1>4 DEF Exit, Crash, Dies
  <2>1. pc'[q] = "dead" \/ pc[q] = "gated" \/ (pc'[q] = pc[q] /\ pc[q] \notin Working)
    BY <2>0
  <2>2. pc[q] = "gated" => pc'[q] \in {"idle", "dead"}
    BY <2>0
  <2>3. UNCHANGED successor
    BY <1>4 DEF Exit, Crash, Dies
  <2> QED BY <1>p, <2>1, <2>2, <2>3 DEF POf, Working, Prelude, Work, Closing
<1>5. CASE UNCHANGED vars
  BY <1>5, <1>p DEF POf, vars
<1> QED BY <1>0, <1>1, <1>2, <1>3, <1>4, <1>5 DEF Next, ShutdownStep

-----------------------------------------------------------------------------
LEMMA InitInv == Init => IInv
  BY RunsAssumption
  DEF Init, IInv, TypeOK, SlotHeld, RowFollowsRun, VerdictFollowsRun,
      PointerFollowsRun, PointerSettledBeforeSlot, Runs, Scans, Working,
      Prelude, Work, Closing, Terminal

(* The inductive invariant.                                                 *)
THEOREM Invariant == Spec => []IInv
<1>1. IInv /\ [Next]_vars => IInv'
  BY StepType, StepSlot, StepVerdict, StepRow, StepPointer DEF IInv, PInv
<1> QED BY InitInv, <1>1, PTL DEF Spec

(* A slot is freed only after the run's row is settled.                     *)
THEOREM SettledBeforeSlot == Spec => []RowSettledBeforeSlot
<1>1. IInv => RowSettledBeforeSlot
  BY DEF IInv, RowFollowsRun, RowSettledBeforeSlot
<1> QED BY Invariant, <1>1, PTL

(* A rescan that failed has taken its pointer back before it frees the slot. *)
THEOREM PointerSettled == Spec => []PointerSettledBeforeSlot
<1>1. IInv => PointerSettledBeforeSlot
  BY DEF IInv
<1> QED BY Invariant, <1>1, PTL

-----------------------------------------------------------------------------
(* What a decision points at. *)

(* A rescan that completed has stored its decision; one that a decision     *)
(* points at is a rescan of that decision, at work, or of a known end.      *)
SOf(q) ==
  /\ verdict[q] = "completed" => q \in saved
  /\ \A d \in Decisions : successor[d] = q =>
       /\ Target[q] = d
       /\ q \in saved \cup lost \/ pc[q] \in Working \cup {"dead"}
SInv == \A q \in Rescans : SOf(q)

LEMMA StepSuccessor == IInv /\ SInv /\ [Next]_vars => SInv'
<1> SUFFICES ASSUME IInv, SInv, [Next]_vars, NEW q \in Rescans
             PROVE  SOf(q)'
  BY DEF SInv
<1>0. /\ Inst \in [Runs -> Instances] /\ Target \in [Rescans -> Decisions]
      /\ None \notin Runs /\ q \in Runs /\ q \notin Scans /\ Rescans \subseteq Runs
      /\ q \notin SyncRuns /\ q \notin AsyncRuns
  BY RunsAssumption DEF Runs, Scans
<1>t. TypeOK /\ SlotHeld /\ VerdictFollowsRun /\ PointerFollowsRun /\ PointerSettledBeforeSlot
  BY DEF IInv
<1>s. SOf(q)
  BY DEF SInv
<1>1. ASSUME NEW r \in Runs \ {q}, Admit(r) \/ RunStep(r) PROVE SOf(q)'
  <2>1. pc'[q] = pc[q] /\ verdict'[q] = verdict[q] /\ (q \in lost => q \in lost')
    BY <1>0, <1>1, <1>t, ArmedKept
  <2>2. \A d \in Decisions : successor'[d] = q => successor[d] = q
    <3>1. CASE Supersede(r) \/ Rollback(r)
      BY <1>0, <1>t, <3>1 DEF Supersede, Rollback, TypeOK
    <3>2. CASE ~Supersede(r) /\ ~Rollback(r)
      <4>1. successor' = successor
        BY <1>1, <3>2 DEF Admit, GateScan, GateRescan, RunStep, Acquire, Conflict, Create,
             CreateFails, SupersedeFails, Arm, Listed, Tagged, PrefetchFails, Unauthorized,
             GrabStreak, WalkEnds, RescanEvaluated, RescanFails, Save, SaveFails, MarkAuth,
             Release
      <4> QED BY <4>1
    <3> QED BY <3>1, <3>2
  <2>3. saved \subseteq saved'
    BY <1>1 DEF Admit, GateScan, GateRescan, RunStep, Acquire, Conflict, Create, CreateFails,
         Supersede, SupersedeFails, Arm, Listed, Tagged, PrefetchFails, Unauthorized, GrabStreak,
         WalkEnds, RescanEvaluated, RescanFails, Save, SaveFails, MarkAuth, Rollback, Release
  <2> QED BY <1>s, <2>1, <2>2, <2>3 DEF SOf
<1>2. ASSUME Admit(q) \/ RunStep(q) PROVE SOf(q)'
  <2> USE <1>0, <1>s DEF SOf, TypeOK, Move, Decide, slotVars, downVars
  <2> USE DEF Working, Prelude, Work, Closing
  <2>1. CASE Admit(q) \/ Acquire(q) \/ Create(q) \/ CreateFails(q)
    BY <1>t, <2>1 DEF Admit, GateScan, GateRescan, Acquire, Create, CreateFails
  <2>2. CASE Conflict(q)
    BY <1>t, <2>2 DEF Conflict, PointerFollowsRun
  <2>3. CASE Supersede(q) \/ SupersedeFails(q)
    BY <1>t, <2>3 DEF Supersede, SupersedeFails
  <2>4. CASE Arm(q)
    BY <1>t, <2>4 DEF Arm
  <2>5. CASE Listed(q) \/ Tagged(q) \/ PrefetchFails(q) \/ Unauthorized(q) \/ GrabStreak(q)
             \/ WalkEnds(q) \/ MarkAuth(q)
    BY <1>t, <2>5 DEF Listed, Tagged, PrefetchFails, Unauthorized, GrabStreak, WalkEnds, MarkAuth,
                      VerdictFollowsRun
  <2>6. CASE RescanEvaluated(q) \/ RescanFails(q)
    BY <1>t, <2>6 DEF RescanEvaluated, RescanFails
  <2>7. CASE Save(q) \/ SaveFails(q)
    <3>1. AfterSave(q) \in {"marking", "rollback", "releasing"}
      BY DEF AfterSave
    <3> QED BY <1>t, <2>7, <3>1 DEF Save, SaveFails
  <2>8. CASE Rollback(q)
    BY <1>t, <2>8 DEF Rollback
  <2>9. CASE Release(q)
    BY <1>t, <2>9 DEF Release, PointerSettledBeforeSlot
  <2> QED BY <1>2, <2>1, <2>2, <2>3, <2>4, <2>5, <2>6, <2>7, <2>8, <2>9 DEF RunStep
<1>3. CASE (\E r \in Runs : Cancel(r) \/ MarkAborted(r)) \/ (\E i \in Instances : HealthCheck(i))
           \/ Signal \/ ServerDies \/ Drain \/ GraceOver \/ Restart
  BY <1>3, <1>s DEF SOf, Cancel, MarkAborted, HealthCheck, Signal, ServerDies, Drain,
                    GraceOver, Restart, slotVars, runVars
<1>4. CASE Exit \/ Crash
  <2>1. /\ pc'[q] = IF pc[q] \in Working THEN "dead"
                    ELSE IF pc[q] = "gated" THEN "idle" ELSE pc[q]
        /\ verdict'[q] = "none" /\ UNCHANGED <<successor, saved, lost>>
    BY <1>0, <1>4 DEF Exit, Crash, Dies
  <2>2. \A d \in Decisions : successor[d] = q => pc[q] # "gated"
    BY <1>s, <1>t DEF SOf, PointerFollowsRun
  <2> QED BY <1>s, <2>1, <2>2 DEF SOf
<1>5. CASE UNCHANGED vars
  BY <1>5, <1>s DEF SOf, vars
<1> QED BY <1>0, <1>1, <1>2, <1>3, <1>4, <1>5 DEF Next, ShutdownStep

(* Who follows "the successor" of a decision finds a stored decision, or    *)
(* one in the making, unless the rescan died or could not write its end.    *)
THEOREM SuccessorsAreReal == Spec => []SuccessorReal
<1>1. Init => SInv
  BY RunsAssumption DEF Init, SInv, SOf, Runs
<1>2. IInv /\ SInv => SuccessorReal
  <2> SUFFICES ASSUME IInv, SInv, NEW d \in Decisions
               PROVE  successor[d] \in saved \cup lost \cup {None}
                        \/ pc[successor[d]] \in Working \cup {"dead"}
    BY DEF SuccessorReal
  <2>1. successor[d] \in Rescans \cup {None}
    BY DEF IInv, TypeOK
  <2> QED BY <2>1 DEF SInv, SOf
<1> QED BY Invariant, <1>1, <1>2, StepSuccessor, PTL DEF Spec

(* A settled status changes only in a shutdown.                             *)
THEOREM WrittenOnce == Spec => StatusWrittenOnce
<1> DEFINE Once == \A r \in Runs :
             row[r] \in Terminal /\ row'[r] # row[r] => Marking \/ phase = "draining"
<1>1. IInv /\ [Next]_vars => [Once]_vars
  <2> SUFFICES ASSUME IInv, [Next]_vars, NEW r \in Runs, row[r] \in Terminal,
                      row'[r] # row[r]
               PROVE  Marking \/ phase = "draining"
    OBVIOUS
  <2>1. TypeOK /\ RowFollowsRun
    BY DEF IInv
  <2>2. \/ \E q \in Runs : Create(q) \/ Save(q) \/ MarkAborted(q)
        \/ UNCHANGED row
    BY DEF Next, Admit, RunStep, ShutdownStep, GateScan, GateRescan, Acquire, Conflict,
           CreateFails, Supersede, SupersedeFails, Arm, Listed, Tagged, PrefetchFails,
           Unauthorized, GrabStreak, WalkEnds, RescanEvaluated, RescanFails, SaveFails,
           MarkAuth, Rollback, Release, Cancel, HealthCheck, Signal, ServerDies, Drain,
           GraceOver, Exit, Crash, Dies, Restart, runVars, vars
  <2>3. PICK q \in Runs : Create(q) \/ Save(q) \/ MarkAborted(q)
    BY <2>2
  <2>4. CASE MarkAborted(q)
    BY <2>4 DEF MarkAborted
  <2>5. CASE Create(q) \/ Save(q)
    <3>1. q = r /\ pc[r] \in {"acquired", "finalizing"}
      BY <2>1, <2>5 DEF Create, Save, Move, TypeOK
    <3>2. pc[r] # "acquired"
      BY <2>1 DEF RowFollowsRun, Terminal
    <3>3. phase \in {"marking", "draining"}
      BY <2>1, <3>1, <3>2 DEF RowFollowsRun
    <3> QED BY <3>3 DEF Marking
  <2> QED BY <2>3, <2>4, <2>5
<1> QED BY Invariant, <1>1, PTL DEF Spec, StatusWrittenOnce
=============================================================================
