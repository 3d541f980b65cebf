------------------------------ MODULE RegrabProofs ------------------------------
(***************************************************************************)
(* Proofs about Regrab, for any torrents, seasons, settings and loops that *)
(* overlap: types, and what the cooldown and the counter of a season       *)
(* guarantee.  The argument: a loop that was not cancelled is the          *)
(* registered one, so only its predecessors can disturb it, and a loop     *)
(* that was cancelled writes neither cooldown nor counter.                 *)
(***************************************************************************)
EXTENDS Regrab, TLAPS

(* A running loop is the registered one or was cancelled.                   *)
OneRegistered ==
  \A l \in Loops : pc[l] # "off" /\ l \notin ctxDone => l = current

(* A loop at work on a season works on a season, and has taken a release    *)
(* only if it is past the evaluation.                                       *)
AtWork ==
  \A l \in Loops :
    /\ pc[l] \in Evaluating \cup Acting => season[l] \in Seasons
    /\ took[l] => pc[l] \in Acting

(* Between the gate and the first accepted release, the season has no       *)
(* cooldown that was running when the cycle began, unless the loop was      *)
(* cancelled.                                                               *)
PastGate == (Evaluating \ {"gate"}) \cup {"grab"}
GateHolds ==
  \A l \in Loops :
    /\ startedAt[l] <= now
    /\ pc[l] \in PastGate /\ ~took[l]
         => expires[season[l]] <= startedAt[l] \/ l \in ctxDone

(* A cooldown that a grab asks for has a row that lasts as long, or a loop   *)
(* that is to write it.                                                      *)
Guarded ==
  \A s \in Seasons :
    /\ quietUntil[s] <= now + Cooldown
    /\ \/ quietUntil[s] <= expires[s]
       \/ \E l \in Loops : took[l] /\ season[l] = s

(* The counter does not run ahead of the verdicts, but for a loop that has   *)
(* yet to reset it.                                                          *)
Enough(s) == noBetter[s] >= Threshold
CounterBehind ==
  /\ \A s \in Seasons :
       \/ Enough(s)
       \/ attempts[s] <= noBetter[s]
       \/ \E l \in Loops : pc[l] = "reset" /\ season[l] = s
  /\ \A l \in Loops \ ctxDone :
       /\ pc[l] = "increment" =>
            \/ Enough(season[l])
            \/ attempts[season[l]] < noBetter[season[l]]
            \/ \E k \in Loops \ {l} : pc[k] = "reset" /\ season[k] = season[l]
       /\ pc[l] = "park" =>
            \/ Enough(season[l])
            \/ \E k \in Loops \ {l} : pc[k] = "reset" /\ season[k] = season[l]

IInv == TypeOK /\ OneRegistered /\ AtWork /\ GateHolds /\ Guarded /\ CounterBehind

-----------------------------------------------------------------------------
(* Steps by what they move: requests and refreshes, the loop outside a      *)
(* season, and the work on a season.                                        *)

Turn(l) ==
  \/ Exit(l) \/ TimerFires(l) \/ PollEnds(l)
  \/ CycleStarts(l) \/ CycleEnds(l)
  \/ \E t \in Torrents : TorrentSkipped(l, t) \/ TorrentPicked(l, t)

Setting(f) ==
  PutSettings(f) \/ Publish(f) \/ Load(f) \/ SwapKeepsOrStops(f)

LEMMA Steps ==
  ASSUME [Next]_vars
  PROVE  \/ \E f \in Refreshers : Setting(f)
         \/ \E f \in Refreshers, l \in Loops : SwapStarts(f, l)
         \/ \E l \in Loops : Turn(l) \/ EvaluateStep(l) \/ ActStep(l)
         \/ \E s \in Seasons : Unblock(s)
         \/ Tick \/ Signal \/ Restart
         \/ UNCHANGED vars
  BY DEF Next, Refresh, LoopStep, Turn, Setting

(* What Sonarr answers keeps the types. *)
LEMMA AnswerTyped ==
  ASSUME TypeOK, NEW l \in Loops, Accepts(l) \/ Ignores
  PROVE  took' \in [Loops -> BOOLEAN] /\ quietUntil' \in [Seasons -> Nat]
<1>1. CASE Accepts(l)
  <2>1. took' = [took EXCEPT ![l] = TRUE] /\ took \in [Loops -> BOOLEAN]
    BY <1>1 DEF Accepts, TypeOK
  <2>2. quietUntil' = [quietUntil EXCEPT ![season[l]] = now + Cooldown]
    BY <1>1 DEF Accepts
  <2>3. now + Cooldown \in Nat /\ quietUntil \in [Seasons -> Nat]
    BY RegrabAssumption DEF TypeOK
  <2>4. took' \in [Loops -> BOOLEAN]
    BY <2>1
  <2> QED BY <2>2, <2>3, <2>4
<1>2. CASE Ignores
  BY <1>2 DEF Ignores, TypeOK
<1> QED BY <1>1, <1>2

(* Types are kept by every step. *)
LEMMA StepType == TypeOK /\ AtWork /\ [Next]_vars => TypeOK'
<1> SUFFICES ASSUME TypeOK, AtWork, [Next]_vars PROVE TypeOK'
  OBVIOUS
<1> USE RegrabAssumption
<1> USE DEF TypeOK, settingVars, loopVars, storeVars, historyVars,
            Waits, Cycle, Evaluating, Acting
<1>1. ASSUME NEW f \in Refreshers, Setting(f) PROVE TypeOK'
  <2>1. CASE PutSettings(f) \/ Publish(f)
    BY <2>1 DEF PutSettings, Publish
  <2>2. CASE Load(f)
    BY <2>2 DEF Load
  <2>3. CASE SwapKeepsOrStops(f)
    BY <2>3 DEF SwapKeepsOrStops
  <2> QED BY <1>1, <2>1, <2>2, <2>3 DEF Setting
<1>2. ASSUME NEW f \in Refreshers, NEW l \in Loops, SwapStarts(f, l) PROVE TypeOK'
  BY <1>2 DEF SwapStarts, Move
<1>3. ASSUME NEW l \in Loops, Turn(l) PROVE TypeOK'
  <2>1. CASE Exit(l) \/ TimerFires(l)
    BY <2>1 DEF Exit, TimerFires, Move
  <2>2. CASE PollEnds(l)
    BY <2>2 DEF PollEnds, Move
  <2>3. CASE CycleStarts(l)
    BY <2>3 DEF CycleStarts, Move
  <2>4. CASE CycleEnds(l)
    BY <2>4 DEF CycleEnds, Move
  <2>5. ASSUME NEW t \in Torrents, TorrentSkipped(l, t) \/ TorrentPicked(l, t)
        PROVE  TypeOK'
    <3>0. SeasonOf[t] \in Seasons
      OBVIOUS
    <3>1. CASE TorrentSkipped(l, t)
      BY <3>1 DEF TorrentSkipped
    <3>2. CASE TorrentPicked(l, t)
      BY <3>0, <3>2 DEF TorrentPicked, Move
    <3> QED BY <2>5, <3>1, <3>2
  <2> QED BY <1>3, <2>1, <2>2, <2>3, <2>4, <2>5 DEF Turn
<1>4. ASSUME NEW l \in Loops, EvaluateStep(l) PROVE TypeOK'
  <2>0. pc[l] \in Evaluating => season[l] \in Seasons
    BY DEF AtWork
  <2>1. CASE Gated(l)
    <3>1. CASE Leave(l, "gate")
      BY <2>1, <3>1 DEF Gated, Leave, Move
    <3>2. CASE Leave(l, "listed")
      BY <2>1, <3>2 DEF Gated, Leave, Move
    <3> QED BY <2>1, <3>1, <3>2 DEF Gated
  <2>2. CASE GatePasses(l) \/ NotParked(l)
    BY <2>2 DEF GatePasses, NotParked, Work, Move
  <2>3. CASE Replayed(l) \/ ReplayFails(l)
    <3>0. Accepts(l) \/ Ignores
      BY <2>3 DEF Replayed, ReplayFails
    <3>1. took' \in [Loops -> BOOLEAN] /\ quietUntil' \in [Seasons -> Nat]
      BY <3>0, AnswerTyped
    <3>2. CASE Replayed(l)
      <4>1. /\ pc' \in [Loops -> Waits \cup Cycle]
        BY <3>2 DEF Replayed, Work, Move
      <4>2. UNCHANGED <<now, settingVars, ctxDone, startedAt, todo,
                        seen, season, storeVars, noBetter>>
        BY <3>2 DEF Replayed, Work
      <4> QED BY <3>1, <4>1, <4>2
    <3>3. CASE ReplayFails(l)
      BY <3>1, <3>3 DEF ReplayFails, Work, Move
    <3> QED BY <2>3, <3>2, <3>3
  <2>5. CASE ReleaseGone(l) \/ SearchFinds(l) \/ SearchFails(l)
    BY <2>5 DEF ReleaseGone, SearchFinds, SearchFails, Work, Move
  <2>6. CASE NothingBetter(l)
    BY <2>0, <2>6 DEF NothingBetter, Work, Move
  <2> QED BY <1>4, <2>1, <2>2, <2>3, <2>5, <2>6 DEF EvaluateStep
<1>5. ASSUME NEW l \in Loops, ActStep(l) PROVE TypeOK'
  <2>0. pc[l] \in Acting => season[l] \in Seasons
    BY DEF AtWork
  <2>1. CASE Grabbed(l)
    BY <2>0, <2>1 DEF Grabbed, Work, Move, Accepts
  <2>2. CASE GrabFails(l)
    <3>1. Accepts(l) \/ Ignores
      BY <2>2 DEF GrabFails
    <3>2. took' \in [Loops -> BOOLEAN] /\ quietUntil' \in [Seasons -> Nat]
      BY <3>1, AnswerTyped
    <3>3. pc' \in [Loops -> Waits \cup Cycle]
      BY <2>2 DEF GrabFails, Work, Move
    <3>4. UNCHANGED <<now, settingVars, ctxDone, startedAt, todo, seen,
                      season, storeVars, noBetter>>
      BY <2>2 DEF GrabFails, Work
    <3> QED BY <3>2, <3>3, <3>4
  <2>4. CASE Reset(l) \/ ResetFails(l)
    BY <2>0, <2>4 DEF Reset, ResetFails, Work, Move
  <2>5. CASE Increment(l)
    BY <2>0, <2>5 DEF Increment, Work, Move
  <2>6. CASE Reread(l) \/ CounterFails(l)
    BY <2>6 DEF Reread, CounterFails, Work, Move
  <2>7. CASE Park(l)
    BY <2>0, <2>7 DEF Park, Move
  <2>8. CASE CooldownSet(l) \/ CooldownLost(l)
    <3>1. expires' \in [Seasons -> Nat] /\ quietUntil' \in [Seasons -> Nat]
      BY <2>0, <2>8 DEF CooldownSet, CooldownLost, GiveUp, Leave, Move
    <3>2. Leave(l, "cooldown") /\ UNCHANGED <<attempts, noBetter>>
      BY <2>8 DEF CooldownSet, CooldownLost
    <3> QED BY <3>1, <3>2 DEF Leave, Move
  <2> QED BY <1>5, <2>1, <2>2, <2>4, <2>5, <2>6, <2>7, <2>8 DEF ActStep
<1>6. ASSUME NEW s \in Seasons, Unblock(s) PROVE TypeOK'
  BY <1>6 DEF Unblock
<1>7. CASE Tick \/ Signal
  <2>1. CASE Tick
    BY <2>1 DEF Tick
  <2>2. CASE Signal
    BY <2>2 DEF Signal
  <2> QED BY <1>7, <2>1, <2>2
<1>8. CASE Restart
  <2>1. quietUntil' \in [Seasons -> Nat]
    BY <1>8 DEF Restart, GiveUp
  <2>2. noBetter' \in [Seasons -> Nat]
    BY <1>8 DEF Restart
  <2> QED BY <1>8, <2>1, <2>2 DEF Restart
<1>9. CASE UNCHANGED vars
  BY <1>9 DEF vars
<1> QED BY <1>1, <1>2, <1>3, <1>4, <1>5, <1>6, <1>7, <1>8, <1>9, Steps

-----------------------------------------------------------------------------
(* A loop that works on a season has one, so the types are an invariant.    *)

LEMMA WorkKeepsSeason ==
  ASSUME TypeOK, AtWork, NEW l \in Loops,
         NEW from \in Evaluating \cup Acting, NEW to \in Evaluating \cup Acting,
         Work(l, from, to),
         to \in Acting \/ (from \in Evaluating /\ UNCHANGED took),
         \A m \in Loops \ {l} : took'[m] = took[m]
  PROVE  AtWork'
<1> USE DEF TypeOK, AtWork, Work, Move, Evaluating, Acting
<1>1. /\ UNCHANGED season
      /\ pc[l] = from /\ pc'[l] = to
      /\ \A m \in Loops \ {l} : pc'[m] = pc[m]
  OBVIOUS
<1>2. season'[l] \in Seasons /\ (took'[l] => to \in Acting)
  BY <1>1
<1>3. ASSUME NEW m \in Loops \ {l}
      PROVE  /\ pc'[m] \in Evaluating \cup Acting => season'[m] \in Seasons
             /\ took'[m] => pc'[m] \in Acting
  BY <1>1, <1>3
<1> QED BY <1>1, <1>2, <1>3

LEMMA LeaveKeepsSeason ==
  ASSUME TypeOK, AtWork, NEW l \in Loops, NEW from, Leave(l, from)
  PROVE  AtWork'
  BY DEF TypeOK, AtWork, Leave, Move, Evaluating, Acting

(* A step that only takes a loop to or from a place without a season. *)
LEMMA IdleKeepsSeason ==
  ASSUME TypeOK, AtWork, NEW l \in Loops,
         pc[l] \in Waits \cup {"next"}, NEW to \in Waits \cup {"next", "gate"},
         pc' = [pc EXCEPT ![l] = to], UNCHANGED took,
         \A m \in Loops \ {l} : season'[m] = season[m],
         to = "gate" => season'[l] \in Seasons
  PROVE  AtWork'
  BY DEF TypeOK, AtWork, Waits, Evaluating, Acting

LEMMA StepAtWork == TypeOK /\ AtWork /\ [Next]_vars => AtWork'
<1> SUFFICES ASSUME TypeOK, AtWork, [Next]_vars PROVE AtWork'
  OBVIOUS
<1>1. ASSUME NEW f \in Refreshers, Setting(f) PROVE AtWork'
  <2>1. UNCHANGED <<pc, season, took>>
    BY <1>1 DEF Setting, PutSettings, Publish, Load, SwapKeepsOrStops, loopVars
  <2> QED BY <2>1 DEF AtWork
<1>2. ASSUME NEW f \in Refreshers, NEW l \in Loops, SwapStarts(f, l) PROVE AtWork'
  <2>1. /\ pc[l] = "off" /\ pc' = [pc EXCEPT ![l] = "tick"]
        /\ UNCHANGED <<season, took>>
    BY <1>2 DEF SwapStarts, Move
  <2> QED BY <2>1, IdleKeepsSeason DEF Waits
<1>3. ASSUME NEW l \in Loops, Turn(l) PROVE AtWork'
  <2>1. ASSUME NEW t \in Torrents, TorrentPicked(l, t) PROVE AtWork'
    <3>1. SeasonOf[t] \in Seasons
      BY RegrabAssumption
    <3>2. /\ pc[l] = "next" /\ pc' = [pc EXCEPT ![l] = "gate"]
          /\ season'[l] = SeasonOf[t] /\ UNCHANGED took
          /\ \A m \in Loops \ {l} : season'[m] = season[m]
      BY <2>1 DEF TorrentPicked, Move, TypeOK
    <3> QED BY <3>1, <3>2, IdleKeepsSeason
  <2>2. ASSUME NEW t \in Torrents, TorrentSkipped(l, t) PROVE AtWork'
    BY <2>2 DEF TorrentSkipped, AtWork
  <2>3. CASE Exit(l) \/ TimerFires(l) \/ PollEnds(l)
             \/ CycleStarts(l) \/ CycleEnds(l)
    <3>1. /\ UNCHANGED <<season, took>>
          /\ pc[l] \in {"idle", "tick", "next"}
          /\ \E to \in {"off", "tick", "idle", "next"} : pc' = [pc EXCEPT ![l] = to]
      BY <2>3 DEF Exit, TimerFires, PollEnds, CycleStarts, CycleEnds,
                  Move, loopVars
    <3> QED BY <3>1, IdleKeepsSeason DEF Waits
  <2> QED BY <1>3, <2>1, <2>2, <2>3 DEF Turn
<1>4. ASSUME NEW l \in Loops, EvaluateStep(l) PROVE AtWork'
  <2>1. CASE Gated(l)
    BY <2>1, LeaveKeepsSeason DEF Gated
  <2>2. CASE Replayed(l) \/ ReplayFails(l)
    <3>1. /\ \E to \in Acting : Work(l, "replay", to)
          /\ \A m \in Loops \ {l} : took'[m] = took[m]
      BY <2>2 DEF Replayed, ReplayFails, Accepts, Ignores, Acting, TypeOK
    <3>2. "replay" \in Evaluating
      BY DEF Evaluating
    <3> QED BY <3>1, <3>2, WorkKeepsSeason
  <2>3. CASE ~Gated(l) /\ ~(Replayed(l) \/ ReplayFails(l))
    <3>1. /\ UNCHANGED took
          /\ \E from \in Evaluating, to \in Evaluating \cup Acting : Work(l, from, to)
      BY <1>4, <2>3 DEF EvaluateStep, GatePasses, NotParked, ReleaseGone,
                        SearchFinds, SearchFails, NothingBetter, Evaluating, Acting
    <3> QED BY <3>1, WorkKeepsSeason
  <2> QED BY <2>1, <2>2, <2>3
<1>5. ASSUME NEW l \in Loops, ActStep(l) PROVE AtWork'
  <2>1. CASE CooldownSet(l) \/ CooldownLost(l)
    BY <2>1, LeaveKeepsSeason DEF CooldownSet, CooldownLost
  <2>2. CASE Park(l)
    BY <2>2 DEF Park, Move, AtWork, TypeOK, Evaluating, Acting, loopVars
  <2>3. CASE Grabbed(l) \/ GrabFails(l)
    <3>1. /\ \E to \in Acting : Work(l, "grab", to)
          /\ \A m \in Loops \ {l} : took'[m] = took[m]
      BY <2>3 DEF Grabbed, GrabFails, Accepts, Ignores, Acting, TypeOK
    <3>2. "grab" \in Acting
      BY DEF Acting
    <3> QED BY <3>1, <3>2, WorkKeepsSeason
  <2>4. CASE Reset(l) \/ ResetFails(l) \/ Increment(l) \/ Reread(l) \/ CounterFails(l)
    <3>1. /\ UNCHANGED took
          /\ \E from \in Acting, to \in Acting : Work(l, from, to)
      BY <2>4 DEF Reset, ResetFails, Increment, Reread, CounterFails, Acting
    <3> QED BY <3>1, WorkKeepsSeason
  <2> QED BY <1>5, <2>1, <2>2, <2>3, <2>4 DEF ActStep
<1>6. ASSUME NEW s \in Seasons, Unblock(s) PROVE AtWork'
  BY <1>6 DEF Unblock, AtWork, loopVars
<1>7. CASE Tick \/ Signal
  BY <1>7 DEF Tick, Signal, AtWork, loopVars
<1>8. CASE Restart
  BY <1>8 DEF Restart, AtWork, Evaluating, Acting
<1>9. CASE UNCHANGED vars
  BY <1>9 DEF vars, AtWork
<1> QED BY <1>1, <1>2, <1>3, <1>4, <1>5, <1>6, <1>7, <1>8, <1>9, Steps

(* The types hold in every reachable state. *)
THEOREM TypeCorrect == Spec => []TypeOK
<1>1. Init => TypeOK /\ AtWork
  <2> SUFFICES ASSUME Init PROVE TypeOK /\ AtWork
    OBVIOUS
  <2>1. AtWork
    BY DEF Init, AtWork, Evaluating, Acting
  <2>2. TypeOK
    BY DEF Init, TypeOK, Waits
  <2> QED BY <2>1, <2>2
<1>2. TypeOK /\ AtWork /\ [Next]_vars => (TypeOK /\ AtWork)'
  BY StepType, StepAtWork
<1> QED BY <1>1, <1>2, PTL DEF Spec

-----------------------------------------------------------------------------
(* A loop that was not cancelled is the only one.                           *)

LEMMA StepOneRegistered ==
  TypeOK /\ OneRegistered /\ [Next]_vars => OneRegistered'
<1> SUFFICES ASSUME TypeOK, OneRegistered, [Next]_vars PROVE OneRegistered'
  OBVIOUS
<1> USE DEF Waits
<1>1. ASSUME NEW f \in Refreshers, Setting(f) PROVE OneRegistered'
  <2>1. CASE PutSettings(f) \/ Publish(f) \/ Load(f)
    <3>1. UNCHANGED <<pc, ctxDone, current>>
      BY <2>1 DEF PutSettings, Publish, Load
    <3> QED BY <3>1 DEF OneRegistered
  <2>2. CASE SwapKeepsOrStops(f)
    <3>1. CASE UNCHANGED <<current, ctxDone>>
      BY <2>2, <3>1 DEF SwapKeepsOrStops, OneRegistered
    <3>2. CASE ctxDone' = ctxDone \cup {l \in {current} : pc[l] # "off"}
      BY <2>2, <3>2 DEF SwapKeepsOrStops, OneRegistered
    <3> QED BY <2>2, <3>1, <3>2 DEF SwapKeepsOrStops
  <2> QED BY <1>1, <2>1, <2>2 DEF Setting
<1>2. ASSUME NEW f \in Refreshers, NEW l \in Loops, SwapStarts(f, l) PROVE OneRegistered'
  <2>1. /\ current = None /\ current' = l
        /\ \A m \in Loops \ {l} : pc'[m] = pc[m] /\ (m \in ctxDone => m \in ctxDone')
    BY <1>2 DEF SwapStarts, Move, TypeOK
  <2>2. None \notin Loops
    BY RegrabAssumption
  <2> QED BY <2>1, <2>2 DEF OneRegistered
<1>3. ASSUME NEW l \in Loops, pc[l] # "off", UNCHANGED <<current, ctxDone>>,
             NEW to, pc' = [pc EXCEPT ![l] = to]
      PROVE  OneRegistered'
  BY <1>3 DEF OneRegistered, TypeOK
<1>4. ASSUME NEW l \in Loops, Turn(l) PROVE OneRegistered'
  <2>1. CASE Exit(l)
    <3>1. /\ pc'[l] = "off" /\ UNCHANGED current
          /\ \A m \in Loops \ {l} : pc'[m] = pc[m] /\ (m \in ctxDone => m \in ctxDone')
      BY <2>1 DEF Exit, Move, TypeOK, settingVars
    <3> QED BY <3>1 DEF OneRegistered
  <2>2. ASSUME NEW t \in Torrents, TorrentSkipped(l, t) PROVE OneRegistered'
    BY <2>2 DEF TorrentSkipped, OneRegistered, settingVars
  <2>3. ASSUME NEW t \in Torrents, TorrentPicked(l, t) PROVE OneRegistered'
    <3>1. pc[l] # "off" /\ UNCHANGED <<current, ctxDone>> /\ pc' = [pc EXCEPT ![l] = "gate"]
      BY <2>3 DEF TorrentPicked, Move, settingVars
    <3> QED BY <1>3, <3>1
  <2>4. CASE TimerFires(l) \/ PollEnds(l) \/ CycleStarts(l) \/ CycleEnds(l)
    <3>1. /\ pc[l] # "off" /\ UNCHANGED <<current, ctxDone>>
          /\ \E to \in {"tick", "idle", "next"} : pc' = [pc EXCEPT ![l] = to]
      BY <2>4 DEF TimerFires, PollEnds, CycleStarts, CycleEnds, Move, settingVars
    <3> QED BY <1>3, <3>1
  <2> QED BY <1>4, <2>1, <2>2, <2>3, <2>4 DEF Turn
<1>5. ASSUME NEW l \in Loops, EvaluateStep(l) \/ ActStep(l) PROVE OneRegistered'
  <2>1. /\ pc[l] # "off" /\ UNCHANGED <<current, ctxDone>>
        /\ \E to \in Cycle : pc' = [pc EXCEPT ![l] = to]
    <3>1. CASE EvaluateStep(l)
      BY <3>1 DEF EvaluateStep, Gated, GatePasses, NotParked, Replayed, ReleaseGone,
                  ReplayFails, SearchFinds, SearchFails, NothingBetter, Work, Leave,
                  Move, settingVars, Cycle, Evaluating, Acting
    <3>2. CASE ActStep(l)
      BY <3>2 DEF ActStep, Grabbed, GrabFails, Reset, ResetFails, Increment, Reread,
                  CounterFails, Park, CooldownSet, CooldownLost, Work, Leave,
                  Move, settingVars, Cycle, Evaluating, Acting
    <3> QED BY <1>5, <3>1, <3>2
  <2> QED BY <1>3, <2>1
<1>6. ASSUME NEW s \in Seasons, Unblock(s) PROVE OneRegistered'
  BY <1>6 DEF Unblock, OneRegistered, settingVars
<1>7. CASE Tick \/ Signal
  BY <1>7 DEF Tick, Signal, OneRegistered, settingVars
<1>8. CASE Restart
  BY <1>8 DEF Restart, OneRegistered
<1>9. CASE UNCHANGED vars
  BY <1>9 DEF vars, OneRegistered
<1> QED BY <1>1, <1>2, <1>4, <1>5, <1>6, <1>7, <1>8, <1>9, Steps

-----------------------------------------------------------------------------
(* The gate.  Its row is renewed by a loop that is not cancelled, behind     *)
(* whose back only cancelled ones can be past the gate.                      *)

LEMMA StepGateHolds ==
  IInv /\ [Next]_vars => GateHolds'
<1> SUFFICES ASSUME IInv, [Next]_vars PROVE GateHolds'
  OBVIOUS
<1> USE DEF IInv, Waits, Cycle, Evaluating, Acting, PastGate
(* A step of l that renews no row and takes l to where the gate does not     *)
(* count, or leaves it where it was.                                         *)
<1>a. ASSUME NEW l \in Loops, UNCHANGED <<now, expires>>,
             \A m \in Loops \ {l} : /\ pc'[m] = pc[m] /\ season'[m] = season[m]
                                    /\ took'[m] = took[m] /\ startedAt'[m] = startedAt[m]
                                    /\ m \in ctxDone => m \in ctxDone',
             startedAt'[l] <= now,
             pc'[l] \in PastGate /\ ~took'[l]
               => expires[season'[l]] <= startedAt'[l] \/ l \in ctxDone'
      PROVE  GateHolds'
  BY <1>a DEF GateHolds
<1>1. ASSUME NEW f \in Refreshers, Setting(f) PROVE GateHolds'
  <2>1. /\ UNCHANGED <<now, pc, season, startedAt, took, expires>>
        /\ \A l \in Loops : l \in ctxDone => l \in ctxDone'
    BY <1>1 DEF Setting, PutSettings, Publish, Load, SwapKeepsOrStops, loopVars, storeVars
  <2> QED BY <2>1 DEF GateHolds
<1>2. ASSUME NEW f \in Refreshers, NEW l \in Loops, SwapStarts(f, l) PROVE GateHolds'
  <2>1. /\ UNCHANGED <<now, expires, season, took, startedAt>>
        /\ pc'[l] = "tick" /\ \A m \in Loops \ {l} : pc'[m] = pc[m]
        /\ \A m \in Loops \ {l} : m \in ctxDone => m \in ctxDone'
    BY <1>2 DEF SwapStarts, Move, TypeOK, storeVars
  <2> QED BY <1>a, <2>1 DEF GateHolds
<1>3. ASSUME NEW l \in Loops, Turn(l) PROVE GateHolds'
  <2>1. /\ UNCHANGED <<now, expires, took>>
        /\ startedAt'[l] \in {startedAt[l], now, 0}
        /\ pc'[l] \in {"off", "tick", "idle", "next", "gate"}
        /\ \A m \in Loops \ {l} : /\ pc'[m] = pc[m] /\ season'[m] = season[m]
                                  /\ startedAt'[m] = startedAt[m]
                                  /\ m \in ctxDone => m \in ctxDone'
    BY <1>3 DEF Turn, Exit, TimerFires, PollEnds, CycleStarts, CycleEnds,
                TorrentPicked, TorrentSkipped, Move, TypeOK, loopVars, storeVars
  <2>2. startedAt'[l] <= now
    BY <2>1 DEF GateHolds, TypeOK
  <2> QED BY <1>a, <2>1, <2>2
<1>4. ASSUME NEW l \in Loops, EvaluateStep(l) PROVE GateHolds'
  <2>0. /\ UNCHANGED <<now, startedAt, expires, ctxDone>>
        /\ \A m \in Loops \ {l} : pc'[m] = pc[m] /\ season'[m] = season[m]
                                  /\ took'[m] = took[m]
    BY <1>4 DEF EvaluateStep, Gated, GatePasses, NotParked, Replayed, ReleaseGone,
                ReplayFails, SearchFinds, SearchFails, NothingBetter, Work, Leave,
                Move, Accepts, Ignores, TypeOK
  <2>1. CASE Gated(l)
    <3>1. pc'[l] = "next"
      BY <2>1 DEF Gated, Leave, Move, TypeOK
    <3> QED BY <1>a, <2>0, <3>1 DEF GateHolds
  <2>2. CASE GatePasses(l)
    <3>1. expires[season'[l]] <= startedAt'[l]
      BY <2>0, <2>2 DEF GatePasses, Work
    <3> QED BY <1>a, <2>0, <3>1 DEF GateHolds
  <2>3. CASE ~(Gated(l) \/ GatePasses(l))
    <3>1. /\ pc[l] \in {"listed", "replay", "search"}
          /\ UNCHANGED season
          /\ took'[l] = took[l] \/ took'[l]
      BY <1>4, <2>3 DEF EvaluateStep, NotParked, Replayed, ReleaseGone, ReplayFails,
                        SearchFinds, SearchFails, NothingBetter, Work, Move,
                        Accepts, Ignores, TypeOK
    <3> QED BY <1>a, <2>0, <3>1 DEF GateHolds
  <2> QED BY <2>1, <2>2, <2>3
<1>5. ASSUME NEW l \in Loops, ActStep(l) PROVE GateHolds'
  <2>0. /\ UNCHANGED <<now, startedAt, ctxDone>>
        /\ pc'[l] \in {"reset", "reread", "park", "cooldown", "next"}
        /\ pc[l] # "off" /\ (pc[l] \in Acting => season[l] \in Seasons)
        /\ \A m \in Loops \ {l} : pc'[m] = pc[m] /\ season'[m] = season[m]
                                  /\ took'[m] = took[m]
    BY <1>5 DEF ActStep, Grabbed, GrabFails, Reset,
                ResetFails, Increment, Reread, CounterFails, Park, CooldownSet,
                CooldownLost, Work, Leave, Move, Accepts, Ignores, AtWork, TypeOK, loopVars
  <2>1. CASE CooldownSet(l)
    <3>1. l \notin ctxDone
      BY <2>1 DEF CooldownSet, Alive
    <3>2. ASSUME NEW m \in Loops \ {l}, pc[m] \in PastGate PROVE m \in ctxDone
      BY <2>0, <3>1, <3>2 DEF OneRegistered
    <3> QED BY <2>0, <3>2 DEF GateHolds
  <2>2. CASE ~CooldownSet(l)
    <3>1. UNCHANGED expires
      BY <1>5, <2>2 DEF ActStep, Grabbed, GrabFails, Reset, ResetFails, Increment,
                        Reread, CounterFails, Park, CooldownLost
    <3> QED BY <1>a, <2>0, <3>1 DEF GateHolds
  <2> QED BY <2>1, <2>2
<1>6. ASSUME NEW s \in Seasons, Unblock(s) PROVE GateHolds'
  BY <1>6 DEF Unblock, GateHolds, loopVars
<1>7. CASE Tick
  <2>1. /\ now' = now + 1 /\ now \in Nat
        /\ UNCHANGED <<pc, season, took, startedAt, expires, ctxDone>>
        /\ startedAt \in [Loops -> Nat]
    BY <1>7 DEF Tick, TypeOK, loopVars, storeVars
  <2> QED BY <2>1 DEF GateHolds
<1>8. CASE Signal
  <2>1. /\ UNCHANGED <<now, pc, season, took, startedAt, expires>>
        /\ ctxDone' = {l \in Loops : pc[l] # "off"}
    BY <1>8 DEF Signal, loopVars, storeVars
  <2> QED BY <2>1 DEF GateHolds
<1>9. CASE Restart
  <2>1. now \in Nat /\ UNCHANGED now
        /\ \A l \in Loops : pc'[l] = "off" /\ startedAt'[l] = 0
    BY <1>9 DEF Restart, TypeOK
  <2> QED BY <2>1 DEF GateHolds
<1>10. CASE UNCHANGED vars
  BY <1>10 DEF vars, GateHolds
<1> QED BY <1>1, <1>2, <1>3, <1>4, <1>5, <1>6, <1>7, <1>8, <1>9, <1>10, Steps

-----------------------------------------------------------------------------
(* The cooldown row.                                                         *)

LEMMA StepGuarded ==
  IInv /\ [Next]_vars => Guarded'
<1> SUFFICES ASSUME IInv, [Next]_vars PROVE Guarded'
  OBVIOUS
<1> USE DEF IInv, Waits, Cycle, Evaluating, Acting
<1> DEFINE Same == UNCHANGED <<now, expires, quietUntil>>
<1>0. Cooldown \in Nat
  BY RegrabAssumption
(* A step that leaves the rows and who has grabbed what alone. *)
<1>a. ASSUME Same, \A m \in Loops : took[m] => took'[m] /\ season'[m] = season[m]
      PROVE  Guarded'
  BY <1>a DEF Guarded
(* A step of l in which Sonarr takes a release. *)
<1>b. ASSUME NEW l \in Loops, Accepts(l), UNCHANGED <<now, expires, season>>,
             season[l] \in Seasons
      PROVE  Guarded'
  <2>1. took'[l] /\ \A m \in Loops : took[m] => took'[m]
    BY <1>b DEF Accepts, TypeOK
  <2>2. quietUntil'[season[l]] = now' + Cooldown
    BY <1>b DEF Accepts, TypeOK
  <2>3. \A s \in Seasons \ {season[l]} : quietUntil'[s] = quietUntil[s]
    BY <1>b DEF Accepts, TypeOK
  <2>4. ASSUME NEW s \in Seasons PROVE quietUntil'[s] <= now' + Cooldown
    BY <1>0, <1>b, <2>2, <2>3 DEF Guarded, TypeOK
  <2>5. ASSUME NEW s \in Seasons, s # season[l]
        PROVE  quietUntil'[s] <= expires'[s] \/ \E m \in Loops : took'[m] /\ season'[m] = s
    BY <1>b, <2>1, <2>3, <2>5 DEF Guarded
  <2>6. \E m \in Loops : took'[m] /\ season'[m] = season[l]
    BY <1>b, <2>1
  <2> QED BY <2>4, <2>5, <2>6 DEF Guarded
<1>1. ASSUME NEW f \in Refreshers, Setting(f) PROVE Guarded'
  <2>1. Same /\ UNCHANGED <<season, took>>
    BY <1>1 DEF Setting, PutSettings, Publish, Load, SwapKeepsOrStops,
                loopVars, storeVars, historyVars
  <2> QED BY <1>a, <2>1
<1>2. ASSUME NEW f \in Refreshers, NEW l \in Loops, SwapStarts(f, l) PROVE Guarded'
  <2>1. Same /\ UNCHANGED <<season, took>>
    BY <1>2 DEF SwapStarts, storeVars, historyVars
  <2> QED BY <1>a, <2>1
<1>3. ASSUME NEW l \in Loops, Turn(l) PROVE Guarded'
  <2>1. /\ Same /\ UNCHANGED took /\ pc[l] \notin Acting
        /\ \A m \in Loops \ {l} : season'[m] = season[m]
    BY <1>3 DEF Turn, Exit, TimerFires, PollEnds, CycleStarts, CycleEnds, TypeOK,
                TorrentPicked, TorrentSkipped, Move, loopVars, storeVars, historyVars
  <2>2. ~took[l]
    BY <2>1 DEF AtWork
  <2> QED BY <1>a, <2>1, <2>2
<1>4. ASSUME NEW l \in Loops, EvaluateStep(l) PROVE Guarded'
  <2>0. season[l] \in Seasons
    BY <1>4 DEF EvaluateStep, Gated, GatePasses, NotParked, Replayed, ReleaseGone,
                ReplayFails, SearchFinds, SearchFails, NothingBetter, Work, Leave,
                Move, AtWork
  <2>1. CASE Gated(l)
    <3>1. /\ Same /\ pc[l] \notin Acting
          /\ \A m \in Loops \ {l} : season'[m] = season[m] /\ took'[m] = took[m]
      BY <2>1 DEF Gated, Leave, Move, historyVars, TypeOK
    <3>2. ~took[l]
      BY <3>1 DEF AtWork
    <3> QED BY <1>a, <3>1, <3>2
  <2>2. CASE (Replayed(l) \/ ReplayFails(l)) /\ Accepts(l)
    <3>1. UNCHANGED <<now, expires, season>>
      BY <2>2 DEF Replayed, ReplayFails, Work
    <3> QED BY <1>b, <2>0, <2>2, <3>1
  <2>3. CASE ~Gated(l) /\ ~((Replayed(l) \/ ReplayFails(l)) /\ Accepts(l))
    <3>1. Same /\ UNCHANGED <<season, took>>
      BY <1>4, <2>3 DEF EvaluateStep, GatePasses, NotParked, Replayed, ReleaseGone,
                        ReplayFails, SearchFinds, SearchFails, NothingBetter, Work,
                        Ignores, historyVars
    <3> QED BY <1>a, <3>1
  <2> QED BY <2>1, <2>2, <2>3
<1>5. ASSUME NEW l \in Loops, ActStep(l) PROVE Guarded'
  <2>0. season[l] \in Seasons
    BY <1>5 DEF ActStep, Grabbed, GrabFails, Reset,
                ResetFails, Increment, Reread, CounterFails, Park, CooldownSet,
                CooldownLost, Work, Leave, Move, AtWork
  <2>1. CASE (Grabbed(l) \/ GrabFails(l)) /\ Accepts(l)
    <3>1. UNCHANGED <<now, expires, season>>
      BY <2>1 DEF Grabbed, GrabFails, Work
    <3> QED BY <1>b, <2>0, <2>1, <3>1
  <2>2. CASE (GrabFails(l) /\ ~Accepts(l)) \/ Reset(l)
             \/ ResetFails(l) \/ Increment(l) \/ Reread(l) \/ CounterFails(l) \/ Park(l)
    <3>1. Same /\ UNCHANGED <<season, took>>
      BY <2>2 DEF GrabFails, Reset, ResetFails, Increment, Reread,
                  CounterFails, Park, Work, Ignores, loopVars, historyVars
    <3> QED BY <1>a, <3>1
  <2>3. CASE CooldownSet(l)
    <3>1. /\ UNCHANGED <<now, quietUntil>>
          /\ expires'[season[l]] = now + Cooldown
          /\ \A s \in Seasons \ {season[l]} : expires'[s] = expires[s]
          /\ \A m \in Loops \ {l} : season'[m] = season[m] /\ took'[m] = took[m]
      BY <2>0, <2>3 DEF CooldownSet, Leave, TypeOK, historyVars
    <3> QED BY <2>0, <3>1 DEF Guarded
  <2>4. CASE CooldownLost(l)
    <3>1. /\ UNCHANGED <<now, expires>>
          /\ \A m \in Loops \ {l} : season'[m] = season[m] /\ took'[m] = took[m]
      BY <2>4 DEF CooldownLost, Leave, TypeOK
    <3>2. \A s \in Seasons : quietUntil'[s] = IF s \in LeftOpen({l}) THEN 0 ELSE quietUntil[s]
      BY <2>4 DEF CooldownLost, GiveUp
    <3>3. /\ now \in Nat
          /\ \A s \in Seasons : expires[s] \in Nat /\ quietUntil[s] \in Nat
      BY DEF TypeOK
    <3>4. ASSUME NEW s \in Seasons PROVE quietUntil'[s] <= now' + Cooldown
      BY <1>0, <3>1, <3>2, <3>3 DEF Guarded
    <3>5. ASSUME NEW s \in Seasons
          PROVE  quietUntil'[s] <= expires'[s] \/ \E m \in Loops : took'[m] /\ season'[m] = s
      <4>1. CASE quietUntil[s] <= expires[s] \/ s \in LeftOpen({l})
        BY <3>1, <3>2, <3>3, <4>1
      <4>2. CASE \E m \in Loops \ {l} : took[m] /\ season[m] = s
        BY <3>1, <4>2
      <4>3. CASE /\ took[l] /\ season[l] = s /\ ~(quietUntil[s] <= expires[s])
                 /\ \A m \in Loops \ {l} : took[m] => season[m] # s
        <5>1. s \in LeftOpen({l})
          BY <3>3, <4>3 DEF LeftOpen
        <5> QED BY <4>1, <5>1
      <4> QED BY <4>1, <4>2, <4>3 DEF Guarded
    <3> QED BY <3>4, <3>5 DEF Guarded
  <2> QED BY <1>5, <2>1, <2>2, <2>3, <2>4 DEF ActStep, Grabbed
<1>6. ASSUME NEW s \in Seasons, Unblock(s) PROVE Guarded'
  BY <1>6 DEF Unblock, Guarded, loopVars, historyVars
<1>7. CASE Tick
  <2>1. /\ now' = now + 1
        /\ UNCHANGED <<expires, season, took>>
        /\ \A s \in Seasons :
             quietUntil'[s] = IF quietUntil[s] <= now' THEN 0 ELSE quietUntil[s]
    BY <1>7 DEF Tick, loopVars, storeVars
  <2>2. /\ now \in Nat
        /\ \A s \in Seasons : expires[s] \in Nat /\ quietUntil[s] \in Nat
    BY DEF TypeOK
  <2> QED BY <1>0, <2>1, <2>2 DEF Guarded
<1>8. CASE Signal
  <2>1. Same /\ UNCHANGED <<season, took>>
    BY <1>8 DEF Signal, loopVars, storeVars, historyVars
  <2> QED BY <1>a, <2>1
<1>9. CASE Restart
  <2>1. /\ UNCHANGED <<now, expires>>
        /\ \A s \in Seasons :
             quietUntil'[s] = IF s \in LeftOpen(Loops) THEN 0 ELSE quietUntil[s]
    BY <1>9 DEF Restart, GiveUp, storeVars
  <2>2. /\ now \in Nat
        /\ \A s \in Seasons : expires[s] \in Nat /\ quietUntil[s] \in Nat
    BY DEF TypeOK
  <2>3. ASSUME NEW s \in Seasons PROVE s \in LeftOpen(Loops) \/ quietUntil[s] <= expires[s]
    BY <2>2 DEF LeftOpen, Guarded
  <2> QED BY <1>0, <2>1, <2>2, <2>3 DEF Guarded
<1>10. CASE UNCHANGED vars
  BY <1>10 DEF vars, Guarded
<1> QED BY <1>1, <1>2, <1>3, <1>4, <1>5, <1>6, <1>7, <1>8, <1>9, <1>10, Steps

-----------------------------------------------------------------------------
(* The counter.                                                              *)

LEMMA StepCounterBehind ==
  IInv /\ [Next]_vars => CounterBehind'
<1> SUFFICES ASSUME IInv, [Next]_vars PROVE CounterBehind'
  OBVIOUS
<1> USE DEF IInv, Waits, Cycle, Evaluating, Acting
<1> DEFINE Same == UNCHANGED <<attempts, noBetter>>
           Others(l) == \A m \in Loops \ {l} : pc'[m] = pc[m] /\ season'[m] = season[m]
           Due(s, l) == \E k \in Loops \ {l} : pc[k] = "reset" /\ season[k] = s
<1>0. /\ Threshold \in Nat
      /\ \A s \in Seasons : attempts[s] \in Nat /\ noBetter[s] \in Nat
  BY RegrabAssumption DEF TypeOK
(* A step of l, outside the reset, that leaves the counters alone. *)
<1>a. ASSUME NEW l \in Loops, Same, Others(l), pc[l] # "reset",
             \A m \in Loops \ {l} : m \in ctxDone => m \in ctxDone',
             pc'[l] \notin {"increment", "park"}
      PROVE  CounterBehind'
  BY <1>a DEF CounterBehind, Enough
(* A loop that was not cancelled has the seasons' counters to itself. *)
<1>b. ASSUME NEW l \in Loops, l \notin ctxDone, pc[l] # "off", Others(l), UNCHANGED ctxDone
      PROVE  \A m \in Loops \ {l} : m \notin ctxDone' => pc'[m] \notin {"increment", "park"}
  BY <1>b DEF OneRegistered
<1>1. ASSUME NEW f \in Refreshers, Setting(f) PROVE CounterBehind'
  <2>1. /\ Same /\ UNCHANGED <<pc, season>>
        /\ \A m \in Loops : m \in ctxDone => m \in ctxDone'
    BY <1>1 DEF Setting, PutSettings, Publish, Load, SwapKeepsOrStops,
                loopVars, storeVars, historyVars
  <2> QED BY <2>1 DEF CounterBehind, Enough
<1>2. ASSUME NEW f \in Refreshers, NEW l \in Loops, SwapStarts(f, l)
      PROVE  CounterBehind'
  <2>1. /\ Same /\ Others(l) /\ pc[l] = "off" /\ pc'[l] = "tick"
        /\ \A m \in Loops \ {l} : m \in ctxDone => m \in ctxDone'
    BY <1>2 DEF SwapStarts, Move, TypeOK, storeVars, historyVars
  <2> QED BY <1>a, <2>1
<1>3. ASSUME NEW l \in Loops, Turn(l) PROVE CounterBehind'
  <2>1. /\ Same /\ Others(l)
        /\ pc[l] \in {"idle", "tick", "next"}
        /\ pc'[l] \in {"off", "idle", "tick", "next", "gate"}
        /\ \A m \in Loops \ {l} : m \in ctxDone => m \in ctxDone'
    BY <1>3 DEF Turn, Exit, TimerFires, PollEnds, CycleStarts, CycleEnds,
                TorrentPicked, TorrentSkipped, Move, TypeOK, loopVars, storeVars,
                historyVars
  <2> QED BY <1>a, <2>1
<1>4. ASSUME NEW l \in Loops, EvaluateStep(l) PROVE CounterBehind'
  <2>1. CASE NothingBetter(l)
    <3>1. /\ UNCHANGED <<attempts, season, ctxDone>> /\ Others(l)
          /\ pc[l] = "search" /\ pc'[l] = "increment" /\ l \notin ctxDone
          /\ season[l] \in Seasons
          /\ noBetter' = [noBetter EXCEPT ![season[l]] = IF @ < Threshold THEN @ + 1 ELSE @]
      BY <2>1 DEF NothingBetter, Work, Move, AtWork, TypeOK, Alive
    <3>2. /\ \A s \in Seasons \ {season[l]} : noBetter'[s] = noBetter[s]
          /\ noBetter'[season[l]] = IF noBetter[season[l]] < Threshold
                                      THEN noBetter[season[l]] + 1 ELSE noBetter[season[l]]
      BY <3>1 DEF TypeOK
    <3>3. \A s \in Seasons : Enough(s)' \/ attempts'[s] <= noBetter'[s] \/ Due(s, l)
      BY <1>0, <3>1, <3>2 DEF CounterBehind, Enough
    <3>4. Enough(season[l])' \/ attempts'[season[l]] < noBetter'[season[l]] \/ Due(season[l], l)
      BY <1>0, <3>1, <3>2 DEF CounterBehind, Enough
    <3>5. \A m \in Loops \ {l} : m \notin ctxDone' => pc'[m] \notin {"increment", "park"}
      BY <1>b, <3>1
    <3> QED BY <3>1, <3>3, <3>4, <3>5 DEF CounterBehind
  <2>2. CASE ~NothingBetter(l)
    <3>1. /\ Same /\ Others(l) /\ UNCHANGED ctxDone
          /\ pc[l] \in Evaluating
          /\ pc'[l] \in {"next", "listed", "replay", "search", "grab", "cooldown"}
      BY <1>4, <2>2 DEF EvaluateStep, Gated, GatePasses, NotParked, Replayed,
                        ReleaseGone, ReplayFails, SearchFinds, SearchFails, Work,
                        Leave, Move, TypeOK, historyVars
    <3> QED BY <1>a, <3>1
  <2> QED BY <2>1, <2>2
<1>5. ASSUME NEW l \in Loops, ActStep(l) PROVE CounterBehind'
  <2>0. /\ season[l] \in Seasons /\ UNCHANGED ctxDone /\ Others(l) /\ pc[l] # "off"
    BY <1>5 DEF ActStep, Grabbed, GrabFails, Reset,
                ResetFails, Increment, Reread, CounterFails, Park, CooldownSet,
                CooldownLost, Work, Leave, Move, AtWork, TypeOK, loopVars
  <2>1. CASE Grabbed(l) \/ Park(l)
    <3>1. /\ UNCHANGED <<attempts, season>>
          /\ pc[l] \in {"grab", "park"} /\ pc'[l] = "reset"
          /\ \A s \in Seasons \ {season[l]} : noBetter'[s] = noBetter[s]
      BY <2>1 DEF Grabbed, Park, Work, Move, TypeOK, loopVars
    <3>2. \A s \in Seasons :
            Enough(s)' \/ attempts'[s] <= noBetter'[s]
              \/ \E m \in Loops : pc'[m] = "reset" /\ season'[m] = s
      BY <2>0, <3>1 DEF CounterBehind, Enough
    <3>3. ASSUME NEW m \in Loops \ ctxDone', pc'[m] \in {"increment", "park"}
          PROVE  /\ m # l
                 /\ season[m] = season[l] =>
                      \E k \in Loops \ {m} : pc'[k] = "reset" /\ season'[k] = season'[m]
                 /\ season[m] \in Seasons
      BY <2>0, <3>1, <3>3 DEF AtWork
    <3> QED BY <2>0, <3>1, <3>2, <3>3 DEF CounterBehind, Enough
  <2>2. CASE Reset(l)
    <3>1. /\ UNCHANGED noBetter
          /\ pc[l] = "reset" /\ pc'[l] = "cooldown" /\ l \notin ctxDone
          /\ attempts'[season[l]] = 0
          /\ \A s \in Seasons \ {season[l]} : attempts'[s] = attempts[s]
      BY <2>0, <2>2 DEF Reset, Work, Move, TypeOK, Alive, historyVars
    <3>2. \A m \in Loops : m \notin ctxDone' => pc'[m] \notin {"increment", "park"}
      BY <1>b, <2>0, <3>1
    <3>3. \A s \in Seasons :
            Enough(s)' \/ attempts'[s] <= noBetter'[s]
              \/ \E m \in Loops : pc'[m] = "reset" /\ season'[m] = s
      BY <1>0, <2>0, <3>1 DEF CounterBehind, Enough
    <3> QED BY <3>2, <3>3 DEF CounterBehind
  <2>3. CASE ResetFails(l)
    <3>1. /\ UNCHANGED <<attempts, season>>
          /\ pc[l] = "reset" /\ pc'[l] = "cooldown"
          /\ noBetter'[season[l]] = Threshold
          /\ \A s \in Seasons \ {season[l]} : noBetter'[s] = noBetter[s]
      BY <2>0, <2>3 DEF ResetFails, Work, Move, TypeOK
    <3>2. Enough(season[l])'
      BY <1>0, <2>0, <3>1 DEF Enough
    <3>3. \A s \in Seasons :
            Enough(s)' \/ attempts'[s] <= noBetter'[s]
              \/ \E m \in Loops : pc'[m] = "reset" /\ season'[m] = s
      BY <2>0, <3>1, <3>2 DEF CounterBehind, Enough
    <3>4. ASSUME NEW m \in Loops \ ctxDone', pc'[m] \in {"increment", "park"}
          PROVE  /\ m # l /\ pc'[m] = pc[m] /\ season'[m] = season[m]
                 /\ season[m] \in Seasons /\ m \notin ctxDone
      BY <2>0, <3>1, <3>4 DEF AtWork
    <3>5. ASSUME NEW m \in Loops \ ctxDone', pc'[m] = "increment"
          PROVE  \/ Enough(season[m])'
                 \/ attempts'[season[m]] < noBetter'[season[m]]
                 \/ \E k \in Loops \ {m} : pc'[k] = "reset" /\ season'[k] = season[m]
      BY <2>0, <3>1, <3>2, <3>4, <3>5 DEF CounterBehind, Enough
    <3>6. ASSUME NEW m \in Loops \ ctxDone', pc'[m] = "park"
          PROVE  \/ Enough(season[m])'
                 \/ \E k \in Loops \ {m} : pc'[k] = "reset" /\ season'[k] = season[m]
      BY <2>0, <3>1, <3>2, <3>4, <3>6 DEF CounterBehind, Enough
    <3> QED BY <3>3, <3>4, <3>5, <3>6 DEF CounterBehind, Enough
  <2>4. CASE Increment(l)
    <3>1. /\ UNCHANGED <<noBetter, season>>
          /\ pc[l] = "increment" /\ pc'[l] = "reread" /\ l \notin ctxDone
          /\ attempts'[season[l]] = attempts[season[l]] + 1
          /\ \A s \in Seasons \ {season[l]} : attempts'[s] = attempts[s]
      BY <2>0, <2>4 DEF Increment, Work, Move, TypeOK, historyVars, Alive
    <3>2. \A m \in Loops : m \notin ctxDone' => pc'[m] \notin {"increment", "park"}
      BY <1>b, <2>0, <3>1
    <3>3. \/ Enough(season[l])' \/ attempts'[season[l]] <= noBetter'[season[l]]
          \/ Due(season[l], l)
      BY <1>0, <2>0, <3>1 DEF CounterBehind, Enough
    <3>4. \A s \in Seasons \ {season[l]} :
            Enough(s)' \/ attempts'[s] <= noBetter'[s] \/ Due(s, l)
      BY <3>1 DEF CounterBehind, Enough
    <3>5. ASSUME NEW s \in Seasons
          PROVE  \/ Enough(s)' \/ attempts'[s] <= noBetter'[s]
                 \/ \E m \in Loops : pc'[m] = "reset" /\ season'[m] = s
      <4>1. CASE s = season[l]
        BY <2>0, <3>1, <3>3, <4>1 DEF Enough
      <4>2. CASE s # season[l]
        BY <2>0, <3>1, <3>4, <4>2
      <4> QED BY <4>1, <4>2
    <3> QED BY <3>2, <3>5 DEF CounterBehind
  <2>5. CASE Reread(l)
    <3>1. /\ Same /\ UNCHANGED season /\ l \notin ctxDone
          /\ pc[l] = "reread"
          /\ \/ pc'[l] = "park" /\ attempts[season[l]] >= Threshold
             \/ pc'[l] = "cooldown"
      BY <2>5 DEF Reread, Work, Move, TypeOK, historyVars, Alive
    <3>2. \A m \in Loops \ {l} : m \notin ctxDone' => pc'[m] \notin {"increment", "park"}
      BY <1>b, <2>0, <3>1
    <3>3. \A s \in Seasons : Enough(s) \/ attempts[s] <= noBetter[s] \/ Due(s, l)
      BY <3>1 DEF CounterBehind
    <3>4. pc'[l] = "park" => Enough(season[l]) \/ Due(season[l], l)
      BY <1>0, <2>0, <3>1, <3>3 DEF Enough
    <3> QED BY <2>0, <3>1, <3>2, <3>3, <3>4 DEF CounterBehind, Enough
  <2>6. CASE GrabFails(l) \/ CounterFails(l)
             \/ CooldownSet(l) \/ CooldownLost(l)
    <3>1. /\ Same /\ pc[l] # "reset"
          /\ pc'[l] \in {"cooldown", "next"}
      BY <2>6 DEF GrabFails, CounterFails, CooldownSet,
                  CooldownLost, Work, Leave, Move, TypeOK, historyVars
    <3> QED BY <1>a, <2>0, <3>1
  <2> QED BY <1>5, <2>1, <2>2, <2>3, <2>4, <2>5, <2>6 DEF ActStep
<1>6. ASSUME NEW s \in Seasons, Unblock(s) PROVE CounterBehind'
  BY <1>6 DEF Unblock, CounterBehind, Enough, loopVars, historyVars
<1>7. CASE Tick
  BY <1>7 DEF Tick, CounterBehind, Enough, loopVars, storeVars
<1>8. CASE Signal
  <2>1. /\ Same /\ UNCHANGED <<pc, season>>
        /\ ctxDone' = {l \in Loops : pc[l] # "off"}
    BY <1>8 DEF Signal, loopVars, storeVars, historyVars
  <2> QED BY <2>1 DEF CounterBehind, Enough
<1>9. CASE Restart
  <2>1. /\ UNCHANGED attempts
        /\ \A l \in Loops : pc'[l] = "off"
        /\ \A s \in Seasons :
             noBetter'[s] = IF \E l \in Loops : pc[l] = "reset" /\ season[l] = s
                              THEN Threshold ELSE noBetter[s]
    BY <1>9 DEF Restart, storeVars
  <2>2. \A s \in Seasons : Enough(s)' \/ attempts'[s] <= noBetter'[s]
    BY <1>0, <2>1 DEF CounterBehind, Enough
  <2> QED BY <2>1, <2>2 DEF CounterBehind
<1>10. CASE UNCHANGED vars
  BY <1>10 DEF vars, CounterBehind, Enough
<1> QED BY <1>1, <1>2, <1>3, <1>4, <1>5, <1>6, <1>7, <1>8, <1>9, <1>10, Steps

-----------------------------------------------------------------------------
(* What the invariant says of a step. *)

LEMMA InvInit == Init => IInv
<1> SUFFICES ASSUME Init PROVE IInv
  OBVIOUS
<1>1. OneRegistered /\ AtWork
  BY DEF Init, OneRegistered, AtWork, Evaluating, Acting
<1>2. GateHolds
  <2>1. now = 1 /\ \A l \in Loops : pc[l] = "off" /\ startedAt[l] = 0
    BY DEF Init
  <2>2. \A l \in Loops : pc[l] \notin PastGate
    BY <2>1 DEF PastGate, Evaluating
  <2>3. ASSUME NEW l \in Loops PROVE startedAt[l] <= now
    <3>1. now = 1 /\ startedAt[l] = 0
      BY <2>1
    <3> QED BY <3>1
  <2> QED BY <2>2, <2>3 DEF GateHolds
<1>3. TypeOK
  BY DEF Init, TypeOK, Waits
<1>4. Guarded /\ CounterBehind
  BY RegrabAssumption DEF Init, Guarded, CounterBehind, Enough
<1> QED BY <1>1, <1>2, <1>3, <1>4 DEF IInv

LEMMA InvStep == IInv /\ [Next]_vars => IInv'
  BY StepType, StepOneRegistered, StepAtWork, StepGateHolds, StepGuarded,
     StepCounterBehind DEF IInv

(* A first acceptance comes from the replay or from the grab. *)
LEMMA TakesFrom ==
  ASSUME IInv, [Next]_vars, NEW l \in Loops, FirstTake(l)
  PROVE  pc[l] \in {"replay", "grab"} /\ season[l] \in Seasons
<1> USE DEF IInv, Waits, Cycle, Evaluating, Acting, FirstTake
<1>1. ~UNCHANGED took
  OBVIOUS
<1>2. ASSUME NEW m \in Loops, EvaluateStep(m) \/ ActStep(m)
      PROVE  pc[l] \in {"replay", "grab"}
  <2>1. CASE Gated(m) \/ CooldownSet(m) \/ CooldownLost(m)
    BY <2>1 DEF Gated, CooldownSet, CooldownLost, Leave, TypeOK
  <2>2. CASE Replayed(m) \/ ReplayFails(m) \/ Grabbed(m)
             \/ GrabFails(m)
    <3>1. pc[m] \in {"replay", "grab"} /\ Accepts(m)
      BY <1>1, <2>2 DEF Replayed, ReplayFails, Grabbed, GrabFails,
                        Work, Move, Ignores
    <3>2. m = l
      BY <3>1 DEF Accepts, TypeOK
    <3> QED BY <3>1, <3>2
  <2>3. CASE GatePasses(m) \/ NotParked(m) \/ ReleaseGone(m) \/ SearchFinds(m)
             \/ SearchFails(m) \/ NothingBetter(m) \/ Reset(m)
             \/ ResetFails(m) \/ Increment(m) \/ Reread(m) \/ CounterFails(m) \/ Park(m)
    BY <1>1, <2>3 DEF GatePasses, NotParked, ReleaseGone, SearchFinds, SearchFails,
                      NothingBetter, Reset, ResetFails, Increment,
                      Reread, CounterFails, Park, loopVars
  <2> QED BY <1>2, <2>1, <2>2, <2>3 DEF EvaluateStep, ActStep
<1>3. ASSUME NEW m \in Loops, Turn(m) PROVE FALSE
  BY <1>1, <1>3 DEF Turn, Exit, TimerFires, PollEnds, CycleStarts,
                    CycleEnds, TorrentPicked, TorrentSkipped, loopVars
<1>4. ASSUME NEW f \in Refreshers, Setting(f) \/ \E m \in Loops : SwapStarts(f, m)
      PROVE  FALSE
  BY <1>1, <1>4 DEF Setting, PutSettings, Publish, Load, SwapKeepsOrStops, SwapStarts,
                    loopVars
<1>5. ASSUME NEW s \in Seasons, Unblock(s) PROVE FALSE
  BY <1>1, <1>5 DEF Unblock, loopVars
<1>6. ~(Tick \/ Signal \/ Restart \/ UNCHANGED vars)
  BY <1>1 DEF Tick, Signal, Restart, vars, loopVars
<1>7. pc[l] \in {"replay", "grab"}
  BY <1>2, <1>3, <1>4, <1>5, <1>6, Steps
<1> QED BY <1>7 DEF AtWork

(* A parking comes from Park, behind the counter. *)
LEMMA ParksFrom ==
  ASSUME IInv, [Next]_vars, NEW s \in Seasons, Parks(s)
  PROVE  \E l \in Loops : pc[l] = "park" /\ season[l] = s /\ l \notin ctxDone
<1> USE DEF Parks
<1>1. ASSUME NEW l \in Loops, Park(l) 
      PROVE  pc[l] = "park" /\ season[l] = s /\ l \notin ctxDone
  BY <1>1 DEF Park, Move, Alive
<1>2. ASSUME NEW l \in Loops, EvaluateStep(l) \/ ActStep(l), ~Park(l) PROVE FALSE
  <2>1. UNCHANGED parked
    BY <1>2 DEF EvaluateStep, ActStep, Gated, GatePasses, NotParked, Replayed,
                ReleaseGone, ReplayFails, SearchFinds, SearchFails, NothingBetter,
                Grabbed, GrabFails, Reset, ResetFails,
                Increment, Reread, CounterFails, CooldownSet, CooldownLost, Work, Leave
  <2> QED BY <2>1
<1>3. ASSUME NEW l \in Loops, Turn(l) PROVE FALSE
  BY <1>3 DEF Turn, Exit, TimerFires, PollEnds, CycleStarts, CycleEnds,
              TorrentPicked, TorrentSkipped, storeVars
<1>4. ASSUME NEW f \in Refreshers, Setting(f) \/ \E l \in Loops : SwapStarts(f, l)
      PROVE  FALSE
  BY <1>4 DEF Setting, PutSettings, Publish, Load, SwapKeepsOrStops, SwapStarts,
              storeVars
<1>5. ASSUME NEW q \in Seasons, Unblock(q) PROVE FALSE
  BY <1>5 DEF Unblock
<1>6. ~(Tick \/ Signal \/ Restart \/ UNCHANGED vars)
  BY DEF Tick, Signal, Restart, vars, storeVars
<1> QED BY <1>1, <1>2, <1>3, <1>4, <1>5, <1>6, Steps

(* A season is grabbed again within the cooldown of its last grab only if   *)
(* the row of that cooldown could not be written, or the loop overlaps with *)
(* a cancelled one.                                                         *)
THEOREM CooldownThrottles == Spec => Throttled
<1>1. ASSUME IInv, [Next]_vars, NEW l \in Loops, FirstTake(l)
      PROVE  now >= quietUntil[season[l]] \/ Overlaps(l)
  <2>1. pc[l] \in {"replay", "grab"} /\ season[l] \in Seasons
    BY <1>1, TakesFrom
  <2>2. ~took[l]
    BY <1>1 DEF FirstTake
  <2>3. startedAt[l] <= now /\ (expires[season[l]] <= startedAt[l] \/ ~Alive(l))
    BY <1>1, <2>1, <2>2 DEF IInv, GateHolds, PastGate, Evaluating, Alive
  <2>4. \/ quietUntil[season[l]] <= expires[season[l]]
        \/ \E k \in Loops \ {l} : took[k] /\ season[k] = season[l]
    BY <1>1, <2>1, <2>2 DEF IInv, Guarded
  <2>5. /\ now \in Nat /\ expires[season[l]] \in Nat
        /\ startedAt[l] \in Nat /\ quietUntil[season[l]] \in Nat
    BY <1>1, <2>1 DEF IInv, TypeOK
  <2> QED BY <2>3, <2>4, <2>5 DEF Overlaps
<1>2. IInv /\ [Next]_vars =>
        [\A l \in Loops :
           FirstTake(l) => now >= quietUntil[season[l]] \/ Overlaps(l)]_vars
  BY <1>1
<1> QED BY <1>2, InvInit, InvStep, PTL DEF Spec, Throttled

(* A season is parked only after Threshold no-better verdicts since its     *)
(* last success, unless a reset was lost or a cancelled loop is to reset.   *)
THEOREM CounterParks == Spec => ParkedForCause
<1>1. ASSUME IInv, [Next]_vars, NEW s \in Seasons, Parks(s)
      PROVE  noBetter[s] >= Threshold \/ ResetDue(s)
  <2>1. PICK l \in Loops : pc[l] = "park" /\ season[l] = s /\ l \notin ctxDone
    BY <1>1, ParksFrom
  <2>2. Enough(s) \/ \E k \in Loops \ {l} : pc[k] = "reset" /\ season[k] = s
    BY <1>1, <2>1 DEF IInv, CounterBehind
  <2>3. \A k \in Loops \ {l} : pc[k] = "reset" => k \in ctxDone
    BY <1>1, <2>1 DEF IInv, OneRegistered
  <2> QED BY <2>2, <2>3 DEF Enough, ResetDue
<1>2. IInv /\ [Next]_vars =>
        [\A s \in Seasons : Parks(s) => noBetter[s] >= Threshold \/ ResetDue(s)]_vars
  BY <1>1
<1> QED BY <1>2, InvInit, InvStep, PTL DEF Spec, ParkedForCause
=============================================================================
