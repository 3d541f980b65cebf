----------------------------- MODULE InboxProofs ------------------------------
(***************************************************************************)
(* Proofs about Inbox for any rows, grabs, episodes, ceilings and claims:  *)
(* what is told is told once, runs are bounded, and no acknowledged        *)
(* outcome is lost.                                                        *)
(***************************************************************************)
EXTENDS Inbox, FiniteSetTheorems, WellFoundedInduction, TLAPS

RowType == [status : {"free", "pending", "processing", "gone", "dead"},
            attempts : 0 .. AttemptCap - 1, waits : BOOLEAN, event : Events \cup {NoEvent}]

(* Ids are used in their order, and every row is about an event.            *)
RowsFilled ==
  \A id \in Rows :
    /\ id > last => inbox[id].status = "free" /\ owed[id] = {}
    /\ inbox[id].status = "free" => owed[id] = {} /\ runs[id] = 0
    /\ inbox[id].status # "free" => inbox[id].event \in Events

(* What is claimed stays leased until it is settled, and a pass begins with *)
(* nothing claimed.                                                         *)
BatchLeased ==
  /\ \A id \in batch : inbox[id].status = "processing"
  /\ dpc \in {"idle", "claiming"} => batch = {}
  /\ dpc \in {"applying", "settling"} => batch # {}

(* The run that is on, or that finished the row, is not counted elsewhere.  *)
Uncounted(id) ==
  IF inbox[id].status \in {"gone", "dead"} \/ (dpc \in {"applying", "settling"} /\ id = Current)
    THEN 1 ELSE 0
RunsExact == \A id \in Rows : runs[id] <= inbox[id].attempts + unstored[id] + Uncounted(id)

IInv == TypeOK /\ RowsFilled /\ BatchLeased /\ RunsExact /\ ToldOnce

-----------------------------------------------------------------------------
(* One download id is one release. *)
HashNamesRelease == \A g, h \in Grabs : HashOf[g] = HashOf[h] => TitleOf[g] = TitleOf[h]

(* A record that a row was to settle is still open or was settled by some   *)
(* event; it is of the row's release.                                       *)
OwedMeant ==
  \A id \in Rows : \A g \in owed[id] :
    /\ record[g] \in Terminal \cup {"grabbed"}
    /\ TitleOf[g] = TitleOf[inbox[id].event.grab]
    /\ inbox[id].event.kind \in {"imported", "failed"}

(* An event with key k was run, and every row with that key that was run    *)
(* before has its record settled.                                           *)
WasRun(k) == \E other \in Rows : runs[other] > 0 /\ Key(inbox[other].event) = k
SettledBy(k) ==
  \A id \in Rows : runs[id] > 0 /\ owed[id] # {} /\ Key(inbox[id].event) = k
                     => SettledByTitle(inbox[id].event)
SuccessSettled == \A k \in succeeded : WasRun(k) /\ SettledBy(k)
RunSettles ==
  /\ dpc = "applying" => runs[Current] > 0
  /\ dpc = "settling" /\ verdict = "ok" => WasRun(Key(Event)) /\ SettledBy(Key(Event))

KeptInv == OwedMeant /\ SuccessSettled /\ RunSettles /\ OutcomeKept

-----------------------------------------------------------------------------
(* Numbers: the least of some naturals, the greatest of finitely many.      *)
LEMMA LeastExists ==
  ASSUME NEW S, S \subseteq Nat, S # {}
  PROVE  \E x \in S : \A y \in S : x <= y
<1> DEFINE R == OpToRel(<, Nat)
<1>1. IsWellFoundedOn(R, Nat)
  BY NatLessThanWellFounded
<1>2. R = {ss \in Nat \X Nat : ss[1] < ss[2]}
  BY DEF OpToRel
<1> HIDE DEF R
<1>3. PICK x \in S : \A y \in S : <<y, x>> \notin R
  BY <1>1, WFMin
<1>4. \A y \in S : ~(y < x)
  BY <1>2, <1>3
<1>5. QED BY <1>4

LEMMA GreatestExists ==
  ASSUME NEW S, IsFiniteSet(S), S \subseteq Nat, S # {}
  PROVE  \E x \in S : \A y \in S : y <= x
<1> DEFINE HasGreatest(T) == \E x \in T : \A y \in T : y <= x
           Bad == {T \in SUBSET S : T # {} /\ ~HasGreatest(T)}
           R == StrictSubsetOrdering(S)
<1>1. IsWellFoundedOn(R, SUBSET S)
  BY FS_StrictSubsetOrderingWellFounded, FS_FiniteSubsetsOfFinite
<1>2. SUFFICES ASSUME Bad # {} PROVE FALSE
  OBVIOUS
<1>3. PICK T \in Bad : \A U \in Bad : <<U, T>> \notin R
  <2>1. Bad \subseteq SUBSET S
    OBVIOUS
  <2> HIDE DEF Bad, R
  <2>2. QED BY <1>1, <1>2, <2>1, WFMin
<1>4. PICK t \in T : TRUE
  OBVIOUS
<1> DEFINE U == T \ {t}
<1>5. <<U, T>> \in R
  BY <1>4 DEF StrictSubsetOrdering
<1>6. U # {}
  <2>1. ASSUME U = {} PROVE FALSE
    <3>1. \A y \in T : y <= t
      BY <1>4, <2>1
    <3>2. QED BY <1>4, <3>1
  <2>2. QED BY <2>1
<1>7. PICK u \in U : \A y \in U : y <= u
  BY <1>3, <1>5, <1>6
<1>8. \E x \in {t, u} : \A y \in T : y <= x
  <2>1. t \in Nat /\ u \in Nat /\ T \subseteq Nat
    BY <1>4, <1>7
  <2>2. CASE t <= u
    BY <1>7, <2>1, <2>2
  <2>3. CASE u <= t
    BY <1>7, <2>1, <2>3
  <2>4. QED BY <2>1, <2>2, <2>3
<1>9. QED BY <1>4, <1>7, <1>8

(* The current row is one of those claimed.                                 *)
LEMMA CurrentClaimed ==
  ASSUME TypeOK, batch # {}
  PROVE  Current \in batch /\ Current \in Rows
<1>1. batch \subseteq Rows /\ Rows \subseteq Nat
  BY DEF TypeOK, Rows
<1>2. \E id \in batch : \A later \in batch : id <= later
  BY <1>1, LeastExists
<1>3. QED BY <1>1, <1>2 DEF Current

(* MatchLatest finds one of the open records that are meant.                *)
LEMMA LatestIsMeant ==
  ASSUME NEW e, Meant(e) # {}
  PROVE  MatchLatest(e) \in Meant(e) /\ MatchLatest(e) \in Open /\ MatchLatest(e) \in Grabs
<1>1. Meant(e) \subseteq Open /\ Open \subseteq Grabs
  BY DEF Meant, Open
<1>2. IsFiniteSet(Meant(e)) /\ Meant(e) \subseteq Nat
  BY <1>1, InboxAssumption, FS_Subset
<1>3. \E g \in Meant(e) : \A h \in Meant(e) : h <= g
  BY <1>2, GreatestExists
<1>4. QED BY <1>1, <1>3 DEF MatchLatest, Newest

(* The fields of an event. *)
LEMMA EventFields ==
  /\ \A e \in Events : e.grab \in Grabs /\ e.kind \in Kinds
  /\ NoEvent.kind = "none"
BY DEF Events, EventOf, NoEvent

-----------------------------------------------------------------------------
LEMMA InitInv == Init => IInv
<1> SUFFICES ASSUME Init PROVE IInv
  OBVIOUS
<1>1. TypeOK
  <2>1. Free \in RowType
    BY InboxAssumption DEF Free, RowType
  <2>2. [id \in Rows |-> {}] \in [Rows -> SUBSET Grabs]
    OBVIOUS
  <2>3. last \in 0 .. MaxRows
    BY InboxAssumption DEF Init
  <2>4. QED BY <2>1, <2>2, <2>3 DEF Init, TypeOK, RowType
<1>2. RowsFilled /\ BatchLeased /\ ToldOnce
  BY DEF Init, RowsFilled, BatchLeased, ToldOnce, FailureToldOnce, DeadTold, Free
<1>3. RunsExact
  BY DEF Init, RunsExact, Uncounted, Free
<1>4. QED BY <1>1, <1>2, <1>3 DEF IInv

(* A step that leaves rows, batch and the state of the drainer alone.       *)
LEMMA RowsFrame ==
  ASSUME IInv, UNCHANGED <<inbox, last, notices, dpc, batch, runs, unstored, owed>>
  PROVE  RowsFilled' /\ BatchLeased' /\ RunsExact' /\ DeadTold'
<1>1. Current' = Current
  BY DEF Current
<1>2. RunsExact'
  BY <1>1 DEF IInv, RunsExact, Uncounted
<1>3. QED BY <1>2 DEF IInv, RowsFilled, BatchLeased, ToldOnce, DeadTold

(* Grabs are taken and stored. *)
LEMMA GrabInv ==
  ASSUME IInv, NEW g \in Grabs, Take(g) \/ Store(g)
  PROVE  IInv'
<1> USE DEF IInv
<1>1. UNCHANGED <<storeVars, process, drainVars, told, fileVars, historyVars>>
  BY DEF Take, Store
<1>2. /\ record' \in [Grabs -> Terminal \cup {"none", "taken", "lost", "grabbed"}]
      /\ \A h \in Grabs : record'[h] = "import_failed" <=> record[h] = "import_failed"
  BY DEF Take, Store, TypeOK, Terminal
<1>3. TypeOK'
  BY <1>1, <1>2 DEF TypeOK, storeVars, drainVars, fileVars, historyVars
<1>4. FailureToldOnce'
  BY <1>1, <1>2 DEF ToldOnce, FailureToldOnce
<1>5. QED BY <1>1, <1>3, <1>4, RowsFrame DEF storeVars, drainVars, historyVars, ToldOnce

LEMMA FileInv ==
  ASSUME IInv, NEW e \in Episodes, FileChanges(e)
  PROVE  IInv'
<1> USE DEF IInv
<1>1. UNCHANGED <<storeVars, process, drainVars, grabVars, shown, blind, historyVars>>
  BY DEF FileChanges
<1>2. TypeOK'
  BY <1>1 DEF TypeOK, FileChanges, storeVars, drainVars, grabVars, historyVars
<1>3. FailureToldOnce'
  BY <1>1 DEF ToldOnce, FailureToldOnce, grabVars
<1>4. QED BY <1>1, <1>2, <1>3, RowsFrame DEF storeVars, drainVars, historyVars, ToldOnce

LEMMA ReceiveInv ==
  ASSUME IInv, NEW e \in Events, Receive(e)
  PROVE  IInv'
<1> USE DEF IInv
<1> DEFINE new == [Free EXCEPT !.status = "pending", !.event = e]
<1>1. /\ last + 1 \in Rows /\ last' = last + 1 /\ last \in Nat /\ last' \in 0 .. MaxRows
      /\ inbox' = [inbox EXCEPT ![last + 1] = new]
      /\ UNCHANGED <<notices, process, drainVars, grabVars, fileVars, runs, unstored>>
      /\ inbox[last + 1].status = "free" /\ runs[last + 1] = 0
  BY InboxAssumption DEF Receive, TypeOK, Rows, RowsFilled
<1>2. new \in RowType /\ new.status = "pending" /\ new.attempts = 0 /\ new.event = e
  <2>1. Free \in RowType /\ Free.attempts = 0
    BY InboxAssumption DEF Free, RowType
  <2>2. QED BY <2>1 DEF RowType
<1> HIDE DEF new
<1>3. /\ inbox' \in [Rows -> RowType] /\ inbox'[last + 1] = new
      /\ \A id \in Rows \ {last + 1} : inbox'[id] = inbox[id]
  BY <1>1, <1>2 DEF TypeOK, RowType
<1>4. /\ owed' \in [Rows -> SUBSET Grabs]
      /\ \A id \in Rows \ {last + 1} : owed'[id] = owed[id]
  <2>1. Meant(e) \subseteq Grabs
    BY DEF Meant, Open
  <2>2. PICK S \in SUBSET Grabs : owed' = [owed EXCEPT ![last + 1] = S]
    BY <2>1 DEF Receive
  <2>3. QED BY <1>1, <2>2 DEF TypeOK
<1>5. TypeOK'
  BY <1>1, <1>3, <1>4 DEF TypeOK, RowType, drainVars, grabVars, fileVars
<1>6. RowsFilled'
  <2>1. \A id \in Rows : id > last' => id \in Rows \ {last + 1} /\ id > last
    BY <1>1 DEF Rows
  <2>2. QED BY <1>1, <1>2, <1>3, <1>4, <2>1 DEF RowsFilled
<1>7. Current' = Current
  BY <1>1 DEF Current, drainVars
<1>8. BatchLeased'
  BY <1>1, <1>3 DEF BatchLeased, drainVars, TypeOK
<1>9. RunsExact'
  <2>1. ASSUME NEW id \in Rows
        PROVE  runs[id] <= inbox'[id].attempts + unstored[id] + Uncounted(id)'
    <3>1. CASE id = last + 1
      <4>1. Uncounted(id)' \in Nat /\ unstored[id] \in Nat
        BY DEF Uncounted, TypeOK
      <4>2. QED BY <1>1, <1>2, <1>3, <3>1, <4>1
    <3>2. CASE id # last + 1
      <4>1. Uncounted(id)' = Uncounted(id)
        BY <1>1, <1>3, <1>7, <3>2 DEF Uncounted, drainVars
      <4>2. QED BY <1>3, <3>2, <4>1 DEF RunsExact
    <3>3. QED BY <3>1, <3>2
  <2>2. QED BY <1>1, <2>1 DEF RunsExact
<1>10. ToldOnce'
  BY <1>1, <1>2, <1>3 DEF ToldOnce, FailureToldOnce, DeadTold, grabVars
<1>11. QED BY <1>5, <1>6, <1>8, <1>9, <1>10

-----------------------------------------------------------------------------
(* The drainer. *)

(* Rows change hands: what they are about, what was tried and how they      *)
(* ended stays, and no run is on before or after.                           *)
LEMMA RowsMove ==
  ASSUME IInv, inbox' \in [Rows -> RowType],
         \A id \in Rows :
           /\ inbox'[id].event = inbox[id].event /\ inbox'[id].attempts = inbox[id].attempts
           /\ \/ inbox'[id].status = inbox[id].status
              \/ /\ inbox[id].status \in {"pending", "processing"}
                 /\ inbox'[id].status \in {"pending", "processing"},
         dpc \notin {"applying", "settling"},
         UNCHANGED <<last, notices, grabVars, historyVars>>
  PROVE  RowsFilled' /\ RunsExact' /\ ToldOnce'
<1> USE DEF IInv, grabVars, historyVars
<1>1. RowsFilled'
  BY DEF RowsFilled
<1>2. ToldOnce'
  BY DEF ToldOnce, FailureToldOnce, DeadTold
<1>3. RunsExact'
  <2>1. \A id \in Rows : Uncounted(id) <= Uncounted(id)' /\ Uncounted(id) \in Nat /\ Uncounted(id)' \in Nat
    BY DEF Uncounted
  <2>2. \A id \in Rows : runs[id] \in Nat /\ inbox[id].attempts \in Nat /\ unstored[id] \in Nat
    BY DEF TypeOK
  <2>3. QED BY <2>1, <2>2 DEF RunsExact
<1>4. QED BY <1>1, <1>2, <1>3

LEMMA PassBeginsInv == IInv /\ (Reclaim \/ ReclaimFails) => IInv'
<1> SUFFICES ASSUME IInv, Reclaim \/ ReclaimFails PROVE IInv'
  OBVIOUS
<1> USE DEF IInv
<1>1. /\ dpc = "idle" /\ dpc' = "claiming" /\ succeeded' = {}
      /\ UNCHANGED <<last, notices, process, batch, verdict, grabVars, fileVars, historyVars>>
  BY DEF Reclaim, ReclaimFails, PassBegins
<1>2. \A id \in Rows :
        inbox'[id] = inbox[id]
        \/ (id \in Stale /\ inbox'[id] = [inbox[id] EXCEPT !.status = "pending"])
  BY DEF Reclaim, ReclaimFails
<1>3. inbox' \in [Rows -> RowType]
  <2>1. \A id \in Rows : inbox[id] \in RowType
    BY DEF TypeOK, RowType
  <2>2. \A id \in Rows : [inbox[id] EXCEPT !.status = "pending"] \in RowType
    BY <2>1 DEF RowType
  <2>3. CASE Reclaim
    BY <2>1, <2>2, <2>3 DEF Reclaim
  <2>4. CASE ReclaimFails
    BY <2>1, <2>4 DEF ReclaimFails, TypeOK, RowType
  <2>5. QED BY <2>3, <2>4
<1>4. \A id \in Rows :
        /\ inbox'[id].event = inbox[id].event /\ inbox'[id].attempts = inbox[id].attempts
        /\ \/ inbox'[id].status = inbox[id].status
           \/ /\ inbox[id].status \in {"pending", "processing"}
              /\ inbox'[id].status \in {"pending", "processing"}
  BY <1>2 DEF TypeOK, Stale
<1>5. RowsFilled' /\ RunsExact' /\ ToldOnce'
  BY <1>1, <1>3, <1>4, RowsMove
<1>6. TypeOK'
  BY <1>1, <1>3 DEF TypeOK, RowType, grabVars, fileVars, historyVars
<1>7. BatchLeased'
  BY <1>1 DEF BatchLeased
<1>8. QED BY <1>5, <1>6, <1>7

LEMMA ClaimInv == IInv /\ Claim => IInv'
<1> SUFFICES ASSUME IInv, Claim PROVE IInv'
  OBVIOUS
<1> USE DEF IInv
<1>1. /\ dpc = "claiming" /\ dpc' = "rows" /\ batch' \subseteq Due
      /\ inbox' = [id \in Rows |-> IF id \in batch'
                     THEN [inbox[id] EXCEPT !.status = "processing", !.waits = TRUE]
                     ELSE inbox[id]]
      /\ UNCHANGED <<last, notices, process, verdict, succeeded, grabVars, fileVars, historyVars>>
  BY DEF Claim
<1>2. inbox' \in [Rows -> RowType]
  <2>1. \A id \in Rows : inbox[id] \in RowType
    BY DEF TypeOK, RowType
  <2>2. \A id \in Rows : [inbox[id] EXCEPT !.status = "processing", !.waits = TRUE] \in RowType
    BY <2>1 DEF RowType
  <2>3. QED BY <1>1, <2>1, <2>2
<1>3. \A id \in Rows :
        /\ inbox'[id].event = inbox[id].event /\ inbox'[id].attempts = inbox[id].attempts
        /\ \/ inbox'[id].status = inbox[id].status
           \/ /\ inbox[id].status \in {"pending", "processing"}
              /\ inbox'[id].status \in {"pending", "processing"}
        /\ id \in batch' => inbox'[id].status = "processing"
  BY <1>1 DEF TypeOK, Due
<1>4. RowsFilled' /\ RunsExact' /\ ToldOnce'
  BY <1>1, <1>2, <1>3, RowsMove
<1>5. batch' \subseteq Rows
  BY <1>1 DEF Due
<1>6. TypeOK'
  BY <1>1, <1>2, <1>5 DEF TypeOK, RowType, grabVars, fileVars, historyVars
<1>7. BatchLeased'
  BY <1>1, <1>3, <1>5 DEF BatchLeased
<1>8. QED BY <1>4, <1>6, <1>7

(* The drainer moves on; rows, records and runs stay what they are.         *)
LEMMA MovesOnInv ==
  ASSUME IInv, PassEnds \/ BatchEnds \/ SkipTwin \/ MapFails
  PROVE  IInv'
<1> USE DEF IInv
<1>1. /\ UNCHANGED <<storeVars, process, succeeded, grabVars, fileVars, historyVars>>
      /\ dpc' \in {"idle", "claiming", "rows", "applying", "settling"}
      /\ verdict' \in {"none", "ok", "retry", "dead"} /\ batch' \subseteq batch
      /\ dpc \notin {"applying", "settling"}
  BY DEF PassEnds, BatchEnds, SkipTwin, MapFails, AtRow, TypeOK
<1>2. TypeOK'
  BY <1>1 DEF TypeOK, storeVars, grabVars, fileVars, historyVars
<1>3. BatchLeased'
  BY <1>1 DEF BatchLeased, storeVars, PassEnds, BatchEnds, SkipTwin, MapFails, AtRow
<1>4. RowsFilled' /\ RunsExact' /\ ToldOnce'
  BY <1>1, RowsMove DEF storeVars, TypeOK, RowType
<1>5. QED BY <1>2, <1>3, <1>4

(* A run is counted when it begins, and is then the one that is on.         *)
LEMMA RunInv == IInv /\ Run => IInv'
<1> SUFFICES ASSUME IInv, Run PROVE IInv'
  OBVIOUS
<1> USE DEF IInv
<1>1. /\ dpc = "rows" /\ dpc' = "applying" /\ batch # {}
      /\ runs' = [runs EXCEPT ![Current] = @ + 1]
      /\ UNCHANGED <<storeVars, process, batch, verdict, succeeded, grabVars, files, unstored, owed>>
  BY DEF Run, AtRow
<1>2. Current \in Rows /\ inbox[Current].status = "processing" /\ Current' = Current
  BY <1>1, CurrentClaimed DEF BatchLeased, Current
<1>3. /\ runs' \in [Rows -> Nat] /\ runs \in [Rows -> Nat]
      /\ \A id \in Rows : runs'[id] = IF id = Current THEN runs[id] + 1 ELSE runs[id]
  BY <1>1, <1>2 DEF TypeOK
<1>4. shown' \subseteq Episodes /\ blind' \in BOOLEAN
  BY DEF Run, TypeOK
<1>5. TypeOK'
  BY <1>1, <1>3, <1>4 DEF TypeOK, storeVars, grabVars
<1>6. RowsFilled'
  BY <1>1, <1>2, <1>3 DEF RowsFilled, storeVars
<1>7. BatchLeased' /\ ToldOnce'
  BY <1>1 DEF BatchLeased, ToldOnce, FailureToldOnce, DeadTold, storeVars, grabVars
<1>8. RunsExact'
  <2>1. /\ \A id \in Rows : id # Current => Uncounted(id)' = Uncounted(id)
        /\ Uncounted(Current) = 0 /\ \A id \in Rows : id = Current => Uncounted(id)' = 1
    BY <1>1, <1>2 DEF Uncounted, storeVars
  <2>2. \A id \in Rows : inbox[id].attempts \in Nat /\ unstored[id] \in Nat
    BY DEF TypeOK
  <2>3. QED BY <1>1, <1>2, <1>3, <2>1, <2>2 DEF RunsExact, storeVars
<1>9. QED BY <1>5, <1>6, <1>7, <1>8

(* Process settles an open record, together with the notice about it, or    *)
(* nothing.                                                                 *)
LEMMA EffectMoves ==
  ASSUME IInv, NEW e, Effect(e)
  PROVE  /\ record' \in [Grabs -> Terminal \cup {"none", "taken", "lost", "grabbed"}]
         /\ told' \in [Grabs -> Nat] /\ FailureToldOnce'
         /\ \A g \in Grabs : \/ record'[g] = record[g]
                             \/ record[g] = "grabbed" /\ record'[g] \in Terminal
         /\ e.kind \in {"imported", "failed"} /\ Meant(e) # {} =>
              record'[MatchLatest(e)] \in Terminal
<1> USE DEF IInv
<1>1. CASE UNCHANGED grabVars /\ ~(e.kind \in {"imported", "failed"} /\ Meant(e) # {}
                                   /\ CanTransition(MatchLatest(e)))
  <2>1. Meant(e) # {} => CanTransition(MatchLatest(e))
    BY LatestIsMeant DEF Open, CanTransition, Terminal
  <2>2. QED BY <1>1, <2>1 DEF TypeOK, grabVars, ToldOnce, FailureToldOnce
<1>2. CASE e.kind \in {"imported", "failed"} /\ Meant(e) # {} /\ Settle(MatchLatest(e), e)
  <2> DEFINE g == MatchLatest(e)
  <2>1. g \in Grabs /\ record[g] = "grabbed"
    BY <1>2, LatestIsMeant DEF Open
  <2>2. PICK s \in Terminal : /\ record' = [record EXCEPT ![g] = s]
                              /\ told' = IF s = "import_failed" THEN [told EXCEPT ![g] = @ + 1] ELSE told
    BY <1>2 DEF Settle, Terminal
  <2> HIDE DEF g
  <2>3. /\ record' \in [Grabs -> Terminal \cup {"none", "taken", "lost", "grabbed"}]
        /\ told' \in [Grabs -> Nat]
        /\ record'[g] = s /\ \A h \in Grabs \ {g} : record'[h] = record[h] /\ told'[h] = told[h]
        /\ told'[g] = IF s = "import_failed" THEN told[g] + 1 ELSE told[g]
    BY <2>1, <2>2 DEF TypeOK
  <2>4. FailureToldOnce'
    BY <2>1, <2>3 DEF ToldOnce, FailureToldOnce, Terminal
  <2>5. record'[MatchLatest(e)] \in Terminal
    BY <2>3 DEF g
  <2>6. QED BY <2>1, <2>3, <2>4, <2>5
<1>3. QED BY <1>1, <1>2 DEF Effect

LEMMA ApplyInv == IInv /\ (Applied \/ ApplyFails) => IInv'
<1> SUFFICES ASSUME IInv, Applied \/ ApplyFails PROVE IInv'
  OBVIOUS
<1> USE DEF IInv
<1>1. /\ dpc = "applying" /\ dpc' = "settling" /\ verdict' \in {"ok", "retry"}
      /\ UNCHANGED <<storeVars, process, batch, succeeded, fileVars, historyVars>>
  BY DEF Applied, ApplyFails
<1>2. /\ record' \in [Grabs -> Terminal \cup {"none", "taken", "lost", "grabbed"}]
      /\ told' \in [Grabs -> Nat] /\ FailureToldOnce'
  <2>1. CASE Effect(Event)
    BY <2>1, EffectMoves
  <2>2. CASE UNCHANGED grabVars
    BY <2>2 DEF TypeOK, grabVars, ToldOnce, FailureToldOnce
  <2>3. QED BY <2>1, <2>2 DEF Applied, ApplyFails
<1>3. TypeOK'
  BY <1>1, <1>2 DEF TypeOK, storeVars, fileVars, historyVars
<1>4. BatchLeased' /\ RowsFilled' /\ DeadTold'
  BY <1>1 DEF BatchLeased, RowsFilled, ToldOnce, DeadTold, storeVars, historyVars
<1>5. RunsExact'
  <2>1. Current' = Current
    BY <1>1 DEF Current
  <2>2. \A id \in Rows : Uncounted(id)' = Uncounted(id)
    BY <1>1, <2>1 DEF Uncounted, storeVars
  <2>3. QED BY <1>1, <2>2 DEF RunsExact, storeVars, historyVars
<1>6. QED BY <1>2, <1>3, <1>4, <1>5 DEF ToldOnce

(* The current row is settled: only its own status, lease and attempts      *)
(* change, and the run that was on is accounted for.                        *)
Settles(row, new) ==
  /\ NextRow /\ UNCHANGED <<last, process, grabVars, fileVars, runs, owed>>
  /\ succeeded' \subseteq {Key(e) : e \in Events}
  /\ inbox' = [inbox EXCEPT ![row] = new]
  /\ new.event = inbox[row].event /\ new.status \in {"pending", "processing", "gone", "dead"}
  /\ unstored' \in [Rows -> Nat] /\ unstored'[row] >= unstored[row]
  /\ \A id \in Rows \ {row} : unstored'[id] = unstored[id]
  /\ \/ new.status \in {"gone", "dead"} /\ new.attempts = inbox[row].attempts
     \/ new.attempts + unstored'[row] >= inbox[row].attempts + unstored[row] + 1
  /\ notices' \in [Rows -> Nat] /\ \A id \in Rows \ {row} : notices'[id] = notices[id]
  /\ notices'[row] = IF new.status = "dead" THEN 1 ELSE 0

LEMMA SettlesInv ==
  ASSUME IInv, NEW row, row = Current, NEW new \in RowType, Settles(row, new)
  PROVE  IInv'
<1> USE DEF IInv, Settles
<1>1. /\ dpc = "settling" /\ dpc' = "rows" /\ batch' = batch \ {Current} /\ verdict' = "none"
      /\ batch # {}
  BY DEF NextRow, BatchLeased
<1>2. Current \in Rows /\ Current \in batch /\ inbox[Current].status = "processing"
  BY <1>1, CurrentClaimed DEF BatchLeased
<1>3. row \in Rows /\ row \in batch /\ inbox[row].status = "processing"
  BY <1>2
<1>4. /\ inbox' \in [Rows -> RowType] /\ inbox'[row] = new
      /\ \A id \in Rows \ {row} : inbox'[id] = inbox[id]
  BY <1>3 DEF TypeOK, RowType
<1>5. TypeOK'
  BY <1>1, <1>4 DEF TypeOK, RowType, grabVars, fileVars
<1>6. RowsFilled'
  BY <1>2, <1>3, <1>4 DEF RowsFilled
<1>7. BatchLeased'
  BY <1>1, <1>3, <1>4, <1>5 DEF BatchLeased, TypeOK
<1>8. ToldOnce'
  BY <1>3, <1>4 DEF ToldOnce, FailureToldOnce, DeadTold, grabVars
<1>9. RunsExact'
  <2>1. ASSUME NEW id \in Rows
        PROVE  runs[id] <= inbox'[id].attempts + unstored'[id] + Uncounted(id)'
    <3>1. /\ runs[id] \in Nat /\ inbox[id].attempts \in Nat /\ inbox'[id].attempts \in Nat
          /\ unstored[id] \in Nat /\ unstored'[id] \in Nat
      BY <1>4 DEF TypeOK, RowType
    <3>2. CASE id = row
      <4>1. Uncounted(id) \in {0, 1} /\ Uncounted(id)' \in {0, 1}
        BY DEF Uncounted
      <4>2. runs[id] <= inbox[id].attempts + unstored[id] + 1
        BY <3>1, <4>1 DEF RunsExact
      <4>3. CASE new.status \in {"gone", "dead"} /\ new.attempts = inbox[row].attempts
        <5>1. Uncounted(id)' = 1
          BY <1>4, <3>2, <4>3 DEF Uncounted
        <5>2. QED BY <1>3, <1>4, <3>1, <3>2, <4>2, <4>3, <5>1
      <4>4. CASE new.attempts + unstored'[row] >= inbox[row].attempts + unstored[row] + 1
        BY <1>3, <1>4, <3>1, <3>2, <4>1, <4>2, <4>4
      <4>5. QED BY <4>3, <4>4
    <3>3. CASE id # row
      <4>1. Uncounted(id)' = Uncounted(id)
        BY <1>1, <1>3, <1>4, <3>3 DEF Uncounted
      <4>2. QED BY <1>3, <1>4, <3>3, <4>1 DEF RunsExact
    <3>4. QED BY <3>2, <3>3
  <2>2. QED BY <2>1 DEF RunsExact
<1>10. QED BY <1>5, <1>6, <1>7, <1>8, <1>9

(* The key of the row that is settled is that of an event.                  *)
LEMMA KeyOfRow ==
  ASSUME IInv, batch # {}
  PROVE  Event \in Events /\ Key(Event) \in {Key(e) : e \in Events} /\ Row \in RowType
         /\ Current \in Rows /\ Current \in batch
         /\ inbox[Current].status = "processing"
<1>1. Current \in Rows /\ Current \in batch /\ inbox[Current].status = "processing"
  BY CurrentClaimed DEF IInv, BatchLeased
<1>2. Event \in Events
  BY <1>1 DEF IInv, RowsFilled, Event, Row
<1>3. Row \in RowType
  BY <1>1 DEF IInv, TypeOK, RowType, Row
<1>4. QED BY <1>1, <1>2, <1>3

LEMMA MarkInv == IInv /\ (MarkSuccess \/ MarkFailure \/ MarkDead) => IInv'
<1> SUFFICES ASSUME IInv, MarkSuccess \/ MarkFailure \/ MarkDead PROVE IInv'
  OBVIOUS
<1>1. NextRow /\ batch # {} /\ UNCHANGED <<last, process, grabVars, fileVars, historyVars>>
  BY DEF IInv, BatchLeased, MarkSuccess, MarkFailure, MarkDead, NextRow
<1>2. Key(Event) \in {Key(e) : e \in Events}
  BY <1>1, KeyOfRow
<1> DEFINE row == Current
           one == inbox[row]
<1>3. /\ row = Current /\ Row = one /\ row \in Rows /\ one \in RowType /\ one.status = "processing"
  BY <1>1, KeyOfRow DEF Row
<1> HIDE DEF row
<1>4. succeeded' \subseteq {Key(e) : e \in Events}
  BY <1>2 DEF IInv, TypeOK, MarkSuccess, MarkFailure, MarkDead
<1>5. /\ unstored' \in [Rows -> Nat] /\ UNCHANGED <<runs, unstored, owed>>
      /\ unstored[row] \in Nat /\ one.attempts \in 0 .. AttemptCap - 1
  BY <1>1, <1>3 DEF historyVars, IInv, TypeOK, RowType
<1>6. /\ notices \in [Rows -> Nat] /\ notices[row] = 0
  BY <1>3 DEF IInv, TypeOK, ToldOnce, DeadTold
<1>7. CASE MarkSuccess
  <2> DEFINE new == [one EXCEPT !.status = "gone", !.waits = FALSE]
  <2>1. inbox' = [inbox EXCEPT ![row] = new] /\ notices' = notices
    BY <1>3, <1>7 DEF MarkSuccess
  <2>2. new \in RowType /\ new.status = "gone" /\ new.attempts = one.attempts /\ new.event = one.event
    BY <1>3 DEF RowType
  <2> HIDE DEF new
  <2>3. Settles(row, new)
    BY <1>1, <1>4, <1>5, <1>6, <2>1, <2>2 DEF Settles
  <2>4. QED BY <1>3, <2>2, <2>3, SettlesInv
<1>8. CASE MarkFailure
  <2> DEFINE new == [one EXCEPT !.status = "pending", !.waits = TRUE, !.attempts = @ + 1]
  <2>1. inbox' = [inbox EXCEPT ![row] = new] /\ notices' = notices
    BY <1>3, <1>8 DEF MarkFailure
  <2>2. one.attempts + 1 \in 0 .. AttemptCap - 1
    BY <1>3, <1>5, <1>8, InboxAssumption DEF MarkFailure, MayRetry
  <2>3. new \in RowType /\ new.status = "pending" /\ new.attempts = one.attempts + 1
        /\ new.event = one.event
    BY <1>3, <2>2 DEF RowType
  <2> HIDE DEF new
  <2>4. Settles(row, new)
    BY <1>1, <1>4, <1>5, <1>6, <2>1, <2>3 DEF Settles
  <2>5. QED BY <1>3, <2>3, <2>4, SettlesInv
<1>9. CASE MarkDead
  <2> DEFINE new == [one EXCEPT !.status = "dead", !.waits = FALSE]
  <2>1. inbox' = [inbox EXCEPT ![row] = new] /\ notices' = [notices EXCEPT ![row] = @ + 1]
    BY <1>3, <1>9 DEF MarkDead
  <2>2. new \in RowType /\ new.status = "dead" /\ new.attempts = one.attempts /\ new.event = one.event
    BY <1>3 DEF RowType
  <2> HIDE DEF new
  <2>3. /\ notices' \in [Rows -> Nat] /\ notices'[row] = 1
        /\ \A id \in Rows \ {row} : notices'[id] = notices[id]
    BY <1>3, <1>6, <2>1
  <2>4. Settles(row, new)
    BY <1>1, <1>4, <1>5, <2>1, <2>2, <2>3 DEF Settles
  <2>5. QED BY <1>3, <2>2, <2>4, SettlesInv
<1>10. QED BY <1>7, <1>8, <1>9

LEMMA SettleFailsInv == IInv /\ SettleFails => IInv'
<1> SUFFICES ASSUME IInv, SettleFails PROVE IInv'
  OBVIOUS
<1>1. /\ NextRow /\ batch # {}
      /\ UNCHANGED <<storeVars, process, grabVars, fileVars, runs, owed>>
  BY DEF IInv, BatchLeased, SettleFails, NextRow
<1> DEFINE row == Current
<1>2. /\ row = Current /\ row \in Rows /\ inbox[row] \in RowType /\ inbox[row].status = "processing"
      /\ Key(Event) \in {Key(e) : e \in Events}
  BY <1>1, KeyOfRow DEF Row
<1>3. unstored' = [unstored EXCEPT ![row] = @ + 1]
  BY DEF SettleFails
<1> HIDE DEF row
<1>4. inbox' = [inbox EXCEPT ![row] = inbox[row]] /\ UNCHANGED <<notices, last>>
  BY <1>1, <1>2 DEF storeVars, IInv, TypeOK
<1>5. succeeded' \subseteq {Key(e) : e \in Events}
  BY <1>2 DEF IInv, TypeOK, SettleFails
<1>6. /\ unstored' \in [Rows -> Nat] /\ unstored'[row] = unstored[row] + 1 /\ unstored[row] \in Nat
      /\ \A id \in Rows \ {row} : unstored'[id] = unstored[id]
  BY <1>2, <1>3 DEF IInv, TypeOK
<1>7. /\ notices' \in [Rows -> Nat] /\ notices[row] = 0
  BY <1>2, <1>4 DEF IInv, TypeOK, ToldOnce, DeadTold
<1>8. inbox[row].attempts + unstored'[row] >= inbox[row].attempts + unstored[row] + 1
  BY <1>2, <1>6 DEF RowType
<1>9. unstored'[row] >= unstored[row]
  BY <1>6
<1>10. Settles(row, inbox[row])
  BY <1>1, <1>2, <1>4, <1>5, <1>6, <1>7, <1>8, <1>9 DEF Settles
<1>11. QED BY <1>2, <1>10, SettlesInv

-----------------------------------------------------------------------------
(* Surroundings. *)

LEMMA WaitOverInv ==
  ASSUME IInv, NEW id \in Rows, WaitOver(id)
  PROVE  IInv'
<1> USE DEF IInv
<1>1. /\ inbox' = [inbox EXCEPT ![id] = [inbox[id] EXCEPT !.waits = FALSE]]
      /\ UNCHANGED <<last, notices, process, drainVars, grabVars, fileVars, historyVars>>
  BY DEF WaitOver
<1>2. /\ [inbox[id] EXCEPT !.waits = FALSE] \in RowType
      /\ [inbox[id] EXCEPT !.waits = FALSE].status = inbox[id].status
      /\ [inbox[id] EXCEPT !.waits = FALSE].attempts = inbox[id].attempts
      /\ [inbox[id] EXCEPT !.waits = FALSE].event = inbox[id].event
  <2>1. inbox[id] \in RowType
    BY DEF TypeOK, RowType
  <2>2. QED BY <2>1 DEF RowType
<1>3. /\ inbox' \in [Rows -> RowType]
      /\ \A other \in Rows : /\ inbox'[other].status = inbox[other].status
                              /\ inbox'[other].attempts = inbox[other].attempts
                              /\ inbox'[other].event = inbox[other].event
  BY <1>1, <1>2 DEF TypeOK, RowType
<1>4. TypeOK'
  BY <1>1, <1>3 DEF TypeOK, RowType, drainVars, grabVars, fileVars, historyVars
<1>5. RowsFilled' /\ BatchLeased' /\ ToldOnce'
  BY <1>1, <1>3 DEF RowsFilled, BatchLeased, ToldOnce, FailureToldOnce, DeadTold, TypeOK,
                    drainVars, grabVars, historyVars
<1>6. RunsExact'
  <2>1. Current' = Current
    BY <1>1 DEF Current, drainVars
  <2>2. \A other \in Rows : Uncounted(other)' = Uncounted(other)
    BY <1>1, <1>3, <2>1 DEF Uncounted, drainVars
  <2>3. QED BY <1>1, <1>3, <2>2 DEF RunsExact, historyVars
<1>7. QED BY <1>4, <1>5, <1>6

LEMMA StopsInv == IInv /\ (Stop \/ Restart \/ UNCHANGED vars) => IInv'
<1> SUFFICES ASSUME IInv, Stop \/ Restart \/ UNCHANGED vars PROVE IInv'
  OBVIOUS
<1> USE DEF IInv
<1>1. /\ UNCHANGED <<storeVars, drainVars, grabVars, fileVars, historyVars>>
      /\ process' \in {"up", "stopping", "down"}
  BY DEF Stop, Restart, vars, TypeOK
<1>2. TypeOK'
  BY <1>1 DEF TypeOK, storeVars, drainVars, grabVars, fileVars, historyVars
<1>3. FailureToldOnce'
  BY <1>1 DEF ToldOnce, FailureToldOnce, grabVars
<1>4. QED BY <1>1, <1>2, <1>3, RowsFrame DEF storeVars, drainVars, historyVars, ToldOnce

LEMMA DiesInv == IInv /\ Dies => IInv'
<1> SUFFICES ASSUME IInv, Dies PROVE IInv'
  OBVIOUS
<1> USE DEF IInv
<1>1. /\ process' = "down" /\ dpc' = "idle" /\ batch' = {} /\ verdict' = "none" /\ succeeded' = {}
      /\ UNCHANGED <<storeVars, told, fileVars, runs, owed>>
  BY DEF Dies
<1>2. /\ record' \in [Grabs -> Terminal \cup {"none", "taken", "lost", "grabbed"}]
      /\ \A g \in Grabs : record'[g] = "import_failed" <=> record[g] = "import_failed"
  BY DEF Dies, TypeOK, Terminal
<1>3. /\ unstored' \in [Rows -> Nat] /\ \A id \in Rows : unstored'[id] >= unstored[id]
      /\ MidRow => unstored'[Current] = unstored[Current] + 1
  <2>1. CASE MidRow
    <3>1. Current \in Rows
      BY <2>1, CurrentClaimed DEF MidRow, BatchLeased
    <3> DEFINE row == Current
    <3>2. row \in Rows /\ unstored' = [unstored EXCEPT ![row] = @ + 1]
      BY <2>1, <3>1 DEF Dies
    <3> HIDE DEF row
    <3>3. /\ unstored' \in [Rows -> Nat] /\ \A id \in Rows : unstored'[id] >= unstored[id]
          /\ unstored'[row] = unstored[row] + 1
      BY <3>2 DEF TypeOK
    <3>4. QED BY <3>3 DEF row
  <2>2. CASE ~MidRow
    BY <2>2 DEF Dies, TypeOK
  <2>3. QED BY <2>1, <2>2
<1>4. TypeOK'
  BY <1>1, <1>2, <1>3 DEF TypeOK, storeVars, fileVars
<1>5. BatchLeased' /\ RowsFilled' /\ ToldOnce'
  BY <1>1, <1>2 DEF BatchLeased, RowsFilled, ToldOnce, FailureToldOnce, DeadTold, storeVars
<1>6. RunsExact'
  <2>1. ASSUME NEW id \in Rows
        PROVE  runs[id] <= inbox[id].attempts + unstored'[id] + Uncounted(id)'
    <3>1. /\ runs[id] \in Nat /\ inbox[id].attempts \in Nat
          /\ unstored[id] \in Nat /\ unstored'[id] \in Nat
          /\ runs[id] <= inbox[id].attempts + unstored[id] + Uncounted(id)
      BY <1>3 DEF TypeOK, RunsExact
    <3>2. CASE inbox[id].status \in {"gone", "dead"}
      <4>1. Uncounted(id) = 1 /\ Uncounted(id)' = 1
        BY <1>1, <3>2 DEF Uncounted, storeVars
      <4>2. QED BY <1>3, <3>1, <4>1
    <3>3. CASE inbox[id].status \notin {"gone", "dead"}
      <4>1. /\ Uncounted(id)' = 0
            /\ Uncounted(id) = IF MidRow /\ id = Current THEN 1 ELSE 0
        BY <1>1, <3>3 DEF Uncounted, storeVars, MidRow
      <4>2. QED BY <1>3, <3>1, <4>1
    <3>4. QED BY <3>2, <3>3
  <2>2. QED BY <1>1, <2>1 DEF RunsExact, storeVars
<1>7. QED BY <1>4, <1>5, <1>6

-----------------------------------------------------------------------------
LEMMA StepInv == IInv /\ [Next]_vars => IInv'
<1>1. ASSUME IInv, DrainStep PROVE IInv'
  BY <1>1, PassBeginsInv, ClaimInv, MovesOnInv, RunInv, ApplyInv, MarkInv, SettleFailsInv
  DEF DrainStep
<1>2. QED BY <1>1, GrabInv, FileInv, ReceiveInv, WaitOverInv, StopsInv, DiesInv DEF Next

(* The inductive invariant holds throughout. *)
THEOREM Invariance == Spec => []IInv
<1>1. QED BY InitInv, StepInv, PTL DEF Spec

(* The state of the inbox, the drainer and the records has its types.       *)
THEOREM TypeCorrect == Spec => []TypeOK
<1>1. IInv => TypeOK
  BY DEF IInv
<1>2. QED BY <1>1, Invariance, PTL

(* A failed import and a dead letter are announced exactly once, whatever   *)
(* commits late, fails, crashes or is run again.                            *)
THEOREM ToldOnlyOnce == Spec => []ToldOnce
<1>1. IInv => ToldOnce
  BY DEF IInv
<1>2. QED BY <1>1, Invariance, PTL

(* An event is handed to Process once more than attempts were counted and   *)
(* outcomes were not stored, at most.                                       *)
THEOREM RunsAreBounded == Spec => []RunsBounded
<1>1. ASSUME IInv PROVE RunsBounded
  <2>1. ASSUME NEW id \in Rows
        PROVE  runs[id] <= inbox[id].attempts + unstored[id] + 1
    <3>1. /\ runs[id] <= inbox[id].attempts + unstored[id] + Uncounted(id)
          /\ Uncounted(id) \in {0, 1} /\ runs[id] \in Nat
          /\ inbox[id].attempts \in Nat /\ unstored[id] \in Nat
      BY <1>1 DEF IInv, TypeOK, RunsExact, Uncounted
    <3>2. QED BY <3>1
  <2>2. QED BY <2>1 DEF RunsBounded
<1>2. QED BY <1>1, Invariance, PTL

-----------------------------------------------------------------------------
(* No acknowledged outcome is lost. *)

KeptFor(id) ==
  \/ SettledByTitle(inbox[id].event)
  \/ runs[id] = 0 /\ \E other \in Rows \ {id} : runs[other] > 0 /\ TwinOf(id, other)

(* What most steps do: a row in use keeps its event and what it is owed, a  *)
(* record that is open stays so or is settled, and settled is for good.     *)
Stays ==
  /\ \A id \in Rows : inbox[id].status # "free" =>
       inbox'[id].event = inbox[id].event /\ owed'[id] = owed[id]
  /\ \A g \in Grabs :
       /\ record[g] \in Terminal => record'[g] \in Terminal
       /\ record[g] = "grabbed" => record'[g] \in Terminal \cup {"grabbed"}
NothingRuns == UNCHANGED runs

LEMMA StaysSettled ==
  ASSUME IInv, Stays, NothingRuns
  PROVE  /\ \A id \in Rows : (inbox[id].status # "free" /\ SettledByTitle(inbox[id].event))
                              => SettledByTitle(inbox[id].event)'
         /\ \A k : (WasRun(k) => WasRun(k)') /\ (SettledBy(k) => SettledBy(k)')
         /\ \A id \in Rows : (inbox[id].status # "free" /\ KeptFor(id)) => KeptFor(id)'
<1>1. \A id \in Rows : runs[id] > 0 => inbox[id].status # "free"
  BY DEF IInv, RowsFilled, TypeOK
<1>2. ASSUME NEW id \in Rows, inbox[id].status # "free", SettledByTitle(inbox[id].event)
      PROVE  SettledByTitle(inbox[id].event)'
  <2>1. PICK g \in Grabs : TitleOf[g] = TitleOf[inbox[id].event.grab] /\ record[g] \in Terminal
    BY <1>2 DEF SettledByTitle
  <2>2. inbox'[id].event = inbox[id].event /\ record'[g] \in Terminal
    BY <1>2, <2>1 DEF Stays
  <2>3. TitleOf[g] = TitleOf[inbox'[id].event.grab]
    BY <2>1, <2>2
  <2>4. QED BY <2>2, <2>3 DEF SettledByTitle
<1>3. ASSUME NEW k, WasRun(k) PROVE WasRun(k)'
  BY <1>1, <1>3 DEF WasRun, Stays, NothingRuns, Key
<1>4. ASSUME NEW k, SettledBy(k) PROVE SettledBy(k)'
  <2>1. ASSUME NEW id \in Rows, runs[id] > 0, owed'[id] # {}, Key(inbox'[id].event) = k
        PROVE  SettledByTitle(inbox[id].event)'
    <3>1. inbox[id].status # "free"
      BY <1>1, <2>1
    <3>2. owed[id] # {} /\ Key(inbox[id].event) = k
      BY <2>1, <3>1 DEF Stays
    <3>3. QED BY <1>2, <1>4, <2>1, <3>1, <3>2 DEF SettledBy
  <2>2. QED BY <2>1 DEF SettledBy, NothingRuns, Key
<1>5. ASSUME NEW id \in Rows, inbox[id].status # "free", KeptFor(id)
      PROVE  KeptFor(id)'
  <2>1. CASE SettledByTitle(inbox[id].event)
    BY <1>2, <1>5, <2>1 DEF KeptFor
  <2>2. ASSUME runs[id] = 0, NEW other \in Rows \ {id}, runs[other] > 0, TwinOf(id, other)
        PROVE  KeptFor(id)'
    <3>1. TwinOf(id, other)'
      BY <1>1, <1>5, <2>2 DEF TwinOf, Stays
    <3>2. runs'[id] = 0 /\ runs'[other] > 0
      BY <2>2 DEF NothingRuns
    <3>3. QED BY <3>1, <3>2 DEF KeptFor
  <2>3. QED BY <1>5, <2>1, <2>2 DEF KeptFor
<1>6. QED BY <1>2, <1>3, <1>4, <1>5

(* What MatchLatest finds is of the release of the event.                   *)
LEMMA MeantTitle ==
  ASSUME HashNamesRelease, NEW e \in Events, NEW g \in Meant(e)
  PROVE  g \in Grabs /\ record[g] = "grabbed" /\ TitleOf[g] = TitleOf[e.grab]
<1>1. e.grab \in Grabs
  BY EventFields
<1>2. QED BY <1>1 DEF HashNamesRelease, Meant, Open

LEMMA OwedStays ==
  ASSUME IInv, OwedMeant, Stays, \A id \in Rows : inbox[id].status = "free" => owed'[id] = {}
  PROVE  OwedMeant'
<1>1. ASSUME NEW id \in Rows, NEW g \in owed'[id]
      PROVE  /\ record'[g] \in Terminal \cup {"grabbed"}
             /\ TitleOf[g] = TitleOf[inbox'[id].event.grab]
             /\ inbox'[id].event.kind \in {"imported", "failed"}
  <2>1. inbox[id].status # "free" /\ g \in owed[id] /\ inbox'[id].event = inbox[id].event
    BY <1>1 DEF Stays
  <2>2. g \in Grabs
    BY <2>1 DEF IInv, TypeOK
  <2>3. /\ record[g] \in Terminal \cup {"grabbed"}
        /\ TitleOf[g] = TitleOf[inbox[id].event.grab]
        /\ inbox[id].event.kind \in {"imported", "failed"}
    BY <2>1 DEF OwedMeant
  <2>4. record'[g] \in Terminal \cup {"grabbed"}
    BY <2>2, <2>3 DEF Stays
  <2>5. QED BY <2>1, <2>3, <2>4
<1>2. QED BY <1>1 DEF OwedMeant

(* A step that begins and ends no run and finishes no row.                  *)
Quiet ==
  /\ Stays /\ NothingRuns /\ OwedMeant'
  /\ succeeded' \subseteq succeeded
  /\ \A id \in Rows : inbox'[id].status = "gone" => inbox[id].status = "gone" /\ owed'[id] = owed[id]
  /\ dpc' = "applying" => dpc = "applying" /\ UNCHANGED batch
  /\ dpc' = "settling" /\ verdict' = "ok" => dpc = "settling" /\ verdict = "ok" /\ UNCHANGED batch

LEMMA QuietKept ==
  ASSUME IInv, KeptInv, Quiet
  PROVE  KeptInv'
<1> USE DEF KeptInv
<1>1. SuccessSettled'
  BY StaysSettled DEF Quiet, SuccessSettled
<1>2. OutcomeKept'
  <2>1. \A id \in Rows : inbox'[id].status = "gone" /\ owed'[id] # {} => KeptFor(id)'
    BY StaysSettled DEF Quiet, OutcomeKept, KeptFor
  <2>2. QED BY <2>1 DEF OutcomeKept, KeptFor
<1>3. RunSettles'
  <2>1. CASE dpc' = "applying"
    <3>1. Current' = Current /\ dpc = "applying"
      BY <2>1 DEF Quiet, Current
    <3>2. QED BY <2>1, <3>1 DEF Quiet, NothingRuns, RunSettles
  <2>2. CASE dpc' = "settling" /\ verdict' = "ok"
    <3>1. dpc = "settling" /\ verdict = "ok" /\ Current' = Current
      BY <2>2 DEF Quiet, Current
    <3>2. Current \in Rows /\ inbox[Current].status = "processing"
      BY <3>1, KeyOfRow DEF IInv, BatchLeased
    <3>3. Key(Event)' = Key(Event)
      BY <3>1, <3>2 DEF Quiet, Stays, Event, Row, Key
    <3>4. WasRun(Key(Event)) /\ SettledBy(Key(Event))
      BY <3>1 DEF RunSettles
    <3>5. ASSUME NEW k, k = Key(Event)
          PROVE  WasRun(k)' /\ SettledBy(k)'
      BY <3>4, <3>5, StaysSettled DEF Quiet
    <3>6. WasRun(Key(Event))' /\ SettledBy(Key(Event))'
      BY <3>3, <3>5 DEF WasRun, SettledBy
    <3>7. QED BY <2>2, <3>6 DEF RunSettles
  <2>3. QED BY <2>1, <2>2 DEF RunSettles
<1>4. QED BY <1>1, <1>2, <1>3 DEF Quiet

(* Rows are as they were, but for status, lease and attempts.               *)
LEMMA SameEventsStay ==
  ASSUME IInv, UNCHANGED owed,
         \A id \in Rows : inbox[id].status # "free" => inbox'[id].event = inbox[id].event,
         \A g \in Grabs : \/ record'[g] = record[g]
                          \/ record[g] = "grabbed" /\ record'[g] \in Terminal
                          \/ record[g] \in {"none", "taken"}
  PROVE  /\ Stays
         /\ OwedMeant => OwedMeant'
<1>1. Stays
  BY DEF Stays, Terminal
<1>2. \A id \in Rows : inbox[id].status = "free" => owed'[id] = {}
  BY DEF IInv, RowsFilled
<1>3. QED BY <1>1, <1>2, OwedStays

LEMMA GrabKept ==
  ASSUME IInv, KeptInv, NEW g \in Grabs, Take(g) \/ Store(g)
  PROVE  KeptInv'
<1>1. /\ UNCHANGED <<storeVars, process, drainVars, told, fileVars, historyVars>>
      /\ \A h \in Grabs : record'[h] = record[h] \/ record[h] \in {"none", "taken"}
  BY DEF Take, Store, IInv, TypeOK
<1>2. Stays /\ OwedMeant'
  BY <1>1, SameEventsStay DEF storeVars, historyVars, KeptInv
<1>3. Quiet
  BY <1>1, <1>2 DEF Quiet, NothingRuns, storeVars, drainVars, historyVars
<1>4. QED BY <1>3, QuietKept

LEMMA ReceiveKept ==
  ASSUME HashNamesRelease, IInv, KeptInv, NEW e \in Events, Receive(e)
  PROVE  KeptInv'
<1> DEFINE row == last + 1
<1>1. /\ row \in Rows /\ inbox[row].status = "free"
      /\ UNCHANGED <<notices, process, drainVars, grabVars, fileVars, runs, unstored>>
  BY InboxAssumption DEF Receive, Rows, IInv, TypeOK, RowsFilled
<1>2. inbox'[row].event = e /\ inbox'[row].status = "pending"
  BY <1>1 DEF Receive, Free, IInv, TypeOK
<1>3. owed'[row] = IF e.kind \in {"imported", "failed"} THEN Meant(e) ELSE {}
  BY <1>1 DEF Receive, IInv, TypeOK
<1>4. \A id \in Rows \ {row} : inbox'[id] = inbox[id] /\ owed'[id] = owed[id]
  BY <1>1 DEF Receive, IInv, TypeOK
<1> HIDE DEF row
<1>5. Stays
  BY <1>1, <1>4 DEF Stays, grabVars
<1>6. OwedMeant'
  <2>1. ASSUME NEW id \in Rows, NEW g \in owed'[id]
        PROVE  /\ record'[g] \in Terminal \cup {"grabbed"}
               /\ TitleOf[g] = TitleOf[inbox'[id].event.grab]
               /\ inbox'[id].event.kind \in {"imported", "failed"}
    <3>1. CASE id = row
      <4>1. g \in Meant(e) /\ e.kind \in {"imported", "failed"}
        BY <1>3, <2>1, <3>1
      <4>2. QED BY <1>1, <1>2, <3>1, <4>1, MeantTitle DEF grabVars
    <3>2. CASE id # row
      BY <1>1, <1>4, <2>1, <3>2 DEF KeptInv, OwedMeant, grabVars
    <3>3. QED BY <3>1, <3>2
  <2>2. QED BY <2>1 DEF OwedMeant
<1>7. Quiet
  BY <1>1, <1>2, <1>4, <1>5, <1>6 DEF Quiet, NothingRuns, drainVars
<1>8. QED BY <1>7, QuietKept

(* Steps that touch neither records nor what rows are about, settle nothing *)
(* and begin no run.                                                        *)
LEMMA PassiveKept ==
  ASSUME IInv, KeptInv,
         UNCHANGED <<grabVars, runs, owed>>, succeeded' \subseteq succeeded,
         \A id \in Rows : /\ inbox'[id].event = inbox[id].event
                          /\ inbox'[id].status = "gone" => inbox[id].status = "gone",
         dpc' \in {"applying", "settling"} =>
           (verdict' # "ok" /\ dpc' # "applying") \/ UNCHANGED <<dpc, verdict, batch>>
  PROVE  KeptInv'
<1>1. Stays /\ OwedMeant'
  BY SameEventsStay DEF KeptInv, grabVars
<1>2. Quiet
  BY <1>1 DEF Quiet, NothingRuns
<1>3. QED BY <1>2, QuietKept

LEMMA PassKept ==
  IInv /\ KeptInv /\ (Reclaim \/ ReclaimFails \/ Claim \/ PassEnds \/ BatchEnds) => KeptInv'
<1> SUFFICES ASSUME IInv, KeptInv, Reclaim \/ ReclaimFails \/ Claim \/ PassEnds \/ BatchEnds
             PROVE  KeptInv'
  OBVIOUS
<1>1. /\ UNCHANGED <<grabVars, runs, owed>> /\ succeeded' \subseteq succeeded
      /\ dpc' \notin {"applying", "settling"}
  BY DEF Reclaim, ReclaimFails, PassBegins, Claim, PassEnds, BatchEnds, historyVars
<1>2. \A id \in Rows : /\ inbox'[id].event = inbox[id].event
                       /\ inbox'[id].status = "gone" => inbox[id].status = "gone"
  <2>1. \A id \in Rows : inbox[id] \in RowType
    BY DEF IInv, TypeOK, RowType
  <2>2. CASE Reclaim
    BY <2>1, <2>2 DEF Reclaim, RowType
  <2>3. CASE Claim
    BY <2>1, <2>3 DEF Claim, RowType
  <2>4. CASE ReclaimFails \/ PassEnds \/ BatchEnds
    BY <2>4 DEF ReclaimFails, PassEnds, BatchEnds, storeVars
  <2>5. QED BY <2>2, <2>3, <2>4
<1>3. QED BY <1>1, <1>2, PassiveKept

LEMMA IdleKept ==
  IInv /\ KeptInv /\ (MapFails \/ Stop \/ Restart \/ UNCHANGED vars \/ \E e \in Episodes : FileChanges(e))
    => KeptInv'
<1> SUFFICES ASSUME IInv, KeptInv, MapFails \/ Stop \/ Restart \/ UNCHANGED vars
                                   \/ \E e \in Episodes : FileChanges(e)
             PROVE  KeptInv'
  OBVIOUS
<1>1. UNCHANGED <<inbox, grabVars, runs, owed, succeeded>>
  BY DEF MapFails, Stop, Restart, vars, FileChanges, storeVars, drainVars, historyVars
<1>2. dpc' \in {"applying", "settling"} =>
        (verdict' # "ok" /\ dpc' # "applying") \/ UNCHANGED <<dpc, verdict, batch>>
  BY DEF MapFails, Stop, Restart, vars, FileChanges, drainVars
<1>3. QED BY <1>1, <1>2, PassiveKept

LEMMA WaitOverKept ==
  ASSUME IInv, KeptInv, NEW id \in Rows, WaitOver(id)
  PROVE  KeptInv'
<1>1. \A other \in Rows : /\ inbox'[other].event = inbox[other].event
                          /\ inbox'[other].status = inbox[other].status
  BY DEF WaitOver, IInv, TypeOK
<1>2. UNCHANGED <<grabVars, runs, owed, succeeded, dpc, verdict, batch>>
  BY DEF WaitOver, drainVars, historyVars
<1>3. QED BY <1>1, <1>2, PassiveKept

LEMMA DiesKept == IInv /\ KeptInv /\ Dies => KeptInv'
<1> SUFFICES ASSUME IInv, KeptInv, Dies PROVE KeptInv'
  OBVIOUS
<1>1. /\ UNCHANGED <<storeVars, runs, owed>> /\ dpc' = "idle" /\ succeeded' = {}
      /\ \A g \in Grabs : record'[g] = record[g] \/ record[g] \in {"none", "taken"}
  BY DEF Dies
<1>2. Stays /\ OwedMeant'
  BY <1>1, SameEventsStay DEF storeVars, KeptInv
<1>3. Quiet
  BY <1>1, <1>2 DEF Quiet, NothingRuns, storeVars
<1>4. QED BY <1>3, QuietKept

LEMMA SkipKept == IInv /\ KeptInv /\ SkipTwin => KeptInv'
<1> SUFFICES ASSUME IInv, KeptInv, SkipTwin PROVE KeptInv'
  OBVIOUS
<1>1. /\ UNCHANGED <<storeVars, batch, succeeded, grabVars, historyVars>> /\ dpc' = "settling"
      /\ Key(Event) \in succeeded
  BY DEF SkipTwin
<1>2. Event' = Event
  BY <1>1 DEF Event, Row, Current, storeVars
<1>3. WasRun(Key(Event)) /\ SettledBy(Key(Event))
  BY <1>1 DEF KeptInv, SuccessSettled
<1>4. RunSettles'
  BY <1>1, <1>2, <1>3 DEF RunSettles, WasRun, SettledBy, SettledByTitle, Key, storeVars, grabVars, historyVars
<1>5. OwedMeant' /\ SuccessSettled' /\ OutcomeKept'
  BY <1>1 DEF KeptInv, OwedMeant, SuccessSettled, WasRun, SettledBy, OutcomeKept, SettledByTitle,
              TwinOf, Key, storeVars, grabVars, historyVars
<1>6. QED BY <1>4, <1>5 DEF KeptInv

LEMMA RunKept == IInv /\ KeptInv /\ Run => KeptInv'
<1> SUFFICES ASSUME IInv, KeptInv, Run PROVE KeptInv'
  OBVIOUS
<1>1. /\ dpc' = "applying" /\ batch # {} /\ Key(Event) \notin succeeded
      /\ UNCHANGED <<storeVars, batch, succeeded, grabVars, owed>>
  BY DEF Run, AtRow
<1> DEFINE row == Current
<1>2. /\ row \in Rows /\ inbox[row].status = "processing" /\ row = Current
      /\ Key(inbox[row].event) \notin succeeded
  BY <1>1, KeyOfRow DEF Event, Row
<1>3. runs' = [runs EXCEPT ![row] = @ + 1]
  BY DEF Run
<1> HIDE DEF row
<1>4. /\ runs \in [Rows -> Nat] /\ runs'[row] > 0
      /\ \A id \in Rows \ {row} : runs'[id] = runs[id]
      /\ \A id \in Rows : runs[id] > 0 => runs'[id] > 0
  BY <1>2, <1>3 DEF IInv, TypeOK
<1>5. OwedMeant'
  BY <1>1 DEF KeptInv, OwedMeant, storeVars, grabVars
<1>6. SuccessSettled'
  <2>1. ASSUME NEW k \in succeeded
        PROVE  WasRun(k)' /\ SettledBy(k)'
    <3>1. WasRun(k) /\ SettledBy(k) /\ Key(inbox[row].event) # k
      BY <1>2 DEF KeptInv, SuccessSettled
    <3>2. WasRun(k)'
      BY <1>1, <1>4, <3>1 DEF WasRun, storeVars, Key
    <3>3. SettledBy(k)'
      BY <1>1, <1>4, <3>1 DEF SettledBy, SettledByTitle, storeVars, grabVars, Key
    <3>4. QED BY <3>2, <3>3
  <2>2. QED BY <1>1, <2>1 DEF SuccessSettled
<1>7. RunSettles'
  <2>1. Current' = row
    BY <1>1, <1>2 DEF Current
  <2>2. QED BY <1>1, <1>4, <2>1 DEF RunSettles
<1>8. OutcomeKept'
  <2>1. ASSUME NEW id \in Rows, inbox[id].status = "gone", owed[id] # {}
        PROVE  KeptFor(id)'
    <3>1. KeptFor(id) /\ id # row
      BY <1>2, <2>1 DEF KeptInv, OutcomeKept, KeptFor
    <3>2. CASE SettledByTitle(inbox[id].event)
      BY <1>1, <3>2 DEF KeptFor, SettledByTitle, storeVars, grabVars
    <3>3. ASSUME runs[id] = 0, NEW other \in Rows \ {id}, runs[other] > 0, TwinOf(id, other)
          PROVE  KeptFor(id)'
      BY <1>1, <1>4, <3>1, <3>3 DEF KeptFor, TwinOf, storeVars
    <3>4. QED BY <3>1, <3>2, <3>3 DEF KeptFor
  <2>2. QED BY <1>1, <2>1 DEF OutcomeKept, KeptFor, storeVars
<1>9. QED BY <1>5, <1>6, <1>7, <1>8 DEF KeptInv

(* A run that went through settles a record for every row with its key that *)
(* was run and is owed one.                                                 *)
LEMMA AppliedKept ==
  ASSUME HashNamesRelease, IInv, KeptInv, Applied \/ ApplyFails
  PROVE  KeptInv'
<1>1. /\ dpc = "applying" /\ dpc' = "settling"
      /\ Effect(Event) \/ UNCHANGED grabVars
      /\ UNCHANGED <<storeVars, batch, succeeded, historyVars>> /\ batch # {}
  BY DEF Applied, ApplyFails, IInv, BatchLeased
<1>2. Event \in Events /\ Current \in Rows
  BY <1>1, KeyOfRow
<1>3. \A g \in Grabs : \/ record'[g] = record[g]
                       \/ record[g] = "grabbed" /\ record'[g] \in Terminal
  <2>1. CASE Effect(Event)
    BY <2>1, EffectMoves
  <2>2. CASE UNCHANGED grabVars
    BY <2>2 DEF grabVars
  <2>3. QED BY <1>1, <2>1, <2>2
<1>4. Stays /\ OwedMeant'
  BY <1>1, <1>3, SameEventsStay DEF storeVars, historyVars, KeptInv
<1>5. CASE ApplyFails
  <2>1. Quiet
    BY <1>1, <1>4, <1>5 DEF ApplyFails, Quiet, NothingRuns, storeVars, historyVars
  <2>2. QED BY <2>1, QuietKept
<1>6. CASE Applied
  <2>1. NothingRuns /\ Event' = Event
    BY <1>1 DEF NothingRuns, Event, Row, Current, storeVars, historyVars
  <2>2. SuccessSettled'
    BY <1>1, <1>4, <2>1, StaysSettled DEF KeptInv, SuccessSettled
  <2>3. OutcomeKept'
    <3>1. \A id \in Rows : inbox'[id].status = "gone" /\ owed'[id] # {} => KeptFor(id)'
      BY <1>1, <1>4, <2>1, StaysSettled DEF KeptInv, OutcomeKept, KeptFor, storeVars, historyVars
    <3>2. QED BY <3>1 DEF OutcomeKept, KeptFor
  <2>4. WasRun(Key(Event))
    BY <1>1, <1>2 DEF KeptInv, RunSettles, WasRun, Event, Row
  <2>5. ASSUME NEW id \in Rows, runs[id] > 0, owed[id] # {}, Key(inbox[id].event) = Key(Event)
        PROVE  \E g \in Grabs : TitleOf[g] = TitleOf[inbox[id].event.grab] /\ record'[g] \in Terminal
    <3>1. PICK g \in owed[id] : TRUE
      BY <2>5
    <3>2. /\ record[g] \in Terminal \cup {"grabbed"}
          /\ TitleOf[g] = TitleOf[inbox[id].event.grab] /\ g \in Grabs
          /\ inbox[id].event.kind \in {"imported", "failed"}
      BY <3>1 DEF KeptInv, OwedMeant, IInv, TypeOK
    <3>3. inbox[id].event \in Events
      BY <2>5 DEF IInv, RowsFilled, TypeOK
    <3>4. /\ inbox[id].event.kind = Event.kind
          /\ HashOf[inbox[id].event.grab] = HashOf[Event.grab]
      BY <2>5 DEF Key
    <3>5. TitleOf[inbox[id].event.grab] = TitleOf[Event.grab]
      BY <1>2, <3>3, <3>4, EventFields DEF HashNamesRelease
    <3>6. CASE record[g] \in Terminal
      BY <1>4, <3>2, <3>6 DEF Stays
    <3>7. CASE record[g] = "grabbed"
      <4>1. Meant(Event) # {}
        BY <3>2, <3>5, <3>7 DEF Meant, Open
      <4>2. MatchLatest(Event) \in Meant(Event)
        BY <4>1, LatestIsMeant
      <4>3. MatchLatest(Event) \in Grabs /\ TitleOf[MatchLatest(Event)] = TitleOf[Event.grab]
        BY <1>2, <4>2, MeantTitle
      <4>4. record'[MatchLatest(Event)] \in Terminal
        <5>1. Effect(Event)
          BY <1>6 DEF Applied
        <5>2. Event.kind \in {"imported", "failed"}
          BY <3>2, <3>4
        <5>3. QED BY <4>1, <5>1, <5>2, EffectMoves
      <4>5. QED BY <3>5, <4>3, <4>4
    <3>8. QED BY <3>2, <3>6, <3>7
  <2>6. RunSettles'
    <3>1. WasRun(Key(Event))'
      BY <1>1, <2>1, <2>4 DEF WasRun, Key, storeVars, historyVars
    <3>2. SettledBy(Key(Event))'
      BY <1>1, <2>1, <2>5 DEF SettledBy, SettledByTitle, Key, storeVars, historyVars
    <3>3. QED BY <1>1, <3>1, <3>2 DEF RunSettles
  <2>7. QED BY <1>4, <2>2, <2>3, <2>6 DEF KeptInv
<1>7. QED BY <1>5, <1>6

(* The outcome is stored or not; what succeeded counts for the pass.        *)
LEMMA SettleKept ==
  IInv /\ KeptInv /\ (MarkSuccess \/ MarkFailure \/ MarkDead \/ SettleFails) => KeptInv'
<1> SUFFICES ASSUME IInv, KeptInv, MarkSuccess \/ MarkFailure \/ MarkDead \/ SettleFails
             PROVE  KeptInv'
  OBVIOUS
<1>1. /\ dpc = "settling" /\ dpc' = "rows" /\ batch # {} /\ UNCHANGED <<grabVars, runs, owed>>
  BY DEF MarkSuccess, MarkFailure, MarkDead, SettleFails, NextRow, historyVars, IInv, BatchLeased
<1> DEFINE row == Current
<1>2. /\ row \in Rows /\ inbox[row].status = "processing" /\ row = Current /\ inbox[row] = Row
  BY <1>1, KeyOfRow DEF Row
<1> HIDE DEF row
<1>3. /\ \A id \in Rows : inbox'[id].event = inbox[id].event
      /\ \A id \in Rows \ {row} : inbox'[id] = inbox[id]
      /\ inbox'[row].status = "gone" => verdict = "ok"
  <2>1. inbox[row] \in RowType /\ inbox \in [Rows -> RowType]
    BY <1>2 DEF IInv, TypeOK, RowType
  <2>2. CASE MarkSuccess
    <3>1. /\ inbox' = [inbox EXCEPT ![row] = [inbox[row] EXCEPT !.status = "gone", !.waits = FALSE]]
          /\ verdict = "ok"
      BY <1>2, <2>2 DEF MarkSuccess
    <3>2. QED BY <1>2, <2>1, <3>1 DEF RowType
  <2>3. CASE MarkFailure
    <3>1. inbox' = [inbox EXCEPT ![row] = [inbox[row] EXCEPT !.status = "pending", !.waits = TRUE,
                                                              !.attempts = @ + 1]]
      BY <1>2, <2>3 DEF MarkFailure
    <3>2. QED BY <1>2, <2>1, <3>1 DEF RowType
  <2>4. CASE MarkDead
    <3>1. inbox' = [inbox EXCEPT ![row] = [inbox[row] EXCEPT !.status = "dead", !.waits = FALSE]]
      BY <1>2, <2>4 DEF MarkDead
    <3>2. QED BY <1>2, <2>1, <3>1 DEF RowType
  <2>5. CASE SettleFails
    BY <1>2, <2>5 DEF SettleFails, storeVars
  <2>6. QED BY <2>2, <2>3, <2>4, <2>5
<1>4. OwedMeant'
  BY <1>1, <1>3 DEF KeptInv, OwedMeant, grabVars
<1>5. ASSUME NEW k PROVE (WasRun(k) => WasRun(k)') /\ (SettledBy(k) => SettledBy(k)')
  BY <1>1, <1>3 DEF WasRun, SettledBy, SettledByTitle, Key, grabVars
<1>6. SuccessSettled'
  <2>1. \A k \in succeeded' : k \in succeeded \/ (verdict = "ok" /\ k = Key(Event))
    BY DEF MarkSuccess, MarkFailure, MarkDead, SettleFails
  <2>2. ASSUME NEW k \in succeeded' PROVE WasRun(k) /\ SettledBy(k)
    BY <1>1, <2>1 DEF KeptInv, SuccessSettled, RunSettles
  <2>3. QED BY <1>5, <2>2 DEF SuccessSettled
<1>7. RunSettles'
  BY <1>1 DEF RunSettles
<1>8. OutcomeKept'
  <2>1. ASSUME NEW id \in Rows, inbox'[id].status = "gone", owed[id] # {}
        PROVE  KeptFor(id)
    <3>1. CASE id # row
      BY <1>3, <2>1, <3>1 DEF KeptInv, OutcomeKept, KeptFor
    <3>2. CASE id = row
      <4>1. WasRun(Key(inbox[row].event)) /\ SettledBy(Key(inbox[row].event))
        BY <1>1, <1>2, <1>3, <2>1, <3>2 DEF KeptInv, RunSettles, Event
      <4>2. CASE runs[row] > 0
        BY <1>2, <2>1, <3>2, <4>1, <4>2 DEF SettledBy, KeptFor
      <4>3. CASE runs[row] = 0
        <5>1. PICK other \in Rows : runs[other] > 0 /\ Key(inbox[other].event) = Key(inbox[row].event)
          BY <4>1 DEF WasRun
        <5>2. TwinOf(row, other) /\ other # row
          BY <4>3, <5>1 DEF TwinOf, Key
        <5>3. QED BY <3>2, <4>3, <5>1, <5>2 DEF KeptFor
      <4>4. runs[row] \in Nat
        BY <1>2 DEF IInv, TypeOK
      <4>5. QED BY <4>2, <4>3, <4>4
    <3>3. QED BY <3>1, <3>2
  <2>2. ASSUME NEW id \in Rows, KeptFor(id) PROVE KeptFor(id)'
    BY <1>1, <1>3, <2>2 DEF KeptFor, SettledByTitle, TwinOf, grabVars
  <2>3. QED BY <1>1, <2>1, <2>2 DEF OutcomeKept, KeptFor
<1>9. QED BY <1>4, <1>6, <1>7, <1>8 DEF KeptInv

LEMMA StepKept == HashNamesRelease /\ IInv /\ KeptInv /\ [Next]_vars => KeptInv'
<1>1. ASSUME HashNamesRelease, IInv, KeptInv, DrainStep PROVE KeptInv'
  BY <1>1, PassKept, IdleKept, SkipKept, RunKept, AppliedKept, SettleKept DEF DrainStep
<1>2. QED BY <1>1, GrabKept, ReceiveKept, IdleKept, WaitOverKept, DiesKept DEF Next

LEMMA InitKept == Init => KeptInv
BY DEF Init, KeptInv, OwedMeant, SuccessSettled, RunSettles, OutcomeKept, Free

(* Where one download id is one release, a row that is gone and meant an    *)
(* open record has settled one of its release, or is the twin of a row that *)
(* was run: no crash, reclaim or second delivery loses an outcome.          *)
THEOREM OutcomesAreKept == HashNamesRelease => (Spec => []OutcomeKept)
<1> SUFFICES ASSUME HashNamesRelease PROVE Spec => []OutcomeKept
  OBVIOUS
<1>1. IInv /\ KeptInv /\ [Next]_vars => KeptInv'
  BY StepKept
<1>2. KeptInv => OutcomeKept
  BY DEF KeptInv
<1>3. QED BY <1>1, <1>2, InitKept, Invariance, PTL DEF Spec
=============================================================================
