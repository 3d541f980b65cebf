-------------------------- MODULE MediaAssetsProofs --------------------------
(***************************************************************************)
(* What holds of one image of the media layer for every number of readers, *)
(* workers, failures and sweeps: the types of MediaAssets, that the row    *)
(* never calls stored what the store lacks, and, over a store whose Stat   *)
(* knows the content type, that an image in the store is served.           *)
(***************************************************************************)
EXTENDS MediaAssets, TLAPS

(* The hash is in the dedup set while its one job waits or is worked on.   *)
OneJob ==
  /\ ~dedup => jobs = 0 /\ \A w \in Workers : work[w] = "idle"
  /\ jobs = 1 => \A w \in Workers : work[w] = "idle"
  /\ \A w, v \in Workers : work[w] # "idle" /\ work[v] # "idle" => w = v

(* Who is about to call the row stored has seen or put the object.         *)
SeenBacked ==
  (\/ row.status = "stored"
   \/ \E w \in Workers : work[w] \in {"hit", "store"}
   \/ \E r \in Readers : fetch[r] \in {"hit", "store"})  => bytes \/ robbed

(* One reader fetches, and it waits itself; nobody waits without it.       *)
Flights ==
  /\ \A r \in Readers : fetch[r] # "idle" => flight = r
  /\ \A r \in Readers : req[r].pc = "riding" => flight # None
  /\ flight # None => req[flight].pc = "riding"
  /\ \A r \in gone : req[r].pc # "idle"

(* A reader that waits for a fetch is owed the image only with the leader, *)
(* and the leader has seen the object, or will.                            *)
RidesWell ==
  /\ flight \in owed
  /\ fetch[flight] \in {"stat", "hit", "ok"}
  /\ fetch[flight] = "ok" => row.status = "stored"

OwedWell(r) ==
  /\ r \notin gone
  /\ req[r].pc \in {"riding", "load", "bytes"}
  /\ req[r].pc = "riding" => RidesWell
  /\ req[r].pc = "load" => req[r].typed

(* The row knows the type of what it calls stored, and what is owed is     *)
(* there.                                                                  *)
Held ==
  /\ row.status = "stored" => row.typed
  /\ owed # {} => bytes /\ row.status # "none"

(* Nobody is left who could hide from a reader what it is owed.            *)
Owing ==
  /\ Held
  /\ owed \cap Asked # {} => ~Unseeing
  /\ \A r \in owed : OwedWell(r)

IInv == TypeOK /\ OneJob /\ SeenBacked /\ Flights /\ (TypedStat => Owing)

-----------------------------------------------------------------------------
(* Types. *)

Statuses == {"none", "pending", "failed", "stored"}
RowType == [status : Statuses, typed : BOOLEAN]
WorkPlaces == {"idle", "stat", "hit", "pending", "get", "store", "failed"}
FetchPlaces == {"idle", "stat", "hit", "gate", "get", "store", "ok", "missed"}
ReqPlaces == {"idle", "riding", "load", "bytes", "placeholder", "gone"}
ReqType == [pc : ReqPlaces, typed : BOOLEAN]
SweepType == [pc : {"idle", "row", "object", "delete"}, live : SUBSET {Path}, typed : BOOLEAN]

(* The parts of the type, by who changes them. *)
AssetOK == row \in RowType /\ bytes \in BOOLEAN /\ robbed \in BOOLEAN /\ upstream \in BOOLEAN
WorkOK == dedup \in BOOLEAN /\ jobs \in 0 .. 1 /\ work \in [Workers -> WorkPlaces] /\ OneJob
FetchOK == fetch \in [Readers -> FetchPlaces] /\ cooling \in BOOLEAN
ReadOK == flight \in Readers \cup {None} /\ req \in [Readers -> ReqType] /\ gone \subseteq Readers
SweepOK == sweep \in SweepType /\ sweeps \in 0 .. MaxSweeps
FaultOK == faults \in 0 .. MaxFaults /\ owed \subseteq Readers

AllTyped == AssetOK /\ WorkOK /\ FetchOK /\ ReadOK /\ SweepOK /\ FaultOK

LEMMA Parts == TypeOK /\ OneJob <=> AllTyped
BY DEF TypeOK, AllTyped, AssetOK, WorkOK, FetchOK, ReadOK, SweepOK, FaultOK, RowType, Statuses,
       WorkPlaces, FetchPlaces, ReqPlaces, ReqType, SweepType

(* What is left alone keeps its type. *)
LEMMA Kept ==
  ASSUME AllTyped
  PROVE  /\ UNCHANGED <<assetVars, upstream, robbed>> => AssetOK'
         /\ UNCHANGED workVars => WorkOK'
         /\ UNCHANGED fetchVars => FetchOK'
         /\ UNCHANGED readVars => ReadOK'
         /\ UNCHANGED sweepVars => SweepOK'
         /\ UNCHANGED faultVars => FaultOK'
BY DEF AllTyped, AssetOK, WorkOK, FetchOK, ReadOK, SweepOK, FaultOK, OneJob, assetVars, workVars,
       fetchVars, readVars, sweepVars, faultVars

LEMMA FaultTyped ==
  ASSUME FaultOK
  PROVE  Fault \/ NoFault => FaultOK'
BY MediaAssumption DEF FaultOK, Fault, NoFault, faultVars

LEMMA RowTyped ==
  ASSUME NEW status \in Statuses, NEW typed \in BOOLEAN, Upsert(status, typed)
  PROVE  row' \in RowType /\ row'.status = status /\ row'.typed = typed
BY DEF Upsert, RowType

(* One request moves on. *)
LEMMA ReqMoved ==
  ASSUME ReadOK, NEW r \in Readers, NEW pc \in ReqPlaces, Goes(r, pc)
  PROVE  /\ req' \in [Readers -> ReqType]
         /\ req'[r].pc = pc /\ req'[r].typed = req[r].typed
         /\ \A x \in Readers \ {r} : req'[x] = req[x]
<1>1. req \in [Readers -> ReqType] /\ req[r] \in ReqType
  BY DEF ReadOK
<1>2. req' = [req EXCEPT ![r] = [req[r] EXCEPT !.pc = pc]]
  BY <1>1 DEF Goes
<1> DEFINE new == [req[r] EXCEPT !.pc = pc]
<1>3. new \in ReqType /\ new.pc = pc /\ new.typed = req[r].typed
  BY <1>1 DEF ReqType
<1> HIDE DEF new
<1>4. req' = [req EXCEPT ![r] = new]
  BY <1>2 DEF new
<1>5. QED BY <1>1, <1>3, <1>4

LEMMA WorkerMoved ==
  ASSUME WorkOK, NEW w \in Workers, NEW from, NEW to \in WorkPlaces, Works(w, from, to)
  PROVE  /\ work' \in [Workers -> WorkPlaces] /\ work'[w] = to /\ work[w] = from
         /\ \A v \in Workers \ {w} : work'[v] = work[v]
BY DEF WorkOK, Works

LEMMA FetchMoved ==
  ASSUME FetchOK, NEW r \in Readers, NEW from, NEW to \in FetchPlaces, Fetches(r, from, to)
  PROVE  /\ fetch' \in [Readers -> FetchPlaces] /\ fetch'[r] = to /\ fetch[r] = from
         /\ \A x \in Readers \ {r} : fetch'[x] = fetch[x]
BY DEF FetchOK, Fetches

(* A busy worker goes on with its job, or is done with it. *)
LEMMA WorkGoesOn ==
  ASSUME WorkOK, NEW w \in Workers, NEW from, NEW to \in WorkPlaces \ {"idle"},
         from # "idle", Works(w, from, to), UNCHANGED <<dedup, jobs>>
  PROVE  WorkOK'
<1>1. /\ work' \in [Workers -> WorkPlaces] /\ work'[w] = to /\ work[w] = from
      /\ \A v \in Workers \ {w} : work'[v] = work[v]
  BY WorkerMoved
<1>2. QED BY <1>1 DEF WorkOK, OneJob

LEMMA WorkDone ==
  ASSUME WorkOK, NEW w \in Workers, NEW from, from # "idle", Done(w, from), UNCHANGED jobs
  PROVE  WorkOK'
<1>1. /\ work' \in [Workers -> WorkPlaces] /\ work'[w] = "idle" /\ work[w] = from
      /\ \A v \in Workers \ {w} : work'[v] = work[v]
  BY WorkerMoved DEF Done, WorkPlaces
<1>2. \A v \in Workers \ {w} : work[v] = "idle"
  BY <1>1 DEF WorkOK, OneJob
<1>3. jobs = 0
  BY <1>1 DEF WorkOK, OneJob
<1>4. QED BY <1>1, <1>2, <1>3 DEF WorkOK, OneJob, Done

LEMMA ProducersTyped ==
  ASSUME AllTyped, EnsurePending \/ Enqueue
  PROVE  AllTyped'
<1>1. CASE EnsurePending
  <2>1. row' \in RowType
    BY <1>1, RowTyped DEF EnsurePending, Statuses
  <2>2. AssetOK'
    BY <1>1, <2>1 DEF EnsurePending, AllTyped, AssetOK
  <2>3. QED BY <1>1, <2>2, Kept DEF EnsurePending, AllTyped
<1>2. CASE Enqueue
  <2>1. WorkOK'
    BY <1>2 DEF Enqueue, AllTyped, WorkOK, OneJob
  <2>2. QED BY <1>2, <2>1, Kept DEF Enqueue, AllTyped, assetVars
<1>3. QED BY <1>1, <1>2

LEMMA WritesTyped ==
  ASSUME AllTyped, NEW w \in Workers, NEW from, from # "idle", NEW status \in Statuses,
         NEW typed \in BOOLEAN, WorkWrites(w, from, status, typed)
  PROVE  AllTyped'
<1>1. WorkOK'
  BY WorkDone DEF WorkWrites, AllTyped, OnWork
<1>2. AssetOK'
  BY RowTyped DEF WorkWrites, AllTyped, AssetOK, OnWork
<1>3. FaultOK'
  BY FaultTyped DEF WorkWrites, AllTyped
<1>4. QED BY <1>1, <1>2, <1>3, Kept DEF WorkWrites, AllTyped, OnWork

LEMMA WorkTyped ==
  ASSUME AllTyped, NEW w \in Workers, WorkStep(w)
  PROVE  AllTyped'
<1> USE DEF AllTyped, WorkPlaces, Statuses
<1>1. CASE TakeJob(w)
  <2>1. /\ work' \in [Workers -> WorkPlaces] /\ work'[w] = "stat" /\ work[w] = "idle"
        /\ \A v \in Workers \ {w} : work'[v] = work[v]
    BY <1>1, WorkerMoved DEF TakeJob
  <2>2. WorkOK'
    BY <1>1, <2>1 DEF TakeJob, WorkOK, OneJob
  <2>3. QED BY <1>1, <2>2, Kept DEF TakeJob, assetVars
<1>2. CASE WorkStat(w)
  <2>1. WorkOK'
    BY <1>2, WorkGoesOn DEF WorkStat, OnWork
  <2>2. FaultOK'
    BY <1>2, FaultTyped DEF WorkStat
  <2>3. QED BY <1>2, <2>1, <2>2, Kept DEF WorkStat, OnWork, assetVars
<1>3. CASE WorkHit(w)
  BY <1>3, WritesTyped, MediaAssumption DEF WorkHit
<1>4. CASE WorkPending(w)
  <2>1. WorkOK'
    BY <1>4, WorkGoesOn, WorkDone DEF WorkPending, OnWork
  <2>2. FaultOK'
    BY <1>4, FaultTyped DEF WorkPending
  <2>3. AssetOK'
    BY <1>4, RowTyped DEF WorkPending, OnWork, AssetOK
  <2>4. QED BY <1>4, <2>1, <2>2, <2>3, Kept DEF WorkPending, OnWork
<1>5. CASE WorkDownloads(w)
  <2>1. WorkOK'
    BY <1>5, WorkGoesOn DEF WorkDownloads, OnWork
  <2>2. FaultOK'
    BY <1>5, FaultTyped DEF WorkDownloads
  <2>3. AssetOK'
    BY <1>5 DEF WorkDownloads, OnWork, AssetOK, Stored, Unput
  <2>4. QED BY <1>5, <2>1, <2>2, <2>3, Kept DEF WorkDownloads, OnWork
<1>6. CASE WorkStore(w)
  BY <1>6, WritesTyped DEF WorkStore
<1>7. CASE WorkFailed(w)
  BY <1>7, WritesTyped DEF WorkFailed
<1>8. QED BY <1>1, <1>2, <1>3, <1>4, <1>5, <1>6, <1>7 DEF WorkStep

LEMMA FetchTyped ==
  ASSUME AllTyped, NEW r \in Readers, FetchStep(r)
  PROVE  AllTyped'
<1> USE DEF AllTyped, FetchPlaces, Statuses
<1>1. FetchOK'
  <2>1. cooling' \in BOOLEAN
    BY DEF FetchStep, FetchStat, FetchHit, FetchGate, FetchDownloads, FetchStore, FetchCut,
           Misses, FetchOK
  <2>2. PICK from, to \in FetchPlaces : Fetches(r, from, to)
    BY DEF FetchStep, FetchStat, FetchHit, FetchGate, FetchDownloads, FetchStore, FetchCut, Misses
  <2>3. QED BY <2>1, <2>2, FetchMoved DEF FetchOK
<1>2. AssetOK'
  BY RowTyped, MediaAssumption
  DEF FetchStep, FetchStat, FetchHit, FetchGate, FetchDownloads, FetchStore, FetchCut,
      assetVars, AssetOK, Stored, Unput, OnFetch
<1>3. FaultOK'
  BY FaultTyped DEF FetchStep, FetchStat, FetchHit, FetchGate, FetchDownloads, FetchStore, FetchCut,
      NoFault
<1>4. UNCHANGED <<workVars, readVars, sweepVars>>
  BY DEF FetchStep, FetchStat, FetchHit, FetchGate, FetchDownloads, FetchStore, FetchCut,
      OnFetch
<1>5. QED BY <1>1, <1>2, <1>3, <1>4, Kept

LEMMA AnswerPlaces ==
  ASSUME NEW r \in Readers, NEW a \in {"bytes", "placeholder"}
  PROVE  Answer(r, a) \in ReqPlaces /\ Answer(r, a) \in {a, "gone"}
BY DEF Answer, ReqPlaces

(* A flight lands for those who ride, and for nobody else. *)
LEMMA Landed ==
  ASSUME AllTyped, NEW r \in Readers, FlightLands(r) \/ FlightFails(r)
  PROVE  /\ flight = r /\ flight' = None
         /\ fetch' \in [Readers -> FetchPlaces] /\ fetch'[r] = "idle"
         /\ \A x \in Readers \ {r} : fetch'[x] = fetch[x]
         /\ req' \in [Readers -> ReqType]
         /\ \A x \in Readers : req[x].pc # "riding" => req'[x] = req[x]
         /\ FlightLands(r) =>
              \A x \in Readers : req[x].pc = "riding" =>
                req'[x].pc = "load" /\ req'[x].typed = row.typed
         /\ FlightFails(r) =>
              \A x \in Readers : req[x].pc = "riding" =>
                req'[x].pc \in {"placeholder", "gone"}
         /\ UNCHANGED <<row, bytes, upstream, workVars, cooling, sweepVars, gone, robbed>>
<1>1. /\ flight = r /\ flight' = None /\ fetch' = [fetch EXCEPT ![r] = "idle"]
      /\ UNCHANGED <<row, bytes, upstream, workVars, cooling, sweepVars, gone, robbed>>
  BY DEF FlightLands, FlightFails, Lands, OnRead, assetVars
<1>2. /\ fetch' \in [Readers -> FetchPlaces] /\ fetch'[r] = "idle"
      /\ \A x \in Readers \ {r} : fetch'[x] = fetch[x]
  BY <1>1 DEF AllTyped, FetchOK, FetchPlaces
<1>3. req \in [Readers -> ReqType] /\ row.typed \in BOOLEAN
  BY DEF AllTyped, ReadOK, AssetOK, RowType
<1>4. ASSUME FlightLands(r)
      PROVE  req' = [x \in Readers |-> IF req[x].pc = "riding"
                                       THEN [pc |-> "load", typed |-> row.typed] ELSE req[x]]
  BY <1>4 DEF FlightLands, Lands, ToLoad
<1>5. ASSUME FlightFails(r)
      PROVE  req' = [x \in Readers |-> IF req[x].pc = "riding"
                                       THEN [pc |-> Answer(x, "placeholder"), typed |-> FALSE]
                                       ELSE req[x]]
  BY <1>5 DEF FlightFails, Lands, ToPlaceholder
<1>6. CASE FlightLands(r)
  <2>1. ~FlightFails(r) \/ \A x \in Readers : req[x].pc = "riding" => FALSE
    <3>1. ASSUME FlightFails(r), NEW x \in Readers, req[x].pc = "riding"
          PROVE  FALSE
      <4>1. req'[x].pc = "load"
        BY <1>4, <1>6, <3>1
      <4>2. req'[x].pc \in {"placeholder", "gone"}
        BY <1>5, <3>1, AnswerPlaces
      <4>3. QED BY <4>1, <4>2
    <3>2. QED BY <3>1
  <2>2. req' \in [Readers -> ReqType]
    BY <1>3, <1>4, <1>6 DEF ReqType, ReqPlaces
  <2>3. /\ \A x \in Readers : req[x].pc # "riding" => req'[x] = req[x]
        /\ \A x \in Readers : req[x].pc = "riding" =>
             req'[x].pc = "load" /\ req'[x].typed = row.typed
    BY <1>4, <1>6
  <2>4. QED BY <1>1, <1>2, <2>1, <2>2, <2>3
<1>7. CASE FlightFails(r) /\ ~FlightLands(r)
  <2>1. req' \in [Readers -> ReqType]
    <3>1. \A x \in Readers : [pc |-> Answer(x, "placeholder"), typed |-> FALSE] \in ReqType
      BY AnswerPlaces DEF ReqType
    <3> DEFINE new(x) == [pc |-> Answer(x, "placeholder"), typed |-> FALSE]
    <3>2. \A x \in Readers : new(x) \in ReqType
      BY <3>1
    <3>3. req' = [x \in Readers |-> IF req[x].pc = "riding" THEN new(x) ELSE req[x]]
      BY <1>5, <1>7
    <3> HIDE DEF new
    <3>4. QED BY <1>3, <3>2, <3>3
  <2>2. /\ \A x \in Readers : req[x].pc # "riding" => req'[x] = req[x]
        /\ \A x \in Readers : req[x].pc = "riding" => req'[x].pc \in {"placeholder", "gone"}
    BY <1>5, <1>7, AnswerPlaces
  <2>3. QED BY <1>1, <1>2, <1>7, <2>1, <2>2
<1>8. QED BY <1>6, <1>7

(* Where a request goes on that does not land. *)
LEMMA ReqSteps ==
  ASSUME AllTyped, NEW r \in Readers,
         UnknownHash(r) \/ FindStored(r) \/ FindUnstored(r) \/ Load(r) \/ Refetch(r) \/ Finish(r)
  PROVE  /\ req' \in [Readers -> ReqType]
         /\ \A x \in Readers \ {r} : req'[x] = req[x]
         /\ UnknownHash(r) => req'[r].pc = "placeholder"
         /\ FindStored(r) => req'[r].pc = "load" /\ req'[r].typed = row.typed
         /\ FindUnstored(r) => req'[r].pc = "riding"
         /\ Load(r) => req'[r].pc \in {"bytes", "placeholder", "gone"}
         /\ Refetch(r) => req'[r].pc \in {"bytes", "placeholder", "gone"}
         /\ Finish(r) => req'[r] = NoRequest
<1> USE DEF AllTyped, ReqPlaces
<1>1. req \in [Readers -> ReqType] /\ row.typed \in BOOLEAN /\ ReadOK
  BY DEF ReadOK, AssetOK, RowType
<1>2. CASE UnknownHash(r)
  BY <1>1, <1>2, ReqMoved DEF UnknownHash, FindStored, FindUnstored, Load, Refetch, Finish
<1>3. CASE FindUnstored(r)
  BY <1>1, <1>3, ReqMoved DEF UnknownHash, FindStored, FindUnstored, Load, Refetch, Finish
<1>4. CASE FindStored(r)
  <2> DEFINE new == [pc |-> "load", typed |-> row.typed]
  <2>1. new \in ReqType /\ new.pc = "load" /\ new.typed = row.typed
    BY <1>1 DEF ReqType
  <2>2. req' = [req EXCEPT ![r] = new] /\ req[r].pc = "idle" /\ row.status = "stored"
    BY <1>4 DEF FindStored
  <2> HIDE DEF new
  <2>3. QED
    BY <1>1, <2>1, <2>2 DEF UnknownHash, FindUnstored, Load, Refetch, Finish
<1>5. CASE Load(r) \/ Refetch(r)
  <2>1. PICK pc \in {"bytes", "placeholder", "gone"} : Goes(r, pc)
    BY <1>5, AnswerPlaces DEF Load, Refetch, Answers
  <2>2. req[r].pc = "load"
    BY <1>5 DEF Load, Refetch
  <2>3. QED BY <1>1, <2>1, <2>2, ReqMoved DEF UnknownHash, FindStored, FindUnstored, Finish
<1>6. CASE Finish(r)
  BY <1>1, <1>6 DEF UnknownHash, FindStored, FindUnstored, Load, Refetch, Finish, NoRequest, ReqType
<1>7. QED BY <1>2, <1>3, <1>4, <1>5, <1>6

LEMMA ReadTyped ==
  ASSUME AllTyped, NEW r \in Readers, ReadStep(r) \/ ClientLeaves(r)
  PROVE  AllTyped'
<1>1. UNCHANGED <<workVars, sweepVars, cooling, upstream>>
  BY DEF ReadStep, ClientLeaves, UnknownHash, FindStored, FindUnstored, FlightLands, FlightFails,
         Lands, Load, Refetch, Finish, OnRead
<1>2. AssetOK'
  BY <1>1 DEF ReadStep, ClientLeaves, UnknownHash, FindStored, FindUnstored, FlightLands,
         FlightFails, Lands, Load, Refetch, Finish, assetVars, AllTyped, AssetOK, Stored, Unput
<1>3. FaultOK'
  BY FaultTyped DEF ReadStep, ClientLeaves, UnknownHash, FindStored, FindUnstored, FlightLands,
         FlightFails, Load, Refetch, Finish, AllTyped, FaultOK, Watch, faultVars
<1>4. FetchOK'
  <2>1. CASE FlightLands(r) \/ FlightFails(r)
    BY <1>1, <2>1, Landed DEF FetchOK, AllTyped
  <2>2. CASE FindUnstored(r)
    BY <1>1, <2>2, FetchMoved DEF FindUnstored, FetchOK, AllTyped, FetchPlaces
  <2>3. CASE ~(FlightLands(r) \/ FlightFails(r) \/ FindUnstored(r))
    BY <1>1, <2>3 DEF ReadStep, ClientLeaves, UnknownHash, FindStored, Load, Refetch, Finish,
                  FetchOK, AllTyped
  <2>4. QED BY <2>1, <2>2, <2>3
<1>5. ReadOK'
  <2>1. req' \in [Readers -> ReqType]
    BY Landed, ReqSteps DEF ReadStep, ClientLeaves, AllTyped, ReadOK
  <2>2. flight' \in Readers \cup {None} /\ gone' \subseteq Readers
    BY DEF ReadStep, ClientLeaves, UnknownHash, FindStored, FindUnstored, FlightLands, FlightFails,
           Lands, Load, Refetch, Finish, AllTyped, ReadOK, Asked
  <2>3. QED BY <2>1, <2>2 DEF ReadOK
<1>6. QED BY <1>1, <1>2, <1>3, <1>4, <1>5, Kept DEF AllTyped

LEMMA SweepTyped ==
  ASSUME AllTyped, SweepStep
  PROVE  AllTyped'
<1>1. UNCHANGED <<upstream, workVars, fetchVars, readVars>>
  BY DEF SweepStep, SweepCollects, SweepLooks, SweepDeletesObject, SweepDeletesRow, OnSweep
<1>2. NoSweep \in SweepType /\ Absent \in RowType
  BY DEF NoSweep, SweepType, Absent, RowType, Statuses
<1>3. sweep \in SweepType /\ sweep.typed \in BOOLEAN /\ row.typed \in BOOLEAN
  BY DEF AllTyped, SweepOK, SweepType, AssetOK, RowType
<1>4. SweepOK'
  <2>1. sweep' \in SweepType
    <3>1. ASSUME sweep' = [pc |-> "row", live |-> IF Referenced THEN {Path} ELSE {}, typed |-> FALSE]
          PROVE  sweep' \in SweepType
      BY <3>1 DEF SweepType
    <3>2. ASSUME sweep' = [sweep EXCEPT !.pc = "object", !.typed = row.typed]
          PROVE  sweep' \in SweepType
      BY <1>3, <3>2 DEF SweepType
    <3>3. ASSUME sweep' = [sweep EXCEPT !.pc = "delete"]
          PROVE  sweep' \in SweepType
      BY <1>3, <3>3 DEF SweepType
    <3>4. QED
      BY <1>2, <3>1, <3>2, <3>3
      DEF SweepStep, SweepCollects, SweepLooks, SweepDeletesObject, SweepDeletesRow
  <2>2. sweeps' \in 0 .. MaxSweeps
    BY MediaAssumption DEF SweepStep, SweepCollects, SweepLooks, SweepDeletesObject,
                           SweepDeletesRow, AllTyped, SweepOK
  <2>3. QED BY <2>1, <2>2 DEF SweepOK
<1>5. AssetOK'
  BY <1>1, <1>2, <1>3 DEF SweepStep, SweepCollects, SweepLooks, SweepDeletesObject,
     SweepDeletesRow, AllTyped, AssetOK, assetVars
<1>6. FaultOK'
  BY FaultTyped DEF SweepStep, SweepCollects, SweepLooks, SweepDeletesObject, SweepDeletesRow,
     AllTyped, FaultOK, faultVars
<1>7. QED BY <1>1, <1>4, <1>5, <1>6, Kept DEF AllTyped

LEMMA SurroundingsTyped ==
  ASSUME AllTyped, UpstreamChanges \/ Dies \/ UNCHANGED vars
  PROVE  AllTyped'
<1>1. NoSweep \in SweepType /\ NoRequest \in ReqType
  BY DEF NoSweep, SweepType, NoRequest, ReqType, ReqPlaces
<1>2. CASE UpstreamChanges
  <2>1. AssetOK'
    BY <1>2 DEF UpstreamChanges, AllTyped, AssetOK, assetVars
  <2>2. QED BY <1>2, <2>1, Kept DEF UpstreamChanges, AllTyped
<1>3. CASE Dies
  <2>1. AssetOK'
    BY <1>3 DEF Dies, AllTyped, AssetOK, assetVars
  <2>2. WorkOK'
    <3>1. work' = [w \in Workers |-> "idle"] /\ dedup' = FALSE /\ jobs' = 0
      BY <1>3 DEF Dies
    <3>2. work' \in [Workers -> WorkPlaces] /\ \A w \in Workers : work'[w] = "idle"
      BY <3>1 DEF WorkPlaces
    <3>3. dedup' \in BOOLEAN /\ jobs' \in 0 .. 1
      <4>1. dedup' \in BOOLEAN
        BY <3>1, Zenon
      <4>2. QED BY <3>1, <4>1
    <3>4. OneJob'
      BY <3>1, <3>2 DEF OneJob
    <3>5. QED BY <3>2, <3>3, <3>4 DEF WorkOK
  <2>3. FetchOK'
    BY <1>3 DEF Dies, FetchOK, FetchPlaces
  <2>4. ReadOK'
    BY <1>1, <1>3 DEF Dies, ReadOK
  <2>5. SweepOK' /\ FaultOK'
    BY <1>1, <1>3, MediaAssumption DEF Dies, AllTyped, SweepOK, FaultOK
  <2>6. QED BY <2>1, <2>2, <2>3, <2>4, <2>5 DEF AllTyped
<1>4. CASE UNCHANGED vars
  BY <1>4, Kept DEF vars, AllTyped
<1>5. QED BY <1>2, <1>3, <1>4

LEMMA TypeInv ==
  ASSUME TypeOK, OneJob, [Next]_vars
  PROVE  TypeOK' /\ OneJob'
<1>1. AllTyped
  BY Parts
<1>2. AllTyped'
  <2>1. ASSUME NEW w \in Workers, WorkStep(w)
        PROVE  AllTyped'
    BY <1>1, <2>1, WorkTyped
  <2>2. ASSUME NEW r \in Readers, FetchStep(r)
        PROVE  AllTyped'
    BY <1>1, <2>2, FetchTyped
  <2>3. ASSUME NEW r \in Readers, ReadStep(r) \/ ClientLeaves(r)
        PROVE  AllTyped'
    BY <1>1, <2>3, ReadTyped
  <2>4. ASSUME CooldownOver
        PROVE  AllTyped'
    <3>1. /\ UNCHANGED <<assetVars, upstream, workVars, fetch, readVars, sweepVars, faultVars, robbed>>
          /\ cooling' = FALSE
      BY <2>4 DEF CooldownOver
    <3>2. FetchOK'
      BY <1>1, <3>1 DEF FetchOK, AllTyped
    <3>3. QED BY <1>1, <3>1, <3>2, Kept DEF AllTyped
  <2>5. QED
    BY <1>1, <2>1, <2>2, <2>3, <2>4, ProducersTyped, SweepTyped, SurroundingsTyped DEF Next
<1>3. QED BY <1>2, Parts DEF TypeOK, OneJob, AllTyped, AssetOK, WorkOK, FetchOK, ReadOK, SweepOK,
      FaultOK, RowType, Statuses, WorkPlaces, FetchPlaces, ReqPlaces, ReqType, SweepType

-----------------------------------------------------------------------------
(* The row and its object. *)

(* The object stays, or the sweep is on record as having taken it. *)
LEMMA BackingKept ==
  ASSUME [Next]_vars, bytes \/ robbed
  PROVE  bytes' \/ robbed'
<1>1. ASSUME NEW w \in Workers, WorkStep(w)
      PROVE  bytes' \/ robbed'
  BY <1>1 DEF WorkStep, TakeJob, WorkStat, WorkHit, WorkPending, WorkDownloads, WorkStore,
     WorkFailed, WorkWrites, OnWork, assetVars, Stored, Unput
<1>2. ASSUME NEW r \in Readers, FetchStep(r) \/ ReadStep(r) \/ ClientLeaves(r)
      PROVE  bytes' \/ robbed'
  BY <1>2 DEF FetchStep, FetchStat, FetchHit, FetchGate, FetchDownloads, FetchStore, FetchCut,
     ReadStep, ClientLeaves, UnknownHash, FindStored, FindUnstored, FlightLands, FlightFails,
     Lands, Load, Refetch, Finish, assetVars, Stored, Unput
<1>3. CASE SweepStep
  BY <1>3 DEF SweepStep, SweepCollects, SweepLooks, SweepDeletesObject, SweepDeletesRow, assetVars
<1>4. CASE EnsurePending \/ Enqueue \/ CooldownOver \/ UpstreamChanges \/ Dies \/ UNCHANGED vars
  <2>1. bytes' = bytes /\ robbed' = robbed
    BY <1>4 DEF EnsurePending, Enqueue, CooldownOver, UpstreamChanges, Dies, vars, assetVars
  <2>2. QED BY <2>1
<1>5. QED BY <1>1, <1>2, <1>3, <1>4 DEF Next

(* Nobody calls stored what is not backed. *)
Unbacked ==
  /\ row.status # "stored"
  /\ \A w \in Workers : work[w] \notin {"hit", "store"}
  /\ \A r \in Readers : fetch[r] \notin {"hit", "store"}

LEMMA UnbackedKept ==
  ASSUME AllTyped, Unbacked, [Next]_vars, ~bytes, ~bytes'
  PROVE  Unbacked'
<1>1. ASSUME UNCHANGED <<row, work, fetch>>
      PROVE  Unbacked'
  BY <1>1 DEF Unbacked
<1>2. ASSUME NEW w \in Workers, WorkStep(w)
      PROVE  Unbacked'
  <2>1. fetch' = fetch
    BY <1>2 DEF WorkStep, TakeJob, WorkStat, WorkHit, WorkPending, WorkDownloads, WorkStore,
       WorkFailed, WorkWrites, OnWork, fetchVars
  <2>2. row'.status # "stored"
    BY <1>2, RowTyped
    DEF WorkStep, TakeJob, WorkStat, WorkHit, WorkPending, WorkDownloads, WorkStore,
       WorkFailed, WorkWrites, Done, Works, Unbacked, assetVars, Statuses
  <2>3. \E from, to \in WorkPlaces \ {"hit", "store"} : Works(w, from, to)
    BY <1>2 DEF WorkStep, TakeJob, WorkStat, WorkHit, WorkPending, WorkDownloads, WorkStore,
       WorkFailed, WorkWrites, Done, Works, Unbacked, Stored, WorkPlaces
  <2>4. \A v \in Workers : work'[v] \notin {"hit", "store"}
    BY <2>3, WorkerMoved DEF AllTyped, Unbacked
  <2>5. QED BY <2>1, <2>2, <2>4 DEF Unbacked
<1>3. ASSUME NEW r \in Readers, FetchStep(r)
      PROVE  Unbacked'
  <2>1. work' = work
    BY <1>3 DEF FetchStep, FetchStat, FetchHit, FetchGate, FetchDownloads, FetchStore, FetchCut,
       OnFetch, workVars
  <2>2. row' = row
    BY <1>3 DEF FetchStep, FetchStat, FetchHit, FetchGate, FetchDownloads, FetchStore, FetchCut,
       Fetches, Misses, Unbacked, assetVars
  <2>3. \E from, to \in FetchPlaces \ {"hit", "store"} : Fetches(r, from, to)
    BY <1>3 DEF FetchStep, FetchStat, FetchHit, FetchGate, FetchDownloads, FetchStore, FetchCut,
       Fetches, Misses, Unbacked, Stored, FetchPlaces
  <2>4. \A x \in Readers : fetch'[x] \notin {"hit", "store"}
    BY <2>3, FetchMoved DEF AllTyped, Unbacked
  <2>5. QED BY <2>1, <2>2, <2>4 DEF Unbacked
<1>4. ASSUME NEW r \in Readers, ReadStep(r) \/ ClientLeaves(r)
      PROVE  Unbacked'
  <2>1. work' = work /\ row' = row
    BY <1>4 DEF ReadStep, ClientLeaves, UnknownHash, FindStored, FindUnstored, FlightLands,
       FlightFails, Lands, Load, Refetch, Finish, OnRead, assetVars, workVars
  <2>2. CASE FlightLands(r) \/ FlightFails(r)
    BY <2>1, <2>2, Landed DEF Unbacked
  <2>3. CASE FindUnstored(r)
    <3>1. fetch' = fetch \/ Fetches(r, "idle", "stat")
      BY <2>3 DEF FindUnstored
    <3>2. QED BY <2>1, <3>1, FetchMoved DEF AllTyped, Unbacked, FetchPlaces
  <2>4. CASE ~(FlightLands(r) \/ FlightFails(r) \/ FindUnstored(r))
    BY <1>1, <1>4, <2>1, <2>4 DEF ReadStep, ClientLeaves, UnknownHash, FindStored, Load, Refetch,
       Finish
  <2>5. QED BY <2>2, <2>3, <2>4
<1>5. CASE SweepStep
  <2>1. UNCHANGED <<work, fetch>> /\ (row' = row \/ row' = Absent)
    BY <1>5 DEF SweepStep, SweepCollects, SweepLooks, SweepDeletesObject, SweepDeletesRow, OnSweep,
       assetVars, workVars, fetchVars
  <2>2. QED BY <2>1 DEF Unbacked, Absent
<1>6. CASE EnsurePending
  <2>1. UNCHANGED <<work, fetch>> /\ row'.status = "pending"
    BY <1>6, RowTyped DEF EnsurePending, Statuses, workVars, fetchVars
  <2>2. QED BY <2>1 DEF Unbacked
<1>7. CASE Dies
  BY <1>7 DEF Dies, Unbacked, assetVars
<1>8. CASE Enqueue \/ CooldownOver \/ UpstreamChanges \/ UNCHANGED vars
  BY <1>1, <1>8 DEF Enqueue, CooldownOver, UpstreamChanges, vars, assetVars, workVars, fetchVars
<1>9. QED BY <1>2, <1>3, <1>4, <1>5, <1>6, <1>7, <1>8 DEF Next

LEMMA SeenInv ==
  ASSUME AllTyped, SeenBacked, [Next]_vars
  PROVE  SeenBacked'
<1>1. SeenBacked <=> (bytes \/ robbed \/ Unbacked)
  BY DEF SeenBacked, Unbacked
<1>2. SeenBacked' <=> (bytes' \/ robbed' \/ Unbacked')
  BY DEF SeenBacked, Unbacked
<1>3. QED BY <1>1, <1>2, BackingKept, UnbackedKept

-----------------------------------------------------------------------------
(* Flights. *)

LEMMA FlightsInv ==
  ASSUME AllTyped, Flights, [Next]_vars
  PROVE  Flights'
<1>1. ASSUME UNCHANGED <<fetch, flight, req, gone>>
      PROVE  Flights'
  BY <1>1 DEF Flights
<1>2. ASSUME NEW w \in Workers, WorkStep(w)
      PROVE  Flights'
  BY <1>1, <1>2 DEF WorkStep, TakeJob, WorkStat, WorkHit, WorkPending, WorkDownloads, WorkStore,
     WorkFailed, WorkWrites, OnWork, fetchVars, readVars
<1>3. ASSUME NEW r \in Readers, FetchStep(r)
      PROVE  Flights'
  <2>1. /\ UNCHANGED <<flight, req, gone>>
        /\ \E from, to \in FetchPlaces : from # "idle" /\ Fetches(r, from, to)
    BY <1>3 DEF FetchStep, FetchStat, FetchHit, FetchGate, FetchDownloads, FetchStore, FetchCut,
       Misses, OnFetch, readVars, FetchPlaces
  <2>2. fetch[r] # "idle" /\ \A x \in Readers \ {r} : fetch'[x] = fetch[x]
    BY <2>1, FetchMoved DEF AllTyped
  <2>3. QED BY <2>1, <2>2 DEF Flights
<1>4. ASSUME NEW r \in Readers, FlightLands(r) \/ FlightFails(r)
      PROVE  Flights'
  <2>1. \A x \in Readers : fetch'[x] = "idle"
    BY <1>4, Landed DEF Flights
  <2>2. /\ \A x \in Readers : req'[x].pc \notin {"riding", "idle"} \/ req'[x] = req[x]
        /\ \A x \in Readers : req[x].pc = "riding" => req'[x].pc # "riding"
    BY <1>4, Landed
  <2>3. flight' = None /\ gone' = gone
    BY <1>4, Landed
  <2>4. QED BY <2>1, <2>2, <2>3 DEF Flights, AllTyped, ReadOK
<1>5. ASSUME NEW r \in Readers, FindUnstored(r)
      PROVE  Flights'
  <2>1. /\ req'[r].pc = "riding" /\ req[r].pc = "idle" /\ gone' = gone
        /\ \A x \in Readers \ {r} : req'[x] = req[x]
    BY <1>5, ReqSteps DEF FindUnstored
  <2>2. CASE flight = None
    <3>1. flight' = r /\ \A x \in Readers \ {r} : fetch'[x] = fetch[x]
      BY <1>5, <2>2, FetchMoved DEF FindUnstored, AllTyped, FetchPlaces
    <3>2. QED BY <2>1, <2>2, <3>1, MediaAssumption DEF Flights, AllTyped, ReadOK
  <2>3. CASE flight # None
    <3>1. flight' = flight /\ fetch' = fetch
      BY <1>5, <2>3 DEF FindUnstored
    <3>2. QED BY <2>1, <2>3, <3>1 DEF Flights, AllTyped, ReadOK
  <2>4. QED BY <2>2, <2>3
<1>6. ASSUME NEW r \in Readers,
             UnknownHash(r) \/ FindStored(r) \/ Load(r) \/ Refetch(r) \/ Finish(r)
      PROVE  Flights'
  <2>1. UNCHANGED <<fetch, flight>>
    BY <1>6 DEF UnknownHash, FindStored, Load, Refetch, Finish
  <2>2. /\ req[r].pc # "riding"
        /\ req'[r].pc # "riding"
        /\ \A x \in Readers \ {r} : req'[x] = req[x]
        /\ \/ Finish(r)
           \/ req'[r].pc # "idle" /\ ~Finish(r)
    BY <1>6, ReqSteps DEF UnknownHash, FindStored, Load, Refetch, Finish, NoRequest
  <2>3. /\ gone' \subseteq gone
        /\ Finish(r) => r \notin gone'
    BY <1>6 DEF UnknownHash, FindStored, Load, Refetch, Finish
  <2>4. QED BY <2>1, <2>2, <2>3 DEF Flights, AllTyped, ReadOK
<1>7. ASSUME NEW r \in Readers, ClientLeaves(r)
      PROVE  Flights'
  BY <1>7 DEF ClientLeaves, Flights, Asked
<1>8. CASE Dies
  BY <1>8 DEF Dies, Flights, NoRequest
<1>9. CASE \/ EnsurePending \/ Enqueue \/ CooldownOver \/ SweepStep \/ UpstreamChanges
           \/ UNCHANGED vars
  <2>1. UNCHANGED <<fetch, flight, req, gone>>
    BY <1>9 DEF EnsurePending, Enqueue, CooldownOver, SweepStep, UpstreamChanges, SweepCollects,
       SweepLooks, SweepDeletesObject, SweepDeletesRow, OnSweep, vars, fetchVars, readVars
  <2>2. QED BY <1>1, <2>1
<1>10. QED BY <1>2, <1>3, <1>4, <1>5, <1>6, <1>7, <1>8, <1>9 DEF Next, ReadStep

-----------------------------------------------------------------------------
(* What is owed. *)

LEMMA HeldInv ==
  ASSUME TypedStat, AllTyped, Flights, Owing, [Next]_vars
  PROVE  Held'
<1>1. ASSUME row' = row, bytes' = bytes \/ bytes', owed' \subseteq owed
      PROVE  Held'
  BY <1>1 DEF Owing, Held
<1>2. ASSUME NEW status \in {"pending", "failed"}, Upsert(status, FALSE),
             bytes' = bytes, owed' \subseteq owed
      PROVE  Held'
  BY <1>2, RowTyped DEF Owing, Held, Statuses
<1>3. ASSUME Upsert("stored", TRUE), bytes' = bytes, owed' \subseteq owed
      PROVE  Held'
  BY <1>3, RowTyped DEF Owing, Held, Statuses
<1>4. TypedStat = TRUE
  BY MediaAssumption
<1>5. Fault \/ NoFault => owed' \subseteq owed
  BY DEF Fault, NoFault, faultVars
<1>6. ASSUME NEW w \in Workers, WorkStep(w)
      PROVE  Held'
  <2>1. CASE TakeJob(w) \/ WorkStat(w) \/ WorkDownloads(w)
    BY <1>1, <1>5, <2>1 DEF TakeJob, WorkStat, WorkDownloads, assetVars, faultVars, Stored, Unput
  <2>2. CASE WorkHit(w) \/ WorkStore(w)
    BY <1>1, <1>3, <1>4, <1>5, <2>2 DEF WorkHit, WorkStore, WorkWrites
  <2>3. CASE WorkPending(w) \/ WorkFailed(w)
    BY <1>1, <1>2, <1>5, <2>3 DEF WorkPending, WorkFailed, WorkWrites
  <2>4. QED BY <1>6, <2>1, <2>2, <2>3 DEF WorkStep
<1>7. ASSUME NEW r \in Readers, FetchStep(r)
      PROVE  Held'
  BY <1>1, <1>3, <1>4, <1>5, <1>7 DEF FetchStep, FetchStat, FetchHit, FetchGate, FetchDownloads,
     FetchStore, FetchCut, Fault, faultVars, assetVars, Stored, Unput
<1>8. ASSUME NEW r \in Readers, ReadStep(r) \/ ClientLeaves(r)
      PROVE  Held'
  <2>1. CASE FindStored(r) \/ FindUnstored(r)
    <3>1. /\ row' = row /\ bytes' = bytes /\ row.status # "none"
          /\ owed' \subseteq owed \/ bytes
      BY <2>1 DEF FindStored, FindUnstored, assetVars, Watch
    <3>2. QED BY <3>1 DEF Owing, Held
  <2>2. CASE ~(FindStored(r) \/ FindUnstored(r))
    BY <1>1, <1>5, <1>8, <2>2 DEF ReadStep, ClientLeaves, UnknownHash, FlightLands, FlightFails,
       Lands, Load, Refetch, Finish, assetVars, faultVars, Stored, Unput
  <2>3. QED BY <2>1, <2>2
<1>9. CASE SweepStep
  <2>1. CASE SweepCollects \/ SweepLooks
    BY <1>1, <1>5, <2>1 DEF SweepCollects, SweepLooks, assetVars, faultVars
  <2>2. CASE SweepDeletesObject
    <3>1. row' = row /\ (bytes' = bytes \/ owed' = {}) /\ owed' \subseteq owed
      <4>1. sweep.typed \in BOOLEAN /\ bytes \in BOOLEAN
        BY DEF AllTyped, SweepOK, SweepType, AssetOK
      <4>2. QED BY <2>2, <4>1 DEF SweepDeletesObject, Fault
    <3>2. QED BY <3>1 DEF Owing, Held
  <2>3. CASE SweepDeletesRow
    <3>1. /\ bytes' = bytes
          /\ \/ owed' = {} /\ row' = Absent
             \/ row' = row /\ owed' \subseteq owed
      BY <2>3 DEF SweepDeletesRow, Fault
    <3>2. QED BY <3>1 DEF Owing, Held, Absent
  <2>4. QED BY <1>9, <2>1, <2>2, <2>3 DEF SweepStep
<1>10. CASE EnsurePending
  BY <1>2, <1>10 DEF EnsurePending, faultVars
<1>11. CASE Enqueue \/ CooldownOver \/ UpstreamChanges \/ Dies \/ UNCHANGED vars
  BY <1>1, <1>11 DEF Enqueue, CooldownOver, UpstreamChanges, Dies, vars, assetVars, faultVars
<1>12. QED BY <1>6, <1>7, <1>8, <1>9, <1>10, <1>11 DEF Next

(* Only readers that have their answer are still owed. *)
LEMMA OnlyAnswered ==
  ASSUME AllTyped, Owing, Held', owed' \subseteq owed \ Asked, gone' \subseteq gone \cup Asked,
         \A x \in owed' : req'[x] = req[x]
  PROVE  Owing'
<1>1. ASSUME NEW x \in owed'
      PROVE  req'[x].pc = "bytes" /\ x \notin gone'
  <2>1. x \in owed /\ x \in Readers /\ x \notin Asked /\ OwedWell(x) /\ req'[x] = req[x]
    BY DEF Owing, AllTyped, FaultOK
  <2>2. QED BY <2>1 DEF OwedWell, Asked
<1>2. \A x \in owed' : OwedWell(x)'
  BY <1>1 DEF OwedWell
<1>3. owed' \cap Asked' = {}
  BY <1>1 DEF Asked
<1>4. QED BY <1>2, <1>3 DEF Owing

(* A failing call leaves nothing owed to whoever asks. *)
LEMMA AfterFault ==
  ASSUME AllTyped, Owing, Held', Fault \/ (NoFault /\ owed \cap Asked = {}),
         UNCHANGED <<req, gone>>
  PROVE  Owing'
<1>1. owed' \subseteq owed \ Asked
  BY DEF Fault, NoFault, faultVars
<1>2. QED BY <1>1, OnlyAnswered

(* Somebody asks and is owed: no worker can hide the object, and the one   *)
(* who fetches for it is owed the image too.                               *)
LEMMA Promised ==
  ASSUME Owing, owed \cap Asked # {}
  PROVE  /\ bytes
         /\ row.status # "none"
         /\ row.status = "stored" => row.typed
         /\ \A w \in Workers : work[w] \notin {"pending", "get", "failed"}
BY DEF Owing, Held, Unseeing

LEMMA WorkOwing ==
  ASSUME TypedStat, AllTyped, Owing, Held', NEW w \in Workers, WorkStep(w)
  PROVE  Owing'
<1> USE DEF WorkPlaces
<1>1. UNCHANGED <<req, gone, flight, fetch>>
  BY DEF WorkStep, TakeJob, WorkStat, WorkHit, WorkPending, WorkDownloads, WorkStore, WorkFailed,
     WorkWrites, OnWork, readVars, fetchVars
<1>2. CASE owed \cap Asked = {} \/ Fault
  <2>1. Fault \/ NoFault
    BY DEF WorkStep, TakeJob, WorkStat, WorkHit, WorkPending, WorkDownloads, WorkStore, WorkFailed,
       WorkWrites, NoFault
  <2>2. QED BY <1>1, <1>2, <2>1, AfterFault
<1>3. CASE owed \cap Asked # {} /\ ~Fault
  <2>1. /\ bytes /\ row.status # "none"
        /\ \A v \in Workers : work[v] \notin {"pending", "get", "failed"}
    BY <1>3, Promised
  <2>2. TakeJob(w) \/ WorkStat(w) \/ WorkHit(w) \/ WorkStore(w)
    BY <2>1 DEF WorkStep, WorkPending, WorkDownloads, WorkFailed, WorkWrites, Works, Done
  <2>3. /\ owed' = owed
        /\ row' = row \/ row'.status = "stored"
    BY <1>3, <2>2, RowTyped, MediaAssumption DEF TakeJob, WorkStat, WorkHit, WorkStore, WorkWrites, NoFault,
       faultVars, assetVars, Statuses
  <2>4. \E from, to \in {"idle", "stat", "hit", "store"} : Works(w, from, to)
    BY <1>3, <2>1, <2>2 DEF TakeJob, WorkStat, WorkHit, WorkStore, WorkWrites, Done
  <2>5. \A v \in Workers : work'[v] \notin {"pending", "get", "failed"}
    BY <2>1, <2>4, WorkerMoved DEF AllTyped
  <2>6. \A x \in owed' : OwedWell(x)'
    BY <1>1, <2>3 DEF Owing, OwedWell, RidesWell
  <2>7. QED BY <2>5, <2>6 DEF Owing, Unseeing
<1>4. QED BY <1>2, <1>3

LEMMA FetchOwing ==
  ASSUME TypedStat, AllTyped, Flights, Owing, Held', NEW r \in Readers, FetchStep(r)
  PROVE  Owing'
<1>1. UNCHANGED <<req, gone, flight, work>>
  BY DEF FetchStep, FetchStat, FetchHit, FetchGate, FetchDownloads, FetchStore, FetchCut, OnFetch,
     readVars, workVars
<1>2. CASE owed \cap Asked = {} \/ Fault
  <2>1. Fault \/ NoFault
    BY DEF FetchStep, FetchStat, FetchHit, FetchGate, FetchDownloads, FetchStore, FetchCut, NoFault
  <2>2. QED BY <1>1, <1>2, <2>1, AfterFault
<1>3. CASE owed \cap Asked # {} /\ ~Fault
  <2>1. bytes
    BY <1>3, Promised
  <2>2. owed' = owed
    BY <1>3 DEF FetchStep, FetchStat, FetchHit, FetchGate, FetchDownloads, FetchStore, FetchCut,
       NoFault, faultVars
  <2>3. flight = r
    BY DEF FetchStep, FetchStat, FetchHit, FetchGate, FetchDownloads, FetchStore, FetchCut, Misses,
       Fetches, Flights
  <2>4. ASSUME RidesWell
        PROVE  RidesWell'
    <3>1. r \in owed /\ r \notin gone /\ fetch[r] \in {"stat", "hit", "ok"}
      BY <2>3, <2>4 DEF RidesWell, Owing, OwedWell
    <3>2. \/ FetchStat(r) /\ Fetches(r, "stat", "hit")
          \/ FetchHit(r)
      BY <1>3, <2>1, <3>1 DEF FetchStep, FetchStat, FetchHit, FetchGate, FetchDownloads, FetchStore,
         FetchCut, Misses, Fetches
    <3>3. \/ Fetches(r, "stat", "hit")
          \/ Fetches(r, "hit", "ok") /\ row'.status = "stored"
      BY <1>3, <3>1, <3>2, RowTyped, MediaAssumption DEF FetchHit, Statuses
    <3>4. fetch'[r] = "hit" \/ (fetch'[r] = "ok" /\ row'.status = "stored")
      BY <3>3, FetchMoved DEF AllTyped, FetchPlaces
    <3>5. QED BY <1>1, <2>2, <2>3, <3>1, <3>4 DEF RidesWell
  <2>5. \A x \in owed' : OwedWell(x)'
    BY <1>1, <2>2, <2>4 DEF Owing, OwedWell
  <2>6. Asked' = Asked /\ Unseeing' = Unseeing
    BY <1>1 DEF Asked, Unseeing
  <2>7. QED BY <2>2, <2>5, <2>6 DEF Owing
<1>4. QED BY <1>2, <1>3

(* A request begins: it is owed only what nobody will hide. *)
LEMMA BeginOwing ==
  ASSUME TypedStat, AllTyped, Flights, Owing, Held', NEW r \in Readers,
         FindStored(r) \/ FindUnstored(r)
  PROVE  Owing'
<1>1. /\ req[r].pc = "idle" /\ UNCHANGED <<row, bytes, work, gone>>
      /\ \A x \in Readers \ {r} : req'[x] = req[x]
      /\ Unseeing' = Unseeing
  BY ReqSteps DEF FindStored, FindUnstored, assetVars, OnRead, workVars, Unseeing
<1>2. r \notin owed /\ r \notin gone
  BY <1>1 DEF Owing, OwedWell, Flights
<1>3. owed' = owed \/ (owed' = owed \cup {r} /\ bytes /\ ~Unseeing)
  BY DEF FindStored, FindUnstored, Watch
<1>4. (owed \cap Asked # {} \/ r \in owed') => ~Unseeing
  BY <1>2, <1>3 DEF Owing
<1>5. owed' \cap Asked' # {} => ~Unseeing'
  <2>1. ASSUME NEW x \in owed' \cap Asked', x # r
        PROVE  x \in owed \cap Asked
    BY <1>1, <1>3, <2>1 DEF Asked
  <2>2. QED BY <1>1, <1>4, <2>1
<1>6. ASSUME NEW x \in owed'
      PROVE  OwedWell(x)'
  <2>1. x \in Readers /\ (x \in owed \/ x = r)
    BY <1>3 DEF AllTyped, FaultOK
  <2>2. CASE FindStored(r)
    <3>1. req'[r].pc = "load" /\ req'[r].typed = row.typed /\ row.typed
      BY <2>2, ReqSteps DEF FindStored, Owing, Held
    <3>2. fetch' = fetch /\ flight' = flight /\ owed \subseteq owed'
      BY <1>3, <2>2 DEF FindStored
    <3>3. CASE x = r
      BY <1>1, <1>2, <3>1, <3>3 DEF OwedWell
    <3>4. CASE x # r
      BY <1>1, <2>1, <3>2, <3>4 DEF Owing, OwedWell, RidesWell
    <3>5. QED BY <3>3, <3>4
  <2>3. CASE FindUnstored(r) /\ flight = None
    <3>1. /\ req'[r].pc = "riding" /\ flight' = r /\ fetch'[r] = "stat"
          /\ \A y \in Readers : req[y].pc # "riding"
      BY <2>3, ReqSteps, FetchMoved DEF FindUnstored, Flights, AllTyped, FetchPlaces
    <3>2. CASE x = r
      BY <1>1, <1>2, <3>1, <3>2 DEF OwedWell, RidesWell
    <3>3. CASE x # r
      BY <1>1, <2>1, <3>1, <3>3 DEF Owing, OwedWell
    <3>4. QED BY <3>2, <3>3
  <2>4. CASE FindUnstored(r) /\ flight # None
    <3>1. /\ req'[r].pc = "riding" /\ flight' = flight /\ fetch' = fetch
          /\ owed' = owed \cup {r} => flight \in owed
          /\ owed \subseteq owed'
      BY <1>2, <1>3, <2>4, ReqSteps DEF FindUnstored, Watch
    <3>2. flight \in owed => RidesWell
      BY <2>4 DEF Flights, Owing, OwedWell
    <3>3. RidesWell => RidesWell'
      BY <1>1, <3>1 DEF RidesWell
    <3>4. CASE x = r
      BY <1>1, <1>2, <1>3, <3>1, <3>2, <3>3, <3>4 DEF OwedWell
    <3>5. CASE x # r
      BY <1>1, <2>1, <3>3, <3>5 DEF Owing, OwedWell
    <3>6. QED BY <3>4, <3>5
  <2>5. QED BY <2>2, <2>3, <2>4
<1>7. QED BY <1>5, <1>6 DEF Owing

(* The flight lands: who is owed has a leader that found the object. *)
LEMMA LandOwing ==
  ASSUME TypedStat, AllTyped, Flights, Owing, Held', NEW r \in Readers,
         FlightLands(r) \/ FlightFails(r)
  PROVE  Owing'
<1>1. /\ flight = r /\ UNCHANGED <<row, bytes, work, gone>> /\ Unseeing' = Unseeing
      /\ \A x \in Readers : req[x].pc # "riding" => req'[x] = req[x]
  BY Landed DEF workVars, Unseeing
<1>2. CASE Fault
  <2>1. owed' \subseteq owed \ Asked
    BY <1>2 DEF Fault
  <2>2. \A x \in owed' : req'[x] = req[x]
    BY <1>1, <2>1 DEF Asked, AllTyped, FaultOK
  <2>3. QED BY <1>1, <2>1, <2>2, OnlyAnswered
<1>3. CASE ~Fault
  <2>1. owed' = owed
    BY <1>3 DEF FlightLands, FlightFails, NoFault, faultVars
  <2>2. ASSUME NEW x \in owed, req[x].pc = "riding"
        PROVE  FlightLands(r) /\ row.typed
    <3>1. /\ RidesWell /\ r \in owed /\ r \notin gone /\ row.status # "none"
      BY <1>1, <2>2 DEF Owing, OwedWell, RidesWell, Held
    <3>2. FlightLands(r)
      BY <1>1, <1>3, <3>1 DEF FlightFails, RidesWell
    <3>3. QED BY <1>1, <3>1, <3>2 DEF FlightLands, RidesWell, Owing, Held
  <2>3. ASSUME NEW x \in owed'
        PROVE  /\ OwedWell(x)'
               /\ x \in Asked' => x \in Asked
    <3>1. x \in owed /\ x \in Readers /\ OwedWell(x)
      BY <2>1 DEF AllTyped, FaultOK, Owing
    <3>2. CASE req[x].pc = "riding"
      <4>1. req'[x].pc = "load" /\ req'[x].typed
        BY <2>2, <3>1, <3>2, Landed
      <4>2. QED BY <1>1, <3>1, <3>2, <4>1 DEF OwedWell, Asked
    <3>3. CASE req[x].pc # "riding"
      BY <1>1, <3>1, <3>3 DEF OwedWell, Asked
    <3>4. QED BY <3>2, <3>3
  <2>4. owed' \cap Asked' # {} => ~Unseeing'
    BY <1>1, <2>1, <2>3 DEF Owing
  <2>5. QED BY <2>3, <2>4 DEF Owing
<1>4. QED BY <1>2, <1>3

(* A request that neither waits nor begins moves on: it is no longer owed, *)
(* or has the image.                                                       *)
LEMMA AnswerOwing ==
  ASSUME TypedStat, AllTyped, Flights, Owing, Held', NEW r \in Readers,
         UnknownHash(r) \/ Load(r) \/ Refetch(r) \/ Finish(r)
  PROVE  Owing'
<1>1. /\ UNCHANGED <<row, work, flight, fetch>> /\ Unseeing' = Unseeing
      /\ \A x \in Readers \ {r} : req'[x] = req[x]
      /\ gone' \subseteq gone
  BY ReqSteps DEF UnknownHash, Load, Refetch, Finish, OnRead, assetVars, workVars, Unseeing
<1>2. CASE Fault /\ ~Finish(r) /\ ~UnknownHash(r)
  <2>1. owed' \subseteq owed \ Asked /\ r \in Asked
    BY <1>2 DEF Fault, Load, Refetch, Asked
  <2>2. \A x \in owed' : req'[x] = req[x]
    BY <1>1, <2>1 DEF AllTyped, FaultOK
  <2>3. QED BY <1>1, <2>1, <2>2, OnlyAnswered
<1>3. CASE ~Fault \/ Finish(r) \/ UnknownHash(r)
  <2>1. owed' = owed \/ owed' = owed \ {r}
    BY <1>3 DEF UnknownHash, Load, Refetch, Finish, NoFault, faultVars
  <2>2. r \in owed' => req'[r].pc = "bytes"
    <3>1. ASSUME r \in owed'
          PROVE  OwedWell(r) /\ bytes /\ ~Finish(r) /\ ~UnknownHash(r)
      <4>1. r \in owed /\ OwedWell(r) /\ bytes
        BY <2>1, <3>1 DEF Owing, Held
      <4>2. QED BY <3>1, <4>1 DEF OwedWell, UnknownHash, Finish
    <3>2. ASSUME r \in owed'
          PROVE  req[r].pc = "load" /\ req[r].typed /\ bytes /\ r \notin gone
      BY <3>1, <3>2 DEF OwedWell, Load, Refetch
    <3>3. ASSUME r \in owed'
          PROVE  Goes(r, "bytes")
      BY <1>3, <3>1, <3>2, <3>3 DEF Load, Refetch, Answers, Answer
    <3>4. QED BY <3>3, ReqMoved DEF AllTyped, ReqPlaces
  <2>3. ASSUME NEW x \in owed'
        PROVE  /\ OwedWell(x)'
               /\ x \in Asked' => x \in owed \cap Asked
    <3>1. x \in owed /\ x \in Readers /\ OwedWell(x)
      BY <2>1 DEF AllTyped, FaultOK, Owing
    <3>2. CASE x = r
      BY <1>1, <2>2, <3>1, <3>2 DEF OwedWell, Asked
    <3>3. CASE x # r
      <4>1. RidesWell => RidesWell' \/ flight = r
        BY <1>1, <2>1 DEF RidesWell
      <4>2. req[x].pc = "riding" => flight # r
        <5>1. req[r].pc # "riding"
          BY DEF UnknownHash, Load, Refetch, Finish
        <5>2. QED BY <3>1, <5>1 DEF Flights
      <4>3. QED BY <1>1, <3>1, <3>3, <4>1, <4>2 DEF OwedWell, Asked
    <3>4. QED BY <3>2, <3>3
  <2>4. owed' \cap Asked' # {} => ~Unseeing'
    BY <1>1, <2>3 DEF Owing
  <2>5. QED BY <2>3, <2>4 DEF Owing
<1>4. QED BY <1>2, <1>3

LEMMA OwingInv ==
  ASSUME TypedStat, AllTyped, Flights, Owing, [Next]_vars
  PROVE  Owing'
<1>1. Held'
  BY HeldInv
<1>2. ASSUME UNCHANGED <<row, work, flight, fetch, req, gone, owed>>
      PROVE  Owing'
  BY <1>1, <1>2 DEF Owing, OwedWell, RidesWell, Asked, Unseeing
<1>3. ASSUME owed' = {}
      PROVE  Owing'
  BY <1>1, <1>3 DEF Owing
<1>4. ASSUME Fault, UNCHANGED req, gone' \subseteq gone \cup Asked
      PROVE  Owing'
  BY <1>1, <1>4, OnlyAnswered DEF Fault
<1>5. ASSUME NEW w \in Workers, WorkStep(w)
      PROVE  Owing'
  BY <1>1, <1>5, WorkOwing
<1>6. ASSUME NEW r \in Readers, FetchStep(r)
      PROVE  Owing'
  BY <1>1, <1>6, FetchOwing
<1>7. ASSUME NEW r \in Readers, ReadStep(r)
      PROVE  Owing'
  BY <1>1, <1>7, BeginOwing, LandOwing, AnswerOwing DEF ReadStep
<1>8. ASSUME NEW r \in Readers, ClientLeaves(r)
      PROVE  Owing'
  BY <1>4, <1>8 DEF ClientLeaves
<1>9. CASE SweepStep
  <2>1. UNCHANGED <<work, flight, fetch, req, gone>>
    BY <1>9 DEF SweepStep, SweepCollects, SweepLooks, SweepDeletesObject, SweepDeletesRow, OnSweep,
       workVars, fetchVars, readVars
  <2>2. (row' = row /\ owed' = owed) \/ owed' = {} \/ Fault
    BY <1>9 DEF SweepStep, SweepCollects, SweepLooks, SweepDeletesObject, SweepDeletesRow,
       assetVars, faultVars
  <2>3. QED BY <1>2, <1>3, <1>4, <2>1, <2>2
<1>10. CASE EnsurePending
  <2>1. owed' = owed /\ row.status = "none"
    BY <1>10 DEF EnsurePending, faultVars
  <2>2. QED BY <1>3, <2>1 DEF Owing, Held
<1>11. CASE Dies
  BY <1>3, <1>11 DEF Dies
<1>12. CASE Enqueue \/ CooldownOver \/ UpstreamChanges \/ UNCHANGED vars
  <2>1. UNCHANGED <<row, work, flight, req, gone, owed>> /\ fetch' = fetch
    BY <1>12 DEF Enqueue, CooldownOver, UpstreamChanges, vars, assetVars, workVars, fetchVars,
       readVars, faultVars
  <2>2. QED BY <1>2, <2>1
<1>13. QED BY <1>5, <1>6, <1>7, <1>8, <1>9, <1>10, <1>11, <1>12 DEF Next

-----------------------------------------------------------------------------
(* The theorems. *)

LEMMA InitInv == Init => IInv
<1> SUFFICES ASSUME Init PROVE IInv
  OBVIOUS
<1>1. TypeOK
  <2>1. row \in RowType /\ NoRequest \in ReqType /\ sweep \in SweepType
    BY DEF Init, Absent, NoRequest, NoSweep, RowType, ReqType, SweepType, Statuses, ReqPlaces
  <2>2. /\ bytes \in BOOLEAN /\ upstream \in BOOLEAN /\ cooling \in BOOLEAN /\ dedup \in BOOLEAN
        /\ robbed \in BOOLEAN
    BY Zenon DEF Init
  <2>3. jobs \in 0 .. 1 /\ faults \in 0 .. MaxFaults /\ sweeps \in 0 .. MaxSweeps
    BY MediaAssumption DEF Init
  <2>4. /\ work \in [Workers -> WorkPlaces] /\ fetch \in [Readers -> FetchPlaces]
        /\ req \in [Readers -> ReqType] /\ flight \in Readers \cup {None}
        /\ gone \subseteq Readers /\ owed \subseteq Readers
    BY <2>1 DEF Init, WorkPlaces, FetchPlaces
  <2>5. QED
    BY <2>1, <2>2, <2>3, <2>4 DEF TypeOK, RowType, ReqType, SweepType, Statuses, ReqPlaces,
       WorkPlaces, FetchPlaces
<1>2. OneJob /\ SeenBacked
  BY DEF Init, OneJob, SeenBacked, Absent
<1>3. Flights /\ Owing
  BY DEF Init, Flights, Owing, Held, Asked, Absent, NoRequest
<1>4. QED BY <1>1, <1>2, <1>3 DEF IInv

(* The inductive invariant: one job of the hash at a time, nobody about to  *)
(* call the row stored without having seen or put the object, one reader    *)
(* that fetches for all, and, where a Stat knows the type, what must be     *)
(* true of an image for a reader to be owed it.                             *)
THEOREM Invariance == Spec => []IInv
<1>1. ASSUME IInv, [Next]_vars
      PROVE  IInv'
  <2>1. AllTyped
    BY <1>1, Parts DEF IInv
  <2>2. (TypeOK /\ OneJob)'
    BY <1>1, TypeInv DEF IInv
  <2>3. SeenBacked'
    BY <1>1, <2>1, SeenInv DEF IInv
  <2>4. Flights'
    BY <1>1, <2>1, FlightsInv DEF IInv
  <2>5. TypedStat => Owing'
    BY <1>1, <2>1, OwingInv DEF IInv
  <2>6. QED BY <2>2, <2>3, <2>4, <2>5 DEF IInv
<1>2. QED BY <1>1, InitInv, PTL DEF Spec

(* The state keeps its types for any number of workers and readers: the     *)
(* dedup set admits one job of the image, in the channel or at a worker     *)
(* (Enqueuer.Enqueue, Downloader.handle).                                   *)
THEOREM TypeCorrect == Spec => []TypeOK
<1>1. IInv => TypeOK
  BY DEF IInv
<1>2. QED BY <1>1, Invariance, PTL

(* However many workers, readers and sweeps interleave, and whatever fails: *)
(* a row that says stored has its object, unless the sweep took it from     *)
(* under a writer that had seen it.                                         *)
THEOREM StoredIsBacked == Spec => []StoredBacked
<1>1. IInv => StoredBacked
  BY DEF IInv, SeenBacked, StoredBacked
<1>2. QED BY <1>1, Invariance, PTL

(* Over a store whose Stat knows the content type, as S3 does, a reader     *)
(* whose image is there when it asks is not shown a placeholder, but for a  *)
(* call that failed meanwhile, its leaving, or a worker that had missed the *)
(* image (MediaHandler.Serve, FetchSync).  Over the file store this is      *)
(* false, as a run shows.                                                   *)
THEOREM HeldImagesServed == TypedStat => (Spec => []HeldIsServed)
<1> SUFFICES ASSUME TypedStat PROVE Spec => []HeldIsServed
  OBVIOUS
<1>1. IInv => HeldIsServed
  BY DEF IInv, Owing, OwedWell, HeldIsServed
<1>2. QED BY <1>1, Invariance, PTL
=============================================================================
