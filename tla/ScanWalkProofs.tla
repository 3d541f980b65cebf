---------------------------- MODULE ScanWalkProofs ----------------------------
(***************************************************************************)
(* Proofs about ScanWalk for any library, callers, releases and limits:    *)
(* what one scan may do to Sonarr, that its counters are those of its      *)
(* records, and that cooldowns are respected by callers that do not wait   *)
(* for each other.                                                         *)
(***************************************************************************)
EXTENDS ScanWalk, SequenceTheorems, TLAPS

ExecType == [pc : {"idle", "looking", "posting", "backoff", "storing", "failing", "returned"},
             release : Releases \cup {NoRelease}, attempt : 0 .. MaxAttempts,
             outcome : {"none", "ok", "failed", "unauthorized"}]
TallyType == [scanned : 0 .. MaxSeries, grabs : 0 .. MaxGrabs, fails : Nat,
              streak : 0 .. StreakLimit - 1]
RowType == [status : {"none", "running", "completed", "cancelled", "failed", "aborted"},
            scanned : Nat, grabs : Nat, fails : Nat]

Grabbing == {"posting", "backoff", "storing", "failing", "returned"}

(* A grab that is on has a release and an attempt, and a backoff is only    *)
(* slept when another attempt is left.                                      *)
GrabsFormed ==
  \A x \in Callers :
    /\ exec[x].pc \in Grabbing => exec[x].release \in Releases /\ exec[x].attempt >= 1
    /\ exec[x].pc = "backoff" => exec[x].attempt < MaxAttempts

(* The walk waits for the grab it began, and looks only inside a series.    *)
WalkerPlaced ==
  /\ pc = "grabbing" <=> exec[Walker].pc \in Grabbing
  /\ pc = "season" <=> exec[Walker].pc = "looking"
  /\ pc = "grabbing" => /\ left # <<>> /\ tally.grabs < MaxGrabs
                        /\ SeasonOf[exec[Walker].release] = Head(left)
  /\ pc = "listing" => tally = NoTally
  /\ pc # "idle" => row.status = "running"

(* Attempts of a grab whose answer may have been lost, and a record of it   *)
(* that is not yet in the tally.                                            *)
Spent(e) ==
  IF e.pc = "posting" THEN e.attempt - 1 ELSE IF e.pc \in Grabbing THEN e.attempt ELSE 0
Fresh(e) == IF e.pc = "returned" /\ e.outcome = "ok" THEN 1 ELSE 0

(* The tally of a scan accounts for its records and for what Sonarr took.   *)
TallyExact ==
  pc # "idle" =>
    /\ stored[Walker] = tally.grabs + Fresh(exec[Walker])
    /\ taken[Walker] <= MaxAttempts * (tally.grabs + tally.fails) + Spent(exec[Walker])

(* Failures come in streaks shorter than the limit, one after each grab.    *)
Short(t) ==
  /\ t.fails <= (StreakLimit - 1) * t.grabs + t.streak
  /\ t.grabs = MaxGrabs => t.streak = 0
StreaksShort == Short(tally)

(* A caller that may still post has seen the cooldowns of its release, or   *)
(* they were written since.                                                 *)
Seen(x) ==
  exec[x].pc \in {"posting", "backoff"} =>
    LET r == exec[x].release IN
    /\ SeasonOf[r] \in cooled => SeasonOf[r] \in stale[x]
    /\ r \in barred => r \in stale[x]

(* So has the walk of the seasons it has before it; a series lists a season *)
(* once, so a grab of the walk cools none of those.                         *)
SeasonsSeen ==
  /\ \A n \in DOMAIN ahead : Once(ahead[n])
  /\ Once(left)
  /\ \A i \in DOMAIN left :
       pc = "season" \/ (pc = "grabbing" /\ i # 1) =>
         (left[i] \in cooled => left[i] \in snapshot \cup stale[Walker])

IInv ==
  /\ TypeOK /\ GrabsFormed /\ WalkerPlaced
  /\ TallyExact /\ CountersAgree
  /\ StreaksShort /\ ScanBounded
  /\ \A x \in Callers : Seen(x)
  /\ SeasonsSeen

-----------------------------------------------------------------------------
(* Products and sequences. *)

LEMMA Times ==
  /\ \A k, n \in Nat : k * n \in Nat /\ k * (n + 1) = k * n + k
  /\ \A k, m, n \in Nat : m <= n => k * m <= k * n
  /\ \A k \in Nat : k * 0 = 0
<1>1. \A k, n \in Nat : k * n \in Nat /\ k * (n + 1) = k * n + k
  OBVIOUS
<1>2. ASSUME NEW k \in Nat, NEW m \in Nat, NEW n \in Nat, m <= n
      PROVE  k * m <= k * n
  <2>1. n - m \in Nat
    BY <1>2
  <2>2. k * (n - m) \in Nat
    BY <2>1, <1>1
  <2>3. k * (n - m) = k * n - k * m
    OBVIOUS
  <2>4. k * m \in Nat /\ k * n \in Nat
    BY <1>1
  <2>5. QED BY <2>2, <2>3, <2>4
<1>3. \A k \in Nat : k * 0 = 0
  OBVIOUS
<1>4. QED BY <1>1, <1>2, <1>3

LEMMA TailOf ==
  ASSUME NEW S, NEW s \in Seq(S), s # <<>>
  PROVE  /\ Tail(s) \in Seq(S) /\ Head(s) \in S /\ Head(s) = s[1]
         /\ DOMAIN s = 1 .. Len(s) /\ 1 \in DOMAIN s
         /\ \A i \in DOMAIN Tail(s) : i + 1 \in DOMAIN s /\ Tail(s)[i] = s[i + 1] /\ i + 1 # 1
OBVIOUS

LEMMA TailOnce ==
  ASSUME NEW S, NEW s \in Seq(S), s # <<>>, Once(s)
  PROVE  Once(Tail(s))
<1>1. ASSUME NEW i \in DOMAIN Tail(s), NEW j \in DOMAIN Tail(s), Tail(s)[i] = Tail(s)[j]
      PROVE  i = j
  <2>1. /\ i + 1 \in DOMAIN s /\ Tail(s)[i] = s[i + 1]
        /\ j + 1 \in DOMAIN s /\ Tail(s)[j] = s[j + 1]
    BY TailOf
  <2>2. i + 1 = j + 1
    BY <1>1, <2>1 DEF Once
  <2>3. i \in Nat /\ j \in Nat
    OBVIOUS
  <2>4. QED BY <2>2, <2>3
<1>2. QED BY <1>1 DEF Once

-----------------------------------------------------------------------------
(* Grabs. *)

(* A step of the grab of x stores m records and may have Sonarr take n      *)
(* releases, each of which an attempt pays for.                             *)
Gains(x, f, n) == f' = [f EXCEPT ![x] = @ + n]
Does(x, new, m, n) ==
  /\ exec' = [exec EXCEPT ![x] = new]
  /\ exec[x].pc \in Grabbing \ {"returned"} /\ new.pc \in Grabbing
  /\ new.release = exec[x].release /\ new.attempt >= 1
  /\ new.pc = "backoff" => new.attempt < MaxAttempts
  /\ new.pc \in {"posting", "backoff"} => exec[x].pc \in {"posting", "backoff"}
  /\ Gains(x, stored, m) /\ m = Fresh(new)
  /\ Gains(x, taken, n) /\ n + Spent(exec[x]) <= Spent(new)

LEMMA GrabMoves ==
  ASSUME IInv, NEW x \in Callers, GrabStep(x)
  PROVE  \E new \in ExecType : \E m, n \in {0, 1} : Does(x, new, m, n)
<1> DEFINE e == exec[x]
<1>1. e \in ExecType /\ e.attempt \in 0 .. MaxAttempts
  BY DEF IInv, TypeOK, GrabTypeOK, ExecType
<1>2. /\ stored \in [Callers -> Nat] /\ taken \in [Callers -> Nat]
  BY DEF IInv, TypeOK, GrabTypeOK
<1>3. /\ stored' = stored => Gains(x, stored, 0)
      /\ taken' = taken => Gains(x, taken, 0)
      /\ Taken(x) => Gains(x, taken, 1)
  BY <1>2 DEF Gains, Taken
<1>4. MaxAttempts \in Nat
  BY GrabUseAssumption
<1>5. e.pc \in Grabbing => e.attempt >= 1
  BY DEF IInv, GrabsFormed
<1> USE DEF Does, At, Spent, Fresh, Grabbing
<1>7. CASE PostOK(x)
  <2> DEFINE new == [e EXCEPT !.pc = "storing"]
  <2>1. new \in ExecType /\ new.pc = "storing" /\ new.release = e.release /\ new.attempt = e.attempt
    BY <1>1 DEF ExecType
  <2>2. exec' = [exec EXCEPT ![x] = new]
    BY <1>7 DEF PostOK, Goes
  <2> HIDE DEF new
  <2>3. Does(x, new, 0, 1)
    BY <1>1, <1>3, <1>4, <1>5, <1>7, <2>1, <2>2 DEF PostOK
  <2>4. QED BY <2>1, <2>3
<1>8. CASE PostTransient(x) \/ PostFails(x)
  <2>1. PICK to \in {"backoff", "failing"} :
          Goes(x, to) /\ (to = "backoff" => MayRetry(x))
    BY <1>8 DEF PostTransient, PostFails
  <2> DEFINE new == [e EXCEPT !.pc = to]
  <2>2. new \in ExecType /\ new.pc = to /\ new.release = e.release /\ new.attempt = e.attempt
    BY <1>1 DEF ExecType
  <2>3. exec' = [exec EXCEPT ![x] = new]
    BY <2>1 DEF Goes
  <2> HIDE DEF new
  <2>4. PICK n \in {0, 1} : Gains(x, taken, n)
    BY <1>3, <1>8 DEF PostTransient, PostFails
  <2>5. e.pc = "posting" /\ stored' = stored
    BY <1>8 DEF PostTransient, PostFails
  <2>6. Does(x, new, 0, n)
    BY <1>1, <1>3, <1>4, <1>5, <2>1, <2>2, <2>3, <2>4, <2>5 DEF MayRetry
  <2>7. QED BY <2>2, <2>6
<1>9. CASE PostUnauthorized(x)
  <2> DEFINE new == [e EXCEPT !.pc = "failing", !.outcome = "unauthorized"]
  <2>1. new \in ExecType /\ new.pc = "failing" /\ new.release = e.release /\ new.attempt = e.attempt
    BY <1>1 DEF ExecType
  <2>2. exec' = [exec EXCEPT ![x] = new]
    BY <1>9 DEF PostUnauthorized
  <2> HIDE DEF new
  <2>3. e.pc = "posting" /\ UNCHANGED countVars
    BY <1>9 DEF PostUnauthorized
  <2>4. Does(x, new, 0, 0)
    BY <1>1, <1>3, <1>4, <1>5, <2>1, <2>2, <2>3 DEF countVars
  <2>5. QED BY <2>1, <2>4
<1>10. CASE Retry(x)
  <2>1. e.attempt + 1 \in 0 .. MaxAttempts
    BY <1>1, <1>4, <1>10 DEF Retry, IInv, GrabsFormed
  <2> DEFINE new == [e EXCEPT !.pc = "posting", !.attempt = @ + 1]
  <2>2. new \in ExecType /\ new.pc = "posting" /\ new.release = e.release /\ new.attempt = e.attempt + 1
    BY <1>1, <2>1 DEF ExecType
  <2>3. exec' = [exec EXCEPT ![x] = new]
    BY <1>10 DEF Retry
  <2> HIDE DEF new
  <2>4. e.pc = "backoff" /\ UNCHANGED countVars
    BY <1>10 DEF Retry
  <2>5. 0 + Spent(e) <= Spent(new)
    BY <1>1, <1>4, <2>2, <2>4
  <2>6. Does(x, new, 0, 0)
    BY <1>1, <1>3, <1>4, <2>2, <2>3, <2>4, <2>5 DEF countVars
  <2>7. QED BY <2>2, <2>6
<1>11. CASE BackoffCut(x)
  <2> DEFINE new == [e EXCEPT !.pc = "failing"]
  <2>1. new \in ExecType /\ new.pc = "failing" /\ new.release = e.release /\ new.attempt = e.attempt
    BY <1>1 DEF ExecType
  <2>2. exec' = [exec EXCEPT ![x] = new]
    BY <1>11 DEF BackoffCut, Goes
  <2> HIDE DEF new
  <2>3. Does(x, new, 0, 0)
    BY <1>1, <1>3, <1>4, <1>5, <1>11, <2>1, <2>2 DEF BackoffCut, countVars
  <2>4. QED BY <2>1, <2>3
<1>12. CASE StoreSuccess(x)
  <2> DEFINE new == [e EXCEPT !.pc = "returned", !.outcome = "ok"]
  <2>1. new \in ExecType /\ new.pc = "returned" /\ new.outcome = "ok" /\ new.release = e.release
        /\ new.attempt = e.attempt
    BY <1>1 DEF ExecType
  <2>2. exec' = [exec EXCEPT ![x] = new] /\ Gains(x, stored, 1)
    BY <1>12 DEF StoreSuccess, Returns, Gains
  <2> HIDE DEF new
  <2>3. Does(x, new, 1, 0)
    BY <1>1, <1>3, <1>4, <1>5, <1>12, <2>1, <2>2 DEF StoreSuccess
  <2>4. QED BY <2>1, <2>3
<1>13. CASE StoreFails(x) \/ Bar(x)
  <2>1. FailedOutcome(x) \in {"failed", "unauthorized"}
    BY DEF FailedOutcome
  <2>2. PICK how \in {"failed", "unauthorized"} : Returns(x, how)
    BY <1>13, <2>1 DEF StoreFails, Bar
  <2> DEFINE new == [e EXCEPT !.pc = "returned", !.outcome = how]
  <2>3. new \in ExecType /\ new.pc = "returned" /\ new.outcome = how /\ new.release = e.release
        /\ new.attempt = e.attempt
    BY <1>1 DEF ExecType
  <2>4. exec' = [exec EXCEPT ![x] = new]
    BY <2>2 DEF Returns
  <2> HIDE DEF new
  <2>5. e.pc \in {"storing", "failing"} /\ UNCHANGED countVars
    BY <1>13 DEF StoreFails, Bar
  <2>6. Does(x, new, 0, 0)
    BY <1>1, <1>3, <1>4, <1>5, <2>3, <2>4, <2>5 DEF countVars
  <2>7. QED BY <2>3, <2>6
<1>14. QED
  BY <1>7, <1>8, <1>9, <1>10, <1>11, <1>12, <1>13 DEF GrabStep

(* A step of a grab leaves the cooldowns alone, or ends the grab and cools  *)
(* its season or its release, which all who have looked then find stale.    *)
LEMMA GrabCools ==
  ASSUME IInv, NEW x \in Callers, GrabStep(x)
  PROVE  /\ cooled' \subseteq Seasons /\ barred' \subseteq Releases /\ open' \subseteq Releases
         /\ stale' \in [Callers -> SUBSET (Seasons \cup Releases)] /\ UNCHANGED dead
         /\ \/ UNCHANGED <<cooled, barred, stale>>
            \/ /\ exec'[x].pc = "returned"
               /\ \E k \in {SeasonOf[exec[x].release], exec[x].release} :
                    /\ Written(x, k)
                    /\ cooled' \subseteq cooled \cup {k} /\ barred' \subseteq barred \cup {k}
                    /\ k = exec[x].release => cooled' = cooled
<1>1. /\ exec \in [Callers -> ExecType]
      /\ cooled \subseteq Seasons /\ barred \subseteq Releases /\ open \subseteq Releases
      /\ stale \in [Callers -> SUBSET (Seasons \cup Releases)]
  BY DEF IInv, TypeOK, GrabTypeOK, ExecType
<1>2. SeasonOf \in [Releases -> Seasons] /\ Seasons \cap Releases = {}
  BY GrabUseAssumption
<1>3. CASE PostOK(x) \/ PostTransient(x) \/ PostUnauthorized(x) \/ PostFails(x)
           \/ Retry(x) \/ BackoffCut(x) \/ StoreFails(x)
  <2>1. UNCHANGED <<dead, cooldownVars, stale>>
    BY <1>3 DEF PostOK, PostTransient, PostUnauthorized, PostFails, Retry, BackoffCut, StoreFails,
                cooldownVars
  <2>2. QED BY <1>1, <2>1 DEF cooldownVars
<1>4. ASSUME NEW k \in Seasons \cup Releases, Written(x, k)
      PROVE  stale' \in [Callers -> SUBSET (Seasons \cup Releases)]
  <2>1. stale' = [y \in Callers |-> IF y = x \/ At(y, "idle") THEN stale[y] ELSE stale[y] \cup {k}]
    BY <1>4 DEF Written
  <2>2. \A y \in Callers : stale[y] \in SUBSET (Seasons \cup Releases)
    BY <1>1
  <2>3. QED BY <1>4, <2>1, <2>2
<1>5. CASE StoreSuccess(x)
  <2> DEFINE r == exec[x].release
             k == SeasonOf[r]
  <2>1. r \in Releases
    BY <1>5 DEF StoreSuccess, At, IInv, GrabsFormed, Grabbing
  <2>2. k \in Seasons /\ k # r
    BY <1>2, <2>1
  <2>3. /\ open' = open \cup {r} /\ cooled' = cooled \cup {k} /\ barred' = barred
        /\ Written(x, k) /\ UNCHANGED dead
        /\ exec' = [exec EXCEPT ![x] = [exec[x] EXCEPT !.pc = "returned", !.outcome = "ok"]]
    BY <1>5 DEF StoreSuccess, Returns
  <2>4. exec'[x].pc = "returned"
    BY <1>1, <2>3 DEF ExecType
  <2>5. stale' \in [Callers -> SUBSET (Seasons \cup Releases)]
    BY <1>4, <2>2, <2>3
  <2>6. QED BY <1>1, <2>1, <2>2, <2>3, <2>4, <2>5
<1>6. CASE Bar(x)
  <2> DEFINE r == exec[x].release
  <2>1. r \in Releases
    BY <1>6 DEF Bar, At, IInv, GrabsFormed, Grabbing
  <2>2. UNCHANGED <<dead, cooled, open>>
    BY <1>6 DEF Bar
  <2>3. exec' = [exec EXCEPT ![x] = [exec[x] EXCEPT !.pc = "returned", !.outcome = FailedOutcome(x)]]
    BY <1>6 DEF Bar, Returns
  <2>4. exec'[x].pc = "returned"
    BY <1>1, <2>3 DEF ExecType
  <2>5. CASE UNCHANGED <<barred, stale>>
    BY <1>1, <2>2, <2>5
  <2>6. CASE barred' = barred \cup {r} /\ Written(x, r)
    <3>1. stale' \in [Callers -> SUBSET (Seasons \cup Releases)]
      BY <1>4, <2>1, <2>6
    <3>2. QED BY <1>1, <2>1, <2>2, <2>4, <2>6, <3>1
  <2>7. QED BY <1>6, <2>5, <2>6 DEF Bar
<1>7. QED BY <1>3, <1>5, <1>6 DEF GrabStep

(* Nobody posts under a cooldown he could have seen.                        *)
LEMMA GrabSeen ==
  ASSUME IInv, NEW x \in Callers, GrabStep(x), UNCHANGED walkVars
  PROVE  (\A y \in Callers : Seen(y)') /\ SeasonsSeen'
<1>1. PICK new \in ExecType, m \in {0, 1}, n \in {0, 1} : Does(x, new, m, n)
  BY GrabMoves
<1>2. /\ exec'[x] = new /\ \A y \in Callers \ {x} : exec'[y] = exec[y]
      /\ new.release = exec[x].release
      /\ new.pc \in {"posting", "backoff"} => exec[x].pc \in {"posting", "backoff"}
      /\ exec[x].pc \in Grabbing
  BY <1>1 DEF Does, IInv, TypeOK, GrabTypeOK
<1>3. /\ pc' = pc /\ ahead' = ahead /\ left' = left /\ snapshot' = snapshot
  BY DEF walkVars
<1>4. CASE UNCHANGED <<cooled, barred, stale>>
  <2>1. ASSUME NEW y \in Callers PROVE Seen(y)'
    BY <1>2, <1>4 DEF IInv, Seen
  <2>2. SeasonsSeen'
    BY <1>3, <1>4 DEF IInv, SeasonsSeen
  <2>3. QED BY <2>1, <2>2
<1>5. ASSUME exec'[x].pc = "returned",
             NEW k \in {SeasonOf[exec[x].release], exec[x].release},
             Written(x, k), cooled' \subseteq cooled \cup {k}, barred' \subseteq barred \cup {k},
             k = exec[x].release => cooled' = cooled
      PROVE  (\A y \in Callers : Seen(y)') /\ SeasonsSeen'
  <2>1. /\ stale'[x] = stale[x]
        /\ \A y \in Callers \ {x} : exec[y].pc # "idle" => stale'[y] = stale[y] \cup {k}
    BY <1>5 DEF Written, At
  <2>2. ASSUME NEW y \in Callers PROVE Seen(y)'
    <3>1. CASE y = x
      BY <1>5, <3>1 DEF Seen
    <3>2. CASE y # x
      BY <1>2, <1>5, <2>1, <3>2 DEF IInv, Seen
    <3>3. QED BY <3>1, <3>2
  <2>3. SeasonsSeen'
    <3>1. Walker \in Callers
      BY ScanWalkAssumption
    <3>2. ASSUME NEW i \in DOMAIN left, pc = "season" \/ (pc = "grabbing" /\ i # 1), left[i] \in cooled'
          PROVE  left[i] \in snapshot \cup stale'[Walker]
      <4>1. left[i] \in cooled => left[i] \in snapshot \cup stale[Walker]
        BY <3>2 DEF IInv, SeasonsSeen
      <4>2. CASE x = Walker
        <5>1. pc = "grabbing" /\ left # <<>> /\ SeasonOf[exec[x].release] = Head(left) /\ i # 1
          BY <1>2, <3>2, <4>2 DEF IInv, WalkerPlaced, Grabbing
        <5>2. Head(left) = left[1] /\ 1 \in DOMAIN left
          BY <5>1, TailOf DEF IInv, TypeOK
        <5>3. left[i] # left[1]
          BY <5>1, <5>2 DEF IInv, SeasonsSeen, Once
        <5>4. left[i] \in cooled
          BY <1>5, <3>2, <5>1, <5>2, <5>3
        <5>5. QED BY <2>1, <4>1, <4>2, <5>4
      <4>3. CASE x # Walker
        <5>1. exec[Walker].pc # "idle"
          BY <3>2 DEF IInv, WalkerPlaced, Grabbing
        <5>2. QED BY <1>5, <2>1, <3>1, <3>2, <4>1, <4>3, <5>1
      <4>4. QED BY <4>2, <4>3
    <3>3. QED BY <1>3, <3>2 DEF IInv, SeasonsSeen
  <2>4. QED BY <2>2, <2>3
<1>6. QED BY <1>4, <1>5, GrabCools

(* The streak bounds the failures of a scan, with one to spare while a grab *)
(* may still begin; and then what Sonarr took.                              *)
LEMMA FailsBounded ==
  ASSUME NEW t \in TallyType, Short(t)
  PROVE  /\ FailuresOfScan \in Nat /\ t.fails <= FailuresOfScan
         /\ t.grabs < MaxGrabs => t.fails + 1 <= FailuresOfScan
<1> DEFINE L == StreakLimit - 1
<1>1. L \in Nat /\ MaxGrabs \in Nat /\ MaxGrabs >= 1
  BY ScanWalkAssumption
<1>2. /\ t.grabs \in Nat /\ t.grabs <= MaxGrabs /\ t.fails \in Nat
      /\ t.streak \in Nat /\ t.streak <= L
  BY <1>1 DEF TallyType
<1>3. t.fails <= L * t.grabs + t.streak
  BY DEF Short
<1>4. L * t.grabs \in Nat /\ L * MaxGrabs \in Nat
  BY <1>1, <1>2, Times
<1>5. CASE t.grabs = MaxGrabs
  <2>1. t.streak = 0
    BY <1>5 DEF Short
  <2>2. QED BY <1>2, <1>3, <1>4, <1>5, <2>1 DEF FailuresOfScan
<1>6. CASE t.grabs < MaxGrabs
  <2>1. L * (t.grabs + 1) = L * t.grabs + L
    BY <1>1, <1>2, Times
  <2>2. t.grabs + 1 \in Nat /\ t.grabs + 1 <= MaxGrabs
    BY <1>1, <1>2, <1>6
  <2>3. L * (t.grabs + 1) <= L * MaxGrabs
    BY <1>1, <2>2, Times
  <2> DEFINE most == L * MaxGrabs
             some == L * t.grabs
             next == L * (t.grabs + 1)
  <2>4. most \in Nat /\ some \in Nat /\ next = some + L /\ next <= most
        /\ t.fails <= some + t.streak /\ FailuresOfScan = most + 1
    BY <1>3, <1>4, <2>1, <2>3 DEF FailuresOfScan
  <2> HIDE DEF most, some, next
  <2>5. QED BY <1>1, <1>2, <2>4
<1>7. QED BY <1>1, <1>2, <1>5, <1>6

LEMMA TakenBounded ==
  ASSUME NEW t \in TallyType, Short(t), t.grabs < MaxGrabs,
         NEW n \in Nat, NEW spent \in 0 .. MaxAttempts,
         n <= MaxAttempts * (t.grabs + t.fails) + spent
  PROVE  /\ n <= MaxAttempts * (MaxGrabs + FailuresOfScan)
         /\ n <= MaxAttempts * (t.grabs + t.fails + 1)
<1>1. MaxAttempts \in Nat /\ MaxGrabs \in Nat
  BY GrabUseAssumption, ScanWalkAssumption
<1>2. FailuresOfScan \in Nat /\ t.fails + 1 <= FailuresOfScan
  BY FailsBounded
<1>3. t.grabs \in Nat /\ t.fails \in Nat
  BY <1>1 DEF TallyType
<1> DEFINE tried == t.grabs + t.fails
           most == MaxGrabs + FailuresOfScan
<1>4. tried \in Nat /\ most \in Nat /\ tried + 1 \in Nat /\ tried + 1 <= most
  BY <1>1, <1>2, <1>3
<1>5. t.grabs + t.fails + 1 = tried + 1
  OBVIOUS
<1>6. n <= MaxAttempts * tried + spent
  OBVIOUS
<1> HIDE DEF tried, most
<1>7. /\ MaxAttempts * tried \in Nat /\ MaxAttempts * (tried + 1) = MaxAttempts * tried + MaxAttempts
      /\ MaxAttempts * (tried + 1) <= MaxAttempts * most
  BY <1>1, <1>4, Times
<1>8. n <= MaxAttempts * (tried + 1)
  BY <1>1, <1>6, <1>7
<1>9. MaxAttempts * (tried + 1) \in Nat /\ MaxAttempts * most \in Nat
  BY <1>1, <1>4, Times
<1>10. n <= MaxAttempts * most
  BY <1>7, <1>8, <1>9
<1>11. QED BY <1>5, <1>8, <1>10 DEF most

(* The state of an attempt that is paid for.                                *)
LEMMA SpentTyped ==
  ASSUME NEW e \in ExecType, e.pc \in Grabbing => e.attempt >= 1
  PROVE  Spent(e) \in 0 .. MaxAttempts /\ Fresh(e) \in {0, 1}
BY GrabUseAssumption DEF ExecType, Spent, Fresh, Grabbing

LEMMA GrabInv ==
  ASSUME IInv, NEW x \in Callers, GrabStep(x), OnGrab
  PROVE  IInv'
<1>1. PICK new \in ExecType, m \in {0, 1}, n \in {0, 1} : Does(x, new, m, n)
  BY GrabMoves
<1>2. /\ exec \in [Callers -> ExecType]
      /\ stored \in [Callers -> Nat] /\ taken \in [Callers -> Nat] /\ Walker \in Callers
  BY ScanWalkAssumption DEF IInv, TypeOK, GrabTypeOK, ExecType
<1>3. /\ exec' \in [Callers -> ExecType] /\ exec'[x] = new
      /\ \A y \in Callers \ {x} : exec'[y] = exec[y]
  BY <1>1, <1>2 DEF Does
<1>4. /\ stored' \in [Callers -> Nat] /\ stored'[x] = stored[x] + m
      /\ taken' \in [Callers -> Nat] /\ taken'[x] = taken[x] + n
      /\ \A y \in Callers \ {x} : stored'[y] = stored[y] /\ taken'[y] = taken[y]
  BY <1>1, <1>2 DEF Does, Gains
<1>5. UNCHANGED <<pc, ahead, left, snapshot, tally, row, health, scans, clicks>>
  BY DEF OnGrab, walkVars, boundVars
<1>6. TypeOK'
  <2>1. GrabTypeOK'
    BY <1>3, <1>4, GrabCools DEF IInv, TypeOK, GrabTypeOK, ExecType
  <2>2. QED BY <1>5, <2>1 DEF IInv, TypeOK
<1>7. GrabsFormed'
  BY <1>1, <1>2, <1>3 DEF IInv, GrabsFormed, Does, Grabbing
<1>8. WalkerPlaced'
  <2>1. /\ exec'[Walker].pc \in Grabbing <=> exec[Walker].pc \in Grabbing
        /\ exec'[Walker].pc = "looking" <=> exec[Walker].pc = "looking"
        /\ exec'[Walker].release = exec[Walker].release
    BY <1>1, <1>2, <1>3 DEF Does, Grabbing
  <2>2. QED BY <1>5, <2>1 DEF IInv, WalkerPlaced
<1>9. tally \in TallyType /\ StreaksShort
  BY DEF IInv, TypeOK, TallyType
<1>10. x = Walker => /\ pc = "grabbing" /\ tally.grabs < MaxGrabs /\ row.status = "running"
                     /\ stored[x] = tally.grabs + Fresh(exec[x])
                     /\ taken[x] <= MaxAttempts * (tally.grabs + tally.fails) + Spent(exec[x])
  BY <1>1 DEF Does, IInv, WalkerPlaced, TallyExact
<1>11. /\ Spent(new) \in 0 .. MaxAttempts /\ Spent(exec[x]) \in 0 .. MaxAttempts
       /\ n + Spent(exec[x]) <= Spent(new) /\ m = Fresh(new) /\ Fresh(exec[x]) = 0
  <2>1. Fresh(exec[x]) = 0
    BY <1>1 DEF Does, Fresh
  <2>2. Spent(exec[x]) \in 0 .. MaxAttempts
    BY <1>2, SpentTyped DEF IInv, GrabsFormed
  <2>3. Spent(new) \in 0 .. MaxAttempts
    BY <1>1, SpentTyped DEF Does
  <2>4. QED BY <1>1, <2>1, <2>2, <2>3 DEF Does
<1>12. x = Walker => taken'[x] <= MaxAttempts * (tally.grabs + tally.fails) + Spent(new)
  <2> DEFINE base == MaxAttempts * (tally.grabs + tally.fails)
  <2>1. base \in Nat
    BY <1>9, Times, GrabUseAssumption, ScanWalkAssumption DEF TallyType
  <2>2. x = Walker => taken[x] <= base + Spent(exec[x])
    BY <1>10
  <2> HIDE DEF base
  <2>3. x = Walker => taken'[x] <= base + Spent(new)
    BY <1>2, <1>4, <1>11, <2>1, <2>2, GrabUseAssumption
  <2>4. QED BY <2>3 DEF base
<1>13. TallyExact'
  <2>1. CASE x = Walker
    <3>1. stored'[x] = tally.grabs + Fresh(new)
      BY <1>4, <1>9, <1>10, <1>11, <2>1 DEF TallyType
    <3>2. QED BY <1>3, <1>5, <1>12, <2>1, <3>1 DEF TallyExact
  <2>2. CASE x # Walker
    BY <1>2, <1>3, <1>4, <1>5, <2>2 DEF IInv, TallyExact
  <2>3. QED BY <2>1, <2>2
<1>14. CountersAgree'
  <2>1. CASE x = Walker
    BY <1>5, <1>10, <2>1 DEF CountersAgree
  <2>2. CASE x # Walker
    BY <1>2, <1>4, <1>5, <2>2 DEF IInv, CountersAgree, Accounts
  <2>3. QED BY <2>1, <2>2
<1>15. StreaksShort'
  BY <1>5, <1>9 DEF StreaksShort, Short
<1>16. ScanBounded'
  <2>1. taken'[Walker] <= MaxAttempts * (MaxGrabs + FailuresOfScan)
    <3>1. CASE x = Walker
      <4>1. taken'[x] \in Nat
        BY <1>4
      <4>2. QED BY <1>9, <1>10, <1>11, <1>12, <3>1, <4>1, TakenBounded DEF StreaksShort
    <3>2. CASE x # Walker
      BY <1>2, <1>4, <3>2 DEF IInv, ScanBounded
    <3>3. QED BY <3>1, <3>2
  <2>2. QED BY <1>5, <2>1 DEF IInv, ScanBounded, FailuresOfScan
<1>17. (\A y \in Callers : Seen(y)') /\ SeasonsSeen'
  BY GrabSeen DEF OnGrab
<1>18. QED BY <1>6, <1>7, <1>8, <1>13, <1>14, <1>15, <1>16, <1>17 DEF IInv

-----------------------------------------------------------------------------
(* The walk. *)

(* The walk puts its own grab into state new and knows S to be stale.       *)
Turns(new, S) ==
  /\ exec' = [exec EXCEPT ![Walker] = new] /\ stale' = [stale EXCEPT ![Walker] = S]
  /\ UNCHANGED <<dead, cooldownVars, countVars>>

LEMMA TurnsInv ==
  ASSUME IInv, NEW new \in ExecType, NEW S \in SUBSET (Seasons \cup Releases), Turns(new, S),
         new.pc \in Grabbing => new.release \in Releases /\ new.attempt >= 1,
         new.pc # "backoff",
         new.pc = "posting" => /\ SeasonOf[new.release] \in cooled => SeasonOf[new.release] \in S
                               /\ new.release \in barred => new.release \in S
  PROVE  /\ GrabTypeOK' /\ GrabsFormed' /\ \A y \in Callers : Seen(y)'
         /\ exec'[Walker] = new /\ stale'[Walker] = S
         /\ UNCHANGED <<cooled, barred, stored, taken>>
<1>1. /\ exec \in [Callers -> ExecType] /\ stale \in [Callers -> SUBSET (Seasons \cup Releases)]
      /\ Walker \in Callers /\ GrabTypeOK
  BY ScanWalkAssumption DEF IInv, TypeOK, GrabTypeOK, ExecType
<1>2. /\ exec' \in [Callers -> ExecType] /\ exec'[Walker] = new
      /\ \A y \in Callers \ {Walker} : exec'[y] = exec[y]
      /\ stale' \in [Callers -> SUBSET (Seasons \cup Releases)] /\ stale'[Walker] = S
      /\ \A y \in Callers \ {Walker} : stale'[y] = stale[y]
      /\ UNCHANGED <<dead, cooled, barred, open, stored, taken>>
  BY <1>1 DEF Turns, cooldownVars, countVars
<1>3. GrabTypeOK'
  BY <1>1, <1>2 DEF GrabTypeOK, ExecType
<1>4. GrabsFormed'
  BY <1>2 DEF IInv, GrabsFormed
<1>5. ASSUME NEW y \in Callers PROVE Seen(y)'
  BY <1>2 DEF IInv, Seen
<1>6. QED BY <1>2, <1>3, <1>4, <1>5

LEMMA NoGrabTyped ==
  /\ NoGrab \in ExecType /\ NoGrab.pc = "idle"
  /\ Spent(NoGrab) = 0 /\ Fresh(NoGrab) = 0
BY GrabUseAssumption DEF NoGrab, ExecType, Spent, Fresh, Grabbing

(* The walk is at its end, and what it writes about it agrees with the      *)
(* records, or the write fails.                                             *)
LEMMA EndInv ==
  ASSUME IInv, pc # "idle", AtEnd, UNCHANGED <<restOfGrab, boundVars>>,
         NEW status \in {"completed", "cancelled", "failed", "aborted"},
         NEW t \in [scanned : Nat, grabs : Nat, fails : Nat, streak : Nat],
         Finalize(status, t), t.fails <= FailuresOfScan,
         status # "aborted" => /\ t.grabs = stored[Walker]
                               /\ taken[Walker] <= MaxAttempts * (t.grabs + t.fails),
         health' \in {"available", "unknown", "auth"}
  PROVE  IInv'
<1>1. Turns(NoGrab, {})
  BY DEF Turns, AtEnd, LetGo, restOfGrab
<1>2. /\ GrabTypeOK' /\ GrabsFormed' /\ \A y \in Callers : Seen(y)'
      /\ exec'[Walker] = NoGrab /\ UNCHANGED <<stored, taken>>
  BY <1>1, NoGrabTyped, TurnsInv DEF Grabbing
<1>3. /\ pc' = "idle" /\ left' = <<>> /\ ahead' = <<>> /\ snapshot' = {} /\ tally' = NoTally
      /\ row' = Row(status, t) \/ row' = row
  BY DEF AtEnd, Emptied, Finalize
<1>4. /\ Row(status, t) \in RowType /\ Row(status, t).status = status
      /\ Row(status, t).grabs = t.grabs /\ Row(status, t).fails = t.fails
  BY DEF Row, RowType
<1>5. row \in RowType /\ row.status = "running"
  BY DEF IInv, TypeOK, RowType, WalkerPlaced
<1>6. TypeOK'
  <2>1. row' \in RowType
    BY <1>3, <1>4, <1>5
  <2>2. NoTally \in TallyType
    BY ScanWalkAssumption DEF NoTally, TallyType
  <2>3. <<>> \in Seq(Seq(Seasons)) /\ <<>> \in Seq(Seasons)
    OBVIOUS
  <2>4. QED BY <1>2, <1>3, <2>1, <2>2, <2>3 DEF IInv, TypeOK, TallyType, RowType, boundVars
<1>7. WalkerPlaced'
  BY <1>2, <1>3, NoGrabTyped DEF WalkerPlaced, Grabbing
<1>8. TallyExact' /\ SeasonsSeen'
  BY <1>3 DEF TallyExact, SeasonsSeen, Once
<1>9. CountersAgree'
  BY <1>2, <1>3, <1>4, <1>5 DEF CountersAgree, Accounts
<1>10. StreaksShort'
  <2>1. (StreakLimit - 1) * 0 = 0 /\ MaxGrabs # 0
    BY ScanWalkAssumption, Times
  <2>2. QED BY <1>3, <2>1 DEF StreaksShort, Short, NoTally
<1>11. ScanBounded'
  <2>1. FailuresOfScan \in Nat
    BY FailsBounded DEF IInv, TypeOK, TallyType, StreaksShort
  <2>2. QED BY <1>2, <1>3, <1>4, <2>1 DEF IInv, ScanBounded, NoTally, FailuresOfScan
<1>12. QED BY <1>2, <1>6, <1>7, <1>8, <1>9, <1>10, <1>11 DEF IInv

(* A tally, and one with a failure more, as a terminal row has them.        *)
LEMMA TallyTyped ==
  ASSUME IInv
  PROVE  /\ tally \in TallyType /\ StreaksShort
         /\ NoTally \in [scanned : Nat, grabs : Nat, fails : Nat, streak : Nat] /\ NoTally.fails = 0
         /\ tally \in [scanned : Nat, grabs : Nat, fails : Nat, streak : Nat]
         /\ Failure \in [scanned : Nat, grabs : Nat, fails : Nat, streak : Nat]
         /\ Failure.grabs = tally.grabs /\ Failure.fails = tally.fails + 1
         /\ Failure.streak = tally.streak + 1 /\ Failure.scanned = tally.scanned
<1>1. tally \in TallyType
  BY DEF IInv, TypeOK, TallyType
<1>2. TallyType \subseteq [scanned : Nat, grabs : Nat, fails : Nat, streak : Nat]
  BY ScanWalkAssumption DEF TallyType
<1>3. NoTally \in [scanned : Nat, grabs : Nat, fails : Nat, streak : Nat] /\ NoTally.fails = 0
  BY DEF NoTally
<1>4. tally \in [scanned : Nat, grabs : Nat, fails : Nat, streak : Nat]
  BY <1>1, <1>2
<1>5. /\ Failure \in [scanned : Nat, grabs : Nat, fails : Nat, streak : Nat]
      /\ Failure.grabs = tally.grabs /\ Failure.fails = tally.fails + 1
      /\ Failure.streak = tally.streak + 1 /\ Failure.scanned = tally.scanned
  <2>1. tally.fails + 1 \in Nat /\ tally.streak + 1 \in Nat
    BY <1>4
  <2>2. Failure = [tally EXCEPT !.fails = tally.fails + 1, !.streak = tally.streak + 1]
    BY DEF Failure
  <2>3. Failure = [scanned |-> tally.scanned, grabs |-> tally.grabs, fails |-> tally.fails + 1,
                   streak |-> tally.streak + 1]
    BY <1>4, <2>2
  <2>4. QED BY <1>4, <2>1, <2>3
<1>6. StreaksShort
  BY DEF IInv
<1>7. QED BY <1>1, <1>3, <1>4, <1>5, <1>6

LEMMA WalkOverInv ==
  IInv /\ (ReadUnauthorized \/ ListFails \/ WalkEnds \/ StreakEnds \/ GrabUnauthorized) => IInv'
<1> SUFFICES ASSUME IInv, ReadUnauthorized \/ ListFails \/ WalkEnds \/ StreakEnds \/ GrabUnauthorized
             PROVE  IInv'
  OBVIOUS
<1>1. /\ AtEnd /\ UNCHANGED <<restOfGrab, boundVars>> /\ pc # "idle"
      /\ health' \in {"available", "unknown", "auth"}
  BY DEF ReadUnauthorized, ListFails, WalkEnds, StreakEnds, GrabUnauthorized, Abort, Returned,
         IInv, TypeOK
<1>2. FailuresOfScan \in Nat /\ tally.fails <= FailuresOfScan
  BY TallyTyped, FailsBounded DEF StreaksShort
<1>3. CASE ReadUnauthorized
  <2>1. Finalize("aborted", NoTally)
    BY <1>3 DEF ReadUnauthorized, Abort
  <2>2. NoTally.fails <= FailuresOfScan
    BY <1>2, TallyTyped
  <2>3. QED BY <1>1, <2>1, <2>2, TallyTyped, EndInv
<1>4. CASE ListFails
  <2>1. /\ Finalize("failed", NoTally) /\ pc = "listing" /\ tally = NoTally
    BY <1>4 DEF ListFails, IInv, WalkerPlaced
  <2>2. Spent(exec[Walker]) = 0 /\ Fresh(exec[Walker]) = 0
    BY <2>1 DEF IInv, WalkerPlaced, Spent, Fresh, Grabbing
  <2>3. /\ stored[Walker] = NoTally.grabs
        /\ taken[Walker] <= MaxAttempts * (NoTally.grabs + NoTally.fails)
    BY <2>1, <2>2, GrabUseAssumption DEF IInv, TallyExact, NoTally
  <2>4. NoTally.fails <= FailuresOfScan
    BY <1>2, TallyTyped
  <2>5. QED BY <1>1, <2>1, <2>3, <2>4, TallyTyped, EndInv
<1>5. CASE WalkEnds
  <2>1. PICK status \in {"completed", "cancelled"} : Finalize(status, tally)
    BY <1>5 DEF WalkEnds
  <2>2. Spent(exec[Walker]) = 0 /\ Fresh(exec[Walker]) = 0
    BY <1>5 DEF WalkEnds, IInv, WalkerPlaced, Spent, Fresh, Grabbing
  <2>3. /\ stored[Walker] = tally.grabs
        /\ taken[Walker] <= MaxAttempts * (tally.grabs + tally.fails)
    <3>1. /\ stored[Walker] = tally.grabs + 0
          /\ taken[Walker] <= MaxAttempts * (tally.grabs + tally.fails) + 0
      BY <1>1, <2>2 DEF IInv, TallyExact
    <3>2. tally.grabs \in Nat /\ MaxAttempts * (tally.grabs + tally.fails) \in Nat
      BY TallyTyped, Times, GrabUseAssumption
    <3>3. QED BY <3>1, <3>2
  <2>4. QED BY <1>1, <1>2, <2>1, <2>3, TallyTyped, EndInv
<1>6. CASE StreakEnds \/ GrabUnauthorized
  <2>1. PICK status \in {"failed", "aborted"} : Finalize(status, Failure)
    BY <1>6 DEF StreakEnds, GrabUnauthorized, Abort
  <2>2. /\ pc = "grabbing" /\ tally.grabs < MaxGrabs
        /\ exec[Walker].pc = "returned" /\ exec[Walker].outcome # "ok"
    BY <1>6 DEF StreakEnds, GrabUnauthorized, Returned, At, IInv, WalkerPlaced
  <2>3. Fresh(exec[Walker]) = 0 /\ Spent(exec[Walker]) \in 0 .. MaxAttempts
    <3>1. Walker \in Callers /\ exec[Walker] \in ExecType
      BY ScanWalkAssumption DEF IInv, TypeOK, GrabTypeOK, ExecType
    <3>2. QED BY <2>2, <3>1, SpentTyped DEF Fresh, IInv, GrabsFormed
  <2>4. /\ stored[Walker] = tally.grabs + 0 /\ taken[Walker] \in Nat
        /\ taken[Walker] <= MaxAttempts * (tally.grabs + tally.fails) + Spent(exec[Walker])
    BY <1>1, <2>3, ScanWalkAssumption DEF IInv, TallyExact, TypeOK, GrabTypeOK
  <2>5. taken[Walker] <= MaxAttempts * (tally.grabs + tally.fails + 1)
    BY <2>2, <2>3, <2>4, TallyTyped, TakenBounded DEF StreaksShort
  <2>6. tally.fails + 1 <= FailuresOfScan
    BY <2>2, TallyTyped, FailsBounded DEF StreaksShort
  <2>7. tally.grabs \in Nat /\ tally.fails \in Nat
    BY TallyTyped
  <2>8. Failure.grabs + Failure.fails = tally.grabs + tally.fails + 1
    BY <2>7, TallyTyped
  <2>9. /\ Failure.grabs = stored[Walker] /\ Failure.fails <= FailuresOfScan
        /\ taken[Walker] <= MaxAttempts * (Failure.grabs + Failure.fails)
    BY <2>4, <2>5, <2>6, <2>7, <2>8, TallyTyped
  <2>10. QED BY <1>1, <2>1, <2>9, TallyTyped, EndInv
<1>7. QED BY <1>3, <1>4, <1>5, <1>6

(* The walk goes on: it turns its own grab to new, and the rest of the      *)
(* invariant is about where it is now.                                      *)
GoesOn(new, S) ==
  /\ Turns(new, S) /\ pc # "idle" /\ UNCHANGED <<row, health, boundVars>>
  /\ \/ /\ pc' = "grabbing" /\ new.pc = "posting"
        /\ new.release \in Releases /\ new.attempt = 1 /\ left' # <<>> /\ tally'.grabs < MaxGrabs
        /\ SeasonOf[new.release] = Head(left')
        /\ SeasonOf[new.release] \in cooled => SeasonOf[new.release] \in S
        /\ new.release \in barred => new.release \in S
     \/ pc' = "season" /\ new.pc = "looking"
     \/ pc' = "series" /\ new.pc = "idle"
  /\ ahead' \in Seq(Seq(Seasons)) /\ left' \in Seq(Seasons) /\ snapshot' \subseteq Seasons
  /\ \A n \in DOMAIN ahead' : Once(ahead'[n])
  /\ Once(left')
  /\ \A i \in DOMAIN left' :
       pc' = "season" \/ (pc' = "grabbing" /\ i # 1) =>
         (left'[i] \in cooled => left'[i] \in snapshot' \cup S)
  /\ tally' \in TallyType /\ Short(tally')
  /\ stored[Walker] = tally'.grabs
  /\ taken[Walker] <= MaxAttempts * (tally'.grabs + tally'.fails)

LEMMA GoesOnInv ==
  ASSUME IInv, NEW new \in ExecType, NEW S \in SUBSET (Seasons \cup Releases), GoesOn(new, S)
  PROVE  IInv'
<1> USE DEF GoesOn
<1>1. Turns(new, S) /\ pc # "idle" /\ pc' \in {"grabbing", "season", "series"}
      /\ UNCHANGED <<row, health, boundVars>> /\ new.pc \in {"posting", "looking", "idle"}
  OBVIOUS
<1>2. /\ GrabTypeOK' /\ GrabsFormed' /\ \A y \in Callers : Seen(y)'
      /\ exec'[Walker] = new /\ stale'[Walker] = S
      /\ UNCHANGED <<cooled, barred, stored, taken>>
  <2>1. new.pc \in Grabbing => new.release \in Releases /\ new.attempt >= 1
    BY DEF Grabbing
  <2>2. new.pc # "backoff"
    BY <1>1
  <2>3. new.pc = "posting" => /\ SeasonOf[new.release] \in cooled => SeasonOf[new.release] \in S
                              /\ new.release \in barred => new.release \in S
    OBVIOUS
  <2> HIDE DEF GoesOn
  <2>4. QED BY <1>1, <2>1, <2>2, <2>3, TurnsInv
<1>3. TypeOK'
  BY <1>1, <1>2 DEF IInv, TypeOK, TallyType, boundVars
<1>4. WalkerPlaced'
  BY <1>1, <1>2 DEF IInv, WalkerPlaced, Grabbing
<1>5. TallyExact'
  <2>1. Fresh(new) = 0
    BY <1>1 DEF Fresh
  <2>2. Spent(new) = 0
    BY <1>1 DEF Spent, Grabbing
  <2>3. tally'.grabs \in Nat /\ tally'.fails \in Nat /\ MaxAttempts * (tally'.grabs + tally'.fails) \in Nat
    BY Times, GrabUseAssumption, ScanWalkAssumption DEF TallyType
  <2>4. stored[Walker] = tally'.grabs + 0
    BY <2>3
  <2>5. taken[Walker] <= MaxAttempts * (tally'.grabs + tally'.fails) + 0
    BY <2>3
  <2>6. QED BY <1>2, <2>1, <2>2, <2>4, <2>5 DEF TallyExact
<1>6. CountersAgree'
  BY <1>1 DEF IInv, WalkerPlaced, CountersAgree
<1>7. ScanBounded'
  <2>1. tally'.fails <= FailuresOfScan
    BY FailsBounded
  <2>2. QED BY <1>1, <1>2, <2>1 DEF IInv, ScanBounded, FailuresOfScan
<1>8. SeasonsSeen'
  BY <1>2 DEF SeasonsSeen
<1>9. StreaksShort'
  BY DEF StreaksShort, Short
<1>10. QED BY <1>2, <1>3, <1>4, <1>5, <1>6, <1>7, <1>8, <1>9 DEF IInv

(* Between grabs all is accounted for.                                      *)
LEMMA WalkTyped ==
  ASSUME IInv
  PROVE  /\ exec[Walker] \in ExecType /\ stale[Walker] \in SUBSET (Seasons \cup Releases)
         /\ Seasons \cap Releases = {} /\ cooled \subseteq Seasons
         /\ UNCHANGED grabVars => Turns(exec[Walker], stale[Walker])
         /\ pc \in {"listing", "series", "season"} =>
              /\ stored[Walker] = tally.grabs
              /\ taken[Walker] <= MaxAttempts * (tally.grabs + tally.fails)
<1>1. Walker \in Callers
  BY ScanWalkAssumption
<1>2. /\ exec[Walker] \in ExecType /\ stale[Walker] \in SUBSET (Seasons \cup Releases)
      /\ cooled \subseteq Seasons
  BY <1>1 DEF IInv, TypeOK, GrabTypeOK, ExecType
<1>3. UNCHANGED grabVars => Turns(exec[Walker], stale[Walker])
  <2>1. exec = [exec EXCEPT ![Walker] = exec[Walker]] /\ stale = [stale EXCEPT ![Walker] = stale[Walker]]
    BY <1>1 DEF IInv, TypeOK, GrabTypeOK
  <2>2. QED BY <2>1 DEF Turns, grabVars
<1>4. ASSUME pc \in {"listing", "series", "season"}
      PROVE  /\ stored[Walker] = tally.grabs
             /\ taken[Walker] <= MaxAttempts * (tally.grabs + tally.fails)
  <2>1. Fresh(exec[Walker]) = 0 /\ Spent(exec[Walker]) = 0
    BY <1>4 DEF IInv, WalkerPlaced, Fresh, Spent, Grabbing
  <2>2. /\ stored[Walker] = tally.grabs + 0
        /\ taken[Walker] <= MaxAttempts * (tally.grabs + tally.fails) + 0
    BY <1>4, <2>1 DEF IInv, TallyExact
  <2>3. tally.grabs \in Nat /\ tally.fails \in Nat /\ MaxAttempts * (tally.grabs + tally.fails) \in Nat
    BY TallyTyped, Times, GrabUseAssumption
  <2>4. QED BY <2>2, <2>3
<1>5. QED BY <1>2, <1>3, <1>4, GrabUseAssumption

(* The parts of the walk's state, typed.                                    *)
LEMMA PlanTyped ==
  ASSUME IInv
  PROVE  /\ ahead \in Seq(Seq(Seasons)) /\ left \in Seq(Seasons) /\ snapshot \subseteq Seasons
         /\ Once(left) /\ \A n \in DOMAIN ahead : Once(ahead[n])
         /\ tally \in TallyType /\ Short(tally)
BY DEF IInv, TypeOK, TallyType, SeasonsSeen, StreaksShort

LEMMA CountedTyped ==
  ASSUME IInv, tally.scanned < MaxSeries
  PROVE  /\ Counted \in TallyType /\ Short(Counted)
         /\ Counted.grabs = tally.grabs /\ Counted.fails = tally.fails
<1>1. tally \in TallyType /\ Short(tally)
  BY PlanTyped
<1>2. tally.scanned + 1 \in 0 .. MaxSeries
  BY <1>1, ScanWalkAssumption DEF TallyType
<1>3. Counted = [tally EXCEPT !.scanned = tally.scanned + 1]
  BY DEF Counted
<1>4. /\ Counted \in TallyType /\ Counted.grabs = tally.grabs /\ Counted.fails = tally.fails
      /\ Counted.streak = tally.streak
  BY <1>1, <1>2, <1>3 DEF TallyType
<1>5. QED BY <1>1, <1>4 DEF Short

LEMMA SeriesInv == IInv /\ (Listed \/ PassSeries \/ SeriesEnds) => IInv'
<1> SUFFICES ASSUME IInv, Listed \/ PassSeries \/ SeriesEnds PROVE IInv'
  OBVIOUS
<1>1. CASE Listed
  <2>1. GoesOn(exec[Walker], stale[Walker])
    <3>1. exec[Walker].pc = "idle"
      <4>1. pc = "listing" /\ Walker \in Callers
        BY <1>1, ScanWalkAssumption DEF Listed
      <4>2. QED BY <4>1, WalkTyped DEF IInv, WalkerPlaced, ExecType, Grabbing
    <3>2. QED BY <1>1, <3>1, WalkTyped, PlanTyped DEF Listed, GoesOn
  <2>2. QED BY <2>1, WalkTyped, GoesOnInv
<1>2. CASE PassSeries
  <2>1. /\ pc = "series" /\ ahead # <<>> /\ tally.scanned < MaxSeries /\ ahead' = Tail(ahead)
        /\ tally' \in {tally, Counted}
        /\ UNCHANGED <<grabVars, pc, left, snapshot, row, health, boundVars>>
    BY <1>2 DEF PassSeries, AtSeries
  <2>2. exec[Walker].pc = "idle"
    BY <2>1, WalkTyped DEF IInv, WalkerPlaced, ExecType, Grabbing
  <2>3. Tail(ahead) \in Seq(Seq(Seasons)) /\ \A n \in DOMAIN Tail(ahead) : Once(Tail(ahead)[n])
    BY <2>1, PlanTyped, TailOf
  <2>4. tally' \in TallyType /\ Short(tally') /\ tally'.grabs = tally.grabs /\ tally'.fails = tally.fails
    BY <2>1, PlanTyped, CountedTyped
  <2>5. GoesOn(exec[Walker], stale[Walker])
    BY <2>1, <2>2, <2>3, <2>4, WalkTyped, PlanTyped DEF GoesOn
  <2>6. QED BY <2>5, WalkTyped, GoesOnInv
<1>3. CASE SeriesEnds
  <2>1. /\ pc = "season" /\ pc' = "series" /\ left = <<>> /\ snapshot' = {} /\ Turns(NoGrab, {})
        /\ UNCHANGED <<ahead, left, tally, row, health, boundVars>>
    BY <1>3 DEF SeriesEnds, LetGo, Turns, restOfGrab
  <2>2. GoesOn(NoGrab, {})
    BY <2>1, WalkTyped, PlanTyped, NoGrabTyped DEF GoesOn
  <2>3. QED BY <2>2, NoGrabTyped, GoesOnInv
<1>4. QED BY <1>1, <1>2, <1>3

(* The cooldowns of a series are read when it is opened, or none can be.    *)
LEMMA OpenInv == IInv /\ (OpenSeries \/ OpenSeriesBlind) => IInv'
<1> SUFFICES ASSUME IInv, OpenSeries \/ OpenSeriesBlind PROVE IInv'
  OBVIOUS
<1>1. /\ pc = "series" /\ ahead # <<>> /\ tally.scanned < MaxSeries
      /\ ahead' = Tail(ahead) /\ left' = Head(ahead) /\ tally' = Counted /\ pc' = "season"
      /\ Goes(Walker, "looking") /\ UNCHANGED <<restOfGrab, row, health, boundVars>>
  BY DEF OpenSeries, OpenSeriesBlind, Enter, AtSeries
<1> DEFINE cold == cooled \cap InSeries(Head(ahead))
           new == [exec[Walker] EXCEPT !.pc = "looking"]
<1>2. PICK S \in {{}, cold} :
        /\ stale' = [stale EXCEPT ![Walker] = S]
        /\ snapshot' = cold \/ S = cold
        /\ snapshot' \subseteq cold
  BY DEF OpenSeries, OpenSeriesBlind
<1>3. cold \subseteq Seasons
  BY WalkTyped
<1>4. new \in ExecType /\ new.pc = "looking"
  BY WalkTyped DEF ExecType
<1>5. exec' = [exec EXCEPT ![Walker] = new]
  BY <1>1 DEF Goes
<1>6. /\ Tail(ahead) \in Seq(Seq(Seasons)) /\ \A n \in DOMAIN Tail(ahead) : Once(Tail(ahead)[n])
      /\ Head(ahead) \in Seq(Seasons) /\ Once(Head(ahead))
  BY <1>1, PlanTyped, TailOf
<1>7. \A i \in DOMAIN Head(ahead) : Head(ahead)[i] \in cooled => Head(ahead)[i] \in cold
  BY DEF InSeries
<1> HIDE DEF cold, new
<1>8. Turns(new, S)
  BY <1>1, <1>2, <1>5 DEF Turns, restOfGrab
<1>9. GoesOn(new, S)
  <2>1. \A i \in DOMAIN left' : left'[i] \in cooled => left'[i] \in snapshot' \cup S
    BY <1>1, <1>2, <1>7
  <2>2. snapshot' \subseteq Seasons
    BY <1>2, <1>3
  <2>3. QED BY <1>1, <1>4, <1>6, <1>8, <2>1, <2>2, WalkTyped, PlanTyped, CountedTyped DEF GoesOn
<1>10. S \in SUBSET (Seasons \cup Releases)
  BY <1>2, <1>3
<1>11. QED BY <1>4, <1>9, <1>10, GoesOnInv

LEMMA SeasonInv == IInv /\ (PassSeason \/ Select) => IInv'
<1> SUFFICES ASSUME IInv, PassSeason \/ Select PROVE IInv'
  OBVIOUS
<1>1. /\ pc = "season" /\ left # <<>> /\ exec[Walker].pc = "looking"
      /\ UNCHANGED <<ahead, snapshot, tally, row, health, boundVars>>
  BY DEF PassSeason, Select, IInv, WalkerPlaced
<1>2. \A i \in DOMAIN left : left[i] \in cooled => left[i] \in snapshot \cup stale[Walker]
  BY <1>1 DEF IInv, SeasonsSeen
<1>3. /\ Head(left) \in Seasons /\ Head(left) = left[1] /\ 1 \in DOMAIN left
      /\ \A i \in DOMAIN left : left[i] \in Seasons
  BY <1>1, PlanTyped, TailOf
<1>4. CASE PassSeason
  <2>1. left' = Tail(left) /\ UNCHANGED <<grabVars, pc>>
    BY <1>4 DEF PassSeason
  <2>2. /\ Tail(left) \in Seq(Seasons) /\ Once(Tail(left))
        /\ \A i \in DOMAIN Tail(left) : Tail(left)[i] \in cooled
                                          => Tail(left)[i] \in snapshot \cup stale[Walker]
    BY <1>1, <1>2, PlanTyped, TailOf, TailOnce
  <2>3. GoesOn(exec[Walker], stale[Walker])
    BY <1>1, <2>1, <2>2, WalkTyped, PlanTyped DEF GoesOn
  <2>4. QED BY <2>3, WalkTyped, GoesOnInv
<1>5. CASE Select
  <2>1. /\ pc' = "grabbing" /\ Head(left) \notin snapshot /\ tally.grabs < MaxGrabs
        /\ UNCHANGED <<restOfGrab, left>>
    BY <1>5 DEF Select
  <2>2. PICK r \in Choices : Begin(Walker, r) /\ ((r \notin barred /\ Looked(r)) \/ Blind(r))
    BY <1>5 DEF Select
  <2> DEFINE new == [pc |-> "posting", release |-> r, attempt |-> 1, outcome |-> "none"]
             old == stale[Walker]
  <2>3. r \in Releases /\ SeasonOf[r] = Head(left)
    BY <2>2 DEF Choices
  <2>4. new \in ExecType /\ new.pc = "posting" /\ new.release = r /\ new.attempt = 1
    BY <2>3, GrabUseAssumption DEF ExecType
  <2>5. exec' = [exec EXCEPT ![Walker] = new]
    BY <2>2 DEF Begin
  <2>6. PICK S \in {old \ {r}, old \cup ({r} \cap barred)} :
          stale' = [stale EXCEPT ![Walker] = S] /\ (r \in barred => r \in S)
    <3>1. CASE r \notin barred /\ Looked(r)
      BY <3>1 DEF Looked
    <3>2. CASE Blind(r)
      BY <3>2 DEF Blind
    <3>3. QED BY <2>2, <3>1, <3>2
  <2>7. old \subseteq Seasons \cup Releases /\ r \notin Seasons
    BY <2>3, WalkTyped
  <2> HIDE DEF new
  <2>8. Turns(new, S)
    BY <2>1, <2>5, <2>6 DEF Turns, restOfGrab
  <2>9. S \in SUBSET (Seasons \cup Releases) /\ \A k \in Seasons : k \in old => k \in S
    BY <2>3, <2>6, <2>7
  <2>10. /\ \A i \in DOMAIN left : left[i] \in cooled => left[i] \in snapshot \cup S
         /\ Head(left) \in cooled => Head(left) \in S
    BY <1>2, <1>3, <2>1, <2>9
  <2>11. GoesOn(new, S)
    BY <1>1, <1>3, <2>1, <2>3, <2>4, <2>6, <2>8, <2>10, WalkTyped, PlanTyped DEF GoesOn
  <2>12. QED BY <2>4, <2>9, <2>11, GoesOnInv
<1>6. QED BY <1>4, <1>5

(* The outcome of a grab is counted, and the walk goes to the next season.  *)
LEMMA GrabCountedInv == IInv /\ (GrabSucceeded \/ GrabFailed) => IInv'
<1> SUFFICES ASSUME IInv, GrabSucceeded \/ GrabFailed PROVE IInv'
  OBVIOUS
<1>1. /\ pc = "grabbing" /\ pc' = "season" /\ left' = Tail(left) /\ Cleared
      /\ exec[Walker].pc = "returned" /\ left # <<>> /\ tally.grabs < MaxGrabs
      /\ UNCHANGED <<restOfGrab, ahead, snapshot, row, health, boundVars>>
  BY DEF GrabSucceeded, GrabFailed, Returned, At, IInv, WalkerPlaced
<1> DEFINE new == [NoGrab EXCEPT !.pc = "looking"]
           S == stale[Walker] \cap Seasons
<1>2. new \in ExecType /\ new.pc = "looking"
  BY NoGrabTyped DEF ExecType
<1>3. Turns(new, S)
  BY <1>1 DEF Turns, Cleared, restOfGrab
<1>4. /\ Tail(left) \in Seq(Seasons) /\ Once(Tail(left))
      /\ \A i \in DOMAIN Tail(left) : Tail(left)[i] \in cooled => Tail(left)[i] \in snapshot \cup S
  <2>1. \A i \in DOMAIN left : i # 1 => (left[i] \in cooled => left[i] \in snapshot \cup stale[Walker])
    BY <1>1 DEF IInv, SeasonsSeen
  <2>2. cooled \subseteq Seasons
    BY WalkTyped
  <2>3. QED BY <1>1, <2>1, <2>2, PlanTyped, TailOf, TailOnce
<1> HIDE DEF new
<1>5. /\ tally.grabs \in Nat /\ tally.grabs + 1 \in 0 .. MaxGrabs /\ tally.fails \in Nat
      /\ tally.streak \in Nat /\ tally.streak <= StreakLimit - 1 /\ StreakLimit - 1 \in Nat
  BY <1>1, PlanTyped, ScanWalkAssumption DEF TallyType
<1>6. /\ stored[Walker] = tally.grabs + Fresh(exec[Walker])
      /\ taken[Walker] <= MaxAttempts * (tally.grabs + tally.fails) + Spent(exec[Walker])
  BY <1>1 DEF IInv, TallyExact
<1>7. taken[Walker] <= MaxAttempts * (tally.grabs + tally.fails + 1)
  <2>1. Walker \in Callers /\ taken[Walker] \in Nat
    BY ScanWalkAssumption DEF IInv, TypeOK, GrabTypeOK
  <2>2. Spent(exec[Walker]) \in 0 .. MaxAttempts
    BY <2>1, WalkTyped, SpentTyped DEF IInv, GrabsFormed
  <2>3. QED BY <1>1, <1>6, <2>1, <2>2, PlanTyped, TakenBounded
<1>8. tally.fails <= (StreakLimit - 1) * tally.grabs + tally.streak
  BY PlanTyped DEF Short
<1> DEFINE some == (StreakLimit - 1) * tally.grabs
<1>9. some \in Nat /\ (StreakLimit - 1) * (tally.grabs + 1) = some + (StreakLimit - 1)
  BY <1>5, Times
<1>10. tally.fails <= some + tally.streak
  BY <1>8
<1>11. CASE GrabSucceeded
  <2>1. tally' = [tally EXCEPT !.grabs = tally.grabs + 1, !.streak = 0]
    BY <1>11 DEF GrabSucceeded
  <2>2. /\ tally' \in TallyType /\ tally'.grabs = tally.grabs + 1 /\ tally'.streak = 0
        /\ tally'.fails = tally.fails
    <3>1. /\ 0 \in 0 .. StreakLimit - 1
          /\ tally.scanned \in 0 .. MaxSeries /\ tally.grabs + 1 \in 0 .. MaxGrabs
      BY <1>5, PlanTyped DEF TallyType
    <3>2. tally' = [scanned |-> tally.scanned, grabs |-> tally.grabs + 1, fails |-> tally.fails,
                    streak |-> 0]
      BY <2>1, PlanTyped DEF TallyType
    <3>3. /\ tally'.grabs = tally.grabs + 1 /\ tally'.streak = 0 /\ tally'.fails = tally.fails
      BY <3>2
    <3>4. tally' \in TallyType
      BY <1>5, <3>1, <3>2 DEF TallyType
    <3>5. QED BY <3>3, <3>4
  <2>3. Short(tally')
    <3> HIDE DEF some
    <3>1. tally.fails <= some + (StreakLimit - 1) + 0
      BY <1>5, <1>9, <1>10
    <3>2. QED BY <1>9, <2>2, <3>1 DEF Short
  <2>4. stored[Walker] = tally'.grabs
    <3>1. Fresh(exec[Walker]) = 1
      BY <1>11 DEF GrabSucceeded, Returned, At, Fresh
    <3>2. QED BY <1>6, <2>2, <3>1
  <2>5. taken[Walker] <= MaxAttempts * (tally'.grabs + tally'.fails)
    <3>1. tally'.grabs + tally'.fails = tally.grabs + tally.fails + 1
      BY <1>5, <2>2
    <3>2. QED BY <1>7, <3>1
  <2>6. GoesOn(new, S)
    BY <1>1, <1>2, <1>3, <1>4, <2>2, <2>3, <2>4, <2>5, PlanTyped DEF GoesOn
  <2>7. QED BY <1>2, <2>6, GoesOnInv
<1>12. CASE GrabFailed
  <2>1. tally' = Failure /\ Failure.streak < StreakLimit
    BY <1>12 DEF GrabFailed
  <2>2. /\ tally'.grabs = tally.grabs /\ tally'.streak = tally.streak + 1
        /\ tally'.fails = tally.fails + 1 /\ tally' \in TallyType
    <3>1. Failure.streak \in 0 .. StreakLimit - 1
      BY <1>5, <2>1, TallyTyped, ScanWalkAssumption
    <3>2. Failure = [tally EXCEPT !.fails = tally.fails + 1, !.streak = tally.streak + 1]
      BY DEF Failure
    <3>3. Failure.fails \in Nat
      BY <1>5, TallyTyped
    <3>4. Failure \in TallyType
      BY <1>5, <3>1, <3>2, <3>3, PlanTyped, TallyTyped DEF TallyType
    <3>5. QED BY <2>1, <3>4, TallyTyped
  <2>3. Short(tally')
    <3> HIDE DEF some
    <3>1. tally.fails + 1 <= some + (tally.streak + 1)
      BY <1>5, <1>9, <1>10
    <3>2. QED BY <1>1, <1>5, <2>2, <3>1 DEF Short, some
  <2>4. stored[Walker] = tally'.grabs
    <3>1. Fresh(exec[Walker]) = 0
      BY <1>12 DEF GrabFailed, Returned, At, Fresh
    <3>2. QED BY <1>5, <1>6, <2>2, <3>1
  <2>5. taken[Walker] <= MaxAttempts * (tally'.grabs + tally'.fails)
    <3>1. tally'.grabs + tally'.fails = tally.grabs + tally.fails + 1
      BY <1>5, <2>2
    <3>2. QED BY <1>7, <3>1
  <2>6. GoesOn(new, S)
    BY <1>1, <1>2, <1>3, <1>4, <2>2, <2>3, <2>4, <2>5, PlanTyped DEF GoesOn
  <2>7. QED BY <1>2, <2>6, GoesOnInv
<1>13. QED BY <1>11, <1>12

LEMMA StartInv == IInv /\ Start => IInv'
<1> SUFFICES ASSUME IInv, Start PROVE IInv'
  OBVIOUS
<1>1. /\ pc = "idle" /\ pc' = "listing" /\ row' = Row("running", NoTally)
      /\ ahead' = Library /\ left' = <<>> /\ snapshot' = {} /\ tally' = NoTally
      /\ dead' = dead \ {Walker} /\ UNCHANGED <<exec, cooled, barred, open, stale, health, clicks>>
      /\ scans' \in 0 .. MaxScans
  BY ScanWalkAssumption DEF Start, cooldownVars, IInv, TypeOK
<1>2. /\ stored' \in [Callers -> Nat] /\ stored'[Walker] = 0
      /\ taken' \in [Callers -> Nat] /\ taken'[Walker] = 0
  BY ScanWalkAssumption DEF Start, IInv, TypeOK, GrabTypeOK
<1>3. Row("running", NoTally) \in RowType /\ NoTally \in TallyType
      /\ row'.status = "running" /\ row'.fails = 0
  BY <1>1, ScanWalkAssumption DEF Row, NoTally, RowType, TallyType
<1>4. TypeOK'
  <2>1. GrabTypeOK'
    BY <1>1, <1>2 DEF IInv, TypeOK, GrabTypeOK
  <2>2. <<>> \in Seq(Seasons) /\ Library \in Seq(Seq(Seasons))
    BY ScanWalkAssumption
  <2>3. QED BY <1>1, <1>3, <2>1, <2>2 DEF IInv, TypeOK, TallyType, RowType
<1>5. GrabsFormed' /\ \A y \in Callers : Seen(y)'
  BY <1>1 DEF IInv, GrabsFormed, Seen
<1>6. WalkerPlaced' /\ CountersAgree'
  BY <1>1, <1>3 DEF IInv, WalkerPlaced, CountersAgree
<1>7. TallyExact' /\ StreaksShort' /\ ScanBounded'
  <2>1. Fresh(exec[Walker]) = 0 /\ Spent(exec[Walker]) = 0
    BY <1>1 DEF IInv, WalkerPlaced, Fresh, Spent, Grabbing
  <2>2. /\ FailuresOfScan \in Nat /\ MaxAttempts \in Nat /\ MaxGrabs \in Nat /\ MaxGrabs # 0
        /\ MaxAttempts * (MaxGrabs + FailuresOfScan) \in Nat
        /\ MaxAttempts * 0 = 0 /\ (StreakLimit - 1) * 0 = 0
    BY PlanTyped, FailsBounded, Times, GrabUseAssumption, ScanWalkAssumption
  <2>3. NoTally.fails = 0 /\ NoTally.grabs = 0 /\ NoTally.streak = 0
    BY DEF NoTally
  <2>4. TallyExact'
    BY <1>1, <1>2, <2>1, <2>2, <2>3 DEF TallyExact
  <2>5. QED BY <1>1, <1>2, <1>3, <2>2, <2>3, <2>4 DEF StreaksShort, Short, ScanBounded, FailuresOfScan
<1>8. SeasonsSeen'
  BY <1>1, ScanWalkAssumption DEF SeasonsSeen, Once
<1>9. QED BY <1>4, <1>5, <1>6, <1>7, <1>8 DEF IInv

-----------------------------------------------------------------------------
(* Grabs by hand, and the surroundings. *)

LEMMA HandlerInv ==
  ASSUME IInv, NEW h \in Handlers,
         (\E r \in Releases : Click(h, r)) \/ Answer(h)
  PROVE  IInv'
<1>1. /\ h \in Callers /\ h # Walker /\ Walker \in Callers
      /\ UNCHANGED <<pc, ahead, left, snapshot, tally, cooled, barred, open, row, health, scans>>
  BY ScanWalkAssumption DEF Handlers, Click, Answer, walkVars, cooldownVars, boundVars
<1>2. /\ stored' \in [Callers -> Nat] /\ stored'[Walker] = stored[Walker]
      /\ taken' \in [Callers -> Nat] /\ taken'[Walker] = taken[Walker]
      /\ stale' \in [Callers -> SUBSET (Seasons \cup Releases)]
      /\ \A y \in Callers \ {h} : stale'[y] = stale[y]
      /\ dead' \subseteq Callers /\ clicks' \in 0 .. MaxClicks
  <2>1. /\ stored \in [Callers -> Nat] /\ taken \in [Callers -> Nat]
        /\ stale \in [Callers -> SUBSET (Seasons \cup Releases)]
        /\ dead \subseteq Callers /\ clicks \in 0 .. MaxClicks /\ MaxClicks \in Nat
    BY ScanWalkAssumption DEF IInv, TypeOK, GrabTypeOK
  <2>2. CASE Answer(h)
    <3>1. /\ stored' = [stored EXCEPT ![h] = 0] /\ taken' = [taken EXCEPT ![h] = 0]
          /\ stale' = [stale EXCEPT ![h] = {}] /\ dead' = dead \ {h} /\ clicks' = clicks
      BY <2>2 DEF Answer, LetGo, boundVars
    <3>2. stored' \in [Callers -> Nat] /\ taken' \in [Callers -> Nat]
      BY <1>1, <2>1, <3>1
    <3>3. stored'[Walker] = stored[Walker] /\ taken'[Walker] = taken[Walker]
      BY <1>1, <2>1, <3>1
    <3>4. /\ stale' \in [Callers -> SUBSET (Seasons \cup Releases)]
          /\ \A y \in Callers \ {h} : stale'[y] = stale[y]
      BY <1>1, <2>1, <3>1
    <3>5. QED BY <2>1, <3>1, <3>2, <3>3, <3>4
  <2>3. ASSUME NEW r \in Releases, Click(h, r)
        PROVE  /\ UNCHANGED <<stored, taken, stale, dead>>
               /\ clicks' = clicks + 1 /\ clicks < MaxClicks
    BY <2>3 DEF Click, countVars
  <2>4. QED BY <2>1, <2>2, <2>3
<1>3. PICK new \in ExecType :
        /\ exec' = [exec EXCEPT ![h] = new]
        /\ \/ new = NoGrab
           \/ /\ new.pc = "posting" /\ new.release \in Releases /\ new.attempt = 1
              /\ SeasonOf[new.release] \notin cooled /\ new.release \notin barred
  <2>1. CASE Answer(h)
    BY <2>1, NoGrabTyped DEF Answer, LetGo
  <2>2. ASSUME NEW r \in Releases, Click(h, r)
        PROVE  \E new \in ExecType :
                 /\ exec' = [exec EXCEPT ![h] = new]
                 /\ new.pc = "posting" /\ new.release \in Releases /\ new.attempt = 1
                 /\ SeasonOf[new.release] \notin cooled /\ new.release \notin barred
    <3> DEFINE new == [pc |-> "posting", release |-> r, attempt |-> 1, outcome |-> "none"]
    <3>1. new \in ExecType /\ new.pc = "posting" /\ new.release = r /\ new.attempt = 1
      BY GrabUseAssumption DEF ExecType
    <3>2. exec' = [exec EXCEPT ![h] = new] /\ SeasonOf[r] \notin cooled /\ r \notin barred
      BY <2>2 DEF Click, Begin, Clear
    <3> HIDE DEF new
    <3>3. QED BY <3>1, <3>2
  <2>3. QED BY <2>1, <2>2
<1>4. /\ exec' \in [Callers -> ExecType] /\ exec'[h] = new
      /\ \A y \in Callers \ {h} : exec'[y] = exec[y]
  BY <1>1, <1>3 DEF IInv, TypeOK, GrabTypeOK, ExecType
<1>5. TypeOK'
  <2>1. GrabTypeOK'
    BY <1>1, <1>2, <1>4 DEF IInv, TypeOK, GrabTypeOK, ExecType
  <2>2. QED BY <1>1, <1>2, <2>1 DEF IInv, TypeOK
<1>6. GrabsFormed'
  BY <1>3, <1>4, NoGrabTyped DEF IInv, GrabsFormed, Grabbing
<1>7. ASSUME NEW y \in Callers PROVE Seen(y)'
  BY <1>1, <1>2, <1>3, <1>4, NoGrabTyped DEF IInv, Seen
<1>8. WalkerPlaced' /\ TallyExact' /\ SeasonsSeen'
  BY <1>1, <1>2, <1>4 DEF IInv, WalkerPlaced, TallyExact, SeasonsSeen
<1>9. CountersAgree' /\ StreaksShort' /\ ScanBounded'
  BY <1>1, <1>2 DEF IInv, CountersAgree, Accounts, StreaksShort, Short, ScanBounded, FailuresOfScan
<1>10. QED BY <1>5, <1>6, <1>7, <1>8, <1>9 DEF IInv

LEMMA SurroundingsInv ==
  IInv /\ (\/ HealthCheck \/ UNCHANGED vars
           \/ \E x \in Callers : ContextEnds(x) /\ OnGrab
           \/ \E r \in Releases : Close(r) /\ OnGrab) => IInv'
<1> SUFFICES ASSUME IInv,
                    \/ HealthCheck \/ UNCHANGED vars
                    \/ \E x \in Callers : ContextEnds(x) /\ OnGrab
                    \/ \E r \in Releases : Close(r) /\ OnGrab
             PROVE  IInv'
  OBVIOUS
<1>1. /\ UNCHANGED <<exec, cooled, barred, stale, stored, taken, walkVars, row, boundVars>>
      /\ dead' \subseteq Callers /\ open' \subseteq Releases /\ health' \in {"available", "unknown", "auth"}
  BY DEF HealthCheck, ContextEnds, Close, OnGrab, vars, grabVars, cooldownVars, countVars,
         IInv, TypeOK, GrabTypeOK
<1>2. TypeOK'
  BY <1>1 DEF IInv, TypeOK, GrabTypeOK, walkVars, boundVars
<1>3. GrabsFormed' /\ WalkerPlaced' /\ TallyExact' /\ CountersAgree' /\ StreaksShort' /\ ScanBounded'
  BY <1>1 DEF IInv, GrabsFormed, WalkerPlaced, TallyExact, CountersAgree, Accounts, StreaksShort, Short,
              ScanBounded, FailuresOfScan, walkVars
<1>4. (\A y \in Callers : Seen(y)') /\ SeasonsSeen'
  BY <1>1 DEF IInv, Seen, SeasonsSeen, walkVars
<1>5. QED BY <1>2, <1>3, <1>4 DEF IInv

LEMMA ExpireInv ==
  ASSUME IInv, NEW k \in Seasons \cup Releases, Expire(k), OnGrab
  PROVE  IInv'
<1>1. /\ UNCHANGED <<exec, dead, open, stored, taken, pc, ahead, left, snapshot, tally, row, health, scans, clicks>>
      /\ cooled' = cooled \ {k} /\ barred' = barred \ {k}
      /\ stale' = [x \in Callers |-> stale[x] \ {k}]
  BY DEF Expire, OnGrab, countVars, walkVars, boundVars
<1>2. TypeOK'
  BY <1>1 DEF IInv, TypeOK, GrabTypeOK
<1>3. GrabsFormed' /\ WalkerPlaced' /\ TallyExact' /\ CountersAgree' /\ StreaksShort' /\ ScanBounded'
  BY <1>1 DEF IInv, GrabsFormed, WalkerPlaced, TallyExact, CountersAgree, Accounts, StreaksShort, Short,
              ScanBounded, FailuresOfScan
<1>4. ASSUME NEW y \in Callers PROVE Seen(y)'
  BY <1>1 DEF IInv, Seen
<1>5. SeasonsSeen'
  BY <1>1, ScanWalkAssumption DEF IInv, SeasonsSeen
<1>6. QED BY <1>2, <1>3, <1>4, <1>5 DEF IInv

LEMMA DiesInv == IInv /\ Dies => IInv'
<1> SUFFICES ASSUME IInv, Dies PROVE IInv'
  OBVIOUS
<1>1. /\ exec' = [x \in Callers |-> NoGrab] /\ dead' = {} /\ pc' = "idle" /\ left' = <<>> /\ ahead' = <<>>
      /\ snapshot' = {} /\ tally' = NoTally /\ stale' = [x \in Callers |-> {}] /\ health' = "available"
      /\ UNCHANGED <<cooled, barred, open, row, scans, clicks>>
  BY DEF Dies, Emptied, cooldownVars, boundVars
<1>2. /\ stored' \in [Callers -> Nat] /\ stored'[Walker] = stored[Walker]
      /\ taken' \in [Callers -> Nat] /\ taken'[Walker] = taken[Walker]
  BY ScanWalkAssumption DEF Dies, KeptForScan, IInv, TypeOK, GrabTypeOK
<1>3. NoTally \in TallyType /\ <<>> \in Seq(Seasons) /\ <<>> \in Seq(Seq(Seasons)) /\ Walker \in Callers
  BY ScanWalkAssumption DEF NoTally, TallyType
<1>4. exec' \in [Callers -> ExecType] /\ stale' \in [Callers -> SUBSET (Seasons \cup Releases)]
  BY <1>1, NoGrabTyped
<1>5. GrabTypeOK'
  BY <1>1, <1>2, <1>4 DEF IInv, TypeOK, GrabTypeOK, ExecType
<1>6. TypeOK'
  BY <1>1, <1>3, <1>5 DEF IInv, TypeOK, TallyType
<1>7. GrabsFormed' /\ WalkerPlaced' /\ \A y \in Callers : Seen(y)'
  BY <1>1, <1>3, NoGrabTyped DEF GrabsFormed, WalkerPlaced, Seen, Grabbing
<1>8. TallyExact' /\ SeasonsSeen'
  BY <1>1 DEF TallyExact, SeasonsSeen, Once
<1>9. CountersAgree'
  BY <1>1, <1>2 DEF IInv, CountersAgree, Accounts
<1>10. StreaksShort' /\ ScanBounded'
  <2>1. NoTally.fails = 0 /\ NoTally.grabs = 0 /\ NoTally.streak = 0
    BY DEF NoTally
  <2>2. MaxGrabs # 0 /\ (StreakLimit - 1) * 0 = 0 /\ FailuresOfScan \in Nat
    BY PlanTyped, FailsBounded, Times, ScanWalkAssumption
  <2>3. QED BY <1>1, <1>2, <2>1, <2>2 DEF IInv, StreaksShort, Short, ScanBounded, FailuresOfScan
<1>11. QED BY <1>6, <1>7, <1>8, <1>9, <1>10 DEF IInv

-----------------------------------------------------------------------------
LEMMA InitInv == Init => IInv
<1> SUFFICES ASSUME Init PROVE IInv
  OBVIOUS
<1>1. /\ NoTally \in TallyType /\ Row("none", NoTally) \in RowType
      /\ row.status = "none" /\ row.fails = 0
      /\ NoTally.fails = 0 /\ NoTally.grabs = 0 /\ NoTally.streak = 0 /\ Walker \in Callers
  BY ScanWalkAssumption DEF Init, NoTally, TallyType, Row, RowType
<1>2. GrabTypeOK
  BY NoGrabTyped DEF Init, GrabInit, GrabTypeOK, NoneYet, ExecType
<1>3. TypeOK
  <2>1. <<>> \in Seq(Seasons) /\ <<>> \in Seq(Seq(Seasons))
    OBVIOUS
  <2>2. QED BY <1>1, <1>2, <2>1, ScanWalkAssumption DEF Init, TypeOK, TallyType, RowType
<1>4. GrabsFormed /\ WalkerPlaced /\ \A x \in Callers : Seen(x)
  BY <1>1, NoGrabTyped DEF Init, GrabInit, GrabsFormed, WalkerPlaced, Seen, Grabbing
<1>5. TallyExact /\ SeasonsSeen /\ CountersAgree
  BY <1>1 DEF Init, TallyExact, SeasonsSeen, Once, CountersAgree
<1>6. StreaksShort
  BY <1>1, Times, ScanWalkAssumption DEF Init, StreaksShort, Short
<1>7. ScanBounded
  <2>1. FailuresOfScan \in Nat
    BY <1>1, <1>6, FailsBounded DEF Init, StreaksShort
  <2>2. MaxAttempts * (MaxGrabs + FailuresOfScan) \in Nat
    BY <2>1, Times, GrabUseAssumption, ScanWalkAssumption
  <2>3. taken[Walker] = 0
    BY <1>1 DEF Init, GrabInit, NoneYet
  <2>4. QED BY <1>1, <2>1, <2>2, <2>3 DEF Init, ScanBounded
<1>8. QED BY <1>3, <1>4, <1>5, <1>6, <1>7 DEF IInv

LEMMA StepInv == IInv /\ [Next]_vars => IInv'
<1>1. IInv /\ WalkStep => IInv'
  BY WalkOverInv, SeriesInv, OpenInv, SeasonInv, GrabCountedInv DEF WalkStep
<1>2. QED BY <1>1, StartInv, GrabInv, HandlerInv, ExpireInv, SurroundingsInv, DiesInv DEF Next

(* The inductive invariant holds throughout. *)
THEOREM Invariance == Spec => []IInv
<1>1. QED BY InitInv, StepInv, PTL DEF Spec

(* The state of the walk, the grabs and the row has its types; no scan      *)
(* grabs more than max_grabs_per_scan or sees more than scan_max_series.    *)
THEOREM TypeCorrect == Spec => []TypeOK
<1>1. IInv => TypeOK
  BY DEF IInv
<1>2. QED BY <1>1, Invariance, PTL

(* The streak and max_grabs_per_scan bound the failures of a scan, and with *)
(* the attempts of a grab what Sonarr takes from it, if all answers are lost. *)
THEOREM ScansAreBounded == Spec => []ScanBounded
<1>1. IInv => ScanBounded
  BY DEF IInv
<1>2. QED BY <1>1, Invariance, PTL

(* The counters of a scan that ended are those of its records.              *)
THEOREM CountersMatchRecords == Spec => []CountersAgree
<1>1. IInv => CountersAgree
  BY DEF IInv
<1>2. QED BY <1>1, Invariance, PTL

(* No caller posts what was cooled when it looked, however scans and clicks *)
(* interleave.                                                              *)
THEOREM CooldownsRespected == Spec => []CooldownRespected
<1>1. IInv => CooldownRespected
  BY DEF IInv, Seen, CooldownRespected, At
<1>2. QED BY <1>1, Invariance, PTL
=============================================================================
