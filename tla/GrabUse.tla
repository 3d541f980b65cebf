------------------------------- MODULE GrabUse --------------------------------
(***************************************************************************)
(* The grab use case (src/internal/grab/app/grab_usecase.go) and the       *)
(* cooldowns it writes.  A caller, a scan or an HTTP handler, extends this *)
(* module: it looks at the cooldowns ("looking"), hands over a release with *)
(* Begin and takes the outcome when pc is "returned".                      *)
(*                                                                         *)
(* A backoff and a cooldown end at some later step.                        *)
(***************************************************************************)
EXTENDS Naturals, FiniteSets

CONSTANTS
  Callers,       \* who may have a grab on
  Seasons,
  Releases,
  SeasonOf,      \* the season a release is selected for
  MaxAttempts,
  NoRelease

ASSUME GrabUseAssumption ==
  /\ MaxAttempts \in Nat \ {0}
  /\ SeasonOf \in [Releases -> Seasons]
  /\ NoRelease \notin Releases
  /\ Seasons \cap Releases = {}

VARIABLES
  exec,        \* exec[x]: where the grab of x is
  dead,        \* callers whose context is done
  cooled,      \* seasons with an active cooldown
  barred,      \* releases with an active cooldown
  open,        \* releases with a record "grabbed"
  stored,      \* stored[x]: records "grabbed" of the grabs of x (history)
  taken,       \* taken[x]: releases that Sonarr took from x (history)
  stale        \* stale[x]: what was cooled since x looked, or x could not see (history)

cooldownVars == <<cooled, barred, open>>
countVars == <<stored, taken>>
grabVars == <<exec, dead, cooldownVars, countVars, stale>>

NoGrab == [pc |-> "idle", release |-> NoRelease, attempt |-> 0, outcome |-> "none"]
NoneYet == [x \in Callers |-> 0]

GrabInit ==
  /\ exec = [x \in Callers |-> NoGrab]
  /\ dead = {} /\ cooled = {} /\ barred = {} /\ open = {}
  /\ stored = NoneYet /\ taken = NoneYet
  /\ stale = [x \in Callers |-> {}]

Live(x) == x \notin dead
At(x, pc) == exec[x].pc = pc
Goes(x, pc) == exec' = [exec EXCEPT ![x].pc = pc]
Returns(x, outcome) == exec' = [exec EXCEPT ![x].pc = "returned", ![x].outcome = outcome]

(* x writes the cooldown k; others have looked before. *)
Written(x, k) ==
  stale' = [y \in Callers |-> IF y = x \/ At(y, "idle") THEN stale[y] ELSE stale[y] \cup {k}]

(* Execute is called. *)
Begin(x, r) ==
  exec' = [exec EXCEPT ![x] = [pc |-> "posting", release |-> r, attempt |-> 1, outcome |-> "none"]]

Taken(x) == taken' = [taken EXCEPT ![x] = @ + 1]

(* ForceGrab: Sonarr took the release and said so. *)
PostOK(x) ==
  /\ At(x, "posting") /\ Live(x)
  /\ Taken(x)
  /\ Goes(x, "storing")
  /\ UNCHANGED <<dead, cooldownVars, stored, stale>>

(* Faulty: off by one. *)
MayRetryOnceMore(x) == exec[x].attempt <= MaxAttempts

MayRetry(x) == exec[x].attempt < MaxAttempts

(* A transient error: one attempt more after a backoff.  Here and when a    *)
(* call is cut off by its context Sonarr may have taken the release.        *)
PostTransient(x) ==
  /\ At(x, "posting") /\ Live(x)
  /\ IF MayRetry(x) THEN Goes(x, "backoff") ELSE Goes(x, "failing")
  /\ Taken(x) \/ UNCHANGED taken
  /\ UNCHANGED <<dead, cooldownVars, stored, stale>>

(* 401 or 403. *)
PostUnauthorized(x) ==
  /\ At(x, "posting") /\ Live(x)
  /\ exec' = [exec EXCEPT ![x].pc = "failing", ![x].outcome = "unauthorized"]
  /\ UNCHANGED <<dead, cooldownVars, countVars, stale>>

(* Another 4xx, or an error that is not classified, as a done context is.   *)
PostFails(x) ==
  /\ At(x, "posting")
  /\ Goes(x, "failing")
  /\ Taken(x) \/ UNCHANGED taken
  /\ UNCHANGED <<dead, cooldownVars, stored, stale>>

(* The backoff is over. *)
Retry(x) ==
  /\ At(x, "backoff") /\ Live(x)
  /\ exec' = [exec EXCEPT ![x].pc = "posting", ![x].attempt = @ + 1]
  /\ UNCHANGED <<dead, cooldownVars, countVars, stale>>

(* The sleep is cut short. *)
BackoffCut(x) ==
  /\ At(x, "backoff") /\ ~Live(x)
  /\ Goes(x, "failing")
  /\ UNCHANGED <<dead, cooldownVars, countVars, stale>>

(* persistSuccess: record and cooldown of the season in one transaction.    *)
StoreSuccess(x) ==
  LET r == exec[x].release IN
  /\ At(x, "storing") /\ Live(x)
  /\ open' = open \cup {r}
  /\ cooled' = cooled \cup {SeasonOf[r]}
  /\ Written(x, SeasonOf[r])
  /\ stored' = [stored EXCEPT ![x] = @ + 1]
  /\ Returns(x, "ok")
  /\ UNCHANGED <<dead, barred, taken>>

(* Faulty: an error of the transaction is only logged. *)
StoreFailsQuietly(x) ==
  /\ At(x, "storing")
  /\ Returns(x, "ok")
  /\ UNCHANGED <<dead, cooldownVars, countVars, stale>>

(* It fails, as it does once the context is done: the grab counts as        *)
(* failed, and neither cooldown is written.                                 *)
StoreFails(x) ==
  /\ At(x, "storing")
  /\ Returns(x, "failed")
  /\ UNCHANGED <<dead, cooldownVars, countVars, stale>>

FailedOutcome(x) == IF exec[x].outcome = "unauthorized" THEN "unauthorized" ELSE "failed"

(* The record "grab_failed", which nothing here reads, and then             *)
(* activateGUIDCooldown; an error of either is only logged.                 *)
Bar(x) ==
  /\ At(x, "failing")
  /\ \/ /\ Live(x)
        /\ barred' = barred \cup {exec[x].release}
        /\ Written(x, exec[x].release)
     \/ UNCHANGED <<barred, stale>>
  /\ Returns(x, FailedOutcome(x))
  /\ UNCHANGED <<dead, cooled, open, countVars>>

GrabStep(x) ==
  \/ PostOK(x) \/ PostTransient(x) \/ PostUnauthorized(x) \/ PostFails(x)
  \/ Retry(x) \/ BackoffCut(x)
  \/ StoreSuccess(x) \/ StoreFails(x) \/ Bar(x)

-----------------------------------------------------------------------------
(* Surroundings: cooldowns run out, webhooks close records, contexts end. *)

Expire(k) ==
  /\ k \in cooled \cup barred
  /\ cooled' = cooled \ {k} /\ barred' = barred \ {k}
  /\ stale' = [x \in Callers |-> stale[x] \ {k}]
  /\ UNCHANGED <<exec, dead, open, countVars>>

Close(r) ==
  /\ r \in open
  /\ open' = open \ {r}
  /\ UNCHANGED <<exec, dead, cooled, barred, countVars, stale>>

ContextEnds(x) ==
  /\ Live(x)
  /\ dead' = dead \cup {x}
  /\ UNCHANGED <<exec, cooldownVars, countVars, stale>>

-----------------------------------------------------------------------------
GrabTypeOK ==
  /\ exec \in [Callers -> [pc : {"idle", "looking", "posting", "backoff", "storing",
                                 "failing", "returned"},
                           release : Releases \cup {NoRelease}, attempt : 0 .. MaxAttempts,
                           outcome : {"none", "ok", "failed", "unauthorized"}]]
  /\ dead \subseteq Callers /\ cooled \subseteq Seasons
  /\ barred \subseteq Releases /\ open \subseteq Releases
  /\ stored \in [Callers -> Nat]
  /\ taken \in [Callers -> Nat]
  /\ stale \in [Callers -> SUBSET (Seasons \cup Releases)]

(* Cooldowns are checked before a grab and written after it, by callers     *)
(* that do not wait for each other: a season or release under a cooldown    *)
(* is posted only by a caller that looked before the cooldown was written,  *)
(* or could not look.                                                       *)
CooldownRespected ==
  \A x \in Callers : At(x, "posting") =>
    LET r == exec[x].release IN
    /\ SeasonOf[r] \in cooled => SeasonOf[r] \in stale[x]
    /\ r \in barred => r \in stale[x]

=============================================================================
