------------------------------- MODULE Notices -------------------------------
(***************************************************************************)
(* What is announced through the outbox: the outcome of requests           *)
(* (src/internal/request) and new air dates of followed series             *)
(* (src/internal/notification/app/air_date_announcer.go, called by the     *)
(* series worker of src/internal/enrichment).                              *)
(*                                                                         *)
(* A user without auto-approval queues an add; a manager approves it,      *)
(* which replays the add at Sonarr or Radarr and then settles the request, *)
(* or denies it.  Each handler runs on a goroutine of its own.             *)
(***************************************************************************)
EXTENDS Outbox

CONSTANTS
  Handlers,     \* concurrent HTTP calls
  Requests,     \* ids of request rows
  Titles,       \* (user, media type, external id): what a request asks for
  TitleOf,      \* the title of each request id
  Movies,       \* titles that Radarr adds; the others are Sonarr's
  Dates,        \* values of next_air_date of one series
  Answers,      \* what TMDB says of it: dates, and NoDate for nothing
  Followers,    \* users who follow it
  NoRequest, NoDate

Turn(r, v) == <<"request", r, v>>
Announcement(f, d) == <<"air_date", f, d>>

ASSUME NoticesAssumption ==
  /\ TitleOf \in [Requests -> Titles] /\ Movies \subseteq Titles
  /\ NoRequest \notin Requests /\ NoDate \notin Dates
  /\ Answers \subseteq Dates \cup {NoDate} /\ IsFiniteSet(Followers)
  /\ \A r \in Requests : Turn(r, "approved") \in Events /\ Turn(r, "denied") \in Events
  /\ \A f \in Followers, d \in Dates : Announcement(f, d) \in Events

VARIABLES
  request,     \* request[r]: status column, "none" before the insert
  library,     \* titles Sonarr or Radarr has taken
  call,        \* call[h]: what handler h does and for which title or request
  airDate,     \* next_air_date as stored
  hydrated,    \* the series was synced before
  handle,      \* the series worker: what it read when its job began
  marked       \* notified_events: announcements made

requestVars == <<request, library, call>>
airVars == <<airDate, hydrated, handle, marked>>
vars == <<outboxVars, requestVars, airVars>>

Idle == [pc |-> "idle", title |-> NoRequest, req |-> NoRequest]
NoHandle == [pc |-> "idle", first |-> FALSE, old |-> NoDate]
Verdicts == {"approved", "denied"}

Init ==
  /\ OutboxInit
  /\ request = [r \in Requests |-> "none"]
  /\ library = {}
  /\ call = [h \in Handlers |-> Idle]
  /\ airDate = NoDate /\ hydrated = FALSE /\ handle = NoHandle /\ marked = {}

dispatcherOnly == <<process, dispatchVars, historyVars>>
Returns(h) == call' = [call EXCEPT ![h] = Idle]

-----------------------------------------------------------------------------
(* Requests. *)

PendingFor(t) == {r \in Requests : TitleOf[r] = t /\ request[r] = "pending"}

(* InsertPending selects first; a pending row is returned as it is. *)
Queue(h, t) ==
  /\ process = "up" /\ call[h] = Idle
  /\ PendingFor(t) = {}
  /\ call' = [call EXCEPT ![h] = [pc |-> "inserting", title |-> t, req |-> NoRequest]]
  /\ UNCHANGED <<outboxVars, request, library, airVars>>

(* Faulty: the insert without the partial unique index. *)
QueueInsertUnchecked(h) ==
  /\ call[h].pc = "inserting"
  /\ \E r \in Requests : TitleOf[r] = call[h].title /\ request[r] = "none"
                         /\ request' = [request EXCEPT ![r] = "pending"]
  /\ Returns(h)
  /\ UNCHANGED <<outboxVars, library, airVars>>

(* The insert; the index turns a second pending row into a reselect.       *)
QueueInsert(h) ==
  /\ call[h].pc = "inserting"
  /\ \/ /\ PendingFor(call[h].title) = {}
        /\ \E r \in Requests : TitleOf[r] = call[h].title /\ request[r] = "none"
                               /\ request' = [request EXCEPT ![r] = "pending"]
     \/ PendingFor(call[h].title) # {} /\ UNCHANGED request
  /\ Returns(h)
  /\ UNCHANGED <<outboxVars, library, airVars>>

(* Approve loads the request; one that is approved is a no-op. *)
Approve(h, r) ==
  /\ process = "up" /\ call[h] = Idle
  /\ request[r] \in {"pending", "denied"}
  /\ call' = [call EXCEPT ![h] = [pc |-> "adding", title |-> TitleOf[r], req |-> r]]
  /\ UNCHANGED <<outboxVars, request, library, airVars>>

(* Faulty: the transition does not wait for the add. *)
AddedLater(h) ==
  /\ call[h].pc = "adding"
  /\ call' = [call EXCEPT ![h].pc = "approved"]
  /\ UNCHANGED <<outboxVars, request, library, airVars>>

(* AddTV, AddMovie.  Radarr's "already added" is a success, Sonarr's is an *)
(* error.                                                                  *)
Added(h) ==
  /\ call[h].pc = "adding"
  /\ call[h].title \in library => call[h].title \in Movies
  /\ library' = library \cup {call[h].title}
  /\ call' = [call EXCEPT ![h].pc = "approved"]
  /\ UNCHANGED <<outboxVars, request, airVars>>

(* The add errs; Sonarr may have taken it and only the answer got lost. *)
AddFails(h) ==
  /\ call[h].pc = "adding"
  /\ library' \in {library, library \cup {call[h].title}}
  /\ Returns(h)
  /\ UNCHANGED <<outboxVars, request, airVars>>

(* Deny loads the request; one that is denied is a no-op. *)
Deny(h, r) ==
  /\ process = "up" /\ call[h] = Idle
  /\ request[r] \in {"pending", "approved"}
  /\ call' = [call EXCEPT ![h] = [pc |-> "denied", title |-> TitleOf[r], req |-> r]]
  /\ UNCHANGED <<outboxVars, request, library, airVars>>

(* transition: SetStatus, whatever the status is by now, and the event. *)
Transition(h) ==
  /\ call[h].pc \in Verdicts
  /\ request' = [request EXCEPT ![call[h].req] = call[h].pc]
  /\ Insert(Turn(call[h].req, call[h].pc))
  /\ Returns(h)
  /\ UNCHANGED <<dispatcherOnly, library, airVars>>

(* A statement fails, nothing is stored, the caller gets the error. *)
CallFails(h) ==
  /\ call[h].pc \in Verdicts \cup {"inserting"}
  /\ Returns(h)
  /\ UNCHANGED <<outboxVars, request, library, airVars>>

RequestStep(h) ==
  \/ \E t \in Titles : Queue(h, t)
  \/ \E r \in Requests : Approve(h, r) \/ Deny(h, r)
  \/ QueueInsert(h) \/ Added(h) \/ AddFails(h) \/ Transition(h) \/ CallFails(h)

-----------------------------------------------------------------------------
(* Air dates.  One job per series runs at a time, so one handle. *)

(* The worker commits what TMDB says; no date leaves the stored one. *)
Refresh(d) ==
  /\ process = "up" /\ handle = NoHandle
  /\ airDate' = IF d = NoDate THEN airDate ELSE d
  /\ hydrated' = TRUE
  /\ handle' = [pc |-> "announcing", first |-> ~hydrated, old |-> airDate]
  /\ UNCHANGED <<outboxVars, requestVars, marked>>

(* Not on the first hydration, and only for another date than before. *)
Announces == handle.pc = "announcing" /\ ~handle.first /\ airDate \notin {NoDate, handle.old}

NothingToAnnounce ==
  /\ handle.pc = "announcing" /\ ~Announces
  /\ handle' = NoHandle
  /\ UNCHANGED <<outboxVars, requestVars, airDate, hydrated, marked>>

Unmarked == {Announcement(f, airDate) : f \in Followers} \ marked

(* Faulty: the rows without the marks. *)
AnnounceUnmarked ==
  /\ Announces
  /\ \E f \in Followers : Insert(Announcement(f, airDate))
  /\ handle' = NoHandle
  /\ UNCHANGED <<dispatcherOnly, requestVars, airDate, hydrated, marked>>

(* MaybeAnnounce: MarkIfNew and Insert for each follower, in one transaction. *)
Announce ==
  /\ Announces
  /\ LET new == SetToSeq(Unmarked) IN
       /\ last + Len(new) <= MaxRows
       /\ last' = last + Len(new)
       /\ outbox' = [id \in Rows |-> IF id \in last + 1 .. last'
                                       THEN Pending(new[id - last]) ELSE outbox[id]]
  /\ marked' = marked \cup Unmarked
  /\ handle' = NoHandle
  /\ UNCHANGED <<dispatcherOnly, requestVars, airDate, hydrated>>

(* The followers cannot be listed or the transaction fails: logged, dropped. *)
AnnounceFails ==
  /\ Announces
  /\ handle' = NoHandle
  /\ UNCHANGED <<outboxVars, requestVars, airDate, hydrated, marked>>

AirStep == (\E d \in Answers : Refresh(d)) \/ NothingToAnnounce \/ Announce \/ AnnounceFails

-----------------------------------------------------------------------------
(* The process takes its calls and its job with it. *)
Dies ==
  /\ ProcessEnds
  /\ call' = [h \in Handlers |-> Idle]
  /\ handle' = NoHandle
  /\ UNCHANGED <<request, library, airDate, hydrated, marked>>

Next ==
  \/ /\ \/ DispatchStep \/ Stop \/ Restart
        \/ \E id \in Rows : RestOver(id)
     /\ UNCHANGED <<requestVars, airVars>>
  \/ \E h \in Handlers : RequestStep(h)
  \/ AirStep
  \/ Dies

Spec == Init /\ [][Next]_vars

(* The dispatcher's goroutine is scheduled and time passes; calls, edits    *)
(* and the process itself have no fairness.                                 *)
DispatcherRuns ==
  /\ WF_vars(DispatchStep /\ UNCHANGED <<requestVars, airVars>>)
  /\ \A id \in Rows : WF_vars(RestOver(id) /\ UNCHANGED <<requestVars, airVars>>)
FairSpec == Spec /\ DispatcherRuns

-----------------------------------------------------------------------------
TypeOK ==
  /\ OutboxTypeOK
  /\ request \in [Requests -> Verdicts \cup {"none", "pending"}]
  /\ library \subseteq Titles
  /\ call \in [Handlers -> [pc : Verdicts \cup {"idle", "inserting", "adding"},
                            title : Titles \cup {NoRequest},
                            req : Requests \cup {NoRequest}]]
  /\ airDate \in Dates \cup {NoDate}
  /\ hydrated \in BOOLEAN
  /\ handle \in [pc : {"idle", "announcing"}, first : BOOLEAN, old : Dates \cup {NoDate}]
  /\ marked \subseteq Events

(* InsertPending: a user has one pending request for a title, though two    *)
(* calls may both select none before either inserts.                        *)
OnePending == \A t \in Titles : Cardinality(PendingFor(t)) <= 1

(* Approve: an approved request is one whose title was taken, in every race *)
(* of approvals and denials and across lost answers and restarts.           *)
ApprovedIsTaken ==
  \A r \in Requests : request[r] = "approved" => TitleOf[r] \in library

(* notified_events: a follower is told of an air date once, however often   *)
(* the date moves away and back and whatever fails in between.              *)
AnnouncedOnce ==
  \A f \in Followers, d \in Dates :
    /\ Cardinality(RowsAbout(Announcement(f, d))) <= 1
    /\ Announcement(f, d) \in marked <=> RowsAbout(Announcement(f, d)) # {}

(* Every row ends delivered or dead, also behind rows that keep failing,    *)
(* once the process stays up.                                               *)
RowsSettle == <>[](process = "up") => \A id \in Rows :
  outbox[id].status = "pending" ~> outbox[id].status # "pending"
=============================================================================
