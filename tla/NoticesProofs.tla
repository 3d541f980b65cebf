----------------------------- MODULE NoticesProofs -----------------------------
(***************************************************************************)
(* Proofs about Notices for any handlers, requests, titles, dates and      *)
(* followers: what becomes of requests, what is announced, and that the    *)
(* outbox keeps its promises under these producers.                        *)
(***************************************************************************)
EXTENDS Notices, OutboxProofs, SequenceTheorems

RequestTypeOK ==
  /\ request \in [Requests -> Verdicts \cup {"none", "pending"}]
  /\ library \subseteq Titles
  /\ call \in [Handlers -> [pc : Verdicts \cup {"idle", "inserting", "adding"},
                            title : Titles \cup {NoRequest},
                            req : Requests \cup {NoRequest}]]
AirTypeOK ==
  /\ airDate \in Dates \cup {NoDate}
  /\ hydrated \in BOOLEAN
  /\ handle \in [pc : {"idle", "announcing"}, first : BOOLEAN, old : Dates \cup {NoDate}]
  /\ marked \subseteq Events

(* A call past its read works on a request and on the title of it, and one  *)
(* that is to settle an approval has seen Sonarr or Radarr take the title.  *)
CallsMeant ==
  \A h \in Handlers :
    /\ call[h].pc \in Verdicts \cup {"adding"} =>
         call[h].req \in Requests /\ call[h].title = TitleOf[call[h].req]
    /\ call[h].pc = "approved" => call[h].title \in library

OnePendingEach ==
  \A r, s \in Requests :
    TitleOf[r] = TitleOf[s] /\ request[r] = "pending" /\ request[s] = "pending" => r = s

RequestInv == RequestTypeOK /\ CallsMeant /\ OnePendingEach /\ ApprovedIsTaken

(* An announcement is marked exactly when it has its row, and has no other. *)
AnnouncedExact ==
  \A f \in Followers, d \in Dates :
    /\ \A i, j \in RowsAbout(Announcement(f, d)) : i = j
    /\ Announcement(f, d) \in marked <=> RowsAbout(Announcement(f, d)) # {}

IInv == OutboxInv /\ RequestInv /\ AirTypeOK /\ AnnouncedExact

-----------------------------------------------------------------------------
(* Requests: lemmas about the state that only calls touch. *)

LEMMA InitInv == Init => IInv
<1> SUFFICES ASSUME Init PROVE IInv
  OBVIOUS
<1>1. OutboxInv
  BY OutboxInitInv DEF Init
<1>2. RequestInv
  <2>1. RequestTypeOK
    BY DEF Init, RequestTypeOK, Idle, Verdicts
  <2>2. CallsMeant /\ OnePendingEach /\ ApprovedIsTaken
    BY DEF Init, CallsMeant, OnePendingEach, ApprovedIsTaken, Idle, Verdicts
  <2>3. QED BY <2>1, <2>2 DEF RequestInv
<1>3. AirTypeOK
  BY DEF Init, AirTypeOK, NoHandle
<1>4. AnnouncedExact
  <2>1. \A f \in Followers, d \in Dates : RowsAbout(Announcement(f, d)) = {}
    BY NoticesAssumption, OutboxAssumption DEF Init, OutboxInit, RowsAbout, Free
  <2>2. QED BY <2>1 DEF AnnouncedExact, Init
<1>5. QED BY <1>1, <1>2, <1>3, <1>4 DEF IInv

(* A call that comes back leaves nothing behind. *)
LEMMA ReturnsInv ==
  ASSUME RequestTypeOK, CallsMeant, NEW h \in Handlers, Returns(h),
         library' \in SUBSET Titles, library \subseteq library',
         request' \in [Requests -> Verdicts \cup {"none", "pending"}]
  PROVE  RequestTypeOK' /\ CallsMeant'
<1>1. Idle \in [pc : Verdicts \cup {"idle", "inserting", "adding"},
                title : Titles \cup {NoRequest}, req : Requests \cup {NoRequest}]
  BY DEF Idle
<1>2. RequestTypeOK'
  BY <1>1 DEF RequestTypeOK, Returns
<1>3. \A g \in Handlers : call'[g] = Idle \/ call'[g] = call[g]
  BY DEF RequestTypeOK, Returns
<1>4. CallsMeant'
  BY <1>3 DEF CallsMeant, Idle, Verdicts
<1>5. QED BY <1>2, <1>4

(* A call that goes on: it means a request and its title, and an approval   *)
(* only goes on to its settling with a title that was taken.                *)
LEMMA GoesOnInv ==
  ASSUME RequestInv, NEW h \in Handlers,
         NEW p \in Verdicts \cup {"inserting", "adding"}, NEW t \in Titles,
         NEW r \in Requests \cup {NoRequest},
         p # "inserting" => r \in Requests /\ t = TitleOf[r],
         p = "approved" => t \in library',
         call' = [call EXCEPT ![h] = [pc |-> p, title |-> t, req |-> r]],
         UNCHANGED request, library' \in SUBSET Titles, library \subseteq library'
  PROVE  RequestInv'
<1> USE DEF RequestInv
<1>1. RequestTypeOK'
  BY DEF RequestTypeOK
<1>2. \A g \in Handlers : call'[g] = IF g = h THEN [pc |-> p, title |-> t, req |-> r] ELSE call[g]
  BY DEF RequestTypeOK
<1>3. CallsMeant'
  BY <1>2 DEF CallsMeant, Verdicts
<1>4. (OnePendingEach /\ ApprovedIsTaken)'
  BY DEF OnePendingEach, ApprovedIsTaken
<1>5. QED BY <1>1, <1>3, <1>4

LEMMA RequestReads ==
  ASSUME RequestInv, NEW h \in Handlers,
         \/ \E t \in Titles : Queue(h, t)
         \/ \E r \in Requests : Approve(h, r) \/ Deny(h, r)
  PROVE  RequestInv'
<1>1. library \subseteq Titles
  BY DEF RequestInv, RequestTypeOK
<1>2. ASSUME NEW t \in Titles, Queue(h, t) PROVE RequestInv'
  <2>1. /\ call' = [call EXCEPT ![h] = [pc |-> "inserting", title |-> t, req |-> NoRequest]]
        /\ UNCHANGED request /\ library' \in SUBSET Titles /\ library \subseteq library'
    BY <1>1, <1>2 DEF Queue
  <2>2. QED BY <2>1, GoesOnInv
<1>3. ASSUME NEW r \in Requests, NEW p \in {"adding", "denied"},
             call' = [call EXCEPT ![h] = [pc |-> p, title |-> TitleOf[r], req |-> r]],
             UNCHANGED <<request, library>>
      PROVE  RequestInv'
  <2>1. /\ TitleOf[r] \in Titles /\ p \in Verdicts \cup {"inserting", "adding"}
        /\ p # "approved" /\ library' \in SUBSET Titles /\ library \subseteq library'
    BY <1>1, <1>3, NoticesAssumption DEF Verdicts
  <2>2. QED BY <1>3, <2>1, GoesOnInv
<1>4. ASSUME NEW r \in Requests, Approve(h, r) \/ Deny(h, r) PROVE RequestInv'
  BY <1>3, <1>4 DEF Approve, Deny
<1>5. QED BY <1>2, <1>3, <1>4

(* The unique index: the row becomes pending when no row of the title is.   *)
LEMMA QueueInsertInv ==
  ASSUME RequestInv, NEW h \in Handlers, QueueInsert(h)
  PROVE  RequestInv'
<1> USE DEF RequestInv
<1>1. CASE UNCHANGED request
  <2>1. RequestTypeOK' /\ CallsMeant'
    BY <1>1, ReturnsInv DEF QueueInsert, RequestTypeOK
  <2>2. QED BY <1>1, <2>1 DEF QueueInsert, OnePendingEach, ApprovedIsTaken
<1>2. ASSUME NEW r \in Requests, PendingFor(call[h].title) = {}, TitleOf[r] = call[h].title,
             request[r] = "none", request' = [request EXCEPT ![r] = "pending"]
      PROVE  RequestInv'
  <2>1. /\ request' \in [Requests -> Verdicts \cup {"none", "pending"}]
        /\ request'[r] = "pending" /\ \A s \in Requests \ {r} : request'[s] = request[s]
    BY <1>2 DEF RequestTypeOK
  <2>2. RequestTypeOK' /\ CallsMeant'
    BY <2>1, ReturnsInv DEF QueueInsert, RequestTypeOK
  <2>3. \A s \in Requests : TitleOf[s] = TitleOf[r] => request[s] # "pending"
    BY <1>2 DEF PendingFor
  <2>4. OnePendingEach'
    BY <2>1, <2>3 DEF OnePendingEach
  <2>5. ApprovedIsTaken'
    BY <2>1 DEF ApprovedIsTaken, QueueInsert
  <2>6. QED BY <2>2, <2>4, <2>5
<1>3. QED BY <1>1, <1>2 DEF QueueInsert

LEMMA AddedInv ==
  ASSUME RequestInv, NEW h \in Handlers, Added(h) \/ AddFails(h)
  PROVE  RequestInv'
<1> USE DEF RequestInv
<1>1. /\ call[h].pc = "adding" /\ call[h].req \in Requests
      /\ call[h].title = TitleOf[call[h].req] /\ call[h].title \in Titles
      /\ call[h] = [pc |-> "adding", title |-> call[h].title, req |-> call[h].req]
  BY NoticesAssumption DEF Added, AddFails, CallsMeant, RequestTypeOK
<1>2. library \subseteq library' /\ library' \in SUBSET Titles /\ UNCHANGED request
  BY <1>1 DEF Added, AddFails, RequestTypeOK
<1>3. CASE Added(h)
  <2>1. call' = [call EXCEPT ![h] = [pc |-> "approved", title |-> call[h].title,
                                     req |-> call[h].req]]
    <3>1. call' = [call EXCEPT ![h].pc = "approved"]
      BY <1>3 DEF Added
    <3>2. [call[h] EXCEPT !.pc = "approved"]
            = [pc |-> "approved", title |-> call[h].title, req |-> call[h].req]
      BY <1>1
    <3>3. call' = [call EXCEPT ![h] = [call[h] EXCEPT !.pc = "approved"]]
      BY <3>1
    <3>4. QED BY <3>2, <3>3
  <2>2. call[h].title \in library'
    BY <1>3 DEF Added
  <2>3. QED BY <1>1, <1>2, <2>1, <2>2, GoesOnInv DEF Verdicts
<1>4. CASE AddFails(h)
  <2>1. RequestTypeOK' /\ CallsMeant'
    BY <1>2, <1>4, ReturnsInv DEF AddFails, RequestTypeOK
  <2>2. QED BY <1>2, <2>1 DEF OnePendingEach, ApprovedIsTaken
<1>5. QED BY <1>3, <1>4

(* Settling makes no request pending, and an approval has its title taken.  *)
LEMMA TransitionInv ==
  ASSUME RequestInv, NEW h \in Handlers, Transition(h)
  PROVE  RequestInv'
<1> USE DEF RequestInv
<1>1. /\ call[h].pc \in Verdicts /\ call[h].req \in Requests
      /\ call[h].title = TitleOf[call[h].req]
      /\ call[h].pc = "approved" => call[h].title \in library
  BY DEF Transition, CallsMeant
<1>2. /\ request' \in [Requests -> Verdicts \cup {"none", "pending"}]
      /\ request'[call[h].req] = call[h].pc
      /\ \A s \in Requests \ {call[h].req} : request'[s] = request[s]
      /\ library' = library
  BY <1>1 DEF Transition, RequestTypeOK
<1>3. RequestTypeOK' /\ CallsMeant'
  BY <1>2, ReturnsInv DEF Transition, RequestTypeOK
<1>4. (OnePendingEach /\ ApprovedIsTaken)'
  BY <1>1, <1>2 DEF OnePendingEach, ApprovedIsTaken, Verdicts
<1>5. QED BY <1>3, <1>4

LEMMA CallFailsInv ==
  ASSUME RequestInv, NEW h \in Handlers, CallFails(h)
  PROVE  RequestInv'
<1> USE DEF RequestInv
<1>1. RequestTypeOK' /\ CallsMeant'
  BY ReturnsInv DEF CallFails, RequestTypeOK
<1>2. QED BY <1>1 DEF CallFails, OnePendingEach, ApprovedIsTaken

LEMMA RequestFrame ==
  ASSUME RequestInv, UNCHANGED requestVars
  PROVE  RequestInv'
BY DEF RequestInv, requestVars, RequestTypeOK, CallsMeant, OnePendingEach, ApprovedIsTaken

-----------------------------------------------------------------------------
(* Announcements. *)

(* A finite set listed as a sequence: each element at exactly one place.    *)
LEMMA ListsEachOnce ==
  ASSUME NEW S, IsFiniteSet(S)
  PROVE  /\ Len(SetToSeq(S)) \in Nat
         /\ SetToSeq(S) \in [1..Len(SetToSeq(S)) -> S]
         /\ \A i, j \in 1..Len(SetToSeq(S)) : SetToSeq(S)[i] = SetToSeq(S)[j] => i = j
         /\ \A x \in S : \E i \in 1..Len(SetToSeq(S)) : SetToSeq(S)[i] = x
<1> DEFINE n == Cardinality(S)
           s == SetToSeq(S)
<1>1. n \in Nat /\ \E f \in [1..n -> S] : IsInjective(f)
  BY FS_CardinalityType DEF ExistsBijection, Bijection, Injection, IsInjective
<1>2. s \in [1..n -> S] /\ IsInjective(s)
  BY <1>1 DEF SetToSeq
<1> HIDE DEF s, n
<1>3. s \in Injection(1..n, S)
  BY <1>2 DEF Injection, IsInjective
<1>4. Cardinality(1..n) = n
  BY <1>1, FS_Interval
<1>5. s \in Surjection(1..n, S)
  BY <1>3, <1>4, FS_Injection DEF n
<1>6. Len(s) = n
  <2>1. s \in Seq(S)
    BY <1>1, <1>2, SeqDef
  <2>2. Len(s) \in Nat /\ 1..Len(s) = 1..n
    BY <1>2, <2>1, LenProperties
  <2>3. QED BY <1>1, <2>2
<1>7. QED
  BY <1>1, <1>2, <1>5, <1>6 DEF s, Surjection, IsInjective

LEMMA AirFrame ==
  ASSUME AirTypeOK, AnnouncedExact, UNCHANGED marked,
         airDate' \in Dates \cup {NoDate}, hydrated' \in BOOLEAN,
         handle' \in [pc : {"idle", "announcing"}, first : BOOLEAN, old : Dates \cup {NoDate}],
         \A f \in Followers, d \in Dates :
           RowsAbout(Announcement(f, d))' = RowsAbout(Announcement(f, d))
  PROVE  AirTypeOK' /\ AnnouncedExact'
<1>1. AirTypeOK'
  BY DEF AirTypeOK
<1>2. AnnouncedExact'
  BY DEF AnnouncedExact
<1>3. QED BY <1>1, <1>2

(* The other producer inserts rows about requests. *)
LEMMA TurnInserted ==
  ASSUME OutboxInv, NEW r \in Requests, NEW v \in Verdicts, Insert(Turn(r, v)),
         UNCHANGED dispatcherOnly
  PROVE  /\ OutboxInv'
         /\ \A f \in Followers, d \in Dates :
              RowsAbout(Announcement(f, d))' = RowsAbout(Announcement(f, d))
<1> DEFINE e == Turn(r, v)
<1>1. e \in Events
  BY NoticesAssumption DEF Verdicts
<1>2. \A f \in Followers, d \in Dates : e # Announcement(f, d)
  BY DEF Turn, Announcement
<1>3. /\ last \in Nat /\ last < MaxRows /\ last' = last + 1 /\ last + 1 \in Rows
      /\ outbox' = [outbox EXCEPT ![last + 1] = Pending(e)]
      /\ UNCHANGED <<process, dispatchVars, historyVars>>
  BY OutboxAssumption DEF OutboxInv, OutboxTypeOK, Insert, HasRoom, Rows, dispatcherOnly
<1> HIDE DEF e
<1>4. /\ outbox' = [id \in Rows |-> outbox'[id]]
      /\ \A id \in Rows : outbox'[id] = IF id = last + 1 THEN Pending(e) ELSE outbox[id]
  BY <1>3 DEF OutboxInv, OutboxTypeOK
<1>5. OutboxInv'
  <2>1. last' \in last .. MaxRows
    BY <1>3, OutboxAssumption
  <2>2. \A id \in last + 1 .. last' : id = last + 1
    BY <1>3
  <2>3. last + 1 \in last + 1 .. last'
    BY <1>3
  <2>4. QED BY <1>1, <1>3, <1>4, <2>1, <2>2, <2>3, InsertsInv
<1>6. ASSUME NEW f \in Followers, NEW d \in Dates
      PROVE  RowsAbout(Announcement(f, d))' = RowsAbout(Announcement(f, d))
  <2> DEFINE a == Announcement(f, d)
  <2>1. a # NoEvent /\ a # e
    BY <1>2, NoticesAssumption, OutboxAssumption
  <2>2. outbox[last + 1].event = NoEvent /\ Pending(e).event = e
    BY <1>3 DEF OutboxInv, RestFree, Free, Pending
  <2> HIDE DEF a
  <2>3. {id \in Rows : outbox'[id].event = a} = {id \in Rows : outbox[id].event = a}
    BY <1>3, <1>4, <2>1, <2>2
  <2>4. QED BY <2>3 DEF RowsAbout, a
<1>7. QED BY <1>5, <1>6

(* Finitely many followers are told of finitely much. *)
LEMMA FollowersToldFinite ==
  ASSUME IsFiniteSet(Followers), NEW d
  PROVE  IsFiniteSet({Announcement(f, d) : f \in Followers})
<1> DEFINE T == {Announcement(f, d) : f \in Followers}
           told == [f \in Followers |-> Announcement(f, d)]
<1>1. told \in Surjection(Followers, T)
  BY DEF Surjection
<1>2. QED BY <1>1, FS_Surjection

(* MaybeAnnounce: one row, and the mark, for each follower that has none.   *)
LEMMA AnnounceInv ==
  ASSUME OutboxInv, AirTypeOK, AnnouncedExact, Announce
  PROVE  OutboxInv' /\ AirTypeOK' /\ AnnouncedExact'
<1> DEFINE new == SetToSeq(Unmarked)
           n == Len(new)
<1>1. airDate \in Dates /\ IsFiniteSet(Unmarked) /\ Unmarked \subseteq Events
  <2>1. airDate \in Dates
    BY DEF Announce, Announces, AirTypeOK
  <2>2. IsFiniteSet({Announcement(f, airDate) : f \in Followers})
    BY NoticesAssumption, FollowersToldFinite
  <2>3. IsFiniteSet(Unmarked)
    BY <2>2, FS_Difference DEF Unmarked
  <2>4. QED BY <2>1, <2>3, NoticesAssumption DEF Unmarked
<1>2. /\ n \in Nat /\ new \in [1..n -> Unmarked]
      /\ \A i, j \in 1..n : new[i] = new[j] => i = j
      /\ \A x \in Unmarked : \E i \in 1..n : new[i] = x
  BY <1>1, ListsEachOnce
<1>3. /\ last + n <= MaxRows /\ last' = last + n
      /\ outbox' = [id \in Rows |-> IF id \in last + 1 .. last'
                                      THEN Pending(new[id - last]) ELSE outbox[id]]
      /\ marked' = marked \cup Unmarked /\ handle' = NoHandle
      /\ UNCHANGED <<process, dispatchVars, historyVars, airDate, hydrated>>
  BY DEF Announce, dispatcherOnly
<1> HIDE DEF new, n
<1>4. last \in Nat /\ last' \in Nat /\ \A id \in last + 1 .. last' : id - last \in 1..n /\ id \in Rows
  BY <1>2, <1>3, OutboxAssumption DEF OutboxInv, OutboxTypeOK, Rows
<1>5. OutboxInv'
  <2>1. last' \in last .. MaxRows
    BY <1>2, <1>3, <1>4, OutboxAssumption
  <2>2. \A id \in last + 1 .. last' : outbox'[id] = Pending(new[id - last]) /\ new[id - last] \in Events
    BY <1>1, <1>2, <1>3, <1>4
  <2>3. \A id \in Rows : id \notin last + 1 .. last' => outbox'[id] = outbox[id]
    BY <1>3
  <2>4. outbox' = [id \in Rows |-> outbox'[id]]
    BY <1>3
  <2>5. QED BY <1>3, <2>1, <2>2, <2>3, <2>4, InsertsInv
<1>6. AirTypeOK'
  BY <1>1, <1>3 DEF AirTypeOK, NoHandle
<1>7. ASSUME NEW f \in Followers, NEW d \in Dates
      PROVE  /\ \A i, j \in RowsAbout(Announcement(f, d))' : i = j
             /\ Announcement(f, d) \in marked' <=> RowsAbout(Announcement(f, d))' # {}
  <2> DEFINE a == Announcement(f, d)
             before == {id \in Rows : outbox[id].event = a}
             added == {id \in last + 1 .. last' : new[id - last] = a}
  <2>1. a # NoEvent /\ a \in Events
    BY NoticesAssumption, OutboxAssumption
  <2>2. /\ \A i, j \in before : i = j
        /\ a \in marked <=> before # {}
    BY DEF AnnouncedExact, RowsAbout
  <2> HIDE DEF a
  <2>3. \A id \in before : id \notin last + 1 .. last'
    <3>1. \A id \in last + 1 .. last' : outbox[id].event = NoEvent
      BY <1>4 DEF OutboxInv, RestFree, Free
    <3>2. QED BY <2>1, <3>1
  <2>4. {id \in Rows : outbox'[id].event = a} = before \cup added
    <3>1. \A id \in last + 1 .. last' : outbox'[id].event = new[id - last]
      BY <1>3, <1>4 DEF Pending
    <3>2. \A id \in Rows : id \notin last + 1 .. last' => outbox'[id].event = outbox[id].event
      BY <1>3
    <3>3. QED BY <1>4, <2>3, <3>1, <3>2
  <2>5. \A i, j \in added : i = j
    BY <1>2, <1>4
  <2>6. added # {} <=> a \in Unmarked
    <3>1. ASSUME NEW id \in added PROVE a \in Unmarked
      BY <1>2, <1>4
    <3>2. ASSUME a \in Unmarked PROVE added # {}
      <4>1. PICK i \in 1..n : new[i] = a
        BY <1>2, <3>2
      <4>2. last + i \in last + 1 .. last' /\ (last + i) - last = i
        BY <1>2, <1>3, <1>4
      <4>3. QED BY <4>1, <4>2
    <3>3. QED BY <3>1, <3>2
  <2>7. a \in Unmarked => a \notin marked
    BY DEF Unmarked
  <2> HIDE DEF before, added
  <2>8. /\ \A i, j \in before \cup added : i = j
        /\ a \in marked' <=> before \cup added # {}
    BY <1>3, <2>2, <2>5, <2>6, <2>7
  <2>9. QED BY <2>4, <2>8 DEF a, RowsAbout
<1>8. QED BY <1>5, <1>6, <1>7 DEF AnnouncedExact

-----------------------------------------------------------------------------
(* Every step keeps the invariant. *)

(* While the outbox rests, so do its promises and what it announces.        *)
LEMMA OutboxFrame ==
  ASSUME OutboxInv, UNCHANGED outboxVars
  PROVE  /\ OutboxInv'
         /\ \A f \in Followers, d \in Dates :
              RowsAbout(Announcement(f, d))' = RowsAbout(Announcement(f, d))
<1>1. UNCHANGED <<storeVars, dispatchVars, historyVars>> /\ process' = process
  BY DEF outboxVars
<1>2. OutboxInv'
  BY <1>1, ProcessInv DEF OutboxInv, OutboxTypeOK
<1>3. QED BY <1>1, <1>2 DEF RowsAbout, storeVars

LEMMA OutboxActs ==
  ASSUME IInv, OutboxStep, UNCHANGED <<requestVars, airVars>>
  PROVE  IInv'
<1> USE DEF IInv
<1>1. OutboxInv'
  BY OutboxStepInv
<1>2. RequestInv'
  BY RequestFrame
<1>3. \A f \in Followers, d \in Dates :
        RowsAbout(Announcement(f, d))' = RowsAbout(Announcement(f, d))
  BY EventsKept DEF RowsAbout
<1>4. AirTypeOK' /\ AnnouncedExact'
  BY <1>3, AirFrame DEF airVars, AirTypeOK
<1>5. QED BY <1>1, <1>2, <1>4

LEMMA RequestActs ==
  ASSUME IInv, NEW h \in Handlers, RequestStep(h)
  PROVE  IInv'
<1> USE DEF IInv
<1>1. RequestInv'
  BY RequestReads, QueueInsertInv, AddedInv, TransitionInv, CallFailsInv DEF RequestStep
<1>2. /\ OutboxInv'
      /\ \A f \in Followers, d \in Dates :
           RowsAbout(Announcement(f, d))' = RowsAbout(Announcement(f, d))
  <2>1. CASE Transition(h)
    <3>1. call[h].pc \in Verdicts /\ call[h].req \in Requests
      BY <2>1 DEF Transition, RequestInv, CallsMeant
    <3>2. QED BY <2>1, <3>1, TurnInserted DEF Transition
  <2>2. CASE UNCHANGED outboxVars
    BY <2>2, OutboxFrame
  <2>3. QED
    BY <2>1, <2>2 DEF RequestStep, Queue, Approve, Deny, QueueInsert, Added, AddFails, CallFails
<1>3. UNCHANGED airVars
  BY DEF RequestStep, Queue, Approve, Deny, QueueInsert, Added, AddFails, CallFails, Transition
<1>4. AirTypeOK' /\ AnnouncedExact'
  BY <1>2, <1>3, AirFrame DEF airVars, AirTypeOK
<1>5. QED BY <1>1, <1>2, <1>4

LEMMA AirActs ==
  ASSUME IInv, AirStep
  PROVE  IInv'
<1> USE DEF IInv
<1>1. CASE Announce
  <2>1. RequestInv'
    BY <1>1, RequestFrame DEF Announce
  <2>2. QED BY <1>1, <2>1, AnnounceInv
<1>2. CASE (\E d \in Answers : Refresh(d)) \/ NothingToAnnounce \/ AnnounceFails
  <2>1. UNCHANGED <<outboxVars, requestVars, marked>>
    BY <1>2 DEF Refresh, NothingToAnnounce, AnnounceFails
  <2>2. /\ airDate' \in Dates \cup {NoDate} /\ hydrated' \in BOOLEAN
        /\ handle' \in [pc : {"idle", "announcing"}, first : BOOLEAN, old : Dates \cup {NoDate}]
    <3>1. hydrated \in BOOLEAN /\ (~hydrated) \in BOOLEAN
      BY DEF AirTypeOK
    <3>2. ASSUME NEW d \in Answers, Refresh(d)
          PROVE  /\ airDate' \in Dates \cup {NoDate} /\ hydrated' \in BOOLEAN
                 /\ handle' \in [pc : {"idle", "announcing"}, first : BOOLEAN,
                                 old : Dates \cup {NoDate}]
      BY <3>1, <3>2, NoticesAssumption DEF Refresh, AirTypeOK
    <3>3. CASE NothingToAnnounce \/ AnnounceFails
      <4>1. UNCHANGED <<airDate, hydrated>> /\ handle' = NoHandle
        BY <3>3 DEF NothingToAnnounce, AnnounceFails
      <4>2. QED BY <4>1 DEF AirTypeOK, NoHandle
    <3>4. QED BY <1>2, <3>2, <3>3
  <2>3. RequestInv'
    BY <2>1, RequestFrame
  <2>4. QED BY <2>1, <2>2, <2>3, OutboxFrame, AirFrame
<1>3. QED BY <1>1, <1>2 DEF AirStep

LEMMA DiesInv ==
  ASSUME IInv, Dies
  PROVE  IInv'
<1> USE DEF IInv
<1>1. OutboxInv'
  BY ProcessEndsInv DEF Dies
<1>2. RequestInv'
  <2>1. RequestTypeOK'
    BY DEF RequestInv, RequestTypeOK, Dies, Idle
  <2>2. CallsMeant'
    BY DEF CallsMeant, Dies, Idle, Verdicts
  <2>3. (OnePendingEach /\ ApprovedIsTaken)'
    BY DEF RequestInv, OnePendingEach, ApprovedIsTaken, Dies
  <2>4. QED BY <2>1, <2>2, <2>3 DEF RequestInv
<1>3. \A f \in Followers, d \in Dates :
        RowsAbout(Announcement(f, d))' = RowsAbout(Announcement(f, d))
  BY DEF Dies, ProcessEnds, storeVars, RowsAbout
<1>4. AirTypeOK' /\ AnnouncedExact'
  BY <1>3, AirFrame DEF Dies, AirTypeOK, NoHandle
<1>5. QED BY <1>1, <1>2, <1>4

LEMMA NextInv == IInv /\ [Next]_vars => IInv'
<1> SUFFICES ASSUME IInv, [Next]_vars PROVE IInv'
  OBVIOUS
<1>1. CASE /\ \/ DispatchStep \/ Stop \/ Restart
              \/ \E id \in Rows : RestOver(id)
           /\ UNCHANGED <<requestVars, airVars>>
  BY <1>1, OutboxActs DEF OutboxStep
<1>2. CASE \E h \in Handlers : RequestStep(h)
  BY <1>2, RequestActs
<1>3. CASE AirStep
  BY <1>3, AirActs
<1>4. CASE Dies
  BY <1>4, DiesInv
<1>5. CASE UNCHANGED vars
  <2>1. UNCHANGED <<outboxVars, requestVars, airVars>>
    BY <1>5 DEF vars
  <2>2. AirTypeOK' /\ AnnouncedExact'
    BY <2>1, OutboxFrame, AirFrame DEF IInv, airVars, AirTypeOK
  <2>3. QED BY <2>1, <2>2, OutboxFrame, RequestFrame DEF IInv
<1>6. QED BY <1>1, <1>2, <1>3, <1>4, <1>5 DEF Next

(* The inductive invariant. *)
THEOREM Invariance == Spec => []IInv
BY InitInv, NextInv, PTL DEF Spec

(* TypeOK: every variable keeps its type, under any number of handlers,     *)
(* rows and followers.                                                      *)
THEOREM TypeCorrect == Spec => []TypeOK
<1>1. IInv => TypeOK
  BY DEF IInv, OutboxInv, RequestInv, RequestTypeOK, AirTypeOK, TypeOK
<1>2. QED BY <1>1, Invariance, PTL

(* dispatchRow: a row is removed only after every agent that was subscribed *)
(* when it was last listed got it.                                          *)
THEOREM RemovedRowsDelivered == Spec => []RemovedWhenDelivered
<1>1. IInv => RemovedWhenDelivered
  BY DEF IInv, OutboxInv
<1>2. QED BY <1>1, Invariance, PTL

(* reschedule: repeats are owed to counted or lost passes, and a row is     *)
(* given up only after as many failed passes as the ceiling says.           *)
THEOREM CeilingHolds == Spec => []CeilingKept
<1>1. IInv => CeilingKept
  BY CeilingFollows DEF IInv
<1>2. QED BY <1>1, Invariance, PTL

(* InsertPending and the unique index: one pending request for a title.     *)
THEOREM OnePendingRequest == Spec => []OnePending
<1>1. ASSUME OnePendingEach, NEW t \in Titles
      PROVE  Cardinality(PendingFor(t)) <= 1
  <2>1. CASE PendingFor(t) = {}
    BY <2>1, FS_EmptySet
  <2>2. ASSUME NEW r \in PendingFor(t) PROVE Cardinality(PendingFor(t)) <= 1
    <3>1. PendingFor(t) = {r}
      BY <1>1, <2>2 DEF PendingFor, OnePendingEach
    <3>2. QED BY <3>1, FS_Singleton
  <2>3. QED BY <2>1, <2>2
<1>2. IInv => OnePending
  BY <1>1 DEF IInv, RequestInv, OnePending
<1>3. QED BY <1>2, Invariance, PTL

(* Approve: whatever calls race, an approved request is one whose title     *)
(* Sonarr or Radarr has taken.                                              *)
THEOREM ApprovedRequestsTaken == Spec => []ApprovedIsTaken
<1>1. IInv => ApprovedIsTaken
  BY DEF IInv, RequestInv
<1>2. QED BY <1>1, Invariance, PTL

(* notified_events: one row, ever, for a follower and a date, and the mark  *)
(* exactly when there is the row.                                           *)
THEOREM AnnouncedOnlyOnce == Spec => []AnnouncedOnce
<1>1. ASSUME AnnouncedExact, NEW f \in Followers, NEW d \in Dates
      PROVE  Cardinality(RowsAbout(Announcement(f, d))) <= 1
  <2> DEFINE R == RowsAbout(Announcement(f, d))
  <2>1. \A i, j \in R : i = j
    BY <1>1 DEF AnnouncedExact
  <2> HIDE DEF R
  <2>2. CASE R = {}
    BY <2>2, FS_EmptySet DEF R
  <2>3. ASSUME NEW i \in R PROVE Cardinality(R) <= 1
    <3>1. R = {i}
      BY <2>1, <2>3
    <3>2. QED BY <3>1, FS_Singleton
  <2>4. QED BY <2>2, <2>3 DEF R
<1>2. IInv => AnnouncedOnce
  BY <1>1 DEF IInv, AnnouncedExact, AnnouncedOnce
<1>3. QED BY <1>2, Invariance, PTL
=============================================================================
