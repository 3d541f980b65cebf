-------------------------- MODULE EnrichQueueProofs --------------------------
(***************************************************************************)
(* Proofs about EnrichQueue for any kinds, ids, pools and capacities: the  *)
(* bookkeeping invariant of the queue and its implementation of EnrichJobs.*)
(***************************************************************************)
EXTENDS EnrichQueue, SequenceTheorems, FiniteSetTheorems, TLAPS

(* A worker with a handler has a job; used with the checked invariants it   *)
(* is inductive.                                                            *)
HandlerHasJob == \A w \in Workers : pc[w] = "handler" => job[w] \in Ids

IInv == TypeOK /\ HandlerHasJob /\ SlotsAccounted /\ DepthExact /\ OneJobPerEntity

-----------------------------------------------------------------------------
(* Sending x adds it to the elements of a channel, and keeps the channel    *)
(* free of repetitions when x was not in it.                                *)
LEMMA AppendElements ==
  ASSUME NEW S, NEW s \in Seq(S), NEW x \in S
  PROVE  /\ Append(s, x) \in Seq(S)
         /\ Range(Append(s, x)) = Range(s) \cup {x}
         /\ IsInjective(s) /\ x \notin Range(s) => IsInjective(Append(s, x))
<1>1. /\ Append(s, x) \in Seq(S)
      /\ DOMAIN s = 1..Len(s)
      /\ DOMAIN Append(s, x) = 1..(Len(s) + 1)
      /\ Len(s) \in Nat
      /\ \A i \in 1..Len(s) : Append(s, x)[i] = s[i]
      /\ Append(s, x)[Len(s) + 1] = x
  OBVIOUS
<1>2. Range(Append(s, x)) = Range(s) \cup {x}
  BY <1>1 DEF Range
<1>3. IsInjective(s) /\ x \notin Range(s) => IsInjective(Append(s, x))
  BY <1>1 DEF Range, IsInjective
<1>4. QED BY <1>1, <1>2, <1>3

(* Receiving removes the head, and only it, from a channel without          *)
(* repetitions.                                                             *)
LEMMA TailElements ==
  ASSUME NEW S, NEW s \in Seq(S), s # <<>>, IsInjective(s)
  PROVE  /\ Head(s) \in S /\ Tail(s) \in Seq(S)
         /\ Head(s) \in Range(s)
         /\ Range(Tail(s)) = Range(s) \ {Head(s)}
         /\ IsInjective(Tail(s))
<1>1. /\ Head(s) \in S
      /\ Tail(s) \in Seq(S)
      /\ Len(Tail(s)) = Len(s) - 1
      /\ \A i \in 1..Len(Tail(s)) : Tail(s)[i] = s[i + 1]
      /\ Len(s) \in Nat \ {0}
      /\ DOMAIN s = 1..Len(s)
      /\ DOMAIN Tail(s) = 1..Len(Tail(s))
      /\ Head(s) = s[1]
  BY HeadTailProperties, EmptySeq, LenProperties
<1>2. \A i \in 1..(Len(s) - 1) : i + 1 \in 1..Len(s) /\ i + 1 # 1
  BY <1>1
<1>3. \A i \in 1..Len(s) : i = 1 \/ (i - 1 \in 1..(Len(s) - 1) /\ (i - 1) + 1 = i)
  BY <1>1
<1>4. Range(Tail(s)) = {s[i + 1] : i \in 1..(Len(s) - 1)}
  BY <1>1 DEF Range
<1>5. Range(Tail(s)) = Range(s) \ {Head(s)}
  <2>1. ASSUME NEW y \in Range(Tail(s)) PROVE y \in Range(s) \ {Head(s)}
    <3>1. PICK i \in 1..(Len(s) - 1) : y = s[i + 1]
      BY <1>4
    <3>2. s[i + 1] # s[1]
      BY <1>1, <1>2 DEF IsInjective
    <3>3. QED BY <3>1, <3>2, <1>1, <1>2 DEF Range
  <2>2. ASSUME NEW y \in Range(s) \ {Head(s)} PROVE y \in Range(Tail(s))
    <3>1. PICK i \in 1..Len(s) : y = s[i]
      BY <1>1 DEF Range
    <3>2. i # 1
      BY <3>1, <1>1
    <3>3. i - 1 \in 1..(Len(s) - 1) /\ y = s[(i - 1) + 1]
      BY <3>1, <3>2, <1>3
    <3>4. QED BY <3>3, <1>4
  <2>3. QED BY <2>1, <2>2
<1>6. IsInjective(Tail(s))
  <2> SUFFICES ASSUME NEW i \in 1..(Len(s) - 1), NEW j \in 1..(Len(s) - 1),
                      s[i + 1] = s[j + 1]
               PROVE  i = j
    BY <1>1 DEF IsInjective
  <2>1. i + 1 = j + 1
    BY <1>1, <1>2 DEF IsInjective
  <2>2. QED BY <2>1
<1>7. QED BY <1>1, <1>5, <1>6 DEF Range

(* An empty channel has no elements and no repetitions. *)
LEMMA EmptyElements == Range(<<>>) = {} /\ IsInjective(<<>>)
BY DEF Range, IsInjective

-----------------------------------------------------------------------------
LEMMA InitInv == Init => IInv
<1> SUFFICES ASSUME Init PROVE IInv
  OBVIOUS
<1>1. TypeOK /\ HandlerHasJob
  <2>1. chan \in [Kinds -> [Prios -> Seq(Ids)]]
    <3>1. <<>> \in Seq(Ids)
      OBVIOUS
    <3>2. QED BY <3>1 DEF Init
  <2>2. QED BY <2>1 DEF Init, TypeOK, HandlerHasJob, PCs
<1>2. \A k \in Kinds : Buffered(k) = {} /\ Handling(k) = {}
  BY EmptyElements DEF Init, Buffered, Handling, Prios
<1>3. SlotsAccounted
  BY <1>2 DEF SlotsAccounted, Init
<1>4. DepthExact
  BY FS_EmptySet DEF DepthExact, Init
<1>5. OneJobPerEntity
  BY <1>2, EmptyElements DEF OneJobPerEntity, Init, Prios
<1>6. QED BY <1>1, <1>3, <1>4, <1>5 DEF IInv

(* An accepted job: one more element of one channel, new to its kind. *)
LEMMA AcceptMoves ==
  ASSUME IInv, NEW c \in Callers, NEW k \in Kinds, NEW id \in Ids,
         NEW p \in Prios, EnqueueAccept(c, k, id, p)
  PROVE  /\ chan'[k][p] \in Seq(Ids) /\ IsInjective(chan'[k][p])
         /\ Range(chan'[k][p]) = Range(chan[k][p]) \cup {id}
         /\ \A l \in Kinds, q \in Prios : l # k \/ q # p => chan'[l][q] = chan[l][q]
         /\ id \notin Buffered(k) /\ id \notin Handling(k)
         /\ Buffered(k)' = Buffered(k) \cup {id}
         /\ \A l \in Kinds : l # k => Buffered(l)' = Buffered(l)
         /\ \A l \in Kinds : Handling(l)' = Handling(l)
<1> USE DEF IInv
<1>1. /\ chan[k][p] \in Seq(Ids) /\ IsInjective(chan[k][p])
      /\ id \notin Buffered(k) /\ id \notin Handling(k)
  BY DEF TypeOK, OneJobPerEntity, EnqueueAccept, Admissible, SlotsAccounted
<1>2. id \notin Range(chan[k][p])
  BY <1>1 DEF Buffered, Prios
<1>3. /\ chan'[k][p] = Append(chan[k][p], id)
      /\ \A l \in Kinds, q \in Prios : l # k \/ q # p => chan'[l][q] = chan[l][q]
  BY DEF EnqueueAccept, TypeOK
<1>4. /\ chan'[k][p] \in Seq(Ids) /\ IsInjective(chan'[k][p])
      /\ Range(chan'[k][p]) = Range(chan[k][p]) \cup {id}
  BY <1>1, <1>2, <1>3, AppendElements
<1>5. \A l \in Kinds : Handling(l)' = Handling(l)
  BY DEF Handling, EnqueueAccept
<1>6. /\ Buffered(k)' = Buffered(k) \cup {id}
      /\ \A l \in Kinds : l # k => Buffered(l)' = Buffered(l)
  BY <1>3, <1>4 DEF Buffered, Prios
<1>7. QED BY <1>1, <1>3, <1>4, <1>5, <1>6

LEMMA AcceptInv ==
  ASSUME IInv, NEW c \in Callers, NEW k \in Kinds, NEW id \in Ids,
         NEW p \in Prios, EnqueueAccept(c, k, id, p)
  PROVE  IInv'
<1> USE DEF IInv
<1>1. id \notin inFlight[k]
  BY DEF EnqueueAccept, Admissible
<1>2. /\ chan'[k][p] \in Seq(Ids) /\ IsInjective(chan'[k][p])
      /\ Range(chan'[k][p]) = Range(chan[k][p]) \cup {id}
      /\ \A l \in Kinds, q \in Prios : l # k \/ q # p => chan'[l][q] = chan[l][q]
      /\ id \notin Buffered(k) /\ id \notin Handling(k)
      /\ Buffered(k)' = Buffered(k) \cup {id}
      /\ \A l \in Kinds : l # k => Buffered(l)' = Buffered(l)
      /\ \A l \in Kinds : Handling(l)' = Handling(l)
  BY AcceptMoves
<1>7. TypeOK' /\ HandlerHasJob'
  BY DEF TypeOK, EnqueueAccept, HandlerHasJob
<1>8. SlotsAccounted'
  BY <1>2 DEF SlotsAccounted, EnqueueAccept, TypeOK
<1>9. DepthExact'
  <2>1. inFlight[k] \subseteq Ids /\ IsFiniteSet(inFlight[k])
    BY KindsAssumption, FS_Subset DEF TypeOK
  <2>2. Cardinality(inFlight[k] \cup {id}) = Cardinality(inFlight[k]) + 1
    BY <1>1, <2>1, FS_AddElement
  <2>3. QED BY <2>2 DEF DepthExact, EnqueueAccept, TypeOK
<1>10. OneJobPerEntity'
  <2>1. \A l \in Kinds : Buffered(l)' \cap Handling(l)' = {}
    BY <1>2 DEF OneJobPerEntity
  <2>2. ASSUME NEW l \in Kinds
        PROVE  Range(chan'[l]["hot"]) \cap Range(chan'[l]["cold"]) = {}
    <3>1. CASE l # k
      BY <3>1, <1>2 DEF OneJobPerEntity, Prios
    <3>2. CASE l = k /\ p = "hot"
      <4>1. chan'[k]["cold"] = chan[k]["cold"]
        BY <3>2, <1>2 DEF Prios
      <4>2. QED BY <3>2, <4>1, <1>2 DEF OneJobPerEntity, Buffered
    <3>3. CASE l = k /\ p = "cold"
      <4>1. chan'[k]["hot"] = chan[k]["hot"]
        BY <3>3, <1>2 DEF Prios
      <4>2. QED BY <3>3, <4>1, <1>2 DEF OneJobPerEntity, Buffered
    <3>4. QED BY <3>1, <3>2, <3>3 DEF Prios
  <2>3. \A l \in Kinds, q \in Prios : IsInjective(chan'[l][q])
    BY <1>2 DEF OneJobPerEntity
  <2>4. pc' = pc /\ job' = job
    BY DEF EnqueueAccept
  <2>5. QED BY <2>1, <2>2, <2>3, <2>4 DEF OneJobPerEntity
<1>11. QED BY <1>7, <1>8, <1>9, <1>10

(* The state the invariants on slots read. *)
slotVars == <<chan, inFlight, depth, pc, job>>

(* A step that leaves channels, slots and workers alone keeps them. *)
LEMMA SlotFrame ==
  ASSUME IInv, UNCHANGED slotVars
  PROVE  (HandlerHasJob /\ SlotsAccounted /\ DepthExact /\ OneJobPerEntity)'
<1>1. \A k \in Kinds : Buffered(k)' = Buffered(k) /\ Handling(k)' = Handling(k)
  BY DEF Buffered, Handling, slotVars
<1>2. QED
  BY <1>1 DEF IInv, slotVars, HandlerHasJob, SlotsAccounted, DepthExact, OneJobPerEntity

(* A dropped job leaves slot and counter as they were. *)
LEMMA DropInv ==
  ASSUME IInv, NEW c \in Callers, NEW k \in Kinds, NEW id \in Ids,
         NEW p \in Prios, EnqueueDrop(c, k, id, p)
  PROVE  IInv'
<1>1. (inFlight[k] \cup {id}) \ {id} = inFlight[k] /\ (depth[k] + 1) - 1 = depth[k]
  BY DEF IInv, TypeOK, EnqueueDrop, Admissible
<1>2. UNCHANGED slotVars
  BY <1>1 DEF EnqueueDrop, slotVars, IInv, TypeOK
<1>3. TypeOK'
  BY <1>1 DEF EnqueueDrop, IInv, TypeOK
<1>4. QED BY <1>2, <1>3, SlotFrame DEF IInv

(* A taken job moves from its channel to its worker. *)
LEMMA TakeMoves ==
  ASSUME IInv, NEW w \in Workers, NEW p \in Prios, pc[w] # "handler", Take(w, p)
  PROVE  LET k == WorkerKind[w]
             id == Head(chan[k][p])
         IN  /\ k \in Kinds /\ id \in Ids
             /\ chan'[k][p] \in Seq(Ids) /\ IsInjective(chan'[k][p])
             /\ Range(chan'[k][p]) \subseteq Range(chan[k][p])
             /\ \A l \in Kinds, q \in Prios : l # k \/ q # p => chan'[l][q] = chan[l][q]
             /\ pc' = [pc EXCEPT ![w] = "handler"]
             /\ job' = [job EXCEPT ![w] = id]
             /\ UNCHANGED <<inFlight, depth, closed, cancelled, store, gauge>>
             /\ id \in Buffered(k) /\ id \notin Handling(k)
             /\ Buffered(k)' = Buffered(k) \ {id}
             /\ Handling(k)' = Handling(k) \cup {id}
             /\ \A l \in Kinds : l # k => Buffered(l)' = Buffered(l) /\ Handling(l)' = Handling(l)
<1> DEFINE k == WorkerKind[w]
           id == Head(chan[k][p])
<1> USE DEF IInv
<1>1. k \in Kinds /\ chan[k][p] \in Seq(Ids) /\ chan[k][p] # <<>> /\ IsInjective(chan[k][p])
  <2>1. k \in Kinds
    BY KindsAssumption
  <2>2. chan[k][p] \in Seq(Ids)
    BY <2>1 DEF TypeOK
  <2>3. IsInjective(chan[k][p])
    BY <2>1 DEF OneJobPerEntity
  <2>4. QED BY <2>1, <2>2, <2>3 DEF Take
<1>2. /\ chan'[k][p] = Tail(chan[k][p])
      /\ \A l \in Kinds, q \in Prios : l # k \/ q # p => chan'[l][q] = chan[l][q]
      /\ pc' = [pc EXCEPT ![w] = "handler"]
      /\ job' = [job EXCEPT ![w] = id]
      /\ UNCHANGED <<inFlight, depth, closed, cancelled, store, gauge>>
  BY <1>1 DEF Take, TypeOK
<1>3. /\ id \in Ids /\ chan'[k][p] \in Seq(Ids)
      /\ id \in Range(chan[k][p])
      /\ Range(chan'[k][p]) = Range(chan[k][p]) \ {id}
      /\ IsInjective(chan'[k][p])
  BY <1>1, <1>2, TailElements
<1>4. /\ Buffered(k)' = Buffered(k) \ {id}
      /\ id \in Buffered(k)
      /\ \A l \in Kinds : l # k => Buffered(l)' = Buffered(l)
  <2>1. PICK q \in Prios : q # p /\ {p, q} = {"hot", "cold"}
    BY DEF Prios
  <2>2. Range(chan[k][p]) \cap Range(chan[k][q]) = {}
    BY <1>1, <2>1 DEF OneJobPerEntity
  <2>3. /\ Buffered(k) = Range(chan[k][p]) \cup Range(chan[k][q])
        /\ Buffered(k)' = Range(chan'[k][p]) \cup Range(chan'[k][q])
    BY <2>1 DEF Buffered
  <2>4. chan'[k][q] = chan[k][q]
    BY <1>1, <1>2, <2>1
  <2>5. Buffered(k)' = Buffered(k) \ {id} /\ id \in Buffered(k)
    BY <1>3, <2>2, <2>3, <2>4
  <2>6. \A l \in Kinds : l # k => Buffered(l)' = Buffered(l)
    BY <1>2 DEF Buffered, Prios
  <2>7. QED BY <2>5, <2>6
<1>5. /\ Handling(k)' = Handling(k) \cup {id}
      /\ \A l \in Kinds : l # k => Handling(l)' = Handling(l)
  <2>1. w \in Workers /\ pc'[w] = "handler" /\ job'[w] = id
    BY <1>2 DEF TypeOK
  <2>2. \A v \in Workers : v # w => pc'[v] = pc[v] /\ job'[v] = job[v]
    BY <1>2 DEF TypeOK
  <2>3. QED BY <2>1, <2>2 DEF Handling
<1>6. id \notin Handling(k)
  BY <1>1, <1>4 DEF OneJobPerEntity
<1>7. QED BY <1>1, <1>2, <1>3, <1>4, <1>5, <1>6

LEMMA TakeInv ==
  ASSUME IInv, NEW w \in Workers, NEW p \in Prios, pc[w] # "handler", Take(w, p)
  PROVE  IInv'
<1> DEFINE k == WorkerKind[w]
           id == Head(chan[k][p])
<1> USE DEF IInv
<1>1. /\ k \in Kinds /\ id \in Ids
      /\ chan'[k][p] \in Seq(Ids) /\ IsInjective(chan'[k][p])
      /\ Range(chan'[k][p]) \subseteq Range(chan[k][p])
      /\ \A l \in Kinds, q \in Prios : l # k \/ q # p => chan'[l][q] = chan[l][q]
      /\ pc' = [pc EXCEPT ![w] = "handler"]
      /\ job' = [job EXCEPT ![w] = id]
      /\ UNCHANGED <<inFlight, depth, closed, cancelled, store, gauge>>
      /\ id \in Buffered(k) /\ id \notin Handling(k)
      /\ Buffered(k)' = Buffered(k) \ {id}
      /\ Handling(k)' = Handling(k) \cup {id}
      /\ \A l \in Kinds : l # k => Buffered(l)' = Buffered(l) /\ Handling(l)' = Handling(l)
  BY TakeMoves
<1>2. TypeOK' /\ HandlerHasJob'
  <2>1. chan' \in [Kinds -> [Prios -> Seq(Ids)]]
    BY <1>1 DEF TypeOK, Take
  <2>2. QED BY <2>1, <1>1 DEF TypeOK, HandlerHasJob, PCs
<1>3. SlotsAccounted'
  BY <1>1 DEF SlotsAccounted
<1>4. DepthExact'
  BY <1>1 DEF DepthExact
<1>5. OneJobPerEntity'
  <2>2. \A l \in Kinds : Buffered(l)' \cap Handling(l)' = {}
    BY <1>1 DEF OneJobPerEntity
  <2>3. \A l \in Kinds : Range(chan'[l]["hot"]) \cap Range(chan'[l]["cold"]) = {}
    BY <1>1 DEF OneJobPerEntity, Prios
  <2>4. \A l \in Kinds, q \in Prios : IsInjective(chan'[l][q])
    BY <1>1 DEF OneJobPerEntity
  <2>5. ASSUME NEW u \in Workers, NEW v \in Workers, u # v,
               WorkerKind[u] = WorkerKind[v], pc'[u] = "handler", pc'[v] = "handler"
        PROVE  job'[u] # job'[v]
    <3>1. \A x \in Workers : x # w /\ WorkerKind[x] = k /\ pc[x] = "handler" => job[x] # id
      BY <1>1 DEF Handling
    <3>2. \A x \in Workers : x # w => pc'[x] = pc[x] /\ job'[x] = job[x]
      BY <1>1 DEF TypeOK
    <3>3. job'[w] = id
      BY <1>1 DEF TypeOK
    <3>4. QED BY <2>5, <3>1, <3>2, <3>3 DEF OneJobPerEntity
  <2>6. QED BY <2>2, <2>3, <2>4, <2>5 DEF OneJobPerEntity
<1>6. QED BY <1>2, <1>3, <1>4, <1>5

(* A released job leaves its worker, the slot leaves the dedup set. *)
LEMMA ReleaseMoves ==
  ASSUME IInv, NEW w \in Workers, Release(w)
  PROVE  LET k == WorkerKind[w]
             id == job[w]
         IN  /\ k \in Kinds /\ id \in Ids /\ id \in inFlight[k]
             /\ id \in Handling(k) /\ id \notin Buffered(k)
             /\ pc' = [pc EXCEPT ![w] = "released"]
             /\ inFlight' = [inFlight EXCEPT ![k] = @ \ {id}]
             /\ depth' = [depth EXCEPT ![k] = @ - 1]
             /\ store' = [store EXCEPT ![w] = <<k, depth[k] - 1>>]
             /\ UNCHANGED <<chan, closed, cancelled, job, gauge>>
             /\ Handling(k)' = Handling(k) \ {id}
             /\ \A l \in Kinds : l # k => Handling(l)' = Handling(l)
             /\ \A l \in Kinds : Buffered(l)' = Buffered(l)
<1> DEFINE k == WorkerKind[w]
           id == job[w]
<1> USE DEF IInv
<1>1. k \in Kinds /\ pc[w] = "handler" /\ id \in Ids /\ id \in Handling(k) /\ id \in inFlight[k]
  BY KindsAssumption DEF Release, HandlerHasJob, SlotsAccounted, Handling
<1>2. /\ pc' = [pc EXCEPT ![w] = "released"]
      /\ inFlight' = [inFlight EXCEPT ![k] = @ \ {id}]
      /\ depth' = [depth EXCEPT ![k] = @ - 1]
      /\ store' = [store EXCEPT ![w] = <<k, depth[k] - 1>>]
      /\ UNCHANGED <<chan, closed, cancelled, job, gauge>>
  BY <1>1 DEF Release
<1>3. /\ Handling(k)' = Handling(k) \ {id}
      /\ \A l \in Kinds : l # k => Handling(l)' = Handling(l)
  <2>1. \A v \in Workers : v # w => pc'[v] = pc[v]
    BY <1>2 DEF TypeOK
  <2>2. pc'[w] = "released" /\ job' = job
    BY <1>2 DEF TypeOK
  <2>3. \A v \in Workers : v # w /\ WorkerKind[v] = k /\ pc[v] = "handler" => job[v] # id
    BY <1>1 DEF OneJobPerEntity
  <2>4. QED BY <2>1, <2>2, <2>3, <1>1 DEF Handling
<1>4. \A l \in Kinds : Buffered(l)' = Buffered(l)
  BY <1>2 DEF Buffered
<1>5. id \notin Buffered(k)
  BY <1>1 DEF OneJobPerEntity
<1>6. QED BY <1>1, <1>2, <1>3, <1>4, <1>5

LEMMA ReleaseInv ==
  ASSUME IInv, NEW w \in Workers, Release(w)
  PROVE  IInv'
<1> DEFINE k == WorkerKind[w]
           id == job[w]
<1> USE DEF IInv
<1>1. /\ k \in Kinds /\ id \in Ids /\ id \in inFlight[k]
      /\ id \in Handling(k) /\ id \notin Buffered(k)
      /\ pc' = [pc EXCEPT ![w] = "released"]
      /\ inFlight' = [inFlight EXCEPT ![k] = @ \ {id}]
      /\ depth' = [depth EXCEPT ![k] = @ - 1]
      /\ store' = [store EXCEPT ![w] = <<k, depth[k] - 1>>]
      /\ UNCHANGED <<chan, closed, cancelled, job, gauge>>
      /\ Handling(k)' = Handling(k) \ {id}
      /\ \A l \in Kinds : l # k => Handling(l)' = Handling(l)
      /\ \A l \in Kinds : Buffered(l)' = Buffered(l)
  BY ReleaseMoves
<1>2. /\ depth[k] - 1 \in Nat
      /\ depth[k] - 1 = Cardinality(inFlight[k] \ {id})
  <2>1. IsFiniteSet(inFlight[k])
    BY <1>1, KindsAssumption, FS_Subset DEF TypeOK
  <2>2. /\ IsFiniteSet(inFlight[k] \ {id})
        /\ Cardinality(inFlight[k] \ {id}) = Cardinality(inFlight[k]) - 1
    BY <1>1, <2>1, FS_RemoveElement
  <2>3. QED BY <1>1, <2>2, FS_CardinalityType DEF DepthExact
<1>3. TypeOK' /\ HandlerHasJob'
  BY <1>1, <1>2 DEF TypeOK, HandlerHasJob, PCs
<1>4. SlotsAccounted'
  BY <1>1 DEF SlotsAccounted, TypeOK
<1>5. DepthExact'
  BY <1>1, <1>2 DEF DepthExact, TypeOK
<1>6. OneJobPerEntity'
  <2>1. \A v \in Workers : pc'[v] = "handler" => pc[v] = "handler"
    BY <1>1 DEF TypeOK
  <2>2. QED BY <1>1, <2>1 DEF OneJobPerEntity
<1>7. QED BY <1>3, <1>4, <1>5, <1>6

(* A worker that moves without entering or leaving its handler keeps the    *)
(* slots and the set of handled entities.                                   *)
LEMMA WorkerFrame ==
  ASSUME IInv, NEW w \in Workers, UNCHANGED <<chan, inFlight, depth>>,
         pc[w] # "handler", pc'[w] # "handler",
         \A v \in Workers : v # w => pc'[v] = pc[v] /\ job'[v] = job[v]
  PROVE  (HandlerHasJob /\ SlotsAccounted /\ DepthExact /\ OneJobPerEntity)'
<1>1. \A v \in Workers : pc'[v] = "handler" => pc[v] = "handler" /\ job'[v] = job[v]
  OBVIOUS
<1>2. \A v \in Workers : pc[v] = "handler" => pc'[v] = "handler" /\ job'[v] = job[v]
  OBVIOUS
<1>3. \A k \in Kinds : Buffered(k)' = Buffered(k) /\ Handling(k)' = Handling(k)
  BY <1>1, <1>2 DEF Buffered, Handling
<1>4. QED
  BY <1>1, <1>3 DEF IInv, HandlerHasJob, SlotsAccounted, DepthExact, OneJobPerEntity

(* Every step keeps the bookkeeping. *)
LEMMA StepInv == IInv /\ [Next]_vars => IInv'
<1> SUFFICES ASSUME IInv, [Next]_vars PROVE IInv'
  OBVIOUS
<1>1. ASSUME NEW c \in Callers, Enqueue(c) PROVE IInv'
  BY <1>1, AcceptInv, DropInv DEF Enqueue
<1>2. ASSUME NEW c \in Callers, CallerStores(c) PROVE IInv'
  <2>1. UNCHANGED slotVars
    BY <1>2 DEF CallerStores, queueVars, slotVars
  <2>2. TypeOK'
    BY <1>2 DEF CallerStores, queueVars, IInv, TypeOK
  <2>3. QED BY <2>1, <2>2, SlotFrame DEF IInv
<1>3. ASSUME NEW w \in Workers, WorkerStep(w) PROVE IInv'
  <2>1. CASE TryHotTakes(w) \/ \E p \in Prios : SelectTakes(w, p)
    BY <2>1, TakeInv DEF TryHotTakes, SelectTakes, Prios
  <2>2. CASE TryHotClosed(w) \/ TryHotEmpty(w) \/ SelectStops(w)
    <3>1. /\ pc[w] # "handler"
          /\ \E to \in {"select", "exited"} : pc' = [pc EXCEPT ![w] = to]
          /\ UNCHANGED <<queueVars, cancelled, job, store, gauge>>
      BY <2>2 DEF TryHotClosed, TryHotEmpty, SelectStops, Exit
    <3>2. TypeOK'
      BY <3>1 DEF IInv, TypeOK, PCs, queueVars
    <3>3. QED BY <3>1, <3>2, WorkerFrame DEF IInv, TypeOK, queueVars
  <2>3. CASE Release(w)
    BY <2>3, ReleaseInv
  <2>4. CASE WorkerStores(w)
    <3>1. TypeOK'
      BY <2>4 DEF WorkerStores, IInv, TypeOK, PCs, queueVars
    <3>2. QED BY <2>4, <3>1, WorkerFrame DEF WorkerStores, IInv, TypeOK, queueVars
  <2>5. CASE Loop(w)
    <3>1. TypeOK'
      BY <2>5 DEF Loop, IInv, TypeOK, PCs, queueVars
    <3>2. QED BY <2>5, <3>1, WorkerFrame DEF Loop, IInv, TypeOK, queueVars
  <2>6. QED BY <1>3, <2>1, <2>2, <2>3, <2>4, <2>5 DEF WorkerStep
<1>4. CASE Cancel \/ CloseQueue \/ UNCHANGED vars
  <2>1. UNCHANGED slotVars
    BY <1>4 DEF Cancel, CloseQueue, vars, queueVars, slotVars
  <2>2. TypeOK'
    BY <1>4 DEF Cancel, CloseQueue, vars, queueVars, IInv, TypeOK
  <2>3. QED BY <2>1, <2>2, SlotFrame DEF IInv
<1>5. QED BY <1>1, <1>2, <1>3, <1>4 DEF Next

-----------------------------------------------------------------------------
(* In every reachable state the bookkeeping holds. *)
THEOREM Bookkeeping == Spec => []IInv
<1>1. QED BY InitInv, StepInv, PTL DEF Spec

(* The state keeps its types: in particular the depth counter, lowered by   *)
(* every release, never goes below zero.                                    *)
THEOREM TypeCorrect == Spec => []TypeOK
<1>1. IInv => TypeOK BY DEF IInv
<1>2. QED BY <1>1, Bookkeeping, PTL

(* The dedup set is what is buffered or handled, and the counter counts it. *)
THEOREM SlotsNeverLeak == Spec => [](SlotsAccounted /\ DepthExact)
<1>1. IInv => SlotsAccounted /\ DepthExact BY DEF IInv
<1>2. QED BY <1>1, Bookkeeping, PTL

(* No entity has two jobs. *)
THEOREM Deduplication == Spec => []OneJobPerEntity
<1>1. IInv => OneJobPerEntity BY DEF IInv
<1>2. QED BY <1>1, Bookkeeping, PTL

-----------------------------------------------------------------------------
(* Hot jobs. *)

(* A worker goes to wait on both channels only where no hot job waits: any  *)
(* number of workers overtake a hot job by one cold job each (dequeue).     *)
THEOREM HotOvertaken == Spec => HotOvertakenAtMostOncePerWorker
<1> DEFINE Joins == \A k \in Kinds :
             chan[k]["hot"] # <<>> => Waiting(k)' \subseteq Waiting(k)
<1>1. IInv /\ [Next]_vars => [Joins]_vars
  <2> SUFFICES ASSUME IInv, Next, NEW k \in Kinds, chan[k]["hot"] # <<>>,
                      NEW w \in Workers, WorkerKind[w] = k, pc'[w] = "select"
               PROVE  pc[w] = "select"
    BY DEF Waiting
  <2>1. pc \in [Workers -> PCs]
    BY DEF IInv, TypeOK
  <2>2. ASSUME UNCHANGED pc
        PROVE  pc[w] = "select"
    BY <2>2
  <2>3. ASSUME NEW v \in Workers, NEW to, pc' = [pc EXCEPT ![v] = to], to # "select"
        PROVE  pc[w] = "select"
    BY <2>1, <2>3
  <2>4. ASSUME NEW v \in Workers, WorkerStep(v), ~TryHotEmpty(v)
        PROVE  pc[w] = "select"
    BY <2>3, <2>4 DEF WorkerStep, TryHotTakes, TryHotClosed, SelectTakes, SelectStops, Release,
       WorkerStores, Loop, Take, Exit
  <2>5. ASSUME NEW v \in Workers, TryHotEmpty(v)
        PROVE  pc[w] = "select"
    BY <2>1, <2>5 DEF TryHotEmpty
  <2>6. CASE \/ \E c \in Callers : Enqueue(c) \/ CallerStores(c)
             \/ Cancel \/ CloseQueue
    BY <2>2, <2>6 DEF Enqueue, EnqueueAccept, EnqueueDrop, CallerStores, Cancel, CloseQueue
  <2>7. QED BY <2>4, <2>5, <2>6 DEF Next
<1>2. QED BY <1>1, Bookkeeping, PTL DEF Spec, HotOvertakenAtMostOncePerWorker

-----------------------------------------------------------------------------
(* The queue implements EnrichJobs. *)

(* A step that keeps the elements of the channels, the handled entities and *)
(* the flag is invisible to callers.                                        *)
LEMMA Invisible ==
  ASSUME closed' = closed,
         \A k \in Kinds : Buffered(k)' = Buffered(k) /\ Handling(k)' = Handling(k)
  PROVE  UNCHANGED Promise!vars
<1>1. BufferedJobs' = BufferedJobs
  BY DEF BufferedJobs
<1>2. HandledJobs' = HandledJobs
  BY DEF HandledJobs
<1>3. QED BY <1>1, <1>2 DEF Promise!vars

LEMMA StepKeepsPromise ==
  ASSUME IInv, [Next]_vars
  PROVE  [Promise!Next]_(Promise!vars)
<1>1. ASSUME NEW c \in Callers, NEW k \in Kinds, NEW id \in Ids, NEW p \in Prios,
             EnqueueAccept(c, k, id, p)
      PROVE  Promise!Accept(<<k, id>>)
  <2>1. ~closed /\ closed' = closed
    BY <1>1 DEF EnqueueAccept, Admissible
  <2>2. /\ id \notin Buffered(k) /\ id \notin Handling(k)
        /\ Buffered(k)' = Buffered(k) \cup {id}
        /\ \A l \in Kinds : l # k => Buffered(l)' = Buffered(l)
        /\ \A l \in Kinds : Handling(l)' = Handling(l)
    BY <1>1, AcceptMoves
  <2>3. <<k, id>> \notin BufferedJobs \cup HandledJobs
    BY <2>2 DEF BufferedJobs, HandledJobs
  <2>4. BufferedJobs' = BufferedJobs \cup {<<k, id>>}
    BY <2>2 DEF BufferedJobs
  <2>5. HandledJobs' = HandledJobs
    BY <2>2 DEF HandledJobs
  <2>6. QED BY <2>1, <2>3, <2>4, <2>5 DEF Promise!Accept
<1>2. ASSUME NEW w \in Workers, NEW p \in Prios, pc[w] # "handler", Take(w, p)
      PROVE  \E j \in Promise!Jobs : Promise!Begin(j)
  <2> DEFINE k == WorkerKind[w]
             id == Head(chan[k][p])
  <2>1. /\ k \in Kinds /\ id \in Ids /\ closed' = closed
        /\ id \in Buffered(k) /\ id \notin Handling(k)
        /\ Buffered(k)' = Buffered(k) \ {id}
        /\ Handling(k)' = Handling(k) \cup {id}
        /\ \A l \in Kinds : l # k => Buffered(l)' = Buffered(l) /\ Handling(l)' = Handling(l)
    BY <1>2, TakeMoves
  <2> HIDE DEF k, id
  <2>2. <<k, id>> \in BufferedJobs /\ <<k, id>> \notin HandledJobs
    BY <2>1 DEF BufferedJobs, HandledJobs
  <2>3. BufferedJobs' = BufferedJobs \ {<<k, id>>}
    BY <2>1 DEF BufferedJobs
  <2>4. HandledJobs' = HandledJobs \cup {<<k, id>>}
    BY <2>1 DEF HandledJobs
  <2>5. Promise!Begin(<<k, id>>)
    BY <2>1, <2>2, <2>3, <2>4 DEF Promise!Begin
  <2>6. <<k, id>> \in Promise!Jobs
    BY <2>1 DEF Promise!Jobs
  <2>7. QED BY <2>5, <2>6
<1>3. ASSUME NEW w \in Workers, Release(w)
      PROVE  \E j \in Promise!Jobs : Promise!Finish(j)
  <2> DEFINE k == WorkerKind[w]
             id == job[w]
  <2>1. /\ k \in Kinds /\ id \in Ids /\ closed' = closed
        /\ id \in Handling(k)
        /\ Handling(k)' = Handling(k) \ {id}
        /\ \A l \in Kinds : l # k => Handling(l)' = Handling(l)
        /\ \A l \in Kinds : Buffered(l)' = Buffered(l)
    BY <1>3, ReleaseMoves
  <2> HIDE DEF k, id
  <2>2. <<k, id>> \in HandledJobs
    BY <2>1 DEF HandledJobs
  <2>3. HandledJobs' = HandledJobs \ {<<k, id>>}
    BY <2>1 DEF HandledJobs
  <2>4. BufferedJobs' = BufferedJobs
    BY <2>1 DEF BufferedJobs
  <2>5. Promise!Finish(<<k, id>>)
    BY <2>1, <2>2, <2>3, <2>4 DEF Promise!Finish
  <2>6. <<k, id>> \in Promise!Jobs
    BY <2>1 DEF Promise!Jobs
  <2>7. QED BY <2>5, <2>6
<1>4. ASSUME UNCHANGED <<chan, pc, job, closed>>
      PROVE  UNCHANGED Promise!vars
  <2>1. \A k \in Kinds : Buffered(k)' = Buffered(k) /\ Handling(k)' = Handling(k)
    BY <1>4 DEF Buffered, Handling
  <2>2. QED BY <1>4, <2>1, Invisible
<1>5. ASSUME NEW w \in Workers, UNCHANGED <<chan, closed>>,
             pc[w] # "handler", pc'[w] # "handler",
             \A v \in Workers : v # w => pc'[v] = pc[v] /\ job'[v] = job[v]
      PROVE  UNCHANGED Promise!vars
  <2>1. \A v \in Workers : pc'[v] = "handler" <=> pc[v] = "handler"
    BY <1>5
  <2>2. \A v \in Workers : pc[v] = "handler" => job'[v] = job[v]
    BY <1>5
  <2>3. \A k \in Kinds : Buffered(k)' = Buffered(k) /\ Handling(k)' = Handling(k)
    BY <1>5, <2>1, <2>2 DEF Buffered, Handling
  <2>4. QED BY <1>5, <2>3, Invisible
<1>6. ASSUME NEW c \in Callers, Enqueue(c) \/ CallerStores(c)
      PROVE  [Promise!Next]_(Promise!vars)
  <2>1. CASE \E k \in Kinds, id \in Ids, p \in Prios : EnqueueAccept(c, k, id, p)
    <3>1. PICK k \in Kinds, id \in Ids, p \in Prios : EnqueueAccept(c, k, id, p)
      BY <2>1
    <3>2. Promise!Accept(<<k, id>>) /\ <<k, id>> \in Promise!Jobs
      BY <3>1, <1>1 DEF Promise!Jobs
    <3>3. QED BY <3>2 DEF Promise!Next
  <2>2. CASE \E k \in Kinds, id \in Ids, p \in Prios : EnqueueDrop(c, k, id, p)
    BY <2>2, <1>4 DEF EnqueueDrop
  <2>3. CASE CallerStores(c)
    BY <2>3, <1>4 DEF CallerStores, queueVars
  <2>4. QED BY <1>6, <2>1, <2>2, <2>3 DEF Enqueue
<1>7. ASSUME NEW w \in Workers, WorkerStep(w)
      PROVE  [Promise!Next]_(Promise!vars)
  <2>1. CASE TryHotTakes(w) \/ \E p \in Prios : SelectTakes(w, p)
    <3>1. \E j \in Promise!Jobs : Promise!Begin(j)
      BY <2>1, <1>2 DEF TryHotTakes, SelectTakes, Prios
    <3>2. QED BY <3>1 DEF Promise!Next
  <2>2. CASE TryHotClosed(w) \/ TryHotEmpty(w) \/ SelectStops(w)
    <3>1. /\ pc[w] # "handler"
          /\ \E to \in {"select", "exited"} : pc' = [pc EXCEPT ![w] = to]
          /\ UNCHANGED <<queueVars, job>>
      BY <2>2 DEF TryHotClosed, TryHotEmpty, SelectStops, Exit
    <3>2. QED BY <3>1, <1>5 DEF IInv, TypeOK, queueVars
  <2>3. CASE Release(w)
    BY <2>3, <1>3 DEF Promise!Next
  <2>4. CASE WorkerStores(w)
    BY <2>4, <1>5 DEF WorkerStores, IInv, TypeOK, queueVars
  <2>5. CASE Loop(w)
    BY <2>5, <1>5 DEF Loop, IInv, TypeOK, queueVars
  <2>6. QED BY <1>7, <2>1, <2>2, <2>3, <2>4, <2>5 DEF WorkerStep
<1>8. CASE Cancel \/ UNCHANGED vars
  BY <1>8, <1>4 DEF Cancel, vars, queueVars
<1>9. CASE CloseQueue
  <2>1. BufferedJobs' = BufferedJobs /\ HandledJobs' = HandledJobs
    BY <1>9 DEF CloseQueue, BufferedJobs, HandledJobs, Buffered, Handling
  <2>2. QED BY <1>9, <2>1 DEF CloseQueue, Promise!Next, Promise!Shut
<1>10. QED BY <1>6, <1>7, <1>8, <1>9 DEF Next

(* Callers of Enqueue get what EnrichJobs states. *)
THEOREM Refinement == Spec => KeepsPromise
<1>1. Init => Promise!Init
  <2> SUFFICES ASSUME Init PROVE Promise!Init
    OBVIOUS
  <2>1. \A k \in Kinds : Buffered(k) = {} /\ Handling(k) = {}
    BY EmptyElements DEF Init, Buffered, Handling, Prios
  <2>2. BufferedJobs = {} /\ HandledJobs = {}
    BY <2>1 DEF BufferedJobs, HandledJobs
  <2>3. QED BY <2>2 DEF Init, Promise!Init
<1>2. IInv /\ [Next]_vars => [Promise!Next]_(Promise!vars)
  BY StepKeepsPromise
<1>3. QED BY <1>1, <1>2, Bookkeeping, PTL DEF Spec, KeepsPromise, Promise!Spec

=============================================================================
