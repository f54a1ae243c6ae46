---------------------------- MODULE LimiterProofs ----------------------------
(* Proofs about Limiter for any checks, namespaces and caps.               *)
EXTENDS Limiter, TLAPS, FiniteSetTheorems, WellFoundedInduction

-----------------------------------------------------------------------------
(* Counting the slots held.                                                *)

\* The holders of slots are finitely many: they are checks.
LEMMA HoldersFinite ==
    /\ IsFiniteSet(AllHolders)
    /\ \A n \in Namespaces : IsFiniteSet(Holders(n))
BY KeysAssumption, FS_Subset DEF AllHolders, Holders

\* A check that held nothing takes a slot: both counters go up by one.
LEMMA CountUp ==
    ASSUME TypeOK, CountersExact, NEW k \in Keys, k \notin AllHolders,
           \A j \in Keys : (j \in running' \/ reserved'[j] # 0) <=> (j = k \/ j \in running \/ reserved[j] # 0),
           total' = total + 1, used' = [used EXCEPT ![nsOf[k]] = @ + 1]
    PROVE  CountersExact'
<1>1. AllHolders' = AllHolders \cup {k}
  BY DEF AllHolders
<1>2. total' = Cardinality(AllHolders')
  BY <1>1, HoldersFinite, FS_AddElement DEF CountersExact
<1>3. ASSUME NEW n \in Namespaces PROVE used'[n] = Cardinality(Holders(n)')
  <2>1. CASE n = nsOf[k]
    <3>1. Holders(n)' = Holders(n) \cup {k} /\ k \notin Holders(n)
      BY <2>1 DEF Holders, AllHolders
    <3>2. used'[n] = used[n] + 1
      BY <2>1 DEF TypeOK
    <3>3. Cardinality(Holders(n) \cup {k}) = Cardinality(Holders(n)) + 1
      BY <3>1, HoldersFinite, FS_AddElement
    <3> QED BY <3>1, <3>2, <3>3 DEF CountersExact
  <2>2. CASE n # nsOf[k]
    <3>1. Holders(n)' = Holders(n)
      BY <2>2 DEF Holders
    <3> QED BY <2>2, <3>1 DEF CountersExact, TypeOK
  <2> QED BY <2>1, <2>2
<1> QED BY <1>2, <1>3 DEF CountersExact

\* A check that held a slot gives it back.  Both counters were above zero.
LEMMA CountDown ==
    ASSUME TypeOK, CountersExact, NEW k \in Keys, k \in AllHolders,
           \A j \in Keys : (j \in running' \/ reserved'[j] # 0) <=> (j # k /\ (j \in running \/ reserved[j] # 0)),
           total' = total - 1, used' = [used EXCEPT ![nsOf[k]] = @ - 1]
    PROVE  CountersExact' /\ total' \in Nat /\ used' \in [Namespaces -> Nat]
<1>0. nsOf[k] \in Namespaces
  BY KeysAssumption
<1>1. AllHolders' = AllHolders \ {k}
  BY DEF AllHolders
<1>2. total' = Cardinality(AllHolders') /\ IsFiniteSet(AllHolders')
  BY <1>1, HoldersFinite, FS_RemoveElement DEF CountersExact
<1>3. ASSUME NEW n \in Namespaces
      PROVE  used'[n] = Cardinality(Holders(n)') /\ IsFiniteSet(Holders(n)')
  <2>1. CASE n = nsOf[k]
    <3>1. Holders(n)' = Holders(n) \ {k} /\ k \in Holders(n)
      BY <2>1 DEF Holders, AllHolders
    <3> QED BY <2>1, <3>1, HoldersFinite, FS_RemoveElement DEF CountersExact, TypeOK
  <2>2. CASE n # nsOf[k]
    <3>1. Holders(n)' = Holders(n)
      BY <2>2 DEF Holders
    <3> QED BY <2>2, <3>1, HoldersFinite DEF CountersExact, TypeOK
  <2> QED BY <2>1, <2>2
<1>4. total' \in Nat
  BY <1>2, FS_CardinalityType
<1>5. \A n \in Namespaces : used'[n] \in Nat
  BY <1>3, FS_CardinalityType
<1> QED BY <1>0, <1>2, <1>3, <1>4, <1>5 DEF CountersExact, TypeOK

\* A step that leaves the holders alone leaves the counters right.
LEMMA CountSame ==
    ASSUME CountersExact, UNCHANGED <<total, used>>,
           \A j \in Keys : (j \in running' \/ reserved'[j] # 0) <=> (j \in running \/ reserved[j] # 0)
    PROVE  CountersExact'
<1>1. AllHolders' = AllHolders
  BY DEF AllHolders
<1>2. \A n \in Namespaces : Holders(n)' = Holders(n)
  BY DEF Holders
<1> QED BY <1>1, <1>2 DEF CountersExact

-----------------------------------------------------------------------------
(* The ready heap.                                                         *)

\* A namespace with waiters has a first one.
LEMMA FrontExists ==
    ASSUME TypeOK, NEW k \in Keys, waiting[k] # 0
    PROVE  \E f \in Keys : nsOf[f] = nsOf[k] /\ IsFront(f) /\ waiting[f] <= waiting[k]
<1> DEFINE T == {waiting[j] : j \in Waiters(nsOf[k])}
<1>1. T \subseteq Nat /\ waiting[k] \in T
  BY DEF TypeOK, Waiters
<1> DEFINE R == OpToRel(<, Nat)
<1>a. IsWellFoundedOn(R, Nat)
  BY NatLessThanWellFounded
<1>b. \A y, z \in Nat : <<y, z>> \in R <=> y < z
  BY DEF OpToRel
<1>c. T # {}
  BY <1>1
<1> HIDE DEF R, T
<1>2. PICK m \in T : \A y \in T : ~(<<y, m>> \in R)
  BY <1>1, <1>a, <1>c, WFMin
<1>d. m \in Nat
  BY <1>1
<1>3. ASSUME NEW y \in T PROVE m <= y
  <2>1. y \in Nat /\ ~(<<y, m>> \in R)
    BY <1>1, <1>2
  <2>2. ~(y < m)
    BY <1>b, <1>d, <2>1
  <2> QED BY <1>d, <2>1, <2>2
<1> USE DEF T
<1>4. PICK f \in Waiters(nsOf[k]) : waiting[f] = m
  BY <1>2
<1> QED BY <1>1, <1>3, <1>4 DEF Waiters, IsFront

\* What the entry of a namespace is.
LEMMA EntryOf ==
    ASSUME NEW n, NEW x
    PROVE  x \in ReadyEntries(n) <=>
             used[n] < PerNamespace /\ \E k \in Keys : nsOf[k] = n /\ IsFront(k) /\ x = <<n, waiting[k]>>
BY DEF ReadyEntries, Waiters, IsFront

\* A step that leaves a namespace's queue alone and gives none of its slots back
\* makes it no readier.
LEMMA EntriesKept ==
    ASSUME TypeOK, NEW n \in Namespaces, used'[n] \in Nat, used'[n] >= used[n],
           \A j \in Keys : nsOf[j] = n => waiting'[j] = waiting[j]
    PROVE  ReadyEntries(n)' \subseteq ReadyEntries(n)
<1>1. Waiters(n)' = Waiters(n)
  BY DEF Waiters
<1>2. \A j \in Keys : nsOf[j] = n => (IsFront(j)' <=> IsFront(j))
  BY <1>1 DEF IsFront, Waiters
<1>3. used'[n] < PerNamespace => used[n] < PerNamespace
  BY CapsAssumption DEF TypeOK
<1> QED BY <1>1, <1>2, <1>3 DEF ReadyEntries, Waiters

-----------------------------------------------------------------------------
(* Types and counters.                                                     *)

\* Every operation keeps the types and the counters; OneSlotEach is what makes a
\* release or an expiry give back exactly one slot.
LEMMA CountStep ==
    ASSUME TypeOK, CountersExact, OneSlotEach, [Next]_vars
    PROVE  TypeOK' /\ CountersExact'
<1> USE KeysAssumption
<1>0. \A n \in Namespaces : ReadyEntries(n)' \subseteq Namespaces \X Nat \/ waiting' \notin [Keys -> Nat]
  BY DEF ReadyEntries, Waiters
<1>1. ASSUME NEW k \in Keys, Acquire(k) PROVE TypeOK' /\ CountersExact'
  <2>1. CountersExact'
    BY <1>1, CountUp DEF Acquire, AllHolders
  <2> QED BY <1>1, <2>1 DEF Acquire, TypeOK
<1>2. ASSUME NEW k \in Keys, Enqueue(k) PROVE TypeOK' /\ CountersExact'
  <2>1. CountersExact'
    BY <1>2, CountSame DEF Enqueue
  <2>2. waiting' \in [Keys -> Nat]
    BY <1>2 DEF Enqueue, TypeOK
  <2> QED BY <1>0, <1>2, <2>1, <2>2 DEF Enqueue, TypeOK, markReady
<1>3. ASSUME NEW k \in Keys, Claim(k) PROVE TypeOK' /\ CountersExact'
  <2>1. CountersExact'
    BY <1>3, CountSame DEF Claim, TypeOK
  <2> QED BY <1>3, <2>1 DEF Claim, Stop, TypeOK
<1>4. ASSUME NEW k \in Keys, Release(k) PROVE TypeOK' /\ CountersExact'
  <2>1. CountersExact' /\ total' \in Nat /\ used' \in [Namespaces -> Nat]
    BY <1>4, CountDown DEF Release, free, AllHolders, OneSlotEach
  <2>2. ready' \subseteq Namespaces \X Nat
    BY <1>0, <1>4 DEF Release, free, markReady, TypeOK
  <2> QED BY <1>4, <2>1, <2>2 DEF Release, free, TypeOK
<1>5. ASSUME NEW k \in Keys, CancelWaiting(k) PROVE TypeOK' /\ CountersExact'
  <2>1. CountersExact'
    BY <1>5, CountSame DEF CancelWaiting
  <2>2. waiting' \in [Keys -> Nat]
    BY <1>5 DEF CancelWaiting, TypeOK
  <2> QED BY <1>0, <1>5, <2>1, <2>2 DEF CancelWaiting, TypeOK, markReady
<1>6. ASSUME NEW k \in Keys, CancelReserved(k) PROVE TypeOK' /\ CountersExact'
  <2>1. CountersExact' /\ total' \in Nat /\ used' \in [Namespaces -> Nat]
    BY <1>6, CountDown DEF CancelReserved, free, AllHolders, OneSlotEach, TypeOK
  <2>2. ready' \subseteq Namespaces \X Nat
    BY <1>0, <1>6 DEF CancelReserved, free, markReady, TypeOK
  <2> QED BY <1>6, <2>1, <2>2 DEF CancelReserved, Stop, free, TypeOK
<1>7. ASSUME NEW t \in timers, expire(t[1], t[2]) PROVE TypeOK' /\ CountersExact'
  <2>0. t[1] \in Keys /\ t[2] \in Nat \ {0}
    BY DEF TypeOK
  <2>1. CASE reserved[t[1]] = t[2]
    <3>1. CountersExact' /\ total' \in Nat /\ used' \in [Namespaces -> Nat]
      BY <1>7, <2>0, <2>1, CountDown DEF expire, free, AllHolders, OneSlotEach, TypeOK
    <3>2. ready' \subseteq Namespaces \X Nat
      BY <1>0, <1>7, <2>0, <2>1 DEF expire, free, markReady, TypeOK
    <3> QED BY <1>7, <2>0, <2>1, <3>1, <3>2 DEF expire, free, TypeOK
  <2>2. CASE reserved[t[1]] # t[2]
    <3>1. CountersExact'
      BY <1>7, <2>2, CountSame DEF expire
    <3> QED BY <1>7, <2>2, <3>1 DEF expire, TypeOK
  <2> QED BY <2>1, <2>2
<1>8. ASSUME NEW e \in ready, DropStale(e) PROVE TypeOK' /\ CountersExact'
  <2>1. CountersExact'
    BY <1>8, CountSame DEF DropStale
  <2> QED BY <1>8, <2>1 DEF DropStale, TypeOK
<1>9. ASSUME NEW e \in ready, NEW k \in Keys, Reserve(e, k) PROVE TypeOK' /\ CountersExact'
  <2>1. k \notin AllHolders /\ e[1] = nsOf[k] /\ waiting[k] # 0
    BY <1>9 DEF Reserve, Live, IsFront, AllHolders, OneSlotEach
  <2>a. reserved' = [reserved EXCEPT ![k] = seq + 1] /\ seq + 1 # 0 /\ running' = running
    BY <1>9 DEF Reserve, TypeOK
  <2>b. \A j \in Keys : (j \in running' \/ reserved'[j] # 0) <=> (j = k \/ j \in running \/ reserved[j] # 0)
    BY <2>a DEF TypeOK
  <2>c. total' = total + 1 /\ used' = [used EXCEPT ![nsOf[k]] = @ + 1]
    BY <1>9, <2>1 DEF Reserve
  <2>2. CountersExact'
    BY <2>1, <2>b, <2>c, CountUp
  <2>3. waiting' \in [Keys -> Nat]
    BY <1>9 DEF Reserve, TypeOK
  <2> QED BY <1>0, <1>9, <2>1, <2>2, <2>3 DEF Reserve, TypeOK
<1>10. ASSUME DispatchEnds PROVE TypeOK' /\ CountersExact'
  <2>1. CountersExact'
    BY <1>10, CountSame DEF DispatchEnds
  <2> QED BY <1>10, <2>1 DEF DispatchEnds, TypeOK
<1>11. ASSUME UNCHANGED vars PROVE TypeOK' /\ CountersExact'
  <2>1. CountersExact'
    BY <1>11, CountSame DEF vars
  <2> QED BY <1>11, <2>1 DEF vars, TypeOK
<1> QED BY <1>1, <1>2, <1>3, <1>4, <1>5, <1>6, <1>7, <1>8, <1>9, <1>10, <1>11 DEF Next, Dispatch

-----------------------------------------------------------------------------
(* Queues and the ready heap.                                              *)

\* A check keeps at most one place, and sequence numbers stay unique.
LEMMA QueueStep ==
    ASSUME TypeOK, TypeOK', OneSlotEach, SeqsFresh, [Next]_vars
    PROVE  OneSlotEach' /\ SeqsFresh'
<1> USE KeysAssumption DEF TypeOK, OneSlotEach, SeqsFresh
<1>1. ASSUME NEW k \in Keys, Acquire(k) PROVE OneSlotEach' /\ SeqsFresh'
  BY <1>1 DEF Acquire
<1>2. ASSUME NEW k \in Keys, Enqueue(k) PROVE OneSlotEach' /\ SeqsFresh'
  BY <1>2 DEF Enqueue
<1>3. ASSUME NEW k \in Keys, Claim(k) PROVE OneSlotEach' /\ SeqsFresh'
  BY <1>3 DEF Claim
<1>4. ASSUME NEW k \in Keys, Release(k) PROVE OneSlotEach' /\ SeqsFresh'
  BY <1>4 DEF Release
<1>5. ASSUME NEW k \in Keys, CancelWaiting(k) PROVE OneSlotEach' /\ SeqsFresh'
  BY <1>5 DEF CancelWaiting
<1>6. ASSUME NEW k \in Keys, CancelReserved(k) PROVE OneSlotEach' /\ SeqsFresh'
  BY <1>6 DEF CancelReserved
<1>7. ASSUME NEW t \in timers, expire(t[1], t[2]) PROVE OneSlotEach' /\ SeqsFresh'
  BY <1>7 DEF expire
<1>8. ASSUME NEW e \in ready, DropStale(e) PROVE OneSlotEach' /\ SeqsFresh'
  BY <1>8 DEF DropStale
<1>9. ASSUME NEW e \in ready, NEW k \in Keys, Reserve(e, k) PROVE OneSlotEach' /\ SeqsFresh'
  BY <1>9 DEF Reserve, Live, IsFront
<1>10. ASSUME DispatchEnds PROVE OneSlotEach' /\ SeqsFresh'
  BY <1>10 DEF DispatchEnds
<1>11. ASSUME UNCHANGED vars PROVE OneSlotEach' /\ SeqsFresh'
  BY <1>11 DEF vars
<1> QED BY <1>1, <1>2, <1>3, <1>4, <1>5, <1>6, <1>7, <1>8, <1>9, <1>10, <1>11 DEF Next, Dispatch

\* free puts the freed namespace on the heap; the others are as ready as before.
LEMMA FreeCovers ==
    ASSUME TypeOK, TypeOK', ReadyCovers, NEW n \in Namespaces, free(n), UNCHANGED waiting
    PROVE  ReadyCovers'
<1> SUFFICES ASSUME NEW m \in Namespaces PROVE ReadyEntries(m)' \subseteq ready'
  BY DEF ReadyCovers
<1>1. CASE m = n
  BY <1>1 DEF free, markReady
<1>2. CASE m # n
  <2>1. used'[m] = used[m]
    BY <1>2 DEF free, TypeOK
  <2>2. ReadyEntries(m)' \subseteq ReadyEntries(m)
    BY <2>1, EntriesKept DEF TypeOK
  <2> QED BY <2>2 DEF ReadyCovers, free, markReady
<1> QED BY <1>1, <1>2

\* A step that changes no queue and frees no slot keeps the heap complete.
LEMMA SameCovers ==
    ASSUME TypeOK, TypeOK', ReadyCovers, UNCHANGED <<waiting, ready>>,
           \A n \in Namespaces : used'[n] >= used[n]
    PROVE  ReadyCovers'
<1> SUFFICES ASSUME NEW n \in Namespaces PROVE ReadyEntries(n)' \subseteq ready'
  BY DEF ReadyCovers
<1>1. ReadyEntries(n)' \subseteq ReadyEntries(n)
  BY EntriesKept DEF TypeOK
<1> QED BY <1>1 DEF ReadyCovers

\* A check that joins a queue behind others is not its first.
LEMMA EnqueueCovers ==
    ASSUME TypeOK, TypeOK', SeqsFresh, ReadyCovers, NEW k \in Keys, Enqueue(k)
    PROVE  ReadyCovers'
<1> SUFFICES ASSUME NEW n \in Namespaces PROVE ReadyEntries(n)' \subseteq ready'
  BY DEF ReadyCovers
<1>1. CASE n # nsOf[k]
  <2>1. ReadyEntries(n)' \subseteq ReadyEntries(n)
    BY <1>1, EntriesKept DEF TypeOK, Enqueue
  <2> QED BY <2>1 DEF ReadyCovers, Enqueue, markReady
<1>2. CASE n = nsOf[k] /\ Waiters(n) = {}
  BY <1>2 DEF Enqueue, markReady
<1>3. CASE n = nsOf[k] /\ Waiters(n) # {}
  <2>0. waiting' = [waiting EXCEPT ![k] = seq + 1] /\ used' = used /\ waiting[k] = 0 /\ ready' = ready
    BY <1>3 DEF Enqueue
  <2>1. PICK w \in Keys : nsOf[w] = n /\ waiting[w] # 0 /\ w # k
    BY <1>3, <2>0 DEF Waiters
  <2>2. ASSUME NEW f \in Keys, nsOf[f] = n, IsFront(f)' PROVE IsFront(f) /\ waiting'[f] = waiting[f]
    <3>1. f # k
      BY <2>0, <2>1, <2>2 DEF IsFront, Waiters, SeqsFresh, TypeOK
    <3> QED BY <1>3, <2>0, <2>2, <3>1 DEF IsFront, Waiters, TypeOK
  <2>3. ReadyEntries(n)' \subseteq ReadyEntries(n)
    BY <2>0, <2>2 DEF ReadyEntries, Waiters
  <2> QED BY <2>0, <2>3 DEF ReadyCovers
<1> QED BY <1>1, <1>2, <1>3

\* A check that leaves a queue from behind does not change its first.
LEMMA CancelCovers ==
    ASSUME TypeOK, TypeOK', ReadyCovers, NEW k \in Keys, CancelWaiting(k)
    PROVE  ReadyCovers'
<1> SUFFICES ASSUME NEW n \in Namespaces PROVE ReadyEntries(n)' \subseteq ready'
  BY DEF ReadyCovers
<1>1. CASE n # nsOf[k]
  <2>1. ReadyEntries(n)' \subseteq ReadyEntries(n)
    BY <1>1, EntriesKept DEF TypeOK, CancelWaiting
  <2> QED BY <2>1 DEF ReadyCovers, CancelWaiting, markReady
<1>2. CASE n = nsOf[k] /\ IsFront(k)
  BY <1>2 DEF CancelWaiting, markReady
<1>3. CASE n = nsOf[k] /\ ~IsFront(k)
  <2>0. waiting' = [waiting EXCEPT ![k] = 0] /\ used' = used /\ waiting[k] # 0 /\ ready' = ready
    BY <1>3 DEF CancelWaiting
  <2>1. PICK w \in Waiters(n) : ~(waiting[k] <= waiting[w])
    BY <1>3, <2>0 DEF IsFront
  <2>2. ASSUME NEW f \in Keys, nsOf[f] = n, IsFront(f)' PROVE IsFront(f) /\ waiting'[f] = waiting[f]
    <3>1. f # k
      BY <2>0, <2>2 DEF IsFront, TypeOK
    <3>2. waiting[f] <= waiting[w] /\ w # k
      BY <2>0, <2>1, <2>2, <3>1 DEF IsFront, Waiters, TypeOK
    <3>3. \A j \in Waiters(n) : waiting[f] <= waiting[j]
      BY <2>0, <2>1, <2>2, <3>1, <3>2 DEF IsFront, Waiters, TypeOK
    <3> QED BY <2>0, <2>2, <3>1, <3>3 DEF IsFront, TypeOK
  <2>3. ReadyEntries(n)' \subseteq ReadyEntries(n)
    BY <2>0, <2>2 DEF ReadyEntries, Waiters
  <2> QED BY <2>0, <2>3 DEF ReadyCovers
<1> QED BY <1>1, <1>2, <1>3

\* The dispatch loop drops only entries that cover nobody.
LEMMA DropCovers ==
    ASSUME TypeOK, TypeOK', ReadyCovers, NEW e \in ready, DropStale(e)
    PROVE  ReadyCovers'
<1> SUFFICES ASSUME NEW n \in Namespaces, NEW x \in ReadyEntries(n)' PROVE x \in ready'
  BY DEF ReadyCovers
<1>1. x \in ReadyEntries(n)
  BY EntriesKept DEF TypeOK, DropStale
<1>2. x # e
  BY <1>1, EntryOf DEF DropStale, Live
<1> QED BY <1>1, <1>2 DEF ReadyCovers, DropStale

\* A reservation takes one entry and pushes the namespace's next one.
LEMMA ReserveCovers ==
    ASSUME TypeOK, TypeOK', ReadyCovers, NEW e \in ready, NEW k \in Keys, Reserve(e, k)
    PROVE  ReadyCovers'
<1> SUFFICES ASSUME NEW n \in Namespaces, NEW x \in ReadyEntries(n)' PROVE x \in ready'
  BY DEF ReadyCovers
<1>1. CASE n = e[1]
  BY <1>1 DEF Reserve
<1>2. CASE n # e[1]
  <2>1. used'[n] = used[n] /\ \A j \in Keys : nsOf[j] = n => waiting'[j] = waiting[j]
    BY <1>2 DEF Reserve, Live, TypeOK
  <2>2. x \in ReadyEntries(n)
    BY <2>1, EntriesKept DEF TypeOK
  <2>3. x # e
    BY <1>2, <2>2, EntryOf
  <2> QED BY <2>2, <2>3 DEF ReadyCovers, Reserve
<1> QED BY <1>1, <1>2

\* Every operation keeps the heap complete.
LEMMA CoversStep ==
    ASSUME TypeOK, TypeOK', SeqsFresh, ReadyCovers, [Next]_vars
    PROVE  ReadyCovers'
<1> USE KeysAssumption
<1>1. ASSUME NEW k \in Keys, Acquire(k) PROVE ReadyCovers'
  BY <1>1, SameCovers DEF Acquire, TypeOK
<1>2. ASSUME NEW k \in Keys, Claim(k) PROVE ReadyCovers'
  BY <1>2, SameCovers DEF Claim, TypeOK
<1>3. ASSUME NEW k \in Keys, Release(k) PROVE ReadyCovers'
  BY <1>3, FreeCovers DEF Release
<1>4. ASSUME NEW k \in Keys, CancelReserved(k) PROVE ReadyCovers'
  BY <1>4, FreeCovers DEF CancelReserved
<1>5. ASSUME NEW t \in timers, expire(t[1], t[2]) PROVE ReadyCovers'
  <2>1. t[1] \in Keys
    BY DEF TypeOK
  <2>2. CASE reserved[t[1]] = t[2]
    BY <1>5, <2>1, <2>2, FreeCovers DEF expire
  <2>3. CASE reserved[t[1]] # t[2]
    BY <1>5, <2>3, SameCovers DEF expire, TypeOK
  <2> QED BY <2>2, <2>3
<1>6. ASSUME DispatchEnds PROVE ReadyCovers'
  BY <1>6, SameCovers DEF DispatchEnds, TypeOK
<1>7. ASSUME UNCHANGED vars PROVE ReadyCovers'
  BY <1>7, SameCovers DEF vars, TypeOK
<1> QED BY <1>1, <1>2, <1>3, <1>4, <1>5, <1>6, <1>7,
           EnqueueCovers, CancelCovers, DropCovers, ReserveCovers DEF Next, Dispatch

-----------------------------------------------------------------------------
(* The caps, and no waiter behind a free slot.                             *)

\* An empty heap that covers every namespace means nobody could take a slot.
LEMMA NobodyReady ==
    ASSUME TypeOK, ReadyCovers, ready = {}, NEW k \in Keys, waiting[k] # 0
    PROVE  used[nsOf[k]] >= PerNamespace
<1>0. nsOf[k] \in Namespaces
  BY KeysAssumption
<1>1. PICK f \in Keys : nsOf[f] = nsOf[k] /\ IsFront(f)
  BY FrontExists
<1>2. ~(used[nsOf[k]] < PerNamespace)
  BY <1>0, <1>1, EntryOf DEF ReadyCovers
<1> QED BY <1>0, <1>2, CapsAssumption DEF TypeOK

\* Every operation keeps the caps, and ends with no eligible waiter left.
LEMMA CapsStep ==
    ASSUME TypeOK, TypeOK', LimiterInv, [Next]_vars
    PROVE  /\ total' <= Global
           /\ \A n \in Namespaces : used'[n] <= PerNamespace
           /\ NoWaiterBehindFreeSlot'
<1> DEFINE Goal == /\ total' <= Global
                   /\ \A n \in Namespaces : used'[n] <= PerNamespace
                   /\ NoWaiterBehindFreeSlot'
<1> USE KeysAssumption, CapsAssumption DEF TypeOK, LimiterInv, NoWaiterBehindFreeSlot
<1>1. ASSUME NEW k \in Keys, Acquire(k) PROVE Goal
  BY <1>1 DEF Acquire
<1>2. ASSUME NEW k \in Keys, Enqueue(k) PROVE Goal
  BY <1>2 DEF Enqueue
<1>3. ASSUME NEW k \in Keys, Claim(k) PROVE Goal
  BY <1>3 DEF Claim
<1>4. ASSUME NEW k \in Keys, Release(k) PROVE Goal
  BY <1>4 DEF Release, free
<1>5. ASSUME NEW k \in Keys, CancelWaiting(k) PROVE Goal
  BY <1>5 DEF CancelWaiting
<1>6. ASSUME NEW k \in Keys, CancelReserved(k) PROVE Goal
  BY <1>6 DEF CancelReserved, free
<1>7. ASSUME NEW t \in timers, expire(t[1], t[2]) PROVE Goal
  BY <1>7 DEF expire, free
<1>8. ASSUME NEW e \in ready, DropStale(e) PROVE Goal
  BY <1>8 DEF DropStale
<1>9. ASSUME NEW e \in ready, NEW k \in Keys, Reserve(e, k) PROVE Goal
  BY <1>9 DEF Reserve, Live
<1>10. ASSUME DispatchEnds PROVE Goal
  <2>1. ASSUME total < Global PROVE \A k \in Keys : waiting[k] # 0 => used[nsOf[k]] >= PerNamespace
    BY <1>10, <2>1, NobodyReady DEF DispatchEnds
  <2> QED BY <1>10, <2>1 DEF DispatchEnds
<1>11. ASSUME UNCHANGED vars PROVE Goal
  BY <1>11 DEF vars
<1> QED BY <1>1, <1>2, <1>3, <1>4, <1>5, <1>6, <1>7, <1>8, <1>9, <1>10, <1>11 DEF Next, Dispatch

-----------------------------------------------------------------------------
(* The theorems.                                                           *)

\* The limiter's counters are exact and no eligible waiter stays behind a free
\* slot, in every reachable state: the inductive invariant.
THEOREM LimiterCorrect == Spec => [](TypeOK /\ CountersExact /\ LimiterInv)
<1>1. Init => TypeOK /\ CountersExact /\ LimiterInv
  <2> SUFFICES ASSUME Init PROVE TypeOK /\ CountersExact /\ LimiterInv
    OBVIOUS
  <2>1. TypeOK
    BY DEF Init, TypeOK
  <2>2. AllHolders = {} /\ \A n \in Namespaces : Holders(n) = {}
    BY DEF Init, AllHolders, Holders
  <2>3. CountersExact
    BY <2>2, FS_EmptySet DEF Init, CountersExact
  <2>4. LimiterInv
    BY CapsAssumption, KeysAssumption DEF Init, LimiterInv, OneSlotEach, SeqsFresh, ReadyCovers,
       NoWaiterBehindFreeSlot, ReadyEntries, Waiters
  <2> QED BY <2>1, <2>3, <2>4
<1>2. TypeOK /\ CountersExact /\ LimiterInv /\ [Next]_vars => (TypeOK /\ CountersExact /\ LimiterInv)'
  BY CountStep, QueueStep, CoversStep, CapsStep DEF LimiterInv
<1> QED BY <1>1, <1>2, PTL DEF Spec

\* Every variable keeps its type: no counter goes below zero.
THEOREM TypeCorrect == Spec => []TypeOK
BY LimiterCorrect, PTL

\* The counters of slots in use are the slots that are held, on every path of release,
\* cancel, claim and expiry.
THEOREM CountersCorrect == Spec => []CountersExact
BY LimiterCorrect, PTL

\* At most Global calls run at once, and at most PerNamespace of one namespace.
THEOREM CapsCorrect == Spec => []CapsHold
<1>1. TypeOK /\ CountersExact /\ LimiterInv => CapsHold
  <2> SUFFICES ASSUME TypeOK, CountersExact, LimiterInv PROVE CapsHold
    OBVIOUS
  <2>1. Cardinality(running) <= Global
    <3>1. running \subseteq AllHolders
      BY DEF AllHolders, TypeOK
    <3>2. Cardinality(running) <= Cardinality(AllHolders) /\ Cardinality(running) \in Nat
      BY <3>1, HoldersFinite, FS_Subset, FS_CardinalityType
    <3> QED BY <3>2, CapsAssumption DEF CountersExact, LimiterInv, TypeOK
  <2>2. ASSUME NEW n \in Namespaces
        PROVE  Cardinality({k \in running : nsOf[k] = n}) <= PerNamespace
    <3>1. {k \in running : nsOf[k] = n} \subseteq Holders(n)
      BY DEF Holders, TypeOK
    <3>2. /\ Cardinality({k \in running : nsOf[k] = n}) <= Cardinality(Holders(n))
          /\ Cardinality({k \in running : nsOf[k] = n}) \in Nat
      BY <3>1, HoldersFinite, FS_Subset, FS_CardinalityType
    <3> QED BY <3>2, CapsAssumption DEF CountersExact, LimiterInv, TypeOK
  <2> QED BY <2>1, <2>2 DEF CapsHold
<1> QED BY <1>1, LimiterCorrect, PTL

\* Slots are handed out in order of arrival among the namespaces under their cap.
THEOREM ArrivalOrder == Spec => FirstComeFirstServed
<1> DEFINE Fair == \A k, j \in Keys :
        /\ k \notin AllHolders /\ k \in AllHolders'
        /\ waiting[j] # 0 /\ used[nsOf[j]] < PerNamespace
        => waiting[k] # 0 /\ waiting[k] <= waiting[j]
<1>1. TypeOK /\ CountersExact /\ LimiterInv /\ [Next]_vars => Fair
  <2> SUFFICES ASSUME TypeOK, LimiterInv, [Next]_vars, NEW k \in Keys, NEW j \in Keys,
                      k \notin AllHolders, k \in AllHolders',
                      waiting[j] # 0, used[nsOf[j]] < PerNamespace
               PROVE  waiting[k] # 0 /\ waiting[k] <= waiting[j]
    OBVIOUS
  <2>0. nsOf[j] \in Namespaces /\ ~(used[nsOf[j]] >= PerNamespace)
    BY KeysAssumption, CapsAssumption DEF TypeOK
  <2>1. CASE \E i \in Keys : Acquire(i)
    BY <2>0, <2>1 DEF Acquire, LimiterInv, NoWaiterBehindFreeSlot
  <2>2. CASE \E e \in ready, i \in Keys : Reserve(e, i)
    <3>1. PICK e \in ready, i \in Keys : Reserve(e, i)
      BY <2>2
    <3>2. i = k
      BY <3>1 DEF Reserve, AllHolders, TypeOK
    <3>3. PICK f \in Keys : nsOf[f] = nsOf[j] /\ IsFront(f) /\ waiting[f] <= waiting[j]
      BY FrontExists
    <3>4. <<nsOf[j], waiting[f]>> \in ready
      BY <2>0, <3>3, EntryOf DEF LimiterInv, ReadyCovers
    <3>5. e[2] <= waiting[f] /\ waiting[k] = e[2] /\ waiting[k] # 0
      BY <3>1, <3>2, <3>4 DEF Reserve, IsFirst, Live, IsFront
    <3> QED BY <3>3, <3>5 DEF TypeOK
  <2>3. CASE ~(\E i \in Keys : Acquire(i)) /\ ~(\E e \in ready, i \in Keys : Reserve(e, i))
    <3>1. k \notin AllHolders'
      BY <2>3 DEF Next, vars, Dispatch, Enqueue, Claim, Release, CancelWaiting, CancelReserved,
         expire, DropStale, DispatchEnds, AllHolders, TypeOK
    <3> QED BY <3>1
  <2> QED BY <2>1, <2>2, <2>3
<1> QED BY <1>1, LimiterCorrect, PTL DEF Spec, FirstComeFirstServed

\* An expiry timer that fires after its reservation was claimed or cancelled
\* changes nothing but itself.
THEOREM LateExpiry == Spec => LateExpiryIsHarmless
<1> DEFINE Harmless == \A t \in timers \ timers' :
        reserved[t[1]] # t[2] => UNCHANGED <<reserved, running, used, total>>
<1>1. TypeOK /\ CountersExact /\ LimiterInv /\ [Next]_vars => Harmless
  <2> SUFFICES ASSUME TypeOK, [Next]_vars, NEW t \in timers \ timers', reserved[t[1]] # t[2]
               PROVE  UNCHANGED <<reserved, running, used, total>>
    OBVIOUS
  <2>1. ASSUME NEW k \in Keys, Stop(k) PROVE FALSE
    BY <2>1 DEF Stop
  <2>2. PICK u \in timers : expire(u[1], u[2])
    BY <2>1 DEF Next, vars, Dispatch, Acquire, Enqueue, Claim, Release, CancelWaiting,
       CancelReserved, DropStale, Reserve, DispatchEnds
  <2>3. u = t
    BY <2>2 DEF expire, TypeOK
  <2> QED BY <2>2, <2>3 DEF expire
<1> QED BY <1>1, LimiterCorrect, PTL DEF Spec, LateExpiryIsHarmless

\* What holds of every state of the limiter, for any number of keys, namespaces and slots.
THEOREM LimiterAlwaysSafe == Spec => []LimiterSafe
BY LimiterCorrect, CapsCorrect, PTL DEF LimiterSafe
=============================================================================
