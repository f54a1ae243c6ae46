------------------------------- MODULE Limiter -------------------------------
(***************************************************************************)
(* The slots limiter: a budget of outbound calls (MetricCheck queries,     *)
(* ChangeRequest provider calls) shared between namespaces.  A check that  *)
(* finds no slot waits; a freed slot is reserved for the earliest waiter   *)
(* whose namespace is under its cap, which is woken and must claim it      *)
(* before ClaimTTL.                                                        *)
(*                                                                         *)
(* Every operation runs under the Limiter's mutex.  The dispatch loop is   *)
(* modelled one iteration per step, with the mutex held; the other         *)
(* operations are one step.  A namespace's list of waiters is in arrival   *)
(* order, so it is kept as the waiters' sequence numbers.  The ready heap  *)
(* is a set: an entry pushed twice is stale the second time.               *)
(***************************************************************************)
EXTENDS Naturals, FiniteSets

CONSTANTS
    Keys,         \* checks (MetricChecks or ChangeRequests)
    Namespaces,
    nsOf,         \* the namespace of each check
    Global,       \* calls that may run at once
    PerNamespace, \* calls of one namespace that may run at once
    MaxSeq        \* bound: arrivals stop at this sequence number

ASSUME KeysAssumption == IsFiniteSet(Keys) /\ nsOf \in [Keys -> Namespaces]
ASSUME CapsAssumption == Global \in Nat \ {0} /\ PerNamespace \in Nat \ {0}
ASSUME MaxSeqAssumption == MaxSeq \in Nat

VARIABLES
    seq,      \* the last sequence number given out
    total,    \* slots running or reserved
    used,     \* the same, per namespace
    waiting,  \* the sequence number of a waiting check; 0: not waiting
    reserved, \* the generation of the reservation of a check; 0: none
    ready,    \* <<namespace, seq>>: the namespace could take a slot for that waiter
    running,  \* checks with a release function they have not called
    timers,   \* <<check, generation>>: expiry timers that were not stopped and have not run
    mutex     \* "free", or "dispatch" while an operation is in its dispatch loop

vars == <<seq, total, used, waiting, reserved, ready, running, timers, mutex>>

TypeOK ==
    /\ seq \in Nat
    /\ total \in Nat
    /\ used \in [Namespaces -> Nat]
    /\ waiting \in [Keys -> Nat]
    /\ reserved \in [Keys -> Nat]
    /\ ready \subseteq Namespaces \X Nat
    /\ running \subseteq Keys
    /\ timers \subseteq Keys \X (Nat \ {0})
    /\ mutex \in {"free", "dispatch"}

-----------------------------------------------------------------------------
Waiters(n) == {k \in Keys : nsOf[k] = n /\ waiting[k] # 0}

\* k is the first waiter of its namespace.
IsFront(k) == waiting[k] # 0 /\ \A j \in Waiters(nsOf[k]) : waiting[k] <= waiting[j]

\* The entry markReady pushes for namespace n: none when it is at its cap or
\* has no waiter.
ReadyEntries(n) ==
    IF used[n] < PerNamespace
    THEN {<<n, waiting[k]>> : k \in {j \in Waiters(n) : IsFront(j)}}
    ELSE {}

markReady(n) == ready' = ready \cup ReadyEntries(n)'

\* timer.Stop: an expiry that already waits for the mutex is not stopped.
Stop(k) == timers' \in {timers, timers \ {<<k, reserved[k]>>}}

\* free: give one slot of n back and go on to dispatch.
free(n) ==
    /\ used' = [used EXCEPT ![n] = @ - 1]
    /\ total' = total - 1
    /\ markReady(n)
    /\ mutex' = "dispatch"

\* TryAcquire of a check that neither waits nor has a reservation: a free slot.
Acquire(k) ==
    /\ mutex = "free"
    /\ k \notin running /\ reserved[k] = 0 /\ waiting[k] = 0
    /\ total < Global /\ used[nsOf[k]] < PerNamespace
    /\ used' = [used EXCEPT ![nsOf[k]] = @ + 1]
    /\ total' = total + 1
    /\ running' = running \cup {k}
    /\ UNCHANGED <<seq, waiting, reserved, ready, timers, mutex>>

\* TryAcquire: no slot; the check goes to the end of its namespace's queue.
Enqueue(k) ==
    /\ mutex = "free"
    /\ k \notin running /\ reserved[k] = 0 /\ waiting[k] = 0
    /\ total >= Global \/ used[nsOf[k]] >= PerNamespace
    /\ seq < MaxSeq
    /\ seq' = seq + 1
    /\ waiting' = [waiting EXCEPT ![k] = seq + 1]
    /\ UNCHANGED <<total, used, reserved, running, timers, mutex>>
    /\ IF Waiters(nsOf[k]) = {} THEN markReady(nsOf[k]) ELSE UNCHANGED ready

\* TryAcquire: the slot dispatch reserved for the check.
Claim(k) ==
    /\ mutex = "free"
    /\ reserved[k] # 0
    /\ Stop(k)
    /\ reserved' = [reserved EXCEPT ![k] = 0]
    /\ running' = running \cup {k}
    /\ UNCHANGED <<seq, total, used, waiting, ready, mutex>>

\* The release function: once.
Release(k) ==
    /\ mutex = "free"
    /\ k \in running
    /\ running' = running \ {k}
    /\ UNCHANGED <<seq, waiting, reserved, timers>>
    /\ free(nsOf[k])

\* Mutant: the generation is not compared.
ExpireAnyGeneration(k, gen) ==
    /\ mutex = "free"
    /\ <<k, gen>> \in timers
    /\ timers' = timers \ {<<k, gen>>}
    /\ UNCHANGED <<seq, waiting, running>>
    /\ IF reserved[k] # 0
       THEN reserved' = [reserved EXCEPT ![k] = 0] /\ free(nsOf[k])
       ELSE UNCHANGED <<total, used, reserved, ready, mutex>>

\* expire: the reservation was not claimed in time.  A timer that lost the race
\* with a claim finds another generation, or none.
expire(k, gen) ==
    /\ mutex = "free"
    /\ <<k, gen>> \in timers
    /\ timers' = timers \ {<<k, gen>>}
    /\ UNCHANGED <<seq, waiting, running>>
    /\ IF reserved[k] = gen
       THEN reserved' = [reserved EXCEPT ![k] = 0] /\ free(nsOf[k])
       ELSE UNCHANGED <<total, used, reserved, ready, mutex>>

\* Mutant: the next waiter of the namespace is not marked ready.
CancelWaitingQuietly(k) ==
    /\ mutex = "free"
    /\ waiting[k] # 0
    /\ waiting' = [waiting EXCEPT ![k] = 0]
    /\ UNCHANGED <<seq, total, used, reserved, ready, running, timers, mutex>>

\* Cancel of a waiting check.
CancelWaiting(k) ==
    /\ mutex = "free"
    /\ waiting[k] # 0
    /\ waiting' = [waiting EXCEPT ![k] = 0]
    /\ UNCHANGED <<seq, total, used, reserved, running, timers, mutex>>
    /\ IF IsFront(k) THEN markReady(nsOf[k]) ELSE UNCHANGED ready

\* Cancel of a check with a reservation.
CancelReserved(k) ==
    /\ mutex = "free"
    /\ reserved[k] # 0
    /\ Stop(k)
    /\ reserved' = [reserved EXCEPT ![k] = 0]
    /\ UNCHANGED <<seq, waiting, running>>
    /\ free(nsOf[k])

\* The entry the heap pops.
IsFirst(e) == e \in ready /\ \A f \in ready : e[2] <= f[2]

\* The entry still names a waiter that can take a slot.
Live(e, k) ==
    /\ used[e[1]] < PerNamespace
    /\ nsOf[k] = e[1] /\ IsFront(k) /\ waiting[k] = e[2]

\* dispatch, one iteration: a stale entry is dropped ...
DropStale(e) ==
    /\ mutex = "dispatch" /\ total < Global
    /\ IsFirst(e)
    /\ ~ \E k \in Keys : Live(e, k)
    /\ ready' = ready \ {e}
    /\ UNCHANGED <<seq, total, used, waiting, reserved, running, timers, mutex>>

\* Mutant: any namespace that is ready is served, not the earliest.
ReserveAny(e, k) ==
    /\ mutex = "dispatch" /\ total < Global
    /\ e \in ready
    /\ Live(e, k)
    /\ waiting' = [waiting EXCEPT ![k] = 0]
    /\ used' = [used EXCEPT ![e[1]] = @ + 1]
    /\ total' = total + 1
    /\ seq' = seq + 1
    /\ reserved' = [reserved EXCEPT ![k] = seq + 1]
    /\ timers' = timers \cup {<<k, seq + 1>>}
    /\ ready' = (ready \ {e}) \cup ReadyEntries(e[1])'
    /\ UNCHANGED <<running, mutex>>

\* ... or the slot is reserved for the waiter, which is woken.
Reserve(e, k) ==
    /\ mutex = "dispatch" /\ total < Global
    /\ IsFirst(e)
    /\ Live(e, k)
    /\ waiting' = [waiting EXCEPT ![k] = 0]
    /\ used' = [used EXCEPT ![e[1]] = @ + 1]
    /\ total' = total + 1
    /\ seq' = seq + 1
    /\ reserved' = [reserved EXCEPT ![k] = seq + 1]
    /\ timers' = timers \cup {<<k, seq + 1>>}
    /\ ready' = (ready \ {e}) \cup ReadyEntries(e[1])'
    /\ UNCHANGED <<running, mutex>>

\* Mutant: dispatch serves one waiter per freed slot and leaves stale entries.
DispatchStopsEarly ==
    /\ mutex = "dispatch"
    /\ mutex' = "free"
    /\ UNCHANGED <<seq, total, used, waiting, reserved, ready, running, timers>>

\* dispatch ends: no slot is free or nobody could take one.
DispatchEnds ==
    /\ mutex = "dispatch"
    /\ total >= Global \/ ready = {}
    /\ mutex' = "free"
    /\ UNCHANGED <<seq, total, used, waiting, reserved, ready, running, timers>>

-----------------------------------------------------------------------------
Init ==
    /\ seq = 0 /\ total = 0
    /\ used = [n \in Namespaces |-> 0]
    /\ waiting = [k \in Keys |-> 0]
    /\ reserved = [k \in Keys |-> 0]
    /\ ready = {} /\ running = {} /\ timers = {}
    /\ mutex = "free"

Dispatch ==
    \/ \E e \in ready : DropStale(e) \/ \E k \in Keys : Reserve(e, k)
    \/ DispatchEnds

Next ==
    \/ \E k \in Keys :
        \/ Acquire(k) \/ Enqueue(k) \/ Claim(k) \/ Release(k)
        \/ CancelWaiting(k) \/ CancelReserved(k)
    \/ \E t \in timers : expire(t[1], t[2])
    \/ Dispatch

Spec == Init /\ [][Next]_vars

Expires(k) == reserved[k] # 0 /\ expire(k, reserved[k])

\* A goroutine that holds the mutex goes on; a call ends (every provider call
\* has a timeout); a timer that is not stopped fires.  sync.Mutex lets nobody
\* starve, so both get the mutex although others keep taking it: strong
\* fairness.  Nothing makes a woken check claim its reservation.
Fairness ==
    /\ WF_vars(Dispatch)
    /\ \A k \in Keys :
        /\ SF_vars(Release(k))
        /\ SF_vars(Expires(k))

FairSpec == Spec /\ Fairness

-----------------------------------------------------------------------------
(* Properties.                                                             *)

Holders(n) == {k \in Keys : nsOf[k] = n /\ (k \in running \/ reserved[k] # 0)}
AllHolders == {k \in Keys : k \in running \/ reserved[k] # 0}

\* The counters are what they count, across claims, releases, cancels and
\* expiries that race: total and used never drift from the slots held.
CountersExact ==
    /\ total = Cardinality(AllHolders)
    /\ \A n \in Namespaces : used[n] = Cardinality(Holders(n))

\* "at most Global queries run at once; at most PerNamespace of one namespace".
CapsHold ==
    /\ Cardinality(running) <= Global
    /\ \A n \in Namespaces : Cardinality({k \in running : nsOf[k] = n}) <= PerNamespace

\* "dispatch keeps no eligible waiter behind a free slot" (TryAcquire): while
\* nobody holds the mutex, no check waits that could have a slot.
NoWaiterBehindFreeSlot ==
    mutex = "free" /\ total < Global =>
        \A k \in Keys : waiting[k] # 0 => used[nsOf[k]] >= PerNamespace

\* Slots go first come, first served: a slot is never reserved for a check, nor
\* taken by a new one, while an earlier one waits whose namespace is under
\* its cap.
FirstComeFirstServed ==
    [][\A k, j \in Keys :
        /\ k \notin AllHolders /\ k \in AllHolders'
        /\ waiting[j] # 0 /\ used[nsOf[j]] < PerNamespace
        => waiting[k] # 0 /\ waiting[k] <= waiting[j]]_vars

\* An expiry that lost the race with a claim or a cancel takes nobody's slot: not
\* the running call's, nor the check's next reservation.
LateExpiryIsHarmless ==
    [][\A t \in timers \ timers' :
        reserved[t[1]] # t[2] => UNCHANGED <<reserved, running, used, total>>]_vars

\* A waiting check gets a slot, even when checks that were woken never claim.
WaiterIsServed == \A k \in Keys : []<>(waiting[k] = 0)

(* Why no waiter is left behind, as an inductive invariant.                *)

\* A check holds, is promised, or waits for one slot at most.
OneSlotEach ==
    \A k \in Keys :
        /\ k \in running => reserved[k] = 0 /\ waiting[k] = 0
        /\ reserved[k] # 0 => waiting[k] = 0

\* Sequence numbers tell waiters apart.
SeqsFresh ==
    /\ \A k \in Keys : waiting[k] <= seq
    /\ \A k, j \in Keys : waiting[k] = waiting[j] /\ waiting[k] # 0 => k = j

\* The heap has the entry of every namespace that could take a slot.
ReadyCovers == \A n \in Namespaces : ReadyEntries(n) \subseteq ready

LimiterInv ==
    /\ OneSlotEach
    /\ SeqsFresh
    /\ ReadyCovers
    /\ total <= Global
    /\ \A n \in Namespaces : used[n] <= PerNamespace
    /\ NoWaiterBehindFreeSlot

\* Through every race of claims, releases, cancels and expiries: the counters are the slots held, no
\* more checks run than the caps allow, a key has one slot or one place in line, and no check
\* that could run waits behind a free slot.  The variables have their types.
LimiterSafe == TypeOK /\ CountersExact /\ CapsHold /\ LimiterInv
=============================================================================
