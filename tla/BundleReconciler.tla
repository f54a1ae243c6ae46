-------------------------- MODULE BundleReconciler --------------------------
(***************************************************************************)
(* The Bundle reconciler: the phases of the Bundles of one Pipeline, their *)
(* supersession, and the maxConcurrentPromotions cap.                      *)
(*                                                                         *)
(* Several workers reconcile different Bundles at once, each from an       *)
(* informer cache that lags behind the API server.  A reconcile reads the  *)
(* cache, counts promoting Bundles at the API server under the Pipeline's  *)
(* lock when it is about to take a slot, and patches its Bundle's status   *)
(* with an optimistic lock.  These are separate steps.  Resource versions  *)
(* are not kept: a copy either is the version at the API server or is not, *)
(* which is all an optimistic lock can tell.                               *)
(*                                                                         *)
(* What a Bundle's PromotionSteps say is the environment's: outcome.       *)
(***************************************************************************)
EXTENDS Naturals, FiniteSets

CONSTANTS
    Bundles,       \* Bundles of one Pipeline, numbered by creation time
    typeOf,        \* spec.type of each
    carries,       \* the Bundles each one shares an artifact with
    Held,          \* Bundles a hold of the Pipeline names (spec.holds)
    Limit,         \* maxConcurrentPromotions; 0: no cap
    MaxRejected,   \* bound: Bundles a user rejects
    StepOutcomes,  \* bound: what the steps of a Bundle may come to
    ReadsFail,     \* whether a read of the Pipeline may fail
    None           \* no Bundle: the lock is free

ASSUME BundlesAssumption == Bundles \subseteq Nat /\ IsFiniteSet(Bundles)
ASSUME LimitAssumption == Limit \in Nat
ASSUME NoneAssumption == None \notin Bundles
ASSUME ReadsAssumption == ReadsFail \in BOOLEAN
ASSUME StepOutcomesAssumption ==
    StepOutcomes \subseteq {"running", "failing", "rollingBack", "superseded", "verified"}

VARIABLES
    obj,       \* the Bundle at the API server
    cache,     \* the Bundle in the informer cache
    current,   \* Bundles whose cached copy is the API server's version
    queue,     \* the workqueue
    pc,        \* where the reconcile of a Bundle is: idle, slot (wants the lock), write
    seen,      \* what a reconcile that wants the lock has read
    want,      \* the fields the reconcile patches
    fresh,     \* reconciles whose copy of the Bundle is the API server's version
    lock,      \* who holds the Pipeline's lock
    outcome,   \* what the Bundle's steps say
    uncounted  \* history: Bundles that went back to Promoting without a count

apiVars == <<obj, uncounted>>
cacheVars == <<cache, current>>
runVars == <<pc, seen, want, fresh, lock>>
vars == <<apiVars, cacheVars, queue, runVars, outcome>>

InFlight == {"New", "Available", "Promoting"}
Settled  == {"Verified", "Superseded", "Rejected"}
Phases   == {"none", "Failed"} \cup InFlight \cup Settled
Outcomes == {"running", "failing", "rollingBack", "superseded", "verified"}

\* slot: the WaitingForSlot condition; graph: status.graphRef is set.
Objects == [phase : Phases, slot : BOOLEAN, graph : BOOLEAN, rejected : BOOLEAN]
Patches == [phase : Phases, slot : BOOLEAN, graph : BOOLEAN]
Absent  == [phase |-> "none", slot |-> FALSE, graph |-> FALSE, rejected |-> FALSE]
NoPatch == [phase |-> "none", slot |-> FALSE, graph |-> FALSE]
NotSeen == [own |-> Absent, newer |-> FALSE, failing |-> FALSE]

TypeOK ==
    /\ obj \in [Bundles -> Objects] /\ cache \in [Bundles -> Objects]
    /\ current \subseteq Bundles /\ queue \subseteq Bundles
    /\ pc \in [Bundles -> {"idle", "slot", "write"}]
    /\ seen \in [Bundles -> [own : Objects, newer : BOOLEAN, failing : BOOLEAN]]
    /\ want \in [Bundles -> Patches]
    /\ fresh \subseteq Bundles
    /\ lock \in Bundles \cup {None}
    /\ outcome \in [Bundles -> Outcomes]
    /\ uncounted \subseteq Bundles

-----------------------------------------------------------------------------
(* What a reconcile sees in the cache.                                     *)

\* The Bundles that supersede b: lifecycle.SupersedingSiblings.  A hold that
\* names b counts only if the Pipeline could be read.
SupersedingSiblings(b, read, countVerified) ==
    IF read /\ b \in Held THEN {}
    ELSE {s \in Bundles :
            /\ s > b /\ typeOf[s] = typeOf[b]
            /\ cache[s].phase \in InFlight \cup (IF countVerified THEN {"Verified"} ELSE {})
            /\ ~cache[s].rejected
            /\ \A r \in carries[s] : ~cache[r].rejected}

\* rejectedArtifactOf: a rejected Bundle whose artifact b carries.
CarriesRejected(b) == \E r \in carries[b] : cache[r].rejected /\ cache[r].phase = "Rejected"

\* Mutant: Failed Bundles are not re-queued.
WaitingSiblingsInFlight(b) ==
    {s \in Bundles \ {b} : (b > s \/ Limit > 0) /\ cache[s].phase \in InFlight}

\* waitingSiblings: the Bundles an event of b re-queues.
WaitingSiblings(b) ==
    {s \in Bundles \ {b} :
        /\ b > s \/ Limit > 0
        /\ cache[s].phase \in InFlight \/ (cache[s].phase = "Failed" /\ cache[s].graph)}

Failing(o) == o \in {"failing", "rollingBack"}

-----------------------------------------------------------------------------
(* Starting and ending a reconcile.                                        *)

\* The worker takes b from the queue and reads it from the cache.
Begin(b) ==
    /\ b \in queue /\ pc[b] = "idle"
    /\ queue' = queue \ {b}
    /\ fresh' = IF b \in current THEN fresh \cup {b} ELSE fresh \ {b}
    /\ UNCHANGED <<apiVars, cacheVars, lock, outcome>>

\* ... and has nothing to write.  (Or only evidence: a patch of fields that are
\* not modelled can only make a later one meet a Conflict, and is not kept.)
Done(b) == UNCHANGED <<pc, seen, want>>

\* ... and goes on to patch phase p, the slot condition and the Graph name.
Patch(b, p, slot, graph) ==
    /\ pc' = [pc EXCEPT ![b] = "write"]
    /\ want' = [want EXCEPT ![b] = [phase |-> p, slot |-> slot, graph |-> graph]]
    /\ UNCHANGED seen

\* ... and goes on to take the Pipeline's lock.
TakeSlot(b, newer, failing) ==
    /\ pc' = [pc EXCEPT ![b] = "slot"]
    /\ seen' = [seen EXCEPT ![b] = [own |-> cache[b], newer |-> newer, failing |-> failing]]
    /\ UNCHANGED want

\* The reconcile ends; the deferred unlock runs.
End(b) ==
    /\ pc' = [pc EXCEPT ![b] = "idle"]
    /\ seen' = [seen EXCEPT ![b] = NotSeen]
    /\ want' = [want EXCEPT ![b] = NoPatch]
    /\ lock' = IF lock = b THEN None ELSE lock

\* supersede keeps the Graph name and clears the slot condition.
Supersede(b) == Patch(b, "Superseded", FALSE, cache[b].graph)

-----------------------------------------------------------------------------
(* reconcile, by what the cached copy says.                                *)

\* markRejected for spec.rejected, markRejectedArtifact for an artifact.
Rejecting(b) ==
    \/ cache[b].rejected /\ cache[b].phase # "Rejected"
    \/ cache[b].phase \in InFlight \cup {"Failed"} /\ CarriesRejected(b)

MarkRejected(b) ==
    /\ Begin(b)
    /\ Rejecting(b)
    /\ Patch(b, "Rejected", cache[b].slot, cache[b].graph)

handleNew(b) ==
    /\ Begin(b)
    /\ cache[b].phase = "New" /\ ~Rejecting(b)
    /\ Patch(b, "Available", FALSE, FALSE)

\* markInvalid: the Pipeline cannot be built into a Graph.  Without a cap there
\* is no lock to take.
handleAvailable(b, read) ==
    /\ Begin(b)
    /\ cache[b].phase = "Available" /\ ~Rejecting(b)
    /\ IF SupersedingSiblings(b, read, FALSE) # {} THEN Supersede(b)
       ELSE \/ Patch(b, "Failed", cache[b].slot, FALSE)
            \/ Limit > 0 /\ TakeSlot(b, FALSE, FALSE)
            \/ Limit = 0 /\ Patch(b, "Promoting", cache[b].slot, TRUE)

\* handleBound and handleSyncEvidence for a Promoting Bundle.  It is Verified
\* only if the Pipeline was read.
handlePromoting(b, read) ==
    /\ Begin(b)
    /\ cache[b].phase = "Promoting" /\ ~Rejecting(b)
    /\ IF SupersedingSiblings(b, read, FALSE) # {} THEN Supersede(b)
       ELSE IF Failing(outcome[b]) THEN Patch(b, "Failed", cache[b].slot, cache[b].graph)
       ELSE IF outcome[b] = "superseded" THEN Supersede(b)
       ELSE IF outcome[b] = "verified" /\ read THEN Patch(b, "Verified", cache[b].slot, cache[b].graph)
       ELSE Done(b)

\* retryIfPipelineChanged: Failed before there was a Graph, and the Pipeline
\* changed since, or it did not.
retryIfPipelineChanged(b) ==
    /\ Begin(b)
    /\ cache[b].phase = "Failed" /\ ~cache[b].graph /\ ~Rejecting(b)
    /\ \/ Done(b)
       \/ IF SupersedingSiblings(b, TRUE, TRUE) # {} THEN Supersede(b)
          ELSE Patch(b, "Available", FALSE, FALSE)

\* What a Failed Bundle patches, given whether the cap is full.
Recovery(own, newer, failing, full) ==
    IF failing THEN [phase |-> "Failed", slot |-> full, graph |-> own.graph]
    ELSE IF newer THEN [phase |-> "Superseded", slot |-> FALSE, graph |-> own.graph]
    ELSE IF full THEN [phase |-> "Failed", slot |-> TRUE, graph |-> own.graph]
    ELSE [phase |-> "Promoting", slot |-> FALSE, graph |-> own.graph]

\* handleSyncEvidence for a Failed Bundle: it yields to a newer one, or takes a
\* slot back.  It takes no lock and counts nothing when a newer Bundle replaced
\* it, when there is no cap, or when the Pipeline could not be read.
handleFailed(b, read) ==
    LET newer    == SupersedingSiblings(b, read, TRUE)
        replaced == \E s \in newer : cache[s].phase \in {"Promoting", "Verified"}
        target   == Recovery(cache[b], newer # {}, Failing(outcome[b]), FALSE)
    IN
    /\ Begin(b)
    /\ cache[b].phase = "Failed" /\ cache[b].graph /\ ~Rejecting(b)
    /\ IF newer # {} /\ outcome[b] = "rollingBack" THEN Supersede(b)
       ELSE IF ~replaced /\ Limit > 0 /\ read THEN TakeSlot(b, newer # {}, Failing(outcome[b]))
       ELSE IF target = [phase |-> "Failed", slot |-> cache[b].slot, graph |-> TRUE] THEN Done(b)
       ELSE Patch(b, target.phase, target.slot, target.graph)

\* A settled Bundle: only its evidence is synced.
handleSettled(b) ==
    /\ Begin(b)
    /\ cache[b].phase \in Settled /\ ~Rejecting(b)
    /\ Done(b)

-----------------------------------------------------------------------------
(* The slot count and the patch.                                           *)

\* Mutant: the count reads the informer cache.
countPromotingCached(b) == Cardinality({s \in Bundles \ {b} : cache[s].phase = "Promoting"})

\* countPromoting: the other promoting Bundles, read from the API server.
countPromoting(b) == Cardinality({s \in Bundles \ {b} : obj[s].phase = "Promoting"})

\* An Available Bundle under the lock: the cap is full and it says so in its
\* Ready condition and tries again later, or it is translated and takes the slot, unless it cannot be built.
AdmitAvailable(b) ==
    /\ pc[b] = "slot" /\ lock = None
    /\ seen[b].own.phase = "Available"
    /\ \/ /\ countPromoting(b) >= Limit
          /\ queue' = queue \cup {b}
          /\ End(b)
       \/ /\ countPromoting(b) < Limit
          /\ lock' = b
          /\ \E p \in {"Promoting", "Failed"} : Patch(b, p, seen[b].own.slot, p = "Promoting")
          /\ UNCHANGED queue
    /\ UNCHANGED <<apiVars, cacheVars, fresh, outcome>>

\* A Failed Bundle under the lock: slotTaken, setSlotHold and the recovery.
RecoverFailed(b) ==
    LET own    == seen[b].own
        target == Recovery(own, seen[b].newer, seen[b].failing, countPromoting(b) >= Limit)
    IN
    /\ pc[b] = "slot" /\ lock = None
    /\ own.phase = "Failed"
    /\ IF target = [phase |-> "Failed", slot |-> own.slot, graph |-> TRUE]
       THEN End(b)
       ELSE Patch(b, target.phase, target.slot, target.graph) /\ lock' = b
    /\ UNCHANGED <<apiVars, cacheVars, queue, fresh, outcome>>

\* Mutant: the patch has no optimistic lock.
WriteStatusUnlocked(b) ==
    /\ pc[b] = "write"
    /\ obj' = [obj EXCEPT ![b].phase = want[b].phase, ![b].slot = want[b].slot, ![b].graph = want[b].graph]
    /\ uncounted' = IF want[b].phase = "Promoting" /\ lock # b THEN uncounted \cup {b} ELSE uncounted \ {b}
    /\ current' = current \ {b}
    /\ fresh' = fresh \ {b}
    /\ End(b)
    /\ UNCHANGED <<cache, queue, outcome>>

\* The status patch, on the version the reconcile read.
WriteStatus(b) ==
    /\ pc[b] = "write" /\ b \in fresh
    /\ obj' = [obj EXCEPT ![b].phase = want[b].phase, ![b].slot = want[b].slot, ![b].graph = want[b].graph]
    /\ uncounted' = IF want[b].phase = "Promoting" /\ lock # b THEN uncounted \cup {b} ELSE uncounted \ {b}
    /\ current' = current \ {b}
    /\ fresh' = fresh \ {b}
    /\ End(b)
    /\ UNCHANGED <<cache, queue, outcome>>

\* The patch is refused with a Conflict, or any API call fails: tried again.
\* Waiting for the lock does not fail.
FailReconcile(b) ==
    /\ pc[b] = "write" \/ (pc[b] = "slot" /\ lock = None)
    /\ queue' = queue \cup {b}
    /\ End(b)
    /\ UNCHANGED <<apiVars, cacheVars, fresh, outcome>>

Reconcile(b) ==
    \/ MarkRejected(b) \/ handleNew(b)
    \/ \E read \in {TRUE, ~ReadsFail} :
        handleAvailable(b, read) \/ handlePromoting(b, read) \/ handleFailed(b, read)
    \/ retryIfPipelineChanged(b) \/ handleSettled(b)

\* The controller restarts: it lists every Bundle and queues it.
Restart ==
    /\ \E b \in Bundles : pc[b] # "idle"
    /\ cache' = obj /\ current' = Bundles
    /\ queue' = {b \in Bundles : obj[b].phase # "none"}
    /\ pc' = [b \in Bundles |-> "idle"]
    /\ seen' = [b \in Bundles |-> NotSeen]
    /\ want' = [b \in Bundles |-> NoPatch]
    /\ fresh' = {} /\ lock' = None
    /\ UNCHANGED <<apiVars, outcome>>

-----------------------------------------------------------------------------
(* The informer, and what happens around the reconciler.                   *)

\* A watch event: b is queued, and on a new phase the Bundles it may concern.
Informed(b) ==
    /\ b \notin current
    /\ cache' = [cache EXCEPT ![b] = obj[b]]
    /\ current' = current \cup {b}
    /\ queue' = queue \cup {b} \cup (IF cache[b].phase # obj[b].phase THEN WaitingSiblings(b) ELSE {})
    /\ UNCHANGED <<apiVars, runVars, outcome>>

\* Someone else writes the Bundle.
Touch(b, o) ==
    /\ obj' = [obj EXCEPT ![b] = o]
    /\ current' = current \ {b}
    /\ fresh' = fresh \ {b}
    /\ UNCHANGED <<cache, queue, pc, seen, want, lock, outcome, uncounted>>

CreateBundle(b) ==
    /\ obj[b].phase = "none"
    /\ \A o \in Bundles : o < b => obj[o].phase # "none"
    /\ Touch(b, [Absent EXCEPT !.phase = "New"])

\* A user sets spec.rejected.
RejectSpec(b) ==
    /\ obj[b].phase # "none" /\ ~obj[b].rejected
    /\ Cardinality({r \in Bundles : obj[r].rejected}) < MaxRejected
    /\ Touch(b, [obj[b] EXCEPT !.rejected = TRUE])

\* A step of b changes: it fails, is retried, rolls back, is refused for a newer
\* push, or the last one is Verified.
StepEvent(b, o) ==
    /\ obj[b].graph /\ obj[b].phase \in {"Promoting", "Failed"}
    /\ \/ outcome[b] = "running" /\ o # "running"
       \/ Failing(outcome[b]) /\ o = "running"
    /\ outcome' = [outcome EXCEPT ![b] = o]
    /\ queue' = queue \cup {b}
    /\ UNCHANGED <<apiVars, cacheVars, runVars>>

Init ==
    /\ obj = [b \in Bundles |-> Absent] /\ cache = [b \in Bundles |-> Absent]
    /\ current = Bundles
    /\ queue = {}
    /\ pc = [b \in Bundles |-> "idle"]
    /\ seen = [b \in Bundles |-> NotSeen]
    /\ want = [b \in Bundles |-> NoPatch]
    /\ fresh = {} /\ lock = None
    /\ outcome = [b \in Bundles |-> "running"]
    /\ uncounted = {}

Next ==
    \/ \E b \in Bundles :
        \/ Reconcile(b) \/ AdmitAvailable(b) \/ RecoverFailed(b)
        \/ WriteStatus(b) \/ FailReconcile(b)
        \/ Informed(b) \/ CreateBundle(b) \/ RejectSpec(b)
        \/ \E o \in StepOutcomes : StepEvent(b, o)
    \/ Restart

Spec == Init /\ [][Next]_vars

\* The informer delivers events, workers take what is queued, sync.Mutex lets
\* nobody starve, a Conflict is answered, and an API call that is retried for ever
\* succeeds at last; the controller does not restart for ever.  Nothing makes a promotion finish.
Fairness ==
    /\ \A b \in Bundles :
        /\ WF_vars(Informed(b))
        /\ WF_vars(Reconcile(b))
        /\ SF_vars(AdmitAvailable(b) \/ RecoverFailed(b))
        /\ SF_vars(WriteStatus(b))
        /\ WF_vars(b \notin fresh /\ pc[b] = "write" /\ FailReconcile(b))
    /\ <>[][~Restart]_vars

FairSpec == Spec /\ Fairness

-----------------------------------------------------------------------------
(* Properties.                                                             *)

Promoting == {b \in Bundles : obj[b].phase = "Promoting"}
Counted == Promoting \ uncounted
FreeSlot(b) == Limit = 0 \/ Cardinality(Promoting \ {b}) < Limit

\* "MaxConcurrentPromotions caps the number of Bundles in Promoting phase for
\* this pipeline at any given time" (PipelineSpec).
CapHolds == Limit > 0 => Cardinality(Promoting) <= Limit

\* The cap over the Bundles that were counted in, whatever the caches show and
\* however admissions and recoveries of several workers interleave.
CountedCapHolds == Limit > 0 => Cardinality(Counted) <= Limit

\* Only a Failed Bundle (or one rejected since) waits for a slot: a condition
\* left on any other would keep its Graph from creating steps for good.
HoldOnlyWhileFailed == \A b \in Bundles : obj[b].slot => obj[b].phase \in {"Failed", "Rejected"}

\* A settled Bundle stays settled, and a rejection is final: a reconcile that
\* works from a stale copy undoes neither.
SettledStays ==
    [][\A b \in Bundles :
        /\ obj[b].phase \in Settled => obj'[b].phase \in {obj[b].phase, "Rejected"}
        /\ obj[b].phase = "Failed" => obj'[b].phase # "Verified"]_vars

\* b waits for the reconciler, not for its promotion, an older Bundle or a user.
Waits(b, why) ==
    LET newer(phases) == \E s \in Bundles :
            /\ s > b /\ typeOf[s] = typeOf[b] /\ obj[s].phase \in phases
            /\ ~obj[s].rejected /\ \A r \in carries[s] : ~obj[r].rejected
            /\ b \notin Held
    IN
    \/ why = "superseded" /\ obj[b].phase \in {"Available", "Promoting"} /\ newer(InFlight)
    \/ why = "slot"       /\ obj[b].phase = "Available" /\ FreeSlot(b)
    \/ why = "steps"      /\ obj[b].phase = "Promoting" /\ outcome[b] # "running"
    \/ why = "recovery"   /\ obj[b].phase = "Failed" /\ obj[b].graph /\ ~Failing(outcome[b]) /\ FreeSlot(b)
    \/ why = "yield"      /\ obj[b].phase = "Failed" /\ outcome[b] = "rollingBack" /\ newer(InFlight \cup {"Verified"})
    \/ why = "hold"       /\ obj[b].phase = "Failed" /\ obj[b].slot /\ FreeSlot(b)

\* The reconciler, driven by events, forgets nobody: no Bundle keeps waiting for
\* it, although a slot may free, a newer Bundle appear or a step change while
\* its reconcile runs on what the cache showed before.
NothingIsForgotten ==
    \A b \in Bundles, why \in {"superseded", "slot", "steps", "recovery", "yield", "hold"} :
        ~<>[]Waits(b, why)

(* Why the cap holds, as an inductive invariant.                           *)

\* Legal moves of a Bundle's phase.
Moves(from, to) ==
    \/ to = "Rejected" \/ from = to
    \/ from = "New" /\ to = "Available"
    \/ from = "Available" /\ to \in {"Promoting", "Failed", "Superseded"}
    \/ from = "Promoting" /\ to \in {"Failed", "Superseded", "Verified"}
    \/ from = "Failed" /\ to \in {"Available", "Promoting", "Superseded"}

\* A copy that is current is the API server's, and what is written was decided
\* from it.
CopiesTrue ==
    /\ \A b \in current : cache[b] = obj[b]
    /\ \A b \in fresh : pc[b] = "slot" => seen[b].own = obj[b]
    /\ \A b \in fresh : pc[b] = "write" =>
        /\ Moves(obj[b].phase, want[b].phase)
        /\ want[b].slot => want[b].phase \in {"Failed", "Rejected"}

\* Who holds the lock to take a slot leaves room for itself.
SlotReserved ==
    /\ \A b \in Bundles : lock = b => pc[b] = "write"
    /\ \A b \in Bundles :
        lock = b /\ want[b].phase = "Promoting" => Cardinality(Counted \ {b}) < Limit

SlotInv == CopiesTrue /\ SlotReserved /\ HoldOnlyWhileFailed /\ CountedCapHolds

\* Never more Bundles are counted than maxConcurrentPromotions (countPromoting), only a Failed or
\* rejected Bundle waits for a slot to recover, a copy the optimistic lock accepts is true, and who
\* holds the Pipeline's lock to take a slot has room for it.  The variables have their types.
BundlesSafe == TypeOK /\ SlotInv
=============================================================================
