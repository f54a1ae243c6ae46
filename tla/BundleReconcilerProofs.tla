----------------------- MODULE BundleReconcilerProofs -----------------------
(***************************************************************************)
(* Proofs about BundleReconciler for any Bundles, types, holds and cap.    *)
(*                                                                         *)
(* A reconcile that starts has one of three shapes (ReconcileShape): it    *)
(* ends, it goes on to the lock, or it patches a legal move of the copy it *)
(* read.  The other lemmas use only the shape.                             *)
(***************************************************************************)
EXTENDS BundleReconciler, TLAPS, FiniteSetTheorems

\* The phase and slot condition a reconcile of b may patch from its cached copy.
LegalPatch(b, p, s) ==
    /\ Moves(cache[b].phase, p)
    /\ s => \/ p \in {"Failed", "Rejected"}
            \/ cache[b].slot /\ cache[b].phase \in {"Available", "Promoting"}

Shape(b) ==
    \/ Done(b)
    \/ \E n, f \in BOOLEAN : TakeSlot(b, n, f)
    \/ \E p \in Phases, s, g \in BOOLEAN : Patch(b, p, s, g) /\ LegalPatch(b, p, s)

\* Every handler of reconcile begins the reconcile and has the shape.
LEMMA ReconcileShape ==
    ASSUME TypeOK, NEW b \in Bundles, Reconcile(b)
    PROVE  Begin(b) /\ Shape(b)
<1>0. /\ cache[b] \in Objects
      /\ cache[b].phase \in Phases /\ cache[b].slot \in BOOLEAN /\ cache[b].graph \in BOOLEAN
      /\ {"New", "Available", "Promoting", "Failed", "Verified", "Superseded", "Rejected"} \subseteq Phases
  BY DEF TypeOK, Objects, Phases, InFlight, Settled
<1>1. ASSUME NEW p \in Phases, NEW s \in BOOLEAN, NEW g \in BOOLEAN, Patch(b, p, s, g), LegalPatch(b, p, s)
      PROVE  Shape(b)
  BY <1>1 DEF Shape
<1>2. ASSUME Done(b) PROVE Shape(b)
  BY <1>2 DEF Shape
<1>3. ASSUME NEW n \in BOOLEAN, NEW f \in BOOLEAN, TakeSlot(b, n, f) PROVE Shape(b)
  BY <1>3 DEF Shape
<1>4. ASSUME Supersede(b), cache[b].phase \in {"Available", "Promoting", "Failed"} PROVE Shape(b)
  <2>1. Patch(b, "Superseded", FALSE, cache[b].graph) BY <1>4 DEF Supersede
  <2>2. LegalPatch(b, "Superseded", FALSE) BY <1>4 DEF LegalPatch, Moves
  <2> QED BY <1>0, <1>1, <2>1, <2>2
<1>5. CASE MarkRejected(b)
  <2>1. Begin(b) /\ Patch(b, "Rejected", cache[b].slot, cache[b].graph) BY <1>5 DEF MarkRejected
  <2>2. LegalPatch(b, "Rejected", cache[b].slot) BY DEF LegalPatch, Moves
  <2> QED BY <1>0, <1>1, <2>1, <2>2
<1>6. CASE handleNew(b)
  <2>1. Begin(b) /\ Patch(b, "Available", FALSE, FALSE) BY <1>6 DEF handleNew
  <2>2. LegalPatch(b, "Available", FALSE) BY <1>6 DEF LegalPatch, Moves, handleNew
  <2> QED BY <1>0, <1>1, <2>1, <2>2
<1>7. ASSUME NEW read \in {TRUE, ~ReadsFail}, handleAvailable(b, read) PROVE Begin(b) /\ Shape(b)
  <2>1. Begin(b) /\ cache[b].phase = "Available" BY <1>7 DEF handleAvailable
  <2>2. \/ Supersede(b) \/ TakeSlot(b, FALSE, FALSE)
        \/ Patch(b, "Failed", cache[b].slot, FALSE) \/ Patch(b, "Promoting", cache[b].slot, TRUE)
    BY <1>7 DEF handleAvailable
  <2>3. LegalPatch(b, "Failed", cache[b].slot) /\ LegalPatch(b, "Promoting", cache[b].slot)
    BY <2>1 DEF LegalPatch, Moves
  <2>4. CASE Supersede(b) BY <1>4, <2>1, <2>4
  <2>5. CASE TakeSlot(b, FALSE, FALSE) BY <1>3, <2>1, <2>5
  <2>6. CASE Patch(b, "Failed", cache[b].slot, FALSE) BY <1>0, <1>1, <2>1, <2>3, <2>6
  <2>7. CASE Patch(b, "Promoting", cache[b].slot, TRUE) BY <1>0, <1>1, <2>1, <2>3, <2>7
  <2> QED BY <2>2, <2>4, <2>5, <2>6, <2>7
<1>8. ASSUME NEW read \in {TRUE, ~ReadsFail}, handlePromoting(b, read) PROVE Begin(b) /\ Shape(b)
  <2>1. Begin(b) /\ cache[b].phase = "Promoting" BY <1>8 DEF handlePromoting
  <2>2. \/ Supersede(b) \/ Done(b)
        \/ Patch(b, "Failed", cache[b].slot, cache[b].graph)
        \/ Patch(b, "Verified", cache[b].slot, cache[b].graph)
    BY <1>8 DEF handlePromoting
  <2>3. LegalPatch(b, "Failed", cache[b].slot) /\ LegalPatch(b, "Verified", cache[b].slot)
    BY <2>1 DEF LegalPatch, Moves
  <2>4. CASE Supersede(b) BY <1>4, <2>1, <2>4
  <2>5. CASE Done(b) BY <1>2, <2>1, <2>5
  <2>6. CASE Patch(b, "Failed", cache[b].slot, cache[b].graph) BY <1>0, <1>1, <2>1, <2>3, <2>6
  <2>7. CASE Patch(b, "Verified", cache[b].slot, cache[b].graph) BY <1>0, <1>1, <2>1, <2>3, <2>7
  <2> QED BY <2>2, <2>4, <2>5, <2>6, <2>7
<1>9. CASE retryIfPipelineChanged(b)
  <2>1. Begin(b) /\ cache[b].phase = "Failed" BY <1>9 DEF retryIfPipelineChanged
  <2>2. Done(b) \/ Supersede(b) \/ Patch(b, "Available", FALSE, FALSE)
    BY <1>9 DEF retryIfPipelineChanged
  <2>3. LegalPatch(b, "Available", FALSE) BY <2>1 DEF LegalPatch, Moves
  <2>4. CASE Done(b) BY <1>2, <2>1, <2>4
  <2>5. CASE Supersede(b) BY <1>4, <2>1, <2>5
  <2>6. CASE Patch(b, "Available", FALSE, FALSE) BY <1>0, <1>1, <2>1, <2>3, <2>6
  <2> QED BY <2>2, <2>4, <2>5, <2>6
<1>10. ASSUME NEW read \in {TRUE, ~ReadsFail}, handleFailed(b, read) PROVE Begin(b) /\ Shape(b)
  <2> DEFINE newer  == SupersedingSiblings(b, read, TRUE)
             target == Recovery(cache[b], newer # {}, Failing(outcome[b]), FALSE)
  <2>1. Begin(b) /\ cache[b].phase = "Failed" BY <1>10 DEF handleFailed
  <2>2. target.phase \in Phases /\ target.slot \in BOOLEAN /\ target.graph \in BOOLEAN
    BY <1>0 DEF Recovery
  <2>3. LegalPatch(b, target.phase, target.slot)
    BY <2>1 DEF Recovery, LegalPatch, Moves
  <2>4. \/ Supersede(b) \/ TakeSlot(b, newer # {}, Failing(outcome[b])) \/ Done(b)
        \/ Patch(b, target.phase, target.slot, target.graph)
    BY <1>10 DEF handleFailed
  <2>5. Failing(outcome[b]) \in BOOLEAN BY DEF Failing
  <2> HIDE DEF newer, target
  <2>6. CASE Supersede(b) BY <1>4, <2>1, <2>6
  <2>7. CASE TakeSlot(b, newer # {}, Failing(outcome[b])) BY <1>3, <2>1, <2>5, <2>7
  <2>8. CASE Done(b) BY <1>2, <2>1, <2>8
  <2>9. CASE Patch(b, target.phase, target.slot, target.graph) BY <1>1, <2>1, <2>2, <2>3, <2>9
  <2> QED BY <2>4, <2>6, <2>7, <2>8, <2>9
<1>11. CASE handleSettled(b)
  BY <1>2, <1>11 DEF handleSettled
<1> QED BY <1>5, <1>6, <1>7, <1>8, <1>9, <1>10, <1>11 DEF Reconcile

-----------------------------------------------------------------------------
(* Types.                                                                  *)

LEMMA InitType == Init => TypeOK
BY DEF Init, TypeOK, Objects, Patches, Absent, NoPatch, NotSeen, Phases, InFlight, Settled, Outcomes

\* What a Failed Bundle patches has the type of a patch.
LEMMA RecoveryType ==
    ASSUME NEW own \in Objects, NEW n \in BOOLEAN, NEW f \in BOOLEAN, NEW full \in BOOLEAN
    PROVE  LET t == Recovery(own, n, f, full)
           IN  t.phase \in Phases /\ t.slot \in BOOLEAN /\ t.graph \in BOOLEAN
BY DEF Recovery, Objects, Phases, InFlight, Settled

\* Every step keeps the types.
LEMMA TypeStep ==
    ASSUME TypeOK, [Next]_vars
    PROVE  TypeOK'
<1>0. /\ NotSeen \in [own : Objects, newer : BOOLEAN, failing : BOOLEAN]
      /\ NoPatch \in Patches /\ Absent \in Objects /\ None \notin Bundles
      /\ {"New", "Promoting", "Failed"} \subseteq Phases
  BY NoneAssumption DEF NotSeen, NoPatch, Absent, Objects, Patches, Phases, InFlight, Settled
<1>01. ASSUME NEW b \in Bundles, NEW p \in Phases, NEW s \in BOOLEAN, NEW g \in BOOLEAN, Patch(b, p, s, g)
       PROVE  want' \in [Bundles -> Patches] /\ pc' \in [Bundles -> {"idle", "slot", "write"}] /\ seen' = seen
  BY <1>01 DEF TypeOK, Patch, Patches
<1>02. ASSUME NEW b \in Bundles, End(b)
       PROVE  /\ want' \in [Bundles -> Patches] /\ pc' \in [Bundles -> {"idle", "slot", "write"}]
              /\ seen' \in [Bundles -> [own : Objects, newer : BOOLEAN, failing : BOOLEAN]]
              /\ lock' \in Bundles \cup {None}
  BY <1>0, <1>02 DEF TypeOK, End
<1>1. ASSUME NEW b \in Bundles, Reconcile(b) PROVE TypeOK'
  <2>1. Begin(b) /\ Shape(b) BY <1>1, ReconcileShape
  <2>2. CASE Done(b)
    BY <2>1, <2>2 DEF TypeOK, Begin, Done, apiVars, cacheVars
  <2>3. ASSUME NEW n \in BOOLEAN, NEW f \in BOOLEAN, TakeSlot(b, n, f) PROVE TypeOK'
    BY <2>1, <2>3 DEF TypeOK, Begin, TakeSlot, apiVars, cacheVars
  <2>4. ASSUME NEW p \in Phases, NEW s \in BOOLEAN, NEW g \in BOOLEAN, Patch(b, p, s, g) PROVE TypeOK'
    <3>1. want' \in [Bundles -> Patches]
      BY <1>01, <2>4 DEF TypeOK
    <3> QED BY <2>1, <2>4, <3>1 DEF TypeOK, Begin, Patch, apiVars, cacheVars
  <2> QED BY <2>1, <2>2, <2>3, <2>4 DEF Shape
<1>2. ASSUME NEW b \in Bundles, AdmitAvailable(b) PROVE TypeOK'
  <2>1. CASE End(b)
    <3>1. UNCHANGED <<apiVars, cacheVars, fresh, outcome>> /\ queue' \in {queue, queue \cup {b}}
      BY <1>2 DEF AdmitAvailable
    <3> QED BY <1>02, <2>1, <3>1 DEF TypeOK, apiVars, cacheVars
  <2>2. CASE lock' = b /\ queue' = queue
        /\ \E p \in {"Promoting", "Failed"} : Patch(b, p, seen[b].own.slot, p = "Promoting")
    <3>1. seen[b].own.slot \in BOOLEAN BY DEF TypeOK, Objects
    <3>2. UNCHANGED <<apiVars, cacheVars, fresh, outcome>>
      BY <1>2 DEF AdmitAvailable
    <3>3. PICK p \in {"Promoting", "Failed"} : Patch(b, p, seen[b].own.slot, p = "Promoting")
      BY <2>2
    <3>4. want' \in [Bundles -> Patches] /\ pc' \in [Bundles -> {"idle", "slot", "write"}] /\ seen' = seen
      BY <1>0, <1>01, <3>1, <3>3
    <3> QED BY <2>2, <3>2, <3>4 DEF TypeOK, apiVars, cacheVars
  <2> QED BY <1>2, <2>1, <2>2 DEF AdmitAvailable
<1>3. ASSUME NEW b \in Bundles, RecoverFailed(b) PROVE TypeOK'
  <2> DEFINE full   == countPromoting(b) >= Limit
             target == Recovery(seen[b].own, seen[b].newer, seen[b].failing, full)
  <2>1. target.phase \in Phases /\ target.slot \in BOOLEAN /\ target.graph \in BOOLEAN
    <3>1. /\ seen[b].own \in Objects /\ seen[b].newer \in BOOLEAN
          /\ seen[b].failing \in BOOLEAN /\ full \in BOOLEAN
      BY DEF TypeOK
    <3> HIDE DEF full
    <3> QED BY <3>1, RecoveryType
  <2>2. End(b) \/ (Patch(b, target.phase, target.slot, target.graph) /\ lock' = b)
    BY <1>3 DEF RecoverFailed
  <2>3. UNCHANGED <<apiVars, cacheVars, queue, fresh, outcome>>
    BY <1>3 DEF RecoverFailed
  <2> HIDE DEF target
  <2>4. CASE End(b)
    BY <1>02, <2>3, <2>4 DEF TypeOK, apiVars, cacheVars
  <2>5. CASE Patch(b, target.phase, target.slot, target.graph) /\ lock' = b
    BY <1>01, <2>1, <2>3, <2>5 DEF TypeOK, apiVars, cacheVars
  <2> QED BY <2>2, <2>4, <2>5
<1>4. ASSUME NEW b \in Bundles, WriteStatus(b) PROVE TypeOK'
  <2>1. want[b].phase \in Phases /\ want[b].slot \in BOOLEAN /\ want[b].graph \in BOOLEAN
    BY DEF TypeOK, Patches
  <2>2. obj' \in [Bundles -> Objects]
    <3> DEFINE o1 == [obj[b] EXCEPT !.phase = want[b].phase]
               o2 == [o1 EXCEPT !.slot = want[b].slot]
               o3 == [o2 EXCEPT !.graph = want[b].graph]
    <3>1. obj[b] \in Objects BY DEF TypeOK
    <3>2. o1 \in Objects BY <2>1, <3>1 DEF Objects
    <3> HIDE DEF o1
    <3>3. o2 \in Objects BY <2>1, <3>2 DEF Objects
    <3> HIDE DEF o2
    <3>4. o3 \in Objects BY <2>1, <3>3 DEF Objects
    <3> USE DEF o1, o2
    <3>5. obj' = [obj EXCEPT ![b] = o3]
      BY <1>4 DEF WriteStatus, TypeOK
    <3> HIDE DEF o3
    <3> QED BY <3>4, <3>5 DEF TypeOK
  <2>3. End(b) BY <1>4 DEF WriteStatus
  <2> QED BY <1>02, <1>4, <2>2, <2>3 DEF TypeOK, WriteStatus
<1>5. ASSUME NEW b \in Bundles, FailReconcile(b) PROVE TypeOK'
  BY <1>0, <1>5 DEF TypeOK, FailReconcile, End, apiVars, cacheVars
<1>6. ASSUME NEW b \in Bundles, Informed(b) PROVE TypeOK'
  BY <1>6 DEF TypeOK, Informed, WaitingSiblings, apiVars, runVars
<1>7. ASSUME NEW b \in Bundles, NEW o \in Objects, Touch(b, o) PROVE TypeOK'
  BY <1>7 DEF TypeOK, Touch
<1>8. ASSUME NEW b \in Bundles, CreateBundle(b) PROVE TypeOK'
  <2>1. [Absent EXCEPT !.phase = "New"] \in Objects
    BY <1>0 DEF Absent, Objects
  <2> QED BY <1>7, <1>8, <2>1 DEF CreateBundle
<1>9. ASSUME NEW b \in Bundles, RejectSpec(b) PROVE TypeOK'
  <2>1. [obj[b] EXCEPT !.rejected = TRUE] \in Objects
    <3>1. obj[b] \in Objects BY DEF TypeOK
    <3> QED BY <3>1 DEF Objects
  <2> QED BY <1>7, <1>9, <2>1 DEF RejectSpec
<1>10. ASSUME NEW b \in Bundles, NEW o \in StepOutcomes, StepEvent(b, o) PROVE TypeOK'
  BY <1>10, StepOutcomesAssumption DEF TypeOK, StepEvent, Outcomes, apiVars, cacheVars, runVars
<1>11. CASE Restart
  BY <1>0, <1>11 DEF TypeOK, Restart, apiVars
<1>12. CASE UNCHANGED vars
  BY <1>12 DEF TypeOK, vars, apiVars, cacheVars, runVars
<1> QED BY <1>1, <1>2, <1>3, <1>4, <1>5, <1>6, <1>8, <1>9, <1>10, <1>11, <1>12 DEF Next

-----------------------------------------------------------------------------
(* The cap.                                                                *)

LEMMA InitInv == Init => SlotInv
<1> SUFFICES ASSUME Init PROVE SlotInv
  OBVIOUS
<1>1. CopiesTrue /\ HoldOnlyWhileFailed
  BY DEF Init, CopiesTrue, HoldOnlyWhileFailed, Absent
<1>2. Counted = {} BY DEF Init, Counted, Promoting, Absent
<1>3. CountedCapHolds BY <1>2, FS_EmptySet, LimitAssumption DEF CountedCapHolds
<1>4. SlotReserved BY NoneAssumption DEF Init, SlotReserved
<1> QED BY <1>1, <1>3, <1>4 DEF SlotInv

\* Subsets of Bundles, and so the sets the cap counts, are finite.
LEMMA CountBound ==
    ASSUME NEW S \in SUBSET Bundles, NEW T \in SUBSET S
    PROVE  Cardinality(T) \in Nat /\ Cardinality(S) \in Nat /\ Cardinality(T) <= Cardinality(S)
<1>1. IsFiniteSet(S) BY FS_Subset, BundlesAssumption
<1> QED BY <1>1, FS_Subset, FS_CardinalityType

\* The cap and the reserved slot survive a step that counts nobody in and lets
\* nobody begin to reserve.
LEMMA CountShrinks ==
    ASSUME TypeOK, SlotReserved, CountedCapHolds, Counted' \subseteq Counted,
           \A c \in Bundles : lock' = c => lock = c /\ pc'[c] = "write" /\ want'[c] = want[c]
    PROVE  SlotReserved' /\ CountedCapHolds'
<1>1. Counted \subseteq Bundles BY DEF Counted, Promoting
<1>2. CountedCapHolds'
  BY <1>1, CountBound, LimitAssumption DEF CountedCapHolds
<1>3. ASSUME NEW c \in Bundles, lock' = c, want'[c].phase = "Promoting"
      PROVE  Cardinality(Counted' \ {c}) < Limit
  <2>1. Cardinality(Counted \ {c}) < Limit BY <1>3 DEF SlotReserved
  <2>2. Cardinality(Counted' \ {c}) <= Cardinality(Counted \ {c})
        /\ Cardinality(Counted' \ {c}) \in Nat /\ Cardinality(Counted \ {c}) \in Nat
    BY <1>1, CountBound
  <2> QED BY <2>1, <2>2, LimitAssumption
<1> QED BY <1>2, <1>3 DEF SlotReserved

\* The cap and the reserved slot when b reserves one.
LEMMA CountReserves ==
    ASSUME TypeOK, SlotReserved, CountedCapHolds, NEW b \in Bundles, lock' = b, pc'[b] = "write",
           want'[b].phase = "Promoting" => countPromoting(b) < Limit,
           UNCHANGED <<obj, uncounted>>
    PROVE  SlotReserved' /\ CountedCapHolds'
<1>1. Counted' = Counted BY DEF Counted, Promoting
<1>2. CountedCapHolds' BY <1>1 DEF CountedCapHolds
<1>3. ASSUME want'[b].phase = "Promoting" PROVE Cardinality(Counted \ {b}) < Limit
  <2> DEFINE S == {s \in Bundles \ {b} : obj[s].phase = "Promoting"}
  <2>1. Cardinality(S) < Limit BY <1>3 DEF countPromoting
  <2>2. Counted \ {b} \subseteq S /\ S \subseteq Bundles BY DEF Counted, Promoting
  <2> HIDE DEF S
  <2>3. Cardinality(Counted \ {b}) \in Nat /\ Cardinality(S) \in Nat
        /\ Cardinality(Counted \ {b}) <= Cardinality(S)
    BY <2>2, CountBound
  <2> QED BY <2>1, <2>3, LimitAssumption
<1> QED BY <1>1, <1>2, <1>3 DEF SlotReserved

\* What a patch that is accepted leaves at the API server.
LEMMA Written ==
    ASSUME TypeOK, NEW b \in Bundles, WriteStatus(b)
    PROVE  /\ obj'[b].phase = want[b].phase /\ obj'[b].slot = want[b].slot
           /\ \A c \in Bundles \ {b} : obj'[c] = obj[c]
<1>1. obj[b] \in Objects /\ obj \in [Bundles -> Objects] BY DEF TypeOK
<1> QED BY <1>1 DEF WriteStatus, Objects

\* A reconcile that starts works from a true copy, or its patch is refused.
LEMMA ReconcileInv ==
    ASSUME TypeOK, SlotInv, NEW b \in Bundles, Reconcile(b)
    PROVE  SlotInv'
<1>0. CopiesTrue /\ SlotReserved /\ HoldOnlyWhileFailed /\ CountedCapHolds
  BY DEF SlotInv
<1>1. Begin(b) /\ Shape(b) BY ReconcileShape
<1>2. UNCHANGED <<obj, uncounted, cache, current, lock>> /\ pc[b] = "idle"
  BY <1>1 DEF Begin, apiVars, cacheVars
<1>3. fresh' \subseteq fresh \cup {b} /\ (b \in fresh' => cache[b] = obj[b])
  BY <1>0, <1>1 DEF Begin, CopiesTrue
<1>4. \A c \in Bundles \ {b} : pc'[c] = pc[c] /\ seen'[c] = seen[c] /\ want'[c] = want[c]
  BY <1>1 DEF Shape, Done, TakeSlot, Patch, TypeOK
<1>5. HoldOnlyWhileFailed' BY <1>0, <1>2 DEF HoldOnlyWhileFailed
<1>6. Counted' = Counted BY <1>2 DEF Counted, Promoting
<1>7. lock # b BY <1>0, <1>2 DEF SlotReserved
<1>8. \A c \in Bundles : lock' = c => lock = c /\ pc'[c] = "write" /\ want'[c] = want[c]
  BY <1>0, <1>2, <1>4, <1>7 DEF SlotReserved
<1>9. SlotReserved' /\ CountedCapHolds' BY <1>0, <1>6, <1>8, CountShrinks
<1>10. ASSUME b \in fresh'
       PROVE  /\ pc'[b] = "slot" => seen'[b].own = obj[b]
              /\ pc'[b] = "write" => /\ Moves(obj[b].phase, want'[b].phase)
                                     /\ want'[b].slot => want'[b].phase \in {"Failed", "Rejected"}
  <2>1. cache[b] = obj[b] BY <1>3, <1>10
  <2>2. CASE Done(b) BY <1>2, <2>2 DEF Done
  <2>3. CASE \E n, f \in BOOLEAN : TakeSlot(b, n, f)
    BY <2>1, <2>3 DEF TakeSlot, TypeOK
  <2>4. ASSUME NEW p \in Phases, NEW s \in BOOLEAN, NEW g \in BOOLEAN, Patch(b, p, s, g), LegalPatch(b, p, s)
        PROVE  pc'[b] = "write" /\ Moves(obj[b].phase, want'[b].phase)
               /\ (want'[b].slot => want'[b].phase \in {"Failed", "Rejected"})
    <3>1. pc'[b] = "write" /\ want'[b].phase = p /\ want'[b].slot = s
      BY <2>4 DEF Patch, TypeOK
    <3>2. Moves(obj[b].phase, p) BY <2>1, <2>4 DEF LegalPatch
    <3>3. s => p \in {"Failed", "Rejected"}
      BY <1>0, <2>1, <2>4 DEF LegalPatch, HoldOnlyWhileFailed
    <3> QED BY <3>1, <3>2, <3>3
  <2> QED BY <1>1, <2>2, <2>3, <2>4 DEF Shape
<1>11. CopiesTrue'
  <2>1. ASSUME NEW c \in fresh', c # b
        PROVE  /\ pc'[c] = "slot" => seen'[c].own = obj'[c]
               /\ pc'[c] = "write" => /\ Moves(obj'[c].phase, want'[c].phase)
                                      /\ want'[c].slot => want'[c].phase \in {"Failed", "Rejected"}
    <3>1. c \in fresh /\ c \in Bundles BY <1>3, <2>1 DEF TypeOK
    <3> QED BY <1>0, <1>2, <1>4, <2>1, <3>1 DEF CopiesTrue
  <2>2. \A c \in current' : cache'[c] = obj'[c] BY <1>0, <1>2 DEF CopiesTrue
  <2> QED BY <1>2, <1>10, <2>1, <2>2 DEF CopiesTrue
<1> QED BY <1>5, <1>9, <1>11 DEF SlotInv

\* The same for the two reconciles that count under the lock.
LEMMA LockedInv ==
    ASSUME TypeOK, SlotInv, NEW b \in Bundles, AdmitAvailable(b) \/ RecoverFailed(b) \/ FailReconcile(b)
    PROVE  SlotInv'
<1>0. CopiesTrue /\ SlotReserved /\ HoldOnlyWhileFailed /\ CountedCapHolds
  BY DEF SlotInv
<1>1. UNCHANGED <<obj, uncounted, cache, current, fresh>>
  BY DEF AdmitAvailable, RecoverFailed, FailReconcile, apiVars, cacheVars
<1>2. HoldOnlyWhileFailed' BY <1>0, <1>1 DEF HoldOnlyWhileFailed
<1>3. Counted' = Counted BY <1>1 DEF Counted, Promoting
<1>4. CASE End(b)
  <2>1. /\ pc'[b] = "idle" /\ lock' # b
        /\ \A c \in Bundles \ {b} : pc'[c] = pc[c] /\ seen'[c] = seen[c] /\ want'[c] = want[c]
    BY <1>4, NoneAssumption DEF End, TypeOK
  <2>2. CopiesTrue' BY <1>0, <1>1, <2>1 DEF CopiesTrue, TypeOK
  <2>3. \A c \in Bundles : lock' = c => lock = c /\ pc'[c] = "write" /\ want'[c] = want[c]
    BY <1>0, <1>4, <2>1, NoneAssumption DEF SlotReserved, End
  <2> QED BY <1>0, <1>2, <1>3, <2>2, <2>3, CountShrinks DEF SlotInv
<1>5. ASSUME NEW p, NEW s, NEW g, Patch(b, p, s, g), lock' = b, b \in fresh => Moves(obj[b].phase, p),
             b \in fresh /\ s => p \in {"Failed", "Rejected"}, p = "Promoting" => countPromoting(b) < Limit
      PROVE  SlotInv'
  <2>1. /\ pc'[b] = "write" /\ want'[b].phase = p /\ want'[b].slot = s
        /\ \A c \in Bundles \ {b} : pc'[c] = pc[c] /\ seen'[c] = seen[c] /\ want'[c] = want[c]
    BY <1>5 DEF Patch, TypeOK
  <2>2. CopiesTrue'
    <3>1. ASSUME NEW c \in fresh
          PROVE  /\ pc'[c] = "slot" => seen'[c].own = obj'[c]
                 /\ pc'[c] = "write" => /\ Moves(obj'[c].phase, want'[c].phase)
                                        /\ want'[c].slot => want'[c].phase \in {"Failed", "Rejected"}
      <4>1. CASE c = b BY <1>1, <1>5, <2>1, <3>1, <4>1
      <4>2. CASE c # b
        <5>1. c \in Bundles BY DEF TypeOK
        <5> QED BY <1>0, <1>1, <2>1, <3>1, <4>2, <5>1 DEF CopiesTrue
      <4> QED BY <4>1, <4>2
    <3>2. \A c \in current' : cache'[c] = obj'[c] BY <1>0, <1>1 DEF CopiesTrue
    <3> QED BY <1>1, <3>1, <3>2 DEF CopiesTrue
  <2>3. SlotReserved' /\ CountedCapHolds' BY <1>0, <1>1, <1>5, <2>1, CountReserves
  <2> QED BY <1>2, <2>2, <2>3 DEF SlotInv
<1>6. ASSUME b \in fresh, pc[b] = "slot" PROVE seen[b].own = obj[b]
  BY <1>0, <1>6 DEF CopiesTrue
<1>7. CASE AdmitAvailable(b)
  <2>1. CASE End(b) BY <1>4, <2>1
  <2>2. CASE countPromoting(b) < Limit /\ lock' = b
             /\ \E p \in {"Promoting", "Failed"} : Patch(b, p, seen[b].own.slot, p = "Promoting")
    <3>1. PICK p \in {"Promoting", "Failed"} : Patch(b, p, seen[b].own.slot, p = "Promoting")
      BY <2>2
    <3>2. pc[b] = "slot" /\ seen[b].own.phase = "Available" BY <1>7 DEF AdmitAvailable
    <3>3. b \in fresh => Moves(obj[b].phase, p) BY <1>6, <3>2 DEF Moves
    <3>4. b \in fresh => ~seen[b].own.slot BY <1>0, <1>6, <3>2 DEF HoldOnlyWhileFailed
    <3> QED BY <1>5, <2>2, <3>1, <3>3, <3>4
  <2> QED BY <1>7, <2>1, <2>2 DEF AdmitAvailable
<1>8. CASE RecoverFailed(b)
  <2> DEFINE full   == countPromoting(b) >= Limit
             target == Recovery(seen[b].own, seen[b].newer, seen[b].failing, full)
  <2>1. pc[b] = "slot" /\ seen[b].own.phase = "Failed" BY <1>8 DEF RecoverFailed
  <2>2. End(b) \/ (Patch(b, target.phase, target.slot, target.graph) /\ lock' = b)
    BY <1>8 DEF RecoverFailed
  <2>3. /\ target.phase \in {"Failed", "Superseded", "Promoting"}
        /\ target.slot => target.phase = "Failed"
        /\ target.phase = "Promoting" => ~full
    BY DEF Recovery
  <2>4. ~full => countPromoting(b) < Limit
    <3>1. countPromoting(b) \in Nat BY CountBound DEF countPromoting
    <3> QED BY <3>1, LimitAssumption
  <2> HIDE DEF target, full
  <2>5. b \in fresh => Moves(obj[b].phase, target.phase)
    BY <1>6, <2>1, <2>3 DEF Moves
  <2>6. CASE Patch(b, target.phase, target.slot, target.graph) /\ lock' = b
    BY <1>5, <2>3, <2>4, <2>5, <2>6
  <2> QED BY <1>4, <2>2, <2>6
<1>9. CASE FailReconcile(b) BY <1>4, <1>9 DEF FailReconcile
<1> QED BY <1>7, <1>8, <1>9

\* An accepted patch was decided from the version it replaces, and counts b in
\* only if b holds the lock and left room for itself.
LEMMA WriteInv ==
    ASSUME TypeOK, SlotInv, NEW b \in Bundles, WriteStatus(b)
    PROVE  SlotInv'
<1>0. CopiesTrue /\ SlotReserved /\ HoldOnlyWhileFailed /\ CountedCapHolds
  BY DEF SlotInv
<1>1. /\ obj'[b].phase = want[b].phase /\ obj'[b].slot = want[b].slot
      /\ \A c \in Bundles \ {b} : obj'[c] = obj[c]
  BY Written
<1>2. /\ pc[b] = "write" /\ b \in fresh
      /\ uncounted' = IF want[b].phase = "Promoting" /\ lock # b THEN uncounted \cup {b} ELSE uncounted \ {b}
      /\ current' = current \ {b} /\ fresh' = fresh \ {b} /\ cache' = cache
      /\ End(b)
  BY DEF WriteStatus
<1>3. /\ pc'[b] = "idle" /\ lock' # b
      /\ \A c \in Bundles \ {b} : pc'[c] = pc[c] /\ seen'[c] = seen[c] /\ want'[c] = want[c]
  BY <1>2, NoneAssumption DEF End, TypeOK
<1>4. HoldOnlyWhileFailed'
  BY <1>0, <1>1, <1>2 DEF HoldOnlyWhileFailed, CopiesTrue
<1>5. CopiesTrue'
  <2>1. \A c \in current' : c \in current /\ c \in Bundles \ {b} BY <1>2 DEF TypeOK
  <2>2. \A c \in fresh' : c \in fresh /\ c \in Bundles \ {b} BY <1>2 DEF TypeOK
  <2> QED BY <1>0, <1>1, <1>2, <1>3, <2>1, <2>2 DEF CopiesTrue
<1>6. Counted \subseteq Bundles /\ Counted' \subseteq Bundles BY DEF Counted, Promoting
<1>7. Counted' \ {b} \subseteq Counted \ {b}
  BY <1>1, <1>2 DEF Counted, Promoting
<1>8. CASE lock = b /\ want[b].phase = "Promoting"
  <2>1. lock' = None BY <1>2, <1>8 DEF End
  <2>2. SlotReserved' BY <2>1, NoneAssumption DEF SlotReserved
  <2>3. Cardinality(Counted \ {b}) < Limit BY <1>0, <1>8 DEF SlotReserved
  <2>4. /\ Cardinality(Counted' \ {b}) <= Cardinality(Counted \ {b})
        /\ Cardinality(Counted' \ {b}) \in Nat /\ Cardinality(Counted \ {b}) \in Nat
    BY <1>6, <1>7, CountBound
  <2>5. Cardinality(Counted') <= Cardinality(Counted' \ {b}) + 1
    <3>1. IsFiniteSet(Counted') BY <1>6, BundlesAssumption, FS_Subset
    <3>2. CASE b \in Counted'
      <4>1. Cardinality(Counted' \ {b}) = Cardinality(Counted') - 1 BY <3>1, <3>2, FS_RemoveElement
      <4>2. Cardinality(Counted') \in Nat BY <3>1, FS_CardinalityType
      <4> QED BY <2>4, <4>1, <4>2
    <3>3. CASE b \notin Counted'
      <4>1. Counted' \ {b} = Counted' BY <3>3
      <4> QED BY <2>4, <4>1
    <3> QED BY <3>2, <3>3
  <2>6. Cardinality(Counted') \in Nat BY <1>6, CountBound
  <2>7. CountedCapHolds' BY <2>3, <2>4, <2>5, <2>6, LimitAssumption DEF CountedCapHolds
  <2> QED BY <1>4, <1>5, <2>2, <2>7 DEF SlotInv
<1>9. CASE ~(lock = b /\ want[b].phase = "Promoting")
  <2>1. b \notin Counted' BY <1>1, <1>2, <1>9 DEF Counted, Promoting
  <2>2. Counted' \subseteq Counted BY <1>7, <2>1
  <2>3. \A c \in Bundles : lock' = c => lock = c /\ pc'[c] = "write" /\ want'[c] = want[c]
    BY <1>0, <1>2, <1>3, NoneAssumption DEF SlotReserved, End
  <2>4. SlotReserved' /\ CountedCapHolds' BY <1>0, <2>2, <2>3, CountShrinks
  <2> QED BY <1>4, <1>5, <2>4 DEF SlotInv
<1> QED BY <1>8, <1>9

\* The informer, other writers and a restart.
LEMMA SurroundingsInv ==
    ASSUME TypeOK, SlotInv,
           \/ \E b \in Bundles :
               \/ Informed(b) \/ CreateBundle(b) \/ RejectSpec(b)
               \/ \E o \in StepOutcomes : StepEvent(b, o)
           \/ Restart
           \/ UNCHANGED vars
    PROVE  SlotInv'
<1>0. CopiesTrue /\ SlotReserved /\ HoldOnlyWhileFailed /\ CountedCapHolds
  BY DEF SlotInv
<1>1. ASSUME UNCHANGED <<obj, uncounted, runVars>>, \A c \in current' : cache'[c] = obj[c] PROVE SlotInv'
  <2>1. Counted' = Counted BY <1>1 DEF Counted, Promoting
  <2>2. CopiesTrue' BY <1>0, <1>1 DEF CopiesTrue, runVars
  <2>3. HoldOnlyWhileFailed' BY <1>0, <1>1 DEF HoldOnlyWhileFailed
  <2>4. SlotReserved' /\ CountedCapHolds'
    BY <1>0, <1>1, <2>1 DEF SlotReserved, CountedCapHolds, runVars
  <2> QED BY <2>2, <2>3, <2>4 DEF SlotInv
<1>2. ASSUME NEW b \in Bundles, NEW o \in Objects, Touch(b, o), o.slot => obj[b].slot,
             o.phase = obj[b].phase \/ (o.phase = "New" /\ ~o.slot)
      PROVE  SlotInv'
  <2>1. obj'[b] = o /\ \A c \in Bundles \ {b} : obj'[c] = obj[c]
    BY <1>2 DEF Touch, TypeOK
  <2>2. /\ current' = current \ {b} /\ fresh' = fresh \ {b}
        /\ UNCHANGED <<cache, pc, seen, want, lock, uncounted>>
    BY <1>2 DEF Touch
  <2>3. CopiesTrue' BY <1>0, <2>1, <2>2 DEF CopiesTrue, TypeOK
  <2>4. HoldOnlyWhileFailed' BY <1>0, <1>2, <2>1 DEF HoldOnlyWhileFailed
  <2>5. Counted' \subseteq Counted BY <1>2, <2>1, <2>2 DEF Counted, Promoting
  <2>6. \A c \in Bundles : lock' = c => lock = c /\ pc'[c] = "write" /\ want'[c] = want[c]
    BY <1>0, <2>2 DEF SlotReserved
  <2>7. SlotReserved' /\ CountedCapHolds' BY <1>0, <2>5, <2>6, CountShrinks
  <2> QED BY <2>3, <2>4, <2>7 DEF SlotInv
<1>3. ASSUME NEW b \in Bundles, Informed(b) PROVE SlotInv'
  <2>1. UNCHANGED <<obj, uncounted, runVars>> BY <1>3 DEF Informed, apiVars
  <2>2. \A c \in current' : cache'[c] = obj[c] BY <1>0, <1>3 DEF Informed, CopiesTrue, TypeOK
  <2> QED BY <1>1, <2>1, <2>2
<1>4. ASSUME NEW b \in Bundles, CreateBundle(b) PROVE SlotInv'
  <2> DEFINE o == [Absent EXCEPT !.phase = "New"]
  <2>1. o \in Objects /\ o.phase = "New" /\ ~o.slot
    BY DEF Absent, Objects, Phases, InFlight, Settled
  <2>2. Touch(b, o) BY <1>4 DEF CreateBundle
  <2> HIDE DEF o
  <2> QED BY <1>2, <2>1, <2>2
<1>5. ASSUME NEW b \in Bundles, RejectSpec(b) PROVE SlotInv'
  <2> DEFINE o == [obj[b] EXCEPT !.rejected = TRUE]
  <2>0. obj[b] \in Objects BY DEF TypeOK
  <2>1. o \in Objects /\ o.phase = obj[b].phase /\ o.slot = obj[b].slot
    BY <2>0 DEF Objects
  <2>2. Touch(b, o) BY <1>5 DEF RejectSpec
  <2> HIDE DEF o
  <2> QED BY <1>2, <2>1, <2>2
<1>6. ASSUME NEW b \in Bundles, NEW o \in StepOutcomes, StepEvent(b, o) PROVE SlotInv'
  <2>1. UNCHANGED <<obj, uncounted, runVars, cache, current>> BY <1>6 DEF StepEvent, apiVars, cacheVars
  <2>2. \A c \in current' : cache'[c] = obj[c] BY <1>0, <2>1 DEF CopiesTrue
  <2> QED BY <1>1, <2>1, <2>2
<1>7. CASE Restart
  <2>1. /\ UNCHANGED <<obj, uncounted>> /\ cache' = obj /\ fresh' = {} /\ lock' = None
    BY <1>7 DEF Restart, apiVars
  <2>2. Counted' = Counted BY <2>1 DEF Counted, Promoting
  <2>3. CopiesTrue' BY <2>1 DEF CopiesTrue
  <2>4. HoldOnlyWhileFailed' BY <1>0, <2>1 DEF HoldOnlyWhileFailed
  <2>5. SlotReserved' /\ CountedCapHolds'
    BY <1>0, <2>1, <2>2, NoneAssumption DEF SlotReserved, CountedCapHolds
  <2> QED BY <2>3, <2>4, <2>5 DEF SlotInv
<1>8. CASE UNCHANGED vars
  <2>1. UNCHANGED <<obj, uncounted, runVars, cache, current>> BY <1>8 DEF vars, apiVars, cacheVars
  <2>2. \A c \in current' : cache'[c] = obj[c] BY <1>0, <2>1 DEF CopiesTrue
  <2> QED BY <1>1, <2>1, <2>2
<1> QED BY <1>3, <1>4, <1>5, <1>6, <1>7, <1>8

\* Every step keeps SlotInv.
LEMMA SlotInvStep ==
    ASSUME TypeOK, SlotInv, [Next]_vars
    PROVE  SlotInv'
BY ReconcileInv, LockedInv, WriteInv, SurroundingsInv DEF Next

-----------------------------------------------------------------------------
(* Theorems.                                                               *)

\* Whatever the caches show and however reconciles of several workers interleave
\* and restart, the types hold, and so does the inductive invariant of the cap:
\* a copy the optimistic lock accepts is true, and who holds the Pipeline's lock
\* to take a slot has room for it.
THEOREM SlotCorrect == Spec => [](TypeOK /\ SlotInv)
<1>1. Init => TypeOK /\ SlotInv BY InitType, InitInv
<1>2. TypeOK /\ SlotInv /\ [Next]_vars => (TypeOK /\ SlotInv)' BY TypeStep, SlotInvStep
<1> QED BY <1>1, <1>2, PTL DEF Spec

\* Every variable keeps its type, for any number of Bundles.
THEOREM TypeCorrect == Spec => []TypeOK
BY SlotCorrect, PTL

\* maxConcurrentPromotions holds for the Bundles countPromoting let in.
THEOREM CapCorrect == Spec => []CountedCapHolds
<1>1. SlotInv => CountedCapHolds BY DEF SlotInv
<1> QED BY <1>1, SlotCorrect, PTL

\* The WaitingForSlot condition is on no Bundle but a Failed or a rejected one.
THEOREM HoldCorrect == Spec => []HoldOnlyWhileFailed
<1>1. SlotInv => HoldOnlyWhileFailed BY DEF SlotInv
<1> QED BY <1>1, SlotCorrect, PTL

\* A reconcile on a stale copy never reopens a settled Bundle, undoes a rejection
\* or verifies a Failed one.
THEOREM Settling == Spec => SettledStays
<1> DEFINE Keeps == \A b \in Bundles :
        /\ obj[b].phase \in Settled => obj'[b].phase \in {obj[b].phase, "Rejected"}
        /\ obj[b].phase = "Failed" => obj'[b].phase # "Verified"
<1>1. ASSUME TypeOK, SlotInv, Next PROVE Keeps
  <2>1. CASE UNCHANGED obj BY <2>1 DEF Settled
  <2>2. ASSUME NEW b \in Bundles, Reconcile(b) PROVE UNCHANGED obj
    BY <1>1, <2>2, ReconcileShape DEF Begin, apiVars
  <2>3. ASSUME NEW b \in Bundles, AdmitAvailable(b) \/ RecoverFailed(b) \/ FailReconcile(b) \/ Informed(b)
        PROVE  UNCHANGED obj
    BY <2>3 DEF AdmitAvailable, RecoverFailed, FailReconcile, Informed, apiVars
  <2>4. ASSUME NEW b \in Bundles, NEW o \in StepOutcomes, StepEvent(b, o) PROVE UNCHANGED obj
    BY <2>4 DEF StepEvent, apiVars
  <2>5. ASSUME Restart PROVE UNCHANGED obj
    BY <2>5 DEF Restart, apiVars
  <2>6. ASSUME NEW b \in Bundles, WriteStatus(b) PROVE Keeps
    <3>1. /\ obj'[b].phase = want[b].phase /\ \A c \in Bundles \ {b} : obj'[c] = obj[c]
      BY <1>1, <2>6, Written
    <3>2. Moves(obj[b].phase, want[b].phase) BY <1>1, <2>6 DEF WriteStatus, SlotInv, CopiesTrue
    <3> QED BY <3>1, <3>2 DEF Moves, Settled
  <2>7. ASSUME NEW b \in Bundles, CreateBundle(b) PROVE Keeps
    <3>1. obj[b].phase = "none" /\ \A c \in Bundles \ {b} : obj'[c] = obj[c]
      BY <1>1, <2>7 DEF CreateBundle, Touch, TypeOK
    <3> QED BY <3>1 DEF Settled
  <2>8. ASSUME NEW b \in Bundles, RejectSpec(b) PROVE Keeps
    <3>1. obj[b] \in Objects BY <1>1 DEF TypeOK
    <3>2. obj'[b].phase = obj[b].phase /\ \A c \in Bundles \ {b} : obj'[c] = obj[c]
      BY <1>1, <2>8, <3>1 DEF RejectSpec, Touch, TypeOK, Objects
    <3> QED BY <3>2 DEF Settled
  <2> HIDE DEF Keeps
  <2> QED BY <1>1, <2>1, <2>2, <2>3, <2>4, <2>5, <2>6, <2>7, <2>8 DEF Next
<1>2. TypeOK /\ SlotInv /\ [Next]_vars => [Keeps]_vars
  <2> HIDE DEF Keeps
  <2> QED BY <1>1
<1> QED BY <1>2, SlotCorrect, PTL DEF Spec, SettledStays

\* What holds of every state of the Bundles of a Pipeline, for any number of them and any limit.
THEOREM BundlesCorrect == Spec => []BundlesSafe
BY SlotCorrect, PTL DEF BundlesSafe
=============================================================================
