-------------------------- MODULE PolicyGateProofs ---------------------------
(***************************************************************************)
(* Proofs about PolicyGate, for any overrides, budgets and intervals: the  *)
(* step starts on facts at most one evaluation older than itself, never    *)
(* waits for a result that nobody is about to write, no override passes    *)
(* the gate after its cap, and the end of the one that does is noticed.    *)
(***************************************************************************)
EXTENDS PolicyGate, TLAPS, WellFoundedInduction

-----------------------------------------------------------------------------
(* Helpers *)

\* A reconcile adds records at its own time and keeps the ones there are.
LEMMA RecordsGrow ==
    ASSUME NEW g \in GateOf, NEW t \in Times, NEW recs \in NewRecords(g, t)
    PROVE  /\ recs \in [Overrides -> Stamp]
           /\ \A o \in Overrides : g.recs[o] # Never => recs[o] = g.recs[o]
<1>1. PICK S \in ToRecord(g) : recs = [o \in Overrides |-> IF o \in S THEN t ELSE g.recs[o]]
  BY DEF NewRecords
<1>2. \A o \in S : g.recs[o] = Never
  BY DEF ToRecord
<1> QED BY <1>1, <1>2 DEF GateOf, Stamp, Times

\* The end of an override is a time.
LEMMA EndIsATime ==
    ASSUME NEW o \in Overrides, NEW t \in Nat PROVE overrideEnd(o, t) \in Nat
BY PolicyGateAssumption DEF overrideEnd, Earlier

\* What a decided evaluation says, and for how long.
DecidedFromBase ==
    /\ eval.at = "begun" /\ eval'.at = "decided" /\ eval'.base = eval.base
    /\ eval'.read = now /\ eval' \in EvalOf
    /\ eval'.by \in Overrides =>
        /\ eval'.by \notin Agents \cup Ahead /\ eval.base.recs[eval'.by] # Never
        /\ eval'.read < overrideEnd(eval'.by, eval.base.recs[eval'.by])

LEMMA Decision == ASSUME TypeOK, Decide PROVE DecidedFromBase
<1> USE DEF DecidedFromBase
<1>0. eval.at = "begun" /\ eval.base \in GateOf /\ now \in Nat /\ fact \in Facts
  BY DEF TypeOK, Decide, EvalOf, Idle, Times
<1> DEFINE D(by, ready, wait) ==
        [at |-> "decided", base |-> eval.base, by |-> by, ready |-> ready, read |-> now, wait |-> wait]
<1>1. CASE eval' = D(fact, fact = "pass", Recheck)
  <2>1. eval' \in EvalOf
    BY <1>0, <1>1, PolicyGateAssumption DEF EvalOf, Times
  <2>2. fact \notin Overrides
    BY <1>0, PolicyGateAssumption DEF Facts
  <2> QED BY <1>0, <1>1, <2>1, <2>2
<1>2. ASSUME NEW o \in Overrides, InEffect(eval.base, o, now),
             eval' = D(o, TRUE, Earlier(Recheck, overrideEnd(o, eval.base.recs[o]) - now + 1))
      PROVE  DecidedFromBase
  <2>1. eval.base.recs[o] \in Nat /\ overrideEnd(o, eval.base.recs[o]) \in Nat
    BY <1>0, EndIsATime, PolicyGateAssumption DEF GateOf, Stamp, Times
  <2>2. now < overrideEnd(o, eval.base.recs[o])
    BY <1>2 DEF InEffect
  <2>3. Earlier(Recheck, overrideEnd(o, eval.base.recs[o]) - now + 1) \in Nat
    BY <1>0, <2>1, <2>2, PolicyGateAssumption DEF Earlier
  <2>4. eval' \in EvalOf
    BY <1>0, <1>2, <2>3 DEF EvalOf, Times
  <2> QED BY <1>0, <1>2, <2>2, <2>4 DEF InEffect
<1>3. \A o \in findActiveOverride(eval.base, now) : o \in Overrides /\ InEffect(eval.base, o, now)
  BY <1>0, PolicyGateAssumption DEF findActiveOverride, GateOf
<1> QED BY <1>1, <1>2, <1>3 DEF Decide
-----------------------------------------------------------------------------
(* The types. *)

\* The gate after an evaluation's writes.
LEMMA RecordType == ASSUME TypeOK, recordOverrides PROVE TypeOK'
<1>0. eval \in [at : {"begun"}, base : GateOf] /\ now \in Times
  BY DEF TypeOK, recordOverrides, EvalOf, Idle
<1>1. CASE Conflict
  BY <1>1 DEF TypeOK, recordOverrides, Conflict, world, stepSide, EvalOf
<1>2. ASSUME NEW recs \in NewRecords(eval.base, now), gate = eval.base,
             gate' = [gate EXCEPT !.recs = recs], eval' = [eval EXCEPT !.base = gate'],
             first' = [o \in Overrides |-> IF first[o] = Never THEN recs[o] ELSE first[o]],
             UNCHANGED <<queued, timer>>
      PROVE  TypeOK'
  <2>1. recs \in [Overrides -> Stamp]
    BY <1>0, RecordsGrow
  <2>2. gate' \in GateOf
    BY <1>2, <2>1 DEF TypeOK, GateOf
  <2>3. eval' \in EvalOf
    BY <1>0, <1>2, <2>2 DEF EvalOf
  <2>4. first' \in [Overrides -> Stamp]
    BY <1>2, <2>1 DEF TypeOK
  <2> QED BY <1>2, <2>2, <2>3, <2>4 DEF TypeOK, recordOverrides, world, stepSide
<1> QED BY <1>1, <1>2 DEF recordOverrides

LEMMA PatchType == ASSUME TypeOK, patchStatus PROVE TypeOK'
<1>0. /\ eval.base \in GateOf /\ eval.by \in Facts \cup Overrides /\ eval.ready \in BOOLEAN
      /\ eval.read \in Times /\ eval.wait \in Nat /\ now \in Nat
  BY DEF TypeOK, patchStatus, EvalOf, Idle, Times
<1>1. CASE Conflict
  BY <1>1 DEF TypeOK, patchStatus, Conflict, world, stepSide, EvalOf
<1>2. CASE /\ eval' = Idle /\ AddAfter(now + eval.wait) /\ UNCHANGED <<queued, first>>
           /\ \/ UNCHANGED gate
              \/ gate' = [gate EXCEPT !.ready = eval.ready, !.by = eval.by, !.last = now,
                                      !.read = eval.read, !.seen = gate.gen]
  <2>1. timer' \in Nat
    BY <1>0, <1>2 DEF AddAfter, Earlier, TypeOK
  <2>2. gate' \in GateOf
    BY <1>0, <1>2 DEF GateOf, TypeOK, Times, Stamp
  <2> QED BY <1>2, <2>1, <2>2 DEF TypeOK, patchStatus, world, stepSide, EvalOf
<1> QED BY <1>1, <1>2 DEF patchStatus

LEMMA TypeStep == ASSUME TypeOK, [Next]_vars PROVE TypeOK'
<1>1. CASE Begin
  BY <1>1 DEF TypeOK, Begin, world, stepSide, EvalOf
<1>2. CASE SkipSettled
  BY <1>2 DEF TypeOK, SkipSettled, world, stepSide, EvalOf
<1>3. CASE Decide
  <2>1. eval' \in EvalOf
    BY <1>3, Decision DEF DecidedFromBase
  <2> QED BY <1>3, <2>1 DEF TypeOK, Decide, world, stepSide
<1>4. CASE Hold
  <2>1. step' \in StepOf
    BY <1>4 DEF Hold, checkRequiredGates, TypeOK, StepOf
  <2> QED BY <1>4, <2>1 DEF TypeOK, Hold, world, gateSide
<1>5. CASE Pass
  <2>1. gcache.read \in Times
    BY PolicyGateAssumption DEF TypeOK, GateOf, Stamp, Times
  <2> QED BY <1>5, <2>1 DEF TypeOK, Pass, world, gateSide, JobOf
<1>6. CASE Start
  <2>1. job.used \in Times
    BY <1>6 DEF TypeOK, JobOf, Start, Idle
  <2>2. step' \in StepOf
    BY <1>6, <2>1 DEF Start, TypeOK, StepOf, Stamp
  <2> QED BY <1>6, <2>2 DEF TypeOK, Start, world, gateSide, JobOf
<1>7. CASE CancelUnstarted
  <2>1. step' \in StepOf
    BY <1>7 DEF CancelUnstarted, TypeOK, StepOf
  <2> QED BY <1>7, <2>1 DEF TypeOK, CancelUnstarted, world, gateSide
<1>8. CASE GraphDecides
  BY <1>8 DEF TypeOK, GraphDecides, world, gateSide, Stamp
<1>9. CASE GraphCreates
  <2>1. step' \in StepOf
    <3>1. NoStep \in StepOf /\ step.inc + 1 \in Nat /\ now \in Times /\ decided \in Stamp
      BY DEF TypeOK, StepOf, NoStep, Stamp, Times
    <3> QED BY <1>9, <3>1 DEF GraphCreates, StepOf
  <2>2. left' \in Budget
    BY <1>9 DEF GraphCreates, TypeOK, Budget
  <2> QED BY <1>9, <2>1, <2>2 DEF TypeOK, GraphCreates, gateSide, Stamp
<1>10. CASE DeleteStep
  <2>1. step' \in StepOf
    BY <1>10 DEF DeleteStep, TypeOK, StepOf, NoStep, Stamp, Times
  <2> QED BY <1>10, <2>1 DEF TypeOK, DeleteStep, world, gateSide
<1>11. CASE FactChanges
  <2>1. left' \in Budget
    BY <1>11 DEF FactChanges, TypeOK, Budget
  <2> QED BY <1>11, <2>1 DEF TypeOK, FactChanges, stepSide
<1>12. CASE EditOverrides
  <2>1. left' \in Budget
    BY <1>12 DEF EditOverrides, TypeOK, Budget
  <2>2. gate' \in GateOf
    <3>1. PICK l \in Lists : gate' = [gate EXCEPT !.ovs = l, !.gen = gate.gen + 1]
      BY <1>12 DEF EditOverrides
    <3>2. gate.gen + 1 \in Nat
      BY DEF TypeOK, GateOf
    <3> QED BY <3>1, <3>2 DEF TypeOK, GateOf
  <2> QED BY <1>12, <2>1, <2>2 DEF TypeOK, EditOverrides, stepSide
<1>13. CASE BundleSettles \/ SyncGate \/ SyncStep \/ TimerFires
  BY <1>13, PolicyGateAssumption
     DEF TypeOK, BundleSettles, SyncGate, SyncStep, TimerFires, gateSide, stepSide, world
<1>14. CASE Tick
  BY <1>14 DEF TypeOK, Tick, gateSide, stepSide, world, Times
<1>15. CASE Restart
  <2>1. left' \in Budget
    BY <1>15 DEF Restart, TypeOK, Budget
  <2> QED BY <1>15, <2>1, PolicyGateAssumption DEF TypeOK, Restart, EvalOf, JobOf
<1>16. CASE UNCHANGED vars
  BY <1>16 DEF TypeOK, vars
<1> QED BY <1>1, <1>2, <1>3, <1>4, <1>5, <1>6, <1>7, <1>8, <1>9, <1>10, <1>11, <1>12, <1>13, <1>14,
           <1>15, <1>16, RecordType, PatchType DEF Next
-----------------------------------------------------------------------------
(* What the two writes of an evaluation do. *)

\* recordOverrides: refused, or written over the copy it was decided from.
RecordWritten ==
    /\ eval # Idle /\ gate = eval.base /\ eval'.at = "begun" /\ eval'.base = gate'
    /\ gate'.last = gate.last /\ gate'.read = gate.read /\ gate'.by = gate.by
    /\ gate'.gen = gate.gen /\ gate'.seen = gate.seen /\ gate'.ovs = gate.ovs /\ ToRecord(gate) # {{}}
    /\ \A o \in Overrides : gate.recs[o] # Never => gate'.recs[o] = gate.recs[o]
    /\ first' = [o \in Overrides |-> IF first[o] = Never THEN gate'.recs[o] ELSE first[o]]
    /\ queued' = queued

LEMMA RecordShape ==
    ASSUME TypeOK, recordOverrides
    PROVE  /\ eval.at = "begun" /\ eval # Idle
           /\ Conflict \/ RecordWritten
           /\ UNCHANGED <<now, left, settled, gcache, stepSide>>
<1>0. eval \in [at : {"begun"}, base : GateOf] /\ now \in Times
  BY DEF TypeOK, recordOverrides, EvalOf, Idle
<1>1. ASSUME NEW recs \in NewRecords(eval.base, now), recs # eval.base.recs, gate = eval.base,
             gate' = [gate EXCEPT !.recs = recs], eval' = [eval EXCEPT !.base = gate'],
             first' = [o \in Overrides |-> IF first[o] = Never THEN recs[o] ELSE first[o]],
             UNCHANGED <<queued, timer>>
      PROVE  RecordWritten
  <2>1. \A o \in Overrides : gate.recs[o] # Never => recs[o] = gate.recs[o]
    BY <1>0, <1>1, RecordsGrow
  <2>2. /\ gate'.recs = recs /\ gate'.last = gate.last /\ gate'.read = gate.read /\ gate'.by = gate.by
        /\ gate'.gen = gate.gen /\ gate'.seen = gate.seen /\ gate'.ovs = gate.ovs
    BY <1>1 DEF TypeOK, GateOf
  <2>3. ToRecord(gate) # {{}}
    <3>1. SUFFICES ASSUME ToRecord(gate) = {{}} PROVE recs = gate.recs
      BY <1>1
    <3>2. recs = [o \in Overrides |-> gate.recs[o]]
      BY <1>1, <3>1 DEF NewRecords
    <3> QED BY <3>2 DEF TypeOK, GateOf
  <2> QED BY <1>0, <1>1, <2>1, <2>2, <2>3 DEF RecordWritten, Idle
<1> QED BY <1>0, <1>1 DEF recordOverrides, Idle, world

\* patchStatusWith: refused, not needed, or written over the copy it was decided from.
PatchWritten ==
    /\ eval # Idle /\ gate = eval.base /\ eval' = Idle
    /\ gate'.last = now /\ gate'.read = eval.read /\ gate'.by = eval.by /\ gate'.recs = gate.recs
    /\ gate'.gen = gate.gen /\ gate'.seen = gate.gen /\ gate'.ovs = gate.ovs
    /\ timer' = Earlier(timer, now + eval.wait) /\ UNCHANGED <<queued, first>>
PatchSkipped ==
    /\ unchangedResult(eval) /\ eval' = Idle /\ timer' = Earlier(timer, now + eval.wait)
    /\ UNCHANGED <<gate, queued, first>>

LEMMA PatchShape ==
    ASSUME TypeOK, patchStatus
    PROVE  /\ eval.at = "decided" /\ eval # Idle
           /\ Conflict \/ PatchWritten \/ PatchSkipped
           /\ UNCHANGED <<now, left, settled, gcache, stepSide>>
<1>0. eval.at = "decided" /\ eval # Idle
  BY DEF patchStatus, Idle
<1>1. ASSUME gate' = [gate EXCEPT !.ready = eval.ready, !.by = eval.by, !.last = now,
                                  !.read = eval.read, !.seen = gate.gen]
      PROVE  /\ gate'.last = now /\ gate'.read = eval.read /\ gate'.by = eval.by /\ gate'.recs = gate.recs
             /\ gate'.gen = gate.gen /\ gate'.seen = gate.gen /\ gate'.ovs = gate.ovs
  BY <1>1 DEF TypeOK, GateOf
<1> QED BY <1>0, <1>1 DEF patchStatus, AddAfter, PatchWritten, PatchSkipped, world

-----------------------------------------------------------------------------
(* The conjuncts of the invariant, one by one. *)

\* The parts of the budget that a step spends leave the clock's bound alone.
LEMMA TimeBound == ASSUME TypeOK, [Next]_vars PROVE left'.time = left.time
BY DEF TypeOK, Budget, Next, Begin, recordOverrides, SkipSettled, Decide, patchStatus, Hold, Pass, Start,
   CancelUnstarted, GraphDecides, GraphCreates, DeleteStep, FactChanges, EditOverrides, BundleSettles,
   SyncGate, SyncStep, TimerFires, Tick, Restart, world, gateSide, stepSide, vars

LEMMA ClockStep == ASSUME TypeOK, ClockAhead, [Next]_vars PROVE ClockAhead'
<1> USE DEF ClockAhead
<1>0. left'.time = left.time /\ now \in Nat /\ left.time \in Nat /\ step.created \in Nat /\ gate.last \in Nat
  BY TimeBound, PolicyGateAssumption DEF TypeOK, Budget, StepOf, GateOf, Stamp, Times
<1>1. CASE recordOverrides
  BY <1>0, <1>1, RecordShape DEF RecordWritten, Conflict, stepSide
<1>2. CASE patchStatus
  <2>1. UNCHANGED <<now, left, step>> /\ (Conflict \/ PatchWritten \/ PatchSkipped)
    BY <1>2, PatchShape DEF stepSide
  <2>2. gate'.last \in {gate.last, now}
    BY <2>1 DEF PatchWritten, PatchSkipped, Conflict
  <2> QED BY <1>0, <2>1, <2>2
<1>3. CASE Hold \/ Start \/ CancelUnstarted \/ GraphCreates \/ DeleteStep
  <2>1. step'.created \in {step.created, 0, now}
    BY <1>3 DEF Hold, Start, CancelUnstarted, GraphCreates, DeleteStep, NoStep, TypeOK, StepOf
  <2> QED BY <1>0, <1>3, <2>1
          DEF Hold, Start, CancelUnstarted, GraphCreates, DeleteStep, world, gateSide
<1>4. CASE EditOverrides
  <2>1. gate'.last = gate.last
    BY <1>4 DEF EditOverrides, TypeOK, GateOf
  <2> QED BY <1>0, <1>4, <2>1 DEF EditOverrides, stepSide
<1>5. CASE Begin \/ SkipSettled \/ Decide \/ Pass \/ GraphDecides \/ FactChanges
           \/ BundleSettles \/ SyncGate \/ SyncStep \/ TimerFires \/ Restart \/ UNCHANGED vars
  BY <1>0, <1>5 DEF Begin, SkipSettled, Decide, Pass, GraphDecides, FactChanges, BundleSettles,
     SyncGate, SyncStep, TimerFires, Restart, vars, world, gateSide, stepSide
<1>6. CASE Tick
  BY <1>0, <1>6 DEF Tick, world, gateSide, stepSide
<1> QED BY <1>1, <1>2, <1>3, <1>4, <1>5, <1>6 DEF Next

LEMMA ReadIsATime == ASSUME TypeOK, eval.at = "decided" PROVE eval.read \in Nat
BY DEF TypeOK, EvalOf, Idle, Times

LEMMA ReadStep == ASSUME TypeOK, ClockAhead, ReadWhenWritten, [Next]_vars PROVE ReadWhenWritten'
<1> USE DEF ReadWhenWritten
<1>0. /\ now \in Nat /\ EvalTime \in Nat /\ now < Never
      /\ gate.read \in Nat /\ gate.last \in Nat /\ gcache.read \in Nat /\ gcache.last \in Nat
      /\ eval.at = "decided" => eval.read \in Nat
  <2>1. /\ now \in Nat /\ EvalTime \in Nat /\ Never \in Nat
        /\ gate.read \in Nat /\ gate.last \in Nat /\ gcache.read \in Nat /\ gcache.last \in Nat
    BY PolicyGateAssumption DEF TypeOK, GateOf, Stamp, Times
  <2>2. now < Never
    BY <2>1, PolicyGateAssumption DEF ClockAhead, TypeOK, Budget
  <2> QED BY <2>1, <2>2, ReadIsATime
<1>1. CASE recordOverrides
  <2>1. UNCHANGED <<now, gcache>> /\ (Conflict \/ RecordWritten)
    BY <1>1, RecordShape
  <2>2. eval'.at # "decided" /\ gate'.last = gate.last /\ gate'.read = gate.read
    BY <2>1 DEF RecordWritten, Conflict, Idle
  <2> QED BY <2>1, <2>2 DEF WrittenInTime
<1>2. CASE patchStatus
  <2>1. UNCHANGED <<now, gcache>> /\ eval.at = "decided" /\ (Conflict \/ PatchWritten \/ PatchSkipped)
    BY <1>2, PatchShape
  <2>2. eval'.at # "decided"
    BY <2>1 DEF PatchWritten, PatchSkipped, Conflict, Idle
  <2>3. UNCHANGED gate \/ (gate'.last = now /\ gate'.read = eval.read)
    BY <2>1 DEF PatchWritten, PatchSkipped, Conflict
  <2>4. WrittenInTime(gate)'
    BY <1>0, <2>1, <2>3 DEF WrittenInTime
  <2> QED BY <2>1, <2>2, <2>4 DEF WrittenInTime
<1>3. CASE Decide
  <2>1. UNCHANGED <<now, gate, gcache>> /\ eval'.read = now
    BY <1>3, Decision DEF DecidedFromBase, Decide
  <2>2. gate.read = Never \/ gate.read <= now
    BY <1>0 DEF WrittenInTime, ClockAhead
  <2> QED BY <1>0, <2>1, <2>2 DEF WrittenInTime
<1>4. CASE EditOverrides
  <2>1. gate'.last = gate.last /\ gate'.read = gate.read
    BY <1>4 DEF EditOverrides, TypeOK, GateOf
  <2> QED BY <1>4, <2>1 DEF EditOverrides, WrittenInTime
<1>5. CASE Tick
  <2>1. UNCHANGED <<gate, gcache, eval>> /\ now' = now + 1
    BY <1>5 DEF Tick, gateSide
  <2>2. eval.at = "decided" => now < eval.read + EvalTime
    BY <1>5 DEF Tick
  <2> QED BY <1>0, <2>1, <2>2 DEF WrittenInTime
<1>6. CASE Begin \/ SkipSettled \/ SyncGate \/ Restart
  BY <1>6 DEF Begin, SkipSettled, SyncGate, Restart, Idle, WrittenInTime
<1>7. CASE Hold \/ Pass \/ Start \/ CancelUnstarted \/ GraphDecides \/ GraphCreates \/ DeleteStep
           \/ FactChanges \/ BundleSettles \/ SyncStep \/ TimerFires \/ UNCHANGED vars
  BY <1>7 DEF Hold, Pass, Start, CancelUnstarted, GraphDecides, GraphCreates, DeleteStep, FactChanges,
     BundleSettles, SyncStep, TimerFires, vars, gateSide, WrittenInTime
<1> QED BY <1>1, <1>2, <1>3, <1>4, <1>5, <1>6, <1>7 DEF Next
LEMMA CopiesStep ==
    ASSUME TypeOK, ClockAhead, CopiesOfGate, [Next]_vars PROVE CopiesOfGate'
<1>0. /\ gate.last \in Nat /\ gcache.last \in Nat /\ now \in Nat /\ Never \in Nat
      /\ eval # Idle => eval.base.last \in Nat
  BY PolicyGateAssumption DEF TypeOK, GateOf, EvalOf, Stamp, Times
<1>a. now < Never
  BY <1>0, PolicyGateAssumption DEF ClockAhead, TypeOK, Budget
<1> USE DEF CopiesOfGate, NotNewer
<1>1. CASE recordOverrides
  <2>1. UNCHANGED gcache /\ eval # Idle /\ (Conflict \/ RecordWritten)
    BY <1>1, RecordShape
  <2>2. gate'.last = gate.last /\ (eval' = Idle \/ eval'.base = gate')
    BY <2>1 DEF RecordWritten, Conflict
  <2> QED BY <1>0, <2>1, <2>2
<1>2. CASE patchStatus
  <2>1. UNCHANGED gcache /\ (Conflict \/ PatchWritten \/ PatchSkipped)
    BY <1>2, PatchShape
  <2>2. eval' = Idle /\ gate'.last \in {gate.last, now}
    BY <2>1 DEF PatchWritten, PatchSkipped, Conflict
  <2> QED BY <1>0, <1>a, <2>1, <2>2 DEF ClockAhead
<1>3. CASE Decide
  <2>1. eval.at = "begun" /\ eval'.base = eval.base
    BY <1>3, Decision DEF DecidedFromBase
  <2>2. eval # Idle
    BY <2>1 DEF Idle
  <2> QED BY <1>3, <2>1, <2>2 DEF Decide
<1>4. CASE EditOverrides
  <2>1. gate'.last = gate.last
    BY <1>4 DEF EditOverrides, TypeOK, GateOf
  <2> QED BY <1>4, <2>1 DEF EditOverrides
<1>5. CASE Begin \/ SkipSettled \/ SyncGate \/ Restart
  BY <1>0, <1>5 DEF Begin, SkipSettled, SyncGate, Restart
<1>6. CASE Tick \/ Hold \/ Pass \/ Start \/ CancelUnstarted \/ GraphDecides \/ GraphCreates \/ DeleteStep
           \/ FactChanges \/ BundleSettles \/ SyncStep \/ TimerFires \/ UNCHANGED vars
  BY <1>6 DEF Tick, Hold, Pass, Start, CancelUnstarted, GraphDecides, GraphCreates, DeleteStep,
     FactChanges, BundleSettles, SyncStep, TimerFires, vars, gateSide
<1> QED BY <1>1, <1>2, <1>3, <1>4, <1>5, <1>6 DEF Next

\* What each action does to the stored step: its number and creation stay while it exists.
LEMMA StepChange ==
    ASSUME TypeOK, [Next]_vars
    PROVE  \/ UNCHANGED step
           \/ /\ step'.inc = step.inc /\ step'.created = step.created /\ step.st # "absent"
              /\ step'.st # "absent" /\ (step'.st = "Pending" => step.st = "Pending")
           \/ step'.inc = step.inc /\ step'.st = "absent"
           \/ decided # Never /\ decided' = Never /\ step'.inc = step.inc + 1 /\ step'.st = "Pending"
<1>1. CASE Hold \/ Start \/ CancelUnstarted
  BY <1>1 DEF Hold, Start, CancelUnstarted, TypeOK, StepOf
<1>2. CASE GraphCreates \/ DeleteStep
  BY <1>2 DEF GraphCreates, DeleteStep, NoStep
<1>3. CASE recordOverrides \/ patchStatus
  BY <1>3, RecordShape, PatchShape DEF stepSide
<1>4. CASE Begin \/ SkipSettled \/ Decide \/ Pass \/ GraphDecides \/ FactChanges \/ EditOverrides
           \/ BundleSettles \/ SyncGate \/ SyncStep \/ TimerFires \/ Tick \/ Restart \/ UNCHANGED vars
  BY <1>4 DEF Begin, SkipSettled, Decide, Pass, GraphDecides, FactChanges, EditOverrides, BundleSettles,
     SyncGate, SyncStep, TimerFires, Tick, Restart, vars, stepSide
<1> QED BY <1>1, <1>2, <1>3, <1>4 DEF Next

\* A copy of the step stays one.
LEMMA EarlierStays ==
    ASSUME TypeOK, CopiesOfStep, [Next]_vars, NEW b \in StepOf, EarlierStep(b) PROVE EarlierStep(b)'
<1>1. step.inc \in Nat /\ b.inc \in Nat
  BY DEF TypeOK, StepOf
<1> QED BY <1>1, StepChange DEF EarlierStep, CopiesOfStep

LEMMA StepCopiesStep == ASSUME TypeOK, CopiesOfStep, [Next]_vars PROVE CopiesOfStep'
<1>0. step.inc \in Nat /\ scache.inc \in Nat /\ scache \in StepOf
  BY DEF TypeOK, StepOf
<1>1. step'.st # "absent" => step'.inc > 0
  BY <1>0, StepChange DEF CopiesOfStep
<1>2. decided' # Never => step'.st = "absent"
  <2>1. CASE GraphDecides
    BY <2>1 DEF GraphDecides
  <2>2. CASE GraphCreates
    BY <2>2 DEF GraphCreates
  <2>3. CASE recordOverrides \/ patchStatus
    BY <2>3, RecordShape, PatchShape DEF stepSide, CopiesOfStep
  <2>4. CASE ~GraphDecides /\ ~GraphCreates /\ ~recordOverrides /\ ~patchStatus
    <3>1. decided' = decided
      BY <2>4 DEF Next, Begin, SkipSettled, Decide, Hold, Pass, Start, CancelUnstarted, DeleteStep,
         FactChanges, EditOverrides, BundleSettles, SyncGate, SyncStep, TimerFires, Tick, Restart,
         vars, stepSide
    <3> QED BY <3>1, StepChange DEF CopiesOfStep
  <2> QED BY <2>1, <2>2, <2>3, <2>4
<1>3. CASE UNCHANGED scache
  <2>1. EarlierStep(scache)'
    BY <1>0, <1>3, EarlierStays DEF CopiesOfStep, EarlierStep
  <2>2. scache'.inc = step'.inc /\ step'.st = "Pending" => scache'.st = "Pending"
    BY <1>0, <1>3, StepChange DEF CopiesOfStep, EarlierStep
  <2> QED BY <1>1, <1>2, <1>3, <2>1, <2>2 DEF CopiesOfStep
<1>4. CASE scache' = step /\ UNCHANGED step
  BY <1>0, <1>1, <1>2, <1>4 DEF CopiesOfStep, EarlierStep
<1>5. UNCHANGED scache \/ (scache' = step /\ UNCHANGED step)
  <2>1. CASE recordOverrides \/ patchStatus
    BY <2>1, RecordShape, PatchShape DEF stepSide
  <2>2. CASE ~recordOverrides /\ ~patchStatus
    BY <2>2 DEF Next, Begin, SkipSettled, Decide, Hold, Pass, Start, CancelUnstarted, GraphDecides,
       GraphCreates, DeleteStep, FactChanges, EditOverrides, BundleSettles, SyncGate, SyncStep,
       TimerFires, Tick, Restart, vars, stepSide
  <2> QED BY <2>1, <2>2
<1> QED BY <1>3, <1>4, <1>5
LEMMA JobStep ==
    ASSUME TypeOK, ReadWhenWritten, CopiesOfStep, JobIsFresh, [Next]_vars PROVE JobIsFresh'
<1>1. CASE Pass
  <2>1. /\ job' = [at |-> "start", base |-> scache, used |-> gcache.read]
        /\ scache.st = "Pending" /\ UNCHANGED step
        /\ gcache.last # Never /\ ~(gcache.last < scache.created)
    BY <1>1 DEF Pass, checkRequiredGates
  <2>2. gcache.last \in Nat /\ gcache.read \in Nat /\ scache.created \in Nat /\ EvalTime \in Nat
    BY PolicyGateAssumption DEF TypeOK, GateOf, StepOf, Stamp, Times
  <2>3. job'.used # Never /\ job'.used + EvalTime >= job'.base.created
    BY <2>1, <2>2 DEF ReadWhenWritten, WrittenInTime
  <2>4. job'.base.inc > 0 /\ EarlierStep(job.base)'
    BY <2>1 DEF CopiesOfStep, EarlierStep
  <2> QED BY <2>3, <2>4 DEF JobIsFresh
<1>2. CASE Start \/ Restart
  BY <1>2 DEF Start, Restart, JobIsFresh
<1>3. CASE UNCHANGED job
  <2>1. CASE job = Idle
    BY <1>3, <2>1 DEF JobIsFresh
  <2>2. CASE job # Idle
    <3>1. job.base \in StepOf
      BY <2>2 DEF TypeOK, JobOf
    <3>2. EarlierStep(job.base)'
      BY <1>3, <2>2, <3>1, EarlierStays DEF JobIsFresh, EarlierStep
    <3> QED BY <1>3, <2>2, <3>2 DEF JobIsFresh
  <2> QED BY <2>1, <2>2
<1>4. Pass \/ Start \/ Restart \/ UNCHANGED job
  <2>1. CASE recordOverrides \/ patchStatus
    BY <2>1, RecordShape, PatchShape DEF stepSide
  <2>2. CASE ~recordOverrides /\ ~patchStatus
    BY <2>2 DEF Next, Begin, SkipSettled, Decide, Hold, CancelUnstarted, GraphDecides, GraphCreates,
       DeleteStep, FactChanges, EditOverrides, BundleSettles, SyncGate, SyncStep, TimerFires, Tick,
       vars, stepSide
  <2> QED BY <2>1, <2>2
<1> QED BY <1>1, <1>2, <1>3, <1>4

\* Where a step starts, it is a job that starts it.
LEMMA FreshStep ==
    ASSUME TypeOK, CopiesOfStep, JobIsFresh, FreshVerdict, [Next]_vars PROVE FreshVerdict'
<1>0. step.inc \in Nat /\ step.created \in Nat
  BY DEF TypeOK, StepOf, Times
<1>1. CASE Start
  <2>1. CASE step.st = "Pending" /\ step.msg = job.base.msg
    <3>1. step' = [step EXCEPT !.st = "Promoting", !.msg = "none", !.used = job.used] /\ job # Idle
      BY <1>1, <2>1 DEF Start
    <3>2. step'.inc = step.inc /\ step'.created = step.created /\ step'.used = job.used
      BY <3>1 DEF TypeOK, StepOf
    <3>3. job.base \in StepOf /\ job.used \in Nat
      BY <3>1 DEF TypeOK, JobOf, Times
    <3>4. step.inc = 1 => job.base.inc = step.inc
      BY <1>0, <3>1, <3>3 DEF JobIsFresh, EarlierStep, StepOf
    <3>5. step.inc = 1 => job.used # Never /\ job.used + EvalTime >= step.created
      BY <2>1, <3>1, <3>4 DEF JobIsFresh, EarlierStep
    <3> QED BY <3>2, <3>5 DEF FreshVerdict
  <2>2. CASE ~(step.st = "Pending" /\ step.msg = job.base.msg)
    BY <1>1, <2>2 DEF Start, FreshVerdict
  <2> QED BY <2>1, <2>2
<1>2. CASE Hold
  <2>1. step'.st = step.st /\ step'.inc = step.inc /\ step'.created = step.created /\ step'.used = step.used
    BY <1>2 DEF Hold, TypeOK, StepOf
  <2> QED BY <2>1 DEF FreshVerdict
<1>3. CASE CancelUnstarted \/ GraphCreates \/ DeleteStep
  <2>1. step'.st # "Promoting"
    BY <1>3 DEF CancelUnstarted, GraphCreates, DeleteStep, NoStep, TypeOK, StepOf
  <2> QED BY <2>1 DEF FreshVerdict
<1>4. CASE recordOverrides \/ patchStatus
  BY <1>4, RecordShape, PatchShape DEF stepSide, FreshVerdict
<1>5. CASE Begin \/ SkipSettled \/ Decide \/ Pass \/ GraphDecides \/ FactChanges \/ EditOverrides
           \/ BundleSettles \/ SyncGate \/ SyncStep \/ TimerFires \/ Tick \/ Restart \/ UNCHANGED vars
  BY <1>5 DEF Begin, SkipSettled, Decide, Pass, GraphDecides, FactChanges, EditOverrides, BundleSettles,
     SyncGate, SyncStep, TimerFires, Tick, Restart, vars, stepSide, FreshVerdict
<1> QED BY <1>1, <1>2, <1>3, <1>4, <1>5 DEF Next

\* The records of the overrides, and what they allow.
LEMMA RecordsStep ==
    ASSUME TypeOK, ReadWhenWritten, RecordsKept, OverrideWithinCap, [Next]_vars
    PROVE  RecordsKept' /\ OverrideWithinCap'
<1>0. gate.recs \in [Overrides -> Stamp] /\ first \in [Overrides -> Stamp]
  BY DEF TypeOK, GateOf
<1>1. CASE recordOverrides
  <2>1. eval.at = "begun" /\ (Conflict \/ RecordWritten)
    BY <1>1, RecordShape
  <2>2. CASE Conflict
    BY <2>2 DEF Conflict, Idle, RecordsKept, OverrideWithinCap
  <2>3. CASE RecordWritten
    <3>1. gate'.recs \in [Overrides -> Stamp]
      BY TypeStep DEF TypeOK, GateOf
    <3>2. gate'.recs = first'
      BY <1>0, <2>3, <3>1 DEF RecordWritten, RecordsKept
    <3>3. eval'.at # "decided" /\ gate'.by = gate.by /\ gate'.read = gate.read
      BY <2>3 DEF RecordWritten
    <3>4. gate.by \in Overrides => first'[gate.by] = first[gate.by]
      BY <2>3 DEF RecordWritten, OverrideWithinCap
    <3> QED BY <3>2, <3>3, <3>4 DEF RecordsKept, OverrideWithinCap
  <2> QED BY <2>1, <2>2, <2>3
<1>2. CASE patchStatus
  <2>1. eval.at = "decided" /\ (Conflict \/ PatchWritten \/ PatchSkipped)
    BY <1>2, PatchShape
  <2>2. CASE Conflict \/ PatchSkipped
    BY <2>2 DEF Conflict, PatchSkipped, Idle, RecordsKept, OverrideWithinCap
  <2>3. CASE PatchWritten
    BY <2>1, <2>3 DEF PatchWritten, Idle, RecordsKept, OverrideWithinCap, overrideEnd
  <2> QED BY <2>1, <2>2, <2>3
<1>3. CASE Decide
  BY <1>3, Decision DEF DecidedFromBase, Decide, RecordsKept, OverrideWithinCap
<1>4. CASE EditOverrides
  <2>1. gate'.by = gate.by /\ gate'.read = gate.read /\ gate'.recs = gate.recs
    BY <1>4 DEF EditOverrides, TypeOK, GateOf
  <2> QED BY <1>4, <2>1 DEF EditOverrides, RecordsKept, OverrideWithinCap
<1>5. CASE Begin \/ SkipSettled \/ Restart
  BY <1>5 DEF Begin, SkipSettled, Restart, Idle, RecordsKept, OverrideWithinCap
<1>6. CASE Hold \/ Pass \/ Start \/ CancelUnstarted \/ GraphDecides \/ GraphCreates \/ DeleteStep
           \/ FactChanges \/ BundleSettles \/ SyncGate \/ SyncStep \/ TimerFires \/ Tick \/ UNCHANGED vars
  BY <1>6 DEF Hold, Pass, Start, CancelUnstarted, GraphDecides, GraphCreates, DeleteStep, FactChanges,
     BundleSettles, SyncGate, SyncStep, TimerFires, Tick, vars, gateSide, RecordsKept, OverrideWithinCap
<1> QED BY <1>1, <1>2, <1>3, <1>4, <1>5, <1>6 DEF Next
\* An evaluation that ends without a write has seen no step that waits for one.
LEMMA ComingStep ==
    ASSUME TypeOK, ClockAhead, CopiesOfGate, CopiesOfStep, ResultIsComing, [Next]_vars
    PROVE  ResultIsComing'
<1>0. /\ gate.last \in Nat /\ step.created \in Nat /\ step.inc \in Nat /\ scache.inc \in Nat
      /\ now \in Nat /\ scache.created \in Nat
      /\ eval # Idle => eval.base.last \in Nat
  BY PolicyGateAssumption DEF TypeOK, GateOf, StepOf, EvalOf, Stamp, Times
<1>1. CASE Begin
  <2>1. eval' # Idle
    BY <1>1 DEF Begin, Idle
  <2> QED BY <2>1 DEF ResultIsComing
<1>2. CASE recordOverrides
  <2>1. Conflict \/ RecordWritten
    BY <1>2, RecordShape
  <2>2. queued' \/ eval' # Idle
    BY <2>1 DEF Conflict, RecordWritten, Idle
  <2> QED BY <2>2 DEF ResultIsComing
<1>3. CASE SkipSettled
  BY <1>3 DEF SkipSettled, world, ResultIsComing
<1>4. CASE Decide
  <2>1. eval' # Idle
    BY <1>4, Decision DEF DecidedFromBase, Idle
  <2> QED BY <2>1 DEF ResultIsComing
<1>5. CASE patchStatus
  <2>1. /\ eval # Idle /\ UNCHANGED <<settled, step, scache>>
        /\ Conflict \/ PatchWritten \/ PatchSkipped
    BY <1>5, PatchShape DEF stepSide
  <2>2. CASE Conflict
    BY <2>2 DEF Conflict, ResultIsComing
  <2>3. CASE PatchWritten
    <3>1. ~(gate'.last < step'.created)
      BY <1>0, <2>1, <2>3 DEF PatchWritten, ClockAhead
    <3> QED BY <3>1 DEF ResultIsComing
  <2>4. CASE PatchSkipped
    <3> SUFFICES ASSUME step.st = "Pending", gate.last < step.created, scache.inc = step.inc PROVE FALSE
      BY <2>1, <2>4 DEF PatchSkipped, ResultIsComing
    <3>1. scache.st = "Pending" /\ scache.created = step.created
      BY DEF CopiesOfStep, EarlierStep
    <3>2. eval.base.last # Never /\ ~(eval.base.last < scache.created)
      BY <2>4, <3>1 DEF PatchSkipped, unchangedResult, freshResultWanted
    <3>3. eval.base.last <= gate.last
      BY <2>1, <3>2 DEF CopiesOfGate, NotNewer
    <3> QED BY <1>0, <2>1, <3>1, <3>2, <3>3
  <2> QED BY <2>1, <2>2, <2>3, <2>4
<1>6. CASE Hold
  <2>1. step'.st = step.st /\ step'.inc = step.inc /\ step'.created = step.created
    BY <1>6 DEF Hold, TypeOK, StepOf
  <2> QED BY <1>6, <2>1 DEF Hold, world, gateSide, ResultIsComing
<1>7. CASE Start \/ CancelUnstarted
  <2>1. step' = step \/ step'.st # "Pending"
    BY <1>7 DEF Start, CancelUnstarted, TypeOK, StepOf
  <2> QED BY <1>7, <2>1 DEF Start, CancelUnstarted, world, gateSide, ResultIsComing
<1>8. CASE GraphCreates
  <2>1. scache'.inc # step'.inc
    BY <1>0, <1>8 DEF GraphCreates, NoStep, CopiesOfStep, EarlierStep
  <2> QED BY <2>1 DEF ResultIsComing
<1>9. CASE DeleteStep
  BY <1>9 DEF DeleteStep, NoStep, ResultIsComing
<1>10. CASE EditOverrides
  <2>1. gate'.last = gate.last
    BY <1>10 DEF EditOverrides, TypeOK, GateOf
  <2> QED BY <1>10, <2>1 DEF EditOverrides, stepSide, ResultIsComing
<1>11. CASE Restart \/ TimerFires
  BY <1>11 DEF Restart, TimerFires, ResultIsComing
<1>12. CASE SyncGate
  BY <1>12 DEF SyncGate, world, stepSide, ResultIsComing
<1>13. CASE SyncStep
  <2>1. queued \/ (step.inc # scache.inc /\ step.st = "Pending") => queued'
    BY <1>13 DEF SyncStep
  <2> QED BY <1>13, <2>1 DEF SyncStep, world, ResultIsComing
<1>14. CASE FactChanges
  <2>1. queued => queued'
    BY <1>14 DEF FactChanges
  <2> QED BY <1>14, <2>1 DEF FactChanges, stepSide, ResultIsComing
<1>15. CASE BundleSettles
  BY <1>15 DEF BundleSettles, ResultIsComing
<1>16. CASE Pass \/ GraphDecides \/ Tick \/ UNCHANGED vars
  BY <1>16 DEF Pass, GraphDecides, Tick, vars, world, gateSide, stepSide, ResultIsComing
<1> QED BY <1>1, <1>2, <1>3, <1>4, <1>5, <1>6, <1>7, <1>8, <1>9, <1>10, <1>11, <1>12, <1>13, <1>14,
           <1>15, <1>16 DEF Next

-----------------------------------------------------------------------------
(* The end of an override. *)

\* A non-empty set of naturals has a least element.
LEMMA Least ==
    ASSUME NEW T, T \subseteq Nat, T # {} PROVE \E m \in T : \A y \in T : m <= y
<1> DEFINE R == OpToRel(<, Nat)
<1>1. IsWellFoundedOn(R, Nat)
  BY NatLessThanWellFounded
<1>2. \A y, z \in Nat : <<y, z>> \in R <=> y < z
  BY DEF OpToRel
<1> HIDE DEF R
<1>3. PICK m \in T : \A y \in T : ~(<<y, m>> \in R)
  BY <1>1, WFMin
<1>4. ASSUME NEW y \in T PROVE m <= y
  <2>1. y \in Nat /\ m \in Nat /\ ~(<<y, m>> \in R)
    BY <1>3
  <2>2. ~(y < m)
    BY <1>2, <2>1
  <2> QED BY <2>1, <2>2
<1> QED BY <1>4

\* An override that counts counted before.
LEMMA CountedBefore ==
    ASSUME NEW g \in GateOf, NEW o \in Overrides, NEW s \in Nat, NEW t \in Nat, s <= t, InEffect(g, o, t)
    PROVE  InEffect(g, o, s)
<1>1. g.recs[o] \in Nat
  BY PolicyGateAssumption DEF GateOf, Stamp, Times
<1>2. overrideEnd(o, g.recs[o]) \in Nat
  BY <1>1, EndIsATime
<1> QED BY <1>2 DEF InEffect

\* The places of a list.
LEMMA ListPlaces ==
    ASSUME NEW g \in GateOf
    PROVE  DOMAIN g.ovs \subseteq Nat \ {0} /\ \A i \in DOMAIN g.ovs : g.ovs[i] \in Overrides /\ 1 .. i \subseteq DOMAIN g.ovs
<1>1. g.ovs \in Seq(Overrides)
  BY PolicyGateAssumption DEF GateOf
<1> QED BY <1>1

\* The first entry that counts is one, and there is one when any entry counts.
LEMMA FirstIsOne ==
    ASSUME NEW g \in GateOf, NEW t \in Nat
    PROVE  /\ \A o \in findActiveOverride(g, t) : findActiveOverride(g, t) = {o} /\ o \in Overrides /\ InEffect(g, o, t)
           /\ findActiveOverride(g, t) = {} => \A i \in DOMAIN g.ovs : ~InEffect(g, g.ovs[i], t)
<1> DEFINE Firsts == {j \in DOMAIN g.ovs :
               InEffect(g, g.ovs[j], t) /\ \A k \in 1 .. j - 1 : ~InEffect(g, g.ovs[k], t)}
<1>0. DOMAIN g.ovs \subseteq Nat \ {0} /\ \A i \in DOMAIN g.ovs : g.ovs[i] \in Overrides
  BY ListPlaces
<1>1. \A i, j \in Firsts : i = j
  <2>1. SUFFICES ASSUME NEW i \in Firsts, NEW j \in Firsts, i < j PROVE FALSE
    BY <1>0
  <2>2. i \in 1 .. j - 1
    BY <1>0, <2>1
  <2> QED BY <2>2
<1>2. \A o \in findActiveOverride(g, t) : \E i \in Firsts : o = g.ovs[i]
  BY DEF findActiveOverride
<1>3. \A i \in Firsts : g.ovs[i] \in findActiveOverride(g, t)
  BY DEF findActiveOverride
<1>4. ASSUME NEW o \in findActiveOverride(g, t)
      PROVE  findActiveOverride(g, t) = {o} /\ o \in Overrides /\ InEffect(g, o, t)
  <2>1. PICK i \in Firsts : o = g.ovs[i]
    BY <1>2
  <2>2. \A p \in findActiveOverride(g, t) : p = o
    BY <1>1, <1>2, <2>1
  <2>3. o \in Overrides /\ InEffect(g, o, t)
    BY <1>0, <2>1
  <2> HIDE DEF Firsts
  <2> QED BY <2>2, <2>3
<1>5. ASSUME findActiveOverride(g, t) = {}, NEW i \in DOMAIN g.ovs, InEffect(g, g.ovs[i], t) PROVE FALSE
  <2> DEFINE T == {j \in DOMAIN g.ovs : InEffect(g, g.ovs[j], t)}
  <2>1. T \subseteq Nat /\ T # {}
    BY <1>0, <1>5
  <2>2. PICK m \in T : \A y \in T : m <= y
    <3> HIDE DEF T
    <3> QED BY <2>1, Least
  <2>3. \A k \in 1 .. m - 1 : k \in DOMAIN g.ovs /\ k \notin T
    <3>1. m \in Nat /\ 1 .. m \subseteq DOMAIN g.ovs
      BY <1>0, ListPlaces
    <3> HIDE DEF T
    <3> QED BY <2>2, <3>1
  <2>4. m \in Firsts
    BY <2>3
  <2> QED BY <1>3, <1>5, <2>4
<1> QED BY <1>4, <1>5

\* What the list decided twice, it decided in between.
LEMMA DecidedBetween ==
    ASSUME NEW g \in GateOf, NEW r \in Nat, NEW s \in Nat, NEW t \in Nat, r <= s, s <= t,
           findActiveOverride(g, r) = findActiveOverride(g, t)
    PROVE  findActiveOverride(g, s) = findActiveOverride(g, t)
<1>0. /\ DOMAIN g.ovs \subseteq Nat \ {0}
      /\ \A i \in DOMAIN g.ovs : g.ovs[i] \in Overrides /\ 1 .. i \subseteq DOMAIN g.ovs
  BY ListPlaces
<1>1. CASE findActiveOverride(g, r) = {}
  <2>1. SUFFICES ASSUME NEW o \in findActiveOverride(g, s) PROVE FALSE
    BY <1>1
  <2>2. PICK i \in DOMAIN g.ovs : InEffect(g, g.ovs[i], s)
    BY <2>1 DEF findActiveOverride
  <2>3. InEffect(g, g.ovs[i], r)
    BY <1>0, <2>2, CountedBefore
  <2> QED BY <1>1, <2>2, <2>3, FirstIsOne
<1>2. ASSUME NEW o \in findActiveOverride(g, r) PROVE findActiveOverride(g, s) = findActiveOverride(g, t)
  <2>1. PICK i \in DOMAIN g.ovs : g.ovs[i] = o /\ \A k \in 1 .. i - 1 : ~InEffect(g, g.ovs[k], r)
    BY <1>2 DEF findActiveOverride
  <2>2. InEffect(g, o, t) /\ o \in Overrides /\ findActiveOverride(g, t) = {o}
    BY <1>2, FirstIsOne
  <2>3. InEffect(g, o, s)
    BY <2>2, CountedBefore
  <2>4. \A k \in 1 .. i - 1 : g.ovs[k] \in Overrides
    BY <1>0, <2>1
  <2>5. \A k \in 1 .. i - 1 : ~InEffect(g, g.ovs[k], s)
    BY <2>1, <2>4, CountedBefore
  <2>6. o \in findActiveOverride(g, s)
    BY <2>1, <2>3, <2>5 DEF findActiveOverride
  <2>7. findActiveOverride(g, s) = {o}
    BY <2>6, FirstIsOne
  <2> QED BY <2>2, <2>7
<1> QED BY <1>1, <1>2

\* The list and the records are all that the choice and the records to come depend on.
LEMMA SameList ==
    ASSUME NEW c \in GateOf, NEW d \in GateOf, c.ovs = d.ovs, c.recs = d.recs
    PROVE  /\ \A t : findActiveOverride(c, t) = findActiveOverride(d, t)
           /\ ToRecord(c) = ToRecord(d)
<1>1. \A o, t : InEffect(c, o, t) <=> InEffect(d, o, t)
  BY DEF InEffect
<1>2. \A t : findActiveOverride(c, t) = findActiveOverride(d, t)
  BY <1>1 DEF findActiveOverride
<1>3. EntriesOf(c) = EntriesOf(d)
  BY DEF EntriesOf
<1>4. ToRecord(c) = ToRecord(d)
  BY <1>3 DEF ToRecord
<1> QED BY <1>2, <1>4

\* A decision is the list's, when every entry that can have a record has one.
LEMMA DecisionByList == ASSUME TypeOK, ClockAhead, Decide PROVE DecidedByList'
<1>0. eval.at = "begun" /\ eval.base \in GateOf /\ now \in Nat /\ fact \in Facts /\ now # Never
  BY PolicyGateAssumption DEF TypeOK, Decide, EvalOf, Idle, Times, ClockAhead, Budget
<1>1. /\ NewRecords(eval.base, now) = {eval.base.recs} /\ now' = now
      /\ eval'.base = eval.base /\ eval'.at = "decided" /\ eval'.read = now
  BY Decision DEF Decide, DecidedFromBase
<1>2. ToRecord(eval.base) = {{}}
  <2>1. ASSUME NEW S \in ToRecord(eval.base) PROVE S = {}
    <3>1. [o \in Overrides |-> IF o \in S THEN now ELSE eval.base.recs[o]] = eval.base.recs
      BY <1>1 DEF NewRecords
    <3>2. \A o \in S : o \in Overrides /\ eval.base.recs[o] = Never
      <4>1. EntriesOf(eval.base) \subseteq Overrides
        BY <1>0, ListPlaces DEF EntriesOf
      <4> QED BY <4>1 DEF ToRecord
    <3> QED BY <1>0, <3>1, <3>2
  <2>2. ToRecord(eval.base) # {}
    BY <1>1 DEF NewRecords
  <2> QED BY <2>1, <2>2
<1>3. ToRecord(eval.base)' = ToRecord(eval.base)
  BY <1>1 DEF ToRecord, EntriesOf
<1>4. findActiveOverride(eval.base, now)' = findActiveOverride(eval.base, now)
  BY <1>1 DEF findActiveOverride, InEffect
<1>5. \A o \in findActiveOverride(eval.base, now) :
        /\ findActiveOverride(eval.base, now) = {o} /\ o \in Overrides /\ InEffect(eval.base, o, now)
  BY <1>0, FirstIsOne
<1>6. ASSUME NEW o \in findActiveOverride(eval.base, now), eval'.by = o,
             eval'.wait = Earlier(Recheck, overrideEnd(o, eval.base.recs[o]) - now + 1)
      PROVE  DecidedByList'
  <2>1. eval.base.recs[o] \in Nat /\ overrideEnd(o, eval.base.recs[o]) \in Nat
    BY <1>0, <1>5, EndIsATime, PolicyGateAssumption DEF GateOf, Stamp, Times
  <2>2. now < overrideEnd(o, eval.base.recs[o])
    BY <1>5 DEF InEffect
  <2>3. now + eval'.wait <= overrideEnd(o, eval.base.recs[o]) + 1
    BY <1>0, <1>6, <2>1, <2>2, PolicyGateAssumption DEF Earlier
  <2>4. findActiveOverride(eval.base, now) = {eval'.by} \cap Overrides
    BY <1>5, <1>6
  <2>5. overrideEnd(eval.by, eval.base.recs[eval.by])' = overrideEnd(o, eval.base.recs[o])
    BY <1>1, <1>6 DEF overrideEnd
  <2> QED BY <1>1, <1>2, <1>6, <1>3, <1>4, <2>3, <2>4, <2>5 DEF DecidedByList, Decides
<1>7. CASE findActiveOverride(eval.base, now) = {} /\ eval'.by = fact
  <2>1. fact \notin Overrides
    BY <1>0, PolicyGateAssumption DEF Facts
  <2>2. findActiveOverride(eval.base, now) = {eval'.by} \cap Overrides
    BY <1>7, <2>1
  <2> QED BY <1>1, <1>2, <1>7, <1>3, <1>4, <2>1, <2>2 DEF DecidedByList, Decides
<1> QED BY <1>6, <1>7 DEF Decide

\* How the stored gate changes.
Edited ==
    /\ gate'.gen = gate.gen + 1 /\ gate'.seen = gate.seen /\ gate'.by = gate.by
    /\ gate'.read = gate.read /\ gate'.recs = gate.recs
    /\ UNCHANGED <<now, gcache, eval>>

LEMMA GateShape ==
    ASSUME TypeOK, [Next]_vars
    PROVE  \/ UNCHANGED gate
           \/ /\ RecordWritten \/ (PatchWritten /\ eval.at = "decided")
              /\ eval # Idle /\ UNCHANGED <<now, gcache>>
           \/ Edited
<1>1. CASE recordOverrides
  BY <1>1, RecordShape DEF Conflict
<1>2. CASE patchStatus
  BY <1>2, PatchShape DEF Conflict, PatchSkipped
<1>3. CASE EditOverrides
  BY <1>3 DEF EditOverrides, Edited, TypeOK, GateOf
<1>4. CASE ~recordOverrides /\ ~patchStatus /\ ~EditOverrides
  BY <1>4 DEF Next, Begin, SkipSettled, Decide, Hold, Pass, Start, CancelUnstarted, GraphDecides,
     GraphCreates, DeleteStep, FactChanges, BundleSettles, SyncGate, SyncStep, TimerFires, Tick, Restart,
     vars, gateSide
<1> QED BY <1>1, <1>2, <1>3, <1>4

\* The copies: a cache is left or caught up, an evaluation begins with one and keeps it, or has
\* written over it.
LEMMA CopyShape ==
    ASSUME TypeOK, [Next]_vars
    PROVE  /\ UNCHANGED gcache \/ (gcache' = gate /\ UNCHANGED gate)
           /\ \/ eval' = Idle
              \/ eval # Idle /\ eval'.base = eval.base
              \/ eval'.base = gcache /\ UNCHANGED <<gate, gcache>>
              \/ RecordWritten /\ UNCHANGED gcache
           /\ now' = now \/ (now' = now + 1 /\ UNCHANGED eval)
           /\ eval'.at = "decided" => Decide \/ UNCHANGED eval
<1>1. CASE recordOverrides
  <2>1. (Conflict \/ RecordWritten) /\ UNCHANGED <<now, gcache>>
    BY <1>1, RecordShape
  <2> QED BY <2>1 DEF Conflict, Idle, RecordWritten
<1>2. CASE patchStatus
  <2>1. (Conflict \/ PatchWritten \/ PatchSkipped) /\ UNCHANGED <<now, gcache>>
    BY <1>2, PatchShape
  <2> QED BY <2>1 DEF Conflict, Idle, PatchWritten, PatchSkipped
<1>3. CASE Decide
  <2>1. eval # Idle /\ eval'.base = eval.base
    BY <1>3, Decision DEF DecidedFromBase, Idle
  <2> QED BY <1>3, <2>1 DEF Decide
<1>4. CASE Begin \/ SkipSettled \/ SyncGate \/ Restart
  BY <1>4 DEF Begin, SkipSettled, SyncGate, Restart, Idle
<1>5. CASE Hold \/ Pass \/ Start \/ CancelUnstarted \/ GraphDecides \/ GraphCreates \/ DeleteStep
           \/ FactChanges \/ BundleSettles \/ SyncStep \/ TimerFires \/ EditOverrides \/ UNCHANGED vars
  BY <1>5 DEF Hold, Pass, Start, CancelUnstarted, GraphDecides, GraphCreates, DeleteStep, FactChanges,
     BundleSettles, SyncStep, TimerFires, EditOverrides, vars, gateSide
<1>6. CASE Tick
  <2>1. now' = now + 1 /\ UNCHANGED <<gcache, eval>>
    BY <1>6 DEF Tick, gateSide
  <2> QED BY <2>1
<1> QED BY <1>1, <1>2, <1>3, <1>4, <1>5, <1>6 DEF Next

\* A copy of the gate stays one.
LEMMA EarlierGateStays ==
    ASSUME TypeOK, [Next]_vars, EarlierGate(gate), NEW c \in GateOf, EarlierGate(c),
           PatchWritten => gate.gen <= c.gen
    PROVE  EarlierGate(c)'
<1>1. /\ gate.gen \in Nat /\ gate.seen \in Nat /\ c.gen \in Nat /\ c.seen \in Nat
  BY DEF TypeOK, GateOf
<1>2. CASE UNCHANGED gate
  BY <1>2 DEF EarlierGate
<1>3. CASE RecordWritten
  BY <1>3 DEF EarlierGate, RecordWritten
<1>4. CASE PatchWritten
  BY <1>1, <1>4 DEF EarlierGate, PatchWritten
<1>5. CASE Edited
  BY <1>1, <1>5 DEF EarlierGate, Edited
<1> QED BY <1>2, <1>3, <1>4, <1>5, GateShape

\* The gate is a copy of itself.
LEMMA GateIsEarlier == ASSUME TypeOK, [Next]_vars, EarlierGate(gate) PROVE EarlierGate(gate)'
<1>1. gate.gen \in Nat /\ gate.seen \in Nat
  BY DEF TypeOK, GateOf
<1>2. CASE UNCHANGED gate
  BY <1>2 DEF EarlierGate
<1>3. CASE RecordWritten \/ PatchWritten \/ Edited
  BY <1>1, <1>3 DEF EarlierGate, RecordWritten, PatchWritten, Edited
<1> QED BY <1>2, <1>3, GateShape

\* An evaluation reads its facts no earlier than those of the stored result were read.
LEMMA DecisionAfterResult ==
    ASSUME TypeOK, ClockAhead, ReadWhenWritten, eval.at = "decided", gate.read <= now
    PROVE  gate.read <= eval.read /\ eval.read <= now /\ eval.read \in Nat
<1>1. now \in Nat /\ Never \in Nat /\ gate.read \in Nat /\ eval.read \in Nat
  BY ReadIsATime, PolicyGateAssumption DEF TypeOK, GateOf, Stamp, Times
<1>2. now < Never
  BY <1>1, PolicyGateAssumption DEF ClockAhead, TypeOK, Budget
<1> QED BY <1>1, <1>2 DEF ReadWhenWritten

\* Result and list of a copy stay together.
LEMMA ResultStays ==
    ASSUME TypeOK, ClockAhead, ReadWhenWritten, EndsKept, [Next]_vars, NEW c \in GateOf, EarlierGate(c), ResultOf(c),
           PatchWritten => gate.gen <= c.gen
    PROVE  ResultOf(c)'
<1> SUFFICES ASSUME c.seen = c.gen
             PROVE  /\ ToRecord(c) = {{}}
                    /\ c.gen = gate'.gen => c.recs = gate'.recs
                    /\ Decides(c, c.by, c.read) /\ findActiveOverride(c, gate'.read) = {gate'.by} \cap Overrides
                    /\ c.read <= gate'.read /\ gate'.read <= now'
  BY DEF ResultOf, Decides, ToRecord, EntriesOf, findActiveOverride, InEffect
<1>0. /\ gate.gen \in Nat /\ gate.seen \in Nat /\ c.gen \in Nat /\ c.seen \in Nat
      /\ gate.read \in Nat /\ c.read \in Nat /\ now \in Nat /\ gate \in GateOf
  BY PolicyGateAssumption DEF TypeOK, GateOf, Stamp, Times
<1>1. /\ ToRecord(c) = {{}}
      /\ c.gen = gate.gen => c.recs = gate.recs
      /\ Decides(c, c.by, c.read) /\ findActiveOverride(c, gate.read) = {gate.by} \cap Overrides
      /\ c.read <= gate.read /\ gate.read <= now
  BY DEF ResultOf, Decides
<1>2. now <= now' /\ now' \in Nat
  BY <1>0, CopyShape
<1>3. CASE UNCHANGED gate
  BY <1>0, <1>1, <1>2, <1>3
<1>4. CASE RecordWritten
  <2>1. c.gen # gate.gen
    <3>1. SUFFICES ASSUME c.gen = gate.gen PROVE FALSE
      OBVIOUS
    <3>2. c.ovs = gate.ovs /\ c.recs = gate.recs
      BY <1>1, <3>1 DEF EarlierGate
    <3> QED BY <1>0, <1>1, <1>4, <3>2, SameList DEF RecordWritten
  <2> QED BY <1>0, <1>1, <1>2, <1>4, <2>1 DEF RecordWritten
<1>5. CASE PatchWritten /\ eval.at = "decided" /\ eval # Idle /\ now' = now
  <2>1. c.gen = gate.gen
    BY <1>0, <1>5 DEF EarlierGate, EndsKept
  <2>2. c.ovs = gate.ovs /\ c.recs = gate.recs
    BY <1>1, <2>1 DEF EarlierGate
  <2>3. gate'.read = eval.read /\ gate'.by = eval.by /\ gate = eval.base /\ gate'.recs = gate.recs
    BY <1>5 DEF PatchWritten
  <2>4. findActiveOverride(eval.base, eval.read) = {eval.by} \cap Overrides
    BY <1>5 DEF EndsKept, DecidedByList, Decides
  <2>5. findActiveOverride(c, eval.read) = {eval.by} \cap Overrides
    BY <1>0, <2>2, <2>3, <2>4, SameList
  <2>6. gate.read <= eval.read /\ eval.read <= now /\ eval.read \in Nat
    BY <1>0, <1>1, <1>5, DecisionAfterResult
  <2> QED BY <1>0, <1>1, <1>5, <2>2, <2>3, <2>5, <2>6
<1>6. CASE Edited
  <2>1. c.gen # gate'.gen
    BY <1>0, <1>6 DEF Edited, EarlierGate
  <2> QED BY <1>0, <1>1, <1>2, <1>6, <2>1 DEF Edited
<1> QED BY <1>3, <1>4, <1>5, <1>6, GateShape

\* The same of the gate itself.
LEMMA GateResultStays ==
    ASSUME TypeOK, ClockAhead, ReadWhenWritten, EndsKept, [Next]_vars PROVE ResultOf(gate)'
<1>0. /\ gate.gen \in Nat /\ gate.seen \in Nat /\ gate.read \in Nat /\ now \in Nat /\ gate \in GateOf
      /\ gate' \in GateOf /\ now' \in Nat /\ now <= now'
  <2>1. gate' \in GateOf /\ gate \in GateOf /\ now \in Nat
    BY TypeStep DEF TypeOK, Times
  <2>2. now' = now \/ now' = now + 1
    BY CopyShape
  <2>3. gate.gen \in Nat /\ gate.seen \in Nat /\ gate.read \in Nat
    BY <2>1, PolicyGateAssumption DEF GateOf, Stamp, Times
  <2> QED BY <2>1, <2>2, <2>3
<1>1. CASE UNCHANGED gate
  <2>1. ResultOf(gate)
    BY DEF EndsKept
  <2> QED BY <1>0, <1>1, <2>1 DEF ResultOf, Decides, ToRecord, EntriesOf, findActiveOverride, InEffect
<1>2. CASE RecordWritten \/ Edited
  <2>1. gate'.seen # gate'.gen
    BY <1>0, <1>2 DEF RecordWritten, Edited, EndsKept, EarlierGate, ResultOf
  <2> QED BY <2>1 DEF ResultOf
<1>3. CASE PatchWritten /\ eval.at = "decided" /\ now' = now
  <2>1. /\ gate'.ovs = gate.ovs /\ gate'.recs = gate.recs /\ gate = eval.base
        /\ gate'.read = eval.read /\ gate'.by = eval.by
    BY <1>3 DEF PatchWritten
  <2>2. findActiveOverride(gate, eval.read) = {eval.by} \cap Overrides /\ ToRecord(gate) = {{}}
    BY <1>3, <2>1 DEF EndsKept, DecidedByList, Decides
  <2>3. findActiveOverride(gate', eval.read) = {gate'.by} \cap Overrides /\ ToRecord(gate') = {{}}
    BY <1>0, <2>1, <2>2, SameList
  <2>4. /\ ToRecord(gate)' = ToRecord(gate')
        /\ findActiveOverride(gate, gate.read)' = findActiveOverride(gate', eval.read)
    BY <2>1 DEF ToRecord, EntriesOf, findActiveOverride, InEffect
  <2>5. eval.read <= now /\ eval.read \in Nat
    BY <1>3 DEF ReadWhenWritten, PatchWritten, TypeOK, EvalOf, Times
  <2> QED BY <1>0, <1>3, <2>1, <2>3, <2>4, <2>5 DEF ResultOf, Decides
<1> QED BY <1>1, <1>2, <1>3, GateShape

\* The copies go on telling what they tell of the gate.
LEMMA EndsStep == ASSUME TypeOK, ClockAhead, ReadWhenWritten, EndsKept, [Next]_vars PROVE EndsKept'
<1>0. /\ gate \in GateOf /\ gcache \in GateOf /\ (eval # Idle => eval.base \in GateOf)
      /\ gate' \in GateOf /\ gcache' \in GateOf /\ (eval' # Idle => eval'.base \in GateOf)
  BY TypeStep DEF TypeOK, EvalOf
<1>1. EarlierGate(gate)' /\ ResultOf(gate)'
  BY GateIsEarlier, GateResultStays DEF EndsKept
<1>2. PatchWritten => eval' = Idle /\ gate.gen <= gcache.gen
  BY DEF PatchWritten, EndsKept
<1>3. \A x \in GateOf : EarlierGate(x) /\ ResultOf(x) /\ (PatchWritten => gate.gen <= x.gen)
                          => EarlierGate(x)' /\ ResultOf(x)'
  BY EarlierGateStays, ResultStays DEF EndsKept
<1>4. \A x \in GateOf : x = gcache => EarlierGate(x)' /\ ResultOf(x)'
  BY <1>2, <1>3 DEF EndsKept
<1>5. EarlierGate(gcache)' /\ ResultOf(gcache)'
  <2>1. CASE UNCHANGED gcache
    <3>1. \A x : x = gcache' /\ EarlierGate(x)' => EarlierGate(gcache)'
      BY DEF EarlierGate
    <3>2. \A x : x = gcache' /\ ResultOf(x)' => ResultOf(gcache)'
      BY DEF ResultOf, Decides, ToRecord, EntriesOf, findActiveOverride, InEffect
    <3> QED BY <1>0, <1>4, <2>1, <3>1, <3>2
  <2>2. CASE gcache' = gate /\ UNCHANGED gate
    BY <1>1, <2>2 DEF EarlierGate, ResultOf, Decides, ToRecord, EntriesOf, findActiveOverride, InEffect
  <2> QED BY <2>1, <2>2, CopyShape
<1>6. eval' # Idle => EarlierGate(eval.base)' /\ ResultOf(eval.base)'
  <2> SUFFICES ASSUME eval' # Idle PROVE EarlierGate(eval.base)' /\ ResultOf(eval.base)'
    OBVIOUS
  <2>1. ~PatchWritten
    BY <1>2
  <2>2. \A x \in GateOf : x = eval'.base /\ EarlierGate(x)' /\ ResultOf(x)'
                            => EarlierGate(eval.base)' /\ ResultOf(eval.base)'
    <3>1. \A x : x = eval'.base /\ EarlierGate(x)' => EarlierGate(eval.base)'
      BY DEF EarlierGate
    <3>2. \A x : x = eval'.base /\ ResultOf(x)' => ResultOf(eval.base)'
      BY DEF ResultOf, Decides, ToRecord, EntriesOf, findActiveOverride, InEffect
    <3> QED BY <3>1, <3>2
  <2>3. CASE eval # Idle /\ eval'.base = eval.base
    <3>1. \A x \in GateOf : x = eval.base => EarlierGate(x)' /\ ResultOf(x)'
      BY <1>3, <2>1, <2>3 DEF EndsKept
    <3> QED BY <1>0, <2>2, <2>3, <3>1
  <2>4. CASE eval'.base = gcache
    BY <1>0, <1>4, <2>2, <2>4
  <2>5. CASE RecordWritten
    <3>1. eval'.base = gate'
      BY <2>5 DEF RecordWritten
    <3> QED BY <1>1, <3>1 DEF EarlierGate, ResultOf, Decides, ToRecord, EntriesOf, findActiveOverride, InEffect
  <2> QED BY <2>3, <2>4, <2>5, CopyShape
<1>7. eval' # Idle => eval'.base.gen <= gcache'.gen
  <2> SUFFICES ASSUME eval' # Idle PROVE eval'.base.gen <= gcache'.gen
    OBVIOUS
  <2>0. gate.gen \in Nat /\ gcache.gen \in Nat
    BY <1>0 DEF GateOf
  <2>1. gcache.gen <= gcache'.gen
    BY <2>0, CopyShape DEF EndsKept, EarlierGate
  <2>2. CASE eval # Idle /\ eval'.base = eval.base
    <3>1. eval.base.gen \in Nat /\ eval.base.gen <= gcache.gen /\ gcache'.gen \in Nat
      BY <1>0, <2>2 DEF EndsKept, GateOf
    <3> QED BY <2>0, <2>1, <2>2, <3>1
  <2>3. CASE eval'.base = gcache
    BY <2>1, <2>3
  <2>4. CASE RecordWritten /\ UNCHANGED gcache
    <3>1. eval'.base.gen = gate.gen /\ eval # Idle /\ gate = eval.base
      BY <2>4 DEF RecordWritten
    <3> QED BY <2>1, <2>4, <3>1 DEF EndsKept
  <2> QED BY <2>2, <2>3, <2>4, CopyShape
<1>8. DecidedByList'
  <2>1. CASE Decide
    BY <2>1, DecisionByList
  <2>2. CASE UNCHANGED eval
    BY <2>2 DEF EndsKept, DecidedByList, Decides, ToRecord, EntriesOf, findActiveOverride, InEffect
  <2>3. CASE eval'.at # "decided"
    BY <2>3 DEF DecidedByList
  <2> QED BY <2>1, <2>2, <2>3, CopyShape
<1> QED BY <1>1, <1>5, <1>6, <1>7, <1>8 DEF EndsKept

\* A skipped write leaves a result that the list still decides, and the record of its override.
LEMMA SkippedIsSame ==
    ASSUME TypeOK, ClockAhead, ReadWhenWritten, EndsKept, RecordsKept, eval.at = "decided", eval # Idle,
           unchangedResult(eval), gate.by \in Overrides
    PROVE  eval.by = gate.by /\ gate.recs[gate.by] = eval.base.recs[eval.by]
<1> DEFINE c == eval.base
<1>0. /\ c \in GateOf /\ now \in Nat /\ gate.read \in Nat /\ c.read \in Nat
  BY PolicyGateAssumption DEF TypeOK, EvalOf, GateOf, Stamp, Times
<1>1. c.seen = c.gen /\ c.by = eval.by
  BY DEF unchangedResult
<1>2. /\ findActiveOverride(c, c.read) = {eval.by} \cap Overrides
      /\ findActiveOverride(c, gate.read) = {gate.by} \cap Overrides
      /\ findActiveOverride(c, eval.read) = {eval.by} \cap Overrides
      /\ c.read <= gate.read /\ gate.read <= eval.read /\ eval.read \in Nat
  BY <1>1, DecisionAfterResult DEF EndsKept, ResultOf, DecidedByList, Decides
<1>3. findActiveOverride(c, gate.read) = findActiveOverride(c, eval.read)
  <2> HIDE DEF c
  <2> QED BY <1>0, <1>2, DecidedBetween
<1>4. eval.by = gate.by
  BY <1>2, <1>3
<1>5. c.recs[eval.by] # Never
  BY <1>4 DEF RecordsKept
<1> QED BY <1>4, <1>5 DEF EndsKept, EarlierGate

\* The end of the override that passes the gate stays noticed.
LEMMA EndNoticedStep ==
    ASSUME TypeOK, ClockAhead, ReadWhenWritten, EndsKept, RecordsKept, OverrideWithinCap,
           OverrideEndNoticed, [Next]_vars
    PROVE  OverrideEndNoticed'
<1>0. /\ gate.gen \in Nat /\ gcache.gen \in Nat /\ timer \in Nat /\ now \in Nat
      /\ gate \in GateOf
  BY DEF TypeOK, GateOf, Times
<1>1. CASE Begin
  <2>1. eval' # Idle
    BY <1>1 DEF Begin, Idle
  <2> QED BY <2>1 DEF OverrideEndNoticed
<1>2. CASE recordOverrides
  <2>1. Conflict \/ RecordWritten
    BY <1>2, RecordShape
  <2>2. queued' \/ eval' # Idle
    BY <2>1 DEF Conflict, RecordWritten, Idle
  <2> QED BY <2>2 DEF OverrideEndNoticed
<1>3. CASE SkipSettled
  BY <1>3 DEF SkipSettled, world, OverrideEndNoticed
<1>4. CASE Decide
  <2>1. eval' # Idle
    BY <1>4, Decision DEF DecidedFromBase, Idle
  <2> QED BY <2>1 DEF OverrideEndNoticed
<1>5. CASE patchStatus
  <2>1. /\ eval.at = "decided" /\ eval # Idle /\ UNCHANGED gcache
        /\ Conflict \/ PatchWritten \/ PatchSkipped
    BY <1>5, PatchShape
  <2>2. CASE Conflict
    BY <2>2 DEF Conflict, OverrideEndNoticed
  <2>3. SUFFICES ASSUME gate'.by \in Overrides, PatchWritten \/ PatchSkipped
                 PROVE  timer' <= overrideEnd(gate'.by, gate'.recs[gate'.by]) + 1 + EvalTime
    BY <2>1, <2>2 DEF OverrideEndNoticed, overrideEnd, Earlier
  <2>4. gate'.by = eval.by /\ gate'.recs[gate'.by] = eval.base.recs[eval.by]
    <3>1. CASE PatchWritten
      BY <3>1 DEF PatchWritten
    <3>2. CASE PatchSkipped
      BY <2>1, <2>3, <3>2, SkippedIsSame DEF PatchSkipped
    <3> QED BY <2>3, <3>1, <3>2
  <2>5. /\ eval.read + eval.wait <= overrideEnd(eval.by, eval.base.recs[eval.by]) + 1
        /\ now <= eval.read + EvalTime
    BY <2>1, <2>3, <2>4 DEF EndsKept, DecidedByList, ReadWhenWritten
  <2>6. /\ eval.wait \in Nat /\ eval.read \in Nat /\ EvalTime \in Nat
        /\ overrideEnd(eval.by, eval.base.recs[eval.by]) \in Nat
    <3>1. eval.wait \in Nat /\ eval.read \in Nat /\ EvalTime \in Nat /\ eval.base \in GateOf
      BY <2>1, PolicyGateAssumption DEF TypeOK, EvalOf, Idle, Times
    <3>2. eval.base.recs[eval.by] \in Nat
      BY <2>3, <2>4, <3>1, PolicyGateAssumption DEF GateOf, Stamp, Times
    <3> QED BY <2>3, <2>4, <3>1, <3>2, EndIsATime
  <2>7. timer' <= now + eval.wait
    BY <1>0, <2>3, <2>6 DEF PatchWritten, PatchSkipped, Earlier
  <2>8. timer' \in Nat
    BY TypeStep DEF TypeOK
  <2> QED BY <1>0, <2>4, <2>5, <2>6, <2>7, <2>8
<1>6. CASE EditOverrides
  <2>1. gcache'.gen # gate'.gen
    BY <1>0, <1>6 DEF EditOverrides, EndsKept, EarlierGate, GateOf
  <2> QED BY <2>1 DEF OverrideEndNoticed
<1>7. CASE Restart \/ TimerFires
  BY <1>7 DEF Restart, TimerFires, OverrideEndNoticed
<1>8. CASE SyncGate
  <2>1. queued \/ gcache.gen # gate.gen => queued'
    BY <1>8 DEF SyncGate
  <2> QED BY <1>8, <2>1 DEF SyncGate, world, OverrideEndNoticed, overrideEnd
<1>9. CASE FactChanges
  <2>1. queued => queued'
    BY <1>9 DEF FactChanges
  <2> QED BY <1>9, <2>1 DEF FactChanges, OverrideEndNoticed, overrideEnd
<1>10. CASE SyncStep
  <2>1. queued => queued'
    BY <1>10 DEF SyncStep
  <2> QED BY <1>10, <2>1 DEF SyncStep, world, OverrideEndNoticed, overrideEnd
<1>11. CASE BundleSettles
  BY <1>11 DEF BundleSettles, OverrideEndNoticed
<1>12. CASE Hold \/ Pass \/ Start \/ CancelUnstarted \/ GraphDecides \/ GraphCreates \/ DeleteStep
            \/ Tick \/ UNCHANGED vars
  <2>1. UNCHANGED <<settled, gate, gcache, queued, timer, eval>>
    BY <1>12 DEF Hold, Pass, Start, CancelUnstarted, GraphDecides, GraphCreates, DeleteStep, Tick,
       vars, world, gateSide
  <2> QED BY <2>1 DEF OverrideEndNoticed, overrideEnd
<1> QED BY <1>1, <1>2, <1>3, <1>4, <1>5, <1>6, <1>7, <1>8, <1>9, <1>10, <1>11, <1>12 DEF Next

-----------------------------------------------------------------------------
(* The theorems. *)

LEMMA InitGate == ASSUME Init PROVE GateInv
<1>1. TypeOK
  <2>1. gate \in GateOf /\ first \in [Overrides -> Stamp]
    BY PolicyGateAssumption DEF Init, GateOf, Stamp
  <2>2. step \in StepOf
    BY DEF Init, NoStep, StepOf, Stamp, Times
  <2> QED BY <2>1, <2>2, PolicyGateAssumption DEF Init, TypeOK, EvalOf, JobOf, Times, Stamp
<1>2. ClockAhead
  BY PolicyGateAssumption DEF Init, NoStep, ClockAhead, Budget
<1>3. OverrideWithinCap /\ RecordsKept
  BY PolicyGateAssumption DEF Init, OverrideWithinCap, RecordsKept, Idle
<1>4. EndsKept
  <2>1. gate.seen # gate.gen /\ gcache = gate /\ eval = Idle /\ gate.seen = 0 /\ gate.gen = 1
    BY DEF Init
  <2> QED BY <2>1 DEF EndsKept, EarlierGate, ResultOf, DecidedByList, Idle
<1>5. OverrideEndNoticed
  BY DEF Init, OverrideEndNoticed
<1> QED BY <1>1, <1>2, <1>3, <1>4, <1>5
        DEF Init, GateInv, ReadWhenWritten, CopiesOfGate, NotNewer, CopiesOfStep, EarlierStep,
            JobIsFresh, FreshVerdict, ResultIsComing, NoStep, Idle, WrittenInTime

\* What holds of every state of a gate and its step, for any overrides, intervals and budgets: the
\* inductive invariant.
THEOREM GateCorrect == Spec => []GateInv
<1>1. Init => GateInv
  BY InitGate
<1>2. GateInv /\ [Next]_vars => GateInv'
  BY TypeStep, ClockStep, ReadStep, CopiesStep, StepCopiesStep, JobStep, FreshStep, RecordsStep,
     ComingStep, EndsStep, EndNoticedStep DEF GateInv
<1> QED BY <1>1, <1>2, PTL DEF Spec

\* Every variable keeps its type.
THEOREM TypeCorrect == Spec => []TypeOK
<1>1. GateInv => TypeOK BY DEF GateInv
<1> QED BY <1>1, GateCorrect, PTL

\* A step that was created once starts only on facts read at most one evaluation before it was
\* created, however the caches lag and the clock, the evaluations, the restarts and the Graph
\* interleave.
THEOREM StartsFresh == Spec => []FreshVerdict
<1>1. GateInv => FreshVerdict BY DEF GateInv
<1> QED BY <1>1, GateCorrect, PTL

\* No wake-up of the gate is lost: a Pending step never waits for a result that nobody writes.
THEOREM NoLostWakeup == Spec => []ResultIsComing
<1>1. GateInv => ResultIsComing BY DEF GateInv
<1> QED BY <1>1, GateCorrect, PTL

\* No override passes the gate past its expiry or its cap, counted from its first sight, whatever
\* is removed and added again and however stale the copies are that reconciles read.
THEOREM CapCorrect == Spec => []OverrideWithinCap
<1>1. GateInv => OverrideWithinCap BY DEF GateInv
<1> QED BY <1>1, GateCorrect, PTL

\* The end of an override is noticed when it comes, not at the next recheck, whichever entries of
\* the list end first, are edited or are reordered, and whatever unchanged result is not written.
THEOREM EndIsNoticed == Spec => []OverrideEndNoticed
<1>1. GateInv => OverrideEndNoticed BY DEF GateInv
<1> QED BY <1>1, GateCorrect, PTL
=============================================================================
