----------------------------- MODULE PolicyGate -----------------------------
(***************************************************************************)
(* One PolicyGate instance and the Pending PromotionStep that requires it. *)
(* The PolicyGate reconciler evaluates the gate when a fact it reads       *)
(* changes, when its recheck is due and when a step that requires it       *)
(* appears; it skips a write that would change nothing anyone waits for.   *)
(* The step reconciler starts the step only on a ready result that is not  *)
(* older than the step.  Each reads informer caches that lag the API       *)
(* server, the clock goes on while an evaluation has its facts and has not *)
(* written its result, the controller may restart, and the Graph may       *)
(* delete a Pending step and create it again.                              *)
(*                                                                         *)
(* Time is in seconds, the precision of the stored timestamps.  What the   *)
(* expression, the approvals, the verdicts and a hold's exemption decide   *)
(* together is one fact: "pass", "block" or "error" (the context cannot be *)
(* built or the evaluation fails).  The audit records are GateAudit's.     *)
(***************************************************************************)
EXTENDS Naturals, FiniteSets, Sequences

CONSTANTS
    Budgets,     \* bounds: a behaviour has one of these budgets
    Heartbeat,   \* StatusHeartbeat, in seconds
    Recheck,     \* spec.recheckInterval, in seconds
    Overrides,   \* the override entries people write
    Lists,       \* the lists of them that spec.overrides can be
    Expires,     \* each entry's expiresAt
    Ahead,       \* the entries dated more than the clock skew ahead
    Agents,      \* the entries made by agents, or for another stage
    Cap,         \* MaxOverride, in seconds
    EvalTime,    \* bound: the seconds from an evaluation's reads to its write
    MaxRecords,  \* maxOverrideRecords
    Never        \* no time: after every time of a behaviour

\* Seconds, creations of the step, changes of the fact, edits of spec.overrides, restarts.
Budget == [time : Nat, steps : Nat, flips : Nat, edits : Nat, restarts : Nat]

ASSUME PolicyGateAssumption ==
    /\ Budgets \subseteq Budget /\ {MaxRecords, EvalTime} \subseteq Nat
    /\ {Heartbeat, Recheck, Cap} \subseteq Nat \ {0}
    /\ Expires \in [Overrides -> Nat] /\ Ahead \subseteq Overrides /\ Agents \subseteq Overrides
    /\ Lists \subseteq Seq(Overrides) /\ <<>> \in Lists
    /\ \A l \in Lists : \A i, j \in DOMAIN l : l[i] = l[j] => i = j
    /\ Overrides \cap {"pass", "block", "error", "none"} = {}
    /\ Never \in Nat /\ \A b \in Budgets : b.time + Recheck < Never

Times == Nat
Stamp == Times \cup {Never}
Facts == {"pass", "block", "error"}

VARIABLES
    now,      \* the clock
    fact,     \* what the gate's context decides
    left,     \* what is left of the budget
    settled,  \* the Bundle is Superseded, Rejected or finished
    gate,     \* the PolicyGate in the API server
    gcache,   \* the informer's copy of it
    queued,   \* the gate is in the PolicyGate workqueue
    timer,    \* when its delayed request is due
    eval,     \* the PolicyGate reconcile in flight
    decided,  \* when the Graph decided to create the step, Never when it has not
    step,     \* the PromotionStep in the API server
    scache,   \* the informer's copy of it
    job,      \* the step reconcile that is about to write Promoting
    first     \* history: when a reconcile first recorded each override

vars == <<now, fact, left, settled, gate, gcache, queued, timer, eval,
          decided, step, scache, job, first>>
world    == <<fact, left, settled>>
gateSide == <<gate, gcache, queued, timer, eval, first>>
stepSide == <<decided, step, scache, job>>

Idle == [at |-> "idle"]

\* "gen" is the generation, "seen" the one of the stored result; "read" is history: when the
\* facts of that result were read.
GateOf == [ready : BOOLEAN, by : Facts \cup {"none"} \cup Overrides, last : Stamp, read : Stamp,
           gen : Nat, seen : Nat, ovs : Lists, recs : [Overrides -> Stamp]]
\* "inc" numbers the step's creations; "wanted" and "used" are history: when the Graph decided
\* to create it, and the read of the result it started on.
StepOf == [inc : Nat, st : {"absent", "Pending", "Promoting", "Failed"}, created : Times,
           msg : {"none", "blocked", "stale"}, wanted : Stamp, used : Stamp]

EvalOf == {Idle} \cup [at : {"begun"}, base : GateOf]
            \cup [at : {"decided"}, base : GateOf, by : Facts \cup Overrides, ready : BOOLEAN,
                  read : Times, wait : Nat]
JobOf == {Idle} \cup [at : {"start"}, base : StepOf, used : Times]

TypeOK ==
    /\ now \in Times /\ fact \in Facts /\ left \in Budget
    /\ settled \in BOOLEAN /\ decided \in Stamp /\ queued \in BOOLEAN
    /\ gate \in GateOf /\ gcache \in GateOf /\ step \in StepOf /\ scache \in StepOf
    /\ timer \in Nat /\ eval \in EvalOf /\ job \in JobOf
    /\ first \in [Overrides -> Stamp]

-----------------------------------------------------------------------------
(* Overrides.                                                              *)

Earlier(a, b) == IF a < b THEN a ELSE b

\* An override counts until it expires or the cap from its first sight is reached.
overrideEnd(o, firstSeen) == Earlier(Expires[o], firstSeen + Cap)

\* Only a recorded entry counts, never a future-dated one or an agent's.
InEffect(g, o, t) ==
    /\ g.recs[o] # Never
    /\ o \notin Ahead /\ o \notin Agents
    /\ t < overrideEnd(o, g.recs[o])

\* The first entry of the list that counts, if there is one.
findActiveOverride(g, t) ==
    {g.ovs[i] : i \in {j \in DOMAIN g.ovs :
        InEffect(g, g.ovs[j], t) /\ \A k \in 1 .. j - 1 : ~InEffect(g, g.ovs[k], t)}}

Recorded(recs) == {o \in Overrides : recs[o] # Never}
EntriesOf(g) == {g.ovs[i] : i \in DOMAIN g.ovs}

\* The entries that get a record: the new ones of the list, in its order, while there is room.
ToRecord(g) ==
    LET new  == {o \in EntriesOf(g) : g.recs[o] = Never}
        room == MaxRecords - Cardinality(Recorded(g.recs))
    IN  {S \in SUBSET new :
          /\ Cardinality(S) = Earlier(Cardinality(new), room)
          /\ \A i, j \in DOMAIN g.ovs : i < j /\ g.ovs[i] \in new /\ g.ovs[j] \in S => g.ovs[i] \in S}

\* Mutant: the record of an entry that was removed is dropped.
RecordsOfSpec(g, t) ==
    {[o \in Overrides |->
        IF o \in EntriesOf(g) THEN (IF g.recs[o] = Never THEN t ELSE g.recs[o]) ELSE Never]}

\* The records after a reconcile at time t: no record is ever dropped.
NewRecords(g, t) == {[o \in Overrides |-> IF o \in S THEN t ELSE g.recs[o]] : S \in ToRecord(g)}

-----------------------------------------------------------------------------
(* The PolicyGate reconciler.                                              *)

\* Mutant: an evaluation asks for no recheck.
AddNothing(t) == UNCHANGED timer

\* Workqueue: a delayed request keeps the earliest time asked for.
AddAfter(t) == timer' = Earlier(timer, t)

\* A status patch carries the version it was read at.  A lost one evaluates again.
Conflict == /\ gate # eval.base /\ eval' = Idle /\ queued' = TRUE
            /\ UNCHANGED <<gate, timer, first>>

\* A worker takes the request and reads the gate from the cache.
Begin ==
    /\ queued /\ eval = Idle
    /\ queued' = FALSE /\ eval' = [at |-> "begun", base |-> gcache]
    /\ UNCHANGED <<now, world, gate, gcache, timer, first, stepSide>>

\* recordOverrides: the new entries' records are written first.
recordOverrides ==
    /\ eval.at = "begun"
    /\ \E recs \in NewRecords(eval.base, now) :
         /\ recs # eval.base.recs
         /\ \/ Conflict
            \/ /\ gate = eval.base
               /\ gate' = [gate EXCEPT !.recs = recs] /\ eval' = [eval EXCEPT !.base = gate']
               /\ first' = [o \in Overrides |-> IF first[o] = Never THEN recs[o] ELSE first[o]]
               /\ UNCHANGED <<queued, timer>>
    /\ UNCHANGED <<now, world, gcache, stepSide>>

\* The gate of a settled Bundle is left as it is.
SkipSettled ==
    /\ eval.at = "begun" /\ NewRecords(eval.base, now) = {eval.base.recs}
    /\ settled /\ eval' = Idle
    /\ UNCHANGED <<now, world, gate, gcache, queued, timer, first, stepSide>>

\* Mutant: the end of an override is left to the recheck.
DecideRechecksOnly ==
    /\ eval.at = "begun" /\ NewRecords(eval.base, now) = {eval.base.recs} /\ ~settled
    /\ LET active == findActiveOverride(eval.base, now)
           verdict(by, ready, wait) ==
               eval' = [at |-> "decided", base |-> eval.base, by |-> by, ready |-> ready,
                        read |-> now, wait |-> wait]
       IN  \/ \E o \in active : verdict(o, TRUE, Recheck)
           \/ active = {} /\ verdict(fact, fact = "pass", Recheck)
    /\ UNCHANGED <<now, world, gate, gcache, queued, timer, first, stepSide>>

\* The verdict: an override in effect passes the gate without reading anything,
\* and ends the wait when it does; otherwise the facts decide.
Decide ==
    /\ eval.at = "begun" /\ NewRecords(eval.base, now) = {eval.base.recs} /\ ~settled
    /\ LET active == findActiveOverride(eval.base, now)
           verdict(by, ready, wait) ==
               eval' = [at |-> "decided", base |-> eval.base, by |-> by, ready |-> ready,
                        read |-> now, wait |-> wait]
       IN  \/ \E o \in active :
                verdict(o, TRUE, Earlier(Recheck, overrideEnd(o, eval.base.recs[o]) - now + 1))
           \/ active = {} /\ verdict(fact, fact = "pass", Recheck)
    /\ UNCHANGED <<now, world, gate, gcache, queued, timer, first, stepSide>>

\* Mutant: no step is ever waiting for a newer result.
NobodyWaits(g) == FALSE

\* A step that has not started, as the cache has it, is newer than the stored result.
freshResultWanted(g) == scache.st = "Pending" /\ g.last < scache.created

unchangedResult(e) ==
    /\ e.base.last # Never /\ e.base.ready = e.ready /\ e.base.by = e.by
    /\ now - e.base.last < Heartbeat
    /\ e.base.seen = e.base.gen
    /\ ~freshResultWanted(e.base)

\* patchStatusWith, and the requeue that ends the reconcile.
patchStatus ==
    /\ eval.at = "decided"
    /\ \/ ~unchangedResult(eval) /\ Conflict
       \/ /\ \/ unchangedResult(eval) /\ UNCHANGED gate
             \/ /\ ~unchangedResult(eval) /\ gate = eval.base
                /\ gate' = [gate EXCEPT !.ready = eval.ready, !.by = eval.by, !.last = now,
                                        !.read = eval.read, !.seen = gate.gen]
          /\ eval' = Idle /\ AddAfter(now + eval.wait) /\ UNCHANGED <<queued, first>>
    /\ UNCHANGED <<now, world, gcache, stepSide>>

-----------------------------------------------------------------------------
(* The step reconciler, on a Pending step.                                 *)

\* Mutant: any ready result starts the step.
ChecksReadyOnly == IF ~gcache.ready THEN "blocked" ELSE "none"

\* Why the step may not start, or "none".
checkRequiredGates ==
    CASE ~gcache.ready -> "blocked"
      [] gcache.last = Never \/ gcache.last < scache.created -> "stale"
      [] OTHER -> "none"

\* A held step only says what it waits for, over whatever step is stored now, and
\* polls again (requeueGateWait).
Hold ==
    /\ scache.st = "Pending" /\ job = Idle /\ ~settled
    /\ checkRequiredGates \notin {"none", scache.msg}
    /\ step' = IF step.st = "absent" THEN step ELSE [step EXCEPT !.msg = checkRequiredGates]
    /\ UNCHANGED <<now, world, gateSide, decided, scache, job>>

\* handlePending decides to start the step ...
Pass ==
    /\ scache.st = "Pending" /\ job = Idle /\ ~settled
    /\ checkRequiredGates = "none"
    /\ job' = [at |-> "start", base |-> scache, used |-> gcache.read]
    /\ UNCHANGED <<now, world, gateSide, decided, step, scache>>

\* ... and patchStatusLocked writes Promoting.  A refused patch is written again over
\* the stored step when its status is the one that was read, whatever its UID.
Start ==
    /\ job # Idle /\ job' = Idle
    /\ step' = IF step.st = "Pending" /\ step.msg = job.base.msg
               THEN [step EXCEPT !.st = "Promoting", !.msg = "none", !.used = job.used]
               ELSE step
    /\ UNCHANGED <<now, world, gateSide, decided, scache>>

\* The steps of a halted Bundle are cancelled from the stored copy.
CancelUnstarted ==
    /\ settled /\ step.st = "Pending" /\ scache.st = "Pending" /\ job = Idle
    /\ step' = [step EXCEPT !.st = "Failed", !.msg = "none"]
    /\ UNCHANGED <<now, world, gateSide, decided, scache, job>>

-----------------------------------------------------------------------------
(* Everyone else: the Graph, people, the caches, the clock, a restart.     *)

NoStep == [inc |-> 0, st |-> "absent", created |-> 0, msg |-> "none",
           wanted |-> Never, used |-> Never]

\* kro sees the gate ready and decides to create the step ...
GraphDecides ==
    /\ gate.ready /\ decided = Never /\ step.st = "absent" /\ left.steps > 0 /\ ~settled
    /\ decided' = now
    /\ UNCHANGED <<now, world, gateSide, step, scache, job>>

\* ... and creates it.
GraphCreates ==
    /\ decided # Never /\ decided' = Never /\ left.steps > 0
    /\ step' = [NoStep EXCEPT !.inc = step.inc + 1, !.st = "Pending", !.created = now,
                              !.wanted = decided]
    /\ left' = [left EXCEPT !.steps = @ - 1]
    /\ UNCHANGED <<now, fact, settled, gateSide, scache, job>>

\* A step that has not started holds no finalizer: deleting it removes it at once.
DeleteStep ==
    /\ step.st = "Pending" /\ left.steps > 0
    /\ step' = [NoStep EXCEPT !.inc = step.inc]
    /\ UNCHANGED <<now, world, gateSide, decided, scache, job>>

\* The fact changes.  A watched object (a MetricCheck, a ChangeWindow, a ChangeRequest)
\* wakes the gate; the time of day does not.
FactChanges ==
    /\ left.flips > 0 /\ left' = [left EXCEPT !.flips = @ - 1]
    /\ fact' \in Facts \ {fact}
    /\ queued' \in {queued, TRUE}
    /\ UNCHANGED <<now, settled, gate, gcache, timer, eval, first, stepSide>>

\* Someone adds, removes or reorders overrides.
EditOverrides ==
    /\ left.edits > 0 /\ left' = [left EXCEPT !.edits = @ - 1]
    /\ \E l \in Lists \ {gate.ovs} : gate' = [gate EXCEPT !.ovs = l, !.gen = gate.gen + 1]
    /\ UNCHANGED <<now, fact, settled, gcache, queued, timer, eval, first, stepSide>>

BundleSettles ==
    /\ ~settled /\ settled' = TRUE
    /\ UNCHANGED <<now, fact, left, gateSide, stepSide>>

\* The gate's own status writes do not wake it, an edit of its spec does.
SyncGate ==
    /\ gcache # gate /\ gcache' = gate
    /\ queued' = (queued \/ gate.gen # gcache.gen)
    /\ UNCHANGED <<now, world, gate, timer, eval, first, stepSide>>

\* The create event of a step that has not started wakes the gates it requires.
SyncStep ==
    /\ scache # step /\ scache' = step
    /\ queued' = (queued \/ (step.inc # scache.inc /\ step.st = "Pending"))
    /\ UNCHANGED <<now, world, gate, gcache, timer, eval, first, decided, step, job>>

\* A request that is due.  At the bound of the clock every armed one is.
TimerFires ==
    /\ timer # Never /\ (timer <= now \/ now = left.time)
    /\ timer' = Never /\ queued' = TRUE
    /\ UNCHANGED <<now, world, gate, gcache, eval, first, stepSide>>

\* Time passes, also between an evaluation's reads and its write: for EvalTime at most.
Tick ==
    /\ now < left.time /\ now' = now + 1
    /\ eval.at = "decided" => now < eval.read + EvalTime
    /\ UNCHANGED <<world, gateSide, stepSide>>

\* The queue and the reconciles in flight are lost; the informers list everything again.
Restart ==
    /\ left.restarts > 0 /\ left' = [left EXCEPT !.restarts = @ - 1]
    /\ gcache' = gate /\ scache' = step
    /\ queued' = TRUE /\ timer' = Never /\ eval' = Idle /\ job' = Idle
    /\ UNCHANGED <<now, fact, settled, gate, first, decided, step>>

Init ==
    /\ now = 0 /\ fact \in Facts /\ left \in Budgets /\ settled = FALSE
    /\ gate = [ready |-> FALSE, by |-> "none", last |-> Never, read |-> Never, gen |-> 1, seen |-> 0,
               ovs |-> <<>>, recs |-> [o \in Overrides |-> Never]]
    /\ gcache = gate /\ queued = TRUE /\ timer = Never /\ eval = Idle
    /\ decided = Never /\ step = NoStep /\ scache = NoStep /\ job = Idle
    /\ first = [o \in Overrides |-> Never]

Next ==
    \/ Begin \/ recordOverrides \/ SkipSettled \/ Decide \/ patchStatus
    \/ Hold \/ Pass \/ Start \/ CancelUnstarted
    \/ GraphDecides \/ GraphCreates \/ DeleteStep
    \/ FactChanges \/ EditOverrides \/ BundleSettles
    \/ SyncGate \/ SyncStep \/ TimerFires \/ Tick \/ Restart

Spec == Init /\ [][Next]_vars

\* Workers run, caches catch up, delayed requests come due and time passes.
Fairness ==
    /\ WF_vars(Begin) /\ WF_vars(recordOverrides) /\ WF_vars(SkipSettled) /\ WF_vars(Decide)
    /\ WF_vars(patchStatus) /\ WF_vars(Hold) /\ WF_vars(Pass) /\ WF_vars(Start)
    /\ WF_vars(SyncGate) /\ WF_vars(SyncStep) /\ WF_vars(TimerFires) /\ WF_vars(Tick)

LiveSpec == Spec /\ Fairness

-----------------------------------------------------------------------------
(* Properties.                                                             *)

\* A step that was created once starts only on a result whose facts were read at most one
\* evaluation before the step was created: lastEvaluatedAt, which checkRequiredGates compares
\* with the creation, is stamped at the write, so no fact is older than the longest
\* evaluation, however the caches lag and unchanged results go unwritten.
FreshVerdict ==
    step.st = "Promoting" /\ step.inc = 1 =>
        step.used # Never /\ step.used + EvalTime >= step.created

\* The comment on checkRequiredGates: "A result written at or after the step's creation was
\* computed after the Graph decided to create the step, so it is fresh for this step."  The
\* facts a step starts on would then not be older than the Graph's decision to create it.
ComputedAfterDecision ==
    step.st = "Promoting" /\ step.inc = 1 => step.used >= step.wanted

\* No lost wake-up: while a Pending step is newer than the gate's stored result, the gate
\* is queued or being evaluated, or its create event is still to be delivered.  The skipped
\* write of an unchanged result and the lagging caches must not leave the step to wait for
\* the gate's next recheck (freshResultWanted, unstartedStepCreated).
ResultIsComing ==
    (step.st = "Pending" /\ ~settled /\ gate.last < step.created)
        => queued \/ eval # Idle \/ scache.inc # step.inc

\* An override passes the gate only before its expiry and before the cap counted from the
\* first time it was ever seen, whatever was removed, added again, or read from a stale
\* cache; an agent's or a future-dated one never does (recordOverrides, findActiveOverride).
OverrideWithinCap ==
    gate.by \in Overrides =>
        /\ gate.by \notin Agents \cup Ahead /\ first[gate.by] # Never
        /\ gate.read < Earlier(Expires[gate.by], first[gate.by] + Cap)

\* The end of an override is noticed when it comes, not at the next recheck: a gate that an
\* override passes is queued, being evaluated, about to be synced or due right after the end
\* (the requeue counts from the evaluation's last step, so up to EvalTime later).
OverrideEndNoticed ==
    (gate.by \in Overrides /\ ~settled) =>
        \/ queued \/ eval # Idle \/ gcache.gen # gate.gen
        \/ timer <= overrideEnd(gate.by, gate.recs[gate.by]) + 1 + EvalTime

\* While the Bundle promotes and the facts stay passing, a Pending step starts, or is deleted.
PendingStepStarts ==
    <>[](fact = "pass" /\ ~settled) => (step.st = "Pending" ~> step.st # "Pending")

-----------------------------------------------------------------------------
(* Why the step starts on a fresh verdict, as an inductive invariant.      *)

\* Nothing is dated after the clock, and the clock never reaches Never.
ClockAhead ==
    /\ now <= left.time /\ left.time + Recheck < Never
    /\ step.created <= now
    /\ gate.last # Never => gate.last <= now

\* A result is written after its facts were read, and within EvalTime.
WrittenInTime(g) ==
    IF g.last = Never THEN g.read = Never
    ELSE g.read # Never /\ g.read <= g.last /\ g.last <= g.read + EvalTime

ReadWhenWritten ==
    /\ WrittenInTime(gate) /\ WrittenInTime(gcache)
    /\ eval.at = "decided" =>
        /\ eval.read <= now /\ now <= eval.read + EvalTime
        /\ gate.read = Never \/ gate.read <= eval.read

\* A copy of the gate has no newer result than the gate.
NotNewer(g) == g.last = Never \/ (gate.last # Never /\ g.last <= gate.last)
CopiesOfGate == NotNewer(gcache) /\ (eval # Idle => NotNewer(eval.base))

\* b is the stored step, of an earlier time, or a step that is gone.
EarlierStep(b) ==
    /\ b.inc <= step.inc
    /\ b.inc = step.inc /\ step.st # "absent" => b.created = step.created

\* The cache has the step that is stored, of an earlier time, or one that is gone.
CopiesOfStep ==
    /\ step.st # "absent" => step.inc > 0
    /\ scache.st # "absent" => scache.inc > 0
    /\ EarlierStep(scache)
    /\ scache.inc = step.inc /\ step.st = "Pending" => scache.st = "Pending"
    /\ decided # Never => step.st = "absent"

\* The result that a start relies on is not older than the step that was read.
JobIsFresh ==
    job # Idle =>
        /\ job.base.inc > 0 /\ EarlierStep(job.base)
        /\ job.used # Never /\ job.used + EvalTime >= job.base.created

\* The overrides' records are the first ones, and a decision for one was made before its end.
RecordsKept ==
    /\ gate.recs = first
    /\ eval.at = "decided" /\ eval.by \in Overrides =>
        /\ eval.by \notin Agents \cup Ahead /\ eval.base.recs[eval.by] # Never
        /\ eval.read < overrideEnd(eval.by, eval.base.recs[eval.by])

\* What a copy of the gate still tells of it: a result is stored for a generation that the
\* cache had, and records stay.
EarlierGate(c) ==
    /\ c.seen <= gate.seen /\ gate.seen <= c.gen /\ c.gen <= gate.gen
    /\ c.gen = gate.gen => c.ovs = gate.ovs
    /\ \A o \in Overrides : c.recs[o] # Never => gate.recs[o] = c.recs[o]

\* by is what the overrides of c decide at time t, or they leave it to the facts.
Decides(c, by, t) == findActiveOverride(c, t) = {by} \cap Overrides

\* The list of a copy whose result is its generation's has its records, and it decided its
\* own result and the one stored now.
ResultOf(c) ==
    c.seen = c.gen =>
        /\ ToRecord(c) = {{}}
        /\ c.gen = gate.gen => c.recs = gate.recs
        /\ Decides(c, c.by, c.read) /\ Decides(c, gate.by, gate.read)
        /\ c.read <= gate.read /\ gate.read <= now

DecidedByList ==
    eval.at = "decided" =>
        /\ ToRecord(eval.base) = {{}} /\ Decides(eval.base, eval.by, eval.read)
        /\ eval.by \in Overrides =>
             eval.read + eval.wait <= overrideEnd(eval.by, eval.base.recs[eval.by]) + 1

EndsKept ==
    /\ eval # Idle => eval.base.gen <= gcache.gen
    /\ EarlierGate(gate) /\ EarlierGate(gcache) /\ (eval # Idle => EarlierGate(eval.base))
    /\ ResultOf(gate) /\ ResultOf(gcache) /\ (eval # Idle => ResultOf(eval.base))
    /\ DecidedByList

GateInv ==
    /\ TypeOK /\ ClockAhead /\ ReadWhenWritten /\ CopiesOfGate /\ CopiesOfStep /\ JobIsFresh
    /\ RecordsKept /\ FreshVerdict /\ ResultIsComing /\ OverrideWithinCap
    /\ EndsKept /\ OverrideEndNoticed
=============================================================================
