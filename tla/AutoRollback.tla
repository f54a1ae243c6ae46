---------------------------- MODULE AutoRollback ----------------------------
(***************************************************************************)
(* The automatic rollbacks of one failing Bundle.  Two kinds of actors     *)
(* create them on their own: the steps of an environment with              *)
(* onHealthFailure=rollback ("alarm", one per region) and the              *)
(* environment's RollbackPolicy ("policy").  Nothing but the rollback      *)
(* Bundle's name, which is derived from the failing Bundle, coordinates    *)
(* them: they look an existing rollback up by its possible names, pick a   *)
(* free one, create it and record it.  All but one of those reads come     *)
(* from the informer cache, the environments run at once, and the          *)
(* controller may restart between any two steps.                           *)
(*                                                                         *)
(* Whether a step's consecutive failures reach a policy's threshold is one *)
(* Boolean, and what the rollback planner answers (a safe target exists)   *)
(* another.                                                                *)
(***************************************************************************)
EXTENDS Naturals, FiniteSets

CONSTANTS
    Envs,        \* environments the failing Bundle is in at once
    Regions,     \* regions (steps) of an environment
    Settings     \* the situations a behaviour may start in, each a record of Setting

\* sources:  the automatic paths in use
\* steps:    the steps of the failing Bundle
\* squatted: the name suffixes at which somebody else created a Bundle
\* faults:   a status patch may fail
\* restarts: the controller may restart
\* changes:  bound on changes of the failure counters and the planner's answer, and on restarts
Setting == [sources : SUBSET {"alarm", "policy"}, steps : SUBSET (Envs \X Regions),
            squatted : SUBSET ({"plain"} \cup Envs), faults : BOOLEAN, restarts : BOOLEAN,
            changes : Nat]

\* No environment has the name of a mark that the model uses beside environments.
ConstantsOK ==
    /\ IsFiniteSet(Envs) /\ IsFiniteSet(Regions) /\ Settings \subseteq Setting
    /\ Envs \cap {"plain", "free", "someone"} = {}

\* AutoRollbackName: <<source, "plain">>, or the environment's own name.
Sources == {"alarm", "policy"}
Names == Sources \X ({"plain"} \cup Envs)

None    == <<"none", "none">>
AlarmSteps == {<<"alarm", e, r>> : e \in Envs, r \in Regions}
Policies == {<<"policy", e, "policy">> : e \in Envs}
Actors  == AlarmSteps \cup Policies
EnvOf(a) == a[2]
Someone == "someone"    \* the environment of a Bundle that is not a rollback

VARIABLES
    setting,  \* the situation of this behaviour
    bundles,  \* name -> the environment its Bundle rolls back, Someone, or "free"
    bcache,   \* the informer's copy of it
    step,     \* step -> its state and the rollback it names
    over,     \* step -> its consecutive health failures reach the policies' threshold
    safe,     \* the environments the planner finds a safe target for
    changes,  \* counts the changes of over and safe and the restarts
    pol,      \* policy -> its status
    pcache,   \* the informer's copy of it
    queued,   \* the policies in the workqueue
    job       \* actor -> the reconcile in flight

vars == <<setting, bundles, bcache, step, over, safe, changes, pol, pcache, queued, job>>

Idle == [at |-> "idle"]
At(pc, name) == [at |-> pc, name |-> name]
Owners == Envs \cup {Someone, "free"}
PolicyOf == [should : BOOLEAN, name : Names \cup {None}, refused : BOOLEAN]

TypeOK ==
    /\ setting \in Settings
    /\ bundles \in [Names -> Owners] /\ bcache \in [Names -> Owners]
    /\ step \in [AlarmSteps -> [st : {"checking", "Verified", "RollingBack", "AbortedByAlarm"},
                           name : Names \cup {None}]]
    /\ over \in [Envs \X Regions -> BOOLEAN] /\ safe \subseteq Envs /\ changes \in 0..setting.changes
    /\ pol \in [Policies -> PolicyOf] /\ pcache \in [Policies -> PolicyOf]
    /\ queued \subseteq Policies
    /\ job \in [Actors -> {Idle} \cup
                         [at : {"find", "name", "create", "taken", "created", "refused"},
                          name : Names \cup {None}]]

-----------------------------------------------------------------------------
(* Finding and naming a rollback, from a copy of the Bundles.              *)

Plain(src)  == <<src, "plain">>
Own(src, e) == <<src, e>>

\* FindRollback: an automatic rollback of e at one of the names of either source.
FindRollback(copy, e) == {n \in Names : copy[n] = e}

\* Mutant: a name with any Bundle is taken, the rollback itself included.
NameUnused(copy, n, e) == copy[n] = "free"

\* rollbackNameFree: no Bundle has the name, or the one that has it is this rollback.
rollbackNameFree(copy, n, e) == copy[n] \in {"free", e}

\* AutoRollbackNameIn: the plain name, else the environment's own, else None: stop for a human.
AutoRollbackNameIn(copy, a) ==
    LET e == EnvOf(a)
    IN  IF rollbackNameFree(copy, Plain(a[1]), e) THEN Plain(a[1])
        ELSE IF rollbackNameFree(copy, Own(a[1], e), e) THEN Own(a[1], e) ELSE None

-----------------------------------------------------------------------------
(* The actors.                                                             *)

\* A failed health check starts the step's rollback.  The result is not stored: a
\* reconcile that ends early checks the health again.
StepAlarms(a) ==
    /\ "alarm" \in setting.sources /\ <<EnvOf(a), a[3]>> \in setting.steps
    /\ step[a].st = "checking" /\ job[a] = Idle
    /\ job' = [job EXCEPT ![a] = At("find", None)]
    /\ UNCHANGED <<setting, bundles, bcache, step, over, safe, changes, pol, pcache, queued>>

StepVerifies(a) ==
    /\ "alarm" \in setting.sources /\ <<EnvOf(a), a[3]>> \in setting.steps
    /\ step[a].st = "checking" /\ job[a] = Idle
    /\ step' = [step EXCEPT ![a].st = "Verified"]
    /\ UNCHANGED <<setting, bundles, bcache, over, safe, changes, pol, pcache, queued, job>>

Failing(p) == \E r \in Regions : over[<<EnvOf(p), r>>]

\* Mutant: below its threshold a policy is not triggered, whatever it started.
FailingOnly(p) == Failing(p)

\* Below the threshold a triggered policy stays triggered if its rollback exists.
Triggered(p) ==
    Failing(p) \/ (pcache[p].should /\ FindRollback(bcache, EnvOf(p)) # {})

\* The policy is evaluated and shouldRollback written: a merge patch of what changed
\* against the copy that was read.
EvaluatePolicy(p) ==
    LET rp == pcache[p]
    IN  /\ p \in queued /\ job[p] = Idle
        /\ \/ /\ rp.should /\ rp.name # None
              /\ queued' = queued \ {p} /\ UNCHANGED <<pol, job>>
           \/ /\ ~(rp.should /\ rp.name # None)
              /\ queued' = queued \ {p}
              /\ pol' = [pol EXCEPT ![p] =
                    [should  |-> IF rp.should # Triggered(p) THEN Triggered(p) ELSE pol[p].should,
                     name    |-> pol[p].name,
                     refused |-> IF rp.refused /\ ~Triggered(p) THEN FALSE ELSE pol[p].refused]]
              /\ job' = [job EXCEPT ![p] = IF pol'[p].should THEN At("find", None) ELSE Idle]
        /\ UNCHANGED <<setting, bundles, bcache, step, over, safe, changes, pcache>>

\* Where an attempt that failed goes: a policy is requeued, a step checks its health again.
Again(a) == /\ job' = [job EXCEPT ![a] = Idle]
            /\ queued' = IF a \in Policies THEN queued \cup {a} ELSE queued

Find(a) ==
    /\ job[a].at = "find"
    /\ LET found == FindRollback(bcache, EnvOf(a))
       IN  \/ \E n \in found : job' = [job EXCEPT ![a] = At("created", n)]
           \/ found = {} /\ job' = [job EXCEPT ![a] = At("name", None)]
    /\ UNCHANGED <<setting, bundles, bcache, step, over, safe, changes, pol, pcache, queued>>

\* The name and the plan.  Nothing safe to roll back to, or both names taken: refused.
NameAndPlan(a) ==
    /\ job[a].at = "name"
    /\ LET n == AutoRollbackNameIn(bcache, a)
       IN  job' = [job EXCEPT ![a] = IF n = None \/ EnvOf(a) \notin safe THEN At("refused", None)
                                     ELSE At("create", n)]
    /\ UNCHANGED <<setting, bundles, bcache, step, over, safe, changes, pol, pcache, queued>>

Create(a) ==
    /\ job[a].at = "create"
    /\ LET n == job[a].name
       IN  \/ /\ bundles[n] = "free" /\ bundles' = [bundles EXCEPT ![n] = EnvOf(a)]
              /\ job' = [job EXCEPT ![a] = At("created", n)]
           \/ /\ bundles[n] # "free" /\ UNCHANGED bundles
              /\ job' = [job EXCEPT ![a] = At("taken", n)]
    /\ UNCHANGED <<setting, bcache, step, over, safe, changes, pol, pcache, queued>>

\* The copy RollbackTaken reads: the step's API reader, the policy's cached client.
TakenReads(a) == IF a \in AlarmSteps THEN bundles ELSE bcache

\* The name was taken meanwhile.  This rollback is adopted, anything else tried again.
RollbackTaken(a) ==
    /\ job[a].at = "taken"
    /\ \/ /\ rollbackNameFree(TakenReads(a), job[a].name, EnvOf(a))
          /\ job' = [job EXCEPT ![a] = At("created", job[a].name)] /\ UNCHANGED queued
       \/ ~rollbackNameFree(TakenReads(a), job[a].name, EnvOf(a)) /\ Again(a)
    /\ UNCHANGED <<setting, bundles, bcache, step, over, safe, changes, pol, pcache>>

\* The step records the outcome with its own state (one step reconcile at a time).
RecordStep(a) ==
    /\ a \in AlarmSteps /\ job[a].at \in {"created", "refused"}
    /\ step' = [step EXCEPT ![a] =
                  [st |-> IF job[a].at = "created" THEN "RollingBack" ELSE "AbortedByAlarm",
                   name |-> job[a].name]]
    /\ job' = [job EXCEPT ![a] = Idle]
    /\ UNCHANGED <<setting, bundles, bcache, over, safe, changes, pol, pcache, queued>>

\* recordOutcome of a policy.
RecordPolicy(a) ==
    /\ a \in Policies /\ job[a].at \in {"created", "refused"}
    /\ pol' = [pol EXCEPT ![a] =
                  [should  |-> pol[a].should,
                   name    |-> IF job[a].at = "created" THEN job[a].name ELSE pol[a].name,
                   refused |-> job[a].at = "refused"]]
    /\ job' = [job EXCEPT ![a] = Idle]
    /\ UNCHANGED <<setting, bundles, bcache, step, over, safe, changes, pcache, queued>>

\* The patch that records the outcome fails: the reconcile is retried.
RecordFails(a) ==
    /\ setting.faults /\ job[a].at \in {"created", "refused"} /\ Again(a)
    /\ UNCHANGED <<setting, bundles, bcache, step, over, safe, changes, pol, pcache>>

-----------------------------------------------------------------------------
(* Everyone else.                                                          *)

\* The policies that are installed.
Watching == IF "policy" \in setting.sources THEN Policies ELSE {}

\* A step's failure counter crosses the threshold, or falls below it: a step event.
FailuresChange ==
    /\ changes < setting.changes /\ changes' = changes + 1
    /\ \E s \in setting.steps :
         /\ over' = [over EXCEPT ![s] = ~@]
         /\ queued' = queued \cup {p \in Watching : EnvOf(p) = s[1]}
    /\ UNCHANGED <<setting, bundles, bcache, step, safe, pol, pcache, job>>

\* A safe target is verified, rejected or pruned.
HistoryChanges ==
    /\ changes < setting.changes /\ changes' = changes + 1
    /\ \E e \in Envs : safe' = (safe \cup {e}) \ (safe \cap {e})
    /\ UNCHANGED <<setting, bundles, bcache, step, over, pol, pcache, queued, job>>

SyncBundle(n) ==
    /\ bcache[n] # bundles[n] /\ bcache' = [bcache EXCEPT ![n] = bundles[n]]
    /\ UNCHANGED <<setting, bundles, step, over, safe, changes, pol, pcache, queued, job>>

\* A policy's own status writes do not wake it.
SyncPolicy(p) ==
    /\ pcache[p] # pol[p] /\ pcache' = [pcache EXCEPT ![p] = pol[p]]
    /\ UNCHANGED <<setting, bundles, bcache, step, over, safe, changes, pol, queued, job>>

\* Every reconcile in flight is lost; the informers list everything again.
Restart ==
    /\ setting.restarts /\ changes < setting.changes /\ changes' = changes + 1
    /\ bcache' = bundles /\ pcache' = pol /\ queued' = Watching
    /\ job' = [a \in Actors |-> Idle]
    /\ UNCHANGED <<setting, bundles, step, over, safe, pol>>

Init ==
    /\ setting \in Settings
    /\ bundles = [n \in Names |-> IF n[2] \in setting.squatted THEN Someone ELSE "free"]
    /\ bcache = bundles
    /\ step = [s \in AlarmSteps |-> [st |-> "checking", name |-> None]]
    /\ over = [s \in Envs \X Regions |-> FALSE] /\ safe = Envs /\ changes = 0
    /\ pol = [p \in Policies |-> [should |-> FALSE, name |-> None, refused |-> FALSE]]
    /\ pcache = pol /\ queued = {} /\ job = [a \in Actors |-> Idle]

Works(a) == Find(a) \/ NameAndPlan(a) \/ Create(a) \/ RollbackTaken(a) \/ RecordStep(a) \/ RecordPolicy(a)

Next ==
    \/ \E a \in AlarmSteps : StepAlarms(a) \/ StepVerifies(a)
    \/ \E p \in Policies : EvaluatePolicy(p) \/ SyncPolicy(p)
    \/ \E a \in Actors : Works(a) \/ RecordFails(a)
    \/ \E n \in Names : SyncBundle(n)
    \/ FailuresChange \/ HistoryChanges \/ Restart

Spec == Init /\ [][Next]_vars

\* Reconciles run to their end and the caches catch up.
Fairness ==
    /\ \A a \in Actors : WF_vars(Works(a))
    /\ \A p \in Policies : WF_vars(EvaluatePolicy(p)) /\ WF_vars(SyncPolicy(p))
    /\ \A n \in Names : WF_vars(SyncBundle(n))

LiveSpec == Spec /\ Fairness

-----------------------------------------------------------------------------
(* Properties.                                                             *)

\* One path never creates two rollbacks of the failing Bundle in an environment: not a
\* second region's step, a retried reconcile, a restarted controller or one that reads an
\* old cache (the fixed name and AlreadyExists).
OneRollbackPerSource ==
    \A e \in Envs, src \in Sources :
        Cardinality({n \in Names : n[1] = src /\ bundles[n] = e}) <= 1

\* A step that is RollingBack names a rollback Bundle of its own environment: never one
\* of another environment that won the name, never one that somebody else created.
StepHasItsRollback ==
    \A s \in AlarmSteps : step[s].st = "RollingBack" => bundles[step[s].name] = EnvOf(s)

\* What makes the two inductive.  A Bundle is never renamed or removed here, so that the
\* informer's copy is the stored one or has not seen it yet; an environment's own name is
\* its own or somebody's; an actor takes its own name only when the plain one went to
\* another environment or to somebody else, and that stays so until it creates; and the
\* step's own reader tells it whose Bundle took the name.
PlainTaken(src, e) == bundles[Plain(src)] \notin {"free", e}

CacheLags == \A n \in Names : bcache[n] \in {"free", bundles[n]}
OwnNames  == \A n \in Names : n[2] # "plain" => bundles[n] \in {n[2], Someone, "free"}
OwnIsSecond ==
    \A src \in Sources, e \in Envs : bundles[Own(src, e)] = e => PlainTaken(src, e)
JobNames ==
    \A a \in Actors : job[a].at \in {"create", "taken"} =>
       \/ job[a].name = Plain(a[1])
       \/ job[a].name = Own(a[1], EnvOf(a)) /\ PlainTaken(a[1], EnvOf(a))
TakenNames == \A a \in Actors : job[a].at = "taken" => bundles[job[a].name] # "free"
CreatedNames ==
    /\ \A a \in Actors : job[a].at = "created" => job[a].name \in Names
    /\ \A a \in AlarmSteps : job[a].at = "created" => bundles[job[a].name] = EnvOf(a)
StepNames ==
    \A s \in AlarmSteps :
       step[s].st = "RollingBack" => step[s].name \in Names /\ bundles[step[s].name] = EnvOf(s)

RollbackInv ==
    /\ TypeOK /\ CacheLags /\ OwnNames /\ OwnIsSecond /\ JobNames /\ TakenNames
    /\ CreatedNames /\ StepNames

\* A policy that created a rollback records it, though it crashed or failed in between
\* and the failures dropped since.
Recorded(p) ==
    (\E n \in Names : n[1] = "policy" /\ bundles[n] = EnvOf(p)) => pol[p].name # None
RollbackIsRecorded == \A p \in Policies : []<>Recorded(p)
=============================================================================
