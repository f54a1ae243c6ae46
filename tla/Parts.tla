-------------------------------- MODULE Parts --------------------------------
(***************************************************************************)
(* Seven parts of the controller in one specification: the turns on a      *)
(* branch (the module this one extends), a step's health check, the        *)
(* automatic rollback, the hooks before a step, the fair queue, a change   *)
(* ticket and a Bundle's audit outbox.  A behaviour is one part's, and the *)
(* others stay off: this asks each part's questions over every value of    *)
(* its constants, and is not a composition.                                *)
(***************************************************************************)
EXTENDS BranchQueue, Integers, Sequences

CONSTANTS
    \* HealthBake
    Configs, Timeout, Window, MaxDuration, AnalysisTimeout, MaxGap, MaxErrors, BakeMaxNow,
    MaxNowStale,
    \* AutoRollback
    Envs, Regions, RollbackSettings,
    \* HookRun
    Hooks, First, Vers, BadVers, HookTimeout, RecordGrace, HookSettings,
    \* FairQueue
    Keys, Home, Adders, Workers, Span, Buckets, Aging, FairSettings,
    \* ChangeRequest
    Procs, CreateGrace, Latency, Lag, MaxTickets, ChangeSettings,
    \* AuditOutbox
    Controllers, Limit, Stories

VARIABLES
    part,
    env, state, times, prev, newer, clock, idle, errors, healthy, baked,
    situation, bundles, bcache, steps, over, safe, changes, pol, pcache, queued, jobs,
    setting, run, cached, job, creating, wanted, ver, live, records, step, halt,
    hclock, uids, deletes, crashes, kills, ran, passed, cutOff,
    load, st, active, waiting, inner, order, locked, out, worker,
    mode, cr, stopped, seen, current, base, pass, wake, tickets, limbo,
    story, done, rv, outbox, cache, work, events, refused, faults

bakeVars     == <<env, state, times, prev, newer, clock, idle, errors, healthy, baked>>
rollbackVars == <<situation, bundles, bcache, steps, over, safe, changes, pol, pcache, queued, jobs>>
hookVars     == <<setting, run, cached, job, creating, wanted, ver, live, records, step, halt,
                  hclock, uids, deletes, crashes, kills, ran, passed, cutOff>>
queueVars    == <<load, st, active, waiting, inner, order, locked, out, worker>>
changeVars   == <<mode, cr, stopped, seen, current, base, pass, wake, tickets, limbo>>
auditVars    == <<story, done, rv, outbox, cache, work, events, refused, faults>>
partVars == <<part, vars, bakeVars, rollbackVars, hookVars, queueVars, changeVars, auditVars>>

-----------------------------------------------------------------------------
(* The parts, with their own names for what others name alike.             *)

Bake == INSTANCE HealthBake WITH step <- times, now <- clock, MaxNow <- BakeMaxNow

Rollback == INSTANCE AutoRollback WITH
    setting <- situation, step <- steps, job <- jobs, Settings <- RollbackSettings

Hook == INSTANCE HookRun WITH
    now <- hclock, Timeout <- HookTimeout, Settings <- HookSettings

Fair == INSTANCE FairQueue WITH setting <- load, Settings <- FairSettings

Change == INSTANCE ChangeRequest WITH setting <- mode, run <- pass, Settings <- ChangeSettings

\* The outbox of a Bundle, whose records are those of its gate templates.
Gate == INSTANCE GateAudit

SaysOf(e) == e.says
ValidOf(e) == e.valid

Audit == INSTANCE AuditOutbox WITH
    Workers <- Controllers, NameOf <- Gate!gateChangeName, Says <- SaysOf, Valid <- ValidOf,
    Mergeable <- Gate!Coalesces, Merge <- Gate!coalesceGateChanges

ASSUME PartsAssumption ==
    /\ Bake!ConstantsOK /\ Rollback!ConstantsOK /\ Hook!ConstantsOK
    /\ Fair!ConstantsOK /\ Change!ConstantsOK /\ Audit!ConstantsOK

-----------------------------------------------------------------------------
(* A part that stays off.                                                  *)

BakeOff ==
    /\ env = 0 /\ state = 0 /\ times = 0 /\ prev = 0 /\ newer = 0 /\ clock = 0 /\ idle = 0
    /\ errors = 0 /\ healthy = 0 /\ baked = 0
RollbackOff ==
    /\ situation = 0 /\ bundles = 0 /\ bcache = 0 /\ steps = 0 /\ over = 0 /\ safe = 0
    /\ changes = 0 /\ pol = 0 /\ pcache = 0 /\ queued = 0 /\ jobs = 0
HooksOff ==
    /\ setting = 0 /\ run = 0 /\ cached = 0 /\ job = 0 /\ creating = 0 /\ wanted = 0 /\ ver = 0
    /\ live = 0 /\ records = 0 /\ step = 0 /\ halt = 0 /\ hclock = 0 /\ uids = 0 /\ deletes = 0
    /\ crashes = 0 /\ kills = 0 /\ ran = 0 /\ passed = 0 /\ cutOff = 0
QueueOff ==
    /\ load = 0 /\ st = 0 /\ active = 0 /\ waiting = 0 /\ inner = 0 /\ order = 0 /\ locked = 0
    /\ out = 0 /\ worker = 0
ChangeOff ==
    /\ mode = 0 /\ cr = 0 /\ stopped = 0 /\ seen = 0 /\ current = 0 /\ base = 0 /\ pass = 0
    /\ wake = 0 /\ tickets = 0 /\ limbo = 0
AuditOff ==
    /\ story = 0 /\ done = 0 /\ rv = 0 /\ outbox = 0 /\ cache = 0 /\ work = 0 /\ events = 0
    /\ refused = 0 /\ faults = 0

\* (The branch has no name of its own to be off: it stays as it is in the beginning.)
PartsInit ==
    \/ /\ part = "turns" /\ Init
       /\ BakeOff /\ RollbackOff /\ HooksOff /\ QueueOff /\ ChangeOff /\ AuditOff
    \/ /\ part = "bake" /\ Bake!Init
       /\ Init /\ RollbackOff /\ HooksOff /\ QueueOff /\ ChangeOff /\ AuditOff
    \/ /\ part = "rollback" /\ Rollback!Init
       /\ Init /\ BakeOff /\ HooksOff /\ QueueOff /\ ChangeOff /\ AuditOff
    \/ /\ part = "hooks" /\ Hook!Init
       /\ Init /\ BakeOff /\ RollbackOff /\ QueueOff /\ ChangeOff /\ AuditOff
    \/ /\ part = "queue" /\ Fair!Init
       /\ Init /\ BakeOff /\ RollbackOff /\ HooksOff /\ ChangeOff /\ AuditOff
    \/ /\ part = "change" /\ Change!Init
       /\ Init /\ BakeOff /\ RollbackOff /\ HooksOff /\ QueueOff /\ AuditOff
    \/ /\ part = "audit" /\ Audit!Init
       /\ Init /\ BakeOff /\ RollbackOff /\ HooksOff /\ QueueOff /\ ChangeOff

PartsNext ==
    \/ /\ part = "turns" /\ Next
       /\ UNCHANGED <<part, bakeVars, rollbackVars, hookVars, queueVars, changeVars, auditVars>>
    \/ /\ part = "bake" /\ Bake!Next
       /\ UNCHANGED <<part, vars, rollbackVars, hookVars, queueVars, changeVars, auditVars>>
    \/ /\ part = "rollback" /\ Rollback!Next
       /\ UNCHANGED <<part, vars, bakeVars, hookVars, queueVars, changeVars, auditVars>>
    \/ /\ part = "hooks" /\ Hook!Next
       /\ UNCHANGED <<part, vars, bakeVars, rollbackVars, queueVars, changeVars, auditVars>>
    \/ /\ part = "queue" /\ Fair!Next
       /\ UNCHANGED <<part, vars, bakeVars, rollbackVars, hookVars, changeVars, auditVars>>
    \/ /\ part = "change" /\ Change!Next
       /\ UNCHANGED <<part, vars, bakeVars, rollbackVars, hookVars, queueVars, auditVars>>
    \/ /\ part = "audit" /\ Audit!Next
       /\ UNCHANGED <<part, vars, bakeVars, rollbackVars, hookVars, queueVars, changeVars>>

PartsSpec == PartsInit /\ [][PartsNext]_partVars

-----------------------------------------------------------------------------
(* Properties: each part's, of its behaviours.                             *)

\* A step with a bake passes its health check only after a whole window of Healthy results
\* (handleBake); a window runs no earlier than the first one, and a stopped window's wait ends by
\* the bake's deadline (stopWindow, bakeDeadline); a release that flaps is not health-checked for
\* ever (pastBakeDeadline, expired); and the first window's start, from which the deadline counts,
\* is never moved.
BakeSafe ==
    /\ [](part = "bake" => Bake!ContiguousBake /\ Bake!BakeTimes /\ Bake!EndsInTime)
    /\ [][part = "bake" => Bake!KeepsFirstStart]_partVars

\* One path never creates two rollbacks of the failing Bundle in an environment
\* (AutoRollbackName, FindRollback), and a step that is RollingBack names a rollback Bundle of its
\* own environment.
RollbackSafe ==
    part = "rollback" => Rollback!TypeOK /\ Rollback!OneRollbackPerSource /\ Rollback!StepHasItsRollback

\* A hook runs once for a step and spec (recordHookRuns, adoptRecord); a deleted HookRun does not
\* take its Job with it while the Job may still run; two hooks of a slot do not run at once
\* (siblingRunning); a success, on the HookRun or in the step's record, is a completed Job of that
\* very spec; and the step starts only after a Job of each hook completed (holdForPreHooks).
HooksSafe ==
    /\ [](part = "hooks" =>
            Hook!TypeOK /\ Hook!RunsOnce /\ Hook!NotCutOff /\ Hook!NoOverlap /\ Hook!SuccessIsReal)
    /\ [][part = "hooks" => Hook!StartsAfterHooks]_partVars

\* A namespace's count of active keys (active) never drifts: it is the number of its keys that are
\* due or processing, and exceeds it by exactly those that are both; the bookkeeping keeps no key
\* that is neither in the inner queue nor with a worker; and a key that sweep raised is served at
\* the base priority of a level it was added with, whatever its backlog.
QueueSafe ==
    part = "queue" => Fair!TypeOK /\ Fair!ActiveExact /\ Fair!NoGhost /\ Fair!AgedAtBase

\* What the queue's comments say of that count (namespace.active, TestQueue_BacklogBookkeeping):
\* it counts the keys that are processing or due, each once however often it is added.
QueueCountsOnce == part = "queue" => Fair!CountedOnce

\* A promotion never has two tickets, whatever replicas, crashes, lost answers and late creates
\* do (status.pendingCreate and CreateGrace); a state that a gate takes for fresh is one the ticket
\* had since the reading's stamp; and a slower reconcile never writes an older reading of the
\* ticket over a newer one (finishAt).
TicketSafe ==
    /\ [](part = "change" => Change!TypeOK /\ Change!OneTicket /\ Change!FreshApproval)
    /\ [][part = "change" => Change!ReadsForward]_partVars

\* No interleaving, crash, outdated copy or failed call loses a record of a stored change, and a
\* full outbox pushes none out, whatever edits it merges (coalesceGateChanges): only a record that
\* Validate or the API server refuses is not written; a change that was not stored is in no
\* AuditEvent; and the outbox keeps its size, its entries with different names.
OutboxSafe ==
    part = "audit" => Audit!NoRecordLost /\ Audit!NothingInvented /\ Audit!OutboxBounded
=============================================================================
