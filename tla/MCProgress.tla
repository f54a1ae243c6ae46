----------------------------- MODULE MCProgress ------------------------------
(***************************************************************************)
(* What must eventually happen in six parts of the controller, for TLC: a  *)
(* policy's rollback, the turns on a branch, the hooks before a step, the  *)
(* fair queue, linked change tickets and a step's audit outbox.  A         *)
(* behaviour is one part's, under that part's fairness, and the others     *)
(* stay off.                                                               *)
(***************************************************************************)
EXTENDS BranchQueue, Sequences

VARIABLES
    part,
    situation, bundles, bcache, steps, over, safe, changes, pol, pcache, queued, jobs,
    setting, run, cached, job, creating, wanted, ver, live, records, step, halt,
    hclock, uids, deletes, crashes, kills, ran, passed, cutOff,
    load, st, active, waiting, inner, order, locked, out, worker,
    carrier, want, link, seen, read, clock, edits,
    story, done, rv, outbox, cache, work, events, refused, faults

rollbackVars == <<situation, bundles, bcache, steps, over, safe, changes, pol, pcache, queued, jobs>>
hookVars     == <<setting, run, cached, job, creating, wanted, ver, live, records, step, halt,
                  hclock, uids, deletes, crashes, kills, ran, passed, cutOff>>
queueVars    == <<load, st, active, waiting, inner, order, locked, out, worker>>
linkVars     == <<carrier, want, link, seen, read, clock, edits>>
auditVars    == <<story, done, rv, outbox, cache, work, events, refused, faults>>
allVars == <<part, rollbackVars, vars, hookVars, queueVars, linkVars, auditVars>>

-----------------------------------------------------------------------------
(* AutoRollback: two policies, and somebody else's Bundle of one name.     *)

Policy == <<<<"policy", "a", "policy">>, <<"policy", "b", "policy">>>>
Name   == <<<<"policy", "plain">>, <<"policy", "a">>, <<"policy", "b">>>>

Rollback == INSTANCE AutoRollback WITH
    setting <- situation, step <- steps, job <- jobs,
    Envs <- {"a", "b"}, Regions <- {"r1"},
    Settings <- {[sources |-> {"policy"}, steps |-> {<<"a", "r1">>, <<"b", "r1">>},
                  squatted |-> {"plain"}, faults |-> FALSE, restarts |-> TRUE, changes |-> 3]}

-----------------------------------------------------------------------------
(* BranchQueue: the steps and bounds of the cfg.  A behaviour of another   *)
(* part leaves the branch as it is in the beginning.                       *)

-----------------------------------------------------------------------------
(* HookRun: a hook that is renamed, and whose Job is created from a copy   *)
(* that is out of date.                                                    *)

Hook == INSTANCE HookRun WITH
    now <- hclock,
    Hooks <- {1, 2}, First <- {1}, Vers <- {1}, BadVers <- {}, Timeout <- 2, RecordGrace <- 1,
    Settings <- {[renames |-> TRUE, vers |-> {1}, stale |-> FALSE, window |-> TRUE,
                  now |-> 2, uids |-> 4, deletes |-> 0, crashes |-> 0, kills |-> 0]}

-----------------------------------------------------------------------------
(* FairQueue: a key of each of two namespaces, and one worker.             *)

Fair == INSTANCE FairQueue WITH
    setting <- load, Keys <- {"a1", "b1"}, Home <- [a1 |-> "a", b1 |-> "b"],
    Adders <- {"x"}, Workers <- {1}, Span <- 10, Buckets <- {1}, Aging <- 1,
    Settings <- {[keys |-> {"a1", "b1"}, workers |-> {1}, bases |-> {0}, delays |-> {0}, gen |-> 0]}

-----------------------------------------------------------------------------
(* ChangeLink: two promotions that link tickets and one that opens its     *)
(* own; the tickets carry nobody's correlation id, or one of theirs.       *)

Link == INSTANCE ChangeLink WITH
    st <- link, run <- read, events <- edits,
    Links <- {1, 3}, Opener <- 2, Keys <- {"k1", "k2"}, OpenedKey <- "k1",
    Carriers <- {0, 3}, MaxTime <- 1, MaxEvents <- 1

-----------------------------------------------------------------------------
(* AuditOutbox, as a PromotionStep uses it: the end of a pr-review step,   *)
(* an outbox that holds all its records, and two controllers.              *)

Step == INSTANCE StepAudit

StepStories ==
    {[changes |-> Step!Story(<<<<"HealthChecking", "PRMerged">>, last[1]>>, FALSE, last[2]),
      workers |-> {1, 2}, faults |-> 1] :
        last \in {<<<<"Verified", "">>, TRUE>>, <<<<"Verified", "">>, FALSE>>,
                  <<<<"Superseded", "PromotionSuperseded">>, FALSE>>}}
SaysItself(e) == {e}
AlwaysValid(e) == TRUE
NeverMerges(a, b) == FALSE
NoMerge(a, b) == a

Audit == INSTANCE AuditOutbox WITH
    Workers <- {1, 2}, Limit <- 3, Stories <- StepStories,
    NameOf <- Step!slugifyAction, Says <- SaysItself, Valid <- AlwaysValid,
    Mergeable <- NeverMerges, Merge <- NoMerge

-----------------------------------------------------------------------------
ASSUME Constants ==
    /\ Rollback!ConstantsOK /\ Hook!ConstantsOK /\ Fair!ConstantsOK
    /\ Link!ConstantsOK /\ Audit!ConstantsOK

\* A part that stays off.
RollbackOff ==
    /\ situation = 0 /\ bundles = 0 /\ bcache = 0 /\ steps = 0 /\ over = 0 /\ safe = 0
    /\ changes = 0 /\ pol = 0 /\ pcache = 0 /\ queued = 0 /\ jobs = 0
HooksOff ==
    /\ setting = 0 /\ run = 0 /\ cached = 0 /\ job = 0 /\ creating = 0 /\ wanted = 0 /\ ver = 0
    /\ live = 0 /\ records = 0 /\ step = 0 /\ halt = 0 /\ hclock = 0 /\ uids = 0 /\ deletes = 0
    /\ crashes = 0 /\ kills = 0 /\ ran = 0 /\ passed = 0 /\ cutOff = 0
QueueOff ==
    /\ load = 0 /\ st = 0 /\ active = 0 /\ waiting = 0 /\ inner = 0 /\ order = 0 /\ locked = 0
    /\ out = 0 /\ worker = 0
LinksOff ==
    /\ carrier = 0 /\ want = 0 /\ link = 0 /\ seen = 0 /\ read = 0 /\ clock = 0 /\ edits = 0
AuditOff ==
    /\ story = 0 /\ done = 0 /\ rv = 0 /\ outbox = 0 /\ cache = 0 /\ work = 0 /\ events = 0
    /\ refused = 0 /\ faults = 0

PartsInit ==
    \/ /\ part = "rollback" /\ Rollback!Init
       /\ Init /\ HooksOff /\ QueueOff /\ LinksOff /\ AuditOff
    \/ /\ part = "turns" /\ Init
       /\ RollbackOff /\ HooksOff /\ QueueOff /\ LinksOff /\ AuditOff
    \/ /\ part = "hooks" /\ Hook!Init
       /\ RollbackOff /\ Init /\ QueueOff /\ LinksOff /\ AuditOff
    \/ /\ part = "queue" /\ Fair!Init
       /\ RollbackOff /\ Init /\ HooksOff /\ LinksOff /\ AuditOff
    \/ /\ part = "links" /\ Link!Init
       /\ RollbackOff /\ Init /\ HooksOff /\ QueueOff /\ AuditOff
    \/ /\ part = "audit" /\ Audit!Init
       /\ RollbackOff /\ Init /\ HooksOff /\ QueueOff /\ LinksOff

\* What stays as it is in a step of each part.
notRollback == <<part, vars, hookVars, queueVars, linkVars, auditVars>>
notTurns    == <<part, rollbackVars, hookVars, queueVars, linkVars, auditVars>>
notHooks    == <<part, rollbackVars, vars, queueVars, linkVars, auditVars>>
notQueue    == <<part, rollbackVars, vars, hookVars, linkVars, auditVars>>
notLinks    == <<part, rollbackVars, vars, hookVars, queueVars, auditVars>>
notAudit    == <<part, rollbackVars, vars, hookVars, queueVars, linkVars>>

PartsNext ==
    \/ part = "rollback" /\ Rollback!Next /\ UNCHANGED notRollback
    \/ part = "turns" /\ Next /\ UNCHANGED notTurns
    \/ part = "hooks" /\ Hook!Next /\ UNCHANGED notHooks
    \/ part = "queue" /\ Fair!Next /\ UNCHANGED notQueue
    \/ part = "links" /\ Link!Next /\ UNCHANGED notLinks
    \/ part = "audit" /\ Audit!Next /\ UNCHANGED notAudit

\* The actions that happen when nothing else does, part by part and numbered.
FairRollback(k) ==
    \/ k \in 1..2 /\ Rollback!Works(Policy[k])
    \/ k \in 3..4 /\ Rollback!EvaluatePolicy(Policy[k - 2])
    \/ k \in 5..6 /\ Rollback!SyncPolicy(Policy[k - 4])
    \/ k \in 7..9 /\ Rollback!SyncBundle(Name[k - 6])
FairTurns(k) ==
    \/ k \in 1..3 /\ Asks(k)
    \/ k \in 4..6 /\ Ends(k - 3)
    \/ k = 7 /\ Tick
FairHooks(k) ==
    \/ k \in 1..2 /\ Hook!Reconcile(k)
    \/ k \in 3..4 /\ Hook!Prune(k - 2)
    \/ k \in 5..6 /\ Hook!CollectJob(k - 4)
    \/ k = 7 /\ Hook!RecordJob
    \/ k = 8 /\ Hook!SyncCache
    \/ k = 9 /\ Hook!Mirror
    \/ k = 10 /\ Hook!RecordHooks
    \/ k = 11 /\ Hook!Tick
FairQueue(k) ==
    \/ k = 1 /\ Fair!sweep
    \/ k = 2 /\ Fair!Tick
    \/ k = 3 /\ Fair!InnerAdd("x")
    \/ k = 4 /\ Fair!InnerAdd("tick")
    \/ k = 5 /\ Fair!InnerGet(1)
    \/ k = 6 /\ Fair!GetWithPriority(1)
    \/ k = 7 /\ Fair!InnerDone(1)
    \/ k = 8 /\ Fair!Done(1)
FairLinks(k) ==
    \/ k \in {1, 3} /\ Link!Begin(k)
    \/ k \in {2, 4} /\ Link!Unlink(k - 1)
    \/ k \in {5, 7} /\ Link!Get(k - 4)
    \/ k \in {6, 8} /\ Link!finishAt(k - 5)
    \/ k \in 9..11 /\ Link!SyncCache(k - 8)
FairAudit(k) ==
    \/ k \in 1..2 /\ Audit!SyncCache(k)
    \/ k \in 3..4 /\ Audit!Progress(k - 2)

\* Each part's fairness, as its module states it.  A behaviour is one part's, so one
\* condition on the k-th actions of all the parts is a condition on that part's.
Fairness ==
    \A k \in 1..11 :
        WF_allVars(\/ part = "rollback" /\ FairRollback(k) /\ UNCHANGED notRollback
                   \/ part = "turns" /\ FairTurns(k) /\ UNCHANGED notTurns
                   \/ part = "hooks" /\ FairHooks(k) /\ UNCHANGED notHooks
                   \/ part = "queue" /\ FairQueue(k) /\ UNCHANGED notQueue
                   \/ part = "links" /\ FairLinks(k) /\ UNCHANGED notLinks
                   \/ part = "audit" /\ FairAudit(k) /\ UNCHANGED notAudit)

PartsSpec == PartsInit /\ [][PartsNext]_allVars /\ Fairness

-----------------------------------------------------------------------------
(* Properties: each part's, of its behaviours.                             *)

\* A step that wants to push gets its turn on the branch, although others come and go,
\* leave their places behind, fail and try again.
EveryStepGetsItsTurn == \A s \in Steps : []<>(part = "turns" => Served(s))

\* A policy that created a rollback records it, though the controller restarted in between
\* and the failures dropped since (FindRollback).
RollbackIsRecorded == \A p \in Rollback!Policies : []<>(part = "rollback" => Rollback!Recorded(p))

\* A HookRun that has started ends, or goes: its deadline reaches it whether its Job hangs,
\* a pause lasts or another run holds the slot (createJob, observe).
StartedRunEnds == \A h \in {1, 2} : []<>(part = "hooks" => ~Hook!Unfinished(h))

\* No key stays due for ever while keys of another namespace keep arriving (sweep).
DueKeyServed == \A k \in {"a1", "b1"} : []<>(part = "queue" => ~Fair!Due(k))

\* Once the keys stay as they are, a held ticket is the verified ticket of one promotion,
\* besides the one whose correlation id it carries (linkVerified, earlierHolder).
EventuallyOne ==
    /\ [](part = "links" => Link!TypeOK)
    /\ <>[](part = "links" => Link!OneVerified)

\* Every change of a step is stored and its records are written, through crashes, failed
\* calls and two controllers (retryAudit, requeueChanged).
AllRecordsWritten == <>[](part = "audit" => Audit!AllWritten)
=============================================================================
