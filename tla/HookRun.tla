------------------------------- MODULE HookRun -------------------------------
(***************************************************************************)
(* The pre-deploy hooks of one environment of one Bundle: the HookRun      *)
(* reconciler (pkg/reconciler/hookrun), the records the step keeps of them *)
(* (pkg/reconciler/promotionstep/hooks.go), and, as external parts, the    *)
(* Graph that applies, prunes and mirrors HookRuns, the Jobs, and garbage  *)
(* collection.                                                             *)
(*                                                                         *)
(* One worker reconciles HookRuns.  It reads them from a cache that may    *)
(* lag and writes them with an optimistic lock: a write from a copy that   *)
(* is not the current one is a conflict and changes nothing.  Creating the *)
(* Job and writing its UID are two steps, and so are two of start's        *)
(* writes.  Jobs are read through to the API server.                       *)
(***************************************************************************)
EXTENDS Integers, FiniteSets, FiniteSetsExt

CONSTANTS Hooks,       \* hook names, in the order their HookRuns are created
          First,       \* the hooks the Pipeline has at first
          Vers,        \* the job specs a hook may have, by hash
          BadVers,     \* the specs jobFor refuses
          Timeout,     \* the hook's timeout
          RecordGrace, \* recordGrace
          Settings     \* the situations a behaviour may start in, each a record of Setting

\* renames: the hook may be renamed
\* vers:    the job specs in use
\* stale:   reconciles may read an older snapshot of the HookRuns
\* window:  a HookRun or its Job may change after the copy its Job is created from was read
\*          and before the Job's UID is written
\* now, uids, deletes, crashes, kills: bounds
Setting == [renames : BOOLEAN, vers : SUBSET Vers, stale : BOOLEAN, window : BOOLEAN,
            now : Nat, uids : Nat, deletes : Nat, crashes : Nat, kills : Nat]

ConstantsOK ==
    /\ Hooks \subseteq Nat /\ First \subseteq Hooks /\ IsFiniteSet(Hooks)
    /\ Vers \subseteq Nat \ {0} /\ Vers # {} /\ BadVers \subseteq Vers
    /\ Timeout \in Nat \ {0} /\ RecordGrace \in Nat
    /\ Settings \subseteq Setting /\ \A s \in Settings : s.vers # {}

VARIABLES setting,  \* the situation of this behaviour
          run,      \* the HookRuns
          cached,   \* an older snapshot of them
          job,      \* the Job named after a hook's HookRun
          creating, \* the HookRun whose Job was just created and its UID not yet written
          wanted,   \* the hooks of the Pipeline
          ver,      \* the job spec of a hook in the Pipeline
          live,     \* spec.live.hooks of the step: the mirror
          records,  \* status.hookRecords of the step
          step,     \* the step: pending, started or failed
          halt,     \* what preHookHalt says: no, wait (paused or held), skip (superseded)
          now, uids, deletes, crashes, kills,
          ran,      \* history: how often a hook's job was created with a spec
          passed,   \* history: the hooks and specs whose Job completed
          cutOff    \* history: garbage collection took a Job that was running in time

vars == <<setting, run, cached, job, creating, wanted, ver, live, records, step, halt,
          now, uids, deletes, crashes, kills, ran, passed, cutOff>>
store == <<setting, wanted, ver, live, records, step, halt>>
counts == <<now, uids, deletes, crashes, kills>>
ghosts == <<ran, passed, cutOff>>

-----------------------------------------------------------------------------
(* Data *)

Absent == [uid |-> 0]
\* "none": an empty result or phase.
NoRecord == [result |-> "none", hash |-> 0]
NoJob == [uid |-> 0, owner |-> 0, state |-> "none", ver |-> 0, deadline |-> 0]
Nobody == [hook |-> 0, base |-> Absent, uid |-> 0]
NoTime == -1

NewRun(u, v, rec, adv) ==
    [uid |-> u, ver |-> v, rec |-> rec, adv |-> adv, del |-> FALSE, fin |-> FALSE,
     phase |-> "none", hash |-> 0, jobUID |-> 0, deadline |-> NoTime, changed |-> FALSE,
     finishedAt |-> NoTime]

Final == {"Succeeded", "Failed"}
terminal(r) == r.phase \in Final \cup {"Skipped"}
expired(r) == r.deadline # NoTime /\ now >= r.deadline
Exists(r) == r # Absent

\* The HookRun of h as a reconcile reads it.
Seen(h) == IF setting.stale THEN cached[h] ELSE run[h]

\* finish: a terminal phase is never overwritten.
finish(r, phase) == IF terminal(r) THEN r ELSE [r EXCEPT !.phase = phase, !.finishedAt = now]

\* A write of hook h's HookRun, locked on the copy base that was read.
Patch(h, base, new) == run' = IF run[h] = base THEN [run EXCEPT ![h] = new] ELSE run

\* markSpecChange: the condition SpecChangedAfterStart.
markSpecChange(r) == [r EXCEPT !.changed = @ \/ (r.hash # 0 /\ r.hash # r.ver)]

Init ==
    /\ setting \in Settings
    /\ run = [h \in Hooks |-> Absent]
    /\ cached = run
    /\ job = [h \in Hooks |-> NoJob]
    /\ creating = Nobody
    /\ wanted = First
    /\ ver = [h \in Hooks |-> Min(setting.vers)]
    /\ live = [h \in Hooks |-> NoRecord]
    /\ records = [h \in Hooks |-> NoRecord]
    /\ step = "pending"
    /\ halt = "no"
    /\ now = 0 /\ uids = 0 /\ deletes = 0 /\ crashes = 0 /\ kills = 0
    /\ ran = [h \in Hooks |-> [v \in Vers |-> 0]]
    /\ passed = {}
    /\ cutOff = FALSE

-----------------------------------------------------------------------------
(* The HookRun reconciler *)

\* The worker is free and has a HookRun h to look at.
Reads(h) == creating = Nobody /\ Exists(Seen(h))

\* A reconcile that gets past the deletion check.
Advances(h) == Reads(h) /\ ~Seen(h).del

\* start: what it writes without running the Job.  A hook that already ran for the
\* step takes its record; an unknown result is a failure.
StartEnds(h) ==
    LET r == Seen(h)
        begun == [r EXCEPT !.hash = r.ver]
    IN  /\ Advances(h)
        /\ r.hash = 0 /\ ~terminal(r)
        /\ \/ /\ r.rec.result # "none" /\ r.rec.hash = r.ver
              /\ Patch(h, r, finish(begun, IF r.rec.result \in Final THEN r.rec.result ELSE "Failed"))
           \/ /\ ~(r.rec.result # "none" /\ r.rec.hash = r.ver)
              /\ \/ r.adv /\ Patch(h, r, finish(begun, "Skipped"))
                 \/ ~r.adv /\ r.ver \in BadVers /\ Patch(h, r, finish(begun, "Failed"))
                 \/ /\ ~r.adv /\ r.ver \notin BadVers
                    /\ \/ halt = "skip" /\ Patch(h, r, finish(begun, "Skipped"))
                       \/ /\ halt = "wait" /\ r.phase # "Pending"
                          /\ Patch(h, r, [r EXCEPT !.phase = "Pending"])
        /\ UNCHANGED <<cached, job, creating, store, counts, ghosts>>

\* Mutant: start runs a hook the step has a record of.
MayStartRecorded(h) ==
    LET r == Seen(h)
    IN  Advances(h) /\ r.hash = 0 /\ ~terminal(r) /\ ~r.adv /\ r.ver \notin BadVers /\ halt = "no"

\* start goes on to begin the run.
MayStart(h) ==
    LET r == Seen(h)
    IN  /\ Advances(h)
        /\ r.hash = 0 /\ ~terminal(r)
        /\ ~(r.rec.result # "none" /\ r.rec.hash = r.ver)
        /\ ~r.adv /\ r.ver \notin BadVers /\ halt = "no"

\* start begins the run: the finalizer, then its hash and its deadline.
Start(h) ==
    /\ MayStart(h)
    /\ now + Timeout <= setting.now
    /\ Patch(h, Seen(h), [Seen(h) EXCEPT !.fin = TRUE, !.hash = Seen(h).ver, !.phase = "Pending",
                                         !.deadline = now + Timeout])
    /\ UNCHANGED <<cached, job, creating, store, counts, ghosts>>

\* start is interrupted after it added the finalizer.
StartInterrupted(h) ==
    /\ MayStart(h) /\ ~Seen(h).fin
    /\ crashes < setting.crashes
    /\ crashes' = crashes + 1
    /\ Patch(h, Seen(h), [Seen(h) EXCEPT !.fin = TRUE])
    /\ UNCHANGED <<cached, job, creating, store, now, uids, deletes, kills, ghosts>>

\* siblingRunning: another run of the slot has its Job running, or is older and
\* about to create it.
siblingRunning(h) ==
    \E o \in Hooks \ {h} :
       LET r == Seen(o)
       IN  /\ Exists(r) /\ ~expired(r)
           /\ \/ r.phase = "Running"
              \/ r.phase \in {"none", "Pending"} /\ ~r.del /\ r.uid < Seen(h).uid

\* A started run whose Job does not exist and was never recorded.
NoJobYet(h) ==
    /\ Advances(h)
    /\ Seen(h).hash # 0 /\ ~terminal(Seen(h))
    /\ job[h] = NoJob /\ Seen(h).jobUID = 0
    /\ ~siblingRunning(h)

\* Mutant: a run that waits for a pause to end does not time out.
CreateJobEndsNever(h) ==
    LET r == markSpecChange(Seen(h))
    IN  /\ NoJobYet(h)
        /\ \/ r.changed /\ Patch(h, Seen(h), finish(r, "Failed"))
           \/ ~r.changed /\ halt = "skip" /\ Patch(h, Seen(h), finish(r, "Skipped"))
        /\ UNCHANGED <<cached, job, creating, store, counts, ghosts>>

\* createJob ends the run instead: it timed out, its spec changed, or the Bundle was
\* superseded.  A pause only makes it wait.
CreateJobEnds(h) ==
    LET r == markSpecChange(Seen(h))
    IN  /\ NoJobYet(h)
        /\ \/ (expired(r) \/ r.changed) /\ Patch(h, Seen(h), finish(r, "Failed"))
           \/ ~expired(r) /\ ~r.changed /\ halt = "skip" /\ Patch(h, Seen(h), finish(r, "Skipped"))
        /\ UNCHANGED <<cached, job, creating, store, counts, ghosts>>

\* createJob creates the Job, owned by the HookRun it read.
CreateJob(h) ==
    LET r == markSpecChange(Seen(h))
    IN  /\ NoJobYet(h)
        /\ ~expired(r) /\ ~r.changed /\ halt = "no"
        /\ setting.window \/ Seen(h) = run[h]
        /\ uids < setting.uids
        /\ uids' = uids + 1
        /\ job' = [job EXCEPT ![h] = [uid |-> uids + 1, owner |-> r.uid, state |-> "running",
                                     ver |-> r.ver, deadline |-> r.deadline]]
        /\ creating' = [hook |-> h, base |-> Seen(h), uid |-> uids + 1]
        /\ ran' = [ran EXCEPT ![h][r.ver] = @ + 1]
        /\ UNCHANGED <<run, cached, store, now, deletes, crashes, kills, passed, cutOff>>

\* createJob writes the Job's UID.
RecordJob ==
    LET h == creating.hook
        r == creating.base
    IN  /\ creating # Nobody
        /\ Patch(h, r, [r EXCEPT !.jobUID = creating.uid, !.phase = "Running"])
        /\ creating' = Nobody
        /\ UNCHANGED <<cached, job, store, counts, ghosts>>

\* The controller stops, or the write fails, before the UID is written.
CrashBeforeRecord ==
    /\ creating # Nobody
    /\ crashes < setting.crashes
    /\ crashes' = crashes + 1
    /\ creating' = Nobody
    /\ UNCHANGED <<run, cached, job, store, now, uids, deletes, kills, ghosts>>

\* A reconcile that finds a Job: one it does not know is adopted when it is this
\* HookRun's, and another Job or none in the place of its own is a failure.
AdoptOrFail(h) ==
    LET c == Seen(h)
        r == markSpecChange(c)
    IN  /\ Advances(h)
        /\ c.hash # 0 /\ ~terminal(c)
        /\ \/ /\ c.jobUID = 0 /\ job[h] # NoJob
              /\ Patch(h, c, IF job[h].owner = c.uid
                             THEN [r EXCEPT !.jobUID = job[h].uid, !.phase = "Running"]
                             ELSE finish(r, "Failed"))
           \/ /\ c.jobUID # 0 /\ job[h].uid # c.jobUID
              /\ Patch(h, c, finish(r, "Failed"))
        /\ UNCHANGED <<cached, job, creating, store, counts, ghosts>>

\* The result of a Job that ended, as observe writes it.
Outcome(r, j) == finish(r, IF j.state = "complete" THEN "Succeeded" ELSE "Failed")

\* observe: the Job ended.
ObserveEnd(h) ==
    LET c == Seen(h)
    IN  /\ Advances(h)
        /\ c.hash # 0 /\ ~terminal(c) /\ c.jobUID # 0 /\ job[h].uid = c.jobUID
        /\ job[h].state # "running"
        /\ Patch(h, c, Outcome(markSpecChange(c), job[h]))
        /\ UNCHANGED <<cached, job, creating, store, counts, ghosts>>

\* observe: the deadline passed; the Job is deleted, then the run fails.
ObserveTimeout(h) ==
    LET c == Seen(h)
    IN  /\ Advances(h)
        /\ c.hash # 0 /\ ~terminal(c) /\ c.jobUID # 0 /\ job[h].uid = c.jobUID
        /\ job[h].state = "running" /\ expired(c)
        /\ job' = [job EXCEPT ![h] = NoJob]
        /\ Patch(h, c, finish(markSpecChange(c), "Failed"))
        /\ UNCHANGED <<cached, creating, store, counts, ghosts>>

\* A reconcile that only keeps the condition of a run current: it has ended, its Job
\* runs, or it waits for a sibling.
MarkSpecChange(h) ==
    LET c == Seen(h)
    IN  /\ Advances(h)
        /\ markSpecChange(c) # c
        /\ \/ terminal(c)
           \/ job[h].uid = c.jobUID /\ job[h].state = "running" /\ ~expired(c)
           \/ job[h] = NoJob /\ c.jobUID = 0 /\ siblingRunning(h)
        /\ Patch(h, c, markSpecChange(c))
        /\ UNCHANGED <<cached, job, creating, store, counts, ghosts>>

\* A deleted HookRun is held: its Job runs and the deadline is ahead.
Held(r, h) == ~terminal(r) /\ r.jobUID # 0 /\ ~expired(r) /\ job[h].uid = r.jobUID

\* deleting: the Job ended; its result is recorded before the HookRun goes.
DeletingRecords(h) ==
    LET c == Seen(h)
    IN  /\ Reads(h) /\ c.del /\ c.fin
        /\ Held(c, h) /\ job[h].state # "running"
        /\ Patch(h, c, Outcome(c, job[h]))
        /\ UNCHANGED <<cached, job, creating, store, counts, ghosts>>

\* deleting: the HookRun is let go, recordGrace after its result was written.
DeletingLetsGo(h) ==
    LET c == Seen(h)
    IN  /\ Reads(h) /\ c.del /\ c.fin
        /\ ~Held(c, h)
        /\ c.finishedAt # NoTime => now >= c.finishedAt + RecordGrace
        /\ Patch(h, c, Absent)
        /\ UNCHANGED <<cached, job, creating, store, counts, ghosts>>

SyncCache ==
    /\ setting.stale /\ cached # run
    /\ cached' = run
    /\ UNCHANGED <<run, job, creating, store, counts, ghosts>>

-----------------------------------------------------------------------------
(* The step *)

\* recordHookRuns: a hook that started is recorded; a final result is kept for
\* its spec hash.
recordHookRuns ==
    [h \in Hooks |->
        IF /\ live[h].result \in Final \cup {"Running"} /\ live[h].hash # 0
           /\ ~(records[h].hash = live[h].hash /\ records[h].result \in Final)
        THEN live[h] ELSE records[h]]

RecordHooks ==
    /\ recordHookRuns # records
    /\ records' = recordHookRuns
    /\ UNCHANGED <<run, cached, job, creating, setting, wanted, ver, live, step, halt, counts, ghosts>>

\* holdForPreHooks: some hook has not succeeded (a Skipped one counts as passed).
holdForPreHooks == \E h \in wanted : live[h].result \notin {"Succeeded", "Skipped"}

\* The Pending step gets past its hooks, or fails with one of them.
StepAdvances ==
    /\ step = "pending" /\ halt = "no"
    /\ recordHookRuns = records
    /\ \/ /\ ~holdForPreHooks
          /\ step' = "started"
       \/ /\ \E h \in wanted : live[h].result = "Failed"
          /\ step' = "failed"
    /\ UNCHANGED <<run, cached, job, creating, setting, wanted, ver, live, records, halt, counts, ghosts>>

-----------------------------------------------------------------------------
(* External: the Graph, the Jobs, people, time *)

\* The HookRuns may change now.
WindowClosed(h) ==
    setting.window \/ (creating.hook # h /\ (job[h].owner = run[h].uid => run[h].jobUID = job[h].uid))

\* kro applies the HookRun of a hook of the Pipeline, with the step's record.
Apply(h) ==
    /\ h \in wanted /\ ~Exists(run[h])
    /\ uids < setting.uids
    /\ \A o \in Hooks : o < h /\ o \in wanted => run[o].uid # 0 /\ run[o].phase = "Succeeded"
    /\ uids' = uids + 1
    /\ run' = [run EXCEPT ![h] = NewRun(uids + 1, ver[h], records[h], step # "pending")]
    /\ UNCHANGED <<cached, job, creating, store, now, deletes, crashes, kills, ghosts>>

\* kro applies a change of the Pipeline or of the step to a HookRun.
Reapply(h) ==
    LET new == [run[h] EXCEPT !.ver = ver[h], !.rec = records[h], !.adv = step # "pending"]
    IN  /\ h \in wanted /\ Exists(run[h]) /\ run[h] # new
        /\ WindowClosed(h)
        /\ run' = [run EXCEPT ![h] = new]
        /\ UNCHANGED <<cached, job, creating, store, counts, ghosts>>

\* What a delete leaves of a HookRun.
Deleted(r) == IF r.fin THEN [r EXCEPT !.del = TRUE] ELSE Absent

\* kro prunes the HookRun of a hook that left the Pipeline.
Prune(h) ==
    /\ h \notin wanted /\ Exists(run[h]) /\ ~run[h].del
    /\ WindowClosed(h)
    /\ run' = [run EXCEPT ![h] = Deleted(run[h])]
    /\ UNCHANGED <<cached, job, creating, store, counts, ghosts>>

\* A HookRun the Pipeline still has is deleted (a cleanup of the namespace).
Delete(h) ==
    /\ h \in wanted /\ Exists(run[h]) /\ ~run[h].del
    /\ WindowClosed(h)
    /\ deletes < setting.deletes
    /\ deletes' = deletes + 1
    /\ run' = [run EXCEPT ![h] = Deleted(run[h])]
    /\ UNCHANGED <<cached, job, creating, store, now, uids, crashes, kills, ghosts>>

\* The Graph's mirror copies the HookRuns' results onto the step.
mirrored == [h \in Hooks |-> IF Exists(run[h]) THEN [result |-> run[h].phase, hash |-> run[h].hash]
                             ELSE NoRecord]
Mirror ==
    /\ live # mirrored
    /\ live' = mirrored
    /\ UNCHANGED <<setting, run, cached, job, creating, wanted, ver, records, step, halt, counts, ghosts>>

\* A final result that the mirror or the step has not taken yet.
Behind == \E h \in Hooks : Exists(run[h]) /\ run[h].phase \in Final \cup {"Running"}
                           /\ (live # mirrored \/ recordHookRuns # records)

\* Garbage collection deletes a Job whose HookRun is gone.
CollectJob(h) ==
    /\ job[h] # NoJob /\ run[h].uid # job[h].owner
    /\ job' = [job EXCEPT ![h] = NoJob]
    /\ cutOff' = (cutOff \/ (job[h].state = "running" /\ now < job[h].deadline))
    /\ UNCHANGED <<run, cached, creating, store, counts, ran, passed>>

JobEnds(h) ==
    /\ job[h].state = "running"
    /\ \E s \in {"complete", "failed"} :
          /\ job' = [job EXCEPT ![h].state = s]
          /\ passed' = passed \cup (IF s = "complete" THEN {<<h, job[h].ver>>} ELSE {})
    /\ UNCHANGED <<run, cached, creating, store, counts, ran, cutOff>>

\* Somebody deletes a Job, not before the mirror and the step took the HookRuns' results.
KillJob(h) ==
    /\ job[h] # NoJob /\ kills < setting.kills
    /\ WindowClosed(h) /\ ~Behind
    /\ kills' = kills + 1
    /\ job' = [job EXCEPT ![h] = NoJob]
    /\ UNCHANGED <<run, cached, creating, store, now, uids, deletes, crashes, ghosts>>

\* The hook is renamed, or its job edited.
EditPipeline ==
    /\ \/ /\ setting.renames /\ wanted = First /\ First # Hooks
          /\ wanted' = Hooks \ First
          /\ UNCHANGED ver
       \/ \E h \in wanted, v \in setting.vers :
             /\ v > ver[h]
             /\ ver' = [ver EXCEPT ![h] = v]
             /\ UNCHANGED wanted
    /\ UNCHANGED <<setting, run, cached, job, creating, live, records, step, halt, counts, ghosts>>

\* The Pipeline is paused or resumed, or the Bundle superseded.
ChangeHalt ==
    /\ halt # "skip"
    /\ halt' \in {"no", "wait", "skip"} \ {halt}
    /\ UNCHANGED <<run, cached, job, creating, setting, wanted, ver, live, records, step, counts, ghosts>>

\* The mirror and the step take a result in less than recordGrace.
Tick ==
    /\ now < setting.now
    /\ ~Behind /\ creating = Nobody
    /\ now' = now + 1
    /\ UNCHANGED <<run, cached, job, creating, store, uids, deletes, crashes, kills, ghosts>>

-----------------------------------------------------------------------------

Reconcile(h) ==
    \/ StartEnds(h) \/ Start(h)
    \/ CreateJobEnds(h) \/ CreateJob(h)
    \/ AdoptOrFail(h) \/ ObserveEnd(h) \/ ObserveTimeout(h) \/ MarkSpecChange(h)
    \/ DeletingRecords(h) \/ DeletingLetsGo(h)

Next ==
    \/ \E h \in Hooks :
          \/ Reconcile(h) \/ StartInterrupted(h)
          \/ Apply(h) \/ Reapply(h) \/ Prune(h) \/ Delete(h)
          \/ CollectJob(h) \/ JobEnds(h) \/ KillJob(h)
    \/ RecordJob \/ CrashBeforeRecord \/ SyncCache
    \/ RecordHooks \/ StepAdvances \/ Mirror
    \/ EditPipeline \/ ChangeHalt \/ Tick

Spec == Init /\ [][Next]_vars

\* Events and requeues wake the HookRuns' worker, kro walks the Graph when a HookRun
\* changes, the step is woken by the mirror, the cache follows and the clock runs.
\* Nothing ends a Job, a pause or a hold.
Fairness ==
    /\ \A h \in Hooks : WF_vars(Reconcile(h)) /\ WF_vars(Prune(h)) /\ WF_vars(CollectJob(h))
    /\ WF_vars(RecordJob) /\ WF_vars(SyncCache)
    /\ WF_vars(Mirror) /\ WF_vars(RecordHooks) /\ WF_vars(Tick)

LiveSpec == Spec /\ Fairness

-----------------------------------------------------------------------------
(* Properties *)

\* Every variable has its type.
TypeOK ==
    /\ setting \in Settings
    /\ \A h \in Hooks :
          /\ run[h] = Absent \/ /\ run[h].uid \in 1..setting.uids /\ run[h].ver \in Vers
                                /\ run[h].hash \in Vers \cup {0} /\ run[h].jobUID \in 0..setting.uids
                                /\ run[h].phase \in Final \cup {"none", "Pending", "Running", "Skipped"}
                                /\ {run[h].del, run[h].fin, run[h].adv, run[h].changed} \subseteq BOOLEAN
          /\ job[h].state \in {"none", "running", "complete", "failed"}
          /\ records[h].result \in Final \cup {"none", "Running"}
    /\ wanted \subseteq Hooks /\ step \in {"pending", "started", "failed"}
    /\ now \in 0..setting.now /\ uids \in 0..setting.uids

\* A hook runs once for a step: however its HookRun is deleted, pruned, applied
\* again, interrupted or read late, no second Job is created for the same spec.
RunsOnce == \A h \in Hooks, v \in Vers : ran[h][v] <= 1

\* A deleted HookRun does not take its Job with it while the Job may still run.
NotCutOff == ~cutOff

\* Two hooks of the slot do not run at once, unless the deadline of one has passed.
NoOverlap ==
    \A g, h \in Hooks :
       g # h /\ job[g].state = "running" /\ job[h].state = "running" =>
          now >= job[g].deadline \/ now >= job[h].deadline

\* A success is a completed Job of that very spec, also where it was taken from the
\* step's record or reached the record through the mirror.
SuccessIsReal ==
    \A h \in Hooks :
       /\ Exists(run[h]) /\ run[h].phase = "Succeeded" => <<h, run[h].hash>> \in passed
       /\ records[h].result = "Succeeded" => <<h, records[h].hash>> \in passed

\* The step starts only after a Job of each of its hooks completed.
StartsAfterHooks ==
    step = "pending" /\ step' = "started" =>
       \A h \in wanted : \E v \in Vers : <<h, v>> \in passed
StartedAfterHooks == [][StartsAfterHooks]_vars

\* A HookRun that has started ends, or goes: its deadline reaches it whether its Job
\* hangs, a pause lasts, another run holds the slot or its Job's UID was never written.
Unfinished(h) == Exists(run[h]) /\ run[h].hash # 0 /\ ~terminal(run[h])
StartedRunEnds == \A h \in Hooks : []<>~Unfinished(h)

-----------------------------------------------------------------------------
(* Why a success is real, as an inductive invariant.                       *)

Phases == Final \cup {"none", "Pending", "Running", "Skipped"}
Record == [result : Phases, hash : Vers \cup {0}]
Times == Nat \cup {NoTime}
Runs == [uid : Nat \ {0}, ver : Vers, rec : Record, adv : BOOLEAN, del : BOOLEAN, fin : BOOLEAN,
         phase : Phases, hash : Vers \cup {0}, jobUID : Nat, deadline : Times, changed : BOOLEAN,
         finishedAt : Times]
Jobs == {NoJob} \cup [uid : Nat \ {0}, owner : Nat \ {0}, state : {"running", "complete", "failed"},
                     ver : Vers, deadline : Times]

Typed ==
    /\ setting \in Settings
    /\ run \in [Hooks -> Runs \cup {Absent}] /\ cached \in [Hooks -> Runs \cup {Absent}]
    /\ job \in [Hooks -> Jobs]
    /\ creating = Nobody \/ creating \in [hook : Hooks, base : Runs, uid : Nat \ {0}]
    /\ wanted \subseteq Hooks /\ ver \in [Hooks -> Vers]
    /\ live \in [Hooks -> Record] /\ records \in [Hooks -> Record]
    /\ step \in {"pending", "started", "failed"} /\ halt \in {"no", "wait", "skip"}
    /\ now \in Nat /\ uids \in Nat /\ passed \subseteq Hooks \X Vers

\* No UID is given twice.
UIDsGiven ==
    /\ creating # Nobody => creating.uid <= uids
    /\ \A h \in Hooks :
          /\ run[h].uid <= uids /\ cached[h].uid <= uids /\ job[h].uid <= uids /\ job[h].owner <= uids
          /\ Exists(run[h]) => run[h].jobUID <= uids

\* The hash of a run that has started stays, and is the spec its Job was created with: the Job it
\* owns, the Job it names, and the one whose UID is about to be written.
HashStays ==
    \A h \in Hooks : Exists(cached[h]) /\ cached[h].uid = run[h].uid /\ cached[h].hash # 0
                        => run[h].hash = cached[h].hash
JobHasSpec ==
    \A h \in Hooks :
       job[h].uid # 0 =>
         /\ job[h].owner = run[h].uid => run[h].hash = job[h].ver
         /\ Exists(run[h]) /\ run[h].jobUID = job[h].uid => run[h].hash = job[h].ver
         /\ creating # Nobody /\ creating.hook = h /\ creating.uid = job[h].uid
               => creating.base.hash = job[h].ver

\* Wherever a success is written, a Job of that spec completed.
Real(h, result, hash) == result = "Succeeded" => <<h, hash>> \in passed
Successes ==
    \A h \in Hooks :
       /\ job[h].state = "complete" => <<h, job[h].ver>> \in passed
       /\ Exists(run[h]) => /\ Real(h, run[h].phase, run[h].hash)
                            /\ Real(h, run[h].rec.result, run[h].rec.hash)
       /\ Real(h, live[h].result, live[h].hash) /\ Real(h, records[h].result, records[h].hash)

\* A hook is skipped only when the step does not start any more, or has.
Over == halt = "skip" \/ step # "pending"
SkipsLast ==
    \A h \in Hooks : /\ Exists(run[h]) => (run[h].adv => step # "pending") /\ (run[h].phase = "Skipped" => Over)
                     /\ live[h].result = "Skipped" => Over

HookInv == Typed /\ UIDsGiven /\ HashStays /\ JobHasSpec /\ Successes /\ SkipsLast
=============================================================================
