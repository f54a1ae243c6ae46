# Formal models of kardinal-promoter

TLA+ models of the parts of kardinal-promoter that decide what gets promoted, by
whom and in which order, with TLC runs on small instances and TLAPS proofs for
every value of the parameters. Paths are relative to the repository root
(`pkg/...`, `docs/...`); `PROJECT.json` maps each definition to the lines it models.

1. The system -- 2. The modules -- 3. The runs -- 4. Bounds and fairness --
5. The proofs -- 6. What the passing runs assume, and what happens otherwise --
7. What is not modelled -- 8. Plan

## 1. The system

kardinal-promoter is a set of Kubernetes controllers. All promotion state is in
custom resources; controllers talk through the API server, each reading from an
informer cache that lags behind it. A **Bundle** (a set of artifacts) of a
**Pipeline** is translated into a kro **Graph**; the kro controller (external)
creates one **PromotionStep** per environment and the objects around it; steps
push to git or open PRs, wait for merges, check health and bake.

| component | state | operations | what is hard | correct when | module |
|---|---|---|---|---|---|
| Bundle reconciler (`pkg/reconciler/bundle`) | phase, conditions, graphRef; a lock per Pipeline in memory | handleNew, handleAvailable, handleBound, handleSyncEvidence, markRejected, retryIfPipelineChanged, event mappers | several workers, stale caches, conflicts, restarts, events that map to nobody | the cap holds, settled Bundles stay settled, nobody who can go on is forgotten | `BundleReconciler` |
| push guard, git-push (`promotionstep/push_guard.go`, `steps/git_push.go`) | `status.outputs.pushIntent`, step statuses, the branch | read own Bundle, record intent, list newer pushes, push, rebase | two steps push to one branch; lost answers; late pushes; crashes | an older image never lands over a newer one | `PushGuard` |
| PR of a step (`promotionstep`, `prstatus`, `webhook.go`) | PRStatus spec and status, step state, deadline | poll, mark merged, open, wait, time out, cancel, close | four writers of one status, two of them without a lock; people merge and close meanwhile | a step goes on only for its own PR's merge, and what it gave up cannot merge later | `PRLifecycle` |
| PolicyGate (`pkg/reconciler/policygate`) | result, its time, override records | evaluate, recordOverrides, patchStatus, the step's checkRequiredGates | a result older than its facts; a wake-up lost to a skipped write; caps that restart | a step starts on a fresh pass, and always in the end; no override outlives its cap | `PolicyGate` |
| health check and bake (`promotionstep`) | healthCheckExpiry, bakeStartedAt, bakeFirstStartedAt | handleHealthChecking, handleBake, clusterUnreachable, applyHealthFailurePolicy | alarms, outages and deadlines race | passes only on contiguous health, ends | `HealthBake` |
| automatic rollback (`rollbackpolicy`, `promotionstep`) | the rollback Bundle's name, policy status | FindRollback, AutoRollbackName, create, record | several environments and two paths notice one failure | one rollback per source and environment, recorded | `AutoRollback` |
| branch queue (`branch_queue.go`) | holder and waiters per base branch, in memory | tryTurn, release, sweep | waiters that leave, clocks read outside the mutex | one holder, served in order, nobody starves | `BranchQueue`, `Turns` |
| hooks (`pkg/reconciler/hookrun`, `promotionstep/hooks.go`) | HookRun status, Job, the step's records | start, createJob, adopt, observe, deleting, siblingRunning | Job and its UID are two writes; the Graph renames, prunes and re-applies | a hook runs once, uncut, not beside its sibling | `HookRun` |
| SCM circuit breakers (`pkg/scm/circuit_*.go`) | state, failures, openings, window, probe | Allow, Record, RecordAPIError, cancelProbe | calls in flight when the circuit opens or is probed | opens at the threshold, backs off by probes only, never wedges | `CircuitRegistry` |
| slots limiter (`pkg/slots`) | counters, waiters, reservations, ready heap, timers | TryAcquire, release, Cancel, expire, dispatch | expiry against claim, stale heap entries | exact counters, caps, arrival order, nobody behind a free slot | `Limiter` |
| fair queue (`pkg/reconciler/fairqueue`) | per-key and per-namespace bookkeeping beside the inner queue | AddWithOpts, GetWithPriority, Done, sweep | the mutex does not cover the inner queue | counts are exact, a due key is served | `FairQueue` |
| audit outbox (`pkg/audit`) | pending records in object status | Enqueue, Flush, coalesceOldest | crash between create and removal, a former leader, a full outbox | no stored change unrecorded, none invented | `AuditOutbox`, `StepAudit`, `GateAudit` |
| ChangeRequest (`pkg/reconciler/changerequest`) | ticket key, state, linkedAt, pendingCreate | search, announce, create, read, verify a link | lost answers and late tickets; replicas | one ticket per promotion, approvals fresh, links settle | `ChangeRequest`, `ChangeLink` |
| Subscription (`pkg/reconciler/subscription`) | lastSeenDigest, the Bundles it created | poll, list, create, write status | crash between create and write, lagging lists, replicas | one Bundle per change | `Subscription` |
| Bundle retirement (`bundle/retire.go`) | retirement record | retire, finishRetire | deletes steps that guards still read | nothing running loses its evidence | in `PushGuard` |
| Pipeline reconciler, Graph builder, step engine, shards, ScheduleClock, ChangeWindow, MetricCheck, NotificationHook, ImageVerification, RenderRun, receipts, retention, UI, CLI, adapters | -- | derive, translate, I/O | -- | -- | section 7 |

How the parts meet: the Bundle reconciler reads what steps say, and steps read
their Bundle's phase (cancellation, push guard). The push guards of different steps
see each other only through step status at the API server. A step and its PRStatus
reconciler share the PRStatus object, a step and a gate the gate's status and the
step's creation time. Steps that meet an open circuit wait; MetricChecks and
ChangeRequests share a limiter; every reconciler with records uses the outbox.

## 2. The modules

`<Component>` is the specification, `MC<Component>` supplies constants that are
functions or records, `<Component>Proofs` has the theorems. `Parts` extends
`BranchQueue` and takes six more components as instances (HealthBake, AutoRollback,
HookRun, FairQueue, ChangeRequest, AuditOutbox for a Bundle): a behaviour belongs to
one part and the variables of the others stay as they are, so that one run and one
module of proofs (`PartsProofs`) cover all seven, each for every value of its own
constants. `MCSafety` gives `Parts` its constants. `MCProgress` does the same for the
parts whose progress is checked, and `MCWaits` puts the limiter beside the wait for a PR.
All three are a convenience, not a composition.

**PushGuard.** Bundles of one Pipeline and type race to one environment's branch.
`phase`, `rejected`, `hold` are Bundle and Pipeline fields; `step`, `intent`, `done` the
PromotionStep's state, `outputs.pushIntent` and completed git-push; `pc`, `fresh`,
`cand`, `heldRead` what a running reconcile knows; `top`, `landed`, `wire`, `acked` the
branch and pushes on their way. One action per API call of the guard, then the push,
its landing, rebase, retry and crash. Commits are not kept, only whether a clone is of
the present head, which is all a non-forced push can tell. Retirement is one step
that waits for running reconciles and pushes (its delay is minutes to hours, a
reconcile has a timeout) and for older Bundles in flight. Pushes to PR branches (where
the guard stops after the own-Bundle read) and rollbacks of a single fleet target are
left out.

**BundleReconciler.** `obj` is the Bundle at the API server, `cache` the informer's copy;
`current` says which copies are the server's version and `fresh` which reconciles hold
one, so an optimistic lock is membership in `fresh`. `Reconcile(b)` is the dispatch of
`reconcile` on the cached phase; `AdmitAvailable` and `RecoverFailed` count under the
Pipeline's lock; `WriteStatus` is the locked patch, `Informed` the watch with
`waitingSiblings`, `Restart` a new leader. What a Bundle's steps amount to is an
environment variable. Patches that change no modelled field are not kept: they can
only cause a Conflict or an extra event, and the proofs use neither the queue nor the
absence of conflicts. A request of a crashed leader is assumed not to be applied
after its successor starts counting.

**PRLifecycle.** One step and its PRs: the people who merge, close and reopen; the
poll (`Poll`, `PatchPolled`), the webhook (`HookReads`, `HookPatches`), the step
(`Wait`, `OpenPR`, `PatchSpec`, `Cancel`, `CloseDeleted`) and the four SCM calls of a close
(`AskSCM`, `ClosePR`, `NotePR`, `DeleteBranch`), each an action with its failure and with
the allowlist's refusal (`NotAllowed`); a provider may be unable to delete branches
(`KeepsBranch`). Writes of
the poll and the webhook carry no resourceVersion, so a write is the difference between
what its author read and what it wants (`MergePatch`), applied to what is stored.
Times are ages in polls. The generation of the PRStatus is the PR its spec names. The merge
commit is abstracted; `refreshPRBranch`, `syncGatesStatus`, auto-merge and statuses of
earlier releases are left out.

**PolicyGate.** One gate and the Pending step that requires it, each read by the other
through a cache. An evaluation is four actions (`Begin`, `recordOverrides`, `Decide`,
`patchStatus`) with the skipped write (`SkipSettled`) between them, and the clock goes on
between its reads and its write, for `EvalTime` seconds at most; the step has `Hold`,
`Pass` and `Start`. What expression, approvals and verdicts decide is one fact. The
overrides are a list, and the first one in force decides; an edit of the list is a new
generation of the gate, and the status says which generation it was evaluated for.
Templates are left out.

**BranchQueue, Turns.** `Turns` says what the queue promises: one promotion at a time
does git work on a branch. `BranchQueue` has tryTurn, release and the sweep, with the
steps that read the clock before they get the mutex. Its average hold is a tick.

**Subscription.** Replicas with caches of their own poll a source that moves on and
back, list Bundles, create one whose name holds tag, digest and generation, and write
`lastSeenDigest`; what the Subscription selects is edited and edited back; reconciles are
cut off anywhere and answers are lost.

**HealthBake** takes a step from HealthChecking to its end, a tick being
`requeueHealthCheck`. **AutoRollback** has the steps of an environment and its
RollbackPolicy create rollbacks that only their names coordinate. **HookRun** has the
HookRun reconciler, the step's records and, external, the Graph that applies, prunes and
mirrors HookRuns, Jobs and garbage collection. **FairQueue** wraps controller-runtime's
priority queue (external); the steps between the two are where threads interleave.
**ChangeRequest** opens a ticket and reads it, **ChangeLink** decides whose a linked
ticket is. **AuditOutbox** takes as parameters what an entry is, its name, whether the CRD
accepts it and which merge; an entry that `Validate` or the API server refuses is kept in
`refused`, so that only those may be missing; **StepAudit** and **GateAudit** give those of steps and of Bundles.

**CircuitRegistry.** One circuit per owner and one for the quota; each critical section
is an action, so calls interleave between the two. Time is order: a call knows
whether it started before a circuit last opened or was last probed. Two facts about
durations are guards: a backoff (5 s or more) outlasts the instructions between two
critical sections, and HalfOpenTimeout outlasts a call.

**Limiter.** Every operation under the mutex is an action; the dispatch loop one
iteration per action with the mutex held. Timers that were not stopped in time run late.

## 3. The runs

| run | instance | shows |
|---|---|---|
| push_guard | 2 Bundles; one rejected or held; retirement | `PushSafe`: a push that passed the guard has its intent recorded and everyone newer that landed unseen has lapsed. `OlderNeverLandsOverNewer`, `WithdrawnStaysWithdrawn` |
| bundle_reconciler | 2 Bundles that share an artifact, one slot, failed reads | `BundlesSafe`: the cap for every Bundle that was counted, slot holds on Failed or rejected Bundles only. `SettledStays` |
| bundle_liveness | 2 Bundles, one slot | `NothingIsForgotten`: slots, supersessions, recoveries and lifted holds reach whoever waits for them |
| pr_lifecycle | one PR with webhook, deadline and every cancellation; a step recreated with a second PR or the one it had; lagging caches; a repository off the allowlist; a provider without branch deletion | `AdvanceMeansMerged`, `NoLateMerge`, `RejectedMergedIsLive`, `WaitSafe` (deadline, grace window, stopped note) |
| pr_webhook_race | a second PR and a webhook | **violated**: `AdvanceMeansMerged` (finding below) |
| policy_gate | a changing fact; a recreated step and a restart; three overrides (a person's, a brief one, an agent's), alone and in a list, edited three times | `FreshVerdict`, `ResultIsComing` (no lost wake-up), `OverrideWithinCap`, `OverrideEndNoticed`, `PendingStepStarts` |
| subscription | 2 digests, 2 tags, 2 selections, 2 moves, 2 edits, one replica | `NoDuplicate`, `OneBundlePerChange`, `SeenIsTaken` |
| circuit_registry | an owner and the quota, 2 calls, threshold 2 | `RegistrySafe`, `BackoffGrowsOnlyByProbes`, `NoWedge` |
| waits | 4 checks in 3 namespaces, 2 slots, 1 per namespace; and one PR, failing calls, a rejection | `LimiterSafe` (exact counters, caps, no eligible waiter behind a free slot), `FirstComeFirstServed`, `LateExpiryIsHarmless`, `WaiterIsServed`; `WaitEnds`: a merge is noticed, and a PR that stays closed ends the step's wait |
| parts_safety | HealthBake, AutoRollback, HookRun, FairQueue, ChangeRequest, AuditOutbox for a Bundle | `BakeSafe`, `RollbackSafe`, `HooksSafe`, `QueueSafe`, `TicketSafe`, `OutboxSafe` |
| queue_count | FairQueue | **violated**: `QueueCountsOnce` (finding below) |
| parts_progress | BranchQueue, AutoRollback, HookRun, FairQueue, ChangeLink, AuditOutbox for a step | `RefusedFirstServedFirst`, `OneWriterAtATime` (implements `Turns`), `EveryStepGetsItsTurn`, `RollbackIsRecorded`, `StartedRunEnds`, `DueKeyServed`, `EventuallyOne`, `AllRecordsWritten` |

**The finding of pr_webhook_race.** `markPRStatusMerged` lists the PRStatus, asks the SCM
and patches `status.merged` without a resourceVersion. When a recreated step points the
spec at a new PR in between, the merge of the old PR lands on the new PR's status and the
step goes on with its own PR open. `prstatus/reconciler.go` explains that it clears the
status of an old PR so that this cannot happen, and only that clear is locked. The window
is narrow: the old PR, closed with its branch kept, is merged through the API while
the new step opens its own.

**The finding of queue_count.** `fairqueue.go:115` says that `active` counts the keys that
are processing or due, and `TestQueue_BacklogBookkeeping` that a key counts once. `schedule`
adds one for a key that becomes due while a worker has it, so that key counts twice until
`Done` or the next get, and its namespace is served later by it. `QueueSafe` states what
the count is in fact: the keys due or processing, plus those that are both. It never drifts
from that.

## 4. Bounds and fairness

**Bounds.** Two Bundles show every race of an older and a newer one; user actions
(rejection, hold, edits, moves of a source), restarts, faults and ticks are budgets of
each run (`MaxStops`, `MaxRejected`, `MaxMoves`, `Budgets`, `Settings`, a story's `faults`), one or
two of each, chosen so that the mutants recorded in `PROJECT.json` are found with them. Two circuit
calls give a probe and a late call; `MaxOpenings` is where the backoff has reached its
cap. `MaxSeq` lets a check leave the limiter and come back. In PRLifecycle a grace window of
one or two polls and a deadline of one give every order of close, reopen, poll and
deadline; in PolicyGate the times cover a heartbeat, the cap and the second after it, and
`EvalTime` = 1 lets an evaluation straddle one. In parts_safety the audit outbox has two
entries and meets every three edits of two templates that no two records cancel; three are
what a merged record needs to meet the name of another. The fair queue's keys share a
namespace in parts_safety; in parts_progress there is one key in each of two, since a second
one in a namespace is past what TLC checks in minutes, and the penalty that aging must end
comes from the key's own double count. Where
two features only multiply states, they are in separate settings of a run, never both
off. For what section 5 proves the bounds do not matter.
`CHECK_DEADLOCK FALSE`: these systems stop when all is settled or the budgets are used up.

**Fairness.** Never assumed of people, promotions or failures.
* Bundles: the informer delivers, workers take what is queued, the Pipeline's lock does
  not starve, a retried API call succeeds at last, restarts end. Failed Pipeline reads are
  excluded: a Promoting Bundle whose last event meets one is not re-queued.
* PRLifecycle: reconciles and the cache are weakly fair; steps that an error or a
  restart may interrupt are strongly fair (retried with backoff, so at last one
  succeeds).
* PolicyGate, BranchQueue, HookRun, AutoRollback, ChangeLink, AuditOutbox: reconciles that are
  queued or due run, caches catch up, time passes, the Graph (external) applies and
  prunes, Jobs' deadlines are enforced.
* FairQueue: workers, the sweep's ticker and a started add go on.
* Circuit: calls end (the HTTP client has a timeout) and time passes. Nobody has to call.
* Limiter: a goroutine with the mutex goes on; calls end and timers fire; both get the
  mutex because `sync.Mutex` does not starve (strong fairness). No woken check has to claim.

## 5. The proofs

All for arbitrary constants under the named assumptions of the modules: Bundles and
steps are numbered and, where they are counted, finite; null values are none of the
values they stand beside; caps, thresholds and intervals are naturals, positive where the
code defaults them. Every invariant below was checked by TLC before it was proved.

* **PushGuardProofs** (`PushCorrect`, `OlderNeverLands`, `WithdrawnStays`). That an older push
  never lands is not inductive: a push on its way must already be excused.
  `JudgedAfterFetch` says why it is. A step that fetched the head after a newer push
  landed lists steps later still, and `IntentFirst` makes the newer step a candidate, so
  while it judges, the newer Bundle is a candidate or has lapsed. A step that fetched
  earlier is behind, and its push is refused.
* **BundleReconcilerProofs** (`BundlesCorrect`, `Settling`). `SlotInv`: a fresh copy is the
  stored object, so an accepted patch is a legal move of the stored phase; whoever holds
  the lock to promote has room (`SlotReserved`), which others cannot use up since counting
  in needs the lock. `ReconcileShape` reduces the handlers to three shapes.
* **CircuitRegistryProofs** (`RegistryCorrect`, `BackoffGrowth`). `ProbeInv`: a probe exists only
  while half-open, and a running call that did not start before the present probe was
  let through since half-open. It needs `AskingKeepsBackoff` for the call that passed
  its owner's circuit while closed and has not started.
* **LimiterProofs** (`LimiterAlwaysSafe`, `ArrivalOrder`, `LateExpiry`). Counters equal the
  cardinality of the holders; the ready heap covers every namespace that could take a
  slot; hence no eligible waiter is behind a free slot.
* **SubscriptionProofs.** `OneBundleInARow`, for any replicas, while a digest keeps its tag:
  the generations in a digest's names rise without a gap in the order of creation. A
  reconcile about to create generation g saw a prefix that holds g - 1 and does not end
  with its digest; were the newest Bundle that digest's, generation g would exist and the
  create would meet AlreadyExists. Under `One` (one replica, the elected leader), two more.
  `ChangeCounted` (no more Bundles than moves of the source): `CountInv` says that when every
  move has its Bundle the newest answers what the source shows (`NewestAnswers`), and that a
  reconcile about to create has a move left for it (`MoveIsLeft`). `NoChangeMissed`: a reconcile that was
  not cut off writes a digest as seen only after it was taken up (`UncutInv`), and a digest and
  selection that never came back are unheard of until then (`ForwardInv`).
* **PartsProofs**, one result or more per part of `Parts` (the audit outbox excepted):
  * Branch queue (`TurnCorrect`, `Refinement`, `ServedInOrder`). `TurnInv`: the holder is the step
    that works, and nobody else works; so every step of the queue is an `Enter`, an `Exit` or
    a stutter of `Turns`, with `writers` the steps at work. No step takes the turn past one
    that was refused before it and kept its place.
  * Automatic rollback (`RollbackIsSafe`). One rollback per path follows from names alone:
    an environment's own name is tried only when the plain one went to another environment
    or to somebody else (`OwnNames`, `OwnIsSecond`, `JobNames`), and that stays so, since no Bundle
    goes here and a cached one is the stored one or missing (`CacheLags`); a name that was found
    taken is of a Bundle that exists, and one that a step records is its environment's
    (`TakenNames`, `CreatedNames`, `StepNames`).
  * Health check and bake (`BakeIsSafe`, safety and its action parts). `BakeInv`: the times in
    the stored step and in a copy one write behind fit together (`BakeTimes`, `CopyTimes`,
    `CopyBehind`), a running window began after an unbroken run of Healthy results
    (`WindowIsHealthy`, `ContiguousBake`), and each failed check costs one gap between two
    reconciles at most, which bounds the last one (`OnTime`).
  * Change ticket (`TicketIsSafe`). `TicketInv`: a live ticket, a create that runs and one that
    may still land exclude each other (`AtMostOne`); the stored announcement is that of the
    create under way, and by the end of its grace the search shows what came of it
    (`Announced`), because a reconcile is short (`InTime`); a locked write is from the stored
    copy (`ReadsStored`); and an approval, in whatever copy, was the ticket's since the reading
    it is dated with (`TrueCopies`).
  * Fair queue (`QueueIsSafe`), for loads with any mix of priorities. A namespace's count is
    the number of its keys due or processing plus the number of those that are both, two
    finite sets whose cardinalities each step changes together with the count (`ActiveExact`).
    It needs that a due key is queued, at a base it was added with (`DueIsQueued`), and a
    queued one in the inner queue or on its way there, also while an add or a sweep is between
    the two locks (`NoGhost`); and that the add which raises an aged key to a level it was
    added with is on its way, has arrived, or a worker has the key (`AgedIsRaised`).
  * Hooks (`HookSuccessIsReal`), two parts of `HooksSafe`, in every setting: late reads, deletions,
    killed Jobs, crashes and the open window of section 6 included. `HookInv`: a hash, once
    written, stays while the HookRun lives (`HashStays`, because every write is locked); a Job
    has the spec of the HookRun that owns it, names it or is about to (`JobHasSpec`); so what
    is recorded as a success, here, in the mirror or in the step's record, is a completed Job of
    that spec (`Successes`). A skipped hook lets a step pass, and there is one only when the step
    does not start any more or has (`SkipsLast`).
* **PolicyGateProofs** (`GateCorrect`, `StartsFresh`, `NoLostWakeup`, `CapCorrect`, `EndIsNoticed`).
  `GateInv`: every copy is an older or equal version of what it copies (`CopiesOfGate`,
  `CopiesOfStep`); a result was written within `EvalTime` of the reads of its facts
  (`ReadWhenWritten`), and the one a start relies on is at most that much older than the step
  that was read (`JobIsFresh`); an override's
  record stays the first one, whatever cache it was written from (`RecordsKept`); a step
  newer than the result has the gate queued, being evaluated, or an event to come; and the
  override that a result names is the one its list decides on, in every version of the gate
  that is still about, with an evaluation due when it ends (`EndsKept`, `DecidedByList`).
* **PRLifecycleProofs.** In every setting, second PRs included: `PRCorrect`
  (`PRInv`: types, the close under way, what a patch may change, and the grace window in every
  copy, which unlike the others speaks of caches that do not lag), `GraceKept` and
  `RejectionSpares` (a rejected step whose PR had merged is not failed for the rejection, lag
  or not, while its repository is allowed). Under `Apart` (one PR, or neither webhook nor lagging cache):
  `AdvanceCorrect`, `ClosedStaysUnmerged`, `WaitCorrect`. `ApartInv` adds to `PRInv` that `merged` in
  the status, the cache or a patch on its way is true of the PR it speaks about
  (`MergedInv`), that a poll writes over what it read (`PollInv`), that a merge once stored stays
  (`StoredInv`), the same for merges before the deadline (`InTimeInv`), and that a PR closed for
  good has lost its branch (`BranchInv`, for an allowed repository and a provider that deletes
  branches). `Apart` is not a convenience: pr_webhook_race is the
  counterexample without it. It holds for the settings of pr_lifecycle.

**Only model-checked**, and why:
* `NothingIsForgotten`, `WaitEnds`, `PendingStepStarts`, `NoWedge`, `WaiterIsServed` and the temporal
  properties of parts_progress other than order and refinement: liveness under fairness
  is out of this prover's reach.
* `OutboxSafe`: what an enqueue leaves in the outbox is a fold over a sequence of entries,
  so a proof is an induction over data. It is also not true of every story (section 6).
* The rest of `HooksSafe` (`RunsOnce`, `NotCutOff`, `NoOverlap`): true in the settings of the run
  and not in all (section 6), so there is no theorem for every value of the constants.

## 6. What the passing runs assume, and what happens otherwise

Each item is behaviour of the code that TLC showed with the setting or instance it names,
or that a property's guard excludes; the properties in the runs are what remains true.

* **PushGuard**, `OnlyFailedOrRejectedIsOverwritten` fails with three Bundles:
  `SupersedingSiblings` skips Superseded ones, so Bundle 1 (its own supersession not yet
  written) lands over 2 that 3 superseded. `docs/architecture.md:289` excepts only rejected
  and Failed Bundles. Bundle 3 is about to push, so this usually passes.
* **CircuitRegistry**, `OneProbeAtATime` fails with three calls: `cancelProbe` clears
  whichever probe is out. `RetryAfterHonoured` fails: a retry time learned while half-open is
  stored in `openUntil`, which `Allow` does not read in that state.
* **BundleReconciler**, `CapHolds` fails with failed Pipeline reads: a Failed Bundle then
  recovers without lock or count. `BundlesSafe` speaks of Bundles that were counted.
* **PRLifecycle**: besides the webhook race, a lagging cache over a second PR breaks
  `AdvanceMeansMerged`. The deadline and the grace window are stated for caches that do not
  lag (`~env.stale`): a merge recorded and not yet in the cache is failed by the deadline,
  though `docs/reference/pipeline.md:156` says it never is, and a poll that read an old
  copy can keep a window running that a reopen had ended. The stopped-tracking
  comment can go to a new PR that the spec names by then. `NoLateMerge` excepts two settings,
  in which the step ends as if its PR had been dealt with and the PR can still merge, and
  nothing tells anybody to close it by hand. When the repository has left the allowlist,
  `closeStepPRMerged` returns without an error and the PR stays open with its branch; the
  comment there (`promotionstep/reconciler.go:747`) says that kardinal opened nothing in that
  repository, which is so only if it was never allowed. A rejected step whose PR had merged is
  then failed, too. And when the provider is no `BranchDeleter`, `deletePRBranch` leaves the
  branch, with which a closed PR can be merged through the API. An empty branch name, which a
  step with a PR does not have, and a branch without a PR whose Pipeline is gone
  (`deleteBranchWithoutPR`) are not modelled.
* **PolicyGate**: `lastEvaluatedAt` is stamped at the write (`policygate/reconciler.go:1192`), after
  the facts were read, so the comment on `checkRequiredGates`
  (`promotionstep/reconciler.go:2371`), that a result written at or after the step's creation
  was computed after the Graph decided to create it, is false: with an evaluation that
  straddles a second, however short, `ComputedAfterDecision` fails in `MCPolicyGate` within
  seconds. A fact changes between an evaluation's reads and its write, the Graph creates the
  step on the earlier result, and the step starts on the old facts. What
  remains is `FreshVerdict`: the facts are at most one evaluation older than the step. It
  speaks of steps created once: `patchStatusLocked` does not compare UIDs, so a Pending step
  deleted and created again can start on the result checked for its predecessor.
  `OverrideEndNoticed` rests on the order of the overrides: if the gate could name any of two
  that are in force, as an unordered set would allow, the earlier end would pass unnoticed.
* **HealthBake**: with an outdated copy (`stale`) an Unhealthy result before the cached
  window's start leaves the stored window running, so `ContiguousBake` fails, and
  `bakeFirstStartedAt` is rewritten. With an unreachable remote cluster nothing looks at the
  expiry before the first window, so `EndsInTime` fails. Both are excluded in those
  properties; `BakeTimes` holds in all settings.
* **AutoRollback**: the two paths can each create a rollback of one Bundle in an
  environment; `RollbackSafe` has one per path. After AlreadyExists the policy asks the
  cached client who took the name and can record another environment's rollback; a policy
  whose outcome patch failed can forget its rollback while the cache lacks it.
  `RollbackIsRecorded` is checked without failing API calls.
* **HookRun**: between createJob and the write of the Job's UID a deleted HookRun is let
  go. With that window open (`window`) a hook can run twice, be cut off or overlap its sibling;
  `HooksSafe` is checked with it closed and with a mirror that keeps up. `RunsOnce` needs two
  more facts, which the proof attempt showed: `RecordGrace` is not 0; and after a crash before
  the Job's UID is written the next reconcile comes before the run's deadline. Otherwise the
  Job has ended, the run is adopted as Running, is found expired when it is deleted, is let
  go at once (there is no finishedAt to wait `recordGrace` from) before the mirror took its
  result, and is applied and run again.
* **FairQueue**: besides the double count (queue_count), a deleted key's old heap entry can
  match its new state. A key that aged and is then added at a higher level stays marked as
  aged and is not raised to that level's base, though `fairqueue.go:36` promises a bounded
  wait behind keys of its own level: `AgedAtBase` promises the base of one of the levels it
  was added with. Branch-turn waiters, added low and woken at the normal priority, are such
  keys. Get and Done race adds
  outside the mutex, so a key in process may be uncounted and one in the inner queue may miss
  aging. What remains: the count does not drift, there are no ghosts, and keys are served
  under the checked load.
* **ChangeRequest**: a provider's latency and index lag together are within CreateGrace, and
  the latency alone is below it. With no lag and a latency equal to the grace, a create still
  on its way when the grace ends gets a second ticket; the code's grace is 2 minutes and its
  calls time out long before.
  **ChangeLink**: two instances can both be verified until the later one's next poll
  (`EventuallyOne` is what remains of `docs/change-requests.md:362`), and for good when the
  ticket carries one's correlation id.
* **Subscription**: Bundles are ordered by creation. A digest that gets a new tag while the
  list lags gets a second Bundle; a replica with a slow poll adds Bundles; an edit with
  stale reads can add one without a change; and when a reconcile is cut off before its status
  write and the source moves back, or the selection is edited back, that change is missed
  (`SeenIsTaken` excepts both).
* **AuditOutbox**: `slugifyAction` gives PRMerged and ReceiptFailed one name, so a step with
  both loses the second; the stories of steps have one of the two. A record that `Validate`
  or the API server refuses, or whose namespace is being deleted, is dropped: `NoRecordLost`
  and `AllWritten` except those, and nothing else. So a full outbox may lose no record of the
  checked stories, in which always two of its entries merge; when none do it drops the oldest,
  which `Enqueue` documents. Two records that cancel out (a template added and removed again)
  do not merge, and then the record of a changed rule is pushed out, though
  `gate_audit.go:204` says that gate edits never push out the version's other records; and a
  template that is removed, restored and removed again gives two merged records one name,
  so the second is taken for written. Both need a stamp to come back, and the stories
  (`ThreeEdits`) have all the edits in which none does.

## 7. What is not modelled

`PROJECT.json` lists every component with its status. Not modelled: the Pipeline
reconciler (derives status), Graph building and translation, CEL, receipts (pure
data), the step engine (sequential), ScheduleClock and ChangeWindow (calendar arithmetic
that feeds gates), ImageVerification, RenderRun, NotificationHook, health and SCM adapters, UI
and CLI (I/O), retention, agents, sharding, and the external kro controller, whose
effects are environment actions. The PromotionStep reconciler is modelled concern
by concern and not as one machine: freezes, pauses of a running step, `refreshPRBranch` and
receipts are left out.

## 8. Plan

Done: the components of section 1 with modules, their runs, and the proofs of section 5,
which cover every safety property of the runs except `OutboxSafe` and the parts of `HooksSafe`
named there. Next: an outbox whose enqueue is stated as a relation between outboxes rather
than a fold, so that `NothingInvented` and the order of records can be proved; a condition on
the settings under which `RunsOnce` holds. Abstract specifications worth adding are a slot
semaphore that `BundleReconciler` implements and a register that `PushGuard` implements.
