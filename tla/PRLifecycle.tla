----------------------------- MODULE PRLifecycle -----------------------------
(***************************************************************************)
(* The pull request of one PromotionStep, seen by everyone who acts on it: *)
(* the SCM and the people who merge, close and reopen it; the PRStatus     *)
(* reconciler that polls it; the webhook that hints a merge; and the       *)
(* PromotionStep reconciler that waits for it, times it out, cancels it    *)
(* and closes it.  The PRStatus object is the only thing the reconcilers   *)
(* share.  Its status is patched WITHOUT a resourceVersion by the poll and *)
(* by the webhook, so a write is the difference between what its author    *)
(* read and what it wants (MergePatch), applied to whatever is stored.     *)
(*                                                                         *)
(* Time runs in ticks of requeuePollInterval; timestamps are kept as ages, *)
(* capped where nothing distinguishes larger ones.  The generation of the  *)
(* PRStatus is abstracted to the PR number its spec names: a spec never    *)
(* returns to an earlier PR, so status.observedGeneration is "obs", the PR *)
(* the status was written for (None: never written).                       *)
(***************************************************************************)
EXTENDS Naturals

CONSTANTS
    MaxPR,       \* bound: pull requests the step and its successors open
    Settings,    \* the situations a behaviour may start in, each a record of Setting
    None         \* no time, and no PR: larger than every one

\* opens:   the pull requests of this behaviour
\* grace:   ClosedGracePeriod, in ticks; also mergeCommitWindow and lastCheckedRefresh
\* timeout: spec.waitForMergeTimeout in ticks, 0: wait forever
\* retries: maxStepRetries, the close retries of a cancelled step
\* webhook: the SCM delivers merge events
\* halts:   the ways the step may be cancelled
\* deletes: the comebacks of a deleted step
\* stale:   reconcilers read the PRStatus from a lagging cache
\* allowed: the repository stays on the controller's allowlist; otherwise any call may be refused
\* deleter: the provider can delete the step's branch
Setting == [opens : 1..MaxPR, grace : Nat \ {0}, timeout : Nat, retries : Nat,
            webhook : BOOLEAN, stale : BOOLEAN, allowed : BOOLEAN, deleter : BOOLEAN,
            halts : SUBSET {"superseded", "rejected", "held"},
            deletes : SUBSET {"none", "reuses", "pushes"}]

ASSUME PRAssumption ==
    /\ MaxPR \in Nat \ {0} /\ Settings \subseteq Setting
    /\ None \in Nat /\ MaxPR < None
    /\ \A s \in Settings : s.grace < None /\ s.timeout < None

PRs  == 1..MaxPR

VARIABLES
    env,     \* the setting of this behaviour
    pr,      \* the SCM: PR number -> "none", "open", "closed", "merged"
    branch,  \* the SCM: the step's head branch exists
    notes,   \* the SCM: PR number -> the comments kardinal left on it
    prs,     \* the PRStatus object in the API server
    cache,   \* the informer's copy of it (only with env.stale)
    poll,    \* the PRStatus reconcile in flight: what it read and what it will patch
    hook,    \* the webhook request in flight
    step,    \* the PromotionStep
    job,     \* the step reconcile in flight that is closing the PR
    halt,    \* why the Bundle's steps are cancelled, or "none"
    seenOpen,   \* history: age of the last finished poll that found the PR open
    inTime      \* history: the merge was recorded before the step's deadline

Grace == env.grace
Ages  == 0..Grace \cup {None}

vars == <<env, pr, branch, notes, prs, cache, poll, hook, step, job, halt, seenOpen, inTime>>
scm  == <<pr, branch, notes>>
Idle == [kind |-> "idle"]

StepStates == {"Promoting", "WaitingForMerge", "HealthChecking", "Failed", "Gone"}
Reasons    == {"none", "superseded", "rejected", "held", "timeout", "failed", "deleted", "closed", "pollError"}

PRStatusOf == [num : 0..MaxPR, mark : 0..MaxPR, obs : 0..MaxPR \cup {None},
               merged : BOOLEAN, open : BOOLEAN, checked : Ages, closedAt : Ages,
               final : BOOLEAN, err : BOOLEAN, by : {"none", "known", "unavailable"}]

StepOf == [st : StepStates, pushed : BOOLEAN, since : 0..MaxPR, pr : 0..MaxPR, why : Reasons, byHand : BOOLEAN,
           exp : 0..env.timeout \cup {None}, tries : 0..env.retries,
           del : {"no", "none", "reuses", "pushes"}]
PatchOf(k) == {Idle} \cup [kind : {k}, base : PRStatusOf, new : PRStatusOf]
JobOf == {Idle} \cup [kind : {"job"}, why : {"superseded", "rejected", "held", "timeout", "failed", "deleted"},
                      pr : 0..MaxPR, at : {"get", "close", "note", "delete"}, mergedAtStart : BOOLEAN]

TypeOK ==
    /\ env \in Settings
    /\ pr \in [PRs -> {"none", "open", "closed", "merged"}] /\ branch \in BOOLEAN
    /\ notes \in [PRs -> SUBSET {"closed", "stopped"}]
    /\ prs \in PRStatusOf /\ cache \in PRStatusOf
    /\ poll \in PatchOf("poll") /\ hook \in PatchOf("hook")
    /\ step \in StepOf /\ job \in JobOf
    /\ halt \in env.halts \cup {"none"}
    /\ seenOpen \in 0..Grace /\ inTime \in BOOLEAN

-----------------------------------------------------------------------------
(* The PRStatus and what its readers make of it.                           *)

NoStatus(c) == [c EXCEPT !.obs = None, !.merged = FALSE, !.open = FALSE, !.checked = None,
                         !.closedAt = None, !.final = FALSE, !.err = FALSE, !.by = "none"]

DescribesSpec(c) == c.obs = None \/ c.obs = c.num

IsClosed(c) == ~c.merged /\ c.checked # None /\ ~c.open

IsClosedFinal(c) == ~c.merged /\ (c.final \/ (IsClosed(c) /\ c.closedAt = None))

ClosedByKardinal(c) == c.num # 0 /\ c.mark = c.num

\* A merge patch: the fields the author changed, over what is stored now.
MergePatch(j) == [f \in DOMAIN prs |-> IF j.new[f] # j.base[f] THEN j.new[f] ELSE prs[f]]

View == IF env.stale THEN cache ELSE prs

Older(a) == IF a = None \/ a = Grace THEN a ELSE a + 1
Aged(c) == [c EXCEPT !.checked = Older(@), !.closedAt = Older(@)]

-----------------------------------------------------------------------------
(* The step's own view of the PR.                                          *)

\* n is the PR in the step's outputs, 0 for none.
PRStatusOfStepPR(c, n) == (n = 0 \/ c.num = n) /\ DescribesSpec(c)

StepPRMerged(c, n) == PRStatusOfStepPR(c, n) /\ c.merged

MergerPending(c) == c.by = "none"

Live == step.st \in {"Promoting", "WaitingForMerge"} /\ step.del = "no" /\ job = Idle

\* A step as kro creates it; the PRs up to since were opened before it.
NewStep(since) ==
    [st |-> "Promoting", pushed |-> FALSE, since |-> since, pr |-> 0, why |-> "none", byHand |-> FALSE,
     exp |-> None, tries |-> 0, del |-> "no"]

-----------------------------------------------------------------------------
Init ==
    /\ env \in Settings
    /\ pr = [n \in PRs |-> "none"] /\ branch = FALSE /\ notes = [n \in PRs |-> {}]
    /\ prs = [num |-> 0, mark |-> 0, obs |-> None, merged |-> FALSE, open |-> FALSE, checked |-> None,
              closedAt |-> None, final |-> FALSE, err |-> FALSE, by |-> "none"]
    /\ cache = prs
    /\ poll = Idle /\ hook = Idle /\ job = Idle
    /\ step = NewStep(0)
    /\ halt = "none"
    /\ seenOpen = Grace /\ inTime = FALSE

-----------------------------------------------------------------------------
(* The SCM and its users (external).                                       *)

\* GitHub's API merges a closed PR without reopening it, as long as its head branch is there.
Merge(n) ==
    /\ pr[n] \in {"open", "closed"} /\ branch
    /\ pr' = [pr EXCEPT ![n] = "merged"]
    /\ UNCHANGED <<env, branch, notes, prs, cache, poll, hook, step, job, halt, seenOpen, inTime>>

CloseByHand(n) ==
    /\ pr[n] = "open"
    /\ pr' = [pr EXCEPT ![n] = "closed"]
    /\ UNCHANGED <<env, branch, notes, prs, cache, poll, hook, step, job, halt, seenOpen, inTime>>

Reopen(n) ==
    /\ pr[n] = "closed" /\ branch /\ \A m \in PRs : pr[m] # "open"
    /\ pr' = [pr EXCEPT ![n] = "open"]
    /\ UNCHANGED <<env, branch, notes, prs, cache, poll, hook, step, job, halt, seenOpen, inTime>>

-----------------------------------------------------------------------------
(* The PRStatus reconciler.                                                *)

\* The stored merge counts as in time when the step's deadline has not passed.
Recorded(c) == inTime' = (inTime \/ (step.st = "WaitingForMerge" /\ step.exp # 0 /\ StepPRMerged(c, step.pr)))

ClosedState(c, merged, open) ==
    IF merged \/ open THEN <<None, FALSE>>
    ELSE IF c.closedAt = None THEN <<0, FALSE>>
    ELSE <<c.closedAt, c.closedAt >= Grace>>

ClearedForNewPR(c) == [NoStatus(c) EXCEPT !.obs = c.num]

\* clearForNewPR carries the resourceVersion it read: a stale clear conflicts and changes nothing.
ClearForNewPR ==
    /\ poll = Idle /\ ~DescribesSpec(View) /\ View = prs
    /\ prs' = ClearedForNewPR(View)
    /\ Recorded(prs')
    /\ UNCHANGED <<env, scm, cache, poll, hook, step, job, halt, seenOpen>>

\* recordMergeCommit: who merged, as the SCM answers, or unavailable after the window.
RecordMerger ==
    /\ poll = Idle /\ DescribesSpec(View) /\ View.merged /\ MergerPending(View)
    /\ \E by \in IF View.checked = Grace THEN {"unavailable"} ELSE {"known", "unavailable"} :
           poll' = [kind |-> "poll", base |-> View, new |-> [View EXCEPT !.by = by, !.obs = View.num]]
    /\ UNCHANGED <<env, scm, prs, cache, hook, step, job, halt, seenOpen, inTime>>

\* Mutant: a PR once seen closed is not polled again.
PollsOnlyOpen == /\ poll = Idle /\ DescribesSpec(View) /\ ~View.merged /\ ~IsClosed(View)
                 /\ View.num # 0 /\ View.checked # 0

Polls == /\ poll = Idle /\ DescribesSpec(View) /\ ~View.merged /\ ~IsClosedFinal(View)
         /\ View.num # 0 /\ View.checked # 0

\* GetPRStatus and GetPRReviewStatus answered; the patch follows if anything changed or is stale.
Poll ==
    LET c == View  merged == pr[c.num] = "merged"  open == pr[c.num] = "open"
        closed == ClosedState(c, merged, open)
    IN  /\ Polls
        /\ \E by \in IF merged THEN {"none", "known", "unavailable"} ELSE {c.by} :
             LET new == [c EXCEPT !.obs = c.num, !.merged = merged, !.open = open, !.err = FALSE,
                                  !.closedAt = closed[1], !.final = closed[2], !.by = by]
             IN  poll' = IF new # c \/ c.checked \in {None, Grace}
                           THEN [kind |-> "poll", base |-> c, new |-> [new EXCEPT !.checked = 0]]
                           ELSE Idle
        /\ seenOpen' = IF open /\ poll' = Idle THEN 0 ELSE seenOpen
        /\ UNCHANGED <<env, scm, prs, cache, hook, step, job, halt, inTime>>

\* recordPollError: 401, 403, 404, 410.  A transient error changes nothing.
PollFails ==
    /\ Polls
    /\ poll' = [kind |-> "poll", base |-> View, new |-> [View EXCEPT !.err = TRUE, !.obs = View.num]]
    /\ poll'.new # poll'.base
    /\ UNCHANGED <<env, scm, prs, cache, hook, step, job, halt, seenOpen, inTime>>

\* The first final close is commented on unless kardinal closed the PR itself; c is the patch's answer.
StoppedNote(c) == poll.new.final /\ ~poll.base.final /\ ~ClosedByKardinal(c)

PatchPolled ==
    /\ poll # Idle
    /\ prs' = MergePatch(poll)
    /\ \E noted \in BOOLEAN :
           /\ noted => StoppedNote(prs')
           /\ notes' = IF noted THEN [notes EXCEPT ![prs'.num] = @ \cup {"stopped"}] ELSE notes
    /\ poll' = Idle
    /\ Recorded(prs')
    /\ seenOpen' = IF poll.new.open /\ ~poll.new.err THEN 0 ELSE seenOpen
    /\ UNCHANGED <<env, pr, branch, cache, hook, step, job, halt>>

-----------------------------------------------------------------------------
(* The webhook: a merge event, confirmed with the SCM before it is marked.  Events are lost and    *)
(* repeated, so any merged PR may be announced at any time.                                        *)

\* Mutant: the event is taken without asking the SCM.
AnnouncedUnconfirmed(n) == pr[n] # "none"

\* mergeConfirmed: the SCM reports the PR of the event merged.
MergeConfirmed(n) == pr[n] = "merged"

HookReads(n) ==
    LET c == View IN
    /\ env.webhook /\ hook = Idle /\ MergeConfirmed(n)
    /\ c.num = n /\ ~(DescribesSpec(c) /\ c.merged)
    /\ hook' = [kind |-> "hook", base |-> c,
                new |-> [(IF DescribesSpec(c) THEN c ELSE NoStatus(c))
                           EXCEPT !.obs = n, !.merged = TRUE, !.open = FALSE, !.checked = 0]]
    /\ UNCHANGED <<env, scm, prs, cache, poll, step, job, halt, seenOpen, inTime>>

HookPatches ==
    /\ hook # Idle
    /\ prs' = MergePatch(hook)
    /\ hook' = Idle
    /\ Recorded(prs')
    /\ UNCHANGED <<env, scm, cache, poll, step, job, halt, seenOpen>>

-----------------------------------------------------------------------------
(* The step: opening the PR and waiting for it.                            *)

\* patchPRStatusSpec, decided on the copy of the PRStatus that was read.
PatchSpec(c, n) == IF c.num = n THEN prs ELSE [prs EXCEPT !.num = n]

StartsClosing(why, n) ==
    job' = [kind |-> "job", why |-> why, pr |-> n, at |-> "get",
            mergedAtStart |-> \E m \in PRs : n = m /\ pr[m] = "merged"]

Runs == Live /\ step.st = "Promoting" /\ halt \notin {"superseded", "rejected"}

SomeMerged == \E n \in PRs : pr[n] = "merged"

\* git-clone to git-push: with the change not yet in the base branch there is something to push.
Push ==
    /\ Runs /\ ~step.pushed /\ ~SomeMerged
    /\ branch' = TRUE /\ step' = [step EXCEPT !.pushed = TRUE]
    /\ UNCHANGED <<env, pr, notes, prs, cache, poll, hook, job, halt, seenOpen, inTime>>

\* git-commit found nothing to commit: a run of the same step that lost its PR adopts it merged
\* (adoptMergedPR); without one the step is done and goes to its health check.
CommittedNothing ==
    LET own == {n \in PRs : n > step.since /\ pr[n] = "merged"} IN
    IF step.pushed /\ own # {}
      THEN \E n \in own : /\ step' = [step EXCEPT !.st = "WaitingForMerge", !.pr = n]
                           /\ prs' \in {prs, PatchSpec(View, n)}
      ELSE step' = [step EXCEPT !.st = "HealthChecking"] /\ UNCHANGED prs

NothingToCommit ==
    /\ Runs /\ SomeMerged
    /\ CommittedNothing
    /\ UNCHANGED <<env, scm, cache, poll, hook, job, halt, seenOpen, inTime>>

\* The PR open-pr finds or opens: the open PR of the branch, else the next one.
CanOpen(n) == \/ pr[n] = "open"
              \/ pr[n] = "none" /\ n <= env.opens /\ (\A m \in PRs : pr[m] # "open") /\ (\A m \in 1..n-1 : pr[m] # "none")

\* open-pr, then the transition, which may be lost, and the best-effort spec patch; or a later
\* failure of the run, which closes the PR again (handleStepError).
OpenPR ==
    /\ Runs /\ step.pushed /\ branch
    /\ \E n \in PRs :
          /\ CanOpen(n)
          /\ pr' = [pr EXCEPT ![n] = "open"]
          /\ \/ UNCHANGED <<step, prs, job>>
             \/ /\ step' = [step EXCEPT !.st = "WaitingForMerge", !.pr = n]
                /\ prs' \in {prs, PatchSpec(View, n)} /\ UNCHANGED job
             \/ StartsClosing("failed", n) /\ UNCHANGED <<step, prs>>
    /\ seenOpen' = Grace
    /\ UNCHANGED <<env, branch, notes, cache, poll, hook, halt, inTime>>

\* The deadline, set by the first reconcile that does not see the merge.
Deadline == IF env.timeout > 0 /\ step.exp = None /\ ~StepPRMerged(View, step.pr) THEN env.timeout ELSE step.exp

Held == halt = "held" /\ ~StepPRMerged(View, step.pr)

\* Mutant: the deadline is checked before the recorded merge is looked at.
TimedOutAnyway == Deadline = 0

TimedOut == Deadline = 0 /\ ~StepPRMerged(View, step.pr)

\* handleWaitingForMerge from the PRStatus read on: fix its spec, wait for the merger, go on, or fail.
Decide(c) ==
    LET s == [step EXCEPT !.exp = Deadline] IN
    \/ /\ ~PRStatusOfStepPR(c, step.pr)
       /\ prs' = PatchSpec(c, step.pr)
       /\ step' = s
    \/ /\ PRStatusOfStepPR(c, step.pr) /\ (c.merged => MergerPending(c)) /\ ~IsClosedFinal(c) /\ (c.err => c.merged)
       /\ step' = s /\ UNCHANGED prs
    \/ /\ StepPRMerged(c, step.pr) /\ ~MergerPending(c)
       /\ step' = [s EXCEPT !.st = "HealthChecking", !.exp = None] /\ UNCHANGED prs
    \/ /\ PRStatusOfStepPR(c, step.pr) /\ IsClosedFinal(c)
       /\ step' = [s EXCEPT !.st = "Failed", !.why = "closed", !.exp = None] /\ UNCHANGED prs
    \/ /\ PRStatusOfStepPR(c, step.pr) /\ ~c.merged /\ ~IsClosedFinal(c) /\ c.err
       /\ step' = [s EXCEPT !.st = "Failed", !.why = "pollError", !.exp = None] /\ UNCHANGED prs

Wait ==
    /\ Live /\ step.st = "WaitingForMerge" /\ halt \notin {"superseded", "rejected"}
    /\ \/ Held /\ StartsClosing("held", step.pr) /\ UNCHANGED <<prs, step>>
       \/ ~Held /\ TimedOut /\ StartsClosing("timeout", step.pr) /\ UNCHANGED <<prs, step>>
       \/ ~Held /\ ~TimedOut /\ Decide(View) /\ UNCHANGED job
    /\ UNCHANGED <<env, scm, cache, poll, hook, halt, seenOpen, inTime>>

-----------------------------------------------------------------------------
(* The step: cancelling, deleting, and closing its PR.                     *)

\* The supersession and rejection guard of reconcileState.
Cancel ==
    /\ Live /\ halt \in {"superseded", "rejected"}
    /\ StartsClosing(halt, step.pr)
    /\ UNCHANGED <<env, scm, prs, cache, poll, hook, step, halt, seenOpen, inTime>>

\* handleDeleted; the comeback was read from the API server.
CloseDeleted ==
    /\ step.del # "no" /\ step.st \in {"Promoting", "WaitingForMerge"} /\ job = Idle
    /\ IF step.del = "reuses"
         THEN step' = [step EXCEPT !.st = "Gone", !.why = "deleted"] /\ UNCHANGED job
         ELSE StartsClosing("deleted", step.pr) /\ UNCHANGED step
    /\ UNCHANGED <<env, scm, prs, cache, poll, hook, halt, seenOpen, inTime>>

\* Mutant: rejection cancels the step whether or not its PR merged.
MergedIsNeverLive(why) == FALSE

MergedIsLive(why) == why = "rejected"

\* Mutant: the branch of a closed PR is kept.
KeepsEveryBranch == TRUE

\* The branch stays for the step that comes back and pushes it, or because nothing can delete it.
KeepsBranch == (job.why = "deleted" /\ step.del = "pushes") \/ ~env.deleter

Ended(why, byHand) ==
    step' = [step EXCEPT !.st = IF why = "deleted" THEN "Gone" ELSE "Failed",
                         !.pr = job.pr, !.why = why, !.byHand = byHand, !.exp = None]

\* The PR was already merged: the step ends, unless it was rejected.  Then the handler of its state
\* runs: a promotion finds nothing to commit, or, had another PR merged, its push is refused.
FoundMerged ==
    CASE ~MergedIsLive(job.why) -> Ended(job.why, FALSE) /\ job' = Idle /\ UNCHANGED prs
      [] MergedIsLive(job.why) /\ step.st = "Promoting" ->
            IF SomeMerged THEN CommittedNothing /\ job' = Idle
            ELSE StartsClosing("failed", step.pr) /\ UNCHANGED <<prs, step>>
      [] MergedIsLive(job.why) /\ step.st # "Promoting" /\ TimedOut ->
            StartsClosing("timeout", step.pr) /\ UNCHANGED <<prs, step>>
      [] OTHER -> Decide(View) /\ job' = Idle

\* The PR to close: the step's own, or, for a step that recorded none, the one its PRStatus names.
StepPR == IF job.pr = 0 /\ DescribesSpec(View) THEN View.num ELSE job.pr

\* The SCM's answer about it; without a PR nothing is asked.
AnswerFor(n) == IF n = 0 THEN "none" ELSE pr[n]

\* closeStepPRWithSCM up to the SCM's answer: a recorded merge is final and not asked again.
AskSCM ==
    LET answer == AnswerFor(StepPR)
        merged == StepPRMerged(View, job.pr) \/ answer = "merged" IN
    /\ job # Idle /\ job.at = "get"
    /\ \/ merged /\ FoundMerged
       \/ /\ ~merged
          /\ job' = [job EXCEPT !.pr = StepPR, !.at = IF answer = "open" THEN "close" ELSE "delete"]
          /\ UNCHANGED <<prs, step>>
    /\ UNCHANGED <<env, scm, cache, poll, hook, halt, seenOpen, inTime>>

\* closeStepPRMerged: the allowlist refuses a call.  The PR and its branch are left alone, and the
\* step ends as if they were closed.
NotAllowed ==
    /\ ~env.allowed /\ job # Idle /\ job.at \in {"get", "close", "delete"}
    /\ job.at = "get" => ~StepPRMerged(View, job.pr)
    /\ Ended(job.why, FALSE)
    /\ job' = Idle
    /\ UNCHANGED <<env, scm, prs, cache, poll, hook, halt, seenOpen, inTime>>

\* ClosePR; a PR merged since the SCM was asked stays merged.
ClosePR ==
    /\ job # Idle /\ job.at = "close"
    /\ pr' = [pr EXCEPT ![job.pr] = IF @ = "open" THEN "closed" ELSE @]
    /\ job' = [job EXCEPT !.at = "note"]
    /\ UNCHANGED <<env, branch, notes, prs, cache, poll, hook, step, halt, seenOpen, inTime>>

\* markPRStatusClosedByKardinal, then the best-effort comment.
NotePR ==
    /\ job # Idle /\ job.at = "note"
    /\ prs' = IF View.num = job.pr THEN [prs EXCEPT !.mark = job.pr] ELSE prs
    /\ notes' \in {notes, [notes EXCEPT ![job.pr] = @ \cup {"closed"}]}
    /\ job' = [job EXCEPT !.at = "delete"]
    /\ UNCHANGED <<env, pr, branch, cache, poll, hook, step, halt, seenOpen, inTime>>

DeleteBranch ==
    /\ job # Idle /\ job.at = "delete"
    /\ branch' = (branch /\ KeepsBranch)
    /\ Ended(job.why, FALSE)
    /\ job' = Idle
    /\ UNCHANGED <<env, pr, notes, prs, cache, poll, hook, halt, seenOpen, inTime>>

RetryLeft == step.tries < env.retries

\* An SCM call failed: a cancelled step retries, then fails with the PR left to close by hand; a
\* timed-out or failed step fails at once; a deleted one retries until closePRDeadline, then goes.  The wait
\* for an open circuit spends no retry.
CloseFails ==
    /\ job # Idle /\ job.at \in {"get", "close", "delete"}
    /\ CASE job.why \in {"timeout", "failed"} -> Ended(job.why, TRUE)
         [] job.why = "deleted" -> UNCHANGED step \/ Ended("deleted", TRUE)
         [] OTHER -> \/ UNCHANGED step
                     \/ IF RetryLeft THEN step' = [step EXCEPT !.tries = @ + 1]
                                     ELSE Ended(job.why, TRUE)
    /\ job' = Idle
    /\ UNCHANGED <<env, scm, prs, cache, poll, hook, halt, seenOpen, inTime>>

-----------------------------------------------------------------------------
(* The environment: the Bundle, the step's deletion, time, crashes.        *)

Halt(why) ==
    /\ halt = "none" /\ halt' = why
    /\ UNCHANGED <<env, scm, prs, cache, poll, hook, step, job, seenOpen, inTime>>

\* (Bound: a step that came after another one's PR is not deleted in turn.)
DeleteStep(back) ==
    /\ step.since = 0 /\ step.st \in {"Promoting", "WaitingForMerge"} /\ step.del = "no" /\ job = Idle
    /\ step' = [step EXCEPT !.del = back]
    /\ UNCHANGED <<env, scm, prs, cache, poll, hook, job, halt, seenOpen, inTime>>

\* kro applies the step again: a new object of the same name, with the same PRStatus.
Recreate ==
    /\ step.st = "Gone" /\ halt = "none" /\ \E n \in 1..env.opens : pr[n] \in {"none", "open"}
    /\ \E since \in 0..MaxPR :
          /\ \A m \in PRs : pr[m] # "none" <=> m <= since
          /\ step' = NewStep(since)
    /\ inTime' = FALSE
    /\ UNCHANGED <<env, scm, prs, cache, poll, hook, job, halt, seenOpen>>

SyncCache ==
    /\ env.stale /\ cache # prs
    /\ cache' = prs
    /\ UNCHANGED <<env, scm, prs, poll, hook, step, job, halt, seenOpen, inTime>>

\* A reconcile and a webhook request are shorter than a tick.
Tick ==
    /\ poll = Idle /\ hook = Idle /\ job = Idle
    /\ prs' = Aged(prs) /\ cache' = IF env.stale THEN Aged(cache) ELSE cache
    /\ seenOpen' = Older(seenOpen)
    /\ step' = [step EXCEPT !.exp = IF @ \in 1..env.timeout THEN @ - 1 ELSE @]
    /\ UNCHANGED <<env, scm, poll, hook, job, halt, inTime>>

\* The controller restarts: what was in flight is gone.
Crash ==
    /\ poll' = Idle /\ hook' = Idle /\ job' = Idle
    /\ cache' = IF env.stale THEN prs ELSE cache
    /\ UNCHANGED <<env, scm, prs, step, halt, seenOpen, inTime>>

-----------------------------------------------------------------------------
People == \E n \in PRs : Merge(n) \/ CloseByHand(n) \/ Reopen(n)
PRStatusReconcile == ClearForNewPR \/ RecordMerger \/ Poll \/ PollFails \/ PatchPolled
MergeEvent == HookPatches \/ \E n \in PRs : HookReads(n)
StepReconcile == Push \/ NothingToCommit \/ OpenPR \/ Wait \/ Cancel \/ CloseDeleted
Closing == AskSCM \/ NotAllowed \/ ClosePR \/ NotePR \/ DeleteBranch \/ CloseFails
Environment == (\E w \in env.halts : Halt(w)) \/ (\E d \in env.deletes : DeleteStep(d)) \/ Recreate

Next == \/ People \/ PRStatusReconcile \/ MergeEvent \/ StepReconcile \/ Closing
        \/ Environment \/ SyncCache \/ Tick \/ Crash

Spec == Init /\ [][Next]_vars

\* The PRStatus and the step are reconciled again and again (requeuePollInterval, requeueWaitForMerge),
\* the cache catches up and time passes.  Restarts and failed calls interrupt a reconcile, but not
\* every attempt for ever (SF).  Nobody has to merge, close or cancel anything, no event has to arrive.
Fairness ==
    /\ WF_vars(ClearForNewPR) /\ WF_vars(RecordMerger) /\ SF_vars(Poll) /\ SF_vars(PatchPolled)
    /\ SF_vars(HookPatches) /\ WF_vars(Wait) /\ WF_vars(Cancel) /\ WF_vars(CloseDeleted)
    /\ SF_vars(AskSCM) /\ SF_vars(ClosePR) /\ SF_vars(NotePR) /\ SF_vars(DeleteBranch)
    /\ WF_vars(SyncCache) /\ SF_vars(Tick)

LiveSpec == Spec /\ Fairness

-----------------------------------------------------------------------------
(* Properties.                                                             *)

\* A step goes on to its health check only for a merge of its own PR: never on the status of the PR
\* an earlier step of the same name opened (prStatusOfStepPR, clearForNewPR, B72), whatever the poll,
\* the webhook and the spec patch interleave to.  A step that found nothing to commit has no PR.
AdvanceMeansMerged ==
    step.st = "HealthChecking" => \E n \in PRs : pr[n] = "merged" /\ step.pr \in {0, n}

ClosedForGood ==
    /\ step.st \in {"Failed", "Gone"} /\ step.pr # 0 /\ ~step.byHand /\ env.allowed /\ env.deleter
    /\ \/ step.why \in {"superseded", "rejected", "held", "timeout", "failed"}
       \/ step.why = "deleted" /\ step.del = "none"

\* Once a step ended because it was cancelled, failed, timed out or was deleted, and it does not say what to close
\* by hand, its PR cannot be merged any more (closeStepPR: the PR is closed and its branch deleted).
\* Not so for a repository taken off the allowlist (closeStepPRMerged leaves the PR open and says
\* nothing) or a provider that cannot delete the branch (deletePRBranch).
NoLateMerge == [][ClosedForGood /\ pr[step.pr] # "merged" => pr'[step.pr] # "merged"]_vars

\* A PR recorded merged before the wait-for-merge deadline is never failed by it.
RecordedBeatsDeadline == ~env.stale /\ step.st = "Failed" /\ step.why = "timeout" => ~inTime

\* A rejected step whose PR had merged when its cancellation began is not failed for the
\* rejection (halt.mergedIsLive), however stale its PRStatus and however often the close was retried,
\* unless the SCM may not be asked about its repository.
RejectedMergedIsLive ==
    [][job # Idle /\ job.why = "rejected" /\ job.mergedAtStart /\ env.allowed
         => ~(step'.st = "Failed" /\ step'.why = "rejected" /\ ~step'.byHand)]_vars

\* A PR is given up as closed only after a whole grace window in which no poll found it open: a
\* reopen a poll saw starts the window again (closedState).
GraceWindow == ~env.stale /\ prs.final /\ prs.obs = prs.num => seenOpen = Grace

\* "stopped tracking" is never added to a PR that carries kardinal's own closing comment and whose
\* close is marked on the PRStatus, also when the mark is set while the poll is under way.
StoppedNotAfterClosed ==
    [][\A n \in PRs : "closed" \in notes[n] /\ prs.mark = n => notes'[n] = notes[n] \/ "stopped" \in notes[n]]_vars

\* While a step waits: a merge recorded before its deadline is not failed by it, a PR is given up as
\* closed only after a whole grace window in which no poll found it open, and "stopped tracking" is
\* not added to a PR kardinal closed itself, whoever polls, patches and closes in between.
WaitSafe == [](TypeOK /\ RecordedBeatsDeadline /\ GraceWindow) /\ StoppedNotAfterClosed

MergeIsNoticed == \A n \in PRs :
    (step.st = "WaitingForMerge" /\ step.pr = n /\ pr[n] = "merged") ~> step.st # "WaitingForMerge"

ClosedEnds == \A n \in PRs :
    <>[](step.pr = n /\ pr[n] = "closed") => []<>(step.st # "WaitingForMerge")

\* The wait ends: a merge of the step's PR is always noticed and takes the step out of
\* WaitingForMerge, with or without a webhook, through lost answers and restarts; and so does a PR
\* that stays closed.
WaitEnds == MergeIsNoticed /\ ClosedEnds
-----------------------------------------------------------------------------
(* The inductive invariants behind them.                                   *)

\* A close under way belongs to a step that has not ended; one that began with the PR merged still
\* finds it so, and a rejection gets no further than asking.
JobInv ==
    job # Idle =>
        /\ step.st \in {"Promoting", "WaitingForMerge"} /\ (job.why # "failed" => step.pr \in {0, job.pr})
        /\ job.mergedAtStart => job.pr \in PRs /\ pr[job.pr] = "merged"
        /\ job.mergedAtStart /\ job.why = "rejected" => job.at = "get"

\* What a poll or an event read may change before it patches, and what it may not change.
PatchInv ==
    /\ poll # Idle => poll.new.mark = poll.base.mark /\ poll.new.num = poll.base.num
    /\ hook # Idle => hook.new.mark = hook.base.mark /\ hook.new.num = hook.base.num

\* c is no older than the last time the PR was seen open.
SinceOpen(c) ==
    /\ c.open => c.closedAt = None /\ ~c.final
    /\ c.closedAt # None => c.closedAt <= seenOpen
    /\ c.final => seenOpen = Grace

WindowInv ==
    ~env.stale =>
        /\ SinceOpen(prs)
        /\ poll # Idle => /\ SinceOpen(poll.new)
                          /\ prs.closedAt \in {poll.base.closedAt, None}
                          /\ prs.final => poll.base.final
                          /\ prs.open => poll.base.open
        /\ hook # Idle => /\ hook.new.closedAt \in {hook.base.closedAt, None}
                          /\ hook.new.final => hook.base.final
                          /\ ~hook.new.open

\* The statuses of two PRs cannot meet: there is one PR, or every writer reads what is stored and
\* the poll is the only one.
Apart == env.opens = 1 \/ (~env.webhook /\ ~env.stale)

\* The PRs of the behaviour, and the step's place in it.
OpenedInv ==
    /\ Apart
    /\ \A n \in PRs : n > env.opens => pr[n] = "none"
    /\ step.pr <= env.opens /\ prs.num <= env.opens /\ cache.num <= env.opens /\ (job # Idle => job.pr <= env.opens)
    /\ step.st = "Promoting" => step.pr = 0 /\ ~inTime
    /\ step.st = "WaitingForMerge" => step.pr # 0

\* A status that says merged is about a merged PR.
MergeTrue(c) ==
    c.merged => IF env.opens = 1 THEN pr[1] = "merged" ELSE c.obs \in PRs /\ pr[c.obs] = "merged"

MergedInv ==
    /\ MergeTrue(prs) /\ MergeTrue(cache)
    /\ poll # Idle => MergeTrue(poll.new)
    /\ hook # Idle => MergeTrue(hook.new)

\* With several PRs, a poll under way writes over the status it read.
PollInv ==
    env.opens # 1 =>
        /\ hook = Idle
        /\ poll # Idle => /\ prs.merged = poll.base.merged /\ prs.obs = poll.base.obs
                          /\ poll.new.obs = poll.base.num
                          /\ poll.base.merged => poll.base.obs = poll.base.num

\* A merge once stored stays stored: every write is about the step's PR.
StoredInv ==
    ~env.stale =>
        /\ poll # Idle /\ poll.base.merged => poll.new.merged
        /\ hook # Idle => hook.new.merged
        /\ env.opens = 1 =>
              /\ prs.merged => prs.num = 1
              /\ poll # Idle => prs.num = 1 /\ poll.new.obs = 1
              /\ hook # Idle => prs.num = 1 /\ hook.new.obs = 1

InTimeInv ==
    ~env.stale =>
        /\ step.st = "WaitingForMerge" /\ inTime => StepPRMerged(prs, step.pr)
        /\ job # Idle /\ job.why = "timeout" => ~inTime /\ step.exp = 0
        /\ step.st = "Failed" /\ step.why = "timeout" => ~inTime

BranchInv == ClosedForGood /\ pr[step.pr] # "merged" => ~branch

PRInv == TypeOK /\ JobInv /\ PatchInv /\ WindowInv

ApartInv == PRInv /\ OpenedInv /\ MergedInv /\ PollInv /\ StoredInv /\ InTimeInv /\ BranchInv
=============================================================================
