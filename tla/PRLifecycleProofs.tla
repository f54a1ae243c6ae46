------------------------- MODULE PRLifecycleProofs --------------------------
(***************************************************************************)
(* Proofs about PRLifecycle, for any number of PRs, retries and ticks:     *)
(* what a waiting step concludes from the PRStatus is true of its own PR,  *)
(* no PR is given up inside its grace window, none merges after its step   *)
(* closed it, and no merge in time is lost to the deadline or to a         *)
(* rejection.  Where the statuses of two PRs could meet (a webhook or a    *)
(* lagging cache over a second PR) the theorems assume Apart: a run shows  *)
(* that they do not hold without it.                                       *)
(***************************************************************************)
EXTENDS PRLifecycle, TLAPS

-----------------------------------------------------------------------------
(* Statuses *)

\* What a merge patch leaves: each field is the author's if the author changed it.
LEMMA Patched ==
    ASSUME NEW j, j.base \in PRStatusOf, j.new \in PRStatusOf, prs \in PRStatusOf
    PROVE  /\ MergePatch(j) \in PRStatusOf
           /\ MergePatch(j).num = IF j.new.num # j.base.num THEN j.new.num ELSE prs.num
           /\ MergePatch(j).mark = IF j.new.mark # j.base.mark THEN j.new.mark ELSE prs.mark
           /\ MergePatch(j).obs = IF j.new.obs # j.base.obs THEN j.new.obs ELSE prs.obs
           /\ MergePatch(j).merged = IF j.new.merged # j.base.merged THEN j.new.merged ELSE prs.merged
           /\ MergePatch(j).open = IF j.new.open # j.base.open THEN j.new.open ELSE prs.open
           /\ MergePatch(j).closedAt = IF j.new.closedAt # j.base.closedAt THEN j.new.closedAt ELSE prs.closedAt
           /\ MergePatch(j).final = IF j.new.final # j.base.final THEN j.new.final ELSE prs.final
BY DEF MergePatch, PRStatusOf

\* A setting's times and counts.
LEMMA Bounds ==
    ASSUME TypeOK
    PROVE  /\ env.grace \in Nat \ {0} /\ env.grace < None /\ env.timeout \in Nat /\ env.timeout < None
           /\ env.retries \in Nat /\ env.opens \in 1..MaxPR /\ None \in Nat /\ MaxPR \in Nat /\ MaxPR < None
           /\ env.webhook \in BOOLEAN /\ env.stale \in BOOLEAN /\ 1 \in PRs /\ 0 \notin PRs
           /\ env.halts \subseteq {"superseded", "rejected", "held"}
           /\ env.deletes \subseteq {"none", "reuses", "pushes"}
BY PRAssumption DEF TypeOK, Setting, PRs

LEMMA ViewType == ASSUME TypeOK PROVE View \in PRStatusOf
BY DEF TypeOK, View

LEMMA AgedType ==
    ASSUME TypeOK, NEW c \in PRStatusOf
    PROVE  /\ Aged(c) \in PRStatusOf
           /\ Aged(c).closedAt = Older(c.closedAt)
           /\ \A f \in {"num", "mark", "obs", "merged", "open", "final"} : Aged(c)[f] = c[f]
<1>1. \A a \in Ages : Older(a) \in Ages
  BY Bounds DEF Older, Ages, Grace
<1> QED BY <1>1 DEF Aged, PRStatusOf

-----------------------------------------------------------------------------
(* The types *)

\* What a waiting step concludes from a status.
Concludes ==
    /\ step' \in StepOf
    /\ step'.pr = step.pr /\ step'.del = step.del /\ step'.byHand = step.byHand /\ step'.since = step.since
    /\ \/ step'.st = step.st /\ step'.why = step.why
       \/ step'.st = "HealthChecking" /\ StepPRMerged(View, step.pr)
       \/ step'.st = "Failed" /\ step'.why \in {"closed", "pollError"}
    /\ prs' \in PRStatusOf
    /\ \/ prs' = prs
       \/ prs' = [prs EXCEPT !.num = step.pr] /\ ~PRStatusOfStepPR(View, step.pr)

LEMMA Decided == ASSUME TypeOK, Decide(View) PROVE Concludes
<1>0. /\ step.exp \in 0..env.timeout \cup {None} /\ Deadline \in 0..env.timeout \cup {None}
      /\ step \in StepOf /\ step.pr \in 0..MaxPR /\ prs \in PRStatusOf
  BY Bounds DEF TypeOK, StepOf, Deadline
<1> DEFINE s == [step EXCEPT !.exp = Deadline]
<1>1. CASE step' = s /\ prs' = PatchSpec(View, step.pr) /\ ~PRStatusOfStepPR(View, step.pr)
  <2>1. step' \in StepOf
    BY <1>0, <1>1 DEF StepOf
  <2>2. prs' \in PRStatusOf /\ prs' \in {prs, [prs EXCEPT !.num = step.pr]}
    BY <1>0, <1>1 DEF PatchSpec, PRStatusOf
  <2> QED BY <1>0, <1>1, <2>1, <2>2 DEF Concludes, StepOf
<1>2. CASE step' = s /\ prs' = prs
  <2>1. step' \in StepOf
    BY <1>0, <1>2 DEF StepOf
  <2> QED BY <1>0, <1>2, <2>1 DEF Concludes, StepOf
<1>3. CASE step' = [s EXCEPT !.st = "HealthChecking", !.exp = None] /\ StepPRMerged(View, step.pr) /\ prs' = prs
  <2>1. step' \in StepOf
    BY <1>0, <1>3 DEF StepOf, StepStates
  <2> QED BY <1>0, <1>3, <2>1 DEF Concludes, StepOf
<1>4. ASSUME NEW w \in {"closed", "pollError"}, step' = [s EXCEPT !.st = "Failed", !.why = w, !.exp = None], prs' = prs
      PROVE  Concludes
  <2>1. step' \in StepOf
    BY <1>0, <1>4 DEF StepOf, StepStates, Reasons
  <2> QED BY <1>0, <1>4, <2>1 DEF Concludes, StepOf
<1> QED BY <1>1, <1>2, <1>3, <1>4 DEF Decide
\* The end of a close, whatever it was for.
LEMMA EndedType ==
    ASSUME TypeOK, job # Idle, NEW b \in BOOLEAN, Ended(job.why, b)
    PROVE  /\ step' \in StepOf /\ step'.pr = job.pr /\ step'.why = job.why /\ step'.byHand = b
           /\ step'.st = (IF job.why = "deleted" THEN "Gone" ELSE "Failed") /\ step'.del = step.del
<1>1. job.pr \in 0..MaxPR /\ job.why \in Reasons /\ step \in StepOf
  BY DEF TypeOK, JobOf, Reasons
<1> QED BY <1>1 DEF Ended, StepOf, StepStates

\* A close that begins.
LEMMA StartsType ==
    ASSUME NEW w \in {"superseded", "rejected", "held", "timeout", "failed", "deleted"}, NEW n \in 0..MaxPR,
           StartsClosing(w, n)
    PROVE  /\ job' \in JobOf /\ job' # Idle /\ job'.why = w /\ job'.pr = n /\ job'.at = "get"
           /\ job'.mergedAtStart => n \in PRs /\ pr[n] = "merged"
BY DEF StartsClosing, JobOf, Idle

\* A step that got its PR, and a step as it is created.
LEMMA WaitingType ==
    ASSUME TypeOK, NEW n \in PRs
    PROVE  /\ [step EXCEPT !.st = "WaitingForMerge", !.pr = n] \in StepOf
           /\ PatchSpec(View, n) \in PRStatusOf /\ PatchSpec(View, n) \in {prs, [prs EXCEPT !.num = n]}
<1>1. n \in 0..MaxPR /\ step \in StepOf /\ prs \in PRStatusOf
  BY Bounds DEF TypeOK, PRs
<1>2. [step EXCEPT !.st = "WaitingForMerge", !.pr = n] \in StepOf
  BY <1>1 DEF StepOf, StepStates
<1>3. [prs EXCEPT !.num = n] \in PRStatusOf
  BY <1>1 DEF PRStatusOf
<1> QED BY <1>1, <1>2, <1>3 DEF PatchSpec

LEMMA NewStepType == ASSUME TypeOK, NEW since \in 0..MaxPR PROVE NewStep(since) \in StepOf
BY Bounds DEF NewStep, StepOf, StepStates, Reasons

\* A run that found nothing to commit goes on without a PR, or waits with the one that merged.
LEMMA CommitType ==
    ASSUME TypeOK, CommittedNothing
    PROVE  /\ step' \in StepOf /\ prs' \in PRStatusOf
           /\ \/ step' = [step EXCEPT !.st = "HealthChecking"] /\ prs' = prs
              \/ \E n \in PRs : /\ pr[n] = "merged" /\ step' = [step EXCEPT !.st = "WaitingForMerge", !.pr = n]
                               /\ prs' \in {prs, [prs EXCEPT !.num = n]}
<1>0. step \in StepOf /\ prs \in PRStatusOf
  BY DEF TypeOK
<1>1. CASE step' = [step EXCEPT !.st = "HealthChecking"] /\ UNCHANGED prs
  BY <1>0, <1>1 DEF StepOf, StepStates
<1>2. ASSUME NEW n \in PRs, pr[n] = "merged", step' = [step EXCEPT !.st = "WaitingForMerge", !.pr = n],
             prs' \in {prs, PatchSpec(View, n)}
      PROVE  /\ step' \in StepOf /\ prs' \in PRStatusOf
             /\ prs' \in {prs, [prs EXCEPT !.num = n]}
  BY <1>0, <1>2, WaitingType
<1> QED BY <1>1, <1>2 DEF CommittedNothing

\* The SCM says merged: the step ends, closes its PR for the deadline, or goes on.
LEMMA FoundType ==
    ASSUME TypeOK, job # Idle, FoundMerged
    PROVE  \/ job' = Idle /\ prs' = prs /\ ~MergedIsLive(job.why) /\ Ended(job.why, FALSE)
           \/ /\ \/ StartsClosing("timeout", step.pr) /\ TimedOut
                 \/ StartsClosing("failed", step.pr)
              /\ prs' = prs /\ step' = step
           \/ job' = Idle /\ MergedIsLive(job.why) /\ step.st # "Promoting" /\ Concludes
           \/ job' = Idle /\ MergedIsLive(job.why) /\ step.st = "Promoting" /\ SomeMerged /\ CommittedNothing
BY Decided DEF FoundMerged

\* What a PRStatus reconcile and an event leave in flight.
Keeps(c, d) == /\ c.merged = d.merged /\ c.open = d.open /\ c.closedAt = d.closedAt /\ c.final = d.final

InFlight(j, k) == /\ j \in [kind : {k}, base : PRStatusOf, new : PRStatusOf] /\ j # Idle /\ j.base = View
                  /\ j.new.num = View.num /\ j.new.mark = View.mark /\ j.new.obs = View.num

LEMMA Flight ==
    ASSUME NEW k \in {"poll", "hook"}, NEW v \in PRStatusOf, v = View, NEW n \in PRStatusOf,
           n.num = v.num, n.mark = v.mark, n.obs = v.num,
           NEW j, j = [kind |-> k, base |-> v, new |-> n]
    PROVE  InFlight(j, k) /\ j.new = n
<1>1. j.kind # Idle.kind
  BY DEF Idle
<1>2. j \in [kind : {k}, base : PRStatusOf, new : PRStatusOf] /\ j.new = n /\ j.base = v
  OBVIOUS
<1> QED BY <1>1, <1>2 DEF InFlight

LEMMA ClosedStateIs ==
    ASSUME TypeOK, NEW c \in PRStatusOf, NEW merged \in BOOLEAN, NEW open \in BOOLEAN
    PROVE  LET closed == ClosedState(c, merged, open) IN
           /\ closed[1] \in Ages /\ closed[2] \in BOOLEAN
           /\ open => closed[1] = None /\ closed[2] = FALSE
           /\ closed[1] # None => closed[1] = 0 \/ (closed[1] = c.closedAt /\ c.closedAt # None)
           /\ closed[2] => c.closedAt # None /\ c.closedAt >= Grace
<1>0. c.closedAt \in Ages /\ None \in Ages /\ 0 \in Ages /\ None \in Nat /\ Grace \in Nat
  BY Bounds DEF PRStatusOf, Ages, Grace
<1>1. CASE merged \/ open
  BY <1>0, <1>1 DEF ClosedState
<1>2. CASE ~(merged \/ open) /\ c.closedAt = None
  BY <1>0, <1>2, Bounds DEF ClosedState
<1>3. CASE ~(merged \/ open) /\ c.closedAt # None
  <2>1. ClosedState(c, merged, open) = <<c.closedAt, c.closedAt >= Grace>>
    BY <1>3 DEF ClosedState
  <2> QED BY <1>0, <1>3, <2>1
<1> QED BY <1>1, <1>2, <1>3

LEMMA MergerRead ==
    ASSUME TypeOK, RecordMerger
    PROVE  InFlight(poll', "poll") /\ Keeps(poll'.new, View) /\ View.merged /\ DescribesSpec(View)
<1>1. PICK by \in {"known", "unavailable"} :
         poll' = [kind |-> "poll", base |-> View, new |-> [View EXCEPT !.by = by, !.obs = View.num]]
  BY DEF RecordMerger
<1> DEFINE new == [View EXCEPT !.by = by, !.obs = View.num]
<1>2. new \in PRStatusOf /\ new.num = View.num /\ new.mark = View.mark /\ new.obs = View.num /\ Keeps(new, View)
  BY ViewType DEF PRStatusOf, Keeps
<1> HIDE DEF new
<1>3. poll' = [kind |-> "poll", base |-> View, new |-> new]
  BY <1>1 DEF new
<1>4. InFlight(poll', "poll") /\ poll'.new = new
  BY <1>2, <1>3, ViewType, Flight
<1> QED BY <1>2, <1>4 DEF Keeps, RecordMerger

LEMMA FailRead ==
    ASSUME TypeOK, PollFails
    PROVE  InFlight(poll', "poll") /\ Keeps(poll'.new, View) /\ ~View.merged /\ View.num # 0
<1>1. poll' = [kind |-> "poll", base |-> View, new |-> [View EXCEPT !.err = TRUE, !.obs = View.num]]
  BY DEF PollFails
<1> DEFINE new == [View EXCEPT !.err = TRUE, !.obs = View.num]
<1>2. new \in PRStatusOf /\ new.num = View.num /\ new.mark = View.mark /\ new.obs = View.num /\ Keeps(new, View)
  BY ViewType DEF PRStatusOf, Keeps
<1> HIDE DEF new
<1>3. poll' = [kind |-> "poll", base |-> View, new |-> new]
  BY <1>1 DEF new
<1>4. InFlight(poll', "poll") /\ poll'.new = new
  BY <1>2, <1>3, ViewType, Flight
<1> QED BY <1>2, <1>4 DEF Keeps, PollFails, Polls

LEMMA PollRead ==
    ASSUME TypeOK, Poll
    PROVE  LET merged == pr[View.num] = "merged"  open == pr[View.num] = "open" IN
           /\ View.num \in PRs /\ ~View.merged /\ ~View.final
           /\ \/ poll' = Idle /\ View.merged = merged /\ View.open = open
                 /\ View.closedAt = ClosedState(View, merged, open)[1]
              \/ /\ InFlight(poll', "poll")
                 /\ poll'.new.merged = merged /\ poll'.new.open = open
                 /\ poll'.new.closedAt = ClosedState(View, merged, open)[1]
                 /\ poll'.new.final = ClosedState(View, merged, open)[2]
<1> DEFINE c == View
           merged == pr[c.num] = "merged"
           open == pr[c.num] = "open"
           closed == ClosedState(c, merged, open)
<1>0. c \in PRStatusOf /\ c.num \in PRs /\ ~c.merged /\ ~c.final
  BY ViewType, Bounds DEF Poll, Polls, IsClosedFinal, PRStatusOf, PRs
<1>1. merged \in BOOLEAN /\ open \in BOOLEAN
  OBVIOUS
<1>2. closed[1] \in Ages /\ closed[2] \in BOOLEAN
  BY <1>0, <1>1, ClosedStateIs
<1>3. PICK by \in {"none", "known", "unavailable"} :
         LET new == [c EXCEPT !.obs = c.num, !.merged = merged, !.open = open, !.err = FALSE,
                              !.closedAt = closed[1], !.final = closed[2], !.by = by]
         IN  poll' = IF new # c \/ c.checked \in {None, Grace}
                       THEN [kind |-> "poll", base |-> c, new |-> [new EXCEPT !.checked = 0]]
                       ELSE Idle
  <2>1. c.by \in {"none", "known", "unavailable"}
    BY <1>0 DEF PRStatusOf
  <2>2. (IF merged THEN {"none", "known", "unavailable"} ELSE {c.by}) \subseteq {"none", "known", "unavailable"}
    BY <2>1
  <2> DEFINE P(by) ==
         LET new == [c EXCEPT !.obs = c.num, !.merged = merged, !.open = open, !.err = FALSE,
                              !.closedAt = closed[1], !.final = closed[2], !.by = by]
         IN  poll' = IF new # c \/ c.checked \in {None, Grace}
                       THEN [kind |-> "poll", base |-> c, new |-> [new EXCEPT !.checked = 0]]
                       ELSE Idle
  <2>3. \E by \in IF merged THEN {"none", "known", "unavailable"} ELSE {c.by} : P(by)
    BY Zenon DEF Poll
  <2> HIDE DEF P
  <2>4. \E by \in {"none", "known", "unavailable"} : P(by)
    BY <2>2, <2>3
  <2> QED BY <2>4 DEF P
<1> HIDE DEF merged, open, closed
<1> DEFINE new == [c EXCEPT !.obs = c.num, !.merged = merged, !.open = open, !.err = FALSE,
                            !.closedAt = closed[1], !.final = closed[2], !.by = by]
<1>4. new \in PRStatusOf /\ new.merged = merged /\ new.open = open /\ new.closedAt = closed[1]
      /\ new.final = closed[2] /\ new.num = c.num /\ new.mark = c.mark /\ new.obs = c.num
  BY <1>0, <1>1, <1>2 DEF PRStatusOf
<1> DEFINE dated == [new EXCEPT !.checked = 0]
<1> HIDE DEF new
<1>5. /\ dated \in PRStatusOf /\ dated.merged = merged /\ dated.open = open /\ dated.closedAt = closed[1]
      /\ dated.final = closed[2] /\ dated.num = c.num /\ dated.mark = c.mark /\ dated.obs = c.num
  BY <1>4, Bounds DEF PRStatusOf, Ages, Grace
<1> HIDE DEF dated
<1>6. poll' = IF new # c \/ c.checked \in {None, Grace} THEN [kind |-> "poll", base |-> c, new |-> dated] ELSE Idle
  BY <1>3 DEF new, dated
<1>7. CASE poll' = Idle /\ new = c
  BY <1>0, <1>4, <1>7 DEF merged, open, closed
<1>8. CASE poll' = [kind |-> "poll", base |-> c, new |-> dated]
  <2>1. InFlight(poll', "poll")
    BY <1>0, <1>5, <1>8, Flight
  <2> QED BY <1>0, <1>5, <1>8, <2>1, Flight DEF merged, open, closed
<1> QED BY <1>6, <1>7, <1>8

LEMMA EventRead ==
    ASSUME TypeOK, NEW n \in PRs, HookReads(n)
    PROVE  /\ InFlight(hook', "hook") /\ View.num = n /\ pr[n] = "merged"
           /\ hook'.new.merged /\ ~hook'.new.open
           /\ hook'.new.closedAt \in {View.closedAt, None} /\ (hook'.new.final => View.final)
<1> DEFINE d == IF DescribesSpec(View) THEN View ELSE NoStatus(View)
           new == [d EXCEPT !.obs = n, !.merged = TRUE, !.open = FALSE, !.checked = 0]
<1>1. /\ d \in PRStatusOf /\ d.num = View.num /\ d.mark = View.mark
      /\ d.closedAt \in {View.closedAt, None} /\ (d.final => View.final)
  BY ViewType, Bounds DEF NoStatus, PRStatusOf, Ages
<1> HIDE DEF d
<1>a. n \in 0..MaxPR /\ 0 \in Ages
  BY Bounds DEF PRs, Ages, Grace
<1>2. /\ new \in PRStatusOf /\ new.num = d.num /\ new.mark = d.mark /\ new.obs = n
      /\ new.merged = TRUE /\ new.open = FALSE /\ new.closedAt = d.closedAt /\ new.final = d.final
  BY <1>1, <1>a DEF PRStatusOf
<1> HIDE DEF new
<1>3. hook' = [kind |-> "hook", base |-> View, new |-> new] /\ View.num = n /\ pr[n] = "merged"
  BY DEF HookReads, MergeConfirmed, new, d
<1>4. InFlight(hook', "hook") /\ hook'.new = new
  BY <1>1, <1>2, <1>3, ViewType, Flight
<1> QED BY <1>1, <1>2, <1>3, <1>4

\* The setting never changes, and with it the types.
TypedNext ==
    /\ env' = env
    /\ pr' \in [PRs -> {"none", "open", "closed", "merged"}] /\ branch' \in BOOLEAN
    /\ notes' \in [PRs -> SUBSET {"closed", "stopped"}]
    /\ prs' \in PRStatusOf /\ cache' \in PRStatusOf
    /\ poll' \in PatchOf("poll") /\ hook' \in PatchOf("hook")
    /\ step' \in StepOf /\ job' \in JobOf
    /\ halt' \in env.halts \cup {"none"}
    /\ seenOpen' \in 0..Grace /\ inTime' \in BOOLEAN

LEMMA TypeFrame == ASSUME TypeOK, TypedNext PROVE TypeOK'
<1>1. Ages' = Ages /\ Grace' = Grace
  BY DEF TypedNext, Ages, Grace
<1>2. PRStatusOf' = PRStatusOf
  BY <1>1 DEF PRStatusOf
<1>3. PatchOf("poll")' = PatchOf("poll") /\ PatchOf("hook")' = PatchOf("hook") /\ StepOf' = StepOf
  BY <1>2 DEF PatchOf, StepOf, TypedNext
<1> QED BY <1>1, <1>2, <1>3 DEF TypedNext, TypeOK, JobOf

LEMMA TypedStep == ASSUME TypeOK, [Next]_vars PROVE TypedNext
<1> USE DEF TypeOK, TypedNext
<1>0. step.pr \in 0..MaxPR
  BY DEF StepOf
<1>1. ASSUME NEW n \in PRs, Merge(n) \/ CloseByHand(n) \/ Reopen(n) PROVE TypedNext
  BY <1>1 DEF Merge, CloseByHand, Reopen
<1>2. CASE ClearForNewPR
  <2>1. prs' \in PRStatusOf
    BY <1>2, ViewType, ZenonT(30) DEF ClearForNewPR, ClearedForNewPR, NoStatus, PRStatusOf, Ages
  <2> QED BY <1>2, <2>1 DEF ClearForNewPR, Recorded, scm
<1>3. CASE RecordMerger
  <2>1. poll' \in PatchOf("poll")
    BY <1>3, MergerRead DEF InFlight, PatchOf
  <2> QED BY <1>3, <2>1 DEF RecordMerger, scm
<1>4. CASE Poll
  <2>1. poll' \in PatchOf("poll")
    BY <1>4, PollRead DEF InFlight, PatchOf
  <2>2. seenOpen' \in 0..Grace
    BY <1>4, Bounds DEF Poll, Grace
  <2> QED BY <1>4, <2>1, <2>2 DEF Poll, scm
<1>5. CASE PollFails
  <2>1. poll' \in PatchOf("poll")
    BY <1>5, FailRead DEF InFlight, PatchOf
  <2> QED BY <1>5, <2>1 DEF PollFails, scm
<1>6. CASE PatchPolled
  <2>1. prs' \in PRStatusOf
    BY <1>6, Patched DEF PatchPolled, PatchOf, Idle
  <2>2. notes' \in [PRs -> SUBSET {"closed", "stopped"}]
    <3>1. PICK noted \in BOOLEAN :
             notes' = IF noted THEN [notes EXCEPT ![prs'.num] = @ \cup {"stopped"}] ELSE notes
      BY <1>6 DEF PatchPolled
    <3> QED BY <3>1
  <2>3. seenOpen' \in 0..Grace /\ inTime' \in BOOLEAN
    BY <1>6, Bounds DEF PatchPolled, Grace, Recorded
  <2> QED BY <1>6, <2>1, <2>2, <2>3 DEF PatchPolled, PatchOf
<1>7. ASSUME NEW n \in PRs, HookReads(n) PROVE TypedNext
  <2>1. hook' \in PatchOf("hook")
    BY <1>7, EventRead DEF InFlight, PatchOf
  <2> QED BY <1>7, <2>1 DEF HookReads, scm
<1>8. CASE HookPatches
  <2>1. prs' \in PRStatusOf
    BY <1>8, Patched DEF HookPatches, PatchOf, Idle
  <2> QED BY <1>8, <2>1 DEF HookPatches, PatchOf, Recorded, scm
<1>9. CASE Push
  <2>1. step' \in StepOf
    BY <1>9 DEF Push, StepOf
  <2> QED BY <1>9, <2>1 DEF Push
<1>10. CASE NothingToCommit
  BY <1>10, CommitType DEF NothingToCommit, scm
<1>11. CASE OpenPR
  <2>1. PICK n \in PRs :
          /\ pr' = [pr EXCEPT ![n] = "open"]
          /\ \/ UNCHANGED <<step, prs, job>>
             \/ /\ step' = [step EXCEPT !.st = "WaitingForMerge", !.pr = n]
                /\ prs' \in {prs, PatchSpec(View, n)} /\ UNCHANGED job
             \/ StartsClosing("failed", n) /\ UNCHANGED <<step, prs>>
    BY <1>11 DEF OpenPR
  <2>2. pr' \in [PRs -> {"none", "open", "closed", "merged"}]
    BY <2>1
  <2>3. n \in 0..MaxPR
    BY Bounds DEF PRs
  <2>4. step' \in StepOf /\ prs' \in PRStatusOf /\ job' \in JobOf
    <3>1. CASE UNCHANGED <<step, prs, job>>
      BY <3>1
    <3>2. CASE /\ step' = [step EXCEPT !.st = "WaitingForMerge", !.pr = n]
               /\ prs' \in {prs, PatchSpec(View, n)} /\ UNCHANGED job
      BY <3>2, WaitingType
    <3>3. CASE StartsClosing("failed", n) /\ UNCHANGED <<step, prs>>
      BY <2>3, <3>3, StartsType
    <3> QED BY <2>1, <3>1, <3>2, <3>3
  <2>5. seenOpen' \in 0..Grace
    BY <1>11, Bounds DEF OpenPR, Grace
  <2> QED BY <1>11, <2>2, <2>4, <2>5 DEF OpenPR
<1>12. CASE Wait
  <2>1. step' \in StepOf /\ prs' \in PRStatusOf /\ job' \in JobOf
    <3>1. CASE \E w \in {"held", "timeout"} : StartsClosing(w, step.pr) /\ UNCHANGED <<prs, step>>
      BY <3>1, <1>0, StartsType
    <3>2. CASE Decide(View) /\ UNCHANGED job
      BY <3>2, Decided DEF Concludes
    <3> QED BY <1>12, <3>1, <3>2 DEF Wait
  <2> QED BY <1>12, <2>1 DEF Wait, scm
<1>13. CASE Cancel
  <2>1. job' \in JobOf
    BY <1>13, <1>0, StartsType DEF Cancel
  <2> QED BY <1>13, <2>1 DEF Cancel, scm
<1>14. CASE CloseDeleted
  <2>1. job' \in JobOf /\ step' \in StepOf
    <3>1. CASE step' = [step EXCEPT !.st = "Gone", !.why = "deleted"] /\ UNCHANGED job
      BY <3>1, <1>0 DEF StepOf, StepStates, Reasons
    <3>2. CASE StartsClosing("deleted", step.pr) /\ UNCHANGED step
      BY <3>2, <1>0, StartsType
    <3> QED BY <1>14, <3>1, <3>2 DEF CloseDeleted
  <2> QED BY <1>14, <2>1 DEF CloseDeleted, scm
<1>15. CASE AskSCM
  <2>1. CASE FoundMerged
    <3>1. step' \in StepOf /\ prs' \in PRStatusOf /\ job' \in JobOf
      BY <1>15, <2>1, <1>0, FoundType, StartsType, EndedType, CommitType DEF AskSCM, Concludes, JobOf
    <3> QED BY <1>15, <3>1 DEF AskSCM, scm
  <2>2. ASSUME NEW a \in {"close", "delete"}, job' = [job EXCEPT !.pr = StepPR, !.at = a], UNCHANGED <<prs, step>>
        PROVE  TypedNext
    <3>1. StepPR \in 0..MaxPR
      BY <1>15, ViewType DEF AskSCM, StepPR, JobOf, PRStatusOf
    <3>2. job' \in JobOf
      BY <1>15, <2>2, <3>1 DEF AskSCM, JobOf
    <3> QED BY <1>15, <2>2, <3>2 DEF AskSCM, scm
  <2> QED BY <1>15, <2>1, <2>2 DEF AskSCM
<1>27. CASE NotAllowed
  <2>1. step' \in StepOf
    BY <1>27, EndedType DEF NotAllowed
  <2> QED BY <1>27, <2>1 DEF NotAllowed, scm, JobOf
<1>16. CASE ClosePR
  <2>1. job' \in JobOf
    BY <1>16 DEF ClosePR, JobOf
  <2>2. pr' \in [PRs -> {"none", "open", "closed", "merged"}]
    BY <1>16 DEF ClosePR
  <2> QED BY <1>16, <2>1, <2>2 DEF ClosePR
<1>17. CASE NotePR
  <2>1. job' \in JobOf /\ job.pr \in 0..MaxPR
    BY <1>17 DEF NotePR, JobOf
  <2>2. prs' \in PRStatusOf
    BY <1>17, <2>1 DEF NotePR, PRStatusOf
  <2>3. notes' \in [PRs -> SUBSET {"closed", "stopped"}]
    BY <1>17 DEF NotePR
  <2> QED BY <1>17, <2>1, <2>2, <2>3 DEF NotePR
<1>18. CASE DeleteBranch
  <2>1. step' \in StepOf
    BY <1>18, EndedType DEF DeleteBranch
  <2>2. branch' \in BOOLEAN
    BY <1>18 DEF DeleteBranch
  <2> QED BY <1>18, <2>1, <2>2 DEF DeleteBranch, JobOf
<1>19. CASE CloseFails
  <2>1. CASE Ended(job.why, TRUE)
    BY <1>19, <2>1, EndedType DEF CloseFails, scm, JobOf
  <2>2. CASE step' = step
    BY <1>19, <2>2 DEF CloseFails, scm, JobOf
  <2>3. CASE RetryLeft /\ step' = [step EXCEPT !.tries = @ + 1]
    <3>1. step' \in StepOf
      BY <2>3, Bounds DEF RetryLeft, StepOf
    <3> QED BY <1>19, <3>1 DEF CloseFails, scm, JobOf
  <2> QED BY <1>19, <2>1, <2>2, <2>3 DEF CloseFails
<1>20. ASSUME NEW w \in env.halts, Halt(w) PROVE TypedNext
  BY <1>20 DEF Halt, scm
<1>21. ASSUME NEW d \in env.deletes, DeleteStep(d) PROVE TypedNext
  <2>1. step' \in StepOf
    BY <1>21, Bounds DEF DeleteStep, StepOf
  <2> QED BY <1>21, <2>1 DEF DeleteStep, scm
<1>22. CASE Recreate
  <2>1. step' \in StepOf
    BY <1>22, NewStepType DEF Recreate
  <2> QED BY <1>22, <2>1 DEF Recreate, scm
<1>23. CASE SyncCache
  BY <1>23 DEF SyncCache, scm
<1>24. CASE Tick
  <2>1. prs' \in PRStatusOf /\ cache' \in PRStatusOf
    BY <1>24, AgedType DEF Tick
  <2>2. seenOpen' \in 0..Grace
    BY <1>24, Bounds DEF Tick, Older, Grace
  <2>3. step' \in StepOf
    <3>1. (IF step.exp \in 1..env.timeout THEN step.exp - 1 ELSE step.exp) \in 0..env.timeout \cup {None}
      BY Bounds DEF StepOf
    <3> QED BY <1>24, <3>1 DEF Tick, StepOf
  <2> QED BY <1>24, <2>1, <2>2, <2>3 DEF Tick, scm
<1>25. CASE Crash
  BY <1>25 DEF Crash, scm, PatchOf, JobOf
<1>26. CASE UNCHANGED vars
  BY <1>26 DEF vars
<1> QED
  BY <1>1, <1>2, <1>3, <1>4, <1>5, <1>6, <1>7, <1>8, <1>9, <1>10, <1>11, <1>12, <1>13, <1>14, <1>15, <1>16,
     <1>17, <1>18, <1>19, <1>20, <1>21, <1>22, <1>23, <1>24, <1>25, <1>26, <1>27
  DEF Next, People, PRStatusReconcile, MergeEvent, StepReconcile, Closing, Environment

LEMMA TypeStep == ASSUME TypeOK, [Next]_vars PROVE TypeOK'
BY TypedStep, TypeFrame

-----------------------------------------------------------------------------
(* The invariants of every setting *)

LEMMA JobStep == ASSUME PRInv, [Next]_vars PROVE JobInv'
<1> USE DEF PRInv, JobInv
<1>0. TypeOK /\ TypedNext /\ step.pr \in 0..MaxPR
  BY TypedStep DEF TypeOK, StepOf
<1>1. ASSUME job' = job, job # Idle => step' = step,
             \A n \in PRs : pr[n] = "merged" => pr'[n] = "merged"
      PROVE  JobInv'
  BY <1>1
<1>2. CASE job' = Idle
  BY <1>2
<1>3. ASSUME NEW w \in {"superseded", "rejected", "held", "timeout", "failed", "deleted"}, NEW n \in 0..MaxPR,
             StartsClosing(w, n), w = "failed" \/ n = step.pr,
             step' = step, step.st \in {"Promoting", "WaitingForMerge"},
             \A m \in PRs : pr[m] = "merged" => pr'[m] = "merged"
      PROVE  JobInv'
  BY <1>3, StartsType
<1>4. ASSUME NEW n \in PRs, Merge(n) \/ CloseByHand(n) \/ Reopen(n) PROVE JobInv'
  BY <1>0, <1>1, <1>4 DEF Merge, CloseByHand, Reopen, TypeOK
<1>5. CASE PRStatusReconcile \/ MergeEvent
  BY <1>1, <1>5 DEF PRStatusReconcile, MergeEvent, ClearForNewPR, RecordMerger, Poll, PollFails, PatchPolled,
                    HookPatches, HookReads, scm
<1>6. CASE Push \/ NothingToCommit
  BY <1>1, <1>6 DEF Push, NothingToCommit, Runs, Live, scm
<1>7. CASE OpenPR
  <2>1. PICK n \in PRs :
          /\ CanOpen(n) /\ pr' = [pr EXCEPT ![n] = "open"]
          /\ UNCHANGED job \/ (StartsClosing("failed", n) /\ UNCHANGED <<step, prs>>)
    BY <1>7 DEF OpenPR
  <2>2. \A m \in PRs : pr[m] = "merged" => pr'[m] = "merged"
    BY <1>0, <2>1 DEF CanOpen, TypeOK
  <2>3. n \in 0..MaxPR /\ job = Idle /\ step.st = "Promoting"
    BY <1>0, <1>7, Bounds DEF PRs, OpenPR, Runs, Live
  <2> QED BY <1>1, <1>3, <2>1, <2>2, <2>3
<1>8. CASE Wait
  <2>1. \/ \E w \in {"held", "timeout"} : StartsClosing(w, step.pr) /\ UNCHANGED step
        \/ UNCHANGED job
    BY <1>8 DEF Wait
  <2>2. job = Idle /\ step.st = "WaitingForMerge" /\ pr' = pr
    BY <1>8 DEF Wait, Live, scm
  <2> QED BY <1>0, <1>1, <1>3, <2>1, <2>2
<1>9. CASE Cancel
  <2>1. halt \in {"superseded", "rejected"} /\ StartsClosing(halt, step.pr) /\ step' = step /\ pr' = pr
        /\ step.st \in {"Promoting", "WaitingForMerge"}
    BY <1>9 DEF Cancel, Live, scm
  <2> QED BY <1>0, <1>3, <2>1
<1>10. CASE CloseDeleted
  <2>1. /\ (StartsClosing("deleted", step.pr) /\ step' = step) \/ job' = job
        /\ pr' = pr /\ job = Idle /\ step.st \in {"Promoting", "WaitingForMerge"}
    BY <1>10 DEF CloseDeleted, scm
  <2> QED BY <1>0, <1>1, <1>3, <2>1
<1>11. CASE AskSCM
  <2>0. pr' = pr /\ job # Idle /\ job \in JobOf
    BY <1>0, <1>11 DEF AskSCM, scm, TypeOK
  <2>1. CASE FoundMerged
    <3>1. job' = Idle \/ \E w \in {"timeout", "failed"} : StartsClosing(w, step.pr) /\ step' = step
      BY <1>0, <1>11, <2>1, FoundType DEF AskSCM
    <3> QED BY <1>0, <1>2, <1>3, <2>0, <3>1
  <2>2. ASSUME AnswerFor(StepPR) # "merged", UNCHANGED <<prs, step>>,
               NEW a \in {"close", "delete"}, job' = [job EXCEPT !.pr = StepPR, !.at = a]
        PROVE  JobInv'
    <3>1. ~job.mergedAtStart
      BY <1>0, <2>0, <2>2, Bounds DEF StepPR, AnswerFor
    <3>2. job'.mergedAtStart = job.mergedAtStart /\ job'.pr = StepPR /\ job'.why = job.why
      BY <2>0, <2>2 DEF JobOf
    <3>3. step.pr = job.pr => step.pr \in {0, StepPR}
      BY DEF StepPR
    <3> QED BY <2>0, <2>2, <3>1, <3>2, <3>3 DEF StepPR
  <2> QED BY <1>11, <2>1, <2>2 DEF AskSCM
<1>12. CASE ClosePR \/ NotePR
  <2>0. /\ job # Idle /\ job \in JobOf /\ job.at \in {"close", "note"} /\ step' = step
        /\ \A m \in PRs : pr[m] = "merged" => pr'[m] = "merged"
        /\ job' = [job EXCEPT !.at = IF job.at = "close" THEN "note" ELSE "delete"]
    BY <1>0, <1>12 DEF ClosePR, NotePR, TypeOK
  <2>1. job'.mergedAtStart = job.mergedAtStart /\ job'.pr = job.pr /\ job'.why = job.why
    BY <2>0 DEF JobOf
  <2>2. ~(job.mergedAtStart /\ job.why = "rejected")
    BY <2>0
  <2> QED BY <2>0, <2>1, <2>2
<1>13. CASE NotAllowed \/ DeleteBranch \/ CloseFails \/ Crash
  BY <1>2, <1>13 DEF NotAllowed, DeleteBranch, CloseFails, Crash
<1>14. CASE Environment \/ SyncCache \/ Tick
  <2>1. CASE Recreate
    BY <1>1, <2>1 DEF Recreate, scm
  <2>2. ASSUME NEW d \in env.deletes, DeleteStep(d) PROVE JobInv'
    BY <1>1, <2>2 DEF DeleteStep, scm
  <2>3. CASE Tick
    BY <1>1, <2>3 DEF Tick, scm
  <2>4. CASE SyncCache \/ (\E w \in env.halts : Halt(w))
    BY <1>1, <2>4 DEF SyncCache, Halt, scm
  <2> QED BY <1>14, <2>1, <2>2, <2>3, <2>4 DEF Environment
<1>15. CASE UNCHANGED vars
  BY <1>1, <1>15 DEF vars
<1> QED
  BY <1>4, <1>5, <1>6, <1>7, <1>8, <1>9, <1>10, <1>11, <1>12, <1>13, <1>14, <1>15
  DEF Next, People, StepReconcile, Closing

\* How the PRStatus changes outside the polls, the events and the ticks: its spec and its mark only.
SpecOnly ==
    /\ prs'.obs = prs.obs /\ prs'.merged = prs.merged /\ prs'.open = prs.open
    /\ prs'.closedAt = prs.closedAt /\ prs'.final = prs.final

LEMMA SpecPatch ==
    ASSUME TypeOK, NEW n, prs' = [prs EXCEPT !.num = n] \/ prs' = [prs EXCEPT !.mark = n] \/ prs' = prs
    PROVE  SpecOnly
BY DEF SpecOnly, TypeOK, PRStatusOf

LEMMA StepsSpecOnly ==
    ASSUME TypeOK, People \/ StepReconcile \/ Closing \/ Environment \/ SyncCache \/ Crash \/ UNCHANGED vars
    PROVE  SpecOnly
<1>0. step.pr \in 0..MaxPR
  BY DEF TypeOK, StepOf
<1>1. CASE People \/ Environment \/ SyncCache \/ Crash \/ UNCHANGED vars
  BY <1>1 DEF People, Merge, CloseByHand, Reopen, Environment, Halt, DeleteStep, Recreate, SyncCache, Crash, vars, SpecOnly
<1>2. CASE Push \/ Cancel \/ CloseDeleted
  BY <1>2 DEF Push, Cancel, CloseDeleted, SpecOnly
<1>3. CASE NothingToCommit \/ OpenPR
  <2>1. prs' = prs \/ \E n \in PRs : prs' \in {prs, PatchSpec(View, n)}
    BY <1>3 DEF NothingToCommit, CommittedNothing, OpenPR
  <2> QED BY <2>1, SpecPatch, WaitingType
<1>4. CASE Wait
  <2>1. prs' = prs \/ Concludes
    BY <1>4, Decided DEF Wait
  <2> QED BY <2>1, SpecPatch DEF Concludes
<1>5. CASE AskSCM
  <2>1. prs' = prs \/ Concludes \/ \E n \in PRs : prs' \in {prs, [prs EXCEPT !.num = n]}
    BY <1>5, FoundType, CommitType DEF AskSCM
  <2> QED BY <2>1, SpecPatch DEF Concludes
<1>6. CASE NotAllowed \/ ClosePR \/ DeleteBranch \/ CloseFails
  BY <1>6 DEF NotAllowed, ClosePR, DeleteBranch, CloseFails, SpecOnly, scm
<1>7. CASE NotePR
  BY <1>7, SpecPatch DEF NotePR
<1> QED BY <1>1, <1>2, <1>3, <1>4, <1>5, <1>6, <1>7 DEF StepReconcile, Closing

\* A poll or an event that is under way stays as it is while others act; only a restart drops it.
LEMMA FlightsKept ==
    ASSUME People \/ StepReconcile \/ Closing \/ Environment \/ SyncCache \/ Tick \/ Crash \/ UNCHANGED vars
    PROVE  poll' \in {poll, Idle} /\ hook' \in {hook, Idle}
BY DEF People, Merge, CloseByHand, Reopen, StepReconcile, Push, NothingToCommit, OpenPR, Wait, Cancel,
       CloseDeleted, Closing, AskSCM, NotAllowed, ClosePR, NotePR, DeleteBranch, CloseFails, Environment, Halt,
       DeleteStep, Recreate, SyncCache, Tick, Crash, vars

LEMMA PatchStep == ASSUME PRInv, [Next]_vars PROVE PatchInv'
<1> USE DEF PRInv, PatchInv
<1>1. ASSUME poll' \in {poll, Idle}, hook' \in {hook, Idle} PROVE PatchInv'
  BY <1>1
<1>2. CASE ClearForNewPR \/ PatchPolled \/ HookPatches
  BY <1>1, <1>2 DEF ClearForNewPR, PatchPolled, HookPatches
<1>3. CASE RecordMerger
  BY <1>3, MergerRead DEF InFlight, RecordMerger
<1>4. CASE PollFails
  BY <1>4, FailRead DEF InFlight, PollFails
<1>5. CASE Poll
  BY <1>5, PollRead DEF InFlight, Poll
<1>6. ASSUME NEW n \in PRs, HookReads(n) PROVE PatchInv'
  BY <1>6, EventRead DEF InFlight, HookReads
<1> QED BY <1>1, <1>2, <1>3, <1>4, <1>5, <1>6, FlightsKept DEF Next, PRStatusReconcile, MergeEvent

LEMMA WindowStep == ASSUME PRInv, [Next]_vars PROVE WindowInv'
<1> SUFFICES ASSUME ~env.stale PROVE WindowInv'
  BY TypedStep DEF TypedNext, WindowInv, PRInv
<1> USE DEF PRInv
<1>0. /\ TypeOK /\ TypedNext /\ View = prs /\ prs \in PRStatusOf /\ seenOpen \in 0..Grace /\ Grace \in Nat
      /\ Grace' = Grace /\ None \in Nat /\ prs.closedAt \in Ages
  BY TypedStep, Bounds DEF TypeOK, TypedNext, View, Grace, PRStatusOf
<1>1. ASSUME SpecOnly, poll' \in {poll, Idle}, hook' \in {hook, Idle}, seenOpen' \in {seenOpen, Grace} PROVE WindowInv'
  <2>1. SinceOpen(prs)'
    BY <1>0, <1>1 DEF WindowInv, SinceOpen, SpecOnly, Ages
  <2>2. poll' # Idle => SinceOpen(poll.new)' /\ poll' = poll
    <3>1. poll # Idle => poll.new.closedAt \in Ages
      BY <1>0 DEF TypeOK, PatchOf, PRStatusOf
    <3> QED BY <1>0, <1>1, <3>1 DEF WindowInv, SinceOpen, Ages
  <2> QED BY <1>1, <2>1, <2>2 DEF WindowInv, SpecOnly
<1>2. CASE ClearForNewPR
  <2>1. ~prs'.open /\ prs'.closedAt = None /\ ~prs'.final
    BY <1>0, <1>2 DEF ClearForNewPR, ClearedForNewPR, NoStatus, PRStatusOf
  <2> QED BY <1>2, <2>1 DEF ClearForNewPR, WindowInv, SinceOpen
<1>3. ASSUME InFlight(poll', "poll"), Keeps(poll'.new, View), UNCHANGED <<prs, hook, seenOpen>> PROVE WindowInv'
  BY <1>0, <1>3 DEF InFlight, Keeps, WindowInv, SinceOpen
<1>4. CASE Poll
  <2> DEFINE open == pr[View.num] = "open"
             closed == ClosedState(View, pr[View.num] = "merged", open)
  <2>1. /\ closed[1] \in Ages /\ closed[2] \in BOOLEAN /\ open \in BOOLEAN
        /\ open => (closed[1] = None /\ closed[2] = FALSE)
        /\ closed[1] # None => closed[1] = 0 \/ (closed[1] = prs.closedAt /\ prs.closedAt # None)
        /\ closed[2] => prs.closedAt # None /\ prs.closedAt >= Grace
    BY <1>0, ClosedStateIs
  <2> HIDE DEF open, closed
  <2>2. closed[1] # None => closed[1] <= seenOpen
    BY <1>0, <2>1 DEF WindowInv, SinceOpen, Ages
  <2>3. closed[2] => seenOpen = Grace
    BY <1>0, <2>1 DEF WindowInv, SinceOpen, Ages
  <2>4. UNCHANGED <<prs, hook>>
    BY <1>4 DEF Poll
  <2>5. CASE poll' = Idle /\ prs.open = open /\ prs.closedAt = closed[1]
    <3>1. seenOpen' \in {0, seenOpen} /\ (seenOpen' # seenOpen => open)
      BY <1>4 DEF Poll, open
    <3>2. ~prs.final
      BY <1>0, <1>4, PollRead
    <3> QED BY <1>0, <2>1, <2>4, <2>5, <3>1, <3>2 DEF WindowInv, SinceOpen
  <2>6. CASE InFlight(poll', "poll") /\ poll'.new.open = open /\ poll'.new.closedAt = closed[1] /\ poll'.new.final = closed[2]
    <3>1. seenOpen' = seenOpen
      BY <1>4, <2>6 DEF Poll, InFlight
    <3>2. SinceOpen(poll.new)'
      <4>1. poll'.new.open => poll'.new.closedAt = None /\ ~poll'.new.final
        BY <2>1, <2>6
      <4>2. poll'.new.closedAt # None => poll'.new.closedAt <= seenOpen
        BY <2>2, <2>6
      <4>3. poll'.new.final => seenOpen = Grace
        BY <2>3, <2>6
      <4> QED BY <1>0, <3>1, <4>1, <4>2, <4>3 DEF SinceOpen
    <3>3. SinceOpen(prs)'
      BY <1>0, <2>4, <3>1 DEF WindowInv, SinceOpen
    <3> QED BY <1>0, <2>4, <2>6, <3>2, <3>3 DEF WindowInv, InFlight
  <2> QED BY <1>0, <1>4, <2>5, <2>6, PollRead DEF open, closed
<1>5. CASE PatchPolled
  <2>1. /\ poll # Idle /\ poll.base \in PRStatusOf /\ poll.new \in PRStatusOf
        /\ prs' = MergePatch(poll) /\ poll' = Idle /\ hook' = hook
    BY <1>0, <1>5 DEF PatchPolled, TypeOK, PatchOf
  <2>2. /\ prs'.open = IF poll.new.open # poll.base.open THEN poll.new.open ELSE prs.open
        /\ prs'.closedAt = IF poll.new.closedAt # poll.base.closedAt THEN poll.new.closedAt ELSE prs.closedAt
        /\ prs'.final = IF poll.new.final # poll.base.final THEN poll.new.final ELSE prs.final
    BY <1>0, <2>1, Patched
  <2>3. /\ SinceOpen(poll.new) /\ prs.closedAt \in {poll.base.closedAt, None}
        /\ prs.final => poll.base.final
        /\ prs.open => poll.base.open
    BY <2>1 DEF WindowInv
  <2>4. seenOpen' = seenOpen \/ (poll.new.open /\ seenOpen' = 0)
    BY <1>5 DEF PatchPolled
  <2>5. /\ poll.new.open \in BOOLEAN /\ poll.base.open \in BOOLEAN /\ prs.open \in BOOLEAN
        /\ poll.new.final \in BOOLEAN /\ poll.base.final \in BOOLEAN /\ prs.final \in BOOLEAN
    BY <1>0, <2>1 DEF PRStatusOf
  <2>6. prs'.open => poll.new.open
    BY <2>2, <2>3, <2>5
  <2>7. poll.new.open => prs'.closedAt = None /\ ~prs'.final
    BY <2>2, <2>3, <2>5 DEF SinceOpen
  <2>8. SinceOpen(prs)'
    <3>1. CASE poll.new.open
      BY <2>7, <3>1 DEF SinceOpen
    <3>2. CASE ~poll.new.open
      <4>1. seenOpen' = seenOpen /\ ~prs'.open
        BY <2>4, <2>6, <3>2
      <4>2. prs'.closedAt # None => prs'.closedAt <= seenOpen
        BY <2>2, <2>3 DEF SinceOpen, WindowInv
      <4>3. prs'.final => seenOpen = Grace
        BY <2>2, <2>3, <2>5 DEF SinceOpen, WindowInv
      <4> QED BY <1>0, <4>1, <4>2, <4>3 DEF SinceOpen
    <3> QED BY <3>1, <3>2
  <2> QED BY <2>1, <2>8 DEF WindowInv
<1>6. ASSUME NEW n \in PRs, HookReads(n) PROVE WindowInv'
  BY <1>0, <1>6, EventRead DEF HookReads, InFlight, WindowInv, SinceOpen
<1>7. CASE HookPatches
  <2>1. /\ hook # Idle /\ hook.base \in PRStatusOf /\ hook.new \in PRStatusOf
        /\ prs' = MergePatch(hook) /\ hook' = Idle /\ poll' = poll /\ seenOpen' = seenOpen
    BY <1>0, <1>7 DEF HookPatches, TypeOK, PatchOf
  <2>2. /\ prs'.open = IF hook.new.open # hook.base.open THEN hook.new.open ELSE prs.open
        /\ prs'.closedAt = IF hook.new.closedAt # hook.base.closedAt THEN hook.new.closedAt ELSE prs.closedAt
        /\ prs'.final = IF hook.new.final # hook.base.final THEN hook.new.final ELSE prs.final
    BY <1>0, <2>1, Patched
  <2>3. /\ hook.new.closedAt \in {hook.base.closedAt, None}
        /\ hook.new.final => hook.base.final
        /\ ~hook.new.open
    BY <2>1 DEF WindowInv
  <2>4. /\ prs.open \in BOOLEAN /\ prs.final \in BOOLEAN /\ hook.new.final \in BOOLEAN /\ hook.base.final \in BOOLEAN
        /\ hook.new.open \in BOOLEAN /\ hook.base.open \in BOOLEAN
    BY <1>0, <2>1 DEF PRStatusOf
  <2>5. prs'.open => prs.open
    BY <2>2, <2>3, <2>4
  <2>6. prs'.closedAt \in {prs.closedAt, None}
    BY <2>2, <2>3
  <2>7. prs'.final => prs.final
    BY <2>2, <2>3, <2>4
  <2> QED BY <1>0, <2>1, <2>5, <2>6, <2>7 DEF WindowInv, SinceOpen
<1>8. CASE Tick
  <2>1. prs' = Aged(prs) /\ poll' = Idle /\ hook' = Idle /\ seenOpen' = Older(seenOpen)
    BY <1>8 DEF Tick
  <2>2. prs'.closedAt = Older(prs.closedAt) /\ prs'.open = prs.open /\ prs'.final = prs.final
    BY <1>0, <2>1, AgedType
  <2>3. prs'.closedAt # None => prs'.closedAt <= seenOpen'
    BY <1>0, <2>1, <2>2, Bounds DEF Older, WindowInv, SinceOpen, Ages, Grace
  <2> QED BY <1>0, <2>1, <2>2, <2>3 DEF WindowInv, SinceOpen, Older
<1>9. CASE People \/ StepReconcile \/ Closing \/ Environment \/ SyncCache \/ Crash \/ UNCHANGED vars
  <2>1. seenOpen' \in {seenOpen, Grace}
    BY <1>9 DEF People, Merge, CloseByHand, Reopen, StepReconcile, Push, NothingToCommit, OpenPR, Wait, Cancel,
       CloseDeleted, Closing, AskSCM, NotAllowed, ClosePR, NotePR, DeleteBranch, CloseFails, Environment, Halt,
       DeleteStep, Recreate, SyncCache, Crash, vars
  <2> QED BY <1>0, <1>1, <1>9, <2>1, StepsSpecOnly, FlightsKept
<1>10. CASE RecordMerger
  BY <1>0, <1>3, <1>10, MergerRead DEF RecordMerger
<1>11. CASE PollFails
  BY <1>0, <1>3, <1>11, FailRead DEF PollFails
<1> QED BY <1>2, <1>4, <1>5, <1>6, <1>7, <1>8, <1>9, <1>10, <1>11 DEF Next, PRStatusReconcile, MergeEvent

LEMMA PRInvInit == ASSUME Init PROVE PRInv
<1>0. /\ env \in Settings /\ env.grace \in Nat /\ env.grace < None /\ env.timeout \in Nat /\ env.retries \in Nat
      /\ env.timeout < None /\ None \in Nat /\ MaxPR \in Nat /\ MaxPR < None
  BY PRAssumption DEF Init, Setting
<1>1. prs \in PRStatusOf /\ cache = prs /\ prs.open = FALSE /\ prs.closedAt = None /\ prs.final = FALSE
  BY <1>0 DEF Init, PRStatusOf, Ages, Grace
<1>2. step \in StepOf
  BY <1>0 DEF Init, NewStep, StepOf, StepStates, Reasons
<1>3. seenOpen \in 0..Grace
  BY <1>0 DEF Init, Grace
<1>4. TypeOK
  BY <1>1, <1>2, <1>3 DEF Init, TypeOK, PatchOf, JobOf, PRs
<1>5. JobInv /\ PatchInv /\ WindowInv
  BY <1>1 DEF Init, JobInv, PatchInv, WindowInv, SinceOpen
<1> QED BY <1>4, <1>5 DEF PRInv

\* The types, the close under way and the grace window, whatever the setting.
THEOREM PRCorrect == Spec => []PRInv
<1>1. Init => PRInv
  BY PRInvInit
<1>2. PRInv /\ [Next]_vars => PRInv'
  BY TypeStep, JobStep, PatchStep, WindowStep DEF PRInv
<1> QED BY <1>1, <1>2, PTL DEF Spec

\* Whatever the setting, a PR is given up as closed only after a grace window in which no poll found
\* it open (closedState), also when polls, events and spec patches overlap.  (GraceWindow speaks of
\* caches that do not lag.)
THEOREM GraceKept == Spec => []GraceWindow
<1>1. PRInv => GraceWindow
  BY DEF PRInv, WindowInv, SinceOpen, GraceWindow
<1> QED BY <1>1, PRCorrect, PTL

\* A rejected step whose PR had merged when its cancellation began is not failed for the rejection
\* (halt.mergedIsLive), whatever the setting: with stale reads, events, restarts and retries too.
\* (RejectedMergedIsLive speaks of a repository the SCM may be asked about.)
THEOREM RejectionSpares == Spec => RejectedMergedIsLive
<1> DEFINE Spared == job # Idle /\ job.why = "rejected" /\ job.mergedAtStart /\ env.allowed
                       => ~(step'.st = "Failed" /\ step'.why = "rejected" /\ ~step'.byHand)
<1>1. ASSUME PRInv, [Next]_vars PROVE Spared
  <2> SUFFICES ASSUME job # Idle, job.why = "rejected", job.mergedAtStart, env.allowed,
                      step'.st = "Failed", step'.why = "rejected", ~step'.byHand
               PROVE  FALSE
    OBVIOUS
  <2>0. /\ TypeOK /\ step \in StepOf /\ step.st \in {"Promoting", "WaitingForMerge"} /\ job.at = "get"
        /\ job.pr \in PRs /\ pr[job.pr] = "merged" /\ job.pr # 0
    BY <1>1, Bounds DEF PRInv, JobInv, TypeOK, PRs
  <2>1. step' # step
    BY <2>0
  <2>2. ~(PRStatusReconcile \/ MergeEvent \/ People \/ SyncCache \/ Crash \/ UNCHANGED vars)
    BY <2>1 DEF PRStatusReconcile, ClearForNewPR, RecordMerger, Poll, PollFails, PatchPolled, MergeEvent,
                HookPatches, HookReads, People, Merge, CloseByHand, Reopen, SyncCache, Crash, vars
  <2>3. ~(StepReconcile \/ Environment \/ Tick)
    <3>1. ~StepReconcile
      BY DEF StepReconcile, Push, NothingToCommit, OpenPR, Wait, Cancel, CloseDeleted, Runs, Live
    <3>2. ~Environment
      BY <2>0, <2>1 DEF Environment, Halt, DeleteStep, Recreate
    <3>3. ~Tick
      BY DEF Tick
    <3> QED BY <3>1, <3>2, <3>3
  <2>4. ~(NotAllowed \/ ClosePR \/ NotePR \/ DeleteBranch)
    BY <2>0 DEF NotAllowed, ClosePR, NotePR, DeleteBranch
  <2>5. ~AskSCM
    <3> SUFFICES ASSUME AskSCM PROVE FALSE
      OBVIOUS
    <3>1. FoundMerged
      BY <2>0 DEF AskSCM, StepPR, AnswerFor
    <3>2. Concludes \/ CommittedNothing
      BY <2>0, <2>1, <3>1, FoundType DEF MergedIsLive
    <3>3. ~CommittedNothing
      BY <2>0, CommitType DEF StepOf
    <3> QED BY <2>0, <3>2, <3>3 DEF Concludes
  <2>6. ~CloseFails
    <3> SUFFICES ASSUME CloseFails PROVE FALSE
      OBVIOUS
    <3>1. CASE Ended("rejected", TRUE)
      BY <2>0, <3>1, EndedType
    <3>2. CASE step' = [step EXCEPT !.tries = @ + 1]
      BY <2>0, <3>2 DEF StepOf
    <3> QED BY <2>1, <3>1, <3>2 DEF CloseFails
  <2> QED BY <1>1, <2>2, <2>3, <2>4, <2>5, <2>6 DEF Next, Closing
<1>2. PRInv /\ [Next]_vars => [Spared]_vars
  BY <1>1
<1> QED BY <1>2, PRCorrect, PTL DEF Spec, RejectedMergedIsLive

-----------------------------------------------------------------------------
(* Who moves what *)

\* A merge is final.
LEMMA MergedForGood ==
    ASSUME TypeOK, [Next]_vars, NEW n \in PRs, pr[n] = "merged" PROVE pr'[n] = "merged"
<1>1. CASE \E m \in PRs : Merge(m) \/ CloseByHand(m) \/ Reopen(m)
  BY <1>1 DEF Merge, CloseByHand, Reopen, TypeOK
<1>2. CASE OpenPR
  BY <1>2 DEF OpenPR, CanOpen, TypeOK
<1>3. CASE ClosePR
  BY <1>3 DEF ClosePR, TypeOK
<1>4. CASE pr' = pr
  BY <1>4
<1> QED
  BY <1>1, <1>2, <1>3, <1>4
  DEF Next, People, PRStatusReconcile, ClearForNewPR, RecordMerger, Poll, PollFails, PatchPolled, MergeEvent,
      HookPatches, HookReads, StepReconcile, Push, NothingToCommit, Wait, Cancel, CloseDeleted, Closing, AskSCM, NotAllowed,
      NotePR, DeleteBranch, CloseFails, Environment, Halt, DeleteStep, Recreate, SyncCache, Tick, Crash, vars, scm

\* How a step moves, and where its branch goes.
StepKept == /\ step'.st = step.st /\ step'.pr = step.pr /\ step'.why = step.why /\ step'.byHand = step.byHand
            /\ step'.del = step.del \/ step.st \in {"Promoting", "WaitingForMerge"}
            /\ branch' => branch \/ step.st = "Promoting"
GetsPR == /\ step.st = "Promoting" /\ step'.st = "WaitingForMerge" /\ step'.pr \in PRs
          /\ pr[step'.pr] # "none" \/ step'.pr <= env.opens
GoesOn == /\ step'.st = "HealthChecking" /\ step'.pr = step.pr
          /\ (step.st = "Promoting" /\ SomeMerged) \/ StepPRMerged(View, step.pr)
GivesUp == step'.st = "Failed" /\ step'.why \in {"closed", "pollError"} /\ step'.pr = step.pr
Finishes == /\ job # Idle /\ step'.pr = job.pr /\ step'.why = job.why /\ step'.st \in {"Failed", "Gone"}
            /\ step'.del = step.del
            /\ \/ step'.byHand
               \/ job.pr = 0 \/ pr[job.pr] = "merged" \/ StepPRMerged(View, job.pr)
               \/ branch' /\ env.allowed /\ env.deleter => job.why = "deleted" /\ step.del = "pushes"
Hands == step'.st = "Gone" /\ step'.why = "deleted" /\ step'.del = "reuses" /\ step'.pr = step.pr
Anew  == step.st = "Gone" /\ step'.st = "Promoting" /\ step'.pr = 0 /\ ~inTime'

StepMoves == StepKept \/ GetsPR \/ GoesOn \/ GivesUp \/ Finishes \/ Hands \/ Anew

LEMMA Concluded == ASSUME Concludes, branch' = branch PROVE StepKept \/ GoesOn \/ GivesUp
BY DEF Concludes, StepKept, GoesOn, GivesUp

LEMMA Committed ==
    ASSUME TypeOK, step.st = "Promoting", SomeMerged, CommittedNothing PROVE GetsPR \/ GoesOn
<1>0. step \in StepOf
  BY DEF TypeOK
<1>1. CASE step' = [step EXCEPT !.st = "HealthChecking"]
  BY <1>0, <1>1 DEF GoesOn, StepOf
<1>2. ASSUME NEW n \in PRs, pr[n] = "merged", step' = [step EXCEPT !.st = "WaitingForMerge", !.pr = n] PROVE GetsPR
  BY <1>0, <1>2 DEF GetsPR, StepOf
<1> QED BY <1>1, <1>2, CommitType

LEMMA Moves == ASSUME TypeOK, [Next]_vars PROVE StepMoves
<1> USE DEF StepMoves
<1>0. step \in StepOf
  BY DEF TypeOK
<1>1. CASE People \/ PRStatusReconcile \/ MergeEvent \/ SyncCache \/ Crash \/ UNCHANGED vars
  <2>1. step' = step /\ branch' = branch
    BY <1>1 DEF People, Merge, CloseByHand, Reopen, PRStatusReconcile, ClearForNewPR, RecordMerger, Poll, PollFails,
                PatchPolled, MergeEvent, HookPatches, HookReads, SyncCache, Crash, vars, scm
  <2> QED BY <2>1 DEF StepKept
<1>2. CASE Push
  BY <1>0, <1>2 DEF Push, Runs, StepKept, StepOf
<1>3. CASE NothingToCommit
  BY <1>3, Committed DEF NothingToCommit, Runs
<1>4. CASE OpenPR
  <2>1. PICK n \in PRs : CanOpen(n) /\ step' \in {step, [step EXCEPT !.st = "WaitingForMerge", !.pr = n]}
    BY <1>4 DEF OpenPR
  <2>2. CASE step' = step
    BY <1>4, <2>2 DEF OpenPR, StepKept
  <2>3. CASE step' = [step EXCEPT !.st = "WaitingForMerge", !.pr = n]
    <3>1. pr[n] # "none" \/ n <= env.opens
      BY <2>1 DEF CanOpen
    <3>2. step'.pr = n /\ step'.st = "WaitingForMerge"
      BY <1>0, <2>3 DEF StepOf
    <3> QED BY <1>4, <3>1, <3>2 DEF OpenPR, Runs, GetsPR
  <2> QED BY <2>1, <2>2, <2>3
<1>5. CASE Wait
  <2>1. step' = step \/ Concludes
    BY <1>5, Decided DEF Wait
  <2>2. branch' = branch
    BY <1>5 DEF Wait, scm
  <2> QED BY <2>1, <2>2, Concluded DEF StepKept
<1>6. CASE Cancel
  BY <1>6 DEF Cancel, scm, StepKept
<1>7. CASE CloseDeleted
  <2>1. CASE step' = [step EXCEPT !.st = "Gone", !.why = "deleted"] /\ step.del = "reuses"
    BY <1>0, <2>1 DEF Hands, StepOf
  <2>2. CASE step' = step
    BY <1>7, <2>2 DEF CloseDeleted, scm, StepKept
  <2> QED BY <1>7, <2>1, <2>2 DEF CloseDeleted
<1>8. CASE AskSCM
  <2>1. branch' = branch /\ job # Idle
    BY <1>8 DEF AskSCM, scm
  <2>2. CASE step' = step
    BY <2>1, <2>2 DEF StepKept
  <2>3. CASE Concludes
    BY <2>1, <2>3, Concluded
  <2>4. CASE Ended(job.why, FALSE) /\ (StepPRMerged(View, job.pr) \/ AnswerFor(StepPR) = "merged")
    BY <2>1, <2>4, EndedType DEF Finishes, StepPR, AnswerFor
  <2>5. CASE step.st = "Promoting" /\ SomeMerged /\ CommittedNothing
    BY <2>5, Committed
  <2> QED BY <1>8, <2>1, <2>2, <2>3, <2>4, <2>5, FoundType DEF AskSCM
<1>16. CASE NotAllowed
  BY <1>16, EndedType DEF NotAllowed, Finishes
<1>9. CASE ClosePR \/ NotePR
  BY <1>9 DEF ClosePR, NotePR, StepKept
<1>10. CASE DeleteBranch
  BY <1>10, EndedType DEF DeleteBranch, KeepsBranch, Finishes
<1>11. CASE CloseFails
  <2>1. job # Idle /\ branch' = branch
    BY <1>11 DEF CloseFails, scm
  <2>2. CASE Ended(job.why, TRUE)
    BY <2>1, <2>2, EndedType DEF Finishes
  <2>3. CASE step' = step
    BY <2>1, <2>3 DEF StepKept
  <2>4. CASE step' = [step EXCEPT !.tries = @ + 1]
    BY <1>0, <2>1, <2>4 DEF StepKept, StepOf
  <2> QED BY <1>11, <2>2, <2>3, <2>4 DEF CloseFails
<1>12. CASE \E w \in env.halts : Halt(w)
  BY <1>12 DEF Halt, scm, StepKept
<1>13. ASSUME NEW d \in env.deletes, DeleteStep(d) PROVE StepKept
  BY <1>0, <1>13 DEF DeleteStep, scm, StepKept, StepOf
<1>14. CASE Recreate
  BY <1>14 DEF Recreate, NewStep, Anew
<1>15. CASE Tick
  BY <1>0, <1>15 DEF Tick, scm, StepKept, StepOf
<1> QED
  BY <1>1, <1>2, <1>3, <1>4, <1>5, <1>6, <1>7, <1>8, <1>9, <1>10, <1>11, <1>12, <1>13, <1>14, <1>15, <1>16
  DEF Next, StepReconcile, Closing, Environment

\* Where a close under way comes from.
JobKept == job # Idle /\ job'.pr \in {job.pr, View.num} /\ job'.why = job.why /\ step' = step
JobBegins == /\ job' \in JobOf /\ step' = step /\ inTime' = inTime
             /\ \/ job'.pr = step.pr
                \/ job'.pr \in PRs /\ (pr[job'.pr] # "none" \/ job'.pr <= env.opens)
             /\ job'.why = "timeout" => TimedOut

LEMMA JobMoves == ASSUME PRInv, [Next]_vars, job' # Idle PROVE JobKept \/ JobBegins
<1> USE DEF PRInv
<1>0. step.pr \in 0..MaxPR /\ job \in JobOf
  BY DEF TypeOK, StepOf
<1>1. ASSUME NEW w \in {"superseded", "rejected", "held", "timeout", "failed", "deleted"}, StartsClosing(w, step.pr),
             w = "timeout" => TimedOut, step' = step, inTime' = inTime
      PROVE  JobBegins
  BY <1>0, <1>1, StartsType DEF JobBegins
<1>2. CASE People \/ PRStatusReconcile \/ MergeEvent \/ SyncCache \/ Crash \/ UNCHANGED vars \/ (\E w \in env.halts : Halt(w))
  BY <1>2 DEF People, Merge, CloseByHand, Reopen, PRStatusReconcile, ClearForNewPR, RecordMerger, Poll, PollFails,
              PatchPolled, MergeEvent, HookPatches, HookReads, SyncCache, Crash, vars, Halt, JobKept
<1>3. CASE Push \/ NothingToCommit
  BY <1>3 DEF Push, NothingToCommit, Runs, Live
<1>4. CASE OpenPR
  <2>1. PICK n \in PRs : CanOpen(n) /\ (job' = job \/ (StartsClosing("failed", n) /\ step' = step))
    BY <1>4 DEF OpenPR
  <2>2. job = Idle /\ inTime' = inTime
    BY <1>4 DEF OpenPR, Runs, Live
  <2>3. pr[n] # "none" \/ n <= env.opens
    BY <2>1 DEF CanOpen
  <2>4. n \in 0..MaxPR
    BY Bounds DEF PRs
  <2> QED BY <2>1, <2>2, <2>3, <2>4, StartsType DEF JobBegins
<1>5. CASE Wait
  <2>1. \/ \E w \in {"held", "timeout"} : StartsClosing(w, step.pr) /\ step' = step /\ (w = "timeout" => TimedOut)
        \/ job' = Idle
    BY <1>5 DEF Wait, Live
  <2>2. inTime' = inTime
    BY <1>5 DEF Wait
  <2> QED BY <1>1, <2>1, <2>2
<1>6. CASE Cancel
  <2>1. halt \in {"superseded", "rejected"} /\ StartsClosing(halt, step.pr) /\ step' = step /\ inTime' = inTime
    BY <1>6 DEF Cancel
  <2> QED BY <1>1, <2>1
<1>7. CASE CloseDeleted
  <2>1. StartsClosing("deleted", step.pr) /\ step' = step /\ inTime' = inTime
    BY <1>7 DEF CloseDeleted
  <2> QED BY <1>1, <2>1
<1>8. CASE AskSCM
  <2>0. job # Idle /\ inTime' = inTime
    BY <1>8 DEF AskSCM
  <2>1. CASE FoundMerged
    <3>1. \E w \in {"timeout", "failed"} : StartsClosing(w, step.pr) /\ step' = step /\ (w = "timeout" => TimedOut)
      BY <2>0, <2>1, FoundType
    <3> QED BY <1>1, <2>0, <3>1
  <2>2. ASSUME NEW a \in {"close", "delete"}, job' = [job EXCEPT !.pr = StepPR, !.at = a], step' = step PROVE JobKept
    BY <1>0, <2>0, <2>2 DEF JobKept, JobOf, StepPR
  <2> QED BY <1>8, <2>1, <2>2 DEF AskSCM
<1>9. CASE ClosePR \/ NotePR
  BY <1>0, <1>9 DEF ClosePR, NotePR, JobKept, JobOf
<1>10. CASE NotAllowed \/ DeleteBranch \/ CloseFails \/ Tick
  BY <1>10 DEF NotAllowed, DeleteBranch, CloseFails, Tick
<1>11. CASE Recreate
  BY <1>11 DEF Recreate, JobInv
<1>12. CASE \E d \in env.deletes : DeleteStep(d)
  BY <1>12 DEF DeleteStep
<1> QED
  BY <1>2, <1>3, <1>4, <1>5, <1>6, <1>7, <1>8, <1>9, <1>10, <1>11, <1>12 DEF Next, StepReconcile, Closing, Environment

\* The spec names the PR it named, or the one of the step.
LEMMA NumMoves ==
    ASSUME PRInv, OpenedInv, [Next]_vars PROVE prs'.num = prs.num \/ (prs'.num = step'.pr /\ step'.pr # 0)
<1> USE DEF PRInv
<1>0. prs \in PRStatusOf /\ step \in StepOf /\ 0 \notin PRs
  BY DEF TypeOK, PRs
<1>1. CASE People \/ RecordMerger \/ Poll \/ PollFails \/ (\E n \in PRs : HookReads(n)) \/ Environment \/ SyncCache
           \/ Crash \/ UNCHANGED vars
  BY <1>1 DEF People, Merge, CloseByHand, Reopen, RecordMerger, Poll, PollFails, HookReads, Environment, Halt,
              DeleteStep, Recreate, SyncCache, Crash, vars
<1>2. CASE ClearForNewPR
  BY <1>0, <1>2, ViewType DEF ClearForNewPR, ClearedForNewPR, NoStatus, PRStatusOf
<1>3. CASE PatchPolled
  BY <1>0, <1>3, Patched DEF PatchPolled, PatchInv, TypeOK, PatchOf
<1>4. CASE HookPatches
  BY <1>0, <1>4, Patched DEF HookPatches, PatchInv, TypeOK, PatchOf
<1>5. CASE Push \/ Cancel \/ CloseDeleted \/ NotAllowed \/ ClosePR \/ DeleteBranch \/ CloseFails
  BY <1>5 DEF Push, Cancel, CloseDeleted, NotAllowed, ClosePR, DeleteBranch, CloseFails
<1>6. CASE NothingToCommit \/ OpenPR
  <2>1. \/ prs' = prs
        \/ \E n \in PRs : step' = [step EXCEPT !.st = "WaitingForMerge", !.pr = n] /\ prs' \in {prs, PatchSpec(View, n)}
    BY <1>6 DEF NothingToCommit, CommittedNothing, OpenPR
  <2> QED BY <1>0, <2>1, ZenonT(30) DEF PatchSpec, PRStatusOf, StepOf
<1>7. CASE Wait
  <2>1. (prs' = prs \/ Concludes) /\ step.pr # 0
    BY <1>7, Decided DEF Wait, OpenedInv
  <2> QED BY <1>0, <2>1 DEF Concludes, PRStatusOf
<1>8. CASE AskSCM
  <2>1. prs' = prs \/ (Concludes /\ job # Idle /\ step.st # "Promoting") \/ CommittedNothing
    BY <1>8, FoundType DEF AskSCM
  <2>2. CASE Concludes /\ step.pr # 0
    BY <1>0, <2>2 DEF Concludes, PRStatusOf
  <2>3. CASE CommittedNothing
    <3>1. PRInv /\ TypeOK
      BY DEF PRInv
    <3>2. ASSUME NEW n \in PRs, step' = [step EXCEPT !.st = "WaitingForMerge", !.pr = n],
                 prs' \in {prs, [prs EXCEPT !.num = n]}
          PROVE  prs'.num = prs.num \/ (prs'.num = step'.pr /\ step'.pr # 0)
      BY <1>0, <3>2 DEF PRStatusOf, StepOf
    <3> QED BY <2>3, <3>1, <3>2, CommitType
  <2> QED BY <2>1, <2>2, <2>3 DEF JobInv, OpenedInv
<1>9. CASE NotePR
  BY <1>0, <1>9 DEF NotePR, PRStatusOf
<1>10. CASE Tick
  BY <1>0, <1>10, AgedType DEF Tick
<1> QED
  BY <1>1, <1>2, <1>3, <1>4, <1>5, <1>6, <1>7, <1>8, <1>9, <1>10
  DEF Next, PRStatusReconcile, MergeEvent, StepReconcile, Closing

\* The cache names the PR it named, or the stored one.
LEMMA CacheMoves == ASSUME TypeOK, [Next]_vars PROVE cache'.num \in {cache.num, prs.num}
<1>1. CASE Tick
  BY <1>1, AgedType DEF Tick, TypeOK
<1>2. CASE cache' \in {cache, prs}
  BY <1>2
<1> QED
  BY <1>1, <1>2
  DEF Next, People, Merge, CloseByHand, Reopen, PRStatusReconcile, ClearForNewPR, RecordMerger, Poll, PollFails,
      PatchPolled, MergeEvent, HookPatches, HookReads, StepReconcile, Push, NothingToCommit, OpenPR, Wait, Cancel,
      CloseDeleted, Closing, AskSCM, NotAllowed, ClosePR, NotePR, DeleteBranch, CloseFails, Environment, Halt,
      DeleteStep, Recreate, SyncCache, Crash, vars

-----------------------------------------------------------------------------
(* The invariants of settings that keep PRs apart *)

LEMMA OpenedStep == ASSUME ApartInv, [Next]_vars PROVE OpenedInv'
<1> USE DEF ApartInv
<1>0. /\ PRInv /\ OpenedInv /\ TypeOK /\ TypedNext /\ env' = env /\ env.opens \in 1..MaxPR /\ step.pr \in 0..MaxPR
      /\ step'.pr \in 0..MaxPR /\ MaxPR \in Nat
  BY TypedStep, Bounds DEF PRInv, TypedNext, TypeOK, StepOf
<1>1. ASSUME NEW n \in PRs, n > env.opens PROVE pr'[n] = "none"
  <2>0. pr[n] = "none" /\ n \in Nat
    BY <1>0, <1>1 DEF OpenedInv, PRs
  <2>1. CASE \E m \in PRs : Merge(m) \/ CloseByHand(m) \/ Reopen(m)
    BY <1>0, <2>0, <2>1 DEF Merge, CloseByHand, Reopen, TypeOK
  <2>2. CASE OpenPR
    <3>1. PICK m \in PRs : CanOpen(m) /\ pr' = [pr EXCEPT ![m] = "open"]
      BY <2>2 DEF OpenPR
    <3>2. m # n
      BY <1>0, <1>1, <2>0, <3>1 DEF CanOpen
    <3> QED BY <1>0, <2>0, <3>1, <3>2 DEF TypeOK
  <2>3. CASE ClosePR
    BY <1>0, <2>0, <2>3 DEF ClosePR, TypeOK
  <2>4. CASE pr' = pr
    BY <2>0, <2>4
  <2> QED
    BY <2>1, <2>2, <2>3, <2>4
    DEF Next, People, PRStatusReconcile, ClearForNewPR, RecordMerger, Poll, PollFails, PatchPolled, MergeEvent,
        HookPatches, HookReads, StepReconcile, Push, NothingToCommit, Wait, Cancel, CloseDeleted, Closing, AskSCM, NotAllowed,
        NotePR, DeleteBranch, CloseFails, Environment, Halt, DeleteStep, Recreate, SyncCache, Tick, Crash, vars, scm
<1>2. \A n \in PRs : pr[n] # "none" => n <= env.opens
  BY <1>0 DEF OpenedInv, PRs
<1>3. step'.pr <= env.opens
  BY <1>0, <1>2, Moves DEF OpenedInv, StepMoves, StepKept, GetsPR, GoesOn, GivesUp, Finishes, Hands, Anew
<1>4. prs'.num <= env.opens
  BY <1>0, <1>3, NumMoves DEF OpenedInv
<1>5. job' # Idle => job'.pr <= env.opens
  BY <1>0, <1>2, JobMoves DEF OpenedInv, JobKept, JobBegins, View
<1>9. cache'.num <= env.opens
  BY <1>0, CacheMoves DEF OpenedInv
<1>6. inTime' => inTime \/ step.st = "WaitingForMerge"
  BY DEF Next, People, Merge, CloseByHand, Reopen, PRStatusReconcile, ClearForNewPR, RecordMerger, Poll, PollFails,
         PatchPolled, MergeEvent, HookPatches, HookReads, StepReconcile, Push, NothingToCommit, OpenPR, Wait, Cancel,
         CloseDeleted, Closing, AskSCM, NotAllowed, ClosePR, NotePR, DeleteBranch, CloseFails, Environment, Halt,
         DeleteStep, Recreate, SyncCache, Tick, Crash, vars, Recorded
<1>7. step'.st = "Promoting" => step'.pr = 0 /\ ~inTime'
  BY <1>0, <1>6, Moves DEF OpenedInv, StepMoves, StepKept, GetsPR, GoesOn, GivesUp, Finishes, Hands, Anew
<1>8. step'.st = "WaitingForMerge" => step'.pr # 0
  BY <1>0, Moves DEF OpenedInv, StepMoves, StepKept, GetsPR, GoesOn, GivesUp, Finishes, Hands, Anew, PRs
<1> QED BY <1>0, <1>1, <1>3, <1>4, <1>5, <1>7, <1>8, <1>9 DEF OpenedInv, Apart

\* A status that says merged goes on being right, and a patch of right statuses is right.
TrueAfter(c) ==
    c.merged => IF env.opens = 1 THEN pr'[1] = "merged" ELSE c.obs \in PRs /\ pr'[c.obs] = "merged"

LEMMA TrueStays == ASSUME TypeOK, [Next]_vars, NEW c, MergeTrue(c) PROVE TrueAfter(c)
BY MergedForGood, Bounds DEF MergeTrue, TrueAfter

LEMMA PatchTrue ==
    ASSUME prs \in PRStatusOf, NEW j, j.base \in PRStatusOf, j.new \in PRStatusOf, MergeTrue(prs), MergeTrue(j.new),
           env.opens # 1 => prs.merged = j.base.merged /\ prs.obs = j.base.obs
    PROVE  MergeTrue(MergePatch(j))
<1> DEFINE m == MergePatch(j)
<1>1. /\ m.merged = IF j.new.merged # j.base.merged THEN j.new.merged ELSE prs.merged
      /\ m.obs = IF j.new.obs # j.base.obs THEN j.new.obs ELSE prs.obs
  BY Patched
<1>2. j.new.merged \in BOOLEAN /\ j.base.merged \in BOOLEAN /\ prs.merged \in BOOLEAN
  BY DEF PRStatusOf
<1> HIDE DEF m
<1>3. ASSUME env.opens = 1 PROVE MergeTrue(m)
  BY <1>1, <1>2, <1>3 DEF MergeTrue
<1>4. ASSUME env.opens # 1 PROVE MergeTrue(m)
  <2>1. m.merged = j.new.merged /\ m.obs = j.new.obs
    BY <1>1, <1>2, <1>4
  <2> QED BY <2>1 DEF MergeTrue
<1> QED BY <1>3, <1>4 DEF m

LEMMA MergedStep == ASSUME ApartInv, [Next]_vars PROVE MergedInv'
<1> USE DEF ApartInv
<1>0. /\ PRInv /\ TypeOK /\ TypedNext /\ env' = env /\ prs \in PRStatusOf /\ cache \in PRStatusOf
      /\ MergeTrue(prs) /\ MergeTrue(cache) /\ MergeTrue(View) /\ View \in PRStatusOf
  BY TypedStep, ViewType DEF PRInv, TypedNext, TypeOK, MergedInv, View
<1>1. /\ TrueAfter(prs) /\ TrueAfter(cache)
      /\ poll # Idle => TrueAfter(poll.new)
      /\ hook # Idle => TrueAfter(hook.new)
  BY <1>0, TrueStays DEF MergedInv
<1>2. ASSUME TrueAfter(prs'), TrueAfter(cache'), poll' # Idle => TrueAfter(poll'.new), hook' # Idle => TrueAfter(hook'.new)
      PROVE  MergedInv'
  BY <1>0, <1>2 DEF MergedInv, MergeTrue, TrueAfter
<1>3. CASE People \/ StepReconcile \/ Closing \/ Environment \/ SyncCache \/ Crash \/ UNCHANGED vars
  <2>1. SpecOnly /\ poll' \in {poll, Idle} /\ hook' \in {hook, Idle}
    BY <1>0, <1>3, StepsSpecOnly, FlightsKept
  <2>2. cache' = cache \/ (cache' = prs /\ prs' = prs)
    BY <1>3 DEF People, Merge, CloseByHand, Reopen, StepReconcile, Push, NothingToCommit, OpenPR, Wait, Cancel,
         CloseDeleted, Closing, AskSCM, NotAllowed, ClosePR, NotePR, DeleteBranch, CloseFails, Environment, Halt,
         DeleteStep, Recreate, SyncCache, Crash, vars
  <2>3. TrueAfter(prs')
    BY <1>1, <2>1 DEF SpecOnly, TrueAfter
  <2> QED BY <1>1, <1>2, <2>1, <2>2, <2>3
<1>4. CASE ClearForNewPR
  <2>1. prs'.merged = FALSE
    BY <1>0, <1>4 DEF ClearForNewPR, ClearedForNewPR, NoStatus, PRStatusOf
  <2> QED BY <1>1, <1>2, <1>4, <2>1 DEF ClearForNewPR, TrueAfter
<1>5. CASE RecordMerger
  <2>1. InFlight(poll', "poll") /\ Keeps(poll'.new, View) /\ View.merged /\ DescribesSpec(View)
    BY <1>0, <1>5, MergerRead
  <2>2. MergeTrue(poll'.new)
    BY <1>0, <2>1, Bounds DEF InFlight, Keeps, MergeTrue, DescribesSpec, PRs
  <2> QED BY <1>0, <1>1, <1>2, <1>5, <2>2, TrueStays DEF RecordMerger
<1>6. CASE PollFails
  <2>1. ~poll'.new.merged
    BY <1>0, <1>6, FailRead DEF Keeps
  <2> QED BY <1>1, <1>2, <1>6, <2>1 DEF PollFails, TrueAfter
<1>7. CASE Poll
  <2>1. poll' # Idle => MergeTrue(poll'.new)
    <3>1. ASSUME poll' # Idle PROVE /\ View.num \in PRs /\ poll'.new.obs = View.num
                                    /\ poll'.new.merged = (pr[View.num] = "merged")
      BY <1>0, <1>7, <3>1, PollRead DEF InFlight
    <3>2. \A n \in PRs : pr[n] = "merged" /\ env.opens = 1 => n = 1
      BY DEF OpenedInv, PRs
    <3> QED BY <3>1, <3>2 DEF MergeTrue
  <2> QED BY <1>0, <1>1, <1>2, <1>7, <2>1, TrueStays DEF Poll
<1>8. CASE PatchPolled
  <2>1. poll # Idle /\ poll.base \in PRStatusOf /\ poll.new \in PRStatusOf /\ prs' = MergePatch(poll)
    BY <1>0, <1>8 DEF PatchPolled, TypeOK, PatchOf
  <2>2. MergeTrue(prs')
    BY <1>0, <2>1, PatchTrue DEF MergedInv, PollInv
  <2>3. TrueAfter(prs')
    BY <1>0, <2>2, TrueStays
  <2> QED BY <1>1, <1>2, <1>8, <2>3 DEF PatchPolled
<1>9. ASSUME NEW n \in PRs, HookReads(n) PROVE MergedInv'
  <2>1. pr[n] = "merged" /\ env.webhook
    BY <1>0, <1>9, EventRead DEF HookReads
  <2>2. env.opens = 1 /\ pr[1] = "merged"
    BY <2>1 DEF OpenedInv, Apart, PRs
  <2>3. MergeTrue(hook'.new)
    BY <2>2 DEF MergeTrue
  <2> QED BY <1>0, <1>1, <1>2, <1>9, <2>3, TrueStays DEF HookReads
<1>10. CASE HookPatches
  <2>1. hook # Idle /\ hook.base \in PRStatusOf /\ hook.new \in PRStatusOf /\ prs' = MergePatch(hook)
    BY <1>0, <1>10 DEF HookPatches, TypeOK, PatchOf
  <2>2. MergeTrue(prs')
    BY <1>0, <2>1, PatchTrue DEF MergedInv, PollInv
  <2>3. TrueAfter(prs')
    BY <1>0, <2>2, TrueStays
  <2> QED BY <1>1, <1>2, <1>10, <2>3 DEF HookPatches
<1>11. CASE Tick
  <2>1. prs' = Aged(prs) /\ cache' \in {cache, Aged(cache)} /\ poll' = poll /\ hook' = hook
    BY <1>11 DEF Tick
  <2>2. \A c \in PRStatusOf : TrueAfter(c) => TrueAfter(Aged(c))
    BY <1>0, AgedType DEF TrueAfter
  <2> QED BY <1>0, <1>1, <1>2, <2>1, <2>2
<1> QED BY <1>3, <1>4, <1>5, <1>6, <1>7, <1>8, <1>9, <1>10, <1>11 DEF Next, PRStatusReconcile, MergeEvent

LEMMA PollStep == ASSUME ApartInv, [Next]_vars PROVE PollInv'
<1> USE DEF ApartInv
<1> SUFFICES ASSUME env.opens # 1 PROVE PollInv'
  BY TypedStep DEF PollInv, TypedNext, PRInv
<1>0. /\ PRInv /\ TypeOK /\ env' = env /\ hook = Idle /\ View = prs /\ ~env.webhook /\ prs \in PRStatusOf
  BY TypedStep DEF PRInv, TypedNext, TypeOK, PollInv, OpenedInv, Apart, View
<1>1. CASE People \/ StepReconcile \/ Closing \/ Environment \/ SyncCache \/ Crash \/ UNCHANGED vars
  BY <1>0, <1>1, StepsSpecOnly, FlightsKept DEF PollInv, SpecOnly
<1>2. CASE ClearForNewPR \/ PatchPolled \/ Tick
  BY <1>0, <1>2 DEF ClearForNewPR, PatchPolled, Tick, PollInv
<1>3. CASE RecordMerger
  <2>1. InFlight(poll', "poll") /\ View.merged /\ DescribesSpec(View)
    BY <1>0, <1>3, MergerRead
  <2>2. prs.obs = prs.num
    BY <1>0, <2>1, Bounds DEF DescribesSpec, MergedInv, MergeTrue, PRs
  <2> QED BY <1>0, <1>3, <2>1, <2>2 DEF RecordMerger, InFlight, PollInv
<1>4. CASE PollFails
  BY <1>0, <1>4, FailRead DEF PollFails, InFlight, PollInv
<1>5. CASE Poll
  BY <1>0, <1>5, PollRead DEF Poll, InFlight, PollInv
<1>6. CASE MergeEvent
  BY <1>0, <1>6 DEF MergeEvent, HookPatches, HookReads
<1> QED BY <1>1, <1>2, <1>3, <1>4, <1>5, <1>6 DEF Next, PRStatusReconcile

LEMMA StoredStep == ASSUME ApartInv, [Next]_vars PROVE StoredInv'
<1> USE DEF ApartInv
<1> SUFFICES ASSUME ~env.stale PROVE StoredInv'
  BY TypedStep DEF StoredInv, TypedNext, PRInv
<1>0. /\ PRInv /\ TypeOK /\ TypedNext /\ env' = env /\ View = prs /\ prs \in PRStatusOf /\ prs.num \in 0..MaxPR
      /\ env.opens \in 1..MaxPR /\ OpenedInv /\ MaxPR \in Nat
      /\ poll # Idle => poll.base \in PRStatusOf /\ poll.new \in PRStatusOf
      /\ hook # Idle => hook.base \in PRStatusOf /\ hook.new \in PRStatusOf
  BY TypedStep, Bounds DEF PRInv, TypedNext, TypeOK, View, PRStatusOf, PatchOf
\* With one PR, the spec that names it goes on naming it.
<1>1. ASSUME env.opens = 1, prs.num = 1 PROVE prs'.num = 1
  <2>1. prs'.num <= 1 /\ prs'.num \in 0..MaxPR /\ prs'.num # 0
    BY <1>0, <1>1, OpenedStep, NumMoves DEF OpenedInv, TypedNext, PRStatusOf
  <2> QED BY <1>0, <2>1
<1>2. ASSUME poll' \in {poll, Idle}, hook' \in {hook, Idle}, prs'.merged => prs.merged PROVE StoredInv'
  BY <1>0, <1>1, <1>2 DEF StoredInv
<1>3. CASE People \/ StepReconcile \/ Closing \/ Environment \/ SyncCache \/ Crash \/ UNCHANGED vars
  BY <1>0, <1>2, <1>3, StepsSpecOnly, FlightsKept DEF SpecOnly
<1>4. CASE ClearForNewPR
  <2>1. prs'.merged = FALSE
    BY <1>0, <1>4 DEF ClearForNewPR, ClearedForNewPR, NoStatus, PRStatusOf
  <2> QED BY <1>2, <1>4, <2>1 DEF ClearForNewPR
<1>5. ASSUME InFlight(poll', "poll"), UNCHANGED <<prs, hook>>, prs.merged => poll'.new.merged, prs.num # 0
      PROVE  StoredInv'
  <2>1. env.opens = 1 => prs.num = 1
    BY <1>0, <1>5 DEF OpenedInv
  <2> QED BY <1>0, <1>5, <2>1 DEF StoredInv, InFlight
<1>6. CASE RecordMerger
  <2>1. InFlight(poll', "poll") /\ Keeps(poll'.new, View) /\ View.merged /\ DescribesSpec(View)
    BY <1>0, <1>6, MergerRead
  <2>2. prs.num # 0
    BY <1>0, <2>1, Bounds DEF StoredInv, DescribesSpec, MergedInv, MergeTrue, PRs
  <2> QED BY <1>0, <1>5, <1>6, <2>1, <2>2 DEF RecordMerger, Keeps
<1>7. CASE PollFails
  BY <1>0, <1>5, <1>7, FailRead DEF PollFails, Keeps
<1>8. CASE Poll
  <2>0. prs.num \in PRs /\ ~prs.merged
    BY <1>0, <1>8, PollRead
  <2>1. prs.num # 0 /\ UNCHANGED <<prs, hook>>
    BY <1>8, <2>0 DEF Poll, PRs
  <2>2. poll' = Idle \/ InFlight(poll', "poll")
    BY <1>0, <1>8, PollRead
  <2> QED BY <1>2, <1>5, <2>0, <2>1, <2>2
<1>9. CASE PatchPolled
  <2>1. prs'.merged /\ env.opens = 1 => prs.num = 1
    BY <1>9 DEF PatchPolled, StoredInv
  <2>2. poll' = Idle /\ hook' = hook
    BY <1>9 DEF PatchPolled
  <2> QED BY <1>0, <1>1, <2>1, <2>2 DEF StoredInv
<1>10. ASSUME NEW n \in PRs, HookReads(n) PROVE StoredInv'
  <2>0. InFlight(hook', "hook") /\ prs.num = n /\ hook'.new.merged
    BY <1>0, <1>10, EventRead
  <2>1. InFlight(hook', "hook") /\ prs.num # 0 /\ hook'.new.merged /\ UNCHANGED <<prs, poll>>
    BY <1>10, <2>0 DEF HookReads, PRs
  <2>2. env.opens = 1 => prs.num = 1
    BY <1>0, <2>1 DEF OpenedInv
  <2> QED BY <1>0, <2>1, <2>2 DEF StoredInv, InFlight
<1>11. CASE HookPatches
  <2>1. prs'.merged /\ env.opens = 1 => prs.num = 1
    BY <1>11 DEF HookPatches, StoredInv
  <2>2. hook' = Idle /\ poll' = poll
    BY <1>11 DEF HookPatches
  <2> QED BY <1>0, <1>1, <2>1, <2>2 DEF StoredInv
<1>12. CASE Tick
  BY <1>0, <1>2, <1>12, AgedType DEF Tick
<1> QED BY <1>3, <1>4, <1>6, <1>7, <1>8, <1>9, <1>10, <1>11, <1>12 DEF Next, PRStatusReconcile, MergeEvent

\* The merge counts as recorded in time only by a write before the deadline.
LEMMA InTimeMoves ==
    ASSUME [Next]_vars, inTime', ~inTime
    PROVE  step' = step /\ step.st = "WaitingForMerge" /\ step.exp # 0 /\ StepPRMerged(prs', step.pr)
BY DEF Next, People, Merge, CloseByHand, Reopen, PRStatusReconcile, ClearForNewPR, RecordMerger, Poll, PollFails,
       PatchPolled, MergeEvent, HookPatches, HookReads, StepReconcile, Push, NothingToCommit, OpenPR, Wait, Cancel,
       CloseDeleted, Closing, AskSCM, NotAllowed, ClosePR, NotePR, DeleteBranch, CloseFails, Environment, Halt,
       DeleteStep, Recreate, SyncCache, Tick, Crash, vars, Recorded

\* A stored merge of the waiting step's PR stays stored.
LEMMA MergeStays ==
    ASSUME ApartInv, [Next]_vars, ~env.stale, step.st = "WaitingForMerge", StepPRMerged(prs, step.pr), step'.pr = step.pr
    PROVE  StepPRMerged(prs', step.pr)
<1> USE DEF ApartInv
<1>0. /\ PRInv /\ TypeOK /\ OpenedInv /\ View = prs /\ prs \in PRStatusOf /\ step.pr # 0
      /\ prs.num = step.pr /\ prs.merged /\ prs.obs \in {None, prs.num}
  BY DEF PRInv, TypeOK, OpenedInv, View, StepPRMerged, PRStatusOfStepPR, DescribesSpec
<1>1. prs'.num = step.pr
  BY <1>0, NumMoves
<1>2. ASSUME prs'.merged, prs'.obs \in {None, step.pr} PROVE StepPRMerged(prs', step.pr)
  BY <1>1, <1>2 DEF StepPRMerged, PRStatusOfStepPR, DescribesSpec
<1>3. CASE People \/ StepReconcile \/ Closing \/ Environment \/ SyncCache \/ Crash \/ UNCHANGED vars
  BY <1>0, <1>2, <1>3, StepsSpecOnly DEF SpecOnly
<1>4. CASE ClearForNewPR
  BY <1>0, <1>4 DEF ClearForNewPR, DescribesSpec
<1>5. CASE RecordMerger \/ Poll \/ PollFails \/ (\E n \in PRs : HookReads(n))
  BY <1>0, <1>2, <1>5 DEF RecordMerger, Poll, PollFails, HookReads
<1>6. CASE PatchPolled
  <2>1. poll # Idle /\ poll.base \in PRStatusOf /\ poll.new \in PRStatusOf /\ prs' = MergePatch(poll)
    BY <1>0, <1>6 DEF PatchPolled, TypeOK, PatchOf
  <2>2. /\ prs'.merged = IF poll.new.merged # poll.base.merged THEN poll.new.merged ELSE prs.merged
        /\ prs'.obs = IF poll.new.obs # poll.base.obs THEN poll.new.obs ELSE prs.obs
    BY <1>0, <2>1, Patched
  <2>3. poll.new.merged \in BOOLEAN /\ poll.base.merged \in BOOLEAN
    BY <2>1 DEF PRStatusOf
  <2>4. prs'.merged
    BY <1>0, <2>1, <2>2, <2>3 DEF StoredInv
  <2>5. prs'.obs \in {None, step.pr}
    <3>1. CASE env.opens = 1
      BY <1>0, <2>1, <2>2, <3>1 DEF StoredInv
    <3>2. CASE env.opens # 1
      <4>1. poll.new.obs = poll.base.obs
        BY <1>0, <2>1, <3>2 DEF PollInv
      <4> QED BY <1>0, <2>2, <4>1
    <3> QED BY <3>1, <3>2
  <2> QED BY <1>2, <2>4, <2>5
<1>7. CASE HookPatches
  <2>1. hook # Idle /\ hook.base \in PRStatusOf /\ hook.new \in PRStatusOf /\ prs' = MergePatch(hook)
    BY <1>0, <1>7 DEF HookPatches, TypeOK, PatchOf
  <2>2. /\ prs'.merged = IF hook.new.merged # hook.base.merged THEN hook.new.merged ELSE prs.merged
        /\ prs'.obs = IF hook.new.obs # hook.base.obs THEN hook.new.obs ELSE prs.obs
    BY <1>0, <2>1, Patched
  <2>3. env.opens = 1 /\ hook.new.merged /\ hook.new.obs = prs.num
    BY <2>1 DEF PollInv, StoredInv
  <2> QED BY <1>0, <1>2, <2>2, <2>3
<1>8. CASE Tick
  BY <1>0, <1>2, <1>8, AgedType DEF Tick
<1> QED BY <1>3, <1>4, <1>5, <1>6, <1>7, <1>8 DEF Next, PRStatusReconcile, MergeEvent

LEMMA InTimeStep == ASSUME ApartInv, [Next]_vars PROVE InTimeInv'
<1> USE DEF ApartInv
<1> SUFFICES ASSUME ~env.stale PROVE InTimeInv'
  BY TypedStep DEF InTimeInv, TypedNext, PRInv
<1>0. PRInv /\ TypeOK /\ OpenedInv /\ View = prs /\ env.timeout \in Nat
  BY Bounds DEF PRInv, View
<1>1. ASSUME step'.st = "WaitingForMerge", inTime' PROVE StepPRMerged(prs', step'.pr)
  <2>1. CASE ~inTime
    BY <1>1, <2>1, InTimeMoves
  <2>2. CASE inTime
    <3>1. step.st = "WaitingForMerge" /\ step'.pr = step.pr
      BY <1>0, <1>1, <2>2, Moves DEF OpenedInv, StepMoves, StepKept, GetsPR, GoesOn, GivesUp, Finishes, Hands, Anew
    <3> QED BY <2>2, <3>1, MergeStays DEF InTimeInv
  <2> QED BY <2>1, <2>2
<1>2. ASSUME job' # Idle, job'.why = "timeout" PROVE ~inTime' /\ step'.exp = 0
  <2>1. CASE JobKept
    BY <1>2, <2>1, InTimeMoves DEF JobKept, InTimeInv
  <2>2. CASE JobBegins
    <3>1. step.st \in {"Promoting", "WaitingForMerge"}
      BY <1>2, <2>2, JobStep DEF JobInv, JobBegins
    <3>2. ~inTime
      BY <1>0, <1>2, <2>2, <3>1 DEF JobBegins, TimedOut, InTimeInv, OpenedInv
    <3>3. step.exp = 0
      BY <1>0, <1>2, <2>2 DEF JobBegins, TimedOut, Deadline
    <3> QED BY <2>2, <3>2, <3>3 DEF JobBegins
  <2> QED BY <1>0, <1>2, <2>1, <2>2, JobMoves
<1>3. ASSUME step'.st = "Failed", step'.why = "timeout" PROVE ~inTime'
  <2>1. StepKept \/ Finishes
    BY <1>0, <1>3, Moves DEF StepMoves, GetsPR, GoesOn, GivesUp, Hands, Anew
  <2>2. ~inTime
    BY <1>3, <2>1 DEF InTimeInv, StepKept, Finishes
  <2> QED BY <1>3, <2>2, InTimeMoves
<1> QED BY <1>1, <1>2, <1>3 DEF InTimeInv

\* A status that says the step's own PR merged is right.
LEMMA OwnMerge ==
    ASSUME ApartInv, NEW n \in 1..env.opens, StepPRMerged(View, n) PROVE pr[n] = "merged"
<1>1. TypeOK /\ View \in PRStatusOf /\ MergeTrue(View) /\ View.merged /\ View.num = n /\ View.obs \in {None, n}
  BY ViewType DEF ApartInv, PRInv, MergedInv, View, StepPRMerged, PRStatusOfStepPR, DescribesSpec
<1> QED BY <1>1, Bounds DEF MergeTrue, PRs

LEMMA BranchStep == ASSUME ApartInv, [Next]_vars PROVE BranchInv'
<1> USE DEF ApartInv
<1>0. PRInv /\ TypeOK /\ OpenedInv /\ step.pr \in 0..MaxPR /\ env.opens \in 1..MaxPR /\ MaxPR \in Nat
  BY Bounds DEF PRInv, TypeOK, StepOf
<1> SUFFICES ASSUME ClosedForGood', pr'[step'.pr] # "merged" PROVE ~branch'
  BY DEF BranchInv
<1>4. env' = env
  BY <1>0, TypedStep DEF TypedNext
<1>1. CASE StepKept
  <2>1. ClosedForGood /\ step'.pr = step.pr /\ step.pr \in PRs
    BY <1>0, <1>1, <1>4 DEF StepKept, ClosedForGood, PRs
  <2>2. pr[step.pr] # "merged"
    BY <1>0, <2>1, MergedForGood
  <2> QED BY <1>1, <2>1, <2>2 DEF BranchInv, StepKept, ClosedForGood
<1>2. CASE Finishes
  <2>1. job.pr # 0 /\ job.pr \in PRs /\ job.pr \in 1..env.opens /\ job # Idle
    BY <1>0, <1>2 DEF Finishes, ClosedForGood, OpenedInv, TypeOK, JobOf, PRs
  <2>2. pr[job.pr] # "merged"
    BY <1>0, <1>2, <2>1, MergedForGood DEF Finishes
  <2>3. ~StepPRMerged(View, job.pr)
    BY <2>1, <2>2, OwnMerge
  <2> QED BY <1>2, <1>4, <2>1, <2>2, <2>3 DEF Finishes, ClosedForGood
<1>3. CASE GetsPR \/ GoesOn \/ GivesUp \/ Hands \/ Anew
  BY <1>3 DEF GetsPR, GoesOn, GivesUp, Hands, Anew, ClosedForGood
<1> QED BY <1>0, <1>1, <1>2, <1>3, Moves DEF StepMoves

LEMMA ApartInit == ASSUME Init, Apart PROVE ApartInv
<1>1. /\ PRInv /\ step.st = "Promoting" /\ step.pr = 0 /\ ~inTime /\ prs.num = 0 /\ prs.merged = FALSE /\ cache = prs /\ cache.num = 0
      /\ \A n \in PRs : pr[n] = "none"
  BY PRInvInit DEF Init, NewStep
<1>2. env.opens \in Nat
  BY <1>1, Bounds DEF PRInv
<1>3. OpenedInv
  BY <1>1, <1>2 DEF OpenedInv, Init
<1>4. MergedInv /\ PollInv /\ StoredInv /\ InTimeInv /\ BranchInv
  BY <1>1 DEF Init, MergedInv, MergeTrue, PollInv, StoredInv, InTimeInv, BranchInv, ClosedForGood
<1> QED BY <1>1, <1>3, <1>4 DEF ApartInv

\* The invariant where the statuses of two PRs cannot meet.
THEOREM ApartCorrect == Spec /\ Apart => []ApartInv
<1>1. Init /\ Apart => ApartInv
  BY ApartInit
<1>2. ApartInv /\ [Next]_vars => ApartInv'
  <2> SUFFICES ASSUME ApartInv, [Next]_vars PROVE ApartInv'
    OBVIOUS
  <2>1. PRInv /\ PRInv'
    BY TypeStep, JobStep, PatchStep, WindowStep DEF ApartInv, PRInv
  <2> QED BY <2>1, OpenedStep, MergedStep, PollStep, StoredStep, InTimeStep, BranchStep DEF ApartInv
<1> QED BY <1>1, <1>2, PTL DEF Spec

\* A step goes on to its health check only for a merge of its own PR, or with nothing left to commit.
LEMMA AdvanceStep == ASSUME ApartInv, AdvanceMeansMerged, [Next]_vars PROVE AdvanceMeansMerged'
<1>0. PRInv /\ TypeOK /\ OpenedInv /\ step.pr \in 0..MaxPR /\ env.opens \in 1..MaxPR /\ MaxPR \in Nat
  BY Bounds DEF ApartInv, PRInv, TypeOK, StepOf
<1> SUFFICES ASSUME step'.st = "HealthChecking" PROVE \E n \in PRs : pr'[n] = "merged" /\ step'.pr \in {0, n}
  BY DEF AdvanceMeansMerged
<1> SUFFICES \E n \in PRs : pr[n] = "merged" /\ step'.pr \in {0, n}
  BY <1>0, MergedForGood
<1>1. CASE StepKept
  BY <1>1 DEF StepKept, AdvanceMeansMerged
<1>2. CASE GoesOn
  <2>1. CASE step.st = "Promoting" /\ SomeMerged
    BY <1>0, <1>2, <2>1 DEF GoesOn, SomeMerged, OpenedInv
  <2>2. CASE StepPRMerged(View, step.pr) /\ step.pr # 0
    <3>1. step.pr \in 1..env.opens /\ step.pr \in PRs
      BY <1>0, <2>2 DEF OpenedInv, PRs
    <3> QED BY <1>2, <2>2, <3>1, OwnMerge DEF GoesOn
  <2>3. CASE StepPRMerged(View, step.pr) /\ step.pr = 0
    <3>1. MergeTrue(View) /\ View.merged /\ 1 \in PRs
      BY <1>0, <2>3, Bounds DEF ApartInv, MergedInv, View, StepPRMerged
    <3> QED BY <1>2, <2>3, <3>1 DEF GoesOn, MergeTrue
  <2> QED BY <1>2, <2>1, <2>2, <2>3 DEF GoesOn
<1> QED BY <1>0, <1>1, <1>2, Moves DEF StepMoves, GetsPR, GivesUp, Finishes, Hands, Anew

\* A step advances only on the merge of its own PR (prStatusOfStepPR, clearForNewPR), for any number
\* of PRs, retries and ticks, where the statuses of two PRs cannot meet.
THEOREM AdvanceCorrect == Spec /\ Apart => []AdvanceMeansMerged
<1>1. Init => AdvanceMeansMerged
  BY DEF Init, NewStep, AdvanceMeansMerged
<1>2. ApartInv /\ AdvanceMeansMerged /\ [Next]_vars => AdvanceMeansMerged'
  BY AdvanceStep
<1> QED BY <1>1, <1>2, ApartCorrect, PTL DEF Spec

\* Once a step ended and does not say what to close by hand, its PR cannot merge any more
\* (closeStepPR: the PR is closed and its branch deleted), on an allowed repository of a provider that
\* can delete branches (ClosedForGood).
THEOREM ClosedStaysUnmerged == Spec /\ Apart => NoLateMerge
<1> DEFINE Late == ClosedForGood /\ pr[step.pr] # "merged" => pr'[step.pr] # "merged"
<1>1. ASSUME ApartInv, [Next]_vars PROVE Late
  <2>0. TypeOK
    BY <1>1 DEF ApartInv, PRInv
  <2> SUFFICES ASSUME ClosedForGood, pr[step.pr] # "merged" PROVE pr'[step.pr] # "merged"
    OBVIOUS
  <2>1. ~branch /\ step.pr \in PRs
    BY <1>1, <2>0, Bounds DEF ApartInv, BranchInv, ClosedForGood, TypeOK, StepOf, PRs
  <2>2. CASE \E m \in PRs : Merge(m) \/ CloseByHand(m) \/ Reopen(m)
    BY <2>0, <2>1, <2>2 DEF Merge, CloseByHand, Reopen, TypeOK
  <2>3. CASE OpenPR
    BY <2>1, <2>3 DEF OpenPR
  <2>4. CASE ClosePR
    BY <2>0, <2>1, <2>4 DEF ClosePR, TypeOK
  <2>5. CASE pr' = pr
    BY <2>5
  <2> QED
    BY <1>1, <2>2, <2>3, <2>4, <2>5
    DEF Next, People, PRStatusReconcile, ClearForNewPR, RecordMerger, Poll, PollFails, PatchPolled, MergeEvent,
        HookPatches, HookReads, StepReconcile, Push, NothingToCommit, Wait, Cancel, CloseDeleted, Closing, AskSCM, NotAllowed,
        NotePR, DeleteBranch, CloseFails, Environment, Halt, DeleteStep, Recreate, SyncCache, Tick, Crash, vars, scm
<1>2. ApartInv /\ [Next]_vars => [Late]_vars
  BY <1>1
<1> QED BY <1>2, ApartCorrect, PTL DEF Spec, NoLateMerge

\* "stopped tracking" is not added to a PR whose close by kardinal is marked.
LEMMA NotesStep ==
    ASSUME PRInv, [Next]_vars, NEW n \in PRs, "closed" \in notes[n], prs.mark = n
    PROVE  notes'[n] = notes[n] \/ "stopped" \in notes[n]
<1>0. TypeOK /\ PatchInv
  BY DEF PRInv
<1>1. CASE PatchPolled
  <2>1. poll # Idle /\ poll.base \in PRStatusOf /\ poll.new \in PRStatusOf /\ prs' = MergePatch(poll)
    BY <1>0, <1>1 DEF PatchPolled, TypeOK, PatchOf
  <2>2. prs'.mark = n
    BY <1>0, <2>1, Patched DEF PatchInv, TypeOK
  <2>3. PICK noted \in BOOLEAN :
          /\ noted => StoppedNote(prs')
          /\ notes' = IF noted THEN [notes EXCEPT ![prs'.num] = @ \cup {"stopped"}] ELSE notes
    BY <1>1 DEF PatchPolled
  <2>4. noted => prs'.num # n
    BY <2>2, <2>3 DEF StoppedNote, ClosedByKardinal, PRs
  <2> QED BY <1>0, <2>3, <2>4 DEF TypeOK
<1>2. CASE NotePR
  <2>1. notes' = notes \/ notes' = [notes EXCEPT ![job.pr] = @ \cup {"closed"}]
    BY <1>2 DEF NotePR
  <2>2. n \in DOMAIN notes /\ notes[n] \cup {"closed"} = notes[n]
    BY <1>0 DEF TypeOK
  <2> QED BY <2>1, <2>2
<1>3. CASE notes' = notes
  BY <1>3
<1> QED
  BY <1>1, <1>2, <1>3, ZenonT(30)
  DEF Next, People, Merge, CloseByHand, Reopen, PRStatusReconcile, ClearForNewPR, RecordMerger, Poll, PollFails,
      MergeEvent, HookPatches, HookReads, StepReconcile, Push, NothingToCommit, OpenPR, Wait, Cancel, CloseDeleted,
      Closing, AskSCM, NotAllowed, ClosePR, DeleteBranch, CloseFails, Environment, Halt, DeleteStep, Recreate, SyncCache, Tick,
      Crash, vars, scm

\* While a step waits: no merge recorded in time is failed by the deadline, no PR is given up inside
\* its grace window, and no PR kardinal closed is reported as lost track of.
THEOREM WaitCorrect == Spec /\ Apart => WaitSafe
<1> DEFINE Note == \A n \in PRs : "closed" \in notes[n] /\ prs.mark = n => notes'[n] = notes[n] \/ "stopped" \in notes[n]
<1>1. ApartInv => TypeOK /\ RecordedBeatsDeadline /\ GraceWindow
  BY DEF ApartInv, PRInv, InTimeInv, RecordedBeatsDeadline, WindowInv, SinceOpen, GraceWindow
<1>2. ApartInv /\ [Next]_vars => [Note]_vars
  BY NotesStep DEF ApartInv
<1> QED BY <1>1, <1>2, ApartCorrect, PTL DEF Spec, WaitSafe, StoppedNotAfterClosed
=============================================================================
