----------------------------- MODULE HealthBake ------------------------------
(***************************************************************************)
(* One PromotionStep from HealthChecking to its end                        *)
(* (pkg/reconciler/promotionstep/reconciler.go: handleHealthChecking,      *)
(* handleBake, clusterUnreachable, applyHealthFailurePolicy; verifying.go).*)
(*                                                                         *)
(* A tick is requeueHealthCheck, and bake.minutes counts ticks.  Status    *)
(* patches that leave the state alone carry no lock and write the fields   *)
(* that differ from the copy the reconcile read; with env.stale that copy  *)
(* may be one write behind.  A change of state is locked.                  *)
(***************************************************************************)
EXTENDS Naturals

CONSTANTS
    Configs,          \* the configurations of the environment
    Timeout,          \* health.timeout
    Window,           \* bake.minutes
    MaxDuration,      \* bake.maxDuration, at least Window
    AnalysisTimeout,  \* spec.verification.timeout
    MaxGap,           \* the longest time between two reconciles (an outage)
    MaxErrors,        \* bound on health checks that could not be made
    MaxNow,           \* bound on the clock
    MaxNowStale       \* bound on the clock while the informer cache may lag

VARIABLES
    env,      \* the environment's configuration
    state,    \* status.state
    step,     \* the times in status: [expiry, start, first, last, verify]
    prev,     \* those times before the last write
    newer,    \* a newer Bundle's step has pushed to the environment
    now,
    idle,     \* ticks since the last reconcile
    errors,
    healthy,  \* history: since when every result was Healthy, or None
    baked     \* history: for how long that was when the health check passed

vars == <<env, state, step, prev, newer, now, idle, errors, healthy, baked>>

None == 0

Configurations ==
    [bake : BOOLEAN, policy : {"reset-on-alarm", "fail-on-alarm"},
     onHealthFailure : {"none", "abort", "rollback"}, isRollback : BOOLEAN,
     verifies : BOOLEAN,
     remote : BOOLEAN,  \* the environment is in another cluster
     stale : BOOLEAN]   \* the informer cache may lag

ConstantsOK ==
    /\ Configs \subseteq Configurations
    /\ Timeout \in Nat \ {0} /\ Window \in Nat \ {0} /\ AnalysisTimeout \in Nat
    /\ MaxDuration \in Nat /\ MaxDuration >= Window
    /\ MaxGap \in Nat \ {0} /\ MaxErrors \in Nat /\ MaxNow \in Nat /\ MaxNowStale \in Nat

Ended == {"Verified", "Failed", "AbortedByAlarm", "RollingBack", "Superseded"}

-----------------------------------------------------------------------------
(* Helpers: c is the copy of the step that the reconcile read *)

Copies == {step, prev}

expired(c) == c.start = None /\ now > c.expiry

\* bakeDeadline and pastBakeDeadline.
bakeDeadline(c) == (IF c.first # None THEN c.first ELSE c.start) + MaxDuration

pastBakeDeadline(c) == (c.first # None \/ c.start # None) /\ now >= bakeDeadline(c)

\* stopWindow: the wait for the next Healthy result ends at the deadline.
stopWindow(c) ==
    LET timeout == now + Timeout
    IN  [c EXCEPT !.expiry = IF bakeDeadline(c) < timeout THEN bakeDeadline(c) ELSE timeout,
                  !.start = None]

\* Every path after a completed check.
Checked(c) == [c EXCEPT !.last = now]

\* An unlocked status patch from copy c to n: the fields that differ.
Patch(c, n) ==
    /\ step' = [f \in DOMAIN step |-> IF n[f] # c[f] THEN n[f] ELSE step[f]]
    /\ prev' = IF env.stale THEN step ELSE step'
    /\ UNCHANGED state

\* transition: a locked patch; a copy that is behind conflicts and is read again.
transition(c, s) ==
    /\ IF c = step THEN state' = s ELSE UNCHANGED state
    /\ prev' = step
    /\ UNCHANGED step

\* applyHealthFailurePolicy; createAutoRollback may find nothing safe.
FailureStates ==
    CASE env.onHealthFailure = "none" -> {"Failed"}
      [] env.onHealthFailure = "abort" \/ env.isRollback -> {"AbortedByAlarm"}
      [] OTHER -> {"RollingBack", "AbortedByAlarm"}

applyHealthFailurePolicy(c) == \E s \in FailureStates : transition(c, s)

\* passHealth: Verified, or Verifying with its start.
passHealth(c) ==
    /\ IF c # step THEN UNCHANGED <<state, step, baked>>
       ELSE /\ state' = IF env.verifies THEN "Verifying" ELSE "Verified"
            /\ step' = IF env.verifies THEN [step EXCEPT !.verify = now] ELSE step
            /\ baked' = now - healthy'
    /\ prev' = step'

\* The time a reconcile takes is none; it is the next one's turn.
Reconciled == idle' = 0 /\ UNCHANGED <<env, newer, now>>

\* The history of results: an unbroken run of Healthy ones.
Result(isHealthy) ==
    healthy' = IF ~isHealthy THEN None ELSE IF healthy = None THEN now ELSE healthy

Kept == UNCHANGED <<errors, baked>>

-----------------------------------------------------------------------------
(* A reconcile in HealthChecking *)

\* The first one starts the clock.
SetExpiry(c) ==
    /\ state = "HealthChecking" /\ c.expiry = None
    /\ Patch(c, [c EXCEPT !.expiry = now + Timeout])
    /\ Reconciled /\ Kept /\ UNCHANGED healthy

\* Past the bake's deadline no check is made any more.
BakeDeadlinePassed(c) ==
    /\ state = "HealthChecking" /\ c.expiry # None
    /\ expired(c) /\ env.bake /\ pastBakeDeadline(c)
    /\ applyHealthFailurePolicy(c)
    /\ Reconciled /\ Kept /\ UNCHANGED healthy

\* A health check is made: not within a tick of the last one, except past the
\* expiry.
MayCheck(c) ==
    /\ state = "HealthChecking" /\ c.expiry # None
    /\ ~(expired(c) /\ env.bake /\ pastBakeDeadline(c))
    /\ expired(c) \/ c.last # now

\* The adapter cannot ask.  Past the expiry it is asked once more.
CheckError(c) ==
    /\ MayCheck(c) /\ ~env.remote
    /\ errors < MaxErrors
    /\ errors' = errors + 1
    /\ CASE ~expired(c) -> UNCHANGED <<state, step, prev>>
         [] expired(c) /\ c.last <= c.expiry -> Patch(c, Checked(c))
         [] OTHER -> applyHealthFailurePolicy(c)
    /\ Reconciled /\ UNCHANGED <<healthy, baked>>

\* A result that will not recover.
TerminalResult(c) ==
    /\ MayCheck(c)
    /\ applyHealthFailurePolicy(c)
    /\ Result(FALSE) /\ Reconciled /\ Kept

\* A newer version was pushed: this one neither passes nor times out.
NewerPushed(c, isHealthy) ==
    /\ MayCheck(c)
    /\ newer
    /\ isHealthy \/ expired(c)
    /\ transition(c, "Superseded")
    /\ Result(isHealthy) /\ Reconciled /\ Kept

\* Past the expiry only a Healthy result passes.
TimedOut(c) ==
    /\ MayCheck(c)
    /\ expired(c) /\ ~newer
    /\ applyHealthFailurePolicy(c)
    /\ Result(FALSE) /\ Reconciled /\ Kept

\* Without a bake.
Healthy(c) ==
    /\ MayCheck(c) /\ ~env.bake
    /\ ~newer
    /\ Result(TRUE)
    /\ passHealth(c)
    /\ Reconciled /\ UNCHANGED errors

NotHealthyYet(c) ==
    /\ MayCheck(c) /\ ~env.bake
    /\ ~expired(c)
    /\ Patch(c, Checked(c))
    /\ Result(FALSE) /\ Reconciled /\ Kept

-----------------------------------------------------------------------------
(* handleBake *)

\* With fail-on-alarm an Unhealthy result fails the step, before a window too,
\* unless it is that the target does not exist yet.
Alarm(c, notFound) ==
    /\ MayCheck(c) /\ env.bake
    /\ ~expired(c)
    /\ env.policy = "fail-on-alarm"
    /\ notFound => c.start # None \/ c.first # None
    /\ applyHealthFailurePolicy(c)
    /\ Result(FALSE) /\ Reconciled /\ Kept

\* No window runs, and the environment is not healthy.
BakeNotStarted(c, result) ==
    /\ MayCheck(c) /\ env.bake
    /\ ~expired(c)
    /\ c.start = None
    /\ result = "Unhealthy" => env.policy = "reset-on-alarm"
    /\ result = "NotFound" => env.policy = "reset-on-alarm" \/ c.first = None
    /\ Patch(c, Checked(c))
    /\ Result(FALSE) /\ Reconciled /\ Kept

\* The running window stops: a Progressing result, or an alarm under
\* reset-on-alarm; at the deadline the step fails instead.
StopWindow(c, result) ==
    LET n == stopWindow(Checked(c))
    IN  /\ MayCheck(c) /\ env.bake
        /\ c.start # None
        /\ result = "Unhealthy" => env.policy = "reset-on-alarm"
        /\ IF pastBakeDeadline(n) THEN applyHealthFailurePolicy(c) ELSE Patch(c, n)
        /\ Result(FALSE) /\ Reconciled /\ Kept

\* A Healthy result starts a window.
StartWindow(c) ==
    /\ MayCheck(c) /\ env.bake
    /\ ~newer
    /\ c.start = None
    /\ Patch(c, [Checked(c) EXCEPT !.start = now,
                                   !.first = IF c.first = None THEN now ELSE c.first])
    /\ Result(TRUE) /\ Reconciled /\ Kept

\* A Healthy result in a window that is not over.
AdvanceWindow(c) ==
    /\ MayCheck(c) /\ env.bake
    /\ ~newer
    /\ c.start # None /\ now - c.start < Window
    /\ Patch(c, Checked(c))
    /\ Result(TRUE) /\ Reconciled /\ Kept

\* Mutant: the bake is measured from the first window.
CompleteWindowFromFirst(c) ==
    /\ MayCheck(c) /\ env.bake
    /\ ~newer
    /\ c.start # None /\ now - c.first >= Window
    /\ Result(TRUE)
    /\ passHealth(c)
    /\ Reconciled /\ UNCHANGED errors

\* A Healthy result after the whole window.
CompleteWindow(c) ==
    /\ MayCheck(c) /\ env.bake
    /\ ~newer
    /\ c.start # None /\ now - c.start >= Window
    /\ Result(TRUE)
    /\ passHealth(c)
    /\ Reconciled /\ UNCHANGED errors

-----------------------------------------------------------------------------
(* An unreachable cluster *)

\* clusterUnreachable: no verdict on the environment.  A running window stops;
\* the expiry is not looked at.
ClusterUnreachable(c) ==
    LET n == stopWindow(Checked(c))
    IN  /\ MayCheck(c) /\ env.remote
        /\ IF env.bake /\ c.start # None
             THEN IF pastBakeDeadline(n) THEN applyHealthFailurePolicy(c) ELSE Patch(c, n)
             ELSE Patch(c, Checked(c))
        /\ Result(FALSE) /\ Reconciled /\ Kept

-----------------------------------------------------------------------------
(* Verifying *)

\* All hooks and analyses passed.
VerificationPasses ==
    /\ state = "Verifying"
    /\ state' = "Verified"
    /\ Reconciled /\ Kept /\ UNCHANGED <<step, prev, healthy>>

\* One failed, or an analysis is not done after AnalysisTimeout.
VerificationFails ==
    /\ state = "Verifying"
    /\ state' \in FailureStates
    /\ Reconciled /\ Kept /\ UNCHANGED <<step, prev, healthy>>

\* They still run.
VerificationWaits ==
    /\ state = "Verifying"
    /\ now < step.verify + AnalysisTimeout
    /\ idle > 0
    /\ Reconciled /\ Kept /\ UNCHANGED <<state, step, prev, healthy>>

-----------------------------------------------------------------------------
(* The environment *)

Running == state \in {"HealthChecking", "Verifying"}

PushNewer ==
    /\ Running /\ ~newer
    /\ newer' = TRUE
    /\ UNCHANGED <<env, state, step, prev, now, idle, errors, healthy, baked>>

\* The informer catches up.
SyncCache ==
    /\ prev # step
    /\ prev' = step
    /\ UNCHANGED <<env, state, step, newer, now, idle, errors, healthy, baked>>

\* Time passes, but not more than MaxGap without a reconcile.
Tick ==
    /\ Running
    /\ now < IF env.stale THEN MaxNowStale ELSE MaxNow
    /\ idle < MaxGap
    /\ now' = now + 1
    /\ idle' = idle + 1
    /\ UNCHANGED <<env, state, step, prev, newer, errors, healthy, baked>>

-----------------------------------------------------------------------------
(* Specification *)

Init ==
    /\ env \in Configs
    /\ state = "HealthChecking"
    /\ step = [expiry |-> None, start |-> None, first |-> None, last |-> None, verify |-> None]
    /\ prev = step
    /\ newer = FALSE
    /\ now = 1 /\ idle = 0 /\ errors = 0
    /\ healthy = None /\ baked = None

Check(c) ==
    \/ SetExpiry(c) \/ BakeDeadlinePassed(c) \/ CheckError(c) \/ TerminalResult(c)
    \/ \E h \in BOOLEAN : NewerPushed(c, h)
    \/ TimedOut(c) \/ Healthy(c) \/ NotHealthyYet(c)
    \/ \E notFound \in BOOLEAN : Alarm(c, notFound)
    \/ \E result \in {"Unhealthy", "NotFound", "Progressing"} : BakeNotStarted(c, result)
    \/ \E result \in {"Unhealthy", "Progressing"} : StopWindow(c, result)
    \/ StartWindow(c) \/ AdvanceWindow(c) \/ CompleteWindow(c)
    \/ ClusterUnreachable(c)

Next ==
    \/ \E c \in Copies : Check(c)
    \/ VerificationPasses \/ VerificationFails \/ VerificationWaits
    \/ PushNewer \/ SyncCache \/ Tick

Spec == Init /\ [][Next]_vars

-----------------------------------------------------------------------------
(* Properties *)

TypeOK ==
    /\ env \in Configurations
    /\ state \in Ended \cup {"HealthChecking", "Verifying"}
    /\ step \in [{"expiry", "start", "first", "last", "verify"} -> Nat]
    /\ prev \in [{"expiry", "start", "first", "last", "verify"} -> Nat]
    /\ newer \in BOOLEAN
    /\ now \in Nat /\ idle \in Nat /\ errors \in Nat /\ healthy \in Nat /\ baked \in Nat

\* A step with a bake passes its health check only after every check of the last
\* Window ticks was Healthy, whatever alarms, stopped windows, failed checks and
\* outages came before.
ContiguousBake ==
    ~env.stale /\ env.bake /\ state \in {"Verifying", "Verified"} => baked >= Window

\* The times fit together: a window runs no earlier than the first one, and
\* the wait for the next one ends by the deadline that the first one set.
BakeTimes ==
    /\ TypeOK
    /\ step.start # None => step.first # None /\ step.first <= step.start
    /\ (state = "HealthChecking" /\ step.first # None /\ step.start = None)
         => step.expiry <= bakeDeadline(step)

\* The first window's start, from which the deadline counts, is never moved.
KeepsFirstStart == ~env.stale /\ step.first # None => step'.first = step.first
FirstStartKept == [][KeepsFirstStart]_vars

\* A release that flaps between healthy and not healthy is not checked for ever:
\* the health check ends by the time a window that started just before the
\* deadline is over, plus the time that outages and failed checks took.
LatestEnd ==
    1 + Timeout + MaxGap * (3 + MaxErrors)
      + (IF env.bake THEN MaxDuration + Window ELSE 0)

EndsInTime == ~env.remote /\ ~env.stale /\ state = "HealthChecking" => now <= LatestEnd

\* What makes these inductive.  A window's start is no earlier than the first one's, and a
\* time is not in the future; a copy one write behind knows an earlier first window or none,
\* and misses the expiry only of a step that no window has started for or whose window
\* stopped; a running window began after an unbroken run of Healthy results.
CopyTimes(c) ==
    /\ c.start # None => c.first # None /\ c.first <= c.start
    /\ c.first <= now /\ c.start <= now
    /\ c.expiry = None => c.first = None

CopyBehind ==
    /\ step.expiry = None \/ ~env.stale => prev = step
    /\ prev.expiry = None => step.first = None
    /\ prev.first <= step.first
    /\ step.expiry # prev.expiry => step.start = None

WindowIsHealthy ==
    ~env.stale /\ env.bake /\ state = "HealthChecking" /\ step.start # None
       => healthy # None /\ healthy <= step.start

\* Each failed check costs one gap between two reconciles at most: the last reconcile,
\* the expiry and the windows are bounded by the time that the errors so far took.
Cost == MaxGap * errors
LastReconcile == now - idle

OnTime ==
    /\ now > 0 /\ healthy <= now /\ idle <= MaxGap /\ idle <= now /\ errors <= MaxErrors
    /\ ~env.remote /\ ~env.stale /\ state = "HealthChecking" =>
         /\ step.expiry = None => LastReconcile <= 1
         /\ step.expiry # None /\ step.first = None =>
              /\ step.expiry <= 1 + MaxGap + Timeout
              /\ LastReconcile <= 1 + MaxGap + Timeout + Cost
         /\ step.first # None =>
              /\ env.bake
              /\ step.first <= 1 + 2 * MaxGap + Timeout + Cost
              /\ step.start # None => step.start <= step.first + MaxDuration
              /\ LastReconcile <= 1 + 2 * MaxGap + Timeout + MaxDuration + Window + Cost

BakeInv ==
    /\ BakeTimes /\ CopyTimes(step) /\ CopyTimes(prev) /\ CopyBehind
    /\ WindowIsHealthy /\ ContiguousBake /\ OnTime
=============================================================================
