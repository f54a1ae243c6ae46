------------------------------ MODULE PushGuard ------------------------------
(***************************************************************************)
(* The push intent protocol of direct (approval: auto) promotions.         *)
(*                                                                         *)
(* Bundles of one Pipeline and type race to push to the branch of one      *)
(* environment.  Each has a PromotionStep for it.  A step fetches the      *)
(* branch, and right before every push attempt runs the push guard: it     *)
(* reads its own Bundle, records its push intent in its status, lists the  *)
(* steps of the environment and reads the Bundle of each one that pushed   *)
(* or is pushing.  The push itself is a compare-and-set on the branch: it  *)
(* lands only if the branch still is at the commit that was fetched.  The  *)
(* model keeps no commits: it keeps which running steps fetched the        *)
(* branch's present head, which is all a compare-and-set can tell.         *)
(*                                                                         *)
(* Every API read and write, the push leaving the controller and the push  *)
(* landing on the git server are separate steps of the model, so Bundles   *)
(* are superseded, fail, recover, are rejected or retired between any two  *)
(* of them; answers are lost, pushes land late, the controller crashes.    *)
(***************************************************************************)
EXTENDS Naturals, FiniteSets

CONSTANTS
    Bundles,     \* Bundles of one Pipeline and type, numbered by creation time
    None,        \* no Bundle
    MaxStops,    \* bound: Bundles a user rejects, and Bundles a hold ever names
    Retires      \* whether Graphs of finished Bundles are retired

ASSUME BundlesAssumption == Bundles \subseteq Nat
ASSUME NoneAssumption == None \notin Bundles
ASSUME RetiresAssumption == Retires \in BOOLEAN

VARIABLES
    phase,     \* Bundle status.phase; "none": not created yet
    rejected,  \* Bundles whose spec.rejected is set
    tainted,   \* Bundles that carry an artifact of a rejected Bundle
    hold,      \* Pipeline spec.holds: "no", "yes" (names the Bundle) or "was"
    step,      \* PromotionStep status.state of the Bundle in the environment
    intent,    \* steps with status.outputs.pushIntent
    done,      \* steps whose git-push is Completed in status.steps
    pc,        \* where the reconcile that runs a step is (lost by a crash)
    fresh,     \* running steps that fetched the branch's present head
    cand,      \* steps the guard still has to judge
    heldRead,  \* the guard read a hold that names its Bundle
    top,       \* the Bundle whose push is the branch's head; None: another writer's
    landed,    \* Bundles a push of which has landed
    wire,      \* pushes on their way that would be a fast-forward of the head
    acked,     \* running steps whose push landed
    lapsed     \* history: why a landed Bundle stopped counting, since it landed

bundleVars == <<phase, rejected, tainted, hold>>
stepVars   == <<step, intent, done>>
runVars    == <<pc, fresh, cand, heldRead>>
gitVars    == <<top, landed, wire, acked>>
vars       == <<bundleVars, stepVars, runVars, gitVars, lapsed>>

Phases     == {"none", "Available", "Promoting", "Failed", "Verified", "Superseded", "Rejected"}
StepStates == {"none", "Promoting", "HealthChecking", "Verified", "Failed", "Superseded", "retired"}
PCs        == {"idle", "fetched", "own", "recorded", "listed", "passed", "sent"}

-----------------------------------------------------------------------------
(* Which Bundles count against an older one.                               *)

\* The phase and rejection part of lifecycle.SupersedingSiblings with
\* countVerified: in flight or Verified, and not rejected.
InFlightOrVerified(n) ==
    /\ phase[n] \in {"Available", "Promoting", "Verified"}
    /\ n \notin rejected

\* A step that stopped with only an intent is taken never to have pushed.
PushedOrPushing(n) ==
    \/ n \in done /\ step[n] # "retired"
    \/ n \in intent /\ step[n] \notin {"Failed", "Superseded", "retired"}

\* Why an older Bundle's guard may look past n now.
Reasons == {"Failed", "Rejected", "Superseded", "Retired"}
LapsesFor(n, r) ==
    \/ r = "Failed"     /\ (phase[n] = "Failed" \/ (step[n] = "Failed" /\ n \notin done))
    \/ r = "Rejected"   /\ (phase[n] = "Rejected" \/ n \in rejected \cup tainted)
    \/ r = "Superseded" /\ (phase[n] = "Superseded" \/ (step[n] = "Superseded" /\ n \notin done))
    \/ r = "Retired"    /\ step[n] = "retired"

Lapses(n) == {r \in Reasons : LapsesFor(n, r)}

\* A push of n lands in this step.
Lands(n) == n \in wire /\ top' = n

\* The history variable, in every step: what a Bundle lapsed for since its
\* last push landed.
Lapse ==
    lapsed' = [n \in Bundles |->
        IF n \notin landed' THEN {}
        ELSE IF Lands(n) THEN Lapses(n)'
        ELSE lapsed[n] \cup Lapses(n)']

TypeOK ==
    /\ phase \in [Bundles -> Phases]
    /\ rejected \subseteq Bundles
    /\ tainted \subseteq Bundles
    /\ hold \in [Bundles -> {"no", "yes", "was"}]
    /\ step \in [Bundles -> StepStates]
    /\ intent \subseteq Bundles
    /\ done \subseteq Bundles
    /\ pc \in [Bundles -> PCs]
    /\ fresh \subseteq Bundles
    /\ cand \in [Bundles -> SUBSET Bundles]
    /\ heldRead \subseteq Bundles
    /\ top \in Bundles \cup {None}
    /\ landed \subseteq Bundles
    /\ wire \subseteq Bundles
    /\ acked \subseteq Bundles
    /\ lapsed \in [Bundles -> SUBSET Reasons]

-----------------------------------------------------------------------------
(* The Bundle reconciler, users and retirement.                            *)

SetPhase(b, p) == phase' = [phase EXCEPT ![b] = p]

\* A Bundle is created after all the older ones.
CreateBundle(b) ==
    /\ phase[b] = "none"
    /\ \A o \in Bundles : o < b => phase[o] # "none"
    /\ SetPhase(b, "Available")
    /\ UNCHANGED <<rejected, tainted, hold, stepVars, runVars, gitVars>>

\* handleAvailable: the Graph is built and the Bundle starts promoting.
StartPromoting(b) ==
    /\ phase[b] = "Available"
    /\ SetPhase(b, "Promoting")
    /\ UNCHANGED <<rejected, tainted, hold, stepVars, runVars, gitVars>>

\* Self-supersession: the cache shows a newer Bundle.  It may lag, so any
\* newer Bundle that was ever created can be seen in flight.
MarkSuperseded(b) ==
    /\ phase[b] \in {"Available", "Promoting", "Failed"}
    /\ step[b] # "retired"
    /\ hold[b] # "yes"
    /\ \E n \in Bundles : n > b /\ phase[n] # "none"
    /\ SetPhase(b, "Superseded")
    /\ UNCHANGED <<rejected, tainted, hold, stepVars, runVars, gitVars>>

\* handleSyncEvidence: a step of this or of another environment failed.
FailBundle(b) ==
    /\ phase[b] = "Promoting"
    /\ SetPhase(b, "Failed")
    /\ UNCHANGED <<rejected, tainted, hold, stepVars, runVars, gitVars>>

\* handleSyncEvidence: nothing fails any more and the cache shows no newer
\* Bundle in flight or Verified (it may lag).
RecoverBundle(b) ==
    /\ phase[b] = "Failed"
    /\ step[b] \notin {"Failed", "retired"}
    /\ SetPhase(b, "Promoting")
    /\ UNCHANGED <<rejected, tainted, hold, stepVars, runVars, gitVars>>

\* handleSyncEvidence: every environment is Verified.
VerifyBundle(b) ==
    /\ phase[b] = "Promoting"
    /\ step[b] = "Verified"
    /\ SetPhase(b, "Verified")
    /\ UNCHANGED <<rejected, tainted, hold, stepVars, runVars, gitVars>>

\* The Bundles a user rejected or a hold named, counted for MaxStops.
Stops == Cardinality(rejected) + Cardinality({h \in Bundles : hold[h] # "no"})

\* A user sets spec.rejected; other Bundles may carry the same artifacts.
RejectSpec(b) ==
    /\ phase[b] # "none"
    /\ b \notin rejected
    /\ Stops < MaxStops
    /\ rejected' = rejected \cup {b}
    /\ \E same \in SUBSET {o \in Bundles \ {b} : phase[o] # "none"} : tainted' = tainted \cup same
    /\ UNCHANGED <<phase, hold, stepVars, runVars, gitVars>>

\* markRejected for spec.rejected, markRejectedArtifact for an in-flight or
\* Failed Bundle with a rejected artifact.
MarkRejected(b) ==
    /\ phase[b] # "Rejected"
    /\ \/ b \in rejected
       \/ b \in tainted /\ phase[b] \in {"Available", "Promoting", "Failed"}
    /\ SetPhase(b, "Rejected")
    /\ UNCHANGED <<rejected, tainted, hold, stepVars, runVars, gitVars>>

\* kardinal rollback --hold pins the environment to a Bundle, and a release.
SetHold(b) ==
    /\ phase[b] # "none"
    /\ \/ /\ hold[b] = "no"
          /\ Stops < MaxStops
          /\ hold' = [hold EXCEPT ![b] = "yes"]
       \/ hold[b] = "yes" /\ hold' = [hold EXCEPT ![b] = "was"]
    /\ UNCHANGED <<phase, rejected, tainted, stepVars, runVars, gitVars>>

\* The retirement controller deletes the Graph of a finished Bundle, and with
\* it the Bundle's steps, a delay (minutes to hours) after they have settled.
\* The delay outlasts a reconcile and its push, and an older Bundle in flight
\* has superseded itself by then; an older Failed one stays Failed.
RetireGraph(b) ==
    /\ Retires
    /\ phase[b] \in {"Superseded", "Rejected", "Failed", "Verified"}
    /\ step[b] \in {"Verified", "Failed", "Superseded"}
    /\ wire = {} /\ \A o \in Bundles : pc[o] = "idle"
    /\ \A o \in Bundles : o < b => phase[o] \notin {"Available", "Promoting"} \/ hold[o] = "yes"
    /\ step' = [step EXCEPT ![b] = "retired"]
    /\ UNCHANGED <<bundleVars, intent, done, runVars, gitVars>>

-----------------------------------------------------------------------------
(* The PromotionStep reconciler: a step that pushes to the base branch.    *)

SetStep(b, s) == step' = [step EXCEPT ![b] = s]
Goto(b, l)    == pc' = [pc EXCEPT ![b] = l]

\* The reconcile ends; what it had read is gone.
Return(b) ==
    /\ Goto(b, "idle")
    /\ fresh' = fresh \ {b}
    /\ acked' = acked \ {b}
    /\ cand' = [cand EXCEPT ![b] = {}]
    /\ heldRead' = heldRead \ {b}

\* kro creates the step and handlePending admits it: not for a Superseded or
\* Rejected Bundle.
AdmitStep(b) ==
    /\ phase[b] \in {"Promoting", "Failed"}
    /\ step[b] = "none"
    /\ SetStep(b, "Promoting")
    /\ UNCHANGED <<bundleVars, intent, done, runVars, gitVars>>

\* haltOf / cancelStep: a step of a Superseded or rejected Bundle that has not
\* reached the environment is failed.  A Superseded Bundle's health check is
\* cancelled too.
CancelStep(b) ==
    /\ pc[b] = "idle"
    /\ \/ phase[b] = "Superseded" /\ step[b] \in {"Promoting", "HealthChecking"}
       \/ (b \in rejected \/ phase[b] = "Rejected") /\ step[b] = "Promoting"
    /\ SetStep(b, "Failed")
    /\ UNCHANGED <<bundleVars, intent, done, runVars, gitVars>>

\* git-clone, the update steps and git-commit on the fetched branch.
Fetch(b) ==
    /\ step[b] = "Promoting"
    /\ pc[b] = "idle"
    /\ top # b
    /\ Goto(b, "fetched")
    /\ fresh' = fresh \cup {b}
    /\ UNCHANGED <<bundleVars, stepVars, cand, heldRead, gitVars>>

\* git-commit finds nothing to commit: an earlier push of this step landed and
\* is still the branch's head.  git-push succeeds without a push.
NothingToPush(b) ==
    /\ step[b] = "Promoting"
    /\ pc[b] = "idle"
    /\ top = b
    /\ done' = done \cup {b}
    /\ SetStep(b, "HealthChecking")
    /\ UNCHANGED <<bundleVars, intent, runVars, gitVars>>

\* Mutant: the guard does not look at the phase of its own Bundle.
ReadOwnBundleBlindly(b) ==
    /\ pc[b] = "fetched"
    /\ Goto(b, "own")
    /\ UNCHANGED <<bundleVars, stepVars, fresh, cand, heldRead, gitVars>>

\* pushGuard reads the step's own Bundle from the API server.
ReadOwnBundle(b) ==
    /\ pc[b] = "fetched"
    /\ b \notin rejected
    /\ phase[b] \notin {"Superseded", "Rejected"}
    /\ Goto(b, "own")
    /\ UNCHANGED <<bundleVars, stepVars, fresh, cand, heldRead, gitVars>>

\* ErrStalePush: the step's own Bundle is Superseded or rejected.
RefuseStale(b) ==
    /\ pc[b] = "fetched"
    /\ b \in rejected \/ phase[b] \in {"Superseded", "Rejected"}
    /\ SetStep(b, "Failed")
    /\ Return(b)
    /\ UNCHANGED <<bundleVars, intent, done, top, landed, wire>>

\* Mutant: the intent is kept in memory only.
RecordPushIntentInMemory(b) ==
    /\ pc[b] = "own"
    /\ Goto(b, "recorded")
    /\ UNCHANGED <<bundleVars, stepVars, fresh, cand, heldRead, gitVars>>

\* recordPushIntent: a status write of its own, once per step.
RecordPushIntent(b) ==
    /\ pc[b] = "own"
    /\ intent' = intent \cup {b}
    /\ Goto(b, "recorded")
    /\ UNCHANGED <<bundleVars, step, done, fresh, cand, heldRead, gitVars>>

\* newerPushed lists the environment's steps and reads the Pipeline's holds.
ListSteps(b) ==
    /\ pc[b] = "recorded"
    /\ cand' = [cand EXCEPT ![b] = {n \in Bundles \ {b} : PushedOrPushing(n)}]
    /\ heldRead' = IF hold[b] = "yes" THEN heldRead \cup {b} ELSE heldRead \ {b}
    /\ Goto(b, "listed")
    /\ UNCHANGED <<bundleVars, stepVars, fresh, gitVars>>

\* lifecycle.SupersedingSiblings for one candidate.  The rejected artifacts
\* come from the cache, which may miss one.
Supersedes(n, b, artifacts) ==
    /\ b \notin heldRead
    /\ n > b
    /\ InFlightOrVerified(n)
    /\ n \notin artifacts

\* newerPushed reads the Bundle of one candidate and it does not supersede b.
SkipCandidate(b, n) ==
    /\ pc[b] = "listed"
    /\ n \in cand[b]
    /\ \E artifacts \in SUBSET tainted : ~Supersedes(n, b, artifacts)
    /\ cand' = [cand EXCEPT ![b] = @ \ {n}]
    /\ UNCHANGED <<bundleVars, stepVars, pc, fresh, heldRead, gitVars>>

\* ErrNewerPushed: the step ends Superseded, which is not a failure.
RefuseNewerPushed(b, n) ==
    /\ pc[b] = "listed"
    /\ n \in cand[b]
    /\ \E artifacts \in SUBSET tainted : Supersedes(n, b, artifacts)
    /\ SetStep(b, "Superseded")
    /\ Return(b)
    /\ UNCHANGED <<bundleVars, intent, done, top, landed, wire>>

GuardPasses(b) ==
    /\ pc[b] = "listed"
    /\ cand[b] = {}
    /\ Goto(b, "passed")
    /\ UNCHANGED <<bundleVars, stepVars, fresh, cand, heldRead, gitVars>>

\* GitClient.Push without force.  One built on an older commit can only be
\* refused.
SendPush(b) ==
    /\ pc[b] = "passed"
    /\ wire' = IF b \in fresh THEN wire \cup {b} ELSE wire
    /\ Goto(b, "sent")
    /\ UNCHANGED <<bundleVars, stepVars, fresh, cand, heldRead, top, landed, acked>>

\* Mutant: a rebased push goes out without running the guard again.
RebaseUnchecked(b) ==
    /\ pc[b] = "sent"
    /\ b \notin fresh \cup acked
    /\ top # b
    /\ Goto(b, "passed")
    /\ fresh' = fresh \cup {b}
    /\ UNCHANGED <<bundleVars, stepVars, cand, heldRead, gitVars>>

\* rebaseAndPush, or a sequence restart on a fresh clone: the branch moved.
\* The guard runs again before the next attempt.  (When it moved to a push of
\* this very step, the restart finds nothing to push.)
Rebase(b) ==
    /\ pc[b] = "sent"
    /\ b \notin fresh \cup acked
    /\ top # b
    /\ Goto(b, "fetched")
    /\ fresh' = fresh \cup {b}
    /\ UNCHANGED <<bundleVars, stepVars, cand, heldRead, gitVars>>

\* The push is answered and handlePromoting writes the step's status.
CompletePush(b) ==
    /\ pc[b] = "sent"
    /\ b \in acked
    /\ done' = done \cup {b}
    /\ SetStep(b, "HealthChecking")
    /\ Return(b)
    /\ UNCHANGED <<bundleVars, intent, top, landed, wire>>

\* An error anywhere (an API read, the intent write's Conflict, the push's
\* answer lost, a timeout): the step is retried from the start ...
RetryStep(b) ==
    /\ pc[b] # "idle"
    /\ Return(b)
    /\ UNCHANGED <<bundleVars, stepVars, top, landed, wire>>

\* ... or, its retries used up, failed.
ExhaustRetries(b) ==
    /\ pc[b] # "idle"
    /\ Return(b)
    /\ SetStep(b, "Failed")
    /\ UNCHANGED <<bundleVars, intent, done, top, landed, wire>>

\* handleHealthChecking: passes, fails, or finds that a Bundle that supersedes
\* this one pushed since.
FinishHealthCheck(b) ==
    /\ step[b] = "HealthChecking"
    /\ \/ SetStep(b, "Verified")
       \/ SetStep(b, "Failed")
       \/ /\ hold[b] # "yes"
          /\ \E n \in Bundles : n > b /\ InFlightOrVerified(n) /\ PushedOrPushing(n)
          /\ SetStep(b, "Superseded")
    /\ UNCHANGED <<bundleVars, intent, done, runVars, gitVars>>

\* The controller restarts: every running reconcile is lost, with what it had
\* read.  Pushes already sent may still land.
Crash ==
    /\ \E b \in Bundles : pc[b] # "idle"
    /\ pc' = [b \in Bundles |-> "idle"]
    /\ fresh' = {}
    /\ acked' = {}
    /\ cand' = [b \in Bundles |-> {}]
    /\ heldRead' = {}
    /\ UNCHANGED <<bundleVars, stepVars, top, landed, wire>>

-----------------------------------------------------------------------------
(* The git server.                                                         *)

\* A push lands as a fast-forward of the head it was built on.  Every other
\* push on its way, and every other running step, is now behind.
LandPush(b) ==
    /\ b \in wire
    /\ top' = b
    /\ landed' = landed \cup {b}
    /\ wire' = {}
    /\ fresh' = {}
    /\ acked' = IF pc[b] = "sent" THEN acked \cup {b} ELSE acked
    /\ UNCHANGED <<bundleVars, stepVars, pc, cand, heldRead>>

\* A push that never reaches the server.
LosePush(b) ==
    /\ b \in wire
    /\ wire' = wire \ {b}
    /\ UNCHANGED <<bundleVars, stepVars, runVars, top, landed, acked>>

\* Another Pipeline, environment or person commits to the branch.
ForeignPush ==
    /\ top' = None
    /\ wire' = {}
    /\ fresh' = {}
    /\ UNCHANGED <<bundleVars, stepVars, pc, cand, heldRead, landed, acked>>

-----------------------------------------------------------------------------
Init ==
    /\ phase = [b \in Bundles |-> "none"]
    /\ rejected = {} /\ tainted = {}
    /\ hold = [b \in Bundles |-> "no"]
    /\ step = [b \in Bundles |-> "none"]
    /\ intent = {} /\ done = {}
    /\ pc = [b \in Bundles |-> "idle"]
    /\ fresh = {}
    /\ cand = [b \in Bundles |-> {}]
    /\ heldRead = {}
    /\ top = None
    /\ landed = {} /\ wire = {} /\ acked = {}
    /\ lapsed = [b \in Bundles |-> {}]

BundleStep(b) ==
    \/ CreateBundle(b) \/ StartPromoting(b) \/ MarkSuperseded(b) \/ FailBundle(b)
    \/ RecoverBundle(b) \/ VerifyBundle(b) \/ RejectSpec(b) \/ MarkRejected(b)
    \/ SetHold(b) \/ RetireGraph(b)

StepReconcile(b) ==
    \/ AdmitStep(b) \/ CancelStep(b) \/ Fetch(b) \/ NothingToPush(b)
    \/ ReadOwnBundle(b) \/ RefuseStale(b) \/ RecordPushIntent(b) \/ ListSteps(b)
    \/ \E n \in Bundles : SkipCandidate(b, n) \/ RefuseNewerPushed(b, n)
    \/ GuardPasses(b) \/ SendPush(b) \/ Rebase(b) \/ CompletePush(b)
    \/ RetryStep(b) \/ ExhaustRetries(b) \/ FinishHealthCheck(b)

GitServer(b) == LandPush(b) \/ LosePush(b)

Next ==
    /\ \/ \E b \in Bundles : BundleStep(b) \/ StepReconcile(b) \/ GitServer(b)
       \/ Crash
       \/ ForeignPush
    /\ Lapse

Spec == Init /\ [][Next]_vars

-----------------------------------------------------------------------------
(* Properties.                                                             *)

\* A push of older Bundle o landing now, over a push of newer Bundle n.
LandsOver(o, n) == o < n /\ n \in landed /\ Lands(o)

\* A newer Bundle's landed push no longer stands in the way of o.
Excused(o, n) == lapsed[n] # {} \/ hold[o] # "no"

\* What the push guard is for (#1603): an older Bundle's push never lands
\* after a newer one's, unless the newer Bundle stopped counting since it
\* landed (failed, rejected, superseded, retired, or its step stopped before
\* git-push was recorded) or a hold pinned the environment to the older one.
OlderNeverLandsOverNewer ==
    [][\A o, n \in Bundles :
        LandsOver(o, n) => Excused(o, n)]_vars

\* The promise of docs/architecture.md and of pushGuard's comment: only a
\* newer Bundle that was rejected or Failed lets an older image land over it.
OnlyFailedOrRejectedIsOverwritten ==
    [][\A o, n \in Bundles :
        LandsOver(o, n) => lapsed[n] \cap {"Failed", "Rejected"} # {} \/ hold[o] # "no"]_vars

\* Nothing of Bundle b is on its way to the branch: no attempt is past the
\* read of b's own Bundle and no push of b is unanswered.
Quiet(b) == pc[b] \in {"idle", "fetched"} /\ b \notin wire

\* Supersession and rejection stick: once a Superseded or Rejected Bundle has
\* nothing on its way, it never pushes again, whatever crashes, retries and
\* recoveries follow.
Withdrawn(b) == phase[b] \in {"Superseded", "Rejected"} /\ Quiet(b)
WithdrawnStaysWithdrawn == [][\A b \in Bundles : Withdrawn(b) => Withdrawn(b)']_vars

(* Why the guard works, as an inductive invariant.                         *)

\* A push is on its way, or has landed, only after its intent was written.
IntentFirst ==
    \A b \in Bundles :
        b \in wire \cup landed \/ pc[b] \in {"recorded", "listed", "passed", "sent"} => b \in intent

\* Only a Bundle that exists has a step, a reconcile or a push.
BundleExists ==
    \A b \in Bundles :
        b \in wire \cup landed \/ pc[b] # "idle" \/ step[b] # "none" => phase[b] # "none"

\* Nobody builds a push on its own landed push.
NotOnOwnPush == \A b \in fresh \cup wire : top # b

\* The reasons that hold now are in the history.
LapsesRecorded == \A n \in landed : Lapses(n) \subseteq lapsed[n]

HeldReadWasHeld == \A b \in heldRead : hold[b] # "no"

\* A step that fetched the head after a newer push landed cannot get past its
\* check: while it judges, the newer step is among its candidates.
JudgedAfterFetch ==
    \A o \in Bundles, n \in landed :
        o < n =>
            /\ o \in wire => Excused(o, n)
            /\ o \in fresh /\ pc[o] \in {"passed", "sent"} => Excused(o, n)
            /\ o \in fresh /\ pc[o] = "listed" => Excused(o, n) \/ n \in cand[o]

GuardInv ==
    /\ IntentFirst
    /\ BundleExists
    /\ NotOnOwnPush
    /\ LapsesRecorded
    /\ HeldReadWasHeld
    /\ JudgedAfterFetch

\* In every state of the race: a push that is on its way or landed has its intent on record
\* (recordPushIntent), and a step that fetched the branch after a newer push landed is excused or
\* still has that push to judge (pushGuard).  The variables have their types.
PushSafe == TypeOK /\ GuardInv
=============================================================================
