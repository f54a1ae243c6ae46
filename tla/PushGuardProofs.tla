--------------------------- MODULE PushGuardProofs ---------------------------
(* Proofs about PushGuard for any number of Bundles.                       *)
EXTENDS PushGuard, TLAPS

LEMMA LapseType ==
    ASSUME Lapse, lapsed \in [Bundles -> SUBSET Reasons]
    PROVE  lapsed' \in [Bundles -> SUBSET Reasons]
BY DEF Lapse, Lapses

LEMMA TypeStep ==
    ASSUME TypeOK, [Next]_vars
    PROVE  TypeOK'
<1>1. CASE UNCHANGED vars
  BY <1>1 DEF TypeOK, vars, bundleVars, stepVars, runVars, gitVars
<1>2. CASE Next
  <2>0. lapsed' \in [Bundles -> SUBSET Reasons]
    BY <1>2, LapseType DEF Next, TypeOK
  <2>1. ASSUME NEW b \in Bundles, BundleStep(b) PROVE TypeOK'
    BY <2>0, <2>1 DEF TypeOK, BundleStep, CreateBundle, StartPromoting, MarkSuperseded, FailBundle,
       RecoverBundle, VerifyBundle, RejectSpec, MarkRejected, SetHold, RetireGraph, SetPhase, Phases,
       StepStates, stepVars, runVars, gitVars, bundleVars
  <2>2. ASSUME NEW b \in Bundles, StepReconcile(b) PROVE TypeOK'
    <3> USE <2>0 DEF TypeOK, SetStep, Goto, Return, StepStates, PCs, bundleVars, stepVars, runVars, gitVars
    <3>1. CASE AdmitStep(b) BY <3>1 DEF AdmitStep
    <3>2. CASE CancelStep(b) BY <3>2 DEF CancelStep
    <3>3. CASE Fetch(b) BY <3>3 DEF Fetch
    <3>4. CASE NothingToPush(b) BY <3>4 DEF NothingToPush
    <3>5. CASE ReadOwnBundle(b) BY <3>5 DEF ReadOwnBundle
    <3>6. CASE RefuseStale(b) BY <3>6 DEF RefuseStale
    <3>7. CASE RecordPushIntent(b) BY <3>7 DEF RecordPushIntent
    <3>8. CASE ListSteps(b) BY <3>8 DEF ListSteps
    <3>9. ASSUME NEW n \in Bundles, SkipCandidate(b, n) PROVE TypeOK'
      BY <3>9 DEF SkipCandidate
    <3>10. ASSUME NEW n \in Bundles, RefuseNewerPushed(b, n) PROVE TypeOK'
      BY <3>10 DEF RefuseNewerPushed
    <3>11. CASE GuardPasses(b) BY <3>11 DEF GuardPasses
    <3>12. CASE SendPush(b) BY <3>12 DEF SendPush
    <3>13. CASE Rebase(b) BY <3>13 DEF Rebase
    <3>14. CASE CompletePush(b) BY <3>14 DEF CompletePush
    <3>15. CASE RetryStep(b) BY <3>15 DEF RetryStep
    <3>16. CASE ExhaustRetries(b) BY <3>16 DEF ExhaustRetries
    <3>17. CASE FinishHealthCheck(b) BY <3>17 DEF FinishHealthCheck
    <3> QED BY <2>2, <3>1, <3>2, <3>3, <3>4, <3>5, <3>6, <3>7, <3>8, <3>9, <3>10, <3>11, <3>12,
               <3>13, <3>14, <3>15, <3>16, <3>17 DEF StepReconcile
  <2>3. ASSUME NEW b \in Bundles, GitServer(b) PROVE TypeOK'
    BY <2>0, <2>3 DEF TypeOK, GitServer, LandPush, LosePush, bundleVars, stepVars, runVars
  <2>4. CASE Crash
    BY <2>0, <2>4 DEF TypeOK, Crash, PCs, bundleVars, stepVars
  <2>5. CASE ForeignPush
    BY <2>0, <2>5 DEF TypeOK, ForeignPush, bundleVars, stepVars
  <2> QED BY <1>2, <2>1, <2>2, <2>3, <2>4, <2>5 DEF Next
<1> QED BY <1>1, <1>2

\* Every variable keeps its type, whatever the number of Bundles.
THEOREM TypeCorrect == Spec => []TypeOK
<1>1. Init => TypeOK
  BY DEF Init, TypeOK, Phases, StepStates, PCs
<1> QED BY <1>1, TypeStep, PTL DEF Spec

-----------------------------------------------------------------------------
(* The guard's inductive invariant.                                        *)

\* A landed push is seen by whoever lists the steps afterwards, unless its
\* Bundle has lapsed.
LEMMA LandedIsListed ==
    ASSUME TypeOK, GuardInv, NEW n \in landed, lapsed[n] = {}
    PROVE  PushedOrPushing(n)
<1>1. n \in Bundles /\ n \in intent
  BY DEF TypeOK, GuardInv, IntentFirst
<1>2. Lapses(n) = {}
  BY DEF GuardInv, LapsesRecorded
<1>3. \A r \in Reasons : ~LapsesFor(n, r)
  BY <1>2 DEF Lapses
<1>4. ~LapsesFor(n, "Failed") /\ ~LapsesFor(n, "Superseded") /\ ~LapsesFor(n, "Retired")
  BY <1>3 DEF Reasons
<1> QED BY <1>1, <1>4 DEF LapsesFor, PushedOrPushing

\* A landed candidate that the guard looks past has lapsed, or b is held.
LEMMA SkippedIsExcused ==
    ASSUME TypeOK, GuardInv, NEW b \in Bundles, NEW n \in landed, b < n,
           NEW artifacts \in SUBSET tainted, ~Supersedes(n, b, artifacts)
    PROVE  Excused(b, n)
<1>1. n \in Bundles /\ phase[n] \in Phases /\ phase[n] # "none"
  BY DEF TypeOK, GuardInv, BundleExists
<1>2. Lapses(n) \subseteq lapsed[n]
  BY DEF GuardInv, LapsesRecorded
<1>3. CASE b \in heldRead
  BY <1>3 DEF GuardInv, HeldReadWasHeld, Excused
<1>4. CASE b \notin heldRead
  <2>1. n > b
    BY <1>1, BundlesAssumption
  <2>2. ~InFlightOrVerified(n) \/ n \in tainted
    BY <1>4, <2>1 DEF Supersedes
  <2>3. n \in rejected \/ n \in tainted \/ phase[n] \in {"Failed", "Superseded", "Rejected"}
    BY <1>1, <2>2 DEF InFlightOrVerified, Phases
  <2>4. \E r \in Reasons : LapsesFor(n, r)
    <3>1. LapsesFor(n, "Failed") \/ LapsesFor(n, "Superseded") \/ LapsesFor(n, "Rejected")
      BY <2>3 DEF LapsesFor
    <3> QED BY <3>1 DEF Reasons
  <2> QED BY <1>2, <2>4 DEF Lapses, Excused
<1> QED BY <1>3, <1>4

\* History is only forgotten when the Bundle lands again.
LEMMA ExcusedStays ==
    ASSUME TypeOK, Lapse, landed \subseteq landed',
           NEW o \in Bundles, NEW n \in landed, ~Lands(n),
           hold[o] # "no" => hold'[o] # "no",
           Excused(o, n)
    PROVE  Excused(o, n)'
<1>1. n \in Bundles /\ n \in landed'
  BY DEF TypeOK
<1>2. lapsed'[n] = lapsed[n] \cup Lapses(n)'
  BY <1>1 DEF Lapse
<1> QED BY <1>2 DEF Excused

\* The parts of the invariant that no action but the step's own disturbs.
LEMMA HistoryStep ==
    ASSUME TypeOK, Lapse, landed' \subseteq Bundles
    PROVE  LapsesRecorded'
<1> SUFFICES ASSUME NEW n \in landed' PROVE Lapses(n)' \subseteq lapsed'[n]
  BY DEF LapsesRecorded
<1>1. n \in Bundles
  OBVIOUS
<1> QED BY <1>1 DEF Lapse

\* A step that moves no push: the branch stays where it is.
LEMMA NoLanding ==
    ASSUME GuardInv, top' = top
    PROVE  \A n \in Bundles : ~Lands(n)
BY DEF GuardInv, NotOnOwnPush, Lands

\* JudgedAfterFetch survives every step that leaves the branch alone and adds
\* neither a fetch nor progress through the guard.
LEMMA JudgedStays ==
    ASSUME TypeOK, GuardInv, Lapse, top' = top, landed' = landed,
           wire' \subseteq wire, fresh' \subseteq fresh,
           \A b \in Bundles : hold[b] # "no" => hold'[b] # "no",
           \A b \in fresh' : pc'[b] = pc[b] /\ cand'[b] = cand[b]
    PROVE  JudgedAfterFetch'
<1> SUFFICES ASSUME NEW o \in Bundles, NEW n \in landed', o < n
             PROVE  /\ o \in wire' => Excused(o, n)'
                    /\ o \in fresh' /\ pc'[o] \in {"passed", "sent"} => Excused(o, n)'
                    /\ o \in fresh' /\ pc'[o] = "listed" => Excused(o, n)' \/ n \in cand'[o]
  BY DEF JudgedAfterFetch
<1>1. n \in landed /\ n \in Bundles
  BY DEF TypeOK
<1>2. Excused(o, n) => Excused(o, n)'
  BY <1>1, NoLanding, ExcusedStays
<1>3. /\ o \in wire => Excused(o, n)
      /\ o \in fresh /\ pc[o] \in {"passed", "sent"} => Excused(o, n)
      /\ o \in fresh /\ pc[o] = "listed" => Excused(o, n) \/ n \in cand[o]
  BY <1>1 DEF GuardInv, JudgedAfterFetch
<1> QED BY <1>2, <1>3

LEMMA BundleGuardStep ==
    ASSUME TypeOK, GuardInv, Lapse, NEW b \in Bundles, BundleStep(b)
    PROVE  GuardInv'
<1>1. /\ UNCHANGED <<intent, done, runVars, gitVars>>
      /\ \A x \in Bundles : hold[x] # "no" => hold'[x] # "no"
      /\ \A x \in Bundles : phase[x] # "none" => phase'[x] # "none"
      /\ \A x \in Bundles : step'[x] = step[x] \/ (step'[x] = "retired" /\ phase[x] # "none")
  BY DEF TypeOK, BundleStep, CreateBundle, StartPromoting, MarkSuperseded, FailBundle,
     RecoverBundle, VerifyBundle, RejectSpec, MarkRejected, SetHold, RetireGraph, SetPhase,
     stepVars, runVars, gitVars, bundleVars
<1>2. JudgedAfterFetch'
  BY <1>1, JudgedStays DEF runVars, gitVars
<1>3. LapsesRecorded'
  BY <1>1, HistoryStep DEF TypeOK, gitVars
<1>4. IntentFirst' /\ BundleExists' /\ NotOnOwnPush' /\ HeldReadWasHeld'
  BY <1>1 DEF TypeOK, GuardInv, IntentFirst, BundleExists, NotOnOwnPush, HeldReadWasHeld, runVars, gitVars
<1> QED BY <1>2, <1>3, <1>4 DEF GuardInv

\* The reconcile ends, or nothing of it changes: what is left is less.
LEMMA ReturnGuardStep ==
    ASSUME TypeOK, GuardInv, Lapse, NEW b \in Bundles,
           Return(b) \/ UNCHANGED <<runVars, acked>>,
           UNCHANGED <<bundleVars, intent, top, landed, wire>>,
           \A x \in Bundles : step'[x] = step[x] \/ phase[x] # "none"
    PROVE  GuardInv'
<1>1. /\ fresh' \subseteq fresh /\ heldRead' \subseteq heldRead
      /\ \A x \in Bundles : pc'[x] = pc[x] \/ pc'[x] = "idle"
      /\ \A x \in fresh' : pc'[x] = pc[x] /\ cand'[x] = cand[x]
  BY DEF TypeOK, Return, Goto, runVars
<1>2. JudgedAfterFetch'
  BY <1>1, JudgedStays DEF bundleVars
<1>3. LapsesRecorded'
  BY HistoryStep DEF TypeOK
<1>4. IntentFirst' /\ BundleExists' /\ NotOnOwnPush' /\ HeldReadWasHeld'
  BY <1>1 DEF TypeOK, GuardInv, IntentFirst, BundleExists, NotOnOwnPush, HeldReadWasHeld, bundleVars
<1> QED BY <1>2, <1>3, <1>4 DEF GuardInv

\* The step moves on inside one attempt.
LEMMA AttemptGuardStep ==
    ASSUME TypeOK, GuardInv, Lapse, NEW b \in Bundles,
           \/ Fetch(b) \/ Rebase(b) \/ ReadOwnBundle(b) \/ RecordPushIntent(b) \/ ListSteps(b)
           \/ GuardPasses(b) \/ SendPush(b) \/ \E n \in Bundles : SkipCandidate(b, n)
    PROVE  GuardInv'
<1> USE DEF Goto, bundleVars, stepVars, runVars, gitVars
<1>1. /\ UNCHANGED <<bundleVars, step, top, landed>>
      /\ intent \subseteq intent'
      /\ \A x \in Bundles \ {b} : pc'[x] = pc[x] /\ cand'[x] = cand[x] /\ (x \in fresh' <=> x \in fresh)
  BY DEF TypeOK, Fetch, Rebase, ReadOwnBundle, RecordPushIntent, ListSteps, GuardPasses, SendPush, SkipCandidate
<1>2. LapsesRecorded'
  BY <1>1, HistoryStep DEF TypeOK
<1>3. NotOnOwnPush'
  BY DEF GuardInv, NotOnOwnPush, Fetch, Rebase, ReadOwnBundle, RecordPushIntent, ListSteps,
     GuardPasses, SendPush, SkipCandidate
<1>4. HeldReadWasHeld'
  BY DEF GuardInv, HeldReadWasHeld, Fetch, Rebase, ReadOwnBundle, RecordPushIntent, ListSteps,
     GuardPasses, SendPush, SkipCandidate
<1>5. IntentFirst'
  BY DEF TypeOK, GuardInv, IntentFirst, Fetch, Rebase, ReadOwnBundle, RecordPushIntent, ListSteps,
     GuardPasses, SendPush, SkipCandidate
<1>6. BundleExists'
  BY DEF TypeOK, GuardInv, BundleExists, Fetch, Rebase, ReadOwnBundle, RecordPushIntent, ListSteps,
     GuardPasses, SendPush, SkipCandidate
<1>7. JudgedAfterFetch'
  <2> SUFFICES ASSUME NEW o \in Bundles, NEW n \in landed', o < n
               PROVE  /\ o \in wire' => Excused(o, n)'
                      /\ o \in fresh' /\ pc'[o] \in {"passed", "sent"} => Excused(o, n)'
                      /\ o \in fresh' /\ pc'[o] = "listed" => Excused(o, n)' \/ n \in cand'[o]
    BY DEF JudgedAfterFetch
  <2>1. n \in landed /\ n \in Bundles /\ o # n
    BY <1>1, BundlesAssumption DEF TypeOK
  <2>2. Excused(o, n) => Excused(o, n)'
    BY <1>1, <2>1, NoLanding, ExcusedStays
  <2>3. /\ o \in wire => Excused(o, n)
        /\ o \in fresh /\ pc[o] \in {"passed", "sent"} => Excused(o, n)
        /\ o \in fresh /\ pc[o] = "listed" => Excused(o, n) \/ n \in cand[o]
    BY <2>1 DEF GuardInv, JudgedAfterFetch
  <2>4. CASE o # b
    <3>1. o \in wire' <=> o \in wire
      BY <2>4 DEF Fetch, Rebase, ReadOwnBundle, RecordPushIntent, ListSteps, GuardPasses, SendPush, SkipCandidate
    <3> QED BY <1>1, <2>2, <2>3, <2>4, <3>1
  <2>5. CASE o = b
    <3>1. CASE Fetch(b) \/ Rebase(b) \/ ReadOwnBundle(b) \/ RecordPushIntent(b)
      BY <2>2, <2>3, <2>5, <3>1 DEF TypeOK, Fetch, Rebase, ReadOwnBundle, RecordPushIntent
    <3>2. CASE ListSteps(b)
      <4>1. Excused(b, n) \/ PushedOrPushing(n)
        BY <2>1, LandedIsListed DEF Excused
      <4>2. Excused(b, n) \/ n \in cand'[b]
        BY <2>1, <2>5, <3>2, <4>1 DEF TypeOK, ListSteps
      <4> QED BY <2>2, <2>3, <2>5, <3>2, <4>2 DEF TypeOK, ListSteps
    <3>3. CASE GuardPasses(b)
      BY <2>2, <2>3, <2>5, <3>3 DEF TypeOK, GuardPasses
    <3>4. CASE SendPush(b)
      BY <2>2, <2>3, <2>5, <3>4 DEF TypeOK, SendPush
    <3>5. ASSUME NEW m \in Bundles, SkipCandidate(b, m)
          PROVE  /\ o \in wire' => Excused(o, n)'
                 /\ o \in fresh' /\ pc'[o] \in {"passed", "sent"} => Excused(o, n)'
                 /\ o \in fresh' /\ pc'[o] = "listed" => Excused(o, n)' \/ n \in cand'[o]
      <4>1. m = n => Excused(b, n)
        BY <2>1, <2>5, <3>5, SkippedIsExcused DEF SkipCandidate
      <4>2. n \in cand[b] /\ m # n => n \in cand'[b]
        BY <3>5 DEF TypeOK, SkipCandidate
      <4> QED BY <2>2, <2>3, <2>5, <3>5, <4>1, <4>2 DEF SkipCandidate
    <3> QED BY <3>1, <3>2, <3>3, <3>4, <3>5
  <2> QED BY <2>4, <2>5
<1> QED BY <1>2, <1>3, <1>4, <1>5, <1>6, <1>7 DEF GuardInv

LEMMA GuardStep ==
    ASSUME TypeOK, GuardInv, [Next]_vars
    PROVE  GuardInv'
<1>1. CASE UNCHANGED vars
  <2> USE <1>1 DEF vars, bundleVars, stepVars, runVars, gitVars
  <2>1. IntentFirst' /\ BundleExists' /\ NotOnOwnPush' /\ HeldReadWasHeld'
    BY DEF GuardInv, IntentFirst, BundleExists, NotOnOwnPush, HeldReadWasHeld
  <2>2. LapsesRecorded'
    BY DEF GuardInv, LapsesRecorded, Lapses, LapsesFor
  <2>3. JudgedAfterFetch'
    BY DEF GuardInv, JudgedAfterFetch, Excused
  <2> QED BY <2>1, <2>2, <2>3 DEF GuardInv
<1>2. CASE Next
  <2>0. Lapse
    BY <1>2 DEF Next
  <2>1. ASSUME NEW b \in Bundles, BundleStep(b) PROVE GuardInv'
    BY <2>0, <2>1, BundleGuardStep
  <2>2. ASSUME NEW b \in Bundles, StepReconcile(b) PROVE GuardInv'
    <3>1. CASE \/ AdmitStep(b) \/ CancelStep(b) \/ NothingToPush(b) \/ RefuseStale(b)
               \/ CompletePush(b) \/ RetryStep(b) \/ ExhaustRetries(b) \/ FinishHealthCheck(b)
               \/ \E n \in Bundles : RefuseNewerPushed(b, n)
      <4>1. /\ Return(b) \/ UNCHANGED <<runVars, acked>>
            /\ UNCHANGED <<bundleVars, intent, top, landed, wire>>
        BY <3>1 DEF AdmitStep, CancelStep, NothingToPush, RefuseStale, CompletePush, RetryStep,
           ExhaustRetries, FinishHealthCheck, RefuseNewerPushed, stepVars, gitVars
      <4>2. phase[b] # "none"
        BY <3>1 DEF GuardInv, BundleExists, AdmitStep, CancelStep, NothingToPush, RefuseStale,
           CompletePush, RetryStep, ExhaustRetries, FinishHealthCheck, RefuseNewerPushed
      <4>3. \A x \in Bundles : step'[x] = step[x] \/ phase[x] # "none"
        BY <3>1, <4>2 DEF TypeOK, AdmitStep, CancelStep, NothingToPush, RefuseStale, CompletePush,
           RetryStep, ExhaustRetries, FinishHealthCheck, RefuseNewerPushed, SetStep, stepVars
      <4> QED BY <2>0, <4>1, <4>3, ReturnGuardStep
    <3>2. CASE ~ (\/ AdmitStep(b) \/ CancelStep(b) \/ NothingToPush(b) \/ RefuseStale(b)
                  \/ CompletePush(b) \/ RetryStep(b) \/ ExhaustRetries(b) \/ FinishHealthCheck(b)
                  \/ \E n \in Bundles : RefuseNewerPushed(b, n))
      BY <2>0, <2>2, <3>2, AttemptGuardStep DEF StepReconcile
    <3> QED BY <3>1, <3>2
  <2>3. ASSUME NEW b \in Bundles, LandPush(b) PROVE GuardInv'
    <3> USE <2>3 DEF LandPush, bundleVars, stepVars
    <3>1. LapsesRecorded'
      BY <2>0, HistoryStep DEF TypeOK
    <3>2. IntentFirst' /\ BundleExists' /\ NotOnOwnPush' /\ HeldReadWasHeld'
      BY DEF GuardInv, IntentFirst, BundleExists, NotOnOwnPush, HeldReadWasHeld
    <3>3. JudgedAfterFetch'
      BY DEF JudgedAfterFetch
    <3> QED BY <3>1, <3>2, <3>3 DEF GuardInv
  <2>4. ASSUME NEW b \in Bundles, LosePush(b) PROVE GuardInv'
    <3> USE <2>4 DEF LosePush, bundleVars, stepVars, runVars
    <3>1. LapsesRecorded'
      BY <2>0, HistoryStep DEF TypeOK
    <3>2. IntentFirst' /\ BundleExists' /\ NotOnOwnPush' /\ HeldReadWasHeld'
      BY DEF GuardInv, IntentFirst, BundleExists, NotOnOwnPush, HeldReadWasHeld
    <3>3. JudgedAfterFetch'
      BY <2>0, JudgedStays
    <3> QED BY <3>1, <3>2, <3>3 DEF GuardInv
  <2>5. CASE Crash
    <3> USE <2>5 DEF Crash, bundleVars, stepVars
    <3>1. LapsesRecorded'
      BY <2>0, HistoryStep DEF TypeOK
    <3>2. IntentFirst' /\ BundleExists' /\ NotOnOwnPush' /\ HeldReadWasHeld'
      BY DEF GuardInv, IntentFirst, BundleExists, NotOnOwnPush, HeldReadWasHeld
    <3>3. JudgedAfterFetch'
      BY <2>0, JudgedStays
    <3> QED BY <3>1, <3>2, <3>3 DEF GuardInv
  <2>6. CASE ForeignPush
    <3> USE <2>6 DEF ForeignPush, bundleVars, stepVars
    <3>1. LapsesRecorded'
      BY <2>0, HistoryStep DEF TypeOK
    <3>2. IntentFirst' /\ BundleExists' /\ NotOnOwnPush' /\ HeldReadWasHeld'
      BY DEF GuardInv, IntentFirst, BundleExists, NotOnOwnPush, HeldReadWasHeld
    <3>3. JudgedAfterFetch'
      BY DEF JudgedAfterFetch
    <3> QED BY <3>1, <3>2, <3>3 DEF GuardInv
  <2> QED BY <1>2, <2>1, <2>2, <2>3, <2>4, <2>5, <2>6 DEF Next, GitServer
<1> QED BY <1>1, <1>2

\* The guard's invariant holds in every reachable state, for any number of
\* Bundles: whoever fetched the branch after a newer push landed is excused
\* or still has that push to judge.
THEOREM GuardCorrect == Spec => []GuardInv
<1>1. Init => GuardInv
  BY DEF Init, GuardInv, IntentFirst, BundleExists, NotOnOwnPush, LapsesRecorded, HeldReadWasHeld,
     JudgedAfterFetch
<1>2. TypeOK /\ GuardInv /\ [Next]_vars => GuardInv'
  BY GuardStep
<1> QED BY <1>1, <1>2, TypeCorrect, PTL DEF Spec

\* The push guard's promise, for any number of Bundles: an older image lands
\* over a newer one only when the newer Bundle lapsed or the older is held.
THEOREM OlderNeverLands == Spec => OlderNeverLandsOverNewer
<1>1. GuardInv => (\A o, n \in Bundles : LandsOver(o, n) => Excused(o, n))
  BY DEF GuardInv, JudgedAfterFetch, LandsOver, Lands
<1>2. GuardInv /\ [Next]_vars => [\A o, n \in Bundles : LandsOver(o, n) => Excused(o, n)]_vars
  BY <1>1
<1> QED BY <1>2, GuardCorrect, PTL DEF Spec, OlderNeverLandsOverNewer

\* A Superseded or Rejected Bundle with nothing on its way never pushes again.
THEOREM WithdrawnStays == Spec => WithdrawnStaysWithdrawn
<1>1. TypeOK /\ Next => \A b \in Bundles : Withdrawn(b) => Withdrawn(b)'
  <2> SUFFICES ASSUME TypeOK, Next, NEW w \in Bundles, Withdrawn(w) PROVE Withdrawn(w)'
    OBVIOUS
  <2> USE DEF TypeOK, Withdrawn, Quiet
  <2>1. ASSUME NEW b \in Bundles, BundleStep(b) PROVE Withdrawn(w)'
    BY <2>1 DEF BundleStep, CreateBundle, StartPromoting, MarkSuperseded, FailBundle, RecoverBundle,
       VerifyBundle, RejectSpec, MarkRejected, SetHold, RetireGraph, SetPhase,
       stepVars, runVars, gitVars, bundleVars
  <2>2. ASSUME NEW b \in Bundles, StepReconcile(b) PROVE Withdrawn(w)'
    BY <2>2 DEF StepReconcile, AdmitStep, CancelStep, Fetch, NothingToPush, ReadOwnBundle, RefuseStale,
       RecordPushIntent, ListSteps, SkipCandidate, RefuseNewerPushed, GuardPasses, SendPush, Rebase,
       CompletePush, RetryStep, ExhaustRetries, FinishHealthCheck, Return, Goto,
       stepVars, runVars, gitVars, bundleVars
  <2>3. ASSUME NEW b \in Bundles, GitServer(b) PROVE Withdrawn(w)'
    BY <2>3 DEF GitServer, LandPush, LosePush, runVars, bundleVars
  <2>4. CASE Crash \/ ForeignPush
    BY <2>4 DEF Crash, ForeignPush, bundleVars
  <2> QED BY <2>1, <2>2, <2>3, <2>4 DEF Next
<1>2. TypeOK /\ [Next]_vars => [\A b \in Bundles : Withdrawn(b) => Withdrawn(b)']_vars
  BY <1>1
<1> QED BY <1>2, TypeCorrect, PTL DEF Spec, WithdrawnStaysWithdrawn

\* The guard's invariant and the types together: what holds of every state of the race.
THEOREM PushCorrect == Spec => []PushSafe
BY TypeCorrect, GuardCorrect, PTL DEF PushSafe
=============================================================================
