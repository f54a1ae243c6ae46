------------------------ MODULE CircuitRegistryProofs ------------------------
(* Proofs about CircuitRegistry for any owners, callers and threshold.     *)
EXTENDS CircuitRegistry, TLAPS

\* What one look at circuit x may do: everything else stays.
LEMMA CurrentStateType ==
    ASSUME TypeOK, NEW x \in Circuits
    PROVE  currentState(x) \in States /\ (currentState(x) = "closed" <=> state[x] = "closed")
BY DEF TypeOK, currentState, States

\* The types of the circuits after a failure or a success was recorded.
BreakerTypes ==
    /\ state \in [Circuits -> States]
    /\ fails \in [Circuits -> 0..FailureThreshold]
    /\ openings \in [Circuits -> 0..MaxOpenings]
    /\ until \in [Circuits -> SUBSET {"backoff", "server"}]
    /\ probe \subseteq Circuits
    /\ serverWait \subseteq Circuits

LEMMA RecordTypes ==
    ASSUME TypeOK, BelowThreshold, NEW x \in Circuits, NEW c \in Calls, NEW r \in BOOLEAN,
           RecordFailureFrom(x, c, r) \/ RecordSuccessFrom(x, c) \/ cancelProbe(x) \/ Allow(x)
    PROVE  BreakerTypes' /\ BelowThreshold'
<1>1. threshold(x) \in 1..FailureThreshold /\ \A y \in Circuits : threshold(y) \in Nat \ {0}
  BY ThresholdAssumption DEF threshold
<1>2. fails[x] \in Nat /\ FailureThreshold \in Nat /\ MaxOpenings \in Nat
  BY ThresholdAssumption, OpeningsAssumption DEF TypeOK
<1>3. state' \in [Circuits -> States]
  BY CurrentStateType DEF TypeOK, States, RecordFailureFrom, RecordSuccessFrom, cancelProbe, Allow, extend, openLocked
<1>4. fails' \in [Circuits -> 0..FailureThreshold]
  <2>1. state[x] = "closed" => fails[x] + 1 <= FailureThreshold
    BY <1>1, <1>2 DEF BelowThreshold
  <2> QED BY <1>2, <2>1, CurrentStateType DEF TypeOK, RecordFailureFrom, RecordSuccessFrom, cancelProbe,
             Allow, extend, openLocked
<1>5. openings' \in [Circuits -> 0..MaxOpenings]
  BY <1>2 DEF TypeOK, RecordFailureFrom, RecordSuccessFrom, cancelProbe, Allow, extend, openLocked
<1>6. until' \in [Circuits -> SUBSET {"backoff", "server"}]
  BY DEF TypeOK, RecordFailureFrom, RecordSuccessFrom, cancelProbe, Allow, extend, openLocked
<1>7. probe' \subseteq Circuits /\ serverWait' \subseteq Circuits
  BY DEF TypeOK, RecordFailureFrom, RecordSuccessFrom, cancelProbe, Allow, extend, openLocked
<1>8. BelowThreshold'
  <2> SUFFICES ASSUME NEW y \in Circuits, state'[y] = "closed" PROVE fails'[y] < threshold(y)
    BY DEF BelowThreshold
  <2>1. CASE y # x
    BY <2>1 DEF TypeOK, BelowThreshold, RecordFailureFrom, RecordSuccessFrom, cancelProbe, Allow, extend, openLocked
  <2>2. CASE y = x
    <3>1. CASE RecordFailureFrom(x, c, r)
      BY <1>1, <1>2, <2>2, <3>1, CurrentStateType DEF TypeOK, BelowThreshold, RecordFailureFrom, extend, openLocked
    <3>2. CASE RecordSuccessFrom(x, c)
      BY <1>1, <2>2, <3>2, CurrentStateType DEF TypeOK, BelowThreshold, RecordSuccessFrom
    <3>3. CASE cancelProbe(x) \/ Allow(x)
      BY <2>2, <3>3, CurrentStateType DEF TypeOK, BelowThreshold, cancelProbe, Allow
    <3> QED BY <3>1, <3>2, <3>3
  <2> QED BY <2>1, <2>2
<1> QED BY <1>3, <1>4, <1>5, <1>6, <1>7, <1>8 DEF BreakerTypes

LEMMA OrderTypes ==
    ASSUME StartTimes, pc' \in [Calls -> PCs]
    PROVE  /\ preOpen' \subseteq Calls \X Circuits
           /\ preProbe' \subseteq Calls \X Circuits
           /\ probing' \subseteq Calls \X Circuits
<1>1. Started' \subseteq Calls
  BY DEF Started
<1> QED BY <1>1 DEF StartTimes

LEMMA CallTypes ==
    ASSUME TypeOK, CallHasOwner, NEW c \in Calls, CallStep(c)
    PROVE  /\ pc' \in [Calls -> PCs]
           /\ owner' \in [Calls -> Owners \cup {NoOwner}]
           /\ outcome' \in [Calls -> Kinds \X BOOLEAN]
           /\ CallHasOwner'
<1> USE DEF TypeOK, CallHasOwner, PCs, Goto
<1>1. ASSUME NEW o \in Owners, AskOwner(c, o)
      PROVE  /\ pc' \in [Calls -> PCs] /\ owner' \in [Calls -> Owners \cup {NoOwner}]
             /\ outcome' = outcome /\ CallHasOwner'
  BY <1>1 DEF AskOwner
<1>2. CASE AskQuota(c) \/ QuotaRefuses(c) \/ RecordFirst(c)
  BY <1>2 DEF AskQuota, QuotaRefuses, RecordFirst
<1>3. CASE Respond(c)
  <2>1. outcome' \in [Calls -> Kinds \X BOOLEAN]
    <3>1. PICK kind \in Kinds, r \in BOOLEAN : outcome' = [outcome EXCEPT ![c] = <<kind, r>>]
      BY <1>3 DEF Respond
    <3>2. <<kind, r>> \in Kinds \X BOOLEAN
      OBVIOUS
    <3> QED BY <3>1, <3>2
  <2> QED BY <1>3, <2>1 DEF Respond
<1>4. CASE GiveBackProbe(c) \/ Abandon(c) \/ RecordSecond(c)
  <2>1. NoOutcome \in Kinds \X BOOLEAN
    BY DEF NoOutcome, Kinds
  <2>2. Return(c)
    BY <1>4 DEF GiveBackProbe, Abandon, RecordSecond
  <2> QED BY <2>1, <2>2 DEF Return
<1> QED BY <1>1, <1>2, <1>3, <1>4 DEF CallStep

\* A call only ever touches its owner's circuit or the quota's, through one of
\* the breaker's operations.
LEMMA CallTouches ==
    ASSUME TypeOK, CallHasOwner, NEW c \in Calls, CallStep(c)
    PROVE  \/ UNCHANGED <<breakerVars, serverWait>>
           \/ state' = [state EXCEPT ![Quota] = currentState(Quota)]
              /\ UNCHANGED <<fails, openings, until, probe, serverWait>>
           \/ \E x \in Circuits, r \in BOOLEAN :
                RecordFailureFrom(x, c, r) \/ RecordSuccessFrom(x, c) \/ cancelProbe(x) \/ Allow(x)
<1>1. \A o \in Owners : o \in Circuits
  BY DEF Circuits
<1>2. Quota \in Circuits
  BY DEF Circuits
<1>3. ASSUME NEW o \in Owners, AskOwner(c, o) PROVE \E x \in Circuits : Allow(x)
  BY <1>1, <1>3 DEF AskOwner
<1>4. CASE AskQuota(c) BY <1>2, <1>4 DEF AskQuota
<1>5. CASE QuotaRefuses(c) BY <1>5 DEF QuotaRefuses
<1>6. CASE GiveBackProbe(c) BY <1>1, <1>6 DEF GiveBackProbe, CallHasOwner
<1>7. CASE Respond(c) \/ Abandon(c) BY <1>7 DEF Respond, Abandon
<1>8. CASE RecordFirst(c)
  <2>1. outcome[c][2] \in BOOLEAN /\ owner[c] \in Circuits
    BY <1>1, <1>8 DEF RecordFirst, TypeOK, CallHasOwner
  <2> QED BY <1>2, <1>8, <2>1 DEF RecordFirst
<1>9. CASE RecordSecond(c)
  <2>1. owner[c] \in Circuits
    BY <1>1, <1>9 DEF RecordSecond, CallHasOwner
  <2> QED BY <1>2, <1>9, <2>1 DEF RecordSecond
<1> QED BY <1>3, <1>4, <1>5, <1>6, <1>7, <1>8, <1>9 DEF CallStep

Safe == TypeOK /\ BelowThreshold /\ CallHasOwner

LEMMA SafeStep ==
    ASSUME Safe, [Next]_vars
    PROVE  Safe'
<1> USE DEF Safe
<1>1. CASE UNCHANGED vars
  BY <1>1 DEF TypeOK, BelowThreshold, CallHasOwner, vars, breakerVars, callVars
<1>2. ASSUME NEW c \in Calls, CallStep(c), StartTimes PROVE Safe'
  <2>1. BreakerTypes' /\ BelowThreshold'
    <3>1. CASE UNCHANGED <<breakerVars, serverWait>>
      BY <3>1 DEF TypeOK, BreakerTypes, BelowThreshold, breakerVars
    <3>2. CASE /\ state' = [state EXCEPT ![Quota] = currentState(Quota)]
               /\ UNCHANGED <<fails, openings, until, probe, serverWait>>
      <4>1. Quota \in Circuits
        BY DEF Circuits
      <4> QED BY <3>2, <4>1, CurrentStateType DEF TypeOK, BreakerTypes, BelowThreshold
    <3>3. ASSUME NEW x \in Circuits, NEW r \in BOOLEAN,
                 RecordFailureFrom(x, c, r) \/ RecordSuccessFrom(x, c) \/ cancelProbe(x) \/ Allow(x)
          PROVE  BreakerTypes' /\ BelowThreshold'
      BY <3>3, RecordTypes
    <3> QED BY <1>2, <3>1, <3>2, <3>3, CallTouches
  <2>2. /\ pc' \in [Calls -> PCs]
        /\ owner' \in [Calls -> Owners \cup {NoOwner}]
        /\ outcome' \in [Calls -> Kinds \X BOOLEAN]
        /\ CallHasOwner'
    BY <1>2, CallTypes
  <2>3. /\ preOpen' \subseteq Calls \X Circuits
        /\ preProbe' \subseteq Calls \X Circuits
        /\ probing' \subseteq Calls \X Circuits
    BY <1>2, <2>2, OrderTypes
  <2> QED BY <2>1, <2>2, <2>3 DEF BreakerTypes, TypeOK
<1>3. ASSUME NEW x \in Circuits, TimeStep(x), StartTimes PROVE Safe'
  <2>1. UNCHANGED callVars
    BY <1>3 DEF TimeStep, BackoffEnds, ServerWaitEnds, ProbeExpires
  <2>2. /\ preOpen' \subseteq Calls \X Circuits
        /\ preProbe' \subseteq Calls \X Circuits
        /\ probing' \subseteq Calls \X Circuits
    BY <1>3, <2>1, OrderTypes DEF TypeOK, callVars
  <2> QED BY <1>3, <2>1, <2>2 DEF TypeOK, BelowThreshold, CallHasOwner, TimeStep, BackoffEnds, ServerWaitEnds,
             ProbeExpires, callVars
<1> QED BY <1>1, <1>2, <1>3 DEF Next

\* A circuit that lets every call through has counted fewer failures than its
\* threshold, for any number of owners and calls, and every variable keeps
\* its type.
THEOREM BreakerSafe == Spec => [](TypeOK /\ BelowThreshold /\ CallHasOwner)
<1>1. Init => Safe
  <2>1. \A x \in Circuits : threshold(x) > 0
    BY ThresholdAssumption DEF threshold
  <2>2. NoOutcome \in Kinds \X BOOLEAN
    BY DEF NoOutcome, Kinds
  <2>3. Init => TypeOK
    BY <2>2, ThresholdAssumption, OpeningsAssumption DEF Init, TypeOK, States, PCs
  <2>4. Init => BelowThreshold /\ CallHasOwner
    BY <2>1 DEF Init, BelowThreshold, CallHasOwner
  <2> QED BY <2>3, <2>4 DEF Safe
<1>2. Safe /\ [Next]_vars => Safe'
  BY SafeStep
<1> QED BY <1>1, <1>2, PTL DEF Spec, Safe

-----------------------------------------------------------------------------
(* Only a probe's failure makes the backoff grow.                          *)

\* StartTimes, read for one call and one circuit.
LEMMA OrderOf ==
    ASSUME StartTimes, NEW c \in Calls, NEW x \in Circuits
    PROVE  /\ <<c, x>> \in preProbe' <=>
                c \in Started' /\ c \in Started /\ (<<c, x>> \in preProbe \/ Probes(x))
           /\ <<c, x>> \in probing' <=>
                pc'[c] # "idle" /\ state'[x] = "halfopen"
                /\ (<<c, x>> \in probing \/ (Probes(x) /\ pc'[c] # pc[c]))
BY DEF StartTimes, Started

\* What a call's step does to the circuits, whichever it touches.
LEMMA CircuitMoves ==
    ASSUME Safe, ProbeMeansHalfOpen, NEW c \in Calls, CallStep(c), NEW x \in Circuits
    PROVE  /\ x \in probe' => state'[x] = "halfopen"
           /\ state'[x] \in {"closed", state[x], currentState(x)} \/ (state'[x] = "open" /\ "backoff" \in until'[x])
           /\ state'[x] = "open" /\ state[x] = "open" => until[x] \subseteq until'[x]
           /\ state'[x] = "halfopen" => state[x] # "closed"
           /\ Probes(x) => state'[x] = "halfopen"
<1>1. CASE UNCHANGED <<breakerVars, serverWait>>
  BY <1>1 DEF Safe, TypeOK, ProbeMeansHalfOpen, breakerVars, Probes, States, currentState
<1>2. CASE /\ state' = [state EXCEPT ![Quota] = currentState(Quota)]
           /\ UNCHANGED <<fails, openings, until, probe, serverWait>>
  BY <1>2 DEF Safe, TypeOK, ProbeMeansHalfOpen, Probes, States, currentState
<1>3. ASSUME NEW y \in Circuits, NEW r \in BOOLEAN, RecordFailureFrom(y, c, r)
      PROVE  /\ x \in probe' => state'[x] = "halfopen"
             /\ state'[x] \in {"closed", state[x], currentState(x)} \/ (state'[x] = "open" /\ "backoff" \in until'[x])
             /\ state'[x] = "open" /\ state[x] = "open" => until[x] \subseteq until'[x]
             /\ state'[x] = "halfopen" => state[x] # "closed"
             /\ Probes(x) => state'[x] = "halfopen"
  BY <1>3 DEF Safe, TypeOK, ProbeMeansHalfOpen, Probes, States, currentState, RecordFailureFrom, extend,
     openLocked, IsTheProbe
<1>4. ASSUME NEW y \in Circuits, RecordSuccessFrom(y, c) \/ cancelProbe(y) \/ Allow(y)
      PROVE  /\ x \in probe' => state'[x] = "halfopen"
             /\ state'[x] \in {"closed", state[x], currentState(x)} \/ (state'[x] = "open" /\ "backoff" \in until'[x])
             /\ state'[x] = "open" /\ state[x] = "open" => until[x] \subseteq until'[x]
             /\ state'[x] = "halfopen" => state[x] # "closed"
             /\ Probes(x) => state'[x] = "halfopen"
  BY <1>4 DEF Safe, TypeOK, ProbeMeansHalfOpen, Probes, States, currentState, RecordSuccessFrom, cancelProbe, Allow
<1> QED BY <1>1, <1>2, <1>3, <1>4, CallTouches DEF Safe

\* Only the call that passes its owner's or the quota's half-open circuit
\* becomes a probe, and it does so before it starts.
LEMMA ProbeIsAsked ==
    ASSUME Safe, NEW c \in Calls, CallStep(c), NEW x \in Circuits, Probes(x)
    PROVE  \/ pc[c] = "idle" /\ pc'[c] = "asking" /\ owner'[c] = x
           \/ pc[c] = "asking" /\ pc'[c] = "inflight" /\ x = Quota
<1>1. ASSUME NEW o \in Owners, AskOwner(c, o)
      PROVE  pc[c] = "idle" /\ pc'[c] = "asking" /\ owner'[c] = x
  BY <1>1 DEF Safe, TypeOK, AskOwner, Allow, Goto, Probes
<1>2. CASE AskQuota(c)
  BY <1>2 DEF Safe, TypeOK, AskQuota, Allow, Goto, Probes
<1>3. CASE QuotaRefuses(c) \/ GiveBackProbe(c) \/ Respond(c) \/ Abandon(c)
  BY <1>3 DEF QuotaRefuses, GiveBackProbe, cancelProbe, Respond, Abandon, breakerVars, Probes
<1>4. CASE RecordFirst(c) \/ RecordSecond(c)
  BY <1>4 DEF RecordFirst, RecordSecond, RecordFailureFrom, RecordSuccessFrom, cancelProbe, extend, openLocked, Probes
<1> QED BY <1>1, <1>2, <1>3, <1>4 DEF CallStep

\* How one call moves; the others stay where they are.
LEMMA CallMoves ==
    ASSUME Safe, NEW c \in Calls, CallStep(c)
    PROVE  /\ \A d \in Calls \ {c} : pc'[d] = pc[d] /\ owner'[d] = owner[d]
           /\ \/ pc[c] = "idle" /\ pc'[c] = "asking" /\ Allow(owner'[c]) /\ owner'[c] \in Owners
              \/ pc[c] = "asking" /\ pc'[c] = "inflight" /\ owner'[c] = owner[c] /\ Allow(Quota)
              \/ pc[c] = "asking" /\ pc'[c] = "refused" /\ owner'[c] = owner[c] /\ probe' = probe
              \/ c \in Started /\ c \in Started' /\ owner'[c] = owner[c]
              \/ pc'[c] = "idle"
<1> USE DEF Safe, TypeOK, Goto, Return, Started
<1>1. ASSUME NEW o \in Owners, AskOwner(c, o)
      PROVE  /\ \A d \in Calls \ {c} : pc'[d] = pc[d] /\ owner'[d] = owner[d]
             /\ pc[c] = "idle" /\ pc'[c] = "asking" /\ Allow(owner'[c]) /\ owner'[c] \in Owners
  BY <1>1 DEF AskOwner
<1>2. CASE AskQuota(c)
  BY <1>2 DEF AskQuota
<1>3. CASE QuotaRefuses(c) \/ Respond(c) \/ RecordFirst(c)
  BY <1>3 DEF QuotaRefuses, Respond, RecordFirst
<1>4. CASE GiveBackProbe(c) \/ Abandon(c) \/ RecordSecond(c)
  BY <1>4 DEF GiveBackProbe, Abandon, RecordSecond
<1> QED BY <1>1, <1>2, <1>3, <1>4 DEF CallStep

\* A call's step keeps the invariant.
LEMMA ProbeCallStep ==
    ASSUME Safe, Safe', ProbeInv, StartTimes, NEW c \in Calls, CallStep(c)
    PROVE  ProbeInv'
<1> USE DEF Safe
<1>0. Quota \in Circuits /\ Owners \subseteq Circuits
  BY DEF Circuits
<1>1. ProbeMeansHalfOpen'
  BY CircuitMoves DEF ProbeInv, ProbeMeansHalfOpen, TypeOK, StartTimes
<1>2. AskingKeepsBackoff'
  <2> SUFFICES ASSUME NEW d \in Calls, pc'[d] \in {"asking", "refused"}, <<d, owner'[d]>> \notin probing'
               PROVE  state'[owner'[d]] = "closed"
                      \/ (state'[owner'[d]] = "open" /\ "backoff" \in until'[owner'[d]])
    BY DEF AskingKeepsBackoff
  <2>1. owner'[d] \in Circuits
    BY <1>0 DEF CallHasOwner
  <2>2. CASE pc[d] = "idle"
    <3>1. d = c /\ Allow(owner'[c])
      BY <2>2, CallMoves DEF Started
    <3>2. CASE currentState(owner'[c]) = "closed"
      BY <2>1, <3>1, <3>2 DEF Allow, TypeOK
    <3>3. CASE currentState(owner'[c]) = "halfopen"
      <4>1. Probes(owner'[c]) /\ state'[owner'[c]] = "halfopen"
        BY <2>1, <3>1, <3>3 DEF Allow, Admits, Probes, TypeOK
      <4> QED BY <2>1, <2>2, <3>1, <4>1, OrderOf
    <3> QED BY <3>1, <3>2, <3>3 DEF Allow, Admits
  <2>3. CASE pc[d] # "idle"
    <3>1. pc[d] \in {"asking", "refused"} /\ owner'[d] = owner[d]
      <4>1. CASE d # c BY <4>1, <2>3, CallMoves
      <4>2. CASE d = c BY <4>2, <2>3, CallMoves DEF Started
      <4> QED BY <4>1, <4>2
    <3>2. CASE <<d, owner[d]>> \notin probing
      <4>1. state[owner[d]] = "closed" \/ (state[owner[d]] = "open" /\ "backoff" \in until[owner[d]])
        BY <3>1, <3>2 DEF ProbeInv, AskingKeepsBackoff
      <4>2. currentState(owner[d]) = state[owner[d]]
        BY <4>1 DEF currentState
      <4> QED BY <2>1, <3>1, <4>1, <4>2, CircuitMoves DEF ProbeInv
    <3>3. CASE <<d, owner[d]>> \in probing
      <4>1. state'[owner[d]] # "halfopen"
        BY <2>1, <3>1, <3>3, OrderOf
      <4>2. state[owner[d]] = "halfopen"
        BY <3>3 DEF ProbeInv, ProbeMeansHalfOpen
      <4> QED BY <2>1, <3>1, <4>1, <4>2, CircuitMoves DEF ProbeInv, currentState
    <3> QED BY <3>2, <3>3
  <2> QED BY <2>2, <2>3
<1>3. OnlyProbesAreYoung'
  <2> SUFFICES ASSUME NEW d \in Started', NEW x \in {owner'[d], Quota}, x \in probe', <<d, x>> \notin preProbe'
               PROVE  <<d, x>> \in probing'
    BY DEF OnlyProbesAreYoung
  <2>1. d \in Calls /\ pc'[d] # "idle" /\ x \in Circuits /\ state'[x] = "halfopen"
    BY <1>0, <1>1 DEF Started, CallHasOwner, ProbeMeansHalfOpen
  <2>2. CASE d \in Started
    <3>1. owner'[d] = owner[d]
      BY <2>1, <2>2, CallMoves DEF Started
    <3>2. ~Probes(x) /\ <<d, x>> \notin preProbe
      BY <2>1, <2>2, OrderOf
    <3>3. x \in probe
      BY <3>2 DEF Probes
    <3>4. <<d, x>> \in probing
      BY <2>2, <3>1, <3>2, <3>3 DEF ProbeInv, OnlyProbesAreYoung
    <3> QED BY <2>1, <3>4, OrderOf
  <2>3. CASE d \notin Started
    <3>1. d = c /\ pc[c] = "asking" /\ owner'[c] = owner[c] /\ Allow(Quota) /\ pc'[c] = "inflight"
      BY <2>1, <2>3, CallMoves DEF Started
    <3>2. CASE x = Quota
      <4>1. Probes(x)
        BY <1>0, <2>1, <3>1, <3>2 DEF Allow, Admits, Probes, TypeOK, currentState
      <4> QED BY <2>1, <3>1, <4>1, OrderOf
    <3>3. CASE x = owner[c] /\ x # Quota
      <4>1. <<c, x>> \in probing
        <5>1. x \in probe /\ state[x] = "halfopen"
          BY <2>1, <3>1, <3>3 DEF Allow, TypeOK, ProbeInv, ProbeMeansHalfOpen
        <5> QED BY <3>1, <3>3, <5>1 DEF ProbeInv, AskingKeepsBackoff
      <4> QED BY <2>1, <3>1, <4>1, OrderOf
    <3> QED BY <3>1, <3>2, <3>3
  <2> QED BY <2>2, <2>3
<1> QED BY <1>1, <1>2, <1>3 DEF ProbeInv

\* Time's step keeps the invariant.
LEMMA ProbeTimeStep ==
    ASSUME Safe, Safe', ProbeInv, StartTimes, NEW y \in Circuits, TimeStep(y)
    PROVE  ProbeInv'
<1> USE DEF Safe
<1>1. /\ UNCHANGED <<state, callVars>> /\ probe' \subseteq probe
      /\ \A x \in Circuits : ~Probes(x)
  BY DEF TimeStep, BackoffEnds, ServerWaitEnds, ProbeExpires, Probes
<1>2. Started' = Started
  BY <1>1 DEF Started, callVars
<1>3. \A c \in Calls, x \in Circuits : <<c, x>> \in probing /\ pc[c] # "idle" => <<c, x>> \in probing'
  BY <1>1, OrderOf DEF ProbeInv, ProbeMeansHalfOpen, callVars
<1>4. ProbeMeansHalfOpen'
  BY <1>1 DEF ProbeInv, ProbeMeansHalfOpen, StartTimes
<1>5. AskingKeepsBackoff'
  <2> SUFFICES ASSUME NEW d \in Calls, pc[d] \in {"asking", "refused"}, <<d, owner[d]>> \notin probing'
               PROVE  state[owner[d]] = "closed"
                      \/ (state[owner[d]] = "open" /\ "backoff" \in until'[owner[d]])
    BY <1>1 DEF AskingKeepsBackoff, callVars
  <2>1. owner[d] \in Circuits
    BY DEF CallHasOwner, Circuits
  <2>2. <<d, owner[d]>> \notin probing
    BY <1>3, <2>1
  <2>3. state[owner[d]] = "closed" \/ (state[owner[d]] = "open" /\ "backoff" \in until[owner[d]])
    BY <2>2 DEF ProbeInv, AskingKeepsBackoff
  <2>4. "backoff" \in until[owner[d]] => "backoff" \in until'[owner[d]]
    BY <2>1, <2>2, SMTT(30) DEF TypeOK, TimeStep, BackoffEnds, ServerWaitEnds, ProbeExpires
  <2> QED BY <2>3, <2>4
<1>6. OnlyProbesAreYoung'
  <2> SUFFICES ASSUME NEW d \in Started, NEW x \in {owner[d], Quota}, x \in probe', <<d, x>> \notin preProbe'
               PROVE  <<d, x>> \in probing'
    BY <1>1, <1>2 DEF OnlyProbesAreYoung, callVars
  <2>1. d \in Calls /\ pc[d] # "idle" /\ x \in Circuits
    BY DEF Started, CallHasOwner, Circuits
  <2>2. <<d, x>> \notin preProbe
    BY <1>2, <2>1, OrderOf
  <2> QED BY <1>1, <1>3, <2>1, <2>2 DEF ProbeInv, OnlyProbesAreYoung
<1>7. CallHasOwner'
  OBVIOUS
<1> QED BY <1>4, <1>5, <1>6, <1>7 DEF ProbeInv

\* Every variable keeps its type, for any number of owners and calls; in particular the
\* failures counted stay within the threshold and the openings within their cap.
THEOREM TypeCorrect == Spec => []TypeOK
BY BreakerSafe, PTL

\* The order of the calls' start times, for any number of owners and calls: a
\* running call that is not the probe of a circuit is older than its probe.
THEOREM ProbeCorrect == Spec => []ProbeInv
<1>1. Init => ProbeInv
  BY DEF Init, ProbeInv, ProbeMeansHalfOpen, AskingKeepsBackoff, OnlyProbesAreYoung, CallHasOwner
<1>2. Safe /\ Safe' /\ ProbeInv /\ [Next]_vars => ProbeInv'
  <2> SUFFICES ASSUME Safe, Safe', ProbeInv, [Next]_vars PROVE ProbeInv'
    OBVIOUS
  <2>1. CASE UNCHANGED vars
    BY <2>1 DEF vars, breakerVars, callVars, ProbeInv, ProbeMeansHalfOpen, AskingKeepsBackoff, OnlyProbesAreYoung,
       CallHasOwner, Started
  <2> QED BY <2>1, ProbeCallStep, ProbeTimeStep DEF Next
<1> QED BY <1>1, <1>2, BreakerSafe, PTL DEF Spec, Safe

\* #1476 for any number of owners and calls: only the failure of a call that
\* was let through as the probe makes a circuit's backoff grow.
THEOREM BackoffGrowth == Spec => BackoffGrowsOnlyByProbes
<1>1. Safe /\ ProbeInv /\ Next =>
        (\A x \in Circuits : openings'[x] > openings[x] =>
            \E c \in Calls : pc[c] = "answered" /\ pc'[c] = "recorded" /\ <<c, x>> \in probing)
  <2> SUFFICES ASSUME Safe, ProbeInv, Next, NEW x \in Circuits, openings'[x] > openings[x]
               PROVE  \E c \in Calls : pc[c] = "answered" /\ pc'[c] = "recorded" /\ <<c, x>> \in probing
    OBVIOUS
  <2>0. openings[x] \in Nat /\ openings' # openings
    BY OpeningsAssumption DEF Safe, TypeOK
  <2>1. PICK c \in Calls : CallStep(c)
    BY <2>0 DEF Next, TimeStep, BackoffEnds, ServerWaitEnds, ProbeExpires
  <2>2. ~(openings[x] < 0)
    BY <2>0
  <2>3. RecordFirst(c)
    <3>1. ~ \E o \in Owners : AskOwner(c, o)
      BY <2>0 DEF AskOwner, Allow
    <3>2. ~AskQuota(c) /\ ~QuotaRefuses(c) /\ ~GiveBackProbe(c) /\ ~Respond(c) /\ ~Abandon(c)
      BY <2>0 DEF AskQuota, Allow, QuotaRefuses, GiveBackProbe, cancelProbe, Respond, Abandon, breakerVars
    <3>3. ~RecordSecond(c)
      BY <2>0, <2>2 DEF RecordSecond, RecordSuccessFrom, cancelProbe, Safe, TypeOK
    <3> QED BY <2>1, <3>1, <3>2, <3>3 DEF CallStep
  <2>4. (x = owner[c] \/ x = Quota) /\ IsTheProbe(x, c)
    BY <2>0, <2>2, <2>3 DEF RecordFirst, RecordFailureFrom, RecordSuccessFrom, extend, openLocked, Safe, TypeOK
  <2>5. c \in Started /\ pc[c] = "answered" /\ pc'[c] = "recorded"
    BY <2>3 DEF RecordFirst, Goto, Started, Safe, TypeOK
  <2>6. <<c, x>> \in probing
    BY <2>4, <2>5 DEF IsTheProbe, ProbeInv, OnlyProbesAreYoung
  <2> QED BY <2>5, <2>6
<1>2. Safe /\ ProbeInv /\ [Next]_vars =>
        [\A x \in Circuits : openings'[x] > openings[x] =>
            \E c \in Calls : pc[c] = "answered" /\ pc'[c] = "recorded" /\ <<c, x>> \in probing]_vars
  BY <1>1
<1> QED BY <1>2, BreakerSafe, ProbeCorrect, PTL DEF Spec, Safe, BackoffGrowsOnlyByProbes

\* What holds of every state of the circuits, for any number of owners and calls: thresholds,
\* probes and the order of the calls' start times.
THEOREM RegistryCorrect == Spec => []RegistrySafe
BY BreakerSafe, ProbeCorrect, PTL DEF RegistrySafe
=============================================================================
