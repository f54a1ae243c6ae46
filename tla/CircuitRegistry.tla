--------------------------- MODULE CircuitRegistry ---------------------------
(***************************************************************************)
(* The circuit breakers of one SCM host: one per repository owner, and one *)
(* for the token's rate-limit quota.  A call asks its owner's circuit and  *)
(* then the quota circuit, runs, and records its outcome in both.  Each of *)
(* those is a critical section of its own, so calls interleave between     *)
(* any two of them.                                                        *)
(*                                                                         *)
(* Time is kept as order.  A call knows, for each circuit, whether it      *)
(* started before the circuit last opened and before its present probe;    *)
(* an open window is the set of waits it still covers: the backoff and the *)
(* server's Retry-After.  Two facts about durations are guards: a backoff  *)
(* (5s or more) outlasts the instructions between two critical sections,   *)
(* and HalfOpenTimeout outlasts a call (the HTTP timeout and a margin).    *)
(***************************************************************************)
EXTENDS Naturals, FiniteSets

CONSTANTS
    Owners,           \* repository owners
    Quota,            \* the quota circuit
    Calls,            \* callers of the provider (reconcile workers)
    NoOwner,          \* the owner of an idle caller
    FailureThreshold, \* of an owner's circuit; the quota's is 1
    MaxOpenings       \* the opening at which the backoff has reached MaxBackoff

ASSUME QuotaAssumption == Quota \notin Owners
ASSUME NoOwnerAssumption == NoOwner \notin Owners
ASSUME ThresholdAssumption == FailureThreshold \in Nat \ {0}
ASSUME OpeningsAssumption == MaxOpenings \in Nat

VARIABLES
    state,     \* CircuitBreaker.state
    fails,     \* consecutiveFails
    openings,  \* failed probes since the circuit opened, up to MaxOpenings
    until,     \* the waits openUntil still covers
    probe,     \* probeStarted is set and not timed out
    pc,        \* where a caller is
    owner,     \* the owner its call is for
    outcome,   \* what its call returned: <<kind, whether a retry time came with it>>
    preOpen,   \* <<call, circuit>>: started before the circuit last opened
    preProbe,  \* <<call, circuit>>: started before the circuit's last probe
    probing,   \* history: <<call, circuit>>: let through since the circuit is half-open
    serverWait \* history: circuits whose last Retry-After has not passed

breakerVars == <<state, fails, openings, until, probe>>
callVars    == <<pc, owner, outcome>>
vars == <<breakerVars, callVars, preOpen, preProbe, probing, serverWait>>

Circuits  == Owners \cup {Quota}
States    == {"closed", "open", "halfopen"}
Kinds     == {"none", "neterr", "quota", "transient", "ok"}
NoOutcome == <<"none", FALSE>>

\* asking: past the owner's Allow; refused: the quota said no; inflight: the
\* call runs; answered, recorded: before the first and the second record.
PCs == {"idle", "asking", "refused", "inflight", "answered", "recorded"}

TypeOK ==
    /\ state \in [Circuits -> States]
    /\ fails \in [Circuits -> 0..FailureThreshold]
    /\ openings \in [Circuits -> 0..MaxOpenings]
    /\ until \in [Circuits -> SUBSET {"backoff", "server"}]
    /\ probe \subseteq Circuits
    /\ pc \in [Calls -> PCs]
    /\ owner \in [Calls -> Owners \cup {NoOwner}]
    /\ outcome \in [Calls -> Kinds \X BOOLEAN]
    /\ preOpen \subseteq Calls \X Circuits
    /\ preProbe \subseteq Calls \X Circuits
    /\ probing \subseteq Calls \X Circuits
    /\ serverWait \subseteq Circuits

-----------------------------------------------------------------------------
(* CircuitBreaker.  currentState turns an open circuit whose window passed *)
(* into a half-open one the next time anything looks at it.                *)

currentState(x) == IF state[x] = "open" /\ until[x] = {} THEN "halfopen" ELSE state[x]

Admits(x) == currentState(x) = "closed" \/ (currentState(x) = "halfopen" /\ x \notin probe)

\* Allow admits a call: as the probe when the circuit is half-open.
Allow(x) ==
    /\ Admits(x)
    /\ state' = [state EXCEPT ![x] = currentState(x)]
    /\ probe' = IF currentState(x) = "halfopen" THEN probe \cup {x} ELSE probe
    /\ UNCHANGED <<fails, openings, until, serverWait>>

threshold(x) == IF x = Quota THEN 1 ELSE FailureThreshold

\* Mutant: a circuit that opens keeps its probe.
openLockedWithProbe(x, retryAfter) ==
    /\ state' = [state EXCEPT ![x] = "open"]
    /\ until' = [until EXCEPT ![x] = {"backoff"} \cup (IF retryAfter THEN {"server"} ELSE {})]
    /\ UNCHANGED probe

\* openLocked: the window is the backoff, or the retry time if that is later.
openLocked(x, retryAfter) ==
    /\ state' = [state EXCEPT ![x] = "open"]
    /\ until' = [until EXCEPT ![x] = {"backoff"} \cup (IF retryAfter THEN {"server"} ELSE {})]
    /\ probe' = probe \ {x}

\* A late failure: not counted, but a later retry time extends the window.
extend(x, retryAfter) ==
    /\ state' = [state EXCEPT ![x] = currentState(x)]
    /\ until' = [until EXCEPT ![x] = IF retryAfter THEN @ \cup {"server"} ELSE @]
    /\ UNCHANGED <<fails, openings, probe>>

\* Mutant: every failure while half-open is taken for the probe's.
AnyCallIsTheProbe(x, c) == currentState(x) = "halfopen"

\* The call that fails is the probe: it did not start before it.
IsTheProbe(x, c) == currentState(x) = "halfopen" /\ x \in probe /\ <<c, x>> \notin preProbe

RecordFailureFrom(x, c, retryAfter) ==
    /\ \/ /\ currentState(x) # "closed"
          /\ ~IsTheProbe(x, c)
          /\ extend(x, retryAfter)
       \/ /\ IsTheProbe(x, c)
          /\ openings' = [openings EXCEPT ![x] = IF @ < MaxOpenings THEN @ + 1 ELSE @]
          /\ openLocked(x, retryAfter)
          /\ UNCHANGED fails
       \/ /\ currentState(x) = "closed"
          /\ fails[x] + 1 < threshold(x)
          /\ fails' = [fails EXCEPT ![x] = @ + 1]
          /\ UNCHANGED <<state, openings, until, probe>>
       \/ /\ currentState(x) = "closed"
          /\ fails[x] + 1 >= threshold(x)
          /\ fails' = [fails EXCEPT ![x] = @ + 1]
          /\ openings' = [openings EXCEPT ![x] = 0]
          /\ openLocked(x, retryAfter)
    /\ serverWait' = IF retryAfter /\ state'[x] # "closed" THEN serverWait \cup {x} ELSE serverWait

\* A success of a call that started before the circuit opened says nothing.
RecordSuccessFrom(x, c) ==
    /\ IF currentState(x) # "closed" /\ <<c, x>> \in preOpen
       THEN /\ state' = [state EXCEPT ![x] = currentState(x)]
            /\ UNCHANGED <<fails, openings, probe, serverWait>>
       ELSE /\ state' = [state EXCEPT ![x] = "closed"]
            /\ fails' = [fails EXCEPT ![x] = 0]
            /\ openings' = [openings EXCEPT ![x] = 0]
            /\ probe' = probe \ {x}
            /\ serverWait' = serverWait \ {x}
    /\ UNCHANGED until

\* cancelProbe: whichever call holds the probe.
cancelProbe(x) ==
    /\ probe' = probe \ {x}
    /\ UNCHANGED <<state, fails, openings, until, serverWait>>

-----------------------------------------------------------------------------
(* CircuitRegistry and the provider's call.                                *)

Goto(c, l) == pc' = [pc EXCEPT ![c] = l]

Return(c) ==
    /\ Goto(c, "idle")
    /\ owner' = [owner EXCEPT ![c] = NoOwner]
    /\ outcome' = [outcome EXCEPT ![c] = NoOutcome]

\* Allow, the owner's circuit.  (A refused call changes nothing the next look
\* at the circuit would not.)
AskOwner(c, o) ==
    /\ pc[c] = "idle"
    /\ Allow(o)
    /\ Goto(c, "asking")
    /\ owner' = [owner EXCEPT ![c] = o]
    /\ UNCHANGED outcome

\* Allow, the quota circuit: the call starts.
AskQuota(c) ==
    /\ pc[c] = "asking"
    /\ Allow(Quota)
    /\ Goto(c, "inflight")
    /\ UNCHANGED <<owner, outcome>>

\* Allow, the quota circuit refuses ...
QuotaRefuses(c) ==
    /\ pc[c] = "asking"
    /\ ~Admits(Quota)
    /\ state' = [state EXCEPT ![Quota] = currentState(Quota)]
    /\ Goto(c, "refused")
    /\ UNCHANGED <<fails, openings, until, probe, serverWait, owner, outcome>>

\* ... and the owner's probe slot is given back.
GiveBackProbe(c) ==
    /\ pc[c] = "refused"
    /\ cancelProbe(owner[c])
    /\ Return(c)

\* The call returns: no response, an exhausted quota (told by the headers
\* or, without a retry time, by the JSON body), a 5xx, or anything else.
Respond(c) ==
    /\ pc[c] = "inflight"
    /\ \E kind \in Kinds \ {"none"}, retryAfter \in BOOLEAN :
        /\ retryAfter => kind \in {"quota", "transient"}
        /\ outcome' = [outcome EXCEPT ![c] = <<kind, retryAfter>>]
    /\ Goto(c, "answered")
    /\ UNCHANGED <<breakerVars, owner, serverWait>>

\* The call ends before it was made (no token, a bad request): nothing is
\* recorded and a probe it holds is left to HalfOpenTimeout.
Abandon(c) ==
    /\ pc[c] = "inflight"
    /\ Return(c)
    /\ UNCHANGED <<breakerVars, serverWait>>

\* Record and RecordAPIError, the first circuit they touch ...
RecordFirst(c) ==
    LET kind == outcome[c][1]
        retryAfter == outcome[c][2]
    IN  /\ pc[c] = "answered"
        /\ \/ kind \in {"neterr", "transient"} /\ RecordFailureFrom(owner[c], c, retryAfter)
           \/ kind = "quota" /\ RecordFailureFrom(Quota, c, retryAfter)
           \/ kind = "ok" /\ RecordSuccessFrom(owner[c], c)
        /\ Goto(c, "recorded")
        /\ UNCHANGED <<owner, outcome>>

\* ... and the second.
RecordSecond(c) ==
    LET kind == outcome[c][1]
    IN  /\ pc[c] = "recorded"
        /\ \/ kind = "neterr" /\ cancelProbe(Quota)
           \/ kind = "quota" /\ cancelProbe(owner[c])
           \/ kind \in {"transient", "ok"} /\ RecordSuccessFrom(Quota, c)
        /\ Return(c)

-----------------------------------------------------------------------------
(* Time.                                                                   *)

\* The backoff of x has passed.  A call that x let through while it was closed
\* has started by then.
BackoffEnds(x) ==
    /\ "backoff" \in until[x]
    /\ \A c \in Calls : pc[c] \in {"asking", "refused"} /\ owner[c] = x => <<c, x>> \in probing
    /\ until' = [until EXCEPT ![x] = @ \ {"backoff"}]
    /\ UNCHANGED <<state, fails, openings, probe, serverWait, callVars>>

\* The retry time the server gave x has passed.
ServerWaitEnds(x) ==
    /\ x \in serverWait \/ "server" \in until[x]
    /\ serverWait' = serverWait \ {x}
    /\ until' = [until EXCEPT ![x] = @ \ {"server"}]
    /\ UNCHANGED <<state, fails, openings, probe, callVars>>

\* Mutant: the half-open timeout never lets another caller probe.
ProbeNeverExpires(x) == FALSE /\ UNCHANGED vars

\* HalfOpenTimeout passed since the probe of x was admitted.
ProbeExpires(x) ==
    /\ x \in probe
    /\ \A c \in Calls : <<c, x>> \notin probing
    /\ probe' = probe \ {x}
    /\ UNCHANGED <<state, fails, openings, until, serverWait, callVars>>

\* The calls whose start time lies in the past.
Started == {c \in Calls : pc[c] \in {"inflight", "answered", "recorded"}}

Opens(x)  == state'[x] = "open" /\ currentState(x) # "open"
Probes(x) == x \in probe' \ probe

\* What the start times of the running calls tell, in every step: a call that
\* had started when the circuit opened, or was probed, is older than that.
StartTimes ==
    /\ preOpen' = {p \in Started' \X Circuits : p[1] \in Started /\ (p \in preOpen \/ Opens(p[2]))}
    /\ preProbe' = {p \in Started' \X Circuits : p[1] \in Started /\ (p \in preProbe \/ Probes(p[2]))}
    /\ probing' = {p \in Calls \X Circuits : pc'[p[1]] # "idle" /\ state'[p[2]] = "halfopen"
                      /\ (p \in probing \/ (Probes(p[2]) /\ pc'[p[1]] # pc[p[1]]))}

-----------------------------------------------------------------------------
Init ==
    /\ state = [x \in Circuits |-> "closed"]
    /\ fails = [x \in Circuits |-> 0]
    /\ openings = [x \in Circuits |-> 0]
    /\ until = [x \in Circuits |-> {}]
    /\ probe = {}
    /\ pc = [c \in Calls |-> "idle"]
    /\ owner = [c \in Calls |-> NoOwner]
    /\ outcome = [c \in Calls |-> NoOutcome]
    /\ preOpen = {} /\ preProbe = {} /\ probing = {} /\ serverWait = {}

CallStep(c) ==
    \/ \E o \in Owners : AskOwner(c, o)
    \/ AskQuota(c) \/ QuotaRefuses(c) \/ GiveBackProbe(c)
    \/ Respond(c) \/ Abandon(c) \/ RecordFirst(c) \/ RecordSecond(c)

TimeStep(x) == BackoffEnds(x) \/ ServerWaitEnds(x) \/ ProbeExpires(x)

Next ==
    /\ (\E c \in Calls : CallStep(c)) \/ (\E x \in Circuits : TimeStep(x))
    /\ StartTimes

Spec == Init /\ [][Next]_vars

\* Calls finish (the HTTP client has a timeout) and time passes.  Nobody has to
\* make another call.
Fairness ==
    /\ \A c \in Calls :
        WF_vars((AskQuota(c) \/ QuotaRefuses(c) \/ GiveBackProbe(c) \/ Respond(c)
                 \/ RecordFirst(c) \/ RecordSecond(c)) /\ StartTimes)
    /\ \A x \in Circuits :
        /\ WF_vars(BackoffEnds(x) /\ StartTimes)
        /\ WF_vars(ServerWaitEnds(x) /\ StartTimes)
        /\ WF_vars(ProbeExpires(x) /\ StartTimes)

FairSpec == Spec /\ Fairness

-----------------------------------------------------------------------------
(* Properties.                                                             *)

\* The breaker never runs past its threshold: while a circuit lets every call
\* through, fewer failures in a row are counted than open it, whatever late
\* failures and successes of other calls come in.
BelowThreshold == \A x \in Circuits : state[x] = "closed" => fails[x] < threshold(x)

\* #1476: the backoff grows per failed probe.  A burst of calls that were in
\* flight when the circuit opened and fail late never pushes it up.
BackoffGrowsOnlyByProbes ==
    [][\A x \in Circuits : openings'[x] > openings[x] =>
        \E c \in Calls : pc[c] = "answered" /\ pc'[c] = "recorded" /\ <<c, x>> \in probing]_vars

\* A circuit that opened lets a call through again, even when the call that
\* took the probe never reports back.
NoWedge == \A x \in Circuits : state[x] # "closed" ~> Admits(x)

\* "In half-open only one caller at a time is let through as the probe."
OneProbeAtATime == \A x \in Circuits : Cardinality({c \in Started : <<c, x>> \in probing}) <= 1

\* "retryAfter, when known, is the earliest time the circuit may let a call
\* through": no probe goes out before the retry time the circuit was told.
RetryAfterHonoured == [][\A x \in Circuits : Probes(x) => x \notin serverWait]_vars

(* Why only a probe's failure is counted, as an inductive invariant.       *)

\* A circuit has a probe only while it is half-open.
ProbeMeansHalfOpen ==
    /\ \A x \in probe : state[x] = "halfopen"
    /\ \A p \in probing : state[p[2]] = "halfopen"

\* A call that passed its owner's circuit while it was closed, and has not
\* started, keeps the circuit from becoming half-open.
AskingKeepsBackoff ==
    \A c \in Calls :
        pc[c] \in {"asking", "refused"} /\ <<c, owner[c]>> \notin probing =>
            state[owner[c]] = "closed" \/ (state[owner[c]] = "open" /\ "backoff" \in until[owner[c]])

\* A running call that is no probe is older than any probe of its circuits.
OnlyProbesAreYoung ==
    \A c \in Started : \A x \in {owner[c], Quota} :
        x \in probe /\ <<c, x>> \notin preProbe => <<c, x>> \in probing

CallHasOwner == \A c \in Calls : pc[c] # "idle" => owner[c] \in Owners

ProbeInv ==
    /\ ProbeMeansHalfOpen
    /\ AskingKeepsBackoff
    /\ OnlyProbesAreYoung
    /\ CallHasOwner

\* A closed circuit has counted fewer failures than open it (RecordFailureFrom), only a half-open one
\* has a probe (Allow, openLocked), and a running call that is not the probe of a circuit is older
\* than its probe (IsTheProbe).  The variables have their types.
RegistrySafe == TypeOK /\ BelowThreshold /\ ProbeInv
=============================================================================
