----------------------------- MODULE PartsProofs -----------------------------
(***************************************************************************)
(* Proofs about the parts in Parts, for every value of their constants:    *)
(* the turns on a branch (BranchQueue, the module Parts extends), the      *)
(* automatic rollback (AutoRollback), the health check (HealthBake), the   *)
(* change ticket (ChangeRequest), the work queue (FairQueue) and the hooks *)
(* before a step (HookRun).                                                *)
(***************************************************************************)
EXTENDS Parts, FiniteSetTheorems, WellFoundedInduction, TLAPS

-----------------------------------------------------------------------------
(* A module's instance has its own copy of the operators of FiniteSets. *)

LEMMA RbCardinality == \A S : Rollback!Cardinality(S) = Cardinality(S)
BY DEF Rollback!Cardinality, Cardinality

LEMMA CrCardinality == \A S : Change!Cardinality(S) = Cardinality(S)
BY DEF Change!Cardinality, Cardinality

LEMMA FqCardinality == \A S : Fair!Cardinality(S) = Cardinality(S) /\ (Fair!IsFiniteSet(S) <=> IsFiniteSet(S))
<1>1. \A S : Fair!IsFiniteSet(S) <=> IsFiniteSet(S)
  BY DEF Fair!IsFiniteSet, IsFiniteSet
<1>2. \A S : Fair!Cardinality(S) = Cardinality(S)
  BY DEF Fair!Cardinality, Cardinality
<1> QED BY <1>1, <1>2
-----------------------------------------------------------------------------
(* A behaviour is one part's: what it starts with and does. *)

LEMMA PartStarts ==
    ASSUME PartsInit
    PROVE  /\ part = "bake" => Bake!Init
           /\ part = "rollback" => Rollback!Init
           /\ part = "hooks" => Hook!Init
           /\ part = "queue" => Fair!Init
           /\ part = "change" => Change!Init
BY DEF PartsInit

LEMMA PartSteps ==
    ASSUME [PartsNext]_partVars
    PROVE  /\ part' = part
           /\ part = "bake" => [Bake!Next]_bakeVars
           /\ part = "rollback" => [Rollback!Next]_rollbackVars
           /\ part = "hooks" => [Hook!Next]_hookVars
           /\ part = "queue" => [Fair!Next]_queueVars
           /\ part = "change" => [Change!Next]_changeVars
BY DEF PartsNext, partVars

(* BranchQueue: helpers. *)

\* The smaller of two numbers is a number.
LEMMA MinOfTwo == ASSUME NEW a \in Nat, NEW b \in Nat PROVE Min({a, b}) \in Nat
<1>1. \E x \in {a, b} : \A y \in {a, b} : x <= y
  OBVIOUS
<1> QED BY <1>1 DEF Min

\* A sweep keeps waiters of the line as they are.
LEMMA KeptInLine == ASSUME TypeOK, NEW t \in Nat PROVE Kept(t) \subseteq line
BY DEF Kept

LEMMA RestrictType ==
    ASSUME TypeOK, NEW ws, ws \subseteq line
    PROVE  /\ DOMAIN Restrict(waiters, ws) \subseteq Steps
           /\ Restrict(waiters, ws) \in [DOMAIN Restrict(waiters, ws) -> [first : Nat, until : Nat]]
BY DEF Restrict, TypeOK, line

-----------------------------------------------------------------------------
(* TypeOK and HolderWorks are inductive together. *)

LEMMA InitTurn == ASSUME Init PROVE TurnInv
<1>1. waiters = <<>> /\ DOMAIN waiters = {}
  BY DEF Init
<1>2. waiters \in [line -> [first : Nat, until : Nat]]
  BY <1>1 DEF line
<1> QED BY <1>1, <1>2, QueueAssumption DEF Init, TurnInv, TypeOK, HolderWorks, NoStep, Places, line

\* A step that is refused enters the line with a time and a place of its own.
LEMMA RefuseType ==
    ASSUME TypeOK, NEW s \in Steps, RefuseTurn(s)
    PROVE  /\ line' \subseteq Steps
           /\ waiters' \in [line' -> [first : Nat, until : Nat]]
<1> DEFINE kept == Kept(asked[s])
           mine == IF s \in kept THEN waiters[s].first ELSE asked[s]
           ahead == {o \in kept \ {s} : Older(waiters[o].first, o, mine, s)}
           due == asked[s] + Min({1 + Cardinality(ahead), MaxWait})
<1>1. asked[s] \in Nat /\ kept \subseteq line
  BY DEF TypeOK, Kept
<1>2. mine \in Nat
  BY <1>1 DEF TypeOK
<1>3. Cardinality(ahead) \in Nat
  <2>1. ahead \subseteq Steps
    BY <1>1 DEF TypeOK
  <2>2. IsFiniteSet(ahead)
    BY <2>1, FS_Subset, QueueAssumption
  <2> QED BY <2>2, FS_CardinalityType
<1>4. due + Grace \in Nat
  <2>1. Min({1 + Cardinality(ahead), MaxWait}) \in Nat
    BY <1>3, MinOfTwo, QueueAssumption
  <2> QED BY <1>1, <2>1, QueueAssumption
<1>5. waiters' = [w \in kept \cup {s} |->
                     IF w = s THEN [first |-> mine, until |-> due + Grace] ELSE waiters[w]]
  BY DEF RefuseTurn
<1> HIDE DEF due, mine, ahead
<1>6. \A w \in kept : waiters[w] \in [first : Nat, until : Nat]
  BY <1>1 DEF TypeOK
<1>7. line' = kept \cup {s}
  BY <1>5 DEF line
<1> QED BY <1>1, <1>2, <1>4, <1>5, <1>6, <1>7 DEF TypeOK

LEMMA NextTurn == ASSUME TurnInv, [Next]_vars PROVE TurnInv'
<1> USE DEF NoStep
<1>0. TypeOK /\ HolderWorks /\ NoStep \notin Steps
  BY QueueAssumption DEF TurnInv
<1>1. ASSUME NEW s \in Steps, ReadClock(s) PROVE TurnInv'
  BY <1>0, <1>1 DEF TurnInv, TypeOK, HolderWorks, ReadClock, Places, line
<1>2. ASSUME NEW s \in Steps, TakeTurn(s) PROVE TurnInv'
  <2>1. asked[s] \in Nat /\ Kept(asked[s]) \ {s} \subseteq line
    BY <1>0, KeptInLine DEF TypeOK
  <2>2. /\ line' \subseteq Steps
        /\ waiters' \in [line' -> [first : Nat, until : Nat]]
    BY <1>0, <1>2, <2>1, RestrictType DEF TakeTurn, line
  <2>3. TypeOK'
    BY <1>0, <1>2, <2>2 DEF TypeOK, TakeTurn, Places
  <2>4. HolderWorks'
    BY <1>0, <1>2 DEF TypeOK, HolderWorks, TakeTurn
  <2> QED BY <2>3, <2>4 DEF TurnInv
<1>3. ASSUME NEW s \in Steps, RefuseTurn(s) PROVE TurnInv'
  <2>1. /\ line' \subseteq Steps
        /\ waiters' \in [line' -> [first : Nat, until : Nat]]
    BY <1>0, <1>3, RefuseType
  <2>2. TypeOK'
    BY <1>0, <1>3, <2>1 DEF TypeOK, RefuseTurn, Places
  <2>3. HolderWorks'
    BY <1>0, <1>3 DEF TypeOK, HolderWorks, RefuseTurn
  <2> QED BY <2>2, <2>3 DEF TurnInv
<1>4. CASE SweepElsewhere
  <2>1. Kept(now) \subseteq line
    BY <1>0, KeptInLine DEF TypeOK
  <2>2. /\ line' \subseteq Steps
        /\ waiters' \in [line' -> [first : Nat, until : Nat]]
    BY <1>0, <1>4, <2>1, RestrictType DEF SweepElsewhere, line
  <2> QED BY <1>0, <1>4, <2>2 DEF TurnInv, TypeOK, HolderWorks, SweepElsewhere
<1>5. ASSUME NEW s \in Steps, Ends(s) PROVE TurnInv'
  BY <1>0, <1>5
     DEF TurnInv, TypeOK, HolderWorks, Ends, PushLanded, EndUnpushed, EndPushed, release, Places, line
<1>6. ASSUME NEW s \in Steps, Depart(s) PROVE TurnInv'
  BY <1>0, <1>6 DEF TurnInv, TypeOK, HolderWorks, Depart, Places, line
<1>7. CASE Tick
  BY <1>0, <1>7 DEF TurnInv, TypeOK, HolderWorks, Tick, line
<1>8. CASE Restart
  <2>1. waiters' = <<>> /\ DOMAIN waiters' = {}
    BY <1>8 DEF Restart
  <2>2. waiters' \in [line' -> [first : Nat, until : Nat]]
    BY <2>1 DEF line
  <2>3. TypeOK'
    BY <1>0, <1>8, <2>1, <2>2 DEF TypeOK, Restart, Places, line
  <2> QED BY <1>0, <1>8, <2>3 DEF TurnInv, TypeOK, HolderWorks, Restart
<1>9. CASE UNCHANGED vars
  BY <1>0, <1>9 DEF TurnInv, TypeOK, HolderWorks, vars, line
<1> QED BY <1>1, <1>2, <1>3, <1>4, <1>5, <1>6, <1>7, <1>8, <1>9 DEF Next, Asks

\* The turn on a branch belongs to the step that does git work on it and to nobody
\* else, for any number of steps, sweeps and restarts (tryTurn, release).
THEOREM TurnCorrect == Spec => []TurnInv
<1>1. Init => TurnInv BY InitTurn
<1>2. TurnInv /\ [Next]_vars => TurnInv' BY NextTurn
<1> QED BY <1>1, <1>2, PTL DEF Spec

-----------------------------------------------------------------------------
(* The refinement. *)

writing == {s \in Steps : pc[s] = "working"}

\* Who works is the holder.
LEMMA WritersAreHolder ==
    ASSUME TurnInv
    PROVE  writing = IF holder = NoStep THEN {} ELSE {holder}
BY QueueAssumption DEF TurnInv, TypeOK, HolderWorks, NoStep, writing

LEMMA StepOfTurns == ASSUME TurnInv, [Next]_vars PROVE [T!Next]_(T!vars)
<1> USE DEF NoStep
<1>0. TypeOK /\ HolderWorks /\ NoStep \notin Steps
  BY QueueAssumption DEF TurnInv
<1>1. writing = IF holder = NoStep THEN {} ELSE {holder}
  BY WritersAreHolder
<1>2. TurnInv'
  BY NextTurn
<1>3. writing' = IF holder' = NoStep THEN {} ELSE {holder'}
  BY <1>2, QueueAssumption DEF TurnInv, TypeOK, HolderWorks, writing
<1>4. \/ holder' = holder
      \/ holder = NoStep /\ holder' \in Steps
      \/ holder \in Steps /\ holder' = NoStep
  <2>1. ASSUME NEW s \in Steps, Asks(s) PROVE <1>4!1 \/ <1>4!2
    BY <1>0, <2>1 DEF Asks, ReadClock, TakeTurn, RefuseTurn
  <2>2. ASSUME NEW s \in Steps, Ends(s) PROVE <1>4
    BY <1>0, <2>2 DEF Ends, PushLanded, EndUnpushed, EndPushed, release, TypeOK
  <2>3. ASSUME NEW s \in Steps, Depart(s) PROVE holder' = holder
    BY <2>3 DEF Depart
  <2>4. CASE SweepElsewhere \/ Tick \/ UNCHANGED vars
    BY <2>4 DEF SweepElsewhere, Tick, vars
  <2>5. CASE Restart
    BY <1>0, <2>5 DEF Restart, TypeOK
  <2> QED BY <2>1, <2>2, <2>3, <2>4, <2>5 DEF Next
<1>5. CASE holder' = holder
  BY <1>1, <1>3, <1>5 DEF T!vars, writing
<1>6. CASE holder = NoStep /\ holder' \in Steps
  <2>1. writing = {} /\ writing' = {holder'}
    BY <1>0, <1>1, <1>3, <1>6
  <2> QED BY <1>6, <2>1 DEF T!Next, T!Enter, writing
<1>7. CASE holder \in Steps /\ holder' = NoStep
  <2>1. writing = {holder} /\ writing' = {}
    BY <1>0, <1>1, <1>3, <1>7
  <2> QED BY <1>7, <2>1 DEF T!Next, T!Exit, writing
<1> QED BY <1>4, <1>5, <1>6, <1>7

\* The branch queue implements Turns: of any number of promotions of one controller
\* that push to one branch, one at a time does git work on it.
THEOREM Refinement == Spec => OneWriterAtATime
<1>1. Init => T!Init
  BY DEF Init, T!Init
<1>2. TurnInv /\ [Next]_vars => [T!Next]_(T!vars)
  BY StepOfTurns
<1> QED BY <1>1, <1>2, TurnCorrect, PTL DEF Spec, OneWriterAtATime, T!Spec

-----------------------------------------------------------------------------
(* The order of the line. *)

\* A set of numbers has a least one.
LEMMA Least ==
    ASSUME NEW S, S \subseteq Nat, S # {}
    PROVE  \E m \in S : \A y \in S : m <= y
<1> DEFINE R == OpToRel(<, Nat)
<1>1. IsWellFoundedOn(R, Nat)
  BY NatLessThanWellFounded
<1>2. \A y, z \in Nat : <<y, z>> \in R <=> y < z
  BY DEF OpToRel
<1> HIDE DEF R
<1>3. PICK m \in S : \A y \in S : ~(<<y, m>> \in R)
  BY <1>1, WFMin
<1>4. ASSUME NEW y \in S PROVE m <= y
  <2>1. y \in Nat /\ m \in Nat /\ ~(<<y, m>> \in R)
    BY <1>3
  <2>2. ~(y < m)
    BY <1>2, <2>1
  <2> QED BY <2>1, <2>2
<1> QED BY <1>4

\* A line that is not empty has a head, and it is before every other waiter: the names
\* decide among the steps that were refused at one time.
LEMMA HeadIsFirst ==
    ASSUME TypeOK, NEW ws, ws \subseteq line, ws # {}
    PROVE  /\ head(ws) \in ws
           /\ \A w \in ws \ {head(ws)} : Older(waiters[head(ws)].first, head(ws), waiters[w].first, w)
<1>1. \A w \in ws : w \in Nat /\ waiters[w].first \in Nat
  BY QueueAssumption DEF TypeOK
<1> DEFINE moments == {waiters[w].first : w \in ws}
<1>2. PICK t \in moments : \A y \in moments : t <= y
  <2>1. moments \subseteq Nat /\ moments # {}
    BY <1>1
  <2> HIDE DEF moments
  <2> QED BY <2>1, Least
<1> DEFINE names == {w \in ws : waiters[w].first = t}
<1>3. PICK k \in names : \A y \in names : k <= y
  <2>1. names \subseteq Nat /\ names # {}
    BY <1>1, <1>2
  <2> HIDE DEF names
  <2> QED BY <2>1, Least
<1>4. ASSUME NEW w \in ws \ {k} PROVE Older(waiters[k].first, k, waiters[w].first, w)
  <2>1. waiters[k].first = t /\ t <= waiters[w].first /\ t \in Nat
    BY <1>1, <1>2, <1>3
  <2>2. waiters[w].first = t => k < w
    BY <1>1, <1>3
  <2> QED BY <1>1, <2>1, <2>2 DEF Older
<1>5. k \in ws
  BY <1>3
<1> HIDE DEF names, moments
<1> QED BY <1>4, <1>5 DEF head

\* The time a step read is not in the future.
ReadInThePast == \A s \in Steps : asked[s] <= now

LEMMA ReadStep == ASSUME TypeOK, ReadInThePast, [Next]_vars PROVE ReadInThePast'
<1> USE DEF TypeOK, ReadInThePast
<1>1. ASSUME NEW s \in Steps, Asks(s) PROVE ReadInThePast'
  BY <1>1 DEF Asks, ReadClock, TakeTurn, RefuseTurn
<1>2. ASSUME NEW s \in Steps, Ends(s) \/ Depart(s) PROVE ReadInThePast'
  BY <1>2 DEF Ends, PushLanded, EndUnpushed, EndPushed, Depart
<1>3. CASE SweepElsewhere \/ Tick \/ Restart \/ UNCHANGED vars
  BY <1>3 DEF SweepElsewhere, Tick, Restart, vars
<1> QED BY <1>1, <1>2, <1>3 DEF Next

\* Who takes the turn is the head of a line in which everyone whose place is still kept is.
LEMMA TakesInOrder ==
    ASSUME TypeOK, ReadInThePast, Next PROVE OvertakesNobody
<1> SUFFICES ASSUME NEW s \in Steps, NEW w \in line, pc[s] = "asking", pc'[s] = "working",
                    w # s, now <= waiters[w].until
             PROVE  waiters[w].first >= (IF s \in line THEN waiters[s].first ELSE asked[s])
  BY DEF OvertakesNobody
<1>1. TakeTurn(s)
  <2>1. ASSUME NEW r \in Steps, Asks(r) PROVE TakeTurn(s)
    BY <2>1 DEF Asks, ReadClock, TakeTurn, RefuseTurn, TypeOK
  <2>2. ASSUME NEW r \in Steps, Ends(r) \/ Depart(r) PROVE FALSE
    BY <2>2 DEF Ends, PushLanded, EndUnpushed, EndPushed, Depart, TypeOK
  <2>3. ~(SweepElsewhere \/ Tick \/ Restart)
    BY DEF SweepElsewhere, Tick, Restart
  <2> QED BY <2>1, <2>2, <2>3 DEF Next
<1> DEFINE kept == Kept(asked[s])
<1>2. asked[s] <= waiters[w].until
  BY DEF TypeOK, ReadInThePast
<1>3. w \in kept /\ kept \subseteq line /\ 0 \notin line
  BY <1>2, QueueAssumption DEF Kept, TypeOK
<1>4. head(kept) = s
  BY <1>1, <1>3, HeadIsFirst DEF TakeTurn, NoStep
<1>5. s \in line /\ Older(waiters[s].first, s, waiters[w].first, w)
  BY <1>3, <1>4, HeadIsFirst
<1> QED BY <1>5 DEF Older, TypeOK

\* Nobody is overtaken who was refused earlier and whose place is still kept, for any number of
\* steps that read their clocks before they get the queue's mutex (headLocked, sweepLocked).
THEOREM ServedInOrder == Spec => RefusedFirstServedFirst
<1>1. Init => ReadInThePast
  BY DEF Init, ReadInThePast
<1>2. TurnInv /\ ReadInThePast /\ [Next]_vars => ReadInThePast'
  BY ReadStep DEF TurnInv
<1>3. TurnInv /\ ReadInThePast /\ [Next]_vars => [OvertakesNobody]_vars
  BY TakesInOrder DEF TurnInv
<1> QED BY <1>1, <1>2, <1>3, TurnCorrect, PTL DEF Spec, RefusedFirstServedFirst
-----------------------------------------------------------------------------
(* AutoRollback: who the actors are and which names there are. *)

LEMMA RbActors ==
    /\ \A a \in Rollback!Actors : a[1] \in Rollback!Sources /\ Rollback!EnvOf(a) \in Envs
    /\ \A a \in Rollback!AlarmSteps : a \in Rollback!Actors /\ a[1] = "alarm" /\ a \notin Rollback!Policies
    /\ \A a \in Rollback!Policies : a \in Rollback!Actors /\ a[1] = "policy" /\ a \notin Rollback!AlarmSteps
BY DEF Rollback!Actors, Rollback!AlarmSteps, Rollback!Policies, Rollback!Sources, Rollback!EnvOf

LEMMA RbNames ==
    /\ \A src \in Rollback!Sources : Rollback!Plain(src) \in Rollback!Names /\ Rollback!Plain(src)[2] = "plain"
    /\ \A src \in Rollback!Sources, e \in Envs :
         Rollback!Own(src, e) \in Rollback!Names /\ Rollback!Own(src, e)[2] = e /\ Rollback!Own(src, e) # Rollback!Plain(src)
    /\ \A n \in Rollback!Names : n[1] \in Rollback!Sources /\ n = <<n[1], n[2]>> /\ n[2] \in {"plain"} \cup Envs
    /\ Rollback!None \notin Rollback!Names
BY PartsAssumption DEF Rollback!ConstantsOK, Rollback!Plain, Rollback!Own, Rollback!Names, Rollback!Sources, Rollback!None

\* An environment is none of the marks.
LEMMA RbEnvs == \A e \in Envs : e # "plain" /\ e # "free" /\ e # Rollback!Someone
BY PartsAssumption DEF Rollback!ConstantsOK, Rollback!Someone

\* The name an actor picks: the plain one, or its own when the plain one is not free for it.
LEMMA RbPicks ==
    ASSUME NEW copy, NEW a \in Rollback!Actors, NEW n, n = Rollback!AutoRollbackNameIn(copy, a)
    PROVE  \/ n = Rollback!None
           \/ n = Rollback!Plain(a[1])
           \/ n = Rollback!Own(a[1], Rollback!EnvOf(a)) /\ copy[Rollback!Plain(a[1])] \notin {"free", Rollback!EnvOf(a)}
BY DEF Rollback!AutoRollbackNameIn, Rollback!rollbackNameFree

-----------------------------------------------------------------------------
(* The types. *)

LEMMA RbIdle == Rollback!Idle.at = "idle"
BY DEF Rollback!Idle

LEMMA RbInitType == ASSUME Rollback!Init PROVE Rollback!TypeOK
<1>1. situation \in Rollback!Setting
  BY PartsAssumption DEF Rollback!Init, Rollback!ConstantsOK
<1>2. situation.changes \in Nat
  BY <1>1 DEF Rollback!Setting
<1>3. changes \in 0 .. situation.changes
  BY <1>2 DEF Rollback!Init
<1>4. /\ bundles \in [Rollback!Names -> Rollback!Owners] /\ bcache \in [Rollback!Names -> Rollback!Owners]
  BY DEF Rollback!Init, Rollback!Owners
<1>5. steps \in [Rollback!AlarmSteps -> [st : {"checking", "Verified", "RollingBack", "AbortedByAlarm"},
                                name : Rollback!Names \cup {Rollback!None}]]
  BY DEF Rollback!Init
<1>6. pol \in [Rollback!Policies -> Rollback!PolicyOf] /\ pcache \in [Rollback!Policies -> Rollback!PolicyOf]
  BY DEF Rollback!Init, Rollback!PolicyOf
<1>7. jobs \in [Rollback!Actors -> {Rollback!Idle} \cup
                 [at : {"find", "name", "create", "taken", "created", "refused"},
                  name : Rollback!Names \cup {Rollback!None}]]
  BY DEF Rollback!Init
<1> QED BY <1>3, <1>4, <1>5, <1>6, <1>7 DEF Rollback!Init, Rollback!TypeOK

\* A job that is replaced by another job.
LEMMA RbJobType ==
    ASSUME Rollback!TypeOK, NEW a, NEW j \in {Rollback!Idle} \cup
               [at : {"find", "name", "create", "taken", "created", "refused"},
                name : Rollback!Names \cup {Rollback!None}],
           jobs' = [jobs EXCEPT ![a] = j]
    PROVE  jobs' \in [Rollback!Actors -> {Rollback!Idle} \cup
                       [at : {"find", "name", "create", "taken", "created", "refused"},
                        name : Rollback!Names \cup {Rollback!None}]]
BY DEF Rollback!TypeOK

\* A job that is somewhere has a name.
LEMMA RbHasName ==
    ASSUME Rollback!TypeOK, NEW a \in Rollback!Actors, jobs[a].at # "idle"
    PROVE  /\ jobs[a] \in [at : {"find", "name", "create", "taken", "created", "refused"},
                           name : Rollback!Names \cup {Rollback!None}]
           /\ jobs[a].name \in Rollback!Names \cup {Rollback!None}
BY RbIdle DEF Rollback!TypeOK

LEMMA RbAt ==
    ASSUME NEW pc1 \in {"find", "name", "create", "taken", "created", "refused"},
           NEW n \in Rollback!Names \cup {Rollback!None}
    PROVE  /\ Rollback!At(pc1, n) \in {Rollback!Idle} \cup
               [at : {"find", "name", "create", "taken", "created", "refused"},
                name : Rollback!Names \cup {Rollback!None}]
           /\ Rollback!At(pc1, n).at = pc1 /\ Rollback!At(pc1, n).name = n
BY DEF Rollback!At

LEMMA RbTypeStep == ASSUME Rollback!TypeOK, Rollback!Next PROVE Rollback!TypeOK'
<1> USE DEF Rollback!TypeOK
<1>1. ASSUME NEW a \in Rollback!AlarmSteps, Rollback!StepAlarms(a) PROVE Rollback!TypeOK'
  BY <1>1, RbAt, RbJobType DEF Rollback!StepAlarms
<1>2. ASSUME NEW a \in Rollback!AlarmSteps, Rollback!StepVerifies(a) PROVE Rollback!TypeOK'
  BY <1>2 DEF Rollback!StepVerifies
<1>3. ASSUME NEW p \in Rollback!Policies, Rollback!EvaluatePolicy(p) PROVE Rollback!TypeOK'
  <2>1. CASE UNCHANGED <<pol, jobs>>
    BY <1>3, <2>1 DEF Rollback!EvaluatePolicy
  <2>2. CASE ~UNCHANGED <<pol, jobs>>
    <3> DEFINE t == Rollback!Triggered(p)
    <3>1. t \in BOOLEAN
      BY DEF Rollback!Triggered, Rollback!Failing
    <3>4. /\ pol' = [pol EXCEPT ![p] =
                      [should  |-> IF pcache[p].should # t THEN t ELSE pol[p].should,
                       name    |-> pol[p].name,
                       refused |-> IF pcache[p].refused /\ ~t THEN FALSE ELSE pol[p].refused]]
          /\ jobs' = [jobs EXCEPT ![p] = IF pol'[p].should THEN Rollback!At("find", Rollback!None) ELSE Rollback!Idle]
      BY <1>3, <2>2 DEF Rollback!EvaluatePolicy
    <3> HIDE DEF t
    <3>2. pol' \in [Rollback!Policies -> Rollback!PolicyOf]
      BY <3>1, <3>4 DEF Rollback!PolicyOf
    <3>3. jobs' \in [Rollback!Actors -> {Rollback!Idle} \cup
                       [at : {"find", "name", "create", "taken", "created", "refused"},
                        name : Rollback!Names \cup {Rollback!None}]]
      BY <3>4, RbAt, RbJobType
    <3> QED BY <1>3, <3>2, <3>3 DEF Rollback!EvaluatePolicy
  <2> QED BY <2>1, <2>2
<1>4. ASSUME NEW p \in Rollback!Policies, Rollback!SyncPolicy(p) PROVE Rollback!TypeOK'
  BY <1>4 DEF Rollback!SyncPolicy
<1>5. ASSUME NEW a \in Rollback!Actors, Rollback!Find(a) PROVE Rollback!TypeOK'
  <2>1. PICK n \in Rollback!Names \cup {Rollback!None}, pc1 \in {"created", "name"} :
           jobs' = [jobs EXCEPT ![a] = Rollback!At(pc1, n)]
    BY <1>5 DEF Rollback!Find, Rollback!FindRollback
  <2>2. jobs' \in [Rollback!Actors -> {Rollback!Idle} \cup
                       [at : {"find", "name", "create", "taken", "created", "refused"},
                        name : Rollback!Names \cup {Rollback!None}]]
    BY <2>1, RbAt, RbJobType
  <2> QED BY <1>5, <2>2 DEF Rollback!Find
<1>6. ASSUME NEW a \in Rollback!Actors, Rollback!NameAndPlan(a) PROVE Rollback!TypeOK'
  <2> DEFINE n == Rollback!AutoRollbackNameIn(bcache, a)
  <2>1. n \in Rollback!Names \cup {Rollback!None}
    <3>1. n = Rollback!None \/ n = Rollback!Plain(a[1]) \/ n = Rollback!Own(a[1], Rollback!EnvOf(a))
      BY RbPicks
    <3> QED BY <3>1, RbActors, RbNames
  <2>2. PICK m \in Rollback!Names \cup {Rollback!None}, pc1 \in {"create", "refused"} :
           jobs' = [jobs EXCEPT ![a] = Rollback!At(pc1, m)]
    BY <1>6, <2>1 DEF Rollback!NameAndPlan
  <2>3. jobs' \in [Rollback!Actors -> {Rollback!Idle} \cup
                       [at : {"find", "name", "create", "taken", "created", "refused"},
                        name : Rollback!Names \cup {Rollback!None}]]
    BY <2>2, RbAt, RbJobType
  <2> QED BY <1>6, <2>3 DEF Rollback!NameAndPlan
<1>7. ASSUME NEW a \in Rollback!Actors, Rollback!Create(a) PROVE Rollback!TypeOK'
  <2>1. jobs[a].name \in Rollback!Names \cup {Rollback!None} /\ Rollback!EnvOf(a) \in Rollback!Owners
    BY <1>7, RbHasName, RbActors DEF Rollback!Create, Rollback!Owners
  <2>2. PICK pc1 \in {"created", "taken"} : jobs' = [jobs EXCEPT ![a] = Rollback!At(pc1, jobs[a].name)]
    BY <1>7 DEF Rollback!Create
  <2>3. jobs' \in [Rollback!Actors -> {Rollback!Idle} \cup
                       [at : {"find", "name", "create", "taken", "created", "refused"},
                        name : Rollback!Names \cup {Rollback!None}]]
    BY <2>1, <2>2, RbAt, RbJobType
  <2>4. bundles' \in [Rollback!Names -> Rollback!Owners]
    BY <1>7, <2>1 DEF Rollback!Create
  <2> QED BY <1>7, <2>3, <2>4 DEF Rollback!Create
<1>8. ASSUME NEW a \in Rollback!Actors, Rollback!RollbackTaken(a) PROVE Rollback!TypeOK'
  <2>1. jobs[a].name \in Rollback!Names \cup {Rollback!None}
    BY <1>8, RbHasName DEF Rollback!RollbackTaken
  <2>2. PICK j \in {Rollback!Idle, Rollback!At("created", jobs[a].name)} : jobs' = [jobs EXCEPT ![a] = j]
    BY <1>8 DEF Rollback!RollbackTaken, Rollback!Again
  <2>3. jobs' \in [Rollback!Actors -> {Rollback!Idle} \cup
                       [at : {"find", "name", "create", "taken", "created", "refused"},
                        name : Rollback!Names \cup {Rollback!None}]]
    BY <2>1, <2>2, RbAt, RbJobType
  <2> QED BY <1>8, <2>3 DEF Rollback!RollbackTaken, Rollback!Again
<1>9. ASSUME NEW a \in Rollback!Actors, Rollback!RecordStep(a) PROVE Rollback!TypeOK'
  <2>1. jobs[a].name \in Rollback!Names \cup {Rollback!None}
    BY <1>9, RbHasName DEF Rollback!RecordStep
  <2>2. jobs' \in [Rollback!Actors -> {Rollback!Idle} \cup
                       [at : {"find", "name", "create", "taken", "created", "refused"},
                        name : Rollback!Names \cup {Rollback!None}]]
    BY <1>9, RbJobType DEF Rollback!RecordStep
  <2> QED BY <1>9, <2>1, <2>2 DEF Rollback!RecordStep
<1>10. ASSUME NEW a \in Rollback!Actors, Rollback!RecordPolicy(a) PROVE Rollback!TypeOK'
  <2>1. jobs[a].name \in Rollback!Names \cup {Rollback!None}
    BY <1>10, RbHasName DEF Rollback!RecordPolicy
  <2>2. jobs' \in [Rollback!Actors -> {Rollback!Idle} \cup
                       [at : {"find", "name", "create", "taken", "created", "refused"},
                        name : Rollback!Names \cup {Rollback!None}]]
    BY <1>10, RbJobType DEF Rollback!RecordPolicy
  <2>3. pol' \in [Rollback!Policies -> Rollback!PolicyOf]
    <3> DEFINE b == jobs[a].at = "refused"
    <3>1. b \in BOOLEAN
      OBVIOUS
    <3>2. pol' = [pol EXCEPT ![a] =
                    [should  |-> pol[a].should,
                     name    |-> IF jobs[a].at = "created" THEN jobs[a].name ELSE pol[a].name,
                     refused |-> b]]
      BY <1>10 DEF Rollback!RecordPolicy
    <3> HIDE DEF b
    <3> QED BY <2>1, <3>1, <3>2 DEF Rollback!PolicyOf
  <2> QED BY <1>10, <2>2, <2>3 DEF Rollback!RecordPolicy
<1>11. ASSUME NEW a \in Rollback!Actors, Rollback!RecordFails(a) PROVE Rollback!TypeOK'
  <2>1. jobs' \in [Rollback!Actors -> {Rollback!Idle} \cup
                       [at : {"find", "name", "create", "taken", "created", "refused"},
                        name : Rollback!Names \cup {Rollback!None}]]
    BY <1>11, RbJobType DEF Rollback!RecordFails, Rollback!Again
  <2> QED BY <1>11, <2>1 DEF Rollback!RecordFails, Rollback!Again
<1>12. ASSUME NEW n \in Rollback!Names, Rollback!SyncBundle(n) PROVE Rollback!TypeOK'
  BY <1>12 DEF Rollback!SyncBundle
<1>13. CASE Rollback!FailuresChange
  <2>1. situation \in Rollback!Setting
    BY PartsAssumption DEF Rollback!ConstantsOK
  <2>2. changes' \in 0 .. situation.changes
    BY <1>13, <2>1 DEF Rollback!FailuresChange, Rollback!Setting
  <2>3. over' \in [Envs \X Regions -> BOOLEAN]
    BY <1>13, <2>1 DEF Rollback!FailuresChange, Rollback!Setting
  <2>4. queued' \subseteq Rollback!Policies
    BY <1>13 DEF Rollback!FailuresChange, Rollback!Watching
  <2> QED BY <1>13, <2>2, <2>3, <2>4 DEF Rollback!FailuresChange
<1>14. CASE Rollback!HistoryChanges
  <2>1. situation \in Rollback!Setting
    BY PartsAssumption DEF Rollback!ConstantsOK
  <2>2. changes' \in 0 .. situation.changes
    BY <1>14, <2>1 DEF Rollback!HistoryChanges, Rollback!Setting
  <2> QED BY <1>14, <2>2 DEF Rollback!HistoryChanges
<1>15. CASE Rollback!Restart
  <2>1. situation \in Rollback!Setting
    BY PartsAssumption DEF Rollback!ConstantsOK
  <2>2. changes' \in 0 .. situation.changes
    BY <1>15, <2>1 DEF Rollback!Restart, Rollback!Setting
  <2>3. queued' \subseteq Rollback!Policies
    BY <1>15 DEF Rollback!Restart, Rollback!Watching
  <2>4. jobs' \in [Rollback!Actors -> {Rollback!Idle} \cup
                       [at : {"find", "name", "create", "taken", "created", "refused"},
                        name : Rollback!Names \cup {Rollback!None}]]
    BY <1>15 DEF Rollback!Restart
  <2> QED BY <1>15, <2>2, <2>3, <2>4 DEF Rollback!Restart
<1> QED
  BY <1>1, <1>2, <1>3, <1>4, <1>5, <1>6, <1>7, <1>8, <1>9, <1>10, <1>11, <1>12, <1>13, <1>14,
     <1>15 DEF Rollback!Next, Rollback!Works
-----------------------------------------------------------------------------
(* RollbackInv is inductive. *)

LEMMA RbInvInit == ASSUME Rollback!Init PROVE Rollback!RollbackInv
<1>1. Rollback!TypeOK
  BY RbInitType
<1>2. \A a \in Rollback!Actors : jobs[a].at = "idle"
  BY RbIdle DEF Rollback!Init
<1>3. \A n \in Rollback!Names : bundles[n] \in {Rollback!Someone, "free"} /\ bcache[n] = bundles[n]
  BY DEF Rollback!Init
<1>4. Rollback!OwnIsSecond
  BY <1>3, RbNames, RbEnvs DEF Rollback!OwnIsSecond
<1>5. Rollback!JobNames /\ Rollback!TakenNames
  BY <1>2 DEF Rollback!JobNames, Rollback!TakenNames
<1>7. Rollback!CreatedNames
  BY <1>2, RbActors DEF Rollback!CreatedNames
<1>6. Rollback!StepNames
  BY DEF Rollback!Init, Rollback!StepNames
<1> QED
  BY <1>1, <1>3, <1>4, <1>5, <1>6, <1>7 DEF Rollback!RollbackInv, Rollback!CacheLags, Rollback!OwnNames

\* A step of one actor that changes nothing but its job.
LEMMA RbOneJob ==
    ASSUME Rollback!RollbackInv, Rollback!TypeOK', bundles' = bundles, bcache' = bcache, steps' = steps,
           NEW a \in Rollback!Actors, NEW j, jobs' = [jobs EXCEPT ![a] = j],
           j.at \in {"create", "taken"} =>
              \/ j.name = Rollback!Plain(a[1])
              \/ j.name = Rollback!Own(a[1], Rollback!EnvOf(a)) /\ Rollback!PlainTaken(a[1], Rollback!EnvOf(a)),
           j.at = "taken" => bundles[j.name] # "free",
           j.at = "created" => j.name \in Rollback!Names,
           j.at = "created" /\ a \in Rollback!AlarmSteps => bundles[j.name] = Rollback!EnvOf(a)
    PROVE  Rollback!RollbackInv'
<1>1. jobs'[a] = j /\ \A b \in Rollback!Actors : b # a => jobs'[b] = jobs[b]
  BY DEF Rollback!RollbackInv, Rollback!TypeOK
<1>2. Rollback!CacheLags' /\ Rollback!OwnNames' /\ Rollback!OwnIsSecond' /\ Rollback!StepNames'
  BY DEF Rollback!RollbackInv, Rollback!CacheLags, Rollback!OwnNames, Rollback!OwnIsSecond, Rollback!StepNames, Rollback!PlainTaken
<1>3. Rollback!JobNames'
  BY <1>1 DEF Rollback!RollbackInv, Rollback!JobNames, Rollback!PlainTaken
<1>4. Rollback!TakenNames'
  BY <1>1 DEF Rollback!RollbackInv, Rollback!TakenNames
<1>5. Rollback!CreatedNames'
  BY <1>1, RbActors DEF Rollback!RollbackInv, Rollback!CreatedNames
<1> QED BY <1>2, <1>3, <1>4, <1>5 DEF Rollback!RollbackInv

\* A step in which no actor moves.
LEMMA RbNoJob ==
    ASSUME Rollback!RollbackInv, Rollback!TypeOK', bundles' = bundles, Rollback!CacheLags', Rollback!StepNames', jobs' = jobs
    PROVE  Rollback!RollbackInv'
BY DEF Rollback!RollbackInv, Rollback!OwnNames, Rollback!OwnIsSecond, Rollback!PlainTaken, Rollback!JobNames, Rollback!TakenNames,
       Rollback!CreatedNames

LEMMA RbFind == ASSUME Rollback!RollbackInv, Rollback!TypeOK', NEW a \in Rollback!Actors, Rollback!Find(a) PROVE Rollback!RollbackInv'
<1>1. CASE \E n \in Rollback!FindRollback(bcache, Rollback!EnvOf(a)) : jobs' = [jobs EXCEPT ![a] = Rollback!At("created", n)]
  <2>1. PICK n \in Rollback!FindRollback(bcache, Rollback!EnvOf(a)) : jobs' = [jobs EXCEPT ![a] = Rollback!At("created", n)]
    BY <1>1
  <2>2. n \in Rollback!Names /\ bcache[n] = Rollback!EnvOf(a)
    BY DEF Rollback!FindRollback
  <2>3. bundles[n] = Rollback!EnvOf(a)
    BY <2>2, RbActors, RbEnvs DEF Rollback!RollbackInv, Rollback!CacheLags
  <2>4. Rollback!At("created", n).at = "created" /\ Rollback!At("created", n).name = n
    BY DEF Rollback!At
  <2> QED BY <2>1, <2>2, <2>3, <2>4, RbOneJob DEF Rollback!Find
<1>2. CASE jobs' = [jobs EXCEPT ![a] = Rollback!At("name", Rollback!None)]
  <2>1. Rollback!At("name", Rollback!None).at = "name"
    BY DEF Rollback!At
  <2> QED BY <1>2, <2>1, RbOneJob DEF Rollback!Find
<1> QED BY <1>1, <1>2 DEF Rollback!Find

LEMMA RbNameAndPlan ==
    ASSUME Rollback!RollbackInv, Rollback!TypeOK', NEW a \in Rollback!Actors, Rollback!NameAndPlan(a) PROVE Rollback!RollbackInv'
<1> DEFINE n == Rollback!AutoRollbackNameIn(bcache, a)
<1>1. \/ n = Rollback!None
      \/ n = Rollback!Plain(a[1])
      \/ n = Rollback!Own(a[1], Rollback!EnvOf(a)) /\ bcache[Rollback!Plain(a[1])] \notin {"free", Rollback!EnvOf(a)}
  BY RbPicks
<1>2. bcache[Rollback!Plain(a[1])] \notin {"free", Rollback!EnvOf(a)} => Rollback!PlainTaken(a[1], Rollback!EnvOf(a))
  BY RbActors, RbNames DEF Rollback!RollbackInv, Rollback!CacheLags, Rollback!PlainTaken
<1>3. \/ jobs' = [jobs EXCEPT ![a] = Rollback!At("refused", Rollback!None)]
      \/ n # Rollback!None /\ jobs' = [jobs EXCEPT ![a] = Rollback!At("create", n)]
  BY DEF Rollback!NameAndPlan
<1>4. /\ Rollback!At("refused", Rollback!None).at = "refused"
      /\ Rollback!At("create", n).at = "create" /\ Rollback!At("create", n).name = n
  BY DEF Rollback!At
<1>5. bundles' = bundles /\ bcache' = bcache /\ steps' = steps
  BY DEF Rollback!NameAndPlan
<1> HIDE DEF n
<1> QED BY <1>1, <1>2, <1>3, <1>4, <1>5, RbOneJob

\* The name of a create is one of two, and the create that succeeds keeps what others know.
LEMMA RbCreate ==
    ASSUME Rollback!RollbackInv, Rollback!TypeOK', NEW a \in Rollback!Actors, Rollback!Create(a) PROVE Rollback!RollbackInv'
<1> DEFINE n == jobs[a].name
           e == Rollback!EnvOf(a)
<1>0. e \in Envs /\ a[1] \in Rollback!Sources
  BY RbActors
<1>1. n = Rollback!Plain(a[1]) \/ (n = Rollback!Own(a[1], e) /\ Rollback!PlainTaken(a[1], e))
  BY DEF Rollback!Create, Rollback!RollbackInv, Rollback!JobNames
<1>2. n \in Rollback!Names
  BY <1>0, <1>1, RbNames
<1>6. n[2] = "plain" \/ (n[2] = e /\ n = Rollback!Own(a[1], e) /\ Rollback!PlainTaken(a[1], e))
  <2> HIDE DEF n
  <2> QED BY <1>0, <1>1, RbNames
<1>3. \A pc1, m : Rollback!At(pc1, m).at = pc1 /\ Rollback!At(pc1, m).name = m
  BY DEF Rollback!At
<1>4. CASE bundles[n] # "free"
  <2>1. UNCHANGED <<bundles, bcache, steps>> /\ jobs' = [jobs EXCEPT ![a] = Rollback!At("taken", n)]
    BY <1>4 DEF Rollback!Create
  <2>2. Rollback!At("taken", n).at = "taken" /\ Rollback!At("taken", n).name = n
    BY <1>3
  <2> HIDE DEF n
  <2> QED BY <1>1, <1>4, <2>1, <2>2, RbOneJob
<1>5. CASE bundles[n] = "free"
  <2>1. /\ bundles' = [bundles EXCEPT ![n] = e] /\ jobs' = [jobs EXCEPT ![a] = Rollback!At("created", n)]
        /\ bcache' = bcache /\ steps' = steps
    BY <1>5 DEF Rollback!Create
  <2>2. /\ bundles'[n] = e /\ \A m \in Rollback!Names : m # n => bundles'[m] = bundles[m]
    BY <1>2, <2>1 DEF Rollback!RollbackInv, Rollback!TypeOK
  <2>3. \A m \in Rollback!Names : bundles[m] # "free" => bundles'[m] = bundles[m]
    BY <1>5, <2>2
  <2>4. \A src \in Rollback!Sources, f \in Envs : Rollback!PlainTaken(src, f) => Rollback!PlainTaken(src, f)'
    BY <2>3, RbNames DEF Rollback!PlainTaken
  <2>5. /\ jobs'[a].at = "created" /\ jobs'[a].name = n
        /\ \A b \in Rollback!Actors : b # a => jobs'[b] = jobs[b]
    BY <1>3, <2>1 DEF Rollback!RollbackInv, Rollback!TypeOK
  <2>6. Rollback!CacheLags'
    BY <1>5, <2>1, <2>2 DEF Rollback!RollbackInv, Rollback!CacheLags
  <2>7. Rollback!OwnNames'
    BY <1>6, <2>2 DEF Rollback!RollbackInv, Rollback!OwnNames
  <2>8. Rollback!OwnIsSecond'
    <3> SUFFICES ASSUME NEW src \in Rollback!Sources, NEW f \in Envs, bundles'[Rollback!Own(src, f)] = f
                 PROVE  Rollback!PlainTaken(src, f)'
      BY DEF Rollback!OwnIsSecond
    <3>1. CASE bundles[Rollback!Own(src, f)] = f
      BY <3>1, <2>4 DEF Rollback!RollbackInv, Rollback!OwnIsSecond
    <3>2. CASE bundles[Rollback!Own(src, f)] # f
      <4>1. Rollback!Own(src, f) = n /\ f = e
        BY <3>2, <2>2, RbNames
      <4>2. n = Rollback!Own(a[1], e) /\ Rollback!PlainTaken(a[1], e)
        BY <4>1, <1>6, RbNames, RbEnvs
      <4>3. src = a[1]
        BY <4>1, <4>2 DEF Rollback!Own
      <4> QED BY <4>1, <4>2, <4>3, <1>0, <2>4
    <3> QED BY <3>1, <3>2
  <2>9. Rollback!JobNames'
    <3> SUFFICES ASSUME NEW b \in Rollback!Actors, jobs'[b].at \in {"create", "taken"}
                 PROVE  \/ jobs'[b].name = Rollback!Plain(b[1])
                        \/ jobs'[b].name = Rollback!Own(b[1], Rollback!EnvOf(b)) /\ Rollback!PlainTaken(b[1], Rollback!EnvOf(b))'
      BY DEF Rollback!JobNames
    <3>1. jobs'[b] = jobs[b]
      BY <2>5
    <3> QED BY <3>1, <2>4, RbActors DEF Rollback!RollbackInv, Rollback!JobNames
  <2>10. Rollback!TakenNames'
    <3> SUFFICES ASSUME NEW b \in Rollback!Actors, jobs'[b].at = "taken"
                 PROVE  bundles'[jobs'[b].name] # "free"
      BY DEF Rollback!TakenNames
    <3>1. jobs'[b] = jobs[b]
      BY <2>5
    <3>2. jobs[b].name \in Rollback!Names /\ bundles[jobs[b].name] # "free"
      BY <3>1, RbActors, RbNames DEF Rollback!RollbackInv, Rollback!JobNames, Rollback!TakenNames
    <3> QED BY <3>1, <3>2, <2>3
  <2>11. Rollback!CreatedNames'
    <3> SUFFICES ASSUME NEW b \in Rollback!Actors, jobs'[b].at = "created"
                 PROVE  /\ jobs'[b].name \in Rollback!Names
                        /\ b \in Rollback!AlarmSteps => bundles'[jobs'[b].name] = Rollback!EnvOf(b)
      BY RbActors DEF Rollback!CreatedNames
    <3>1. CASE b = a
      BY <3>1, <1>2, <2>2, <2>5
    <3>2. CASE b # a
      <4>1. /\ jobs'[b] = jobs[b] /\ jobs[b].name \in Rollback!Names
            /\ b \in Rollback!AlarmSteps => bundles[jobs[b].name] = Rollback!EnvOf(b)
        BY <3>2, <2>5 DEF Rollback!RollbackInv, Rollback!CreatedNames
      <4> QED BY <4>1, <2>3, RbActors, RbEnvs
    <3> QED BY <3>1, <3>2
  <2>12. Rollback!StepNames'
    BY <2>1, <2>3, RbActors, RbEnvs DEF Rollback!RollbackInv, Rollback!StepNames
  <2> QED BY <2>6, <2>7, <2>8, <2>9, <2>10, <2>11, <2>12 DEF Rollback!RollbackInv
<1> QED BY <1>4, <1>5

LEMMA RbTaken ==
    ASSUME Rollback!RollbackInv, Rollback!TypeOK', NEW a \in Rollback!Actors, Rollback!RollbackTaken(a) PROVE Rollback!RollbackInv'
<1> DEFINE n == jobs[a].name
<1>1. n \in Rollback!Names /\ bundles[n] # "free"
  BY RbActors, RbNames DEF Rollback!RollbackTaken, Rollback!RollbackInv, Rollback!JobNames, Rollback!TakenNames
<1>2. Rollback!At("created", n).at = "created" /\ Rollback!At("created", n).name = n
  BY DEF Rollback!At
<1>3. UNCHANGED <<bundles, bcache, steps>>
  BY DEF Rollback!RollbackTaken
<1>4. CASE /\ Rollback!rollbackNameFree(Rollback!TakenReads(a), n, Rollback!EnvOf(a))
           /\ jobs' = [jobs EXCEPT ![a] = Rollback!At("created", n)]
  <2>1. a \in Rollback!AlarmSteps => bundles[n] = Rollback!EnvOf(a)
    BY <1>1, <1>4 DEF Rollback!rollbackNameFree, Rollback!TakenReads
  <2> HIDE DEF n
  <2> QED BY <1>1, <1>2, <1>3, <1>4, <2>1, RbOneJob
<1>5. CASE Rollback!Again(a)
  BY <1>3, <1>5, RbIdle, RbOneJob DEF Rollback!Again
<1> QED BY <1>4, <1>5 DEF Rollback!RollbackTaken

LEMMA RbRecordStep ==
    ASSUME Rollback!RollbackInv, Rollback!TypeOK', NEW a \in Rollback!Actors, Rollback!RecordStep(a) PROVE Rollback!RollbackInv'
<1>1. /\ jobs' = [jobs EXCEPT ![a] = Rollback!Idle] /\ UNCHANGED <<bundles, bcache>>
      /\ a \in Rollback!AlarmSteps /\ jobs[a].at \in {"created", "refused"}
  BY DEF Rollback!RecordStep
<1>2. jobs'[a].at = "idle" /\ \A b \in Rollback!Actors : b # a => jobs'[b] = jobs[b]
  BY <1>1, RbIdle DEF Rollback!RollbackInv, Rollback!TypeOK
<1>3. /\ steps'[a].name = jobs[a].name /\ (steps'[a].st = "RollingBack" => jobs[a].at = "created")
      /\ \A s \in Rollback!AlarmSteps : s # a => steps'[s] = steps[s]
  BY DEF Rollback!RecordStep, Rollback!RollbackInv, Rollback!TypeOK
<1>4. Rollback!StepNames'
  BY <1>1, <1>3, RbActors DEF Rollback!RollbackInv, Rollback!StepNames, Rollback!CreatedNames
<1>5. Rollback!CacheLags' /\ Rollback!OwnNames' /\ Rollback!OwnIsSecond'
  BY <1>1 DEF Rollback!RollbackInv, Rollback!CacheLags, Rollback!OwnNames, Rollback!OwnIsSecond, Rollback!PlainTaken
<1>6. Rollback!JobNames' /\ Rollback!TakenNames'
  BY <1>1, <1>2 DEF Rollback!RollbackInv, Rollback!JobNames, Rollback!TakenNames, Rollback!PlainTaken
<1>7. Rollback!CreatedNames'
  BY <1>1, <1>2, RbActors DEF Rollback!RollbackInv, Rollback!CreatedNames
<1> QED BY <1>4, <1>5, <1>6, <1>7 DEF Rollback!RollbackInv

LEMMA RbInvStep == ASSUME Rollback!RollbackInv, Rollback!Next PROVE Rollback!RollbackInv'
<1>0. Rollback!TypeOK /\ Rollback!TypeOK'
  BY RbTypeStep DEF Rollback!RollbackInv
<1>1. ASSUME NEW a \in Rollback!AlarmSteps, Rollback!StepAlarms(a) PROVE Rollback!RollbackInv'
  <2>1. Rollback!At("find", Rollback!None).at = "find"
    BY DEF Rollback!At
  <2> QED BY <1>0, <1>1, <2>1, RbActors, RbOneJob DEF Rollback!StepAlarms
<1>2. ASSUME NEW a \in Rollback!AlarmSteps, Rollback!StepVerifies(a) PROVE Rollback!RollbackInv'
  <2>1. Rollback!StepNames'
    BY <1>2 DEF Rollback!StepVerifies, Rollback!RollbackInv, Rollback!StepNames, Rollback!TypeOK
  <2>2. Rollback!CacheLags'
    BY <1>2 DEF Rollback!StepVerifies, Rollback!RollbackInv, Rollback!CacheLags
  <2> QED BY <1>0, <1>2, <2>1, <2>2, RbNoJob DEF Rollback!StepVerifies
<1>3. ASSUME NEW p \in Rollback!Policies, Rollback!EvaluatePolicy(p) PROVE Rollback!RollbackInv'
  <2>1. Rollback!At("find", Rollback!None).at = "find"
    BY DEF Rollback!At
  <2>2. PICK j \in {jobs[p], Rollback!At("find", Rollback!None), Rollback!Idle} : jobs' = [jobs EXCEPT ![p] = j]
    <3>1. CASE jobs' = jobs
      <4>1. jobs' = [jobs EXCEPT ![p] = jobs[p]]
        BY <1>0, <3>1, RbActors DEF Rollback!TypeOK
      <4> QED BY <4>1
    <3>2. CASE jobs' # jobs
      BY <1>3, <3>2 DEF Rollback!EvaluatePolicy
    <3> QED BY <3>1, <3>2
  <2>3. j.at \in {"find", "idle"}
    BY <1>3, <2>1, RbIdle DEF Rollback!EvaluatePolicy
  <2> QED BY <1>0, <1>3, <2>2, <2>3, RbActors, RbOneJob DEF Rollback!EvaluatePolicy
<1>4. ASSUME NEW p \in Rollback!Policies, Rollback!SyncPolicy(p) PROVE Rollback!RollbackInv'
  BY <1>0, <1>4, RbNoJob DEF Rollback!SyncPolicy, Rollback!RollbackInv, Rollback!StepNames, Rollback!CacheLags
<1>5. ASSUME NEW a \in Rollback!Actors, Rollback!Works(a) PROVE Rollback!RollbackInv'
  <2>1. CASE Rollback!RecordPolicy(a)
    BY <1>0, <2>1, RbIdle, RbOneJob DEF Rollback!RecordPolicy
  <2> QED BY <1>0, <1>5, <2>1, RbFind, RbNameAndPlan, RbCreate, RbTaken, RbRecordStep DEF Rollback!Works
<1>6. ASSUME NEW a \in Rollback!Actors, Rollback!RecordFails(a) PROVE Rollback!RollbackInv'
  BY <1>0, <1>6, RbIdle, RbOneJob DEF Rollback!RecordFails, Rollback!Again
<1>7. ASSUME NEW n \in Rollback!Names, Rollback!SyncBundle(n) PROVE Rollback!RollbackInv'
  <2>1. Rollback!CacheLags'
    BY <1>0, <1>7 DEF Rollback!SyncBundle, Rollback!RollbackInv, Rollback!CacheLags, Rollback!TypeOK
  <2>2. Rollback!StepNames'
    BY <1>7 DEF Rollback!SyncBundle, Rollback!RollbackInv, Rollback!StepNames
  <2> QED BY <1>0, <1>7, <2>1, <2>2, RbNoJob DEF Rollback!SyncBundle
<1>8. CASE Rollback!FailuresChange \/ Rollback!HistoryChanges
  BY <1>0, <1>8, RbNoJob
  DEF Rollback!FailuresChange, Rollback!HistoryChanges, Rollback!RollbackInv, Rollback!StepNames, Rollback!CacheLags
<1>9. CASE Rollback!Restart
  <2>1. \A a \in Rollback!Actors : jobs'[a].at = "idle"
    BY <1>9, RbIdle DEF Rollback!Restart
  <2>2. Rollback!JobNames' /\ Rollback!TakenNames'
    BY <2>1 DEF Rollback!JobNames, Rollback!TakenNames
  <2>3. Rollback!CreatedNames'
    BY <2>1, RbActors DEF Rollback!CreatedNames
  <2>4. Rollback!CacheLags' /\ Rollback!OwnNames' /\ Rollback!OwnIsSecond' /\ Rollback!StepNames'
    BY <1>9 DEF Rollback!Restart, Rollback!RollbackInv, Rollback!CacheLags, Rollback!OwnNames, Rollback!OwnIsSecond, Rollback!StepNames,
                Rollback!PlainTaken
  <2> QED BY <1>0, <2>2, <2>3, <2>4 DEF Rollback!RollbackInv
<1> QED BY <1>1, <1>2, <1>3, <1>4, <1>5, <1>6, <1>7, <1>8, <1>9 DEF Rollback!Next

\* Of the two names a source has for an environment, one at most has its rollback.
LEMMA RbOnePerSource == ASSUME Rollback!RollbackInv PROVE Rollback!OneRollbackPerSource
<1> DEFINE its(e, src) == {n \in Rollback!Names : n[1] = src /\ bundles[n] = e}
<1>1. ASSUME NEW e \in Envs, NEW src \in Rollback!Sources PROVE Cardinality(its(e, src)) <= 1
  <2>1. \A n \in its(e, src) : n = Rollback!Plain(src) \/ n = Rollback!Own(src, e)
    BY RbNames, RbEnvs DEF Rollback!RollbackInv, Rollback!OwnNames, Rollback!Plain, Rollback!Own
  <2>2. ~(Rollback!Plain(src) \in its(e, src) /\ Rollback!Own(src, e) \in its(e, src))
    BY DEF Rollback!RollbackInv, Rollback!OwnIsSecond, Rollback!PlainTaken
  <2>3. its(e, src) = {} \/ its(e, src) = {Rollback!Plain(src)} \/ its(e, src) = {Rollback!Own(src, e)}
    BY <2>1, <2>2
  <2> HIDE DEF its
  <2>4. Cardinality(its(e, src)) \in {0, 1}
    BY <2>3, FS_EmptySet, FS_Singleton
  <2> QED BY <2>4
<1> QED BY <1>1, RbCardinality DEF Rollback!OneRollbackPerSource
LEMMA RbStutter == ASSUME Rollback!RollbackInv, UNCHANGED rollbackVars PROVE Rollback!RollbackInv'
<1> USE DEF rollbackVars
<1>1. Rollback!TypeOK'
  BY DEF Rollback!RollbackInv, Rollback!TypeOK
<1>2. Rollback!CacheLags' /\ Rollback!StepNames'
  BY DEF Rollback!RollbackInv, Rollback!CacheLags, Rollback!StepNames
<1> QED BY <1>1, <1>2, RbNoJob

\* RollbackSafe, for every set of environments and regions and every situation: one path never
\* creates two rollbacks of the failing Bundle in an environment (AutoRollbackName, FindRollback,
\* AlreadyExists), and a step that is RollingBack names a rollback Bundle of its own environment.
THEOREM RollbackIsSafe == PartsSpec => []RollbackSafe
<1> DEFINE Inv == part = "rollback" => Rollback!RollbackInv
<1>1. PartsInit => Inv
  BY PartStarts, RbInvInit
<1>2. Inv /\ [PartsNext]_partVars => Inv'
  BY PartSteps, RbInvStep, RbStutter
<1>3. Inv => RollbackSafe
  BY RbOnePerSource DEF RollbackSafe, Rollback!RollbackInv, Rollback!StepNames, Rollback!StepHasItsRollback
<1> QED BY <1>1, <1>2, <1>3, PTL DEF PartsSpec

-----------------------------------------------------------------------------
(* HealthBake: constants, and what the copies of the times are. *)

Times == [{"expiry", "start", "first", "last", "verify"} -> Nat]

LEMMA BkConstants ==
    /\ Timeout \in Nat /\ Timeout > 0 /\ Window \in Nat /\ Window > 0
    /\ MaxDuration \in Nat /\ MaxDuration >= Window /\ MaxGap \in Nat /\ MaxGap > 0
    /\ MaxErrors \in Nat /\ Configs \subseteq Bake!Configurations
BY PartsAssumption DEF Bake!ConstantsOK

LEMMA BkCost ==
    ASSUME Bake!TypeOK
    PROVE  /\ Bake!Cost \in Nat
           /\ errors' = errors => Bake!Cost' = Bake!Cost
           /\ errors' = errors + 1 => Bake!Cost' = Bake!Cost + MaxGap
           /\ errors <= MaxErrors => Bake!Cost <= MaxGap * MaxErrors
BY BkConstants DEF Bake!TypeOK, Bake!Cost

LEMMA BkCopies == ASSUME Bake!TypeOK, NEW c \in Bake!Copies PROVE c \in Times
BY DEF Bake!TypeOK, Bake!Copies, Times

\* A reconcile comes at most MaxGap after the last one.
LEMMA BkGap ==
    ASSUME Bake!TypeOK, Bake!OnTime
    PROVE  Bake!LastReconcile \in Nat /\ clock <= Bake!LastReconcile + MaxGap
BY BkConstants DEF Bake!TypeOK, Bake!OnTime, Bake!LastReconcile

\* An unlocked patch writes the fields that differ from the copy.
LEMMA BkPatch ==
    ASSUME Bake!TypeOK, NEW c \in Bake!Copies, NEW n \in Times, Bake!Patch(c, n)
    PROVE  /\ times' \in Times /\ prev' \in Times /\ state' = state
           /\ prev' = IF env.stale THEN times ELSE times'
           /\ \A f \in {"expiry", "start", "first", "last", "verify"} :
                 times'[f] = IF n[f] # c[f] THEN n[f] ELSE times[f]
<1>1. times \in Times /\ c \in Times
  BY BkCopies DEF Bake!TypeOK, Times
<1>2. DOMAIN times = {"expiry", "start", "first", "last", "verify"}
  BY <1>1 DEF Times
<1>3. times' = [f \in {"expiry", "start", "first", "last", "verify"} |->
                  IF n[f] # c[f] THEN n[f] ELSE times[f]]
  BY <1>2 DEF Bake!Patch
<1>4. times' \in Times
  BY <1>1, <1>3 DEF Times
<1> QED BY <1>1, <1>3, <1>4 DEF Bake!Patch

\* The write of a check that only notes its time.
LEMMA BkChecked ==
    ASSUME Bake!TypeOK, NEW c \in Bake!Copies, Bake!Patch(c, Bake!Checked(c))
    PROVE  /\ times' \in Times /\ prev' \in Times /\ state' = state
           /\ prev' = IF env.stale THEN times ELSE times'
           /\ times'.expiry = times.expiry /\ times'.start = times.start
           /\ times'.first = times.first
<1>1. Bake!Checked(c) \in Times
  BY BkCopies DEF Bake!TypeOK, Bake!Checked, Times
<1>2. /\ Bake!Checked(c).expiry = c.expiry /\ Bake!Checked(c).start = c.start
      /\ Bake!Checked(c).first = c.first
  BY BkCopies DEF Bake!Checked, Times
<1> QED BY <1>1, <1>2, BkPatch

\* The copy that a stopped window leaves.
LEMMA BkStopped ==
    ASSUME Bake!TypeOK, NEW c \in Bake!Copies, c.start # Bake!None
    PROVE  LET n == Bake!stopWindow(Bake!Checked(c))
           IN  /\ n \in Times /\ n.start = Bake!None /\ n.first = c.first
               /\ n.expiry <= Bake!bakeDeadline(c) /\ n.expiry <= clock + Timeout
               /\ n.expiry \in {Bake!bakeDeadline(c), clock + Timeout}
               /\ Bake!bakeDeadline(c) \in Nat
               /\ c.first # Bake!None => Bake!bakeDeadline(n) = Bake!bakeDeadline(c)
<1> DEFINE d == Bake!Checked(c)
           n == Bake!stopWindow(d)
<1>0. c \in Times /\ clock \in Nat
  BY BkCopies DEF Bake!TypeOK
<1>1. d \in Times /\ d.first = c.first /\ d.start = c.start
  BY <1>0 DEF Bake!Checked, Times
<1>2. Bake!bakeDeadline(d) = Bake!bakeDeadline(c) /\ Bake!bakeDeadline(c) \in Nat
  BY <1>0, <1>1, BkConstants DEF Bake!bakeDeadline, Times
<1> DEFINE x == IF Bake!bakeDeadline(c) < clock + Timeout THEN Bake!bakeDeadline(c) ELSE clock + Timeout
<1>6. n = [d EXCEPT !.expiry = x, !.start = Bake!None]
  BY <1>2 DEF Bake!stopWindow
<1>7. x \in Nat
  BY <1>0, <1>2, BkConstants
<1> HIDE DEF d, n, x
<1>3. n \in Times /\ n.start = Bake!None /\ n.first = c.first /\ n.expiry = x
  BY <1>1, <1>6, <1>7 DEF Times, Bake!None
<1>4. /\ n \in Times /\ n.start = Bake!None /\ n.first = c.first
      /\ n.expiry = IF Bake!bakeDeadline(c) < clock + Timeout THEN Bake!bakeDeadline(c) ELSE clock + Timeout
  BY <1>3 DEF x
<1>5. c.first # Bake!None => Bake!bakeDeadline(n) = Bake!bakeDeadline(c)
  BY <1>4 DEF Bake!bakeDeadline
<1> QED BY <1>0, <1>2, <1>4, <1>5, BkConstants DEF n, d

-----------------------------------------------------------------------------
(* BakeInv is inductive. *)

LEMMA BkInit == ASSUME Bake!Init PROVE Bake!BakeInv
<1> USE DEF Bake!Init, Bake!None
<1>1. env \in Bake!Configurations
  BY BkConstants
<1>6. times \in Times
  BY DEF Times
<1>2. Bake!TypeOK
  BY <1>1, <1>6 DEF Bake!TypeOK, Times
<1>3. Bake!BakeTimes
  BY <1>2 DEF Bake!BakeTimes
<1>4. Bake!CopyTimes(times) /\ Bake!CopyTimes(prev) /\ Bake!CopyBehind
  BY DEF Bake!CopyTimes, Bake!CopyBehind
<1>5. Bake!OnTime
  BY BkConstants DEF Bake!OnTime, Bake!LastReconcile
<1> QED BY <1>3, <1>4, <1>5 DEF Bake!BakeInv, Bake!WindowIsHealthy, Bake!ContiguousBake

\* What a reconcile that goes on has to write, for the copies to stay as they must be.
LEMMA BkWrite ==
    ASSUME Bake!BakeInv, Bake!TypeOK', state = "HealthChecking", state' = state,
           env' = env, clock' = clock,
           prev' = IF env.stale THEN times ELSE times',
           times'.expiry # Bake!None,
           times.expiry = Bake!None => times'.first = Bake!None,
           times'.start # Bake!None => times'.first # Bake!None /\ times'.first <= times'.start,
           times.first <= times'.first, times'.first <= clock, times'.start <= clock,
           times'.expiry # times.expiry => times'.start = Bake!None,
           times'.first # Bake!None /\ times'.start = Bake!None => times'.expiry <= times'.first + MaxDuration
    PROVE  Bake!BakeTimes' /\ Bake!CopyTimes(times)' /\ Bake!CopyTimes(prev)' /\ Bake!CopyBehind'
<1> USE DEF Bake!None
<1>0. times \in Times /\ times' \in Times /\ prev \in Times /\ clock \in Nat
  BY DEF Bake!BakeInv, Bake!BakeTimes, Bake!TypeOK, Times
<1>1. Bake!BakeTimes'
  <2>1. (times'.first # Bake!None) => Bake!bakeDeadline(times)' = times'.first + MaxDuration
    BY DEF Bake!bakeDeadline
  <2> QED BY <2>1 DEF Bake!BakeTimes
<1>2. Bake!CopyTimes(times)'
  BY <1>0 DEF Bake!CopyTimes, Bake!BakeInv, Times
<1>3. Bake!CopyTimes(prev)'
  <2>1. CASE env.stale
    BY <2>1 DEF Bake!CopyTimes, Bake!BakeInv
  <2>2. CASE ~env.stale
    BY <1>2, <2>2 DEF Bake!CopyTimes
  <2> QED BY <2>1, <2>2
<1>4. Bake!CopyBehind'
  <2>1. CASE env.stale
    <3>1. prev' = times
      BY <2>1
    <3> QED BY <1>0, <2>1, <3>1 DEF Bake!CopyBehind, Times
  <2>2. CASE ~env.stale
    <3>1. prev' = times'
      BY <2>2
    <3> QED BY <1>0, <2>2, <3>1 DEF Bake!CopyBehind, Times
  <2> QED BY <2>1, <2>2
<1> QED BY <1>1, <1>2, <1>3, <1>4

\* A reconcile that ends the step, or meets a conflict: the times stay as they are.
LEMMA BkTransition ==
    ASSUME Bake!BakeInv, state = "HealthChecking", NEW c \in Bake!Copies,
           NEW s \in {"Failed", "AbortedByAlarm", "RollingBack", "Superseded"},
           Bake!transition(c, s), Bake!Reconciled, baked' = baked, healthy' \in Nat, healthy' <= clock,
           errors' \in Nat, errors' <= MaxErrors
    PROVE  Bake!BakeInv'
<1> USE DEF Bake!None
<1>0. /\ times' = times /\ prev' = times /\ env' = env /\ newer' = newer /\ clock' = clock /\ idle' = 0
      /\ state' \in {s, state} /\ (state' = state => c # times)
  BY DEF Bake!transition, Bake!Reconciled, Bake!BakeInv
<1>1. ~env.stale => c = times
  BY DEF Bake!Copies, Bake!BakeInv, Bake!CopyBehind
<1>2. Bake!TypeOK'
  BY <1>0 DEF Bake!BakeInv, Bake!BakeTimes, Bake!TypeOK, Bake!Ended
<1>3. Bake!BakeTimes'
  <2>1. Bake!bakeDeadline(times)' = Bake!bakeDeadline(times)
    BY <1>0 DEF Bake!bakeDeadline
  <2> QED BY <1>0, <1>2, <2>1 DEF Bake!BakeInv, Bake!BakeTimes
<1>4. Bake!CopyTimes(times)' /\ Bake!CopyTimes(prev)' /\ Bake!CopyBehind'
  BY <1>0 DEF Bake!BakeInv, Bake!BakeTimes, Bake!TypeOK, Bake!CopyTimes, Bake!CopyBehind
<1>5. state' = "HealthChecking" => env.stale
  BY <1>0, <1>1
<1>6. Bake!WindowIsHealthy' /\ Bake!ContiguousBake'
  BY <1>0, <1>5 DEF Bake!WindowIsHealthy, Bake!ContiguousBake
<1>7. Bake!OnTime'
  BY <1>0, <1>5, BkConstants DEF Bake!OnTime, Bake!BakeInv, Bake!BakeTimes, Bake!TypeOK
<1> QED BY <1>3, <1>4, <1>6, <1>7 DEF Bake!BakeInv

LEMMA BkFails ==
    ASSUME Bake!BakeInv, state = "HealthChecking", NEW c \in Bake!Copies,
           Bake!applyHealthFailurePolicy(c), Bake!Reconciled, baked' = baked, healthy' \in Nat, healthy' <= clock,
           errors' \in Nat, errors' <= MaxErrors
    PROVE  Bake!BakeInv'
<1>1. Bake!FailureStates \subseteq {"Failed", "AbortedByAlarm", "RollingBack"}
  BY DEF Bake!FailureStates
<1> QED BY <1>1, BkTransition DEF Bake!applyHealthFailurePolicy
-----------------------------------------------------------------------------
(* The checks of a reconcile. *)

\* A copy that has an expiry is of a step that has one, and knows no later first window.
LEMMA BkCopy ==
    ASSUME Bake!BakeInv, NEW c \in Bake!Copies
    PROVE  /\ c \in Times /\ times \in Times /\ prev \in Times /\ clock \in Nat /\ clock > 0
           /\ Bake!CopyTimes(c) /\ Bake!CopyTimes(times)
           /\ c.expiry # Bake!None => times.expiry # Bake!None
           /\ c.expiry = Bake!None => times.first = Bake!None /\ times.start = Bake!None
           /\ c.first <= times.first
           /\ times.expiry # c.expiry => times.start = Bake!None
           /\ ~env.stale => c = times
<1> USE DEF Bake!None
<1>1. c \in Times /\ times \in Times /\ prev \in Times /\ clock \in Nat /\ clock > 0
  BY BkCopies DEF Bake!BakeInv, Bake!BakeTimes, Bake!TypeOK, Bake!OnTime, Times
<1>2. CASE c = times
  BY <1>1, <1>2 DEF Bake!BakeInv, Bake!CopyTimes, Times
<1>3. CASE c = prev
  BY <1>1, <1>3 DEF Bake!BakeInv, Bake!CopyTimes, Bake!CopyBehind, Times
<1> QED BY <1>1, <1>2, <1>3 DEF Bake!Copies

\* A reconcile that notes its time only, without an error.
LEMMA BkNoted ==
    ASSUME Bake!BakeInv, NEW c \in Bake!Copies, Bake!MayCheck(c), Bake!Patch(c, Bake!Checked(c)), Bake!Reconciled,
           baked' = baked, healthy' \in Nat, healthy' <= clock,
           errors' \in Nat, errors' <= MaxErrors,
           Bake!WindowIsHealthy', Bake!OnTime'
    PROVE  Bake!BakeInv'
<1> USE DEF Bake!None
<1>1. /\ times' \in Times /\ prev' \in Times /\ state' = state
      /\ prev' = IF env.stale THEN times ELSE times'
      /\ times'.expiry = times.expiry /\ times'.start = times.start /\ times'.first = times.first
  BY BkChecked DEF Bake!BakeInv, Bake!BakeTimes
<1>2. state = "HealthChecking" /\ c.expiry # Bake!None
  BY DEF Bake!MayCheck
<1>3. env' = env /\ clock' = clock /\ newer' = newer /\ idle' = 0
  BY DEF Bake!Reconciled
<1>4. Bake!TypeOK'
  BY <1>1, <1>3 DEF Bake!BakeInv, Bake!BakeTimes, Bake!TypeOK, Times
<1>5. times.first # Bake!None /\ times.start = Bake!None => times.expiry <= times.first + MaxDuration
  BY <1>2 DEF Bake!BakeInv, Bake!BakeTimes, Bake!bakeDeadline
<1>6. Bake!BakeTimes' /\ Bake!CopyTimes(times)' /\ Bake!CopyTimes(prev)' /\ Bake!CopyBehind'
  BY <1>1, <1>2, <1>3, <1>4, <1>5, BkCopy, BkWrite DEF Bake!CopyTimes, Times
<1> QED BY <1>1, <1>2, <1>6 DEF Bake!BakeInv, Bake!ContiguousBake

LEMMA BkSetExpiry == ASSUME Bake!BakeInv, NEW c \in Bake!Copies, Bake!SetExpiry(c) PROVE Bake!BakeInv'
<1> USE DEF Bake!None
<1> DEFINE n == [c EXCEPT !.expiry = clock + Timeout]
<1>0. /\ state = "HealthChecking" /\ c.expiry = 0 /\ env' = env /\ clock' = clock /\ newer' = newer
      /\ idle' = 0 /\ errors' = errors /\ baked' = baked /\ healthy' = healthy
  BY DEF Bake!SetExpiry, Bake!Reconciled, Bake!Kept
<1>1. /\ n \in Times /\ n.expiry = clock + Timeout /\ n.start = c.start /\ n.first = c.first
  BY BkCopy, BkConstants DEF Times
<1>2. Bake!Patch(c, n)
  BY DEF Bake!SetExpiry
<1> HIDE DEF n
<1>3. /\ times' \in Times /\ prev' \in Times /\ state' = state
      /\ prev' = IF env.stale THEN times ELSE times'
      /\ times'.expiry = clock + Timeout /\ times'.start = times.start /\ times'.first = times.first
  BY <1>0, <1>1, <1>2, BkCopy, BkPatch, BkConstants DEF Bake!BakeInv, Bake!BakeTimes
<1>4. times.first = 0 /\ times.start = 0
  BY <1>0, BkCopy
<1>5. Bake!TypeOK'
  BY <1>0, <1>3 DEF Bake!BakeInv, Bake!BakeTimes, Bake!TypeOK, Times
<1>6. Bake!BakeTimes' /\ Bake!CopyTimes(times)' /\ Bake!CopyTimes(prev)' /\ Bake!CopyBehind'
  BY <1>0, <1>3, <1>4, <1>5, BkCopy, BkConstants, BkWrite
<1>7. Bake!WindowIsHealthy' /\ Bake!ContiguousBake'
  BY <1>0, <1>3, <1>4 DEF Bake!WindowIsHealthy, Bake!ContiguousBake
<1>8. Bake!OnTime'
  <2>1. Bake!LastReconcile' = clock
    BY <1>0, BkCopy DEF Bake!LastReconcile
  <2>2. ~env.remote /\ ~env.stale => clock <= 1 + MaxGap
    BY <1>0, BkCopy, BkGap, BkConstants DEF Bake!BakeInv, Bake!BakeTimes, Bake!OnTime
  <2>3. Bake!Cost' = Bake!Cost /\ Bake!Cost \in Nat
    BY <1>0, BkCost DEF Bake!BakeInv, Bake!BakeTimes
  <2> QED BY <1>0, <1>3, <1>4, <2>1, <2>2, <2>3, BkCopy, BkConstants DEF Bake!OnTime, Bake!BakeInv
<1> QED BY <1>6, <1>7, <1>8 DEF Bake!BakeInv

\* What a failed check costs.
LEMMA BkErrorOnTime ==
    ASSUME Bake!BakeInv, Bake!TypeOK', NEW c \in Bake!Copies, Bake!MayCheck(c), Bake!Reconciled, state' = state,
           errors < MaxErrors, errors' = errors + 1, healthy' = healthy,
           times'.expiry = times.expiry, times'.start = times.start, times'.first = times.first
    PROVE  Bake!OnTime'
<1> USE DEF Bake!None
<1>1. /\ state = "HealthChecking" /\ c.expiry # 0 /\ env' = env /\ clock' = clock /\ idle' = 0
  BY DEF Bake!MayCheck, Bake!Reconciled
<1>2. Bake!LastReconcile' = clock
  BY <1>1, BkCopy DEF Bake!LastReconcile
<1>3. clock <= Bake!LastReconcile + MaxGap /\ Bake!LastReconcile \in Nat
  BY BkGap DEF Bake!BakeInv, Bake!BakeTimes
<1>4. Bake!Cost' = Bake!Cost + MaxGap /\ Bake!Cost \in Nat
  BY BkCost DEF Bake!BakeInv, Bake!BakeTimes
<1>5. errors \in Nat /\ errors' <= MaxErrors
  BY BkConstants DEF Bake!BakeInv, Bake!BakeTimes, Bake!TypeOK
<1>6. times.expiry # 0
  BY <1>1, BkCopy
<1>7. CASE times.first = 0
  BY <1>1, <1>2, <1>3, <1>4, <1>5, <1>6, <1>7, BkCopy, BkConstants DEF Bake!OnTime, Bake!BakeInv, Times
<1>8. CASE times.first # 0
  BY <1>1, <1>2, <1>3, <1>4, <1>5, <1>6, <1>8, BkCopy, BkConstants DEF Bake!OnTime, Bake!BakeInv, Times
<1> QED BY <1>7, <1>8

LEMMA BkCheckError == ASSUME Bake!BakeInv, NEW c \in Bake!Copies, Bake!CheckError(c) PROVE Bake!BakeInv'
<1> USE DEF Bake!None
<1>0. /\ Bake!MayCheck(c) /\ errors < MaxErrors /\ errors' = errors + 1 /\ healthy' = healthy
      /\ baked' = baked /\ Bake!Reconciled
      /\ errors \in Nat /\ healthy \in Nat /\ healthy <= clock
  BY DEF Bake!CheckError, Bake!BakeInv, Bake!BakeTimes, Bake!TypeOK, Bake!OnTime
<1>9. state = "HealthChecking" /\ errors' \in Nat /\ errors' <= MaxErrors
  BY <1>0, BkConstants DEF Bake!MayCheck
<1>1. CASE UNCHANGED <<state, times, prev>>
  <2>1. env' = env /\ clock' = clock /\ newer' = newer /\ idle' = 0
    BY <1>0 DEF Bake!Reconciled
  <2>2. Bake!TypeOK'
    BY <1>0, <1>1, <1>9, <2>1 DEF Bake!BakeInv, Bake!BakeTimes, Bake!TypeOK
  <2>3. Bake!OnTime'
    BY <1>0, <1>1, <2>2, BkErrorOnTime
  <2>4. Bake!BakeTimes'
    BY <1>1, <2>1, <2>2 DEF Bake!BakeInv, Bake!BakeTimes, Bake!bakeDeadline
  <2>5. Bake!CopyTimes(times)' /\ Bake!CopyTimes(prev)' /\ Bake!CopyBehind'
    BY <1>1, <2>1 DEF Bake!BakeInv, Bake!CopyTimes, Bake!CopyBehind
  <2>6. Bake!WindowIsHealthy' /\ Bake!ContiguousBake'
    BY <1>0, <1>1, <2>1 DEF Bake!BakeInv, Bake!WindowIsHealthy, Bake!ContiguousBake
  <2> QED BY <2>3, <2>4, <2>5, <2>6 DEF Bake!BakeInv
<1>2. CASE Bake!Patch(c, Bake!Checked(c))
  <2>1. /\ times' \in Times /\ prev' \in Times /\ state' = state
        /\ times'.expiry = times.expiry /\ times'.start = times.start /\ times'.first = times.first
    BY <1>2, BkChecked DEF Bake!BakeInv, Bake!BakeTimes
  <2>2. Bake!TypeOK'
    BY <1>0, <1>9, <2>1 DEF Bake!BakeInv, Bake!BakeTimes, Bake!TypeOK, Bake!Reconciled, Times
  <2>3. Bake!OnTime'
    BY <1>0, <2>1, <2>2, BkErrorOnTime
  <2>4. Bake!WindowIsHealthy'
    BY <1>0, <2>1 DEF Bake!BakeInv, Bake!WindowIsHealthy, Bake!Reconciled
  <2> QED BY <1>0, <1>2, <1>9, <2>3, <2>4, BkNoted
<1>3. CASE Bake!applyHealthFailurePolicy(c)
  BY <1>0, <1>3, <1>9, BkFails
<1> QED BY <1>1, <1>2, <1>3 DEF Bake!CheckError

\* Reconciles that note their time: when they come in time.
LEMMA BkNotedOnTime ==
    ASSUME Bake!BakeInv, NEW c \in Bake!Copies, Bake!MayCheck(c), Bake!Reconciled, Bake!Patch(c, Bake!Checked(c)),
           errors' = errors, healthy' \in Nat, healthy' <= clock,
           \/ env.remote
           \/ c.start = Bake!None /\ clock <= c.expiry
           \/ c.start # Bake!None /\ clock - c.start < Window
    PROVE  Bake!OnTime'
<1> USE DEF Bake!None
<1>1. /\ times' \in Times /\ state' = state
      /\ times'.expiry = times.expiry /\ times'.start = times.start /\ times'.first = times.first
  BY BkChecked DEF Bake!BakeInv, Bake!BakeTimes
<1>2. /\ state = "HealthChecking" /\ c.expiry # 0 /\ env' = env /\ clock' = clock /\ idle' = 0
  BY DEF Bake!MayCheck, Bake!Reconciled
<1>3. Bake!LastReconcile' = clock
  BY <1>2, BkCopy DEF Bake!LastReconcile
<1>4. Bake!Cost' = Bake!Cost /\ Bake!Cost \in Nat
  BY BkCost DEF Bake!BakeInv, Bake!BakeTimes
<1>5. times.expiry # 0
  BY <1>2, BkCopy
<1>6. CASE env.remote \/ env.stale
  BY <1>2, <1>6, BkCopy, BkConstants DEF Bake!OnTime, Bake!BakeInv
<1>7. CASE ~env.remote /\ ~env.stale /\ times.first = 0
  <2>1. c = times /\ times.start = 0
    BY <1>7, BkCopy DEF Bake!CopyTimes
  <2>2. clock <= times.expiry
    BY <1>7, <2>1
  <2> QED BY <1>1, <1>2, <1>3, <1>4, <1>5, <1>7, <2>1, <2>2, BkCopy, BkConstants
          DEF Bake!OnTime, Bake!BakeInv, Times
<1>8. CASE ~env.remote /\ ~env.stale /\ times.first # 0
  <2>1. c = times
    BY <1>8, BkCopy
  <2>2. times.start = 0 => clock <= times.first + MaxDuration
    BY <1>2, <1>8, <2>1, BkCopy, BkConstants DEF Bake!BakeInv, Bake!BakeTimes, Bake!bakeDeadline, Times
  <2>3. times.start # 0 => clock < times.start + Window
    BY <1>8, <2>1, BkCopy, BkConstants DEF Times
  <2> QED BY <1>1, <1>2, <1>3, <1>4, <1>5, <1>8, <2>1, <2>2, <2>3, BkCopy, BkConstants
          DEF Bake!OnTime, Bake!BakeInv, Times
<1> QED BY <1>6, <1>7, <1>8

\* The history after a check.
LEMMA BkResult ==
    ASSUME Bake!BakeInv, NEW h \in BOOLEAN, Bake!Result(h)
    PROVE  /\ healthy' \in Nat /\ healthy' <= clock
           /\ h => IF healthy = Bake!None THEN healthy' = clock ELSE healthy' = healthy
BY DEF Bake!Result, Bake!BakeInv, Bake!BakeTimes, Bake!TypeOK, Bake!OnTime, Bake!None

LEMMA BkErrors == ASSUME Bake!BakeInv PROVE errors \in Nat /\ errors <= MaxErrors
BY DEF Bake!BakeInv, Bake!BakeTimes, Bake!TypeOK, Bake!OnTime

\* A verdict that ends the step leaves everything else in its place.
LEMMA BkVerdict ==
    ASSUME Bake!BakeInv, NEW c \in Bake!Copies, NEW h \in BOOLEAN, state = "HealthChecking",
           \/ Bake!applyHealthFailurePolicy(c)
           \/ \E s \in {"Failed", "AbortedByAlarm", "RollingBack", "Superseded"} : Bake!transition(c, s),
           Bake!Result(h) \/ healthy' = healthy, Bake!Reconciled, Bake!Kept
    PROVE  Bake!BakeInv'
<1>1. healthy' \in Nat /\ healthy' <= clock
  BY BkResult DEF Bake!BakeInv, Bake!BakeTimes, Bake!TypeOK, Bake!OnTime
<1>2. errors' \in Nat /\ errors' <= MaxErrors /\ baked' = baked
  BY BkErrors DEF Bake!Kept
<1>3. CASE Bake!applyHealthFailurePolicy(c)
  BY <1>1, <1>2, <1>3, BkFails
<1>4. CASE \E s \in {"Failed", "AbortedByAlarm", "RollingBack", "Superseded"} : Bake!transition(c, s)
  BY <1>1, <1>2, <1>4, BkTransition
<1> QED BY <1>3, <1>4

LEMMA BkDeadlinePassed ==
    ASSUME Bake!BakeInv, NEW c \in Bake!Copies, Bake!BakeDeadlinePassed(c) PROVE Bake!BakeInv'
BY BkVerdict DEF Bake!BakeDeadlinePassed

LEMMA BkTerminal == ASSUME Bake!BakeInv, NEW c \in Bake!Copies, Bake!TerminalResult(c) PROVE Bake!BakeInv'
BY BkVerdict DEF Bake!TerminalResult, Bake!MayCheck

LEMMA BkNewer ==
    ASSUME Bake!BakeInv, NEW c \in Bake!Copies, NEW h \in BOOLEAN, Bake!NewerPushed(c, h) PROVE Bake!BakeInv'
BY BkVerdict DEF Bake!NewerPushed, Bake!MayCheck

LEMMA BkTimedOut == ASSUME Bake!BakeInv, NEW c \in Bake!Copies, Bake!TimedOut(c) PROVE Bake!BakeInv'
BY BkVerdict DEF Bake!TimedOut, Bake!MayCheck

LEMMA BkAlarm ==
    ASSUME Bake!BakeInv, NEW c \in Bake!Copies, NEW notFound \in BOOLEAN, Bake!Alarm(c, notFound)
    PROVE  Bake!BakeInv'
BY BkVerdict DEF Bake!Alarm, Bake!MayCheck

\* A check that notes its time, and that nothing is wrong with.
LEMMA BkWaits ==
    ASSUME Bake!BakeInv, NEW c \in Bake!Copies, NEW h \in BOOLEAN, Bake!MayCheck(c),
           Bake!Patch(c, Bake!Checked(c)), Bake!Result(h), Bake!Reconciled, Bake!Kept,
           \/ env.remote
           \/ c.start = Bake!None /\ clock <= c.expiry
           \/ c.start # Bake!None /\ clock - c.start < Window,
           h \/ c.start = Bake!None \/ ~env.bake
    PROVE  Bake!BakeInv'
<1> USE DEF Bake!None
<1>1. /\ healthy' \in Nat /\ healthy' <= clock
      /\ h => IF healthy = Bake!None THEN healthy' = clock ELSE healthy' = healthy
  BY BkResult
<1>2. errors' = errors /\ baked' = baked /\ errors' \in Nat /\ errors' <= MaxErrors
  BY BkErrors DEF Bake!Kept
<1>3. Bake!OnTime'
  BY <1>1, <1>2, BkNotedOnTime
<1>4. /\ state' = state /\ times'.start = times.start /\ env' = env
  BY BkChecked DEF Bake!BakeInv, Bake!BakeTimes, Bake!Reconciled
<1>5. ~env.stale => c = times
  BY BkCopy
<1>6. Bake!WindowIsHealthy'
  BY <1>1, <1>4, <1>5 DEF Bake!BakeInv, Bake!WindowIsHealthy
<1> QED BY <1>1, <1>2, <1>3, <1>6, BkNoted

LEMMA BkNotYet == ASSUME Bake!BakeInv, NEW c \in Bake!Copies, Bake!NotHealthyYet(c) PROVE Bake!BakeInv'
<1> USE DEF Bake!None
<1>1. c.start = 0 => clock <= c.expiry
  BY BkCopy DEF Bake!NotHealthyYet, Bake!expired, Times
<1>2. CASE c.start = 0
  BY <1>1, <1>2, BkWaits DEF Bake!NotHealthyYet
<1>3. CASE c.start # 0
  <2>1. env.stale \/ env.remote
    <3>1. c.first # 0 /\ c.first <= times.first /\ c \in Times /\ times \in Times
      BY <1>3, BkCopy DEF Bake!CopyTimes
    <3>2. times.first # 0
      BY <3>1 DEF Times
    <3>3. times.expiry # 0 /\ state = "HealthChecking" /\ ~env.bake
      BY BkCopy DEF Bake!NotHealthyYet, Bake!MayCheck
    <3> QED BY <3>2, <3>3 DEF Bake!BakeInv, Bake!OnTime
  <2>2. /\ healthy' \in Nat /\ healthy' <= clock /\ errors' = errors /\ baked' = baked
        /\ errors \in Nat /\ errors <= MaxErrors
    BY BkResult, BkErrors DEF Bake!NotHealthyYet, Bake!Kept
  <2>3. /\ state' = state /\ times'.start = times.start /\ env' = env /\ clock' = clock /\ idle' = 0
        /\ Bake!MayCheck(c) /\ Bake!Patch(c, Bake!Checked(c)) /\ Bake!Reconciled /\ ~env.bake
    BY BkChecked DEF Bake!BakeInv, Bake!BakeTimes, Bake!Reconciled, Bake!NotHealthyYet
  <2>4. Bake!OnTime'
    BY <2>1, <2>2, <2>3, BkCopy, BkConstants DEF Bake!OnTime, Bake!BakeInv
  <2>5. Bake!WindowIsHealthy'
    BY <2>3 DEF Bake!WindowIsHealthy
  <2> QED BY <2>2, <2>3, <2>4, <2>5, BkNoted
<1> QED BY <1>2, <1>3

LEMMA BkBefore ==
    ASSUME Bake!BakeInv, NEW c \in Bake!Copies, NEW result, Bake!BakeNotStarted(c, result) PROVE Bake!BakeInv'
<1>1. c.start = Bake!None /\ clock <= c.expiry
  BY BkCopy DEF Bake!BakeNotStarted, Bake!expired, Times
<1> QED BY <1>1, BkWaits DEF Bake!BakeNotStarted

LEMMA BkAdvance == ASSUME Bake!BakeInv, NEW c \in Bake!Copies, Bake!AdvanceWindow(c) PROVE Bake!BakeInv'
BY BkWaits DEF Bake!AdvanceWindow

-----------------------------------------------------------------------------
(* Windows start, stop and complete. *)

LEMMA BkStart == ASSUME Bake!BakeInv, NEW c \in Bake!Copies, Bake!StartWindow(c) PROVE Bake!BakeInv'
<1> USE DEF Bake!None
<1> DEFINE x == IF c.first = 0 THEN clock ELSE c.first
           n == [Bake!Checked(c) EXCEPT !.start = clock, !.first = x]
<1>0. /\ state = "HealthChecking" /\ env' = env /\ clock' = clock /\ newer' = newer /\ c.expiry # 0
      /\ idle' = 0 /\ errors' = errors /\ baked' = baked /\ c.start = 0 /\ env.bake
      /\ ~(Bake!expired(c) /\ Bake!pastBakeDeadline(c))
  BY DEF Bake!StartWindow, Bake!MayCheck, Bake!Reconciled, Bake!Kept
<1>1. /\ healthy' \in Nat /\ healthy' <= clock /\ (healthy' # 0)
  <2>1. Bake!Result(TRUE) /\ clock > 0 /\ clock \in Nat
    BY BkCopy DEF Bake!StartWindow
  <2>2. /\ healthy' \in Nat /\ healthy' <= clock
        /\ IF healthy = 0 THEN healthy' = clock ELSE healthy' = healthy
    BY <2>1, BkResult
  <2> QED BY <2>1, <2>2
<1>2. Bake!Patch(c, n)
  BY DEF Bake!StartWindow
<1>3. x \in Nat /\ x <= clock /\ x # 0
  BY BkCopy DEF Times, Bake!CopyTimes
<1>4. x = IF c.first = 0 THEN clock ELSE c.first
  OBVIOUS
<1> HIDE DEF x
<1>5. n \in Times /\ n.expiry = c.expiry /\ n.start = clock /\ n.first = x
  BY <1>3, BkCopy DEF Bake!Checked, Times
<1> HIDE DEF n
<1>6. /\ times' \in Times /\ prev' \in Times /\ state' = state
      /\ prev' = IF env.stale THEN times ELSE times'
      /\ times'.expiry = times.expiry /\ times'.start = clock
      /\ times'.first = IF x # c.first THEN x ELSE times.first
  BY <1>0, <1>2, <1>5, BkCopy, BkPatch DEF Bake!BakeInv, Bake!BakeTimes, Times
<1>7. Bake!TypeOK'
  BY <1>0, <1>1, <1>6 DEF Bake!BakeInv, Bake!BakeTimes, Bake!TypeOK, Times
<1>8. times'.first # 0 /\ times.first <= times'.first /\ times'.first <= clock
  BY <1>3, <1>4, <1>6, BkCopy DEF Bake!CopyTimes, Times
<1>9. Bake!BakeTimes' /\ Bake!CopyTimes(times)' /\ Bake!CopyTimes(prev)' /\ Bake!CopyBehind'
  BY <1>0, <1>6, <1>7, <1>8, BkCopy, BkWrite
<1>10. Bake!WindowIsHealthy' /\ Bake!ContiguousBake'
  BY <1>0, <1>1, <1>6 DEF Bake!WindowIsHealthy, Bake!ContiguousBake
<1>11. Bake!OnTime'
  <2>1. Bake!LastReconcile' = clock
    BY <1>0, BkCopy DEF Bake!LastReconcile
  <2>2. clock <= Bake!LastReconcile + MaxGap /\ Bake!LastReconcile \in Nat
    BY BkGap DEF Bake!BakeInv, Bake!BakeTimes
  <2>3. Bake!Cost' = Bake!Cost /\ Bake!Cost \in Nat
    BY <1>0, BkCost DEF Bake!BakeInv, Bake!BakeTimes
  <2>4. CASE env.remote \/ env.stale
    BY <1>0, <1>1, <2>4, BkErrors, BkCopy, BkConstants DEF Bake!OnTime
  <2>5. CASE ~env.remote /\ ~env.stale /\ times.first = 0
    <3>1. times'.first = clock
      BY <1>3, <1>4, <1>6, <2>5, BkCopy
    <3>2. clock <= 1 + 2 * MaxGap + Timeout + Bake!Cost
      BY <1>0, <2>2, <2>3, <2>5, BkCopy, BkConstants DEF Bake!BakeInv, Bake!OnTime
    <3> QED BY <1>0, <1>1, <1>6, <2>1, <2>3, <3>1, <3>2, BkErrors, BkCopy, BkConstants DEF Bake!OnTime
  <2>6. CASE ~env.remote /\ ~env.stale /\ times.first # 0
    <3>1. c = times /\ times'.first = times.first
      BY <1>4, <1>6, <2>6, BkCopy
    <3>2. clock <= times.first + MaxDuration
      BY <1>0, <2>6, <3>1, BkCopy, BkConstants
         DEF Bake!BakeInv, Bake!BakeTimes, Bake!bakeDeadline, Bake!pastBakeDeadline, Bake!expired, Times
    <3>3. times.first <= 1 + 2 * MaxGap + Timeout + Bake!Cost
      BY <1>0, <2>6, BkCopy DEF Bake!BakeInv, Bake!OnTime
    <3>4. times.first \in Nat /\ clock \in Nat /\ clock > 0
      BY BkCopy DEF Times
    <3>5. /\ times'.first <= 1 + 2 * MaxGap + Timeout + Bake!Cost'
          /\ times'.start <= times'.first + MaxDuration
          /\ Bake!LastReconcile' <= 1 + 2 * MaxGap + Timeout + MaxDuration + Window + Bake!Cost'
      BY <1>6, <2>1, <2>3, <3>1, <3>2, <3>3, <3>4, BkConstants
    <3>6. times'.first # 0 /\ times'.expiry # 0
      BY <1>0, <1>6, <2>6, <3>1
    <3> QED BY <1>0, <1>1, <3>4, <3>5, <3>6, BkErrors, BkConstants DEF Bake!OnTime
  <2> QED BY <2>4, <2>5, <2>6
<1> QED BY <1>9, <1>10, <1>11 DEF Bake!BakeInv

LEMMA BkStop ==
    ASSUME Bake!BakeInv, NEW c \in Bake!Copies, Bake!MayCheck(c), env.bake, c.start # Bake!None,
           ~Bake!pastBakeDeadline(Bake!stopWindow(Bake!Checked(c))),
           Bake!Patch(c, Bake!stopWindow(Bake!Checked(c))), Bake!Result(FALSE), Bake!Reconciled, Bake!Kept
    PROVE  Bake!BakeInv'
<1> USE DEF Bake!None
<1> DEFINE n == Bake!stopWindow(Bake!Checked(c))
<1>0. /\ state = "HealthChecking" /\ env' = env /\ clock' = clock /\ newer' = newer /\ c.expiry # 0
      /\ idle' = 0 /\ errors' = errors /\ baked' = baked
  BY DEF Bake!MayCheck, Bake!Reconciled, Bake!Kept
<1>1. healthy' \in Nat /\ healthy' <= clock
  BY BkResult
<1>2. /\ n \in Times /\ n.start = 0 /\ n.first = c.first
      /\ n.expiry <= Bake!bakeDeadline(c) /\ n.expiry \in {Bake!bakeDeadline(c), clock + Timeout}
      /\ c.first # 0 => Bake!bakeDeadline(n) = Bake!bakeDeadline(c)
  BY BkStopped DEF Bake!BakeInv, Bake!BakeTimes
<1>3. Bake!Patch(c, n) /\ ~Bake!pastBakeDeadline(n)
  OBVIOUS
<1> HIDE DEF n
<1>4. c.first # 0 /\ c.first \in Nat /\ times.first \in Nat /\ times.first # 0 /\ c.first <= times.first
  BY BkCopy DEF Bake!CopyTimes, Times
<1>5. Bake!bakeDeadline(c) = c.first + MaxDuration
  BY <1>4 DEF Bake!bakeDeadline
<1>6. /\ times' \in Times /\ prev' \in Times /\ state' = state
      /\ prev' = IF env.stale THEN times ELSE times'
      /\ times'.expiry = IF n.expiry # c.expiry THEN n.expiry ELSE times.expiry
      /\ times'.start = 0
      /\ times'.first = times.first
  <2>1. /\ times' \in Times /\ prev' \in Times /\ state' = state
        /\ prev' = IF env.stale THEN times ELSE times'
        /\ \A f \in {"expiry", "start", "first", "last", "verify"} :
                 times'[f] = IF n[f] # c[f] THEN n[f] ELSE times[f]
    BY <1>2, <1>3, BkPatch DEF Bake!BakeInv, Bake!BakeTimes
  <2> QED BY <1>2, <2>1
<1>7. Bake!TypeOK'
  BY <1>0, <1>1, <1>6 DEF Bake!BakeInv, Bake!BakeTimes, Bake!TypeOK, Times
<1>8. n.expiry # 0 /\ n.expiry \in Nat
  BY <1>2, <1>4, <1>5, BkCopy, BkConstants
<1>9. times.start = 0 => times.expiry <= times.first + MaxDuration
  BY <1>0, <1>4 DEF Bake!BakeInv, Bake!BakeTimes, Bake!bakeDeadline
<1>10. times'.expiry # 0 /\ times'.expiry <= times.first + MaxDuration
  <2>1. CASE n.expiry # c.expiry
    BY <1>2, <1>4, <1>5, <1>6, <1>8, <2>1, BkConstants
  <2>2. CASE n.expiry = c.expiry /\ times.expiry = c.expiry
    BY <1>2, <1>4, <1>5, <1>6, <1>8, <2>2, BkConstants
  <2>3. CASE n.expiry = c.expiry /\ times.expiry # c.expiry
    BY <1>0, <1>6, <1>9, <2>3, BkCopy
  <2> QED BY <2>1, <2>2, <2>3
<1>11. Bake!BakeTimes' /\ Bake!CopyTimes(times)' /\ Bake!CopyTimes(prev)' /\ Bake!CopyBehind'
  <2>1. times.first <= clock /\ clock \in Nat /\ times.expiry # 0
    BY <1>0, BkCopy DEF Bake!CopyTimes
  <2> QED BY <1>0, <1>4, <1>6, <1>7, <1>10, <2>1, BkWrite
<1>12. Bake!WindowIsHealthy' /\ Bake!ContiguousBake'
  BY <1>0, <1>6 DEF Bake!WindowIsHealthy, Bake!ContiguousBake
<1>13. Bake!OnTime'
  <2>1. Bake!LastReconcile' = clock
    BY <1>0, BkCopy DEF Bake!LastReconcile
  <2>3. Bake!Cost' = Bake!Cost /\ Bake!Cost \in Nat
    BY <1>0, BkCost DEF Bake!BakeInv, Bake!BakeTimes
  <2>4. CASE env.remote \/ env.stale
    BY <1>0, <1>1, <2>4, BkErrors, BkCopy, BkConstants DEF Bake!OnTime
  <2>5. CASE ~env.remote /\ ~env.stale
    <3>1. c = times
      BY <2>5, BkCopy
    <3>2. clock < times.first + MaxDuration
      BY <1>2, <1>3, <1>4, <1>5, <3>1, BkCopy, BkConstants DEF Bake!pastBakeDeadline
    <3>3. times.first <= 1 + 2 * MaxGap + Timeout + Bake!Cost
      BY <1>0, <1>4, <2>5, BkCopy DEF Bake!BakeInv, Bake!OnTime
    <3> QED BY <1>0, <1>1, <1>4, <1>6, <1>10, <2>1, <2>3, <2>5, <3>2, <3>3, BkErrors, BkCopy, BkConstants
            DEF Bake!OnTime
  <2> QED BY <2>4, <2>5
<1> QED BY <1>11, <1>12, <1>13 DEF Bake!BakeInv

LEMMA BkStopWindow ==
    ASSUME Bake!BakeInv, NEW c \in Bake!Copies, NEW result, Bake!StopWindow(c, result) PROVE Bake!BakeInv'
<1>1. CASE Bake!applyHealthFailurePolicy(c)
  BY <1>1, BkVerdict DEF Bake!StopWindow, Bake!MayCheck
<1>2. CASE ~Bake!applyHealthFailurePolicy(c)
  BY <1>2, BkStop DEF Bake!StopWindow
<1> QED BY <1>1, <1>2

LEMMA BkUnreachable ==
    ASSUME Bake!BakeInv, NEW c \in Bake!Copies, Bake!ClusterUnreachable(c) PROVE Bake!BakeInv'
<1>1. CASE Bake!applyHealthFailurePolicy(c)
  BY <1>1, BkVerdict DEF Bake!ClusterUnreachable, Bake!MayCheck
<1>2. CASE ~Bake!applyHealthFailurePolicy(c) /\ env.bake /\ c.start # Bake!None
  BY <1>2, BkStop DEF Bake!ClusterUnreachable
<1>3. CASE ~(env.bake /\ c.start # Bake!None)
  BY <1>3, BkWaits DEF Bake!ClusterUnreachable
<1> QED BY <1>1, <1>2, <1>3

\* The health check passes.
LEMMA BkPass ==
    ASSUME Bake!BakeInv, NEW c \in Bake!Copies, state = "HealthChecking", Bake!passHealth(c), Bake!Reconciled,
           errors' = errors, healthy' \in Nat, healthy' <= clock,
           ~env.stale /\ env.bake => clock - healthy' >= Window
    PROVE  Bake!BakeInv'
<1> USE DEF Bake!None
<1>0. /\ env' = env /\ clock' = clock /\ newer' = newer /\ idle' = 0
  BY DEF Bake!Reconciled
<1>1. CASE c # times
  <2>1. env.stale /\ prev' = times
    BY <1>1, BkCopy DEF Bake!passHealth
  <2>2. UNCHANGED <<state, times, baked>>
    BY <1>1 DEF Bake!passHealth
  <2>3. Bake!TypeOK'
    BY <1>0, <2>1, <2>2 DEF Bake!BakeInv, Bake!BakeTimes, Bake!TypeOK
  <2>4. Bake!BakeTimes'
    BY <2>2, <2>3 DEF Bake!BakeInv, Bake!BakeTimes, Bake!bakeDeadline
  <2>5. Bake!CopyTimes(times)' /\ Bake!CopyTimes(prev)' /\ Bake!CopyBehind'
    BY <1>0, <2>1, <2>2, BkCopy DEF Bake!BakeInv, Bake!CopyTimes, Bake!CopyBehind, Times
  <2>6. Bake!WindowIsHealthy' /\ Bake!ContiguousBake'
    BY <1>0, <2>1 DEF Bake!WindowIsHealthy, Bake!ContiguousBake
  <2>7. Bake!OnTime'
    BY <1>0, <2>1, BkErrors, BkCopy, BkConstants DEF Bake!OnTime
  <2> QED BY <2>4, <2>5, <2>6, <2>7 DEF Bake!BakeInv
<1>2. CASE c = times
  <2>1. /\ state' \in {"Verifying", "Verified"} /\ baked' = clock - healthy' /\ prev' = times'
        /\ times' = IF env.verifies THEN [times EXCEPT !.verify = clock] ELSE times
    BY <1>0, <1>2 DEF Bake!passHealth
  <2>2. /\ times' \in Times /\ times'.expiry = times.expiry /\ times'.start = times.start
        /\ times'.first = times.first
    BY <2>1, BkCopy DEF Times
  <2>3. Bake!TypeOK'
    BY <1>0, <2>1, <2>2, BkCopy DEF Bake!BakeInv, Bake!BakeTimes, Bake!TypeOK, Bake!Ended, Times
  <2>4. Bake!BakeTimes'
    BY <2>1, <2>2, <2>3 DEF Bake!BakeInv, Bake!BakeTimes
  <2>5. Bake!CopyTimes(times)' /\ Bake!CopyTimes(prev)' /\ Bake!CopyBehind'
    BY <1>0, <2>1, <2>2, BkCopy DEF Bake!CopyTimes, Bake!CopyBehind, Times
  <2>6. Bake!WindowIsHealthy' /\ Bake!ContiguousBake'
    BY <1>0, <2>1 DEF Bake!WindowIsHealthy, Bake!ContiguousBake
  <2>7. Bake!OnTime'
    BY <1>0, <2>1, BkErrors, BkCopy, BkConstants DEF Bake!OnTime
  <2> QED BY <2>4, <2>5, <2>6, <2>7 DEF Bake!BakeInv
<1> QED BY <1>1, <1>2

LEMMA BkHealthy == ASSUME Bake!BakeInv, NEW c \in Bake!Copies, Bake!Healthy(c) PROVE Bake!BakeInv'
<1>1. healthy' \in Nat /\ healthy' <= clock
  BY BkResult DEF Bake!Healthy
<1> QED BY <1>1, BkPass DEF Bake!Healthy, Bake!MayCheck

LEMMA BkComplete == ASSUME Bake!BakeInv, NEW c \in Bake!Copies, Bake!CompleteWindow(c) PROVE Bake!BakeInv'
<1>1. /\ healthy' \in Nat /\ healthy' <= clock
      /\ IF healthy = Bake!None THEN healthy' = clock ELSE healthy' = healthy
  BY BkResult DEF Bake!CompleteWindow
<1>2. ~env.stale /\ env.bake => clock - healthy' >= Window
  <2>1. SUFFICES ASSUME ~env.stale, env.bake PROVE clock - healthy' >= Window
    OBVIOUS
  <2>2. c = times
    BY <2>1, BkCopy
  <2>3. healthy # Bake!None /\ healthy <= times.start /\ clock - times.start >= Window
    BY <2>1, <2>2 DEF Bake!CompleteWindow, Bake!MayCheck, Bake!BakeInv, Bake!WindowIsHealthy
  <2>4. times.start \in Nat /\ clock \in Nat /\ healthy' = healthy /\ Window \in Nat
    BY <1>1, <2>3, BkCopy, BkConstants DEF Times
  <2> QED BY <1>1, <2>3, <2>4
<1> QED BY <1>1, <1>2, BkPass DEF Bake!CompleteWindow, Bake!MayCheck

LEMMA BkNow ==
    ASSUME Bake!BakeInv
    PROVE  /\ times \in Times /\ prev \in Times /\ clock \in Nat /\ clock > 0
           /\ Bake!CopyTimes(times) /\ times \in Bake!Copies
BY DEF Bake!BakeInv, Bake!BakeTimes, Bake!TypeOK, Bake!OnTime, Bake!Copies, Times

LEMMA BkCheck == ASSUME Bake!BakeInv, NEW c \in Bake!Copies, Bake!Check(c) PROVE Bake!BakeInv'
BY BkSetExpiry, BkDeadlinePassed, BkCheckError, BkTerminal, BkNewer, BkTimedOut, BkHealthy, BkNotYet,
   BkAlarm, BkBefore, BkStopWindow, BkStart, BkAdvance, BkComplete, BkUnreachable
   DEF Bake!Check

-----------------------------------------------------------------------------
(* Verification, and what happens around the step. *)

\* A step that is not in HealthChecking any more.
LEMMA BkAfter ==
    ASSUME Bake!BakeInv, state = "Verifying", state' \in Bake!Ended \cup {"Verifying"},
           Bake!Reconciled, Bake!Kept, UNCHANGED <<times, prev, healthy>>
    PROVE  Bake!BakeInv'
<1> USE DEF Bake!None
<1>1. /\ env' = env /\ clock' = clock /\ newer' = newer /\ idle' = 0 /\ errors' = errors /\ baked' = baked
      /\ times' = times /\ prev' = prev /\ healthy' = healthy
  BY DEF Bake!Reconciled, Bake!Kept
<1>2. state' # "HealthChecking"
  BY DEF Bake!Ended
<1>3. Bake!TypeOK'
  BY <1>1 DEF Bake!BakeInv, Bake!BakeTimes, Bake!TypeOK
<1>4. Bake!BakeTimes' /\ Bake!CopyTimes(times)' /\ Bake!CopyTimes(prev)' /\ Bake!CopyBehind'
  BY <1>1, <1>2, <1>3 DEF Bake!BakeInv, Bake!BakeTimes, Bake!CopyTimes, Bake!CopyBehind
<1>5. Bake!WindowIsHealthy' /\ Bake!ContiguousBake'
  BY <1>1, <1>2 DEF Bake!BakeInv, Bake!WindowIsHealthy, Bake!ContiguousBake
<1>6. Bake!OnTime'
  BY <1>1, <1>2, BkErrors, BkNow, BkConstants DEF Bake!OnTime, Bake!BakeInv
<1> QED BY <1>4, <1>5, <1>6 DEF Bake!BakeInv

\* The state of the step stays as it is.
LEMMA BkAround ==
    ASSUME Bake!BakeInv, UNCHANGED <<env, state, times, errors, healthy, baked>>,
           newer' \in BOOLEAN, prev' \in {prev, times},
           clock' \in Nat, clock' >= clock, idle' \in Nat, idle' <= MaxGap,
           clock' - idle' = clock - idle
    PROVE  Bake!BakeInv'
<1> USE DEF Bake!None
<1>0. idle' <= clock'
  <2>1. idle \in Nat /\ clock \in Nat /\ idle <= clock
    BY DEF Bake!BakeInv, Bake!BakeTimes, Bake!TypeOK, Bake!OnTime
  <2>2. clock' - idle' = clock - idle /\ clock' \in Nat /\ idle' \in Nat
    OBVIOUS
  <2>3. \A a, b, c, d \in Nat : a - b = c - d /\ d <= c => b <= a
    OBVIOUS
  <2> QED BY <2>1, <2>2, <2>3
<1>1. Bake!TypeOK'
  BY DEF Bake!BakeInv, Bake!BakeTimes, Bake!TypeOK
<1>2. Bake!BakeTimes'
  BY <1>1 DEF Bake!BakeInv, Bake!BakeTimes, Bake!bakeDeadline
<1>3. Bake!CopyTimes(times)' /\ Bake!CopyTimes(prev)' /\ Bake!CopyBehind'
  BY BkNow DEF Bake!BakeInv, Bake!CopyTimes, Bake!CopyBehind, Times
<1>4. Bake!WindowIsHealthy' /\ Bake!ContiguousBake'
  BY DEF Bake!BakeInv, Bake!WindowIsHealthy, Bake!ContiguousBake
<1>5. Bake!OnTime'
  <2>1. Bake!LastReconcile' = Bake!LastReconcile /\ Bake!Cost' = Bake!Cost
    BY DEF Bake!LastReconcile, Bake!Cost
  <2>2. healthy \in Nat /\ healthy <= clock /\ clock > 0 /\ clock \in Nat
    BY BkNow DEF Bake!BakeInv, Bake!BakeTimes, Bake!TypeOK, Bake!OnTime
  <2>3. clock' > 0 /\ healthy' <= clock'
    BY <2>2
  <2> QED BY <1>0, <2>1, <2>3 DEF Bake!BakeInv, Bake!OnTime
<1> QED BY <1>2, <1>3, <1>4, <1>5 DEF Bake!BakeInv

LEMMA BkStep == ASSUME Bake!BakeInv, [Bake!Next]_bakeVars PROVE Bake!BakeInv'
<1>0. clock \in Nat /\ idle \in Nat /\ idle <= MaxGap /\ newer \in BOOLEAN /\ MaxGap \in Nat
  BY BkConstants DEF Bake!BakeInv, Bake!BakeTimes, Bake!TypeOK, Bake!OnTime
<1>1. CASE \E c \in Bake!Copies : Bake!Check(c)
  BY <1>1, BkCheck
<1>2. CASE Bake!VerificationPasses \/ Bake!VerificationFails \/ Bake!VerificationWaits
  <2>1. state' \in Bake!Ended \cup {"Verifying"}
    BY <1>2 DEF Bake!VerificationPasses, Bake!VerificationFails, Bake!VerificationWaits, Bake!FailureStates, Bake!Ended
  <2>2. state = "Verifying" /\ Bake!Reconciled /\ Bake!Kept /\ UNCHANGED <<times, prev, healthy>>
    BY <1>2 DEF Bake!VerificationPasses, Bake!VerificationFails, Bake!VerificationWaits
  <2> QED BY <2>1, <2>2, BkAfter
<1>3. CASE Bake!PushNewer \/ Bake!SyncCache
  <2>1. /\ clock' = clock /\ idle' = idle /\ newer' \in BOOLEAN /\ prev' \in {prev, times}
        /\ UNCHANGED <<env, state, times, errors, healthy, baked>>
    BY <1>0, <1>3 DEF Bake!PushNewer, Bake!SyncCache
  <2>2. clock' >= clock /\ clock' - idle' = clock - idle
    BY <1>0, <2>1
  <2> QED BY <1>0, <2>1, <2>2, BkAround
<1>4. CASE Bake!Tick
  <2>1. /\ clock' = clock + 1 /\ idle' = idle + 1 /\ idle < MaxGap /\ newer' = newer /\ prev' = prev
        /\ UNCHANGED <<env, state, times, errors, healthy, baked>>
    BY <1>4 DEF Bake!Tick
  <2> QED BY <1>0, <2>1, BkAround
<1>5. CASE UNCHANGED bakeVars
  BY <1>0, <1>5, BkAround DEF bakeVars
<1> QED BY <1>1, <1>2, <1>3, <1>4, <1>5 DEF Bake!Next

-----------------------------------------------------------------------------
(* What BakeInv gives. *)

LEMMA BkEnds == ASSUME Bake!BakeInv PROVE Bake!EndsInTime
<1> USE DEF Bake!None
<1> SUFFICES ASSUME ~env.remote, ~env.stale, state = "HealthChecking" PROVE clock <= Bake!LatestEnd
  BY DEF Bake!EndsInTime
<1>1. clock <= Bake!LastReconcile + MaxGap /\ Bake!LastReconcile \in Nat /\ clock \in Nat
  BY BkGap, BkNow DEF Bake!BakeInv, Bake!BakeTimes
<1>2. Bake!Cost \in Nat /\ Bake!Cost <= MaxGap * MaxErrors
  BY BkCost, BkErrors DEF Bake!BakeInv, Bake!BakeTimes
<1>3. MaxGap * (3 + MaxErrors) = 3 * MaxGap + MaxGap * MaxErrors /\ MaxGap * MaxErrors \in Nat
  BY BkConstants
<1> DEFINE cost == MaxGap * MaxErrors
<1>4. /\ cost \in Nat /\ Bake!Cost <= cost
      /\ Bake!LatestEnd = 1 + Timeout + 3 * MaxGap + cost + (IF env.bake THEN MaxDuration + Window ELSE 0)
  BY <1>2, <1>3, BkConstants DEF Bake!LatestEnd
<1> HIDE DEF cost
<1>5. Bake!LastReconcile <= 1 + 2 * MaxGap + Timeout + Bake!Cost + (IF env.bake THEN MaxDuration + Window ELSE 0)
  <2>1. times.first = 0 \/ env.bake
    BY BkNow DEF Bake!BakeInv, Bake!OnTime, Bake!CopyTimes
  <2>2. times.first # 0 => times.expiry # 0
    BY BkNow DEF Bake!CopyTimes
  <2> QED BY <1>1, <1>2, <2>1, <2>2, BkConstants DEF Bake!BakeInv, Bake!OnTime
<1> QED BY <1>1, <1>2, <1>4, <1>5, BkConstants

\* The first start is written once.
LEMMA BkFirst == ASSUME Bake!BakeInv, [Bake!Next]_bakeVars PROVE Bake!KeepsFirstStart
<1> USE DEF Bake!None
<1> SUFFICES ASSUME ~env.stale, times.first # 0, Bake!Next PROVE times'.first = times.first
  BY DEF Bake!KeepsFirstStart, bakeVars
<1>0. times \in Times /\ times.expiry # 0 /\ Bake!TypeOK
  BY BkNow DEF Bake!CopyTimes, Bake!BakeInv, Bake!BakeTimes
<1>1. ASSUME NEW c \in Bake!Copies, Bake!Check(c) PROVE times'.first = times.first
  <2>0. c = times
    BY BkCopy
  <2>1. ~Bake!SetExpiry(c)
    BY <1>0, <2>0 DEF Bake!SetExpiry
  <2>2. ASSUME Bake!applyHealthFailurePolicy(c) \/ Bake!transition(c, "Superseded") PROVE times'.first = times.first
    BY <2>2 DEF Bake!applyHealthFailurePolicy, Bake!transition
  <2>3. ASSUME Bake!passHealth(c) PROVE times'.first = times.first
    BY <2>3, <1>0 DEF Bake!passHealth, Times
  <2>4. ASSUME Bake!Patch(c, Bake!Checked(c)) PROVE times'.first = times.first
    BY <1>0, <2>4, BkChecked
  <2>5. ASSUME c.start # 0, Bake!Patch(c, Bake!stopWindow(Bake!Checked(c))) PROVE times'.first = times.first
    <3>1. Bake!stopWindow(Bake!Checked(c)) \in Times /\ Bake!stopWindow(Bake!Checked(c)).first = c.first
      BY <1>0, <2>5, BkStopped
    <3> QED BY <1>0, <2>5, <3>1, BkPatch
  <2>6. ASSUME Bake!StartWindow(c) PROVE times'.first = times.first
    <3> DEFINE n == [Bake!Checked(c) EXCEPT !.start = clock, !.first = IF c.first = 0 THEN clock ELSE c.first]
    <3>1. Bake!Patch(c, n)
      BY <2>6 DEF Bake!StartWindow
    <3>2. n \in Times /\ n.first = c.first
      BY <1>0, <2>0, BkCopy DEF Bake!Checked, Times
    <3> HIDE DEF n
    <3> QED BY <1>0, <3>1, <3>2, BkPatch
  <2>7. CASE UNCHANGED <<state, times, prev>>
    BY <2>7
  <2>8. CASE \/ Bake!BakeDeadlinePassed(c) \/ Bake!TerminalResult(c) \/ Bake!TimedOut(c)
             \/ \E h \in BOOLEAN : Bake!NewerPushed(c, h) \/ Bake!Alarm(c, h)
    BY <2>2, <2>8 DEF Bake!BakeDeadlinePassed, Bake!TerminalResult, Bake!TimedOut, Bake!NewerPushed, Bake!Alarm
  <2>9. CASE Bake!Healthy(c) \/ Bake!CompleteWindow(c)
    BY <2>3, <2>9 DEF Bake!Healthy, Bake!CompleteWindow
  <2>10. CASE \/ Bake!NotHealthyYet(c) \/ Bake!AdvanceWindow(c)
              \/ \E result \in {"Unhealthy", "NotFound", "Progressing"} : Bake!BakeNotStarted(c, result)
    BY <2>4, <2>10 DEF Bake!NotHealthyYet, Bake!AdvanceWindow, Bake!BakeNotStarted
  <2>11. CASE Bake!CheckError(c)
    BY <2>2, <2>4, <2>11 DEF Bake!CheckError
  <2>12. CASE \E result \in {"Unhealthy", "Progressing"} : Bake!StopWindow(c, result)
    BY <2>2, <2>5, <2>12 DEF Bake!StopWindow
  <2>13. CASE Bake!ClusterUnreachable(c)
    BY <2>2, <2>4, <2>5, <2>13 DEF Bake!ClusterUnreachable
  <2> QED BY <1>1, <2>1, <2>6, <2>8, <2>9, <2>10, <2>11, <2>12, <2>13 DEF Bake!Check
<1>2. CASE \E c \in Bake!Copies : Bake!Check(c)
  BY <1>1, <1>2
<1>3. CASE ~\E c \in Bake!Copies : Bake!Check(c)
  BY <1>3 DEF Bake!Next, Bake!VerificationPasses, Bake!VerificationFails, Bake!VerificationWaits, Bake!PushNewer,
       Bake!SyncCache, Bake!Tick
<1> QED BY <1>2, <1>3

\* BakeSafe, for every configuration, timeout, window and outage: a step passes its bake only
\* after a whole window of Healthy results in a row (handleBake), the times of its windows fit
\* together and its first window's start is never moved (stopWindow, bakeDeadline), and a
\* release that flaps is not checked for longer than the deadline, the outages and the failed
\* checks allow (applyHealthFailurePolicy).
THEOREM BakeIsSafe == PartsSpec => BakeSafe
<1> DEFINE Inv == part = "bake" => Bake!BakeInv
<1>1. PartsInit => Inv
  BY PartStarts, BkInit
<1>2. Inv /\ [PartsNext]_partVars => Inv'
  BY PartSteps, BkStep
<1>3. Inv => (part = "bake" => Bake!ContiguousBake /\ Bake!BakeTimes /\ Bake!EndsInTime)
  BY BkEnds DEF Bake!BakeInv
<1>4. Inv /\ [PartsNext]_partVars => [part = "bake" => Bake!KeepsFirstStart]_partVars
  BY PartSteps, BkFirst
<1> QED BY <1>1, <1>2, <1>3, <1>4, PTL DEF PartsSpec, BakeSafe
-----------------------------------------------------------------------------
(* ChangeRequest: numbers and types. *)

LEMMA CrMax2 ==
    ASSUME NEW a \in Int, NEW b \in Int
    PROVE  Change!Max({a, b}) \in {a, b} /\ Change!Max({a, b}) >= a /\ Change!Max({a, b}) >= b
<1>1. \E x \in {a, b} : \A y \in {a, b} : x >= y
  OBVIOUS
<1> QED BY <1>1 DEF Change!Max

LEMMA CrMin2 ==
    ASSUME NEW a \in Int, NEW b \in Int
    PROVE  Change!Min({a, b}) \in {a, b} /\ Change!Min({a, b}) <= a /\ Change!Min({a, b}) <= b
<1>1. \E x \in {a, b} : \A y \in {a, b} : x <= y
  OBVIOUS
<1> QED BY <1>1 DEF Change!Min

LEMMA CrMax3 ==
    ASSUME NEW a \in Int, NEW b \in Int, NEW c \in Int
    PROVE  /\ Change!Max({a, b, c}) \in {a, b, c}
           /\ Change!Max({a, b, c}) >= a /\ Change!Max({a, b, c}) >= b /\ Change!Max({a, b, c}) >= c
<1>1. \E x \in {a, b, c} : \A y \in {a, b, c} : x >= y
  OBVIOUS
<1> QED BY <1>1 DEF Change!Max

\* The longest waits that a status and a queue keep.
CrRetry == Change!Max({mode.refused, mode.poll})
CrWait == Change!Max({mode.refused, mode.poll, CreateGrace})

LEMMA CrNumbers ==
    ASSUME mode \in ChangeSettings
    PROVE  /\ CreateGrace \in Nat /\ Latency \in Nat /\ Lag \in Nat /\ MaxTickets \in Nat
           /\ Latency + Lag <= CreateGrace /\ Latency < CreateGrace
           /\ mode.poll \in Nat /\ mode.poll > 0 /\ mode.refused \in Nat
           /\ Change!Stale \in Nat /\ Change!Stale > mode.poll
           /\ Change!AgeCap \in Nat /\ Change!AgeCap >= Change!Stale /\ Change!AgeCap >= CreateGrace
           /\ CrRetry \in Nat /\ CrRetry >= mode.poll
           /\ CrWait \in Nat /\ CrWait >= mode.poll /\ CrWait >= CreateGrace /\ CrWait >= CrRetry
           /\ \A r \in Change!Retries : r \in 0 .. CrRetry
<1>1. /\ CreateGrace \in Nat /\ Latency \in Nat /\ Lag \in Nat /\ MaxTickets \in Nat
      /\ Latency + Lag <= CreateGrace /\ Latency < CreateGrace
      /\ mode.poll \in Nat /\ mode.poll > 0 /\ mode.refused \in Nat
  BY PartsAssumption DEF Change!ConstantsOK, Change!Setting
<1>2. Change!Stale \in Nat /\ Change!Stale > mode.poll
  BY <1>1 DEF Change!Stale
<1>3. Change!AgeCap \in Nat /\ Change!AgeCap >= Change!Stale /\ Change!AgeCap >= CreateGrace
  <2>1. Change!Stale \in Int /\ CreateGrace \in Int
    BY <1>1, <1>2
  <2>2. Change!AgeCap \in {Change!Stale, CreateGrace} /\ Change!AgeCap >= Change!Stale /\ Change!AgeCap >= CreateGrace
    BY <2>1, CrMax2, Zenon DEF Change!AgeCap
  <2> QED BY <1>1, <1>2, <2>2
<1>4. CrRetry \in Nat /\ CrRetry >= mode.poll /\ CrRetry \in {mode.refused, mode.poll}
  <2>1. mode.refused \in Int /\ mode.poll \in Int
    BY <1>1
  <2>2. CrRetry \in {mode.refused, mode.poll} /\ CrRetry >= mode.poll
    BY <2>1, CrMax2, Zenon DEF CrRetry
  <2> QED BY <1>1, <2>2
<1>5. /\ CrWait \in Nat /\ CrWait >= mode.poll /\ CrWait >= CreateGrace /\ CrWait >= mode.refused
  <2>1. mode.refused \in Int /\ mode.poll \in Int /\ CreateGrace \in Int
    BY <1>1
  <2>2. /\ CrWait \in {mode.refused, mode.poll, CreateGrace}
        /\ CrWait >= mode.refused /\ CrWait >= mode.poll /\ CrWait >= CreateGrace
    BY <2>1, CrMax3, Zenon DEF CrWait
  <2> QED BY <1>1, <2>2
<1>6. Change!Retries = {mode.poll, CrRetry}
  BY DEF Change!Retries, CrRetry
<1> QED BY <1>1, <1>2, <1>3, <1>4, <1>5, <1>6

\* The parts of a status.
LEMMA CrStatus ==
    ASSUME NEW s
    PROVE  s \in Change!Status <=>
             /\ s = [pending |-> s.pending, ticket |-> s.ticket, state |-> s.state,
                     readAge |-> s.readAge, retryIn |-> s.retryIn, refresh |-> s.refresh]
             /\ s.pending \in -1 .. CreateGrace /\ s.ticket \in 0 .. MaxTickets /\ s.state \in Change!States
             /\ s.readAge \in -1 .. Change!Stale /\ s.retryIn \in -1 .. CrRetry /\ s.refresh \in BOOLEAN
BY DEF Change!Status, Change!Age, CrRetry

CrRun == [pc : {"idle", "find", "get", "announce", "create", "write"},
          age : 0 .. Change!AgeCap, waits : BOOLEAN, st : Change!Status]
CrTicket == [age : 0 .. Lag, state : Change!TicketStates, left : -1 .. Change!Stale]

LEMMA CrTypes ==
    Change!TypeOK <=> /\ mode \in ChangeSettings /\ cr \in Change!Status /\ stopped \in BOOLEAN
               /\ seen \in [Procs -> Change!Status] /\ current \in [Procs -> BOOLEAN]
               /\ base \in [Procs -> BOOLEAN] /\ pass \in [Procs -> CrRun]
               /\ wake \in [Procs -> -1 .. CrWait] /\ tickets \in Seq(CrTicket)
               /\ limbo \subseteq 0 .. Latency
BY DEF Change!TypeOK, CrRun, CrTicket, CrWait, Change!Age

\* Time passing over an age, and over what is left of a wait.
LEMMA CrUp ==
    ASSUME NEW c \in Nat, NEW a \in -1 .. c
    PROVE  /\ Change!Up(a, c) \in -1 .. c /\ (Change!Up(a, c) = -1 <=> a = -1)
           /\ a # -1 => Change!Up(a, c) = IF a = c THEN c ELSE a + 1
<1>1. Change!Min({a + 1, c}) \in {a + 1, c} /\ Change!Min({a + 1, c}) <= a + 1 /\ Change!Min({a + 1, c}) <= c
  <2>1. a + 1 \in Int /\ c \in Int
    OBVIOUS
  <2> QED BY <2>1, CrMin2, Zenon
<1> QED BY <1>1 DEF Change!Up, Change!Never

LEMMA CrDown ==
    ASSUME NEW c \in Nat, NEW a \in -1 .. c PROVE Change!Down(a) \in -1 .. c
<1>1. Change!Max({a - 1, 0}) \in {a - 1, 0} /\ Change!Max({a - 1, 0}) >= 0
  <2>1. a - 1 \in Int /\ 0 \in Int
    OBVIOUS
  <2> QED BY <2>1, CrMax2, Zenon
<1> QED BY <1>1 DEF Change!Down, Change!Never

LEMMA CrOlder ==
    ASSUME mode \in ChangeSettings, NEW s \in Change!Status
    PROVE  /\ Change!Older(s) \in Change!Status
           /\ Change!Older(s).pending = Change!Up(s.pending, CreateGrace) /\ Change!Older(s).readAge = Change!Up(s.readAge, Change!Stale)
           /\ Change!Older(s).ticket = s.ticket /\ Change!Older(s).state = s.state
<1>1. /\ s.pending \in -1 .. CreateGrace /\ s.readAge \in -1 .. Change!Stale /\ s.retryIn \in -1 .. CrRetry
  BY CrStatus
<1>2. /\ Change!Up(s.pending, CreateGrace) \in -1 .. CreateGrace /\ Change!Up(s.readAge, Change!Stale) \in -1 .. Change!Stale
      /\ Change!Down(s.retryIn) \in -1 .. CrRetry
  BY <1>1, CrNumbers, CrUp, CrDown
<1>3. Change!Older(s) = [s EXCEPT !.pending = Change!Up(s.pending, CreateGrace), !.readAge = Change!Up(s.readAge, Change!Stale),
                           !.retryIn = Change!Down(s.retryIn)]
  BY DEF Change!Older
<1> HIDE DEF Change!Older
<1> QED BY <1>2, <1>3 DEF Change!Status, Change!Age, CrRetry

LEMMA CrRecord ==
    ASSUME mode \in ChangeSettings, NEW s \in Change!Status, NEW t \in 1 .. MaxTickets, NEW a \in 0 .. Change!AgeCap,
           tickets[t].state \in Change!States
    PROVE  /\ Change!record(s, t, a) \in Change!Status
           /\ Change!record(s, t, a).pending = Change!Never /\ Change!record(s, t, a).ticket = t
           /\ Change!record(s, t, a).state = tickets[t].state
           /\ Change!record(s, t, a).readAge = IF a <= Change!Stale THEN a ELSE Change!Stale
<1>1. Change!Min({a, Change!Stale}) = (IF a <= Change!Stale THEN a ELSE Change!Stale) /\ Change!Min({a, Change!Stale}) \in 0 .. Change!Stale
  <2>1. a \in Int /\ Change!Stale \in Int /\ Change!Stale \in Nat
    BY CrNumbers
  <2>2. Change!Min({a, Change!Stale}) \in {a, Change!Stale} /\ Change!Min({a, Change!Stale}) <= a /\ Change!Min({a, Change!Stale}) <= Change!Stale
    BY <2>1, CrMin2, Zenon
  <2> QED BY <2>1, <2>2
<1> DEFINE r == Change!record(s, t, a)
           read == Change!Min({a, Change!Stale})
<1>2. r = [s EXCEPT !.pending = Change!Never, !.ticket = t, !.state = tickets[t].state,
                    !.readAge = read, !.retryIn = Change!Never, !.refresh = FALSE]
  BY DEF Change!record
<1>3. Change!Never \in -1 .. CreateGrace /\ Change!Never \in -1 .. CrRetry /\ t \in 0 .. MaxTickets
  BY CrNumbers DEF Change!Never
<1>4. read \in -1 .. Change!Stale
  BY <1>1
<1> HIDE DEF r, read
<1>5. r \in Change!Status
  BY <1>2, <1>3, <1>4 DEF Change!Status, Change!Age, CrRetry
<1>6. /\ r.pending = Change!Never /\ r.ticket = t /\ r.state = tickets[t].state /\ r.readAge = read
  BY <1>2 DEF Change!Status
<1> QED BY <1>1, <1>5, <1>6 DEF r, read

LEMMA CrFail ==
    ASSUME mode \in ChangeSettings, NEW s \in Change!Status, NEW r \in 0 .. CrRetry, NEW a \in 0 .. Change!AgeCap,
           NEW gone \in BOOLEAN
    PROVE  /\ Change!fail(s, r, gone, a) \in Change!Status
           /\ Change!fail(s, r, gone, a).pending = s.pending /\ Change!fail(s, r, gone, a).ticket = s.ticket
           /\ Change!fail(s, r, gone, a).readAge = s.readAge
           /\ Change!fail(s, r, gone, a).state \in {s.state, "unknown"}
<1>1. Change!Max({r - a, 0}) \in 0 .. CrRetry
  <2>1. r - a \in Int /\ 0 \in Int /\ CrRetry \in Nat
    BY CrNumbers
  <2>2. Change!Max({r - a, 0}) \in {r - a, 0} /\ Change!Max({r - a, 0}) >= 0
    BY <2>1, CrMax2, Zenon
  <2> QED BY <2>1, <2>2
<1> DEFINE f == Change!fail(s, r, gone, a)
           new == IF gone THEN "unknown" ELSE s.state
           in == Change!Max({r - a, 0})
<1>2. f = [s EXCEPT !.retryIn = in, !.refresh = FALSE, !.state = new]
  BY DEF Change!fail
<1>3. new \in Change!States /\ new \in {s.state, "unknown"}
  BY DEF Change!Status, Change!States
<1>4. in \in -1 .. CrRetry
  BY <1>1
<1> HIDE DEF f, new, in
<1>5. f \in Change!Status /\ f.pending = s.pending /\ f.ticket = s.ticket /\ f.readAge = s.readAge /\ f.state = new
  BY <1>2, <1>3, <1>4 DEF Change!Status, Change!Age, CrRetry
<1> QED BY <1>3, <1>5 DEF f

-----------------------------------------------------------------------------
(* ChangeRequest: what its steps do, field by field. *)

LEMMA CrIdle ==
    ASSUME mode \in ChangeSettings
    PROVE  /\ Change!Idle \in CrRun /\ Change!Idle.pc = "idle" /\ Change!Idle.st \in Change!Status
           /\ Change!Idle.st.pending = Change!Never /\ Change!Idle.st.ticket = Change!NoTicket /\ Change!Idle.st.state # "approved"
           /\ Change!Idle.st.readAge = Change!Never
<1> DEFINE s == [pending |-> Change!Never, ticket |-> Change!NoTicket, state |-> "",
                 readAge |-> Change!Never, retryIn |-> Change!Never, refresh |-> FALSE]
<1>0. /\ CreateGrace \in Nat /\ MaxTickets \in Nat /\ Change!Stale \in Nat /\ CrRetry \in Nat /\ Change!AgeCap \in Nat
  BY CrNumbers
<1>1. s \in Change!Status
  <2>1. /\ Change!Never \in Change!Age(CreateGrace) /\ Change!Never \in Change!Age(Change!Stale) /\ Change!Never \in Change!Age(CrRetry)
        /\ Change!NoTicket \in 0 .. MaxTickets /\ "" \in Change!States
    BY <1>0 DEF Change!Never, Change!NoTicket, Change!Age, Change!States
  <2> QED BY <2>1 DEF Change!Status, CrRetry
<1>2. Change!Idle = [pc |-> "idle", age |-> 0, waits |-> FALSE, st |-> s]
  BY DEF Change!Idle
<1>3. /\ s.pending = Change!Never /\ s.ticket = Change!NoTicket /\ s.state # "approved" /\ s.readAge = Change!Never
  OBVIOUS
<1> HIDE DEF s
<1>4. [pc |-> "idle", age |-> 0, waits |-> FALSE, st |-> s] \in CrRun
  BY <1>0, <1>1 DEF CrRun
<1>5. Change!Idle.pc = "idle" /\ Change!Idle.st = s
  BY <1>2
<1>6. Change!Idle \in CrRun
  BY <1>2, <1>4, Zenon
<1> QED BY <1>1, <1>3, <1>5, <1>6

LEMMA CrNextCall ==
    ASSUME mode \in ChangeSettings, NEW s \in Change!Status
    PROVE  /\ Change!nextCall(s) \in 0 .. CrWait
           /\ \A a \in 0 .. Change!AgeCap : Change!nextRequeue(s, a) \in 0 .. CrWait
<1>0. /\ s.readAge \in -1 .. Change!Stale /\ s.retryIn \in -1 .. CrRetry /\ mode.poll \in Nat
      /\ CrWait \in Nat /\ CrWait >= mode.poll /\ CrWait >= CrRetry /\ CrRetry \in Nat /\ Change!Stale \in Nat
      /\ Change!AgeCap \in Nat
  BY CrStatus, CrNumbers
<1>1. ASSUME NEW a \in Nat PROVE Change!Max({mode.poll - a, 0}) \in 0 .. CrWait
  <2>1. mode.poll - a \in Int /\ 0 \in Int
    BY <1>0
  <2>2. Change!Max({mode.poll - a, 0}) \in {mode.poll - a, 0} /\ Change!Max({mode.poll - a, 0}) >= 0
    BY <2>1, CrMax2, Zenon
  <2> QED BY <1>0, <2>2
<1>2. Change!nextCall(s) \in 0 .. CrWait
  <2>1. CASE s.retryIn # Change!Never
    BY <1>0, <2>1 DEF Change!nextCall, Change!Never
  <2>2. CASE s.retryIn = Change!Never /\ Change!AtOnce(s)
    BY <1>0, <2>2 DEF Change!nextCall
  <2>3. CASE s.retryIn = Change!Never /\ ~Change!AtOnce(s)
    <3>1. s.readAge \in Nat
      BY <1>0, <2>3 DEF Change!AtOnce, Change!Never
    <3> QED BY <1>1, <2>3, <3>1 DEF Change!nextCall
  <2> QED BY <2>1, <2>2, <2>3
<1>3. ASSUME NEW a \in 0 .. Change!AgeCap PROVE Change!nextRequeue(s, a) \in 0 .. CrWait
  BY <1>1, <1>2 DEF Change!nextRequeue
<1> QED BY <1>2, <1>3

\* Nobody else's reconcile changes.
CrOthers(p) == pass' \in [Procs -> CrRun] /\ \A q \in Procs : q # p => pass'[q] = pass[q]

\* The reconcile of p goes on.
CrMoved(p, stage, s) ==
    /\ CrOthers(p) /\ pass'[p].pc = stage /\ pass'[p].st = s
    /\ pass'[p].age = pass[p].age /\ pass'[p].waits = pass[p].waits

\* It ends.
CrEnded(p) ==
    /\ CrOthers(p) /\ pass'[p] = Change!Idle
    /\ base' \in [Procs -> BOOLEAN] /\ ~base'[p] /\ \A q \in Procs : q # p => base'[q] = base[q]

\* There is one more ticket.
CrGrown ==
    /\ tickets' \in Seq(CrTicket) /\ Len(tickets') = Len(tickets) + 1 /\ Len(tickets') <= MaxTickets
    /\ \A t \in 1 .. Len(tickets) : tickets'[t] = tickets[t]
    /\ tickets'[Len(tickets')] = Change!Opened

LEMMA CrGrows ==
    ASSUME Change!TypeOK, Len(tickets) < MaxTickets, tickets' = Append(tickets, Change!Opened) PROVE CrGrown
<1>1. tickets \in Seq(CrTicket) /\ MaxTickets \in Nat /\ Lag \in Nat /\ Change!Stale \in Nat
  BY CrTypes, CrNumbers
<1>2. Change!Opened \in CrTicket
  BY <1>1 DEF Change!Opened, CrTicket, Change!TicketStates, Change!Never
<1> QED BY <1>1, <1>2 DEF CrGrown

LEMMA CrAnswers ==
    ASSUME Change!TypeOK, NEW p \in Procs, NEW s \in Change!Status, Change!Answered(p, s)
    PROVE  /\ CrMoved(p, "write", s)
           /\ UNCHANGED <<mode, cr, stopped, seen, current, base, wake>>
<1>1. pass \in [Procs -> CrRun]
  BY CrTypes
<1>2. pass' = [pass EXCEPT ![p] = [pass[p] EXCEPT !.st = s, !.pc = "write"]]
  BY DEF Change!Answered
<1>3. pass[p] \in CrRun /\ [pass[p] EXCEPT !.st = s, !.pc = "write"] \in CrRun
  BY <1>1 DEF CrRun
<1> QED BY <1>1, <1>2, <1>3 DEF CrMoved, CrOthers, CrRun, Change!Answered

LEMMA CrEnding ==
    ASSUME Change!TypeOK, NEW p \in Procs, NEW next \in -1 .. CrWait, Change!Ends(p, next)
    PROVE  CrEnded(p) /\ wake' \in [Procs -> -1 .. CrWait]
<1>1. pass \in [Procs -> CrRun] /\ wake \in [Procs -> -1 .. CrWait] /\ base \in [Procs -> BOOLEAN]
  BY CrTypes
<1>2. Change!Idle \in CrRun
  BY CrIdle, CrTypes
<1>3. pass' = [pass EXCEPT ![p] = Change!Idle] /\ base' = [base EXCEPT ![p] = FALSE]
  BY DEF Change!Ends
<1>4. wake' = [wake EXCEPT ![p] = IF wake[p] = 0 THEN 0 ELSE next]
  BY DEF Change!Ends
<1>5. (IF wake[p] = 0 THEN 0 ELSE next) \in -1 .. CrWait
  BY <1>1
<1>6. wake' \in [Procs -> -1 .. CrWait]
  BY <1>1, <1>4, <1>5
<1> QED BY <1>1, <1>2, <1>3, <1>6 DEF CrEnded, CrOthers

CrBegan(p) ==
    /\ pass[p].pc = "idle" /\ CrOthers(p)
    /\ pass'[p].age = 0 /\ pass'[p].st = seen[p] /\ pass'[p].pc \in {"find", "get"}
    /\ pass'[p].pc = "get" <=> seen[p].ticket # Change!NoTicket /\ seen[p].pending = Change!Never
    /\ pass'[p].waits <=> seen[p].pending # Change!Never /\ seen[p].pending < CreateGrace
    /\ base' \in [Procs -> BOOLEAN] /\ base'[p] = current[p]
    /\ \A q \in Procs : q # p => base'[q] = base[q]
    /\ UNCHANGED <<cr, seen, current, tickets, limbo>>

LEMMA CrBegins ==
    ASSUME Change!TypeOK, NEW p \in Procs, Change!Begin(p)
    PROVE  /\ CrBegan(p) \/ UNCHANGED <<cr, seen, current, base, pass, tickets, limbo>>
           /\ wake' \in [Procs -> -1 .. CrWait] /\ UNCHANGED <<mode, stopped>>
<1>0. /\ pass \in [Procs -> CrRun] /\ wake \in [Procs -> -1 .. CrWait] /\ seen[p] \in Change!Status
      /\ base \in [Procs -> BOOLEAN] /\ current[p] \in BOOLEAN /\ mode \in ChangeSettings
  BY CrTypes
<1>1. Change!nextCall(seen[p]) \in 0 .. CrWait
  BY <1>0, CrNextCall
<1>2. CASE stopped \/ Change!nextCall(seen[p]) > 0
  <2>1. /\ wake' = [wake EXCEPT ![p] = IF stopped THEN Change!Never ELSE Change!nextCall(seen[p])]
        /\ UNCHANGED <<pass, base>>
    BY <1>2 DEF Change!Begin
  <2>2. (IF stopped THEN Change!Never ELSE Change!nextCall(seen[p])) \in -1 .. CrWait
    BY <1>0, <1>1, CrNumbers DEF Change!Never
  <2>3. wake' \in [Procs -> -1 .. CrWait]
    BY <1>0, <2>1, <2>2
  <2> QED BY <2>1, <2>3 DEF Change!Begin
<1>3. CASE ~(stopped \/ Change!nextCall(seen[p]) > 0)
  <2> DEFINE stage == IF seen[p].ticket # Change!NoTicket /\ seen[p].pending = Change!Never THEN "get" ELSE "find"
             waits == seen[p].pending # Change!Never /\ seen[p].pending < CreateGrace
             r == [pc |-> stage, age |-> 0, waits |-> waits, st |-> seen[p]]
  <2>1. /\ pass' = [pass EXCEPT ![p] = r] /\ wake' = [wake EXCEPT ![p] = Change!Never]
        /\ base' = [base EXCEPT ![p] = current[p]]
    BY <1>3 DEF Change!Begin
  <2>2. Change!AgeCap \in Nat /\ CrWait \in Nat
    BY <1>0, CrNumbers
  <2>3. stage \in {"find", "get"} /\ (stage = "get" <=> seen[p].ticket # Change!NoTicket /\ seen[p].pending = Change!Never)
    OBVIOUS
  <2>4. waits \in BOOLEAN
    OBVIOUS
  <2> HIDE DEF stage, waits
  <2>5. r \in CrRun
    BY <1>0, <2>2, <2>3, <2>4 DEF CrRun
  <2>6. pass' \in [Procs -> CrRun] /\ pass'[p] = r /\ \A q \in Procs : q # p => pass'[q] = pass[q]
    BY <1>0, <2>1, <2>5
  <2>7. r.pc = stage /\ r.age = 0 /\ r.waits = waits /\ r.st = seen[p]
    OBVIOUS
  <2>8. base' \in [Procs -> BOOLEAN] /\ base'[p] = current[p] /\ \A q \in Procs : q # p => base'[q] = base[q]
    BY <1>0, <2>1
  <2>9. wake' \in [Procs -> -1 .. CrWait]
    BY <1>0, <2>1, <2>2 DEF Change!Never
  <2> HIDE DEF r
  <2>10. CrBegan(p)
    BY <2>3, <2>6, <2>7, <2>8 DEF CrBegan, CrOthers, Change!Begin, waits
  <2> QED BY <2>9, <2>10 DEF Change!Begin
<1> QED BY <1>2, <1>3

\* A ticket was read.
CrRecorded(p) ==
    \E t \in 1 .. Len(tickets), s \in Change!Status :
       /\ pass[p].pc \in {"find", "get"} /\ CrMoved(p, "write", s) /\ t \in Change!Live
       /\ s.pending = Change!Never /\ s.ticket = t /\ s.state = tickets[t].state
       /\ s.readAge = IF pass[p].age <= Change!Stale THEN pass[p].age ELSE Change!Stale
       /\ UNCHANGED <<cr, seen, current, base, tickets, limbo>>

\* A call failed: it made a ticket, may still make one, or has come to nothing.
CrFailed(p) ==
    \E s \in Change!Status :
       /\ pass[p].pc \in {"find", "get", "create"} /\ CrMoved(p, "write", s)
       /\ s.pending = pass[p].st.pending /\ s.ticket = pass[p].st.ticket /\ s.readAge = pass[p].st.readAge
       /\ s.state \in {pass[p].st.state, "unknown"}
       /\ UNCHANGED <<cr, seen, current, base>>
       /\ \/ UNCHANGED <<tickets, limbo>>
          \/ pass[p].pc = "create" /\ CrGrown /\ UNCHANGED limbo
          \/ pass[p].pc = "create" /\ limbo' = limbo \cup {pass[p].age} /\ UNCHANGED tickets

LEMMA CrTicketFacts ==
    ASSUME Change!TypeOK, Len(tickets) <= MaxTickets, NEW t \in DOMAIN tickets
    PROVE  /\ t \in 1 .. Len(tickets) /\ t \in 1 .. MaxTickets
           /\ tickets[t] \in CrTicket
           /\ tickets[t].state # "gone" => t \in Change!Live /\ tickets[t].state \in Change!States
<1>1. tickets \in Seq(CrTicket) /\ MaxTickets \in Nat
  BY CrTypes, CrNumbers
<1>2. t \in 1 .. Len(tickets) /\ t \in 1 .. MaxTickets /\ tickets[t] \in CrTicket
  BY <1>1
<1> QED BY <1>2 DEF Change!Live, CrTicket, Change!TicketStates, Change!States

LEMMA CrFinds ==
    ASSUME Change!TypeOK, Len(tickets) <= MaxTickets, NEW p \in Procs, Change!FindFound(p) PROVE CrRecorded(p)
<1>0. /\ pass[p] \in CrRun /\ mode \in ChangeSettings
  BY CrTypes
<1>1. PICK t \in DOMAIN tickets : /\ tickets[t].state # "gone"
                                  /\ Change!Answered(p, Change!record(pass[p].st, t, pass[p].age))
  BY DEF Change!FindFound
<1>2. t \in 1 .. Len(tickets) /\ t \in 1 .. MaxTickets /\ t \in Change!Live /\ tickets[t].state \in Change!States
  BY <1>1, CrTicketFacts
<1>3. pass[p].st \in Change!Status /\ pass[p].age \in 0 .. Change!AgeCap
  BY <1>0 DEF CrRun
<1> DEFINE s == Change!record(pass[p].st, t, pass[p].age)
<1>4. /\ s \in Change!Status /\ s.pending = Change!Never /\ s.ticket = t /\ s.state = tickets[t].state
      /\ s.readAge = IF pass[p].age <= Change!Stale THEN pass[p].age ELSE Change!Stale
  BY <1>0, <1>2, <1>3, CrRecord
<1> HIDE DEF s
<1>5. Change!Answered(p, s)
  BY <1>1 DEF s
<1>6. CrMoved(p, "write", s) /\ UNCHANGED <<cr, seen, current, base>>
  BY <1>4, <1>5, CrAnswers
<1> QED BY <1>2, <1>4, <1>6 DEF Change!FindFound, CrRecorded

LEMMA CrFails ==
    ASSUME Change!TypeOK, NEW p \in Procs, NEW r \in 0 .. CrRetry, NEW gone \in BOOLEAN,
           pass[p].pc \in {"find", "get", "create"},
           Change!Answered(p, Change!fail(pass[p].st, r, gone, pass[p].age)),
           \/ UNCHANGED <<tickets, limbo>>
           \/ pass[p].pc = "create" /\ CrGrown /\ UNCHANGED limbo
           \/ pass[p].pc = "create" /\ limbo' = limbo \cup {pass[p].age} /\ UNCHANGED tickets
    PROVE  CrFailed(p)
<1>0. pass[p] \in CrRun /\ mode \in ChangeSettings
  BY CrTypes
<1>1. pass[p].st \in Change!Status /\ pass[p].age \in 0 .. Change!AgeCap
  BY <1>0 DEF CrRun
<1> DEFINE s == Change!fail(pass[p].st, r, gone, pass[p].age)
<1>2. /\ s \in Change!Status /\ s.pending = pass[p].st.pending /\ s.ticket = pass[p].st.ticket
      /\ s.readAge = pass[p].st.readAge /\ s.state \in {pass[p].st.state, "unknown"}
  BY <1>0, <1>1, CrFail
<1>3. Change!Answered(p, s)
  OBVIOUS
<1> HIDE DEF s
<1>4. CrMoved(p, "write", s) /\ UNCHANGED <<cr, seen, current, base>>
  BY <1>2, <1>3, CrAnswers
<1> QED BY <1>2, <1>4 DEF CrFailed

LEMMA CrGets ==
    ASSUME Change!TypeOK, Len(tickets) <= MaxTickets, Change!TrueCopies, NEW p \in Procs, Change!Get(p)
    PROVE  CrRecorded(p) \/ CrFailed(p)
<1>0. pass[p] \in CrRun /\ mode \in ChangeSettings /\ tickets \in Seq(CrTicket) /\ pass[p].pc = "get"
  BY CrTypes DEF Change!Get
<1>1. pass[p].st \in Change!Status /\ pass[p].age \in 0 .. Change!AgeCap
  BY <1>0 DEF CrRun
<1> DEFINE t == pass[p].st.ticket
<1>2. t \in DOMAIN tickets
  <2>1. t \in Nat /\ t # Change!NoTicket /\ t <= Len(tickets)
    BY <1>0, <1>1, CrStatus DEF Change!TrueCopies, Change!TrueCopy
  <2> QED BY <1>0, <2>1 DEF Change!NoTicket
<1> HIDE DEF t
<1>3. CASE tickets[t].state = "gone"
  <2>1. Change!Answered(p, Change!fail(pass[p].st, mode.poll, TRUE, pass[p].age)) /\ UNCHANGED <<tickets, limbo>>
    BY <1>3 DEF Change!Get, t
  <2>2. mode.poll \in 0 .. CrRetry /\ TRUE \in BOOLEAN
    BY <1>0, CrNumbers
  <2> QED BY <1>0, <2>1, <2>2, CrFails
<1>4. CASE tickets[t].state # "gone"
  <2>1. t \in 1 .. Len(tickets) /\ t \in 1 .. MaxTickets /\ t \in Change!Live /\ tickets[t].state \in Change!States
    BY <1>2, <1>4, CrTicketFacts
  <2> DEFINE s == Change!record(pass[p].st, t, pass[p].age)
  <2>2. /\ s \in Change!Status /\ s.pending = Change!Never /\ s.ticket = t /\ s.state = tickets[t].state
        /\ s.readAge = IF pass[p].age <= Change!Stale THEN pass[p].age ELSE Change!Stale
    BY <1>0, <1>1, <2>1, CrRecord
  <2>3. Change!Answered(p, s)
    BY <1>4 DEF Change!Get, t
  <2> HIDE DEF s
  <2>4. CrMoved(p, "write", s) /\ UNCHANGED <<cr, seen, current, base>>
    BY <2>2, <2>3, CrAnswers
  <2> QED BY <1>0, <2>1, <2>2, <2>4 DEF Change!Get, CrRecorded
<1> QED BY <1>3, <1>4

LEMMA CrCallFails ==
    ASSUME Change!TypeOK, NEW p \in Procs, Change!CallFails(p) \/ Change!CreateFails(p) PROVE CrFailed(p)
<1>0. mode \in ChangeSettings
  BY CrTypes
<1>1. PICK r \in Change!Retries : Change!Answered(p, Change!fail(pass[p].st, r, FALSE, pass[p].age))
  BY DEF Change!CallFails, Change!CreateFails
<1>2. r \in 0 .. CrRetry /\ FALSE \in BOOLEAN
  BY <1>0, CrNumbers
<1>3. /\ pass[p].pc \in {"find", "get", "create"}
      /\ \/ UNCHANGED <<tickets, limbo>>
         \/ pass[p].pc = "create" /\ CrGrown /\ UNCHANGED limbo
         \/ pass[p].pc = "create" /\ limbo' = limbo \cup {pass[p].age} /\ UNCHANGED tickets
  BY CrGrows DEF Change!CallFails, Change!CreateFails
<1> QED BY <1>1, <1>2, <1>3, CrFails

\* Nothing was found, and a create is to be announced.
CrToAnnounce(p) ==
    /\ pass[p].pc = "find" /\ ~pass[p].waits /\ CrMoved(p, "announce", pass[p].st)
    /\ \A t \in Change!Live : tickets[t].age < Lag
    /\ UNCHANGED <<cr, seen, current, base, tickets, limbo>>

\* The reconcile ends; a create it had sent may still land.
CrStopped(p) ==
    /\ pass[p].pc # "idle" /\ CrEnded(p) /\ UNCHANGED <<cr, seen, current, tickets>>
    /\ \/ UNCHANGED limbo
       \/ pass[p].pc = "create" /\ limbo' = limbo \cup {pass[p].age}

LEMMA CrFindsNone ==
    ASSUME Change!TypeOK, Change!TrueCopies, NEW p \in Procs, Change!FindNone(p)
    PROVE  /\ CrToAnnounce(p) \/ CrStopped(p)
           /\ wake' \in [Procs -> -1 .. CrWait] /\ UNCHANGED <<mode, stopped>>
<1>0. /\ pass \in [Procs -> CrRun] /\ pass[p] \in CrRun /\ mode \in ChangeSettings /\ pass[p].pc = "find"
      /\ wake \in [Procs -> -1 .. CrWait]
  BY CrTypes DEF Change!FindNone
<1>1. CASE pass[p].waits
  <2>1. pass[p].st.pending \in 0 .. CreateGrace
    <3>1. pass[p].st \in Change!Status /\ pass[p].st.pending # Change!Never
      BY <1>0, <1>1 DEF CrRun, Change!TrueCopies
    <3> QED BY <3>1, CrStatus DEF Change!Never
  <2>2. CreateGrace - pass[p].st.pending \in -1 .. CrWait
    BY <1>0, <2>1, CrNumbers
  <2>3. Change!Ends(p, CreateGrace - pass[p].st.pending)
    BY <1>1 DEF Change!FindNone
  <2>4. CrEnded(p) /\ wake' \in [Procs -> -1 .. CrWait]
    BY <2>2, <2>3, CrEnding
  <2> QED BY <1>0, <2>4 DEF Change!FindNone, CrStopped
<1>2. CASE ~pass[p].waits
  <2>1. pass' = [pass EXCEPT ![p] = [pass[p] EXCEPT !.pc = "announce"]] /\ UNCHANGED <<wake, base>>
    BY <1>2 DEF Change!FindNone
  <2>2. [pass[p] EXCEPT !.pc = "announce"] \in CrRun
    BY <1>0 DEF CrRun
  <2>3. CrMoved(p, "announce", pass[p].st)
    BY <1>0, <2>1, <2>2 DEF CrMoved, CrOthers, CrRun
  <2> QED BY <1>0, <1>2, <2>1, <2>3 DEF Change!FindNone, CrToAnnounce, Change!Live
<1> QED BY <1>1, <1>2

LEMMA CrStops ==
    ASSUME Change!TypeOK, NEW p \in Procs, Change!AnnounceConflict(p) \/ Change!finishConflict(p) \/ Change!Interrupted(p)
    PROVE  CrStopped(p) /\ wake' \in [Procs -> -1 .. CrWait] /\ UNCHANGED <<mode, stopped>>
<1>1. Change!Ends(p, 0) /\ 0 \in -1 .. CrWait
  BY CrNumbers, CrTypes DEF Change!AnnounceConflict, Change!finishConflict, Change!Interrupted
<1>2. CrEnded(p) /\ wake' \in [Procs -> -1 .. CrWait]
  BY <1>1, CrEnding
<1> QED BY <1>2 DEF Change!AnnounceConflict, Change!finishConflict, Change!Interrupted, CrStopped

\* The announcement is stored: the reconcile's copy is the stored version now.
CrAnnounced(p) ==
    /\ pass[p].pc = "announce" /\ base[p] /\ CrMoved(p, "create", cr')
    /\ cr' \in Change!Status /\ cr'.pending = pass[p].age /\ cr'.ticket = pass[p].st.ticket
    /\ cr'.state = pass[p].st.state /\ cr'.readAge = pass[p].st.readAge
    /\ current' = [q \in Procs |-> FALSE] /\ base' = [q \in Procs |-> q = p]
    /\ UNCHANGED <<seen, tickets, limbo>>

LEMMA CrAnnounces ==
    ASSUME Change!TypeOK, Change!InTime, NEW p \in Procs, Change!Announce(p) PROVE CrAnnounced(p)
<1>0. /\ pass \in [Procs -> CrRun] /\ pass[p] \in CrRun /\ mode \in ChangeSettings
      /\ pass[p].pc = "announce" /\ base[p]
  BY CrTypes DEF Change!Announce
<1>1. pass[p].st \in Change!Status /\ pass[p].age \in 0 .. CreateGrace
  <2>1. pass[p].st \in Change!Status /\ pass[p].age \in Nat /\ pass[p].age <= Latency
    BY <1>0 DEF CrRun, Change!InTime
  <2> QED BY <1>0, <2>1, CrNumbers
<1>2. cr' = [pass[p].st EXCEPT !.pending = pass[p].age]
  BY DEF Change!Announce, Change!Stored
<1>3. /\ cr' \in Change!Status /\ cr'.pending = pass[p].age /\ cr'.ticket = pass[p].st.ticket
      /\ cr'.state = pass[p].st.state /\ cr'.readAge = pass[p].st.readAge
  BY <1>1, <1>2 DEF Change!Status, Change!Age
<1>4. pass' = [pass EXCEPT ![p] = [pass[p] EXCEPT !.st = cr', !.pc = "create"]]
  BY <1>2 DEF Change!Announce
<1>5. [pass[p] EXCEPT !.st = cr', !.pc = "create"] \in CrRun
  BY <1>0, <1>3 DEF CrRun
<1>6. CrMoved(p, "create", cr')
  BY <1>0, <1>4, <1>5 DEF CrMoved, CrOthers, CrRun
<1> QED BY <1>0, <1>3, <1>6 DEF CrAnnounced, Change!Announce, Change!Stored

\* The create answered.
CrCreated(p) ==
    \E s \in Change!Status :
       /\ pass[p].pc = "create" /\ CrMoved(p, "write", s) /\ CrGrown
       /\ s.pending = Change!Never /\ s.ticket = Len(tickets') /\ s.state = "pending"
       /\ s.readAge = IF pass[p].age <= Change!Stale THEN pass[p].age ELSE Change!Stale
       /\ UNCHANGED <<cr, seen, current, base, limbo>>

LEMMA CrCreates == ASSUME Change!TypeOK, NEW p \in Procs, Change!Create(p) PROVE CrCreated(p)
<1>0. /\ pass \in [Procs -> CrRun] /\ pass[p] \in CrRun /\ mode \in ChangeSettings
      /\ pass[p].pc = "create" /\ CrGrown /\ tickets \in Seq(CrTicket)
  BY CrTypes, CrGrows DEF Change!Create
<1>1. pass[p].st \in Change!Status /\ pass[p].age \in 0 .. Change!AgeCap
  BY <1>0 DEF CrRun
<1> DEFINE n == Len(tickets')
           read == Change!Min({pass[p].age, Change!Stale})
           s == [pass[p].st EXCEPT !.pending = Change!Never, !.ticket = n, !.state = "pending",
                                  !.readAge = read, !.retryIn = Change!Never, !.refresh = FALSE]
<1>2. read = (IF pass[p].age <= Change!Stale THEN pass[p].age ELSE Change!Stale) /\ read \in -1 .. Change!Stale
  <2>1. pass[p].age \in Int /\ Change!Stale \in Int /\ Change!Stale \in Nat
    BY <1>0, <1>1, CrNumbers
  <2>2. read \in {pass[p].age, Change!Stale} /\ read <= pass[p].age /\ read <= Change!Stale
    BY <2>1, CrMin2, Zenon
  <2> QED BY <1>1, <2>1, <2>2
<1>3. n \in 0 .. MaxTickets /\ Change!Never \in -1 .. CreateGrace /\ Change!Never \in -1 .. CrRetry /\ "pending" \in Change!States
  <2>1. MaxTickets \in Nat /\ CreateGrace \in Nat /\ CrRetry \in Nat
    BY <1>0, CrNumbers
  <2> QED BY <1>0, <2>1 DEF CrGrown, Change!Never, Change!States
<1>4. pass' = [pass EXCEPT ![p] = [pass[p] EXCEPT !.pc = "write", !.st = s]]
  BY DEF Change!Create
<1> HIDE DEF n, read
<1>5. s \in Change!Status /\ s.pending = Change!Never /\ s.ticket = n /\ s.state = "pending" /\ s.readAge = read
  BY <1>1, <1>2, <1>3 DEF Change!Status, Change!Age, CrRetry
<1> HIDE DEF s
<1>6. [pass[p] EXCEPT !.pc = "write", !.st = s] \in CrRun
  BY <1>0, <1>5 DEF CrRun
<1>7. CrMoved(p, "write", s)
  BY <1>0, <1>4, <1>6 DEF CrMoved, CrOthers, CrRun
<1> QED BY <1>0, <1>2, <1>5, <1>7 DEF Change!Create, CrCreated, n

\* The outcome is stored.
CrFinished(p) ==
    /\ pass[p].pc = "write" /\ base[p] /\ cr' = pass[p].st
    /\ CrOthers(p) /\ pass'[p] = Change!Idle
    /\ current' = [q \in Procs |-> FALSE] /\ base' = [q \in Procs |-> FALSE]
    /\ UNCHANGED <<seen, tickets, limbo>>

LEMMA CrFinishes ==
    ASSUME Change!TypeOK, NEW p \in Procs, Change!finishAt(p)
    PROVE  CrFinished(p) /\ wake' \in [Procs -> -1 .. CrWait] /\ UNCHANGED <<mode, stopped>>
<1>0. /\ pass \in [Procs -> CrRun] /\ pass[p] \in CrRun /\ mode \in ChangeSettings /\ Change!Idle \in CrRun
      /\ wake \in [Procs -> -1 .. CrWait]
  BY CrTypes, CrIdle
<1>1. Change!nextRequeue(pass[p].st, pass[p].age) \in 0 .. CrWait
  BY <1>0, CrNextCall DEF CrRun
<1>2. (IF wake[p] = 0 THEN 0 ELSE Change!nextRequeue(pass[p].st, pass[p].age)) \in -1 .. CrWait
  BY <1>0, <1>1, CrNumbers
<1>3. wake' = [wake EXCEPT ![p] = IF wake[p] = 0 THEN 0 ELSE Change!nextRequeue(pass[p].st, pass[p].age)]
  BY DEF Change!finishAt
<1>4. wake' \in [Procs -> -1 .. CrWait]
  BY <1>0, <1>2, <1>3
<1>5. CrOthers(p) /\ pass'[p] = Change!Idle
  BY <1>0 DEF Change!finishAt, CrOthers
<1> QED BY <1>4, <1>5 DEF Change!finishAt, Change!Stored, CrFinished

\* A cache catches up.
CrSynced(p) ==
    /\ seen' \in [Procs -> Change!Status] /\ seen'[p] = cr /\ \A q \in Procs : q # p => seen'[q] = seen[q]
    /\ current' \in [Procs -> BOOLEAN] /\ current'[p] /\ \A q \in Procs : q # p => current'[q] = current[q]
    /\ UNCHANGED <<cr, base, pass, tickets, limbo>>

LEMMA CrSyncs ==
    ASSUME Change!TypeOK, NEW p \in Procs, Change!SyncCache(p)
    PROVE  CrSynced(p) /\ wake' \in [Procs -> -1 .. CrWait] /\ UNCHANGED <<mode, stopped>>
<1>0. /\ seen \in [Procs -> Change!Status] /\ cr \in Change!Status /\ wake \in [Procs -> -1 .. CrWait]
      /\ current \in [Procs -> BOOLEAN] /\ mode \in ChangeSettings
  BY CrTypes
<1>1. (IF cr.refresh /\ ~seen[p].refresh THEN 0 ELSE wake[p]) \in -1 .. CrWait
  BY <1>0, CrNumbers
<1>2. wake' = [wake EXCEPT ![p] = IF cr.refresh /\ ~seen[p].refresh THEN 0 ELSE wake[p]]
  BY DEF Change!SyncCache
<1>3. wake' \in [Procs -> -1 .. CrWait]
  BY <1>0, <1>1, <1>2
<1> QED BY <1>0, <1>3 DEF Change!SyncCache, CrSynced

\* A create that answered nobody lands, or is dropped.
CrLanded ==
    /\ \E a \in limbo : limbo' = limbo \ {a} /\ (UNCHANGED tickets \/ CrGrown)
    /\ UNCHANGED <<cr, seen, current, base, pass>>

LEMMA CrLands ==
    ASSUME Change!TypeOK, Change!Land PROVE CrLanded /\ UNCHANGED <<mode, stopped, wake>>
BY CrGrows DEF Change!Land, CrLanded

\* People decide or delete a ticket.
CrDecided ==
    /\ \E t \in Change!Live :
         /\ tickets' \in Seq(CrTicket) /\ Len(tickets') = Len(tickets)
         /\ \A u \in 1 .. Len(tickets) : u # t => tickets'[u] = tickets[u]
         /\ tickets'[t].age = tickets[t].age
         /\ tickets'[t].left = IF tickets[t].state = "approved" THEN 0 ELSE tickets[t].left
    /\ UNCHANGED <<cr, seen, current, base, pass, limbo>>

LEMMA CrDecides ==
    ASSUME Change!TypeOK, Change!Decide \/ Change!Delete PROVE CrDecided /\ UNCHANGED <<mode, stopped, wake>>
<1>0. tickets \in Seq(CrTicket) /\ Change!Stale \in Nat /\ Lag \in Nat
  BY CrTypes, CrNumbers
<1>1. PICK t \in DOMAIN tickets, s \in Change!TicketStates :
        /\ tickets[t].state # "gone"
        /\ tickets' = [tickets EXCEPT ![t].state = s,
                                      ![t].left = IF tickets[t].state = "approved" THEN 0 ELSE @]
  <2>1. CASE Change!Decide
    BY <2>1 DEF Change!Decide
  <2>2. CASE Change!Delete
    BY <2>2 DEF Change!Delete, Change!TicketStates
  <2> QED BY <2>1, <2>2
<1>2. tickets[t] \in CrTicket /\ DOMAIN tickets = 1 .. Len(tickets)
  BY <1>0
<1> DEFINE back == IF tickets[t].state = "approved" THEN 0 ELSE tickets[t].left
           u == [tickets[t] EXCEPT !.state = s, !.left = back]
<1>3. back \in -1 .. Change!Stale
  BY <1>0, <1>2 DEF CrTicket
<1>4. tickets' = [tickets EXCEPT ![t] = u]
  BY <1>1
<1> HIDE DEF back
<1>5. u \in CrTicket /\ u.age = tickets[t].age /\ u.left = back
  BY <1>2, <1>3 DEF CrTicket
<1> HIDE DEF u
<1>6. /\ tickets' \in Seq(CrTicket) /\ Len(tickets') = Len(tickets) /\ tickets'[t] = u
      /\ \A v \in 1 .. Len(tickets) : v # t => tickets'[v] = tickets[v]
  BY <1>0, <1>2, <1>4, <1>5
<1>7. UNCHANGED <<mode, cr, stopped, seen, current, base, pass, wake, limbo>>
  BY DEF Change!Decide, Change!Delete
<1>8. t \in Change!Live
  BY <1>1 DEF Change!Live
<1> QED BY <1>5, <1>6, <1>7, <1>8 DEF CrDecided, back

\* A reading is asked for.
CrRefreshed ==
    /\ cr' \in Change!Status /\ cr'.pending = cr.pending /\ cr'.ticket = cr.ticket /\ cr'.state = cr.state
    /\ cr'.readAge = cr.readAge
    /\ current' = [q \in Procs |-> FALSE] /\ base' = [q \in Procs |-> FALSE]
    /\ UNCHANGED <<seen, pass, tickets, limbo>>

LEMMA CrRefreshes ==
    ASSUME Change!TypeOK, Change!Refresh PROVE CrRefreshed /\ UNCHANGED <<mode, stopped, wake>>
<1>1. cr \in Change!Status
  BY CrTypes
<1>2. cr' = [cr EXCEPT !.refresh = TRUE]
  BY DEF Change!Refresh
<1>3. /\ cr' \in Change!Status /\ cr'.pending = cr.pending /\ cr'.ticket = cr.ticket /\ cr'.state = cr.state
      /\ cr'.readAge = cr.readAge
  BY <1>1, <1>2 DEF Change!Status
<1> QED BY <1>3 DEF Change!Refresh, CrRefreshed

\* Time passes.
CrTicked ==
    /\ \A p \in Procs : pass[p].pc \in {"find", "announce", "create"} => pass[p].age < Latency
    /\ \A a \in limbo : a < Latency
    /\ cr' = Change!Older(cr) /\ seen' = [p \in Procs |-> Change!Older(seen[p])]
    /\ pass' \in [Procs -> CrRun]
    /\ \A p \in Procs :
         /\ pass'[p].pc = pass[p].pc
         /\ pass[p].pc = "idle" => pass'[p] = Change!Idle
         /\ pass[p].pc # "idle" => /\ pass'[p].st = Change!Older(pass[p].st) /\ pass'[p].waits = pass[p].waits
                                  /\ pass'[p].age = Change!Up(pass[p].age, Change!AgeCap)
    /\ tickets' \in Seq(CrTicket) /\ Len(tickets') = Len(tickets)
    /\ \A t \in 1 .. Len(tickets) :
         /\ tickets'[t].state = tickets[t].state
         /\ tickets'[t].age = Change!Up(tickets[t].age, Lag) /\ tickets'[t].left = Change!Up(tickets[t].left, Change!Stale)
    /\ limbo' = {a + 1 : a \in limbo}
    /\ UNCHANGED <<current, base>>

LEMMA CrTicks ==
    ASSUME Change!TypeOK, Change!Tick
    PROVE  CrTicked /\ wake' \in [Procs -> -1 .. CrWait] /\ UNCHANGED <<mode, stopped>>
<1>0. /\ pass \in [Procs -> CrRun] /\ wake \in [Procs -> -1 .. CrWait] /\ tickets \in Seq(CrTicket)
      /\ mode \in ChangeSettings /\ Change!Idle \in CrRun /\ Change!Idle.pc = "idle"
      /\ Change!AgeCap \in Nat /\ Lag \in Nat /\ Change!Stale \in Nat /\ CrWait \in Nat
  BY CrTypes, CrNumbers, CrIdle
<1>1. wake' \in [Procs -> -1 .. CrWait]
  <2>1. \A p \in Procs : Change!Down(wake[p]) \in -1 .. CrWait
    BY <1>0, CrDown
  <2> QED BY <2>1 DEF Change!Tick
<1> DEFINE aged(r) == [r EXCEPT !.age = Change!Up(r.age, Change!AgeCap), !.st = Change!Older(r.st)]
<1>2. ASSUME NEW r \in CrRun
      PROVE  /\ aged(r) \in CrRun /\ aged(r).pc = r.pc /\ aged(r).st = Change!Older(r.st) /\ aged(r).waits = r.waits
             /\ aged(r).age = Change!Up(r.age, Change!AgeCap)
  <2>1. r.st \in Change!Status /\ r.age \in -1 .. Change!AgeCap /\ r.age # -1
    BY <1>0 DEF CrRun
  <2>2. Change!Older(r.st) \in Change!Status /\ Change!Up(r.age, Change!AgeCap) \in 0 .. Change!AgeCap
    BY <1>0, <2>1, CrOlder, CrUp
  <2> QED BY <2>2 DEF CrRun
<1>3. \A p \in Procs : pass'[p] = IF pass[p].pc = "idle" THEN Change!Idle ELSE aged(pass[p])
  BY DEF Change!Tick
<1>4. DOMAIN pass' = Procs /\ pass' = [p \in Procs |-> pass'[p]]
  BY DEF Change!Tick
<1> HIDE DEF aged
<1>5. pass' \in [Procs -> CrRun]
  <2>1. \A p \in Procs : pass'[p] \in CrRun
    BY <1>0, <1>2, <1>3
  <2> QED BY <1>4, <2>1
<1>6. \A p \in Procs :
         /\ pass'[p].pc = pass[p].pc
         /\ pass[p].pc = "idle" => pass'[p] = Change!Idle
         /\ pass[p].pc # "idle" => /\ pass'[p].st = Change!Older(pass[p].st) /\ pass'[p].waits = pass[p].waits
                                  /\ pass'[p].age = Change!Up(pass[p].age, Change!AgeCap)
  BY <1>0, <1>2, <1>3
<1> DEFINE older(u) == [u EXCEPT !.age = Change!Up(u.age, Lag), !.left = Change!Up(u.left, Change!Stale)]
<1>7. ASSUME NEW u \in CrTicket
      PROVE  /\ older(u) \in CrTicket /\ older(u).state = u.state
             /\ older(u).age = Change!Up(u.age, Lag) /\ older(u).left = Change!Up(u.left, Change!Stale)
  <2>1. u.age \in -1 .. Lag /\ u.age # -1 /\ u.left \in -1 .. Change!Stale
    BY <1>0 DEF CrTicket
  <2>2. Change!Up(u.age, Lag) \in 0 .. Lag /\ Change!Up(u.left, Change!Stale) \in -1 .. Change!Stale
    <3>1. Change!Up(u.age, Lag) \in -1 .. Lag /\ (Change!Up(u.age, Lag) = -1 <=> u.age = -1)
      BY <1>0, <2>1, CrUp
    <3>2. Change!Up(u.left, Change!Stale) \in -1 .. Change!Stale
      BY <1>0, <2>1, CrUp
    <3> QED BY <1>0, <2>1, <3>1, <3>2
  <2> QED BY <2>2 DEF CrTicket
<1>8. tickets' = [t \in 1 .. Len(tickets) |-> older(tickets[t])] /\ Len(tickets) \in Nat
  <2>1. DOMAIN tickets = 1 .. Len(tickets) /\ Len(tickets) \in Nat
    BY <1>0
  <2> QED BY <2>1 DEF Change!Tick
<1> HIDE DEF older
<1>9. \A t \in 1 .. Len(tickets) : tickets[t] \in CrTicket /\ older(tickets[t]) \in CrTicket
  BY <1>0, <1>7
<1>10. tickets' \in Seq(CrTicket) /\ Len(tickets') = Len(tickets)
  BY <1>8, <1>9
<1>11. \A t \in 1 .. Len(tickets) :
         /\ tickets'[t].state = tickets[t].state
         /\ tickets'[t].age = Change!Up(tickets[t].age, Lag) /\ tickets'[t].left = Change!Up(tickets[t].left, Change!Stale)
  BY <1>7, <1>8, <1>9
<1> QED BY <1>1, <1>5, <1>6, <1>10, <1>11 DEF Change!Tick, CrTicked

-----------------------------------------------------------------------------
(* ChangeRequest: a step is one of these, and keeps the types. *)

CrAct(p) ==
    \/ CrBegan(p) \/ CrRecorded(p) \/ CrFailed(p) \/ CrToAnnounce(p) \/ CrStopped(p)
    \/ CrAnnounced(p) \/ CrCreated(p) \/ CrFinished(p) \/ CrSynced(p)

CrStep ==
    \/ \E p \in Procs : CrAct(p)
    \/ CrLanded \/ CrDecided \/ CrRefreshed \/ CrTicked
    \/ UNCHANGED <<cr, seen, current, base, pass, tickets, limbo>>

LEMMA CrShape ==
    ASSUME Change!TicketInv, [Change!Next]_changeVars
    PROVE  /\ CrStep /\ UNCHANGED mode
           /\ stopped' \in BOOLEAN /\ wake' \in [Procs -> -1 .. CrWait]
<1>0. /\ Change!TypeOK /\ Len(tickets) <= MaxTickets /\ Change!TrueCopies /\ Change!InTime
      /\ stopped \in BOOLEAN /\ wake \in [Procs -> -1 .. CrWait] /\ CrWait \in Nat
  BY CrTypes, CrNumbers DEF Change!TicketInv
<1> DEFINE Goal == /\ CrStep /\ UNCHANGED mode
                   /\ stopped' \in BOOLEAN /\ wake' \in [Procs -> -1 .. CrWait]
<1>1. ASSUME NEW p \in Procs, Change!Begin(p) PROVE Goal
  BY <1>0, <1>1, CrBegins DEF CrStep, CrAct
<1>2. ASSUME NEW p \in Procs, Change!FindFound(p) PROVE Goal
  BY <1>0, <1>2, CrFinds DEF CrStep, CrAct, Change!FindFound, Change!Answered
<1>3. ASSUME NEW p \in Procs, Change!FindNone(p) PROVE Goal
  BY <1>0, <1>3, CrFindsNone DEF CrStep, CrAct
<1>4. ASSUME NEW p \in Procs, Change!Announce(p) PROVE Goal
  BY <1>0, <1>4, CrAnnounces DEF CrStep, CrAct, Change!Announce
<1>5. ASSUME NEW p \in Procs, Change!AnnounceConflict(p) \/ Change!finishConflict(p) \/ Change!Interrupted(p) PROVE Goal
  BY <1>0, <1>5, CrStops DEF CrStep, CrAct
<1>6. ASSUME NEW p \in Procs, Change!Create(p) PROVE Goal
  BY <1>0, <1>6, CrCreates DEF CrStep, CrAct, Change!Create
<1>7. ASSUME NEW p \in Procs, Change!CallFails(p) \/ Change!CreateFails(p) PROVE Goal
  BY <1>0, <1>7, CrCallFails DEF CrStep, CrAct, Change!CallFails, Change!CreateFails, Change!Answered
<1>8. ASSUME NEW p \in Procs, Change!Get(p) PROVE Goal
  BY <1>0, <1>8, CrGets DEF CrStep, CrAct, Change!Get, Change!Answered
<1>9. ASSUME NEW p \in Procs, Change!finishAt(p) PROVE Goal
  BY <1>0, <1>9, CrFinishes DEF CrStep, CrAct
<1>10. ASSUME NEW p \in Procs, Change!SyncCache(p) PROVE Goal
  BY <1>0, <1>10, CrSyncs DEF CrStep, CrAct
<1>11. CASE Change!Land
  BY <1>0, <1>11, CrLands DEF CrStep
<1>12. CASE Change!Decide \/ Change!Delete
  BY <1>0, <1>12, CrDecides DEF CrStep
<1>13. CASE Change!Refresh
  BY <1>0, <1>13, CrRefreshes DEF CrStep
<1>14. CASE Change!StopOrResume
  <2>1. wake' = [p \in Procs |-> IF p \in mode.procs THEN 0 ELSE Change!Never] /\ stopped' = ~stopped
    BY <1>14 DEF Change!StopOrResume
  <2>2. \A p \in Procs : (IF p \in mode.procs THEN 0 ELSE Change!Never) \in -1 .. CrWait
    BY <1>0 DEF Change!Never
  <2>3. wake' \in [Procs -> -1 .. CrWait]
    BY <2>1, <2>2
  <2> QED BY <1>0, <1>14, <2>1, <2>3 DEF Change!StopOrResume, CrStep
<1>15. CASE Change!Tick
  BY <1>0, <1>15, CrTicks DEF CrStep
<1>16. CASE UNCHANGED changeVars
  BY <1>0, <1>16 DEF changeVars, CrStep
<1> QED BY <1>1, <1>2, <1>3, <1>4, <1>5, <1>6, <1>7, <1>8, <1>9, <1>10, <1>11, <1>12, <1>13, <1>14,
           <1>15, <1>16 DEF Change!Next

LEMMA CrTypeStep ==
    ASSUME Change!TicketInv, [Change!Next]_changeVars PROVE Change!TypeOK' /\ Len(tickets') <= MaxTickets
<1>0. /\ CrStep /\ UNCHANGED mode /\ stopped' \in BOOLEAN /\ wake' \in [Procs -> -1 .. CrWait]
  BY CrShape
<1>1. /\ mode \in ChangeSettings /\ cr \in Change!Status
      /\ seen \in [Procs -> Change!Status] /\ current \in [Procs -> BOOLEAN]
      /\ base \in [Procs -> BOOLEAN] /\ pass \in [Procs -> CrRun]
      /\ tickets \in Seq(CrTicket) /\ limbo \subseteq 0 .. Latency /\ Len(tickets) <= MaxTickets /\ Change!InTime
  BY CrTypes DEF Change!TicketInv
<1>2. Latency \in Nat
  BY <1>1, CrNumbers
<1>3. /\ cr' \in Change!Status /\ seen' \in [Procs -> Change!Status] /\ pass' \in [Procs -> CrRun]
  <2>1. ASSUME NEW p \in Procs, CrAct(p) PROVE cr' \in Change!Status /\ seen' \in [Procs -> Change!Status] /\ pass' \in [Procs -> CrRun]
    <3>1. CASE CrFinished(p)
      BY <1>1, <3>1 DEF CrFinished, CrOthers, CrRun
    <3>2. CASE ~CrFinished(p)
      BY <1>1, <2>1, <3>2 DEF CrAct, CrBegan, CrRecorded, CrFailed, CrToAnnounce, CrStopped, CrAnnounced,
         CrCreated, CrSynced, CrMoved, CrEnded, CrOthers
    <3> QED BY <3>1, <3>2
  <2>2. CASE CrTicked
    <3>1. Change!Older(cr) \in Change!Status /\ \A p \in Procs : Change!Older(seen[p]) \in Change!Status
      BY <1>1, CrOlder
    <3> QED BY <2>2, <3>1 DEF CrTicked
  <2>3. CASE CrLanded \/ CrDecided \/ CrRefreshed \/ UNCHANGED <<cr, seen, current, base, pass, tickets, limbo>>
    BY <1>1, <2>3 DEF CrLanded, CrDecided, CrRefreshed
  <2> QED BY <1>0, <2>1, <2>2, <2>3 DEF CrStep
<1>4. current' \in [Procs -> BOOLEAN] /\ base' \in [Procs -> BOOLEAN]
  <2>1. ASSUME NEW p \in Procs, CrAnnounced(p) PROVE current' \in [Procs -> BOOLEAN] /\ base' \in [Procs -> BOOLEAN]
    <3>1. \A q \in Procs : (q = p) \in BOOLEAN
      OBVIOUS
    <3> QED BY <2>1, <3>1 DEF CrAnnounced
  <2> QED BY <1>0, <1>1, <2>1 DEF CrStep, CrAct, CrBegan, CrRecorded, CrFailed, CrToAnnounce, CrStopped,
     CrCreated, CrFinished, CrSynced, CrEnded, CrLanded, CrDecided, CrRefreshed, CrTicked
<1>5. tickets' \in Seq(CrTicket) /\ Len(tickets') <= MaxTickets
  BY <1>0, <1>1 DEF CrStep, CrAct, CrBegan, CrRecorded, CrFailed, CrToAnnounce, CrStopped, CrAnnounced,
     CrCreated, CrFinished, CrSynced, CrGrown, CrLanded, CrDecided, CrRefreshed, CrTicked
<1>6. limbo' \subseteq 0 .. Latency
  <2>1. ASSUME NEW p \in Procs, CrAct(p) PROVE limbo' \subseteq 0 .. Latency
    <3>1. pass[p].pc = "create" => pass[p].age \in 0 .. Latency
      <4>1. pass[p].age \in Nat
        BY <1>1, CrNumbers DEF CrRun
      <4> QED BY <1>1, <1>2, <4>1 DEF Change!InTime
    <3> QED BY <1>1, <2>1, <3>1 DEF CrAct, CrBegan, CrRecorded, CrFailed, CrToAnnounce, CrStopped, CrAnnounced,
           CrCreated, CrFinished, CrSynced
  <2>2. CASE CrTicked
    BY <1>1, <1>2, <2>2 DEF CrTicked
  <2>3. CASE CrLanded \/ CrDecided \/ CrRefreshed \/ UNCHANGED <<cr, seen, current, base, pass, tickets, limbo>>
    BY <1>1, <2>3 DEF CrLanded, CrDecided, CrRefreshed
  <2> QED BY <1>0, <2>1, <2>2, <2>3 DEF CrStep
<1>7. Change!Status' = Change!Status /\ CrRun' = CrRun /\ CrWait' = CrWait /\ CrTicket' = CrTicket
  BY <1>0 DEF Change!Status, CrRun, CrWait, CrTicket, Change!Age, Change!Stale, Change!AgeCap
<1>8. (/\ mode \in ChangeSettings /\ cr \in Change!Status /\ stopped \in BOOLEAN
       /\ seen \in [Procs -> Change!Status] /\ current \in [Procs -> BOOLEAN]
       /\ base \in [Procs -> BOOLEAN] /\ pass \in [Procs -> CrRun]
       /\ wake \in [Procs -> -1 .. CrWait] /\ tickets \in Seq(CrTicket)
       /\ limbo \subseteq 0 .. Latency)'
  BY <1>0, <1>1, <1>3, <1>4, <1>5, <1>6, <1>7
<1>9. Change!TypeOK'
  BY <1>8, CrTypes, PTL
<1> QED BY <1>5, <1>9

-----------------------------------------------------------------------------
(* ChangeRequest: at most one of a ticket, a create and one that may land. *)

\* What TicketInv says, for the steps below.
LEMMA CrFacts ==
    ASSUME Change!TicketInv
    PROVE  /\ mode \in ChangeSettings /\ cr \in Change!Status /\ cr.pending \in -1 .. CreateGrace
           /\ cr.readAge \in -1 .. Change!Stale
           /\ \A p \in Procs : /\ pass[p] \in CrRun /\ pass[p].st \in Change!Status /\ pass[p].age \in 0 .. Change!AgeCap
                               /\ seen[p] \in Change!Status
           /\ tickets \in Seq(CrTicket) /\ limbo \subseteq 0 .. Latency
           /\ \A t \in Change!Live : t \in 1 .. Len(tickets) /\ tickets[t].age \in 0 .. Lag
           /\ Latency \in Nat /\ Lag \in Nat /\ CreateGrace \in Nat /\ Change!AgeCap \in Nat /\ Change!Stale \in Nat
           /\ Latency + Lag <= CreateGrace /\ Latency < CreateGrace /\ CreateGrace <= Change!AgeCap /\ Change!Stale <= Change!AgeCap
           /\ Change!Stale > 0
<1>1. /\ mode \in ChangeSettings /\ cr \in Change!Status /\ pass \in [Procs -> CrRun]
      /\ tickets \in Seq(CrTicket) /\ limbo \subseteq 0 .. Latency /\ seen \in [Procs -> Change!Status]
  BY CrTypes DEF Change!TicketInv
<1>2. /\ Latency \in Nat /\ Lag \in Nat /\ CreateGrace \in Nat /\ Change!AgeCap \in Nat /\ Change!Stale \in Nat
      /\ Latency + Lag <= CreateGrace /\ Latency < CreateGrace /\ CreateGrace <= Change!AgeCap /\ Change!Stale <= Change!AgeCap
      /\ Change!Stale > 0
  BY <1>1, CrNumbers
<1>3. cr.pending \in -1 .. CreateGrace /\ cr.readAge \in -1 .. Change!Stale
  BY <1>1, CrStatus
<1>4. \A p \in Procs : pass[p] \in CrRun /\ pass[p].st \in Change!Status /\ pass[p].age \in 0 .. Change!AgeCap
  BY <1>1 DEF CrRun
<1>5. \A t \in Change!Live : t \in 1 .. Len(tickets) /\ tickets[t].age \in 0 .. Lag
  <2>1. ASSUME NEW t \in DOMAIN tickets PROVE t \in 1 .. Len(tickets) /\ tickets[t] \in CrTicket
    BY <1>1
  <2> QED BY <2>1 DEF Change!Live, CrTicket
<1> QED BY <1>1, <1>2, <1>3, <1>4, <1>5

LEMMA CrInTimeStep == ASSUME Change!TicketInv, CrStep PROVE Change!InTime'
<1>0. /\ Change!InTime /\ \A p \in Procs : pass[p].age \in 0 .. Change!AgeCap
      /\ Latency \in Nat /\ Change!AgeCap \in Nat /\ Latency < Change!AgeCap /\ Change!Idle.pc = "idle"
  <2>1. /\ mode \in ChangeSettings /\ \A p \in Procs : pass[p].age \in 0 .. Change!AgeCap
        /\ Latency \in Nat /\ Change!AgeCap \in Nat /\ CreateGrace \in Nat
        /\ Latency < CreateGrace /\ CreateGrace <= Change!AgeCap
    BY CrFacts
  <2>2. Change!Idle.pc = "idle"
    BY <2>1, CrIdle
  <2> QED BY <2>1, <2>2 DEF Change!TicketInv
<1>1. ASSUME NEW p \in Procs, CrAct(p) PROVE Change!InTime'
  BY <1>0, <1>1 DEF CrAct, CrBegan, CrRecorded, CrFailed, CrToAnnounce, CrStopped, CrAnnounced,
     CrCreated, CrFinished, CrSynced, CrMoved, CrEnded, CrOthers, Change!InTime
<1>2. CASE CrTicked
  <2>1. ASSUME NEW p \in Procs, pass[p].age < Latency PROVE Change!Up(pass[p].age, Change!AgeCap) <= Latency
    <3>1. pass[p].age \in -1 .. Change!AgeCap /\ pass[p].age # -1 /\ pass[p].age # Change!AgeCap
      BY <1>0, <2>1
    <3>2. Change!Up(pass[p].age, Change!AgeCap) = pass[p].age + 1
      BY <1>0, <3>1, CrUp
    <3> QED BY <1>0, <2>1, <3>1, <3>2
  <2> QED BY <1>2, <2>1 DEF CrTicked, Change!InTime
<1>3. CASE CrLanded \/ CrDecided \/ CrRefreshed \/ UNCHANGED <<cr, seen, current, base, pass, tickets, limbo>>
  BY <1>0, <1>3 DEF CrLanded, CrDecided, CrRefreshed, Change!InTime
<1> QED BY <1>1, <1>2, <1>3 DEF CrStep

\* Who creates, after a step of p.
LEMMA CrCreating ==
    ASSUME NEW p \in Procs, CrOthers(p)
    PROVE  /\ pass'[p].pc # "create" => Change!Creating' = Change!Creating \ {p}
           /\ pass'[p].pc = "create" => Change!Creating' = Change!Creating \cup {p}
BY DEF CrOthers, Change!Creating

\* The tickets that live.
LEMMA CrLiveSame ==
    ASSUME UNCHANGED tickets PROVE Change!Live' = Change!Live /\ \A t \in Change!Live' : tickets'[t] = tickets[t]
BY DEF Change!Live

LEMMA CrLiveGrown ==
    ASSUME Change!TicketInv, CrGrown
    PROVE  /\ Change!Live' = Change!Live \cup {Len(tickets')} /\ tickets'[Len(tickets')].age = 0
           /\ \A t \in Change!Live : tickets'[t] = tickets[t]
<1>0. tickets \in Seq(CrTicket) /\ tickets' \in Seq(CrTicket) /\ Len(tickets') = Len(tickets) + 1
  BY CrFacts DEF CrGrown
<1>1. DOMAIN tickets = 1 .. Len(tickets) /\ DOMAIN tickets' = 1 .. Len(tickets) + 1 /\ Len(tickets) \in Nat
  BY <1>0
<1>2. /\ \A t \in DOMAIN tickets : tickets'[t] = tickets[t]
      /\ tickets'[Len(tickets) + 1].age = 0 /\ tickets'[Len(tickets) + 1].state = "pending"
  BY <1>0, <1>1 DEF CrGrown, Change!Opened
<1>3. DOMAIN tickets' = DOMAIN tickets \cup {Len(tickets) + 1}
  BY <1>1
<1>4. Change!Live' = Change!Live \cup {Len(tickets) + 1}
  BY <1>2, <1>3 DEF Change!Live
<1> QED BY <1>0, <1>2, <1>4 DEF Change!Live

LEMMA CrLiveDecided ==
    ASSUME Change!TicketInv, CrDecided
    PROVE  Change!Live' \subseteq Change!Live /\ \A t \in Change!Live' : tickets'[t].age = tickets[t].age
<1>0. tickets \in Seq(CrTicket) /\ tickets' \in Seq(CrTicket) /\ Len(tickets') = Len(tickets)
  BY CrFacts DEF CrDecided
<1>1. DOMAIN tickets = 1 .. Len(tickets) /\ DOMAIN tickets' = DOMAIN tickets
  BY <1>0
<1> QED BY <1>1 DEF CrDecided, Change!Live

LEMMA CrLiveTicked == ASSUME Change!TicketInv, CrTicked PROVE Change!Live' = Change!Live /\ Change!Creating' = Change!Creating
<1>0. tickets \in Seq(CrTicket) /\ tickets' \in Seq(CrTicket) /\ Len(tickets') = Len(tickets)
  BY CrFacts DEF CrTicked
<1>1. DOMAIN tickets = 1 .. Len(tickets) /\ DOMAIN tickets' = DOMAIN tickets
  BY <1>0
<1> QED BY <1>1 DEF CrTicked, Change!Live, Change!Creating

\* What a create that runs, or may still land, excludes.
LEMMA CrExcludes ==
    ASSUME Change!TicketInv
    PROVE  /\ \A p \in Change!Creating : /\ Change!Live = {} /\ limbo = {} /\ Change!Creating = {p}
                                  /\ cr.pending # Change!Never /\ pass[p].age = cr.pending /\ pass[p].age <= Latency
           /\ \A a \in limbo : Change!Live = {} /\ limbo = {a} /\ Change!Creating = {} /\ cr.pending # Change!Never /\ a = cr.pending
<1>1. ASSUME NEW p \in Change!Creating
      PROVE  /\ Change!Live = {} /\ limbo = {} /\ Change!Creating = {p}
             /\ cr.pending # Change!Never /\ pass[p].age = cr.pending /\ pass[p].age <= Latency
  <2>1. p \in Procs /\ pass[p].pc = "create"
    BY DEF Change!Creating
  <2> QED BY <2>1 DEF Change!TicketInv, Change!AtMostOne, Change!NoCreate, Change!Announced, Change!InTime
<1>2. ASSUME NEW a \in limbo
      PROVE  Change!Live = {} /\ limbo = {a} /\ Change!Creating = {} /\ cr.pending # Change!Never /\ a = cr.pending
  BY DEF Change!TicketInv, Change!AtMostOne, Change!NoCreate, Change!Announced
<1> QED BY <1>1, <1>2

LEMMA CrOneStep == ASSUME Change!TicketInv, CrStep PROVE Change!AtMostOne'
<1> USE DEF Change!AtMostOne, Change!NoCreate
<1>0. Change!AtMostOne /\ Change!Idle.pc = "idle"
  BY CrIdle, CrFacts DEF Change!TicketInv
<1>1. ASSUME NEW p \in Procs, CrAct(p) PROVE Change!AtMostOne'
  <2>1. CASE CrBegan(p) \/ CrRecorded(p) \/ CrToAnnounce(p) \/ CrFinished(p)
    <3>1. CrOthers(p) /\ pass'[p].pc # "create" /\ UNCHANGED <<tickets, limbo>>
      BY <1>0, <2>1 DEF CrBegan, CrRecorded, CrToAnnounce, CrFinished, CrMoved
    <3>2. Change!Live' = Change!Live /\ Change!Creating' \subseteq Change!Creating
      BY <3>1, CrCreating, CrLiveSame
    <3> QED BY <1>0, <3>1, <3>2
  <2>2. CASE CrFailed(p) \/ CrStopped(p) \/ CrCreated(p)
    <3>1. /\ CrOthers(p) /\ pass'[p].pc # "create"
          /\ \/ UNCHANGED <<tickets, limbo>>
             \/ pass[p].pc = "create" /\ CrGrown /\ UNCHANGED limbo
             \/ pass[p].pc = "create" /\ limbo' = limbo \cup {pass[p].age} /\ UNCHANGED tickets
      BY <1>0, <2>2 DEF CrFailed, CrStopped, CrCreated, CrMoved, CrEnded
    <3>2. Change!Creating' = Change!Creating \ {p}
      BY <3>1, CrCreating
    <3>3. CASE UNCHANGED <<tickets, limbo>>
      BY <1>0, <3>2, <3>3, CrLiveSame
    <3>4. CASE pass[p].pc = "create"
      <4>1. p \in Change!Creating /\ Change!Live = {} /\ limbo = {} /\ Change!Creating' = {}
        <5>1. p \in Change!Creating
          BY <3>4 DEF Change!Creating
        <5> QED BY <3>2, <5>1, CrExcludes
      <4> QED BY <3>1, <4>1, CrLiveSame, CrLiveGrown
    <3> QED BY <3>1, <3>3, <3>4
  <2>3. CASE CrAnnounced(p)
    <3>1. Change!Live = {} /\ Change!NoCreate
      BY <2>3 DEF CrAnnounced, Change!TicketInv, Change!ReadsStored, Change!OfStored
    <3>2. CrOthers(p) /\ pass'[p].pc = "create" /\ UNCHANGED <<tickets, limbo>>
      BY <2>3 DEF CrAnnounced, CrMoved
    <3>3. Change!Creating' = {p} /\ Change!Live' = {} /\ limbo' = {}
      BY <3>1, <3>2, CrCreating, CrLiveSame
    <3> QED BY <3>3
  <2>4. CASE CrSynced(p)
    BY <1>0, <2>4, CrLiveSame DEF CrSynced, Change!Creating
  <2> QED BY <1>1, <2>1, <2>2, <2>3, <2>4 DEF CrAct
<1>2. CASE CrLanded
  <2>1. PICK a \in limbo : limbo' = limbo \ {a} /\ (UNCHANGED tickets \/ CrGrown)
    BY <1>2 DEF CrLanded
  <2>2. Change!Live = {} /\ limbo' = {} /\ Change!Creating' = {}
    BY <1>2, <2>1, CrExcludes DEF CrLanded, Change!Creating
  <2> QED BY <2>1, <2>2, CrLiveSame, CrLiveGrown
<1>3. CASE CrDecided
  <2>1. Change!Live' \subseteq Change!Live /\ UNCHANGED limbo /\ Change!Creating' = Change!Creating
    BY <1>3, CrLiveDecided DEF CrDecided, Change!Creating
  <2> QED BY <1>0, <2>1
<1>4. CASE CrTicked
  <2>1. Change!Live' = Change!Live /\ Change!Creating' = Change!Creating /\ limbo' = {a + 1 : a \in limbo}
    BY <1>4, CrLiveTicked DEF CrTicked
  <2> QED BY <1>0, <2>1
<1>5. CASE CrRefreshed \/ UNCHANGED <<cr, seen, current, base, pass, tickets, limbo>>
  BY <1>0, <1>5, CrLiveSame DEF CrRefreshed, Change!Creating
<1> QED BY <1>1, <1>2, <1>3, <1>4, <1>5 DEF CrStep

-----------------------------------------------------------------------------
(* ChangeRequest: the stored announcement. *)

LEMMA CrAnnouncedStep == ASSUME Change!TicketInv, CrStep PROVE Change!Announced'
<1>0. /\ Change!Announced /\ mode \in ChangeSettings /\ cr.pending \in -1 .. CreateGrace
      /\ \A p \in Procs : pass[p].age \in 0 .. Change!AgeCap
      /\ limbo \subseteq 0 .. Latency
      /\ \A t \in Change!Live : t \in 1 .. Len(tickets) /\ tickets[t].age \in 0 .. Lag
      /\ Latency \in Nat /\ Lag \in Nat /\ CreateGrace \in Nat /\ Change!AgeCap \in Nat
      /\ Latency < CreateGrace /\ CreateGrace <= Change!AgeCap
  BY CrFacts DEF Change!TicketInv
<1>9. Change!Idle.pc = "idle"
  BY <1>0, CrIdle
<1>1. ASSUME NEW p \in Procs, CrAct(p) PROVE Change!Announced'
  <2>1. CASE CrBegan(p) \/ CrRecorded(p) \/ CrToAnnounce(p)
    <3>1. CrOthers(p) /\ pass'[p].pc # "create" /\ UNCHANGED <<cr, tickets, limbo>>
      BY <2>1 DEF CrBegan, CrRecorded, CrToAnnounce, CrMoved
    <3>2. Change!Live' = Change!Live /\ Change!Creating' = Change!Creating \ {p} /\ \A q \in Change!Creating' : pass'[q] = pass[q]
      <4>1. Change!Live' = Change!Live /\ Change!Creating' = Change!Creating \ {p}
        BY <3>1, CrCreating, CrLiveSame
      <4> QED BY <3>1, <4>1 DEF CrOthers, Change!Creating
    <3> QED BY <1>0, <3>1, <3>2 DEF Change!Announced, Change!NoCreate
  <2>2. CASE CrFailed(p) \/ CrStopped(p) \/ CrCreated(p)
    <3>1. /\ CrOthers(p) /\ pass'[p].pc # "create" /\ UNCHANGED cr
          /\ \/ UNCHANGED <<tickets, limbo>>
             \/ pass[p].pc = "create" /\ CrGrown /\ UNCHANGED limbo
             \/ pass[p].pc = "create" /\ limbo' = limbo \cup {pass[p].age} /\ UNCHANGED tickets
      BY <1>9, <2>2 DEF CrFailed, CrStopped, CrCreated, CrMoved, CrEnded
    <3>2. Change!Creating' = Change!Creating \ {p}
      BY <3>1, CrCreating
    <3>3. CASE UNCHANGED <<tickets, limbo>>
      <4>1. Change!Live' = Change!Live /\ \A q \in Change!Creating' : pass'[q] = pass[q]
        BY <3>1, <3>2, <3>3, CrLiveSame DEF CrOthers, Change!Creating
      <4> QED BY <1>0, <3>1, <3>2, <3>3, <4>1 DEF Change!Announced, Change!NoCreate
    <3>4. CASE pass[p].pc = "create"
      <4>1. /\ Change!Live = {} /\ limbo = {} /\ Change!Creating' = {} /\ cr.pending # Change!Never
            /\ pass[p].age = cr.pending /\ pass[p].age <= Latency
        <5>1. p \in Change!Creating
          BY <3>4 DEF Change!Creating
        <5> QED BY <3>2, <5>1, CrExcludes
      <4>2. CASE CrGrown /\ UNCHANGED limbo
        <5>1. Change!Live' = {Len(tickets')} /\ tickets'[Len(tickets')].age = 0
          BY <4>1, <4>2, CrLiveGrown
        <5>2. \A t \in Change!Live' : tickets'[t].age = 0
          BY <5>1
        <5>3. cr.pending <= 0 + Latency
          BY <1>0, <4>1
        <5> QED BY <1>0, <3>1, <4>1, <4>2, <5>2, <5>3 DEF Change!Announced
      <4>3. CASE limbo' = limbo \cup {pass[p].age} /\ UNCHANGED tickets
        <5>1. Change!Live' = {} /\ limbo' = {cr.pending}
          BY <4>1, <4>3, CrLiveSame
        <5> QED BY <1>0, <3>1, <4>1, <5>1 DEF Change!Announced
      <4> QED BY <3>1, <3>3, <4>2, <4>3
    <3> QED BY <3>1, <3>3, <3>4
  <2>3. CASE CrAnnounced(p)
    <3>1. /\ Change!Live = {} /\ Change!NoCreate /\ pass[p].st = cr /\ (cr.pending # Change!Never \/ cr.ticket = Change!NoTicket)
      BY <2>3 DEF CrAnnounced, Change!TicketInv, Change!ReadsStored, Change!OfStored
    <3>2. /\ CrOthers(p) /\ pass'[p].pc = "create" /\ pass'[p].age = pass[p].age
          /\ UNCHANGED <<tickets, limbo>> /\ cr'.pending = pass[p].age /\ cr'.ticket = cr.ticket
      BY <2>3, <3>1 DEF CrAnnounced, CrMoved
    <3>3. Change!Creating' = {p} /\ Change!Live' = {} /\ limbo' = {}
      BY <3>1, <3>2, CrCreating, CrLiveSame DEF Change!NoCreate
    <3>4. cr'.pending # Change!Never /\ cr'.ticket = Change!NoTicket
      BY <1>0, <3>1, <3>2 DEF Change!Announced, Change!Never
    <3> QED BY <3>2, <3>3, <3>4 DEF Change!Announced
  <2>4. CASE CrFinished(p)
    <3>1. Change!Outcome(pass[p].st)
      BY <2>4 DEF CrFinished, Change!TicketInv, Change!ReadsStored, Change!OfStored
    <3>2. /\ CrOthers(p) /\ pass'[p].pc # "create" /\ cr' = pass[p].st /\ UNCHANGED <<tickets, limbo>>
      BY <1>9, <2>4 DEF CrFinished
    <3>3. Change!Live' = Change!Live /\ Change!Creating' = Change!Creating \ {p} /\ \A q \in Change!Creating' : pass'[q] = pass[q]
      <4>1. Change!Live' = Change!Live /\ Change!Creating' = Change!Creating \ {p}
        BY <3>2, CrCreating, CrLiveSame
      <4> QED BY <3>2, <4>1 DEF CrOthers, Change!Creating
    <3> QED BY <1>0, <3>1, <3>2, <3>3 DEF Change!Announced, Change!Outcome, Change!NoCreate
  <2>5. CASE CrSynced(p)
    BY <1>0, <2>5, CrLiveSame DEF CrSynced, Change!Creating, Change!Announced, Change!NoCreate
  <2> QED BY <1>1, <2>1, <2>2, <2>3, <2>4, <2>5 DEF CrAct
<1>2. CASE CrLanded
  <2>1. PICK a \in limbo : limbo' = limbo \ {a} /\ (UNCHANGED tickets \/ CrGrown)
    BY <1>2 DEF CrLanded
  <2>2. Change!Live = {} /\ limbo' = {} /\ Change!Creating' = {} /\ cr' = cr /\ cr.pending # Change!Never /\ a = cr.pending
    BY <1>2, <2>1, CrExcludes DEF CrLanded, Change!Creating
  <2>3. CASE UNCHANGED tickets
    BY <1>0, <2>2, <2>3, CrLiveSame DEF Change!Announced
  <2>4. CASE CrGrown
    <3>1. \A t \in Change!Live' : tickets'[t].age = 0
      BY <2>2, <2>4, CrLiveGrown
    <3>2. cr.pending <= 0 + Latency
      BY <1>0, <2>2
    <3> QED BY <1>0, <2>2, <3>1, <3>2 DEF Change!Announced
  <2> QED BY <2>1, <2>3, <2>4
<1>3. CASE CrDecided
  <2>1. /\ Change!Live' \subseteq Change!Live /\ \A t \in Change!Live' : tickets'[t].age = tickets[t].age
        /\ UNCHANGED <<cr, limbo, pass>> /\ Change!Creating' = Change!Creating
    BY <1>3, CrLiveDecided DEF CrDecided, Change!Creating
  <2> QED BY <1>0, <2>1 DEF Change!Announced, Change!NoCreate
<1>4. CASE CrTicked
  <2>1. Change!Live' = Change!Live /\ Change!Creating' = Change!Creating /\ limbo' = {a + 1 : a \in limbo}
    BY <1>4, CrLiveTicked DEF CrTicked
  <2>2. cr'.pending = Change!Up(cr.pending, CreateGrace) /\ cr'.ticket = cr.ticket
    BY <1>4, CrOlder, CrFacts DEF CrTicked
  <2>3. /\ cr'.pending = Change!Never <=> cr.pending = Change!Never
        /\ cr.pending # Change!Never => cr'.pending = IF cr.pending = CreateGrace THEN CreateGrace ELSE cr.pending + 1
    BY <1>0, <2>2, CrUp DEF Change!Never
  <2>4. CASE cr.pending = Change!Never
    BY <1>0, <2>1, <2>2, <2>3, <2>4 DEF Change!Announced, Change!NoCreate
  <2>5. CASE cr.pending # Change!Never
    <3>1. \A a \in limbo' : a = cr'.pending
      BY <1>0, <1>4, <2>1, <2>3, <2>5 DEF Change!Announced, CrTicked
    <3>2. ASSUME NEW q \in Change!Creating PROVE pass'[q].age = cr'.pending
      <4>1. q \in Procs /\ pass[q].pc = "create"
        BY DEF Change!Creating
      <4>2. pass[q].age < Latency /\ pass[q].age = cr.pending /\ pass'[q].age = Change!Up(pass[q].age, Change!AgeCap)
        BY <1>0, <1>4, <2>5, <4>1 DEF Change!Announced, CrTicked
      <4>3. pass[q].age \in -1 .. Change!AgeCap /\ pass[q].age # -1 /\ pass[q].age # Change!AgeCap
        BY <1>0, <4>1, <4>2
      <4>4. pass'[q].age = pass[q].age + 1
        BY <1>0, <4>2, <4>3, CrUp
      <4> QED BY <1>0, <2>3, <2>5, <4>2, <4>4
    <3>3. ASSUME NEW t \in Change!Live, tickets'[t].age < Lag PROVE cr'.pending <= tickets'[t].age + Latency
      <4>1. /\ tickets[t].age \in -1 .. Lag /\ tickets[t].age # -1
            /\ tickets'[t].age = Change!Up(tickets[t].age, Lag)
        BY <1>0, <1>4 DEF CrTicked
      <4>2. tickets'[t].age = IF tickets[t].age = Lag THEN Lag ELSE tickets[t].age + 1
        BY <1>0, <4>1, CrUp
      <4>3. tickets[t].age < Lag /\ tickets'[t].age = tickets[t].age + 1
        BY <1>0, <3>3, <4>1, <4>2
      <4>4. cr.pending <= tickets[t].age + Latency
        BY <1>0, <2>5, <4>3 DEF Change!Announced
      <4> QED BY <1>0, <2>3, <2>5, <4>1, <4>3, <4>4
    <3>4. cr'.ticket = Change!NoTicket
      BY <1>0, <2>2, <2>5 DEF Change!Announced
    <3> QED BY <2>1, <2>3, <2>5, <3>1, <3>2, <3>3, <3>4 DEF Change!Announced
  <2> QED BY <2>4, <2>5
<1>5. CASE CrRefreshed \/ UNCHANGED <<cr, seen, current, base, pass, tickets, limbo>>
  BY <1>0, <1>5, CrLiveSame DEF CrRefreshed, Change!Creating, Change!Announced, Change!NoCreate
<1> QED BY <1>1, <1>2, <1>3, <1>4, <1>5 DEF CrStep

-----------------------------------------------------------------------------
(* ChangeRequest: a reconcile that read the stored version. *)

\* Somebody else's step.
LEMMA CrKept ==
    ASSUME NEW q \in Procs, Change!OfStored(q), pass'[q] = pass[q], cr' = cr, UNCHANGED mode,
           ~Change!NoCreate \/ (Change!NoCreate' /\ Change!Live' \subseteq Change!Live /\ \A t \in Change!Live' : tickets'[t].age = tickets[t].age)
    PROVE  Change!OfStored(q)'
<1>1. Change!Stale' = Change!Stale
  BY DEF Change!Stale
<1>2. CASE ~Change!NoCreate
  BY <1>1, <1>2 DEF Change!OfStored, Change!Outcome
<1>3. CASE Change!NoCreate' /\ Change!Live' \subseteq Change!Live /\ \A t \in Change!Live' : tickets'[t].age = tickets[t].age
  BY <1>1, <1>3 DEF Change!OfStored, Change!Outcome
<1> QED BY <1>2, <1>3

\* Its own steps.
LEMMA CrBeganStored ==
    ASSUME Change!TicketInv, UNCHANGED mode, NEW p \in Procs, CrBegan(p), base'[p] PROVE Change!OfStored(p)'
<1>0. /\ cr.pending \in -1 .. CreateGrace /\ cr.readAge \in -1 .. Change!Stale /\ limbo \subseteq 0 .. Latency
      /\ \A t \in Change!Live : tickets[t].age \in 0 .. Lag
      /\ Latency \in Nat /\ Lag \in Nat /\ CreateGrace \in Nat
      /\ Latency + Lag <= CreateGrace /\ Latency < CreateGrace /\ Change!Announced
  BY CrFacts DEF Change!TicketInv
<1>1. seen[p] = cr
  BY DEF CrBegan, Change!TicketInv, Change!ReadsStored
<1>2. /\ pass'[p].age = 0 /\ pass'[p].st = cr /\ cr' = cr /\ pass'[p].pc \in {"find", "get"}
      /\ pass'[p].pc = "get" <=> cr.ticket # Change!NoTicket /\ cr.pending = Change!Never
      /\ pass'[p].waits <=> cr.pending # Change!Never /\ cr.pending < CreateGrace
      /\ CrOthers(p) /\ pass[p].pc = "idle" /\ UNCHANGED <<tickets, limbo>>
  BY <1>1 DEF CrBegan
<1>3. Change!Creating' = Change!Creating /\ Change!Live' = Change!Live /\ \A t \in Change!Live' : tickets'[t] = tickets[t]
  BY <1>2, CrCreating, CrLiveSame DEF Change!Creating
<1>4. ASSUME pass'[p].pc = "find", ~pass'[p].waits
      PROVE  Change!NoCreate /\ \A t \in Change!Live : tickets[t].age = Lag
  <2>1. CASE cr.pending = Change!Never
    BY <1>0, <1>2, <1>4, <2>1 DEF Change!Announced
  <2>2. CASE cr.pending # Change!Never
    <3>1. cr.pending = CreateGrace
      BY <1>0, <1>2, <1>4, <2>2
    <3>2. limbo = {}
      BY <1>0, <2>2, <3>1 DEF Change!Announced
    <3>3. Change!Creating = {}
      BY <1>0, <3>1, CrExcludes
    <3>4. ASSUME NEW t \in Change!Live PROVE tickets[t].age = Lag
      BY <1>0, <2>2, <3>1 DEF Change!Announced
    <3> QED BY <3>2, <3>3, <3>4 DEF Change!NoCreate
  <2> QED BY <2>1, <2>2
<1>5. pass'[p].pc = "find" /\ ~pass'[p].waits => Change!NoCreate' /\ \A t \in Change!Live' : tickets'[t].age = Lag
  BY <1>2, <1>3, <1>4 DEF Change!NoCreate
<1>6. cr.readAge # Change!Never => 0 <= cr.readAge
  BY <1>0 DEF Change!Never
<1> QED BY <1>2, <1>5, <1>6 DEF Change!OfStored

LEMMA CrWrittenStored ==
    ASSUME Change!TicketInv, UNCHANGED mode, NEW p \in Procs, base[p],
           CrRecorded(p) \/ CrFailed(p) \/ CrCreated(p)
    PROVE  Change!OfStored(p)'
<1>0. /\ cr.readAge \in -1 .. Change!Stale /\ Change!Stale \in Nat /\ pass[p].age \in 0 .. Change!AgeCap
      /\ tickets \in Seq(CrTicket) /\ Change!AgeCap \in Nat
  BY CrFacts
<1>1. PICK s \in Change!Status :
        /\ CrMoved(p, "write", s) /\ UNCHANGED cr /\ pass[p].pc \in {"find", "get", "create"}
        /\ \/ s.pending = pass[p].st.pending /\ s.ticket = pass[p].st.ticket /\ s.readAge = pass[p].st.readAge
           \/ /\ s.pending = Change!Never /\ s.readAge = (IF pass[p].age <= Change!Stale THEN pass[p].age ELSE Change!Stale)
              /\ s.ticket # Change!NoTicket /\ Change!NoCreate'
  <2>1. CASE CrFailed(p)
    BY <2>1 DEF CrFailed
  <2>2. CASE CrRecorded(p)
    <3>1. PICK t \in 1 .. Len(tickets), s \in Change!Status :
             /\ pass[p].pc \in {"find", "get"} /\ CrMoved(p, "write", s) /\ t \in Change!Live
             /\ s.pending = Change!Never /\ s.ticket = t
             /\ s.readAge = (IF pass[p].age <= Change!Stale THEN pass[p].age ELSE Change!Stale)
             /\ UNCHANGED <<cr, seen, current, base, tickets, limbo>>
      BY <2>2 DEF CrRecorded
    <3>2. Change!NoCreate
      BY <3>1 DEF Change!TicketInv, Change!AtMostOne
    <3>3. Change!Creating' = Change!Creating \ {p}
      BY <3>1, CrCreating DEF CrMoved
    <3>4. Change!NoCreate'
      BY <3>1, <3>2, <3>3 DEF Change!NoCreate
    <3>5. s.ticket # Change!NoTicket
      BY <1>0, <3>1 DEF Change!NoTicket
    <3> QED BY <3>1, <3>4, <3>5
  <2>3. CASE CrCreated(p)
    <3>1. PICK s \in Change!Status :
             /\ pass[p].pc = "create" /\ CrMoved(p, "write", s) /\ CrGrown
             /\ s.pending = Change!Never /\ s.ticket = Len(tickets')
             /\ s.readAge = (IF pass[p].age <= Change!Stale THEN pass[p].age ELSE Change!Stale)
             /\ UNCHANGED <<cr, seen, current, base, limbo>>
      BY <2>3 DEF CrCreated
    <3>2. Change!Creating' = Change!Creating \ {p} /\ p \in Change!Creating
      BY <3>1, CrCreating DEF CrMoved, Change!Creating
    <3>3. Change!NoCreate'
      BY <3>1, <3>2, CrExcludes DEF Change!NoCreate
    <3>4. s.ticket # Change!NoTicket
      BY <1>0, <3>1 DEF CrGrown, Change!NoTicket
    <3> QED BY <3>1, <3>3, <3>4
  <2> QED BY <2>1, <2>2, <2>3
<1>2. /\ pass[p].st = cr
      /\ cr.readAge # Change!Never => pass[p].age <= cr.readAge \/ cr.readAge = Change!Stale
  BY <1>1 DEF Change!TicketInv, Change!ReadsStored, Change!OfStored
<1>3. pass'[p].pc = "write" /\ pass'[p].st = s /\ pass'[p].age = pass[p].age /\ Change!Stale' = Change!Stale
  BY <1>1 DEF CrMoved, Change!Stale
<1>4. Change!Outcome(s)'
  <2>1. CASE s.pending = pass[p].st.pending /\ s.ticket = pass[p].st.ticket /\ s.readAge = pass[p].st.readAge
    BY <1>1, <1>2, <2>1 DEF Change!Outcome
  <2>2. CASE /\ s.pending = Change!Never /\ s.readAge = (IF pass[p].age <= Change!Stale THEN pass[p].age ELSE Change!Stale)
             /\ s.ticket # Change!NoTicket /\ Change!NoCreate'
    <3>1. s.readAge # Change!Never /\ (cr.readAge # Change!Never => s.readAge <= cr.readAge)
      BY <1>0, <1>2, <2>2 DEF Change!Never
    <3> QED BY <1>1, <2>2, <3>1 DEF Change!Outcome
  <2> QED BY <1>1, <2>1, <2>2
<1> QED BY <1>1, <1>2, <1>3, <1>4 DEF Change!OfStored

LEMMA CrToAnnounceStored ==
    ASSUME Change!TicketInv, UNCHANGED mode, NEW p \in Procs, base[p], CrToAnnounce(p) PROVE Change!OfStored(p)'
<1>0. /\ \A t \in Change!Live : tickets[t].age \in 0 .. Lag
      /\ Lag \in Nat
  BY CrFacts
<1>1. /\ pass[p].pc = "find" /\ ~pass[p].waits /\ CrMoved(p, "announce", pass[p].st)
      /\ \A t \in Change!Live : tickets[t].age < Lag
      /\ UNCHANGED <<cr, tickets, limbo>>
  BY DEF CrToAnnounce
<1>2. /\ pass[p].st = cr /\ Change!NoCreate /\ \A t \in Change!Live : tickets[t].age = Lag
      /\ cr.readAge # Change!Never => pass[p].age <= cr.readAge \/ cr.readAge = Change!Stale
      /\ cr.pending # Change!Never \/ cr.ticket = Change!NoTicket
  BY <1>1 DEF Change!TicketInv, Change!ReadsStored, Change!OfStored
<1>3. Change!Live = {}
  BY <1>0, <1>1, <1>2
<1>4. /\ CrOthers(p) /\ pass'[p].pc = "announce" /\ pass'[p].st = cr /\ pass'[p].age = pass[p].age
      /\ Change!Stale' = Change!Stale
  BY <1>1, <1>2 DEF CrMoved, Change!Stale
<1>5. Change!Live' = {} /\ Change!Creating' = Change!Creating \ {p}
  BY <1>1, <1>3, <1>4, CrCreating, CrLiveSame
<1>6. Change!NoCreate' /\ Change!Live' = {}
  BY <1>1, <1>2, <1>5 DEF Change!NoCreate
<1> QED BY <1>1, <1>2, <1>4, <1>6 DEF Change!OfStored

LEMMA CrAnnouncedStored ==
    ASSUME Change!TicketInv, UNCHANGED mode, NEW p \in Procs, CrAnnounced(p) PROVE Change!OfStored(p)'
<1>1. /\ pass[p].st = cr
      /\ cr.readAge # Change!Never => pass[p].age <= cr.readAge \/ cr.readAge = Change!Stale
  BY DEF CrAnnounced, Change!TicketInv, Change!ReadsStored, Change!OfStored
<1>2. /\ pass'[p].pc = "create" /\ pass'[p].st = cr' /\ pass'[p].age = pass[p].age
      /\ cr'.readAge = cr.readAge /\ Change!Stale' = Change!Stale
  BY <1>1 DEF CrAnnounced, CrMoved, Change!Stale
<1> QED BY <1>1, <1>2 DEF Change!OfStored

LEMMA CrTickedStored ==
    ASSUME Change!TicketInv, UNCHANGED mode, NEW p \in Procs, base[p], CrTicked PROVE Change!OfStored(p)'
<1>0. /\ mode \in ChangeSettings /\ cr \in Change!Status /\ pass[p].st \in Change!Status /\ pass[p].age \in 0 .. Change!AgeCap
      /\ cr.pending \in -1 .. CreateGrace /\ cr.readAge \in -1 .. Change!Stale
      /\ Change!AgeCap \in Nat /\ Change!Stale \in Nat /\ Change!Stale <= Change!AgeCap /\ Lag \in Nat /\ CreateGrace \in Nat
      /\ \A t \in Change!Live : t \in 1 .. Len(tickets) /\ tickets[t].age \in 0 .. Lag
  BY CrFacts
<1>1. Change!OfStored(p)
  BY DEF Change!TicketInv, Change!ReadsStored
<1>2. /\ pass'[p].pc = pass[p].pc /\ pass'[p].st = Change!Older(pass[p].st) /\ pass'[p].waits = pass[p].waits
      /\ pass'[p].age = Change!Up(pass[p].age, Change!AgeCap) /\ cr' = Change!Older(cr) /\ Change!Stale' = Change!Stale
  BY <1>1 DEF CrTicked, Change!OfStored, Change!Stale
<1>3. /\ cr'.pending = Change!Up(cr.pending, CreateGrace) /\ cr'.readAge = Change!Up(cr.readAge, Change!Stale)
      /\ cr'.ticket = cr.ticket
  BY <1>0, <1>2, CrOlder
<1>4. /\ cr'.pending = Change!Never <=> cr.pending = Change!Never
      /\ cr'.readAge = Change!Never <=> cr.readAge = Change!Never
      /\ cr.readAge # Change!Never => cr'.readAge = IF cr.readAge = Change!Stale THEN Change!Stale ELSE cr.readAge + 1
  <2>1. Change!Up(cr.pending, CreateGrace) = -1 <=> cr.pending = -1
    BY <1>0, CrUp
  <2>2. /\ Change!Up(cr.readAge, Change!Stale) = -1 <=> cr.readAge = -1
        /\ cr.readAge # -1 => Change!Up(cr.readAge, Change!Stale) = IF cr.readAge = Change!Stale THEN Change!Stale ELSE cr.readAge + 1
    BY <1>0, CrUp
  <2> QED BY <1>3, <2>1, <2>2 DEF Change!Never
<1>5. pass'[p].age = IF pass[p].age = Change!AgeCap THEN Change!AgeCap ELSE pass[p].age + 1
  <2>1. pass[p].age \in -1 .. Change!AgeCap /\ pass[p].age # -1
    BY <1>0
  <2>2. Change!Up(pass[p].age, Change!AgeCap) = IF pass[p].age = Change!AgeCap THEN Change!AgeCap ELSE pass[p].age + 1
    BY <1>0, <2>1, CrUp
  <2> QED BY <1>2, <2>2
<1>6. cr'.readAge # Change!Never => pass'[p].age <= cr'.readAge \/ cr'.readAge = Change!Stale
  BY <1>0, <1>1, <1>4, <1>5 DEF Change!OfStored
<1>7. (Change!NoCreate => Change!NoCreate') /\ Change!Live' = Change!Live
  <2>1. Change!Live' = Change!Live /\ Change!Creating' = Change!Creating /\ limbo' = {a + 1 : a \in limbo}
    BY CrLiveTicked DEF CrTicked
  <2> QED BY <2>1 DEF Change!NoCreate
<1>8. ASSUME NEW t \in Change!Live, tickets[t].age = Lag PROVE tickets'[t].age = Lag
  <2>1. tickets'[t].age = Change!Up(tickets[t].age, Lag) /\ Lag \in -1 .. Lag /\ Lag # -1
    BY <1>0 DEF CrTicked
  <2> QED BY <1>0, <1>8, <2>1, CrUp
<1>9. CASE pass[p].pc = "write"
  <2> DEFINE s == pass[p].st
  <2>0. PICK o : o = pass'[p].st
    OBVIOUS
  <2>1. s.readAge \in -1 .. Change!Stale
    BY <1>0, CrStatus
  <2>2. o.pending = Change!Up(s.pending, CreateGrace) /\ o.readAge = Change!Up(s.readAge, Change!Stale) /\ o.ticket = s.ticket
    BY <1>0, <1>2, <2>0, CrOlder
  <2>3. /\ o.readAge = Change!Never <=> s.readAge = Change!Never
        /\ s.readAge # Change!Never => o.readAge = IF s.readAge = Change!Stale THEN Change!Stale ELSE s.readAge + 1
    <3>1. /\ Change!Up(s.readAge, Change!Stale) = -1 <=> s.readAge = -1
          /\ s.readAge # -1 => Change!Up(s.readAge, Change!Stale) = IF s.readAge = Change!Stale THEN Change!Stale ELSE s.readAge + 1
      BY <1>0, <2>1, CrUp
    <3> QED BY <2>2, <3>1 DEF Change!Never
  <2>4. Change!Outcome(s)
    BY <1>1, <1>9 DEF Change!OfStored
  <2> HIDE DEF s
  <2>5. Change!Outcome(o)'
    <3>1. CASE s.pending = cr.pending /\ s.ticket = cr.ticket /\ s.readAge = cr.readAge
      BY <1>3, <2>2, <3>1 DEF Change!Outcome
    <3>2. CASE /\ s.pending = Change!Never /\ s.ticket # Change!NoTicket /\ Change!NoCreate
               /\ s.readAge # Change!Never /\ (cr.readAge # Change!Never => s.readAge <= cr.readAge)
      <4>1. o.pending = Change!Never
        BY <2>2, <3>2 DEF Change!Up
      <4>2. cr'.readAge # Change!Never => o.readAge <= cr'.readAge
        BY <1>0, <1>4, <2>1, <2>3, <3>2
      <4> QED BY <1>7, <2>2, <2>3, <3>2, <4>1, <4>2 DEF Change!Outcome
    <3> QED BY <2>4, <3>1, <3>2 DEF Change!Outcome
  <2> QED BY <1>2, <1>6, <1>9, <2>0, <2>5 DEF Change!OfStored, Change!Outcome
<1>10. CASE pass[p].pc # "write"
  BY <1>1, <1>2, <1>3, <1>4, <1>6, <1>7, <1>8, <1>10 DEF Change!OfStored
<1> QED BY <1>9, <1>10

LEMMA CrReadsStoredStep == ASSUME Change!TicketInv, CrStep, UNCHANGED mode PROVE Change!ReadsStored'
<1>0. /\ Change!ReadsStored /\ mode \in ChangeSettings /\ Change!Idle.pc = "idle"
  BY CrIdle, CrFacts DEF Change!TicketInv
<1>1. ASSUME NEW p \in Procs, CrAct(p), NEW q \in Procs
      PROVE  (current'[q] => seen'[q] = cr') /\ (base'[q] => Change!OfStored(q)')
  <2>1. CASE CrBegan(p) \/ CrRecorded(p) \/ CrFailed(p) \/ CrToAnnounce(p) \/ CrStopped(p) \/ CrCreated(p)
    <3>1. /\ CrOthers(p) /\ UNCHANGED <<cr, seen, current>>
          /\ q # p => base'[q] = base[q]
      BY <2>1 DEF CrBegan, CrRecorded, CrFailed, CrToAnnounce, CrStopped, CrCreated, CrMoved, CrEnded
    <3>2. current'[q] => seen'[q] = cr'
      BY <1>0, <3>1 DEF Change!ReadsStored
    <3>3. CASE q = p
      <4>1. ASSUME base'[p] PROVE Change!OfStored(p)'
        <5>1. CASE CrBegan(p)
          BY <4>1, <5>1, CrBeganStored
        <5>2. CASE CrStopped(p)
          BY <4>1, <5>2 DEF CrStopped, CrEnded
        <5>3. CASE CrRecorded(p) \/ CrFailed(p) \/ CrCreated(p)
          <6>1. base[p]
            BY <4>1, <5>3 DEF CrRecorded, CrFailed, CrCreated
          <6> QED BY <5>3, <6>1, CrWrittenStored
        <5>4. CASE CrToAnnounce(p)
          <6>1. base[p]
            BY <4>1, <5>4 DEF CrToAnnounce
          <6> QED BY <5>4, <6>1, CrToAnnounceStored
        <5> QED BY <2>1, <5>1, <5>2, <5>3, <5>4
      <4> QED BY <3>2, <3>3, <4>1
    <3>4. CASE q # p
      <4>1. ASSUME base[q] PROVE Change!OfStored(q)'
        <5>1. Change!OfStored(q) /\ pass'[q] = pass[q] /\ cr' = cr
          BY <1>0, <3>1, <3>4, <4>1 DEF Change!ReadsStored, CrOthers
        <5>2. /\ pass'[p].pc # "create"
              /\ pass[p].pc = "create" \/ UNCHANGED <<tickets, limbo>>
          BY <1>0, <2>1 DEF CrBegan, CrRecorded, CrFailed, CrToAnnounce, CrStopped, CrCreated, CrMoved, CrEnded
        <5>3. Change!Creating' = Change!Creating \ {p}
          BY <3>1, <5>2, CrCreating
        <5>4. CASE pass[p].pc = "create"
          <6>1. ~Change!NoCreate
            BY <5>4 DEF Change!NoCreate, Change!Creating
          <6> QED BY <5>1, <6>1, CrKept
        <5>5. CASE UNCHANGED <<tickets, limbo>>
          <6>1. Change!Live' = Change!Live /\ \A t \in Change!Live' : tickets'[t].age = tickets[t].age
            BY <5>5, CrLiveSame
          <6>2. ~Change!NoCreate \/ Change!NoCreate'
            BY <5>3, <5>5 DEF Change!NoCreate
          <6> QED BY <5>1, <6>1, <6>2, CrKept
        <5> QED BY <5>2, <5>4, <5>5
      <4> QED BY <3>1, <3>2, <3>4, <4>1
    <3> QED BY <3>3, <3>4
  <2>2. CASE CrAnnounced(p)
    <3>1. ~current'[q] /\ (base'[q] <=> q = p)
      BY <2>2 DEF CrAnnounced
    <3> QED BY <2>2, <3>1, CrAnnouncedStored
  <2>3. CASE CrFinished(p)
    BY <2>3 DEF CrFinished
  <2>4. CASE CrSynced(p)
    <3>1. current'[q] => seen'[q] = cr'
      BY <1>0, <2>4 DEF Change!ReadsStored, CrSynced
    <3>2. ASSUME base[q] PROVE Change!OfStored(q)'
      <4>1. Change!OfStored(q) /\ pass'[q] = pass[q] /\ cr' = cr
        BY <1>0, <2>4, <3>2 DEF Change!ReadsStored, CrSynced
      <4>2. ~Change!NoCreate \/ Change!NoCreate'
        BY <2>4 DEF CrSynced, Change!NoCreate, Change!Creating
      <4>3. Change!Live' = Change!Live /\ \A t \in Change!Live' : tickets'[t].age = tickets[t].age
        BY <2>4, CrLiveSame DEF CrSynced
      <4> QED BY <4>1, <4>2, <4>3, CrKept
    <3> QED BY <2>4, <3>1, <3>2 DEF CrSynced
  <2> QED BY <1>1, <2>1, <2>2, <2>3, <2>4 DEF CrAct
<1>2. ASSUME CrLanded \/ CrDecided \/ UNCHANGED <<cr, seen, current, base, pass, tickets, limbo>>,
             NEW q \in Procs
      PROVE  (current'[q] => seen'[q] = cr') /\ (base'[q] => Change!OfStored(q)')
  <2>1. UNCHANGED <<cr, seen, current, base, pass>>
    BY <1>2 DEF CrLanded, CrDecided
  <2>2. ASSUME base[q] PROVE Change!OfStored(q)'
    <3>1. Change!OfStored(q) /\ pass'[q] = pass[q] /\ cr' = cr /\ Change!Creating' = Change!Creating
      BY <1>0, <2>1, <2>2 DEF Change!ReadsStored, Change!Creating
    <3>2. CASE CrLanded
      <4>1. ~Change!NoCreate
        BY <3>2 DEF CrLanded, Change!NoCreate
      <4> QED BY <3>1, <4>1, CrKept
    <3>3. CASE CrDecided
      <4>1. Change!Live' \subseteq Change!Live /\ \A t \in Change!Live' : tickets'[t].age = tickets[t].age
        BY <3>3, CrLiveDecided
      <4>2. ~Change!NoCreate \/ Change!NoCreate'
        BY <3>1, <3>3 DEF Change!NoCreate, CrDecided
      <4> QED BY <3>1, <4>1, <4>2, CrKept
    <3>4. CASE UNCHANGED <<cr, seen, current, base, pass, tickets, limbo>>
      <4>1. Change!Live' = Change!Live /\ \A t \in Change!Live' : tickets'[t].age = tickets[t].age
        BY <3>4, CrLiveSame
      <4>2. ~Change!NoCreate \/ Change!NoCreate'
        BY <3>1, <3>4 DEF Change!NoCreate
      <4> QED BY <3>1, <4>1, <4>2, CrKept
    <3> QED BY <1>2, <3>2, <3>3, <3>4
  <2> QED BY <1>0, <2>1, <2>2 DEF Change!ReadsStored
<1>3. ASSUME CrRefreshed, NEW q \in Procs
      PROVE  (current'[q] => seen'[q] = cr') /\ (base'[q] => Change!OfStored(q)')
  BY <1>3 DEF CrRefreshed
<1>4. ASSUME CrTicked, NEW q \in Procs
      PROVE  (current'[q] => seen'[q] = cr') /\ (base'[q] => Change!OfStored(q)')
  <2>1. UNCHANGED <<current, base>> /\ cr' = Change!Older(cr) /\ seen'[q] = Change!Older(seen[q])
    BY <1>4 DEF CrTicked
  <2> QED BY <1>0, <1>4, <2>1, CrTickedStored DEF Change!ReadsStored
<1>5. \A q \in Procs : (current'[q] => seen'[q] = cr') /\ (base'[q] => Change!OfStored(q)')
  BY <1>1, <1>2, <1>3, <1>4 DEF CrStep
<1> QED BY <1>5 DEF Change!ReadsStored

-----------------------------------------------------------------------------
(* ChangeRequest: what a copy of the status shows. *)

CrTrue(s, ts, n) ==
    /\ s.ticket <= Len(ts)
    /\ s.state = "approved" =>
         /\ s.ticket # Change!NoTicket /\ s.readAge # Change!Never
         /\ \/ s.readAge = n \/ ts[s.ticket].state = "approved"
            \/ ts[s.ticket].left # Change!Never /\ ts[s.ticket].left <= s.readAge

LEMMA CrTrueSame ==
    /\ \A s : Change!TrueCopy(s) <=> CrTrue(s, tickets, Change!Stale)
    /\ Change!TrueCopies' <=>
         /\ CrTrue(cr', tickets', Change!Stale')
         /\ \A p \in Procs : CrTrue(seen'[p], tickets', Change!Stale') /\ CrTrue(pass'[p].st, tickets', Change!Stale')
         /\ \A p \in Procs : /\ pass'[p].pc = "get" => pass'[p].st.ticket # Change!NoTicket
                             /\ pass'[p].pc = "find" /\ pass'[p].waits => pass'[p].st.pending # Change!Never
BY DEF Change!TrueCopy, Change!TrueCopies, CrTrue

LEMMA CrTrueKept ==
    ASSUME Change!TicketInv, UNCHANGED tickets \/ CrGrown \/ CrDecided, NEW s \in Change!Status, Change!TrueCopy(s)
    PROVE  CrTrue(s, tickets', Change!Stale)
<1>0. /\ tickets \in Seq(CrTicket) /\ s.ticket \in Nat /\ s.readAge \in -1 .. Change!Stale /\ Change!Stale \in Nat
      /\ CrTrue(s, tickets, Change!Stale) /\ Len(tickets) \in Nat
  BY CrFacts, CrStatus, CrTrueSame
<1>1. CASE UNCHANGED tickets
  BY <1>0, <1>1
<1>2. CASE CrGrown
  <2>1. Len(tickets') = Len(tickets) + 1 /\ \A t \in 1 .. Len(tickets) : tickets'[t] = tickets[t]
    BY <1>2 DEF CrGrown
  <2>2. s.ticket # Change!NoTicket => s.ticket \in 1 .. Len(tickets)
    BY <1>0 DEF CrTrue, Change!NoTicket
  <2> QED BY <1>0, <2>1, <2>2 DEF CrTrue
<1>3. CASE CrDecided
  <2>1. PICK t \in Change!Live :
         /\ Len(tickets') = Len(tickets)
         /\ \A u \in 1 .. Len(tickets) : u # t => tickets'[u] = tickets[u]
         /\ tickets'[t].left = IF tickets[t].state = "approved" THEN 0 ELSE tickets[t].left
    BY <1>3 DEF CrDecided
  <2>2. s.ticket # Change!NoTicket => s.ticket \in 1 .. Len(tickets)
    BY <1>0 DEF CrTrue, Change!NoTicket
  <2>3. CASE s.ticket = t
    BY <1>0, <2>1, <2>3 DEF CrTrue, Change!Never
  <2>4. CASE s.ticket # t
    BY <1>0, <2>1, <2>2, <2>4 DEF CrTrue
  <2> QED BY <2>3, <2>4
<1> QED BY <1>1, <1>2, <1>3

LEMMA CrTrueTicked ==
    ASSUME Change!TicketInv, CrTicked, NEW s \in Change!Status, Change!TrueCopy(s) PROVE CrTrue(Change!Older(s), tickets', Change!Stale)
<1>0. /\ tickets \in Seq(CrTicket) /\ s.ticket \in Nat /\ s.readAge \in -1 .. Change!Stale /\ Change!Stale \in Nat
      /\ CrTrue(s, tickets, Change!Stale) /\ Len(tickets) \in Nat /\ mode \in ChangeSettings
      /\ Len(tickets') = Len(tickets)
  BY CrFacts, CrStatus, CrTrueSame DEF CrTicked
<1>1. PICK o : o = Change!Older(s)
  OBVIOUS
<1>2. o.readAge = Change!Up(s.readAge, Change!Stale) /\ o.ticket = s.ticket /\ o.state = s.state
  BY <1>0, <1>1, CrOlder
<1>3. CASE s.state = "approved"
  <2>1. s.ticket \in 1 .. Len(tickets) /\ s.readAge # Change!Never
    BY <1>0, <1>3 DEF CrTrue, Change!NoTicket
  <2> DEFINE l == tickets[s.ticket].left
  <2>2. l \in -1 .. Change!Stale
    <3>1. tickets[s.ticket] \in CrTicket
      BY <1>0, <2>1
    <3> QED BY <3>1 DEF CrTicket
  <2>3. o.readAge # -1 /\ o.readAge = IF s.readAge = Change!Stale THEN Change!Stale ELSE s.readAge + 1
    BY <1>0, <1>2, <2>1, CrUp DEF Change!Never
  <2>4. /\ tickets'[s.ticket].state = tickets[s.ticket].state
        /\ tickets'[s.ticket].left = Change!Up(l, Change!Stale)
    BY <2>1 DEF CrTicked
  <2> HIDE DEF l
  <2>5. /\ Change!Up(l, Change!Stale) = -1 <=> l = -1
        /\ l # -1 => Change!Up(l, Change!Stale) = IF l = Change!Stale THEN Change!Stale ELSE l + 1
    BY <1>0, <2>2, CrUp
  <2>6. s.readAge = Change!Stale \/ tickets[s.ticket].state = "approved" \/ (l # -1 /\ l <= s.readAge)
    BY <1>0, <1>3 DEF CrTrue, Change!Never, l
  <2>7. \/ o.readAge = Change!Stale \/ tickets'[o.ticket].state = "approved"
        \/ tickets'[o.ticket].left # -1 /\ tickets'[o.ticket].left <= o.readAge
    BY <1>0, <1>2, <2>2, <2>3, <2>4, <2>5, <2>6
  <2>8. o.ticket # Change!NoTicket /\ o.ticket <= Len(tickets')
    BY <1>0, <1>2, <2>1 DEF Change!NoTicket
  <2> QED BY <1>1, <2>3, <2>7, <2>8 DEF CrTrue, Change!Never
<1>4. CASE s.state # "approved"
  BY <1>0, <1>1, <1>2, <1>4 DEF CrTrue
<1> QED BY <1>3, <1>4

LEMMA CrTrueIdle ==
    ASSUME NEW s, s.ticket = Change!NoTicket, s.state # "approved", NEW n, NEW ts \in Seq(CrTicket)
    PROVE  CrTrue(s, ts, n)
BY DEF Change!NoTicket, CrTrue

LEMMA CrTrueStep == ASSUME Change!TicketInv, CrStep, UNCHANGED mode PROVE Change!TrueCopies'
<1>0. /\ mode \in ChangeSettings /\ Change!Idle.pc = "idle" /\ Change!Idle.st.ticket = Change!NoTicket /\ Change!Idle.st.state # "approved"
      /\ cr \in Change!Status /\ tickets \in Seq(CrTicket)
      /\ \A p \in Procs : /\ pass[p].st \in Change!Status /\ seen[p] \in Change!Status /\ pass[p].age \in 0 .. Change!AgeCap
                          /\ Change!TrueCopy(seen[p]) /\ Change!TrueCopy(pass[p].st)
                          /\ pass[p].pc = "get" => pass[p].st.ticket # Change!NoTicket
                          /\ pass[p].pc = "find" /\ pass[p].waits => pass[p].st.pending # Change!Never
      /\ Change!TrueCopy(cr) /\ Change!Stale' = Change!Stale /\ Change!Stale \in Nat /\ Change!AgeCap \in Nat
  BY CrIdle, CrFacts DEF Change!TicketInv, Change!TrueCopies, Change!Stale
<1>8. Len(tickets) \in Nat
  BY <1>0
<1>9. Change!Idle.st.ticket = Change!NoTicket /\ Change!Idle.st.state # "approved"
  BY <1>0
<1>1. CASE CrTicked
  <2>1. \A p \in Procs : pass'[p].pc # "idle" => CrTrue(pass'[p].st, tickets', Change!Stale')
    BY <1>0, <1>1, CrTrueTicked DEF CrTicked
  <2>2. \A p \in Procs : pass'[p].pc = "idle" => CrTrue(pass'[p].st, tickets', Change!Stale')
    <3>1. tickets' \in Seq(CrTicket)
      BY <1>1 DEF CrTicked
    <3>2. CrTrue(Change!Idle.st, tickets', Change!Stale')
      BY <1>9, <3>1, CrTrueIdle
    <3> QED BY <1>1, <3>2 DEF CrTicked
  <2>3. CrTrue(cr', tickets', Change!Stale') /\ \A p \in Procs : CrTrue(seen'[p], tickets', Change!Stale')
    BY <1>0, <1>1, CrTrueTicked DEF CrTicked
  <2>4. ASSUME NEW p \in Procs, pass'[p].pc # "idle"
        PROVE  /\ pass'[p].st.ticket = pass[p].st.ticket /\ pass'[p].waits = pass[p].waits
               /\ pass'[p].st.pending = Change!Never <=> pass[p].st.pending = Change!Never
    <3>1. pass'[p].st = Change!Older(pass[p].st) /\ pass'[p].waits = pass[p].waits
      BY <1>1, <2>4 DEF CrTicked
    <3>2. pass[p].st.pending \in -1 .. CreateGrace /\ CreateGrace \in Nat
      BY <1>0, CrStatus, CrNumbers
    <3>3. pass'[p].st.pending = Change!Up(pass[p].st.pending, CreateGrace) /\ pass'[p].st.ticket = pass[p].st.ticket
      BY <1>0, <3>1, CrOlder
    <3> QED BY <3>1, <3>2, <3>3, CrUp DEF Change!Never
  <2>5. \A p \in Procs : /\ pass'[p].pc = "get" => pass'[p].st.ticket # Change!NoTicket
                         /\ pass'[p].pc = "find" /\ pass'[p].waits => pass'[p].st.pending # Change!Never
    BY <1>0, <1>1, <2>4 DEF CrTicked
  <2> QED BY <2>1, <2>2, <2>3, <2>5, CrTrueSame
<1>2. CASE ~CrTicked
  <2>1. UNCHANGED tickets \/ CrGrown \/ CrDecided
    BY <1>2 DEF CrStep, CrAct, CrBegan, CrRecorded, CrFailed, CrToAnnounce, CrStopped, CrAnnounced,
       CrCreated, CrFinished, CrSynced, CrLanded, CrRefreshed
  <2>2. \A s \in Change!Status : Change!TrueCopy(s) => CrTrue(s, tickets', Change!Stale')
    BY <1>0, <2>1, CrTrueKept
  <2>3. tickets' \in Seq(CrTicket)
    BY <1>0, <2>1 DEF CrGrown, CrDecided
  <2>7. Len(tickets') \in Nat
    BY <2>3
  <2>4. ASSUME NEW p \in Procs, CrAct(p) PROVE Change!TrueCopies'
    <3> DEFINE Mine == /\ CrTrue(pass'[p].st, tickets', Change!Stale')
                       /\ pass'[p].pc = "get" => pass'[p].st.ticket # Change!NoTicket
                       /\ pass'[p].pc = "find" /\ pass'[p].waits => pass'[p].st.pending # Change!Never
    <3>1. CASE CrBegan(p)
      <4>1. UNCHANGED <<cr, seen>> /\ CrOthers(p)
        BY <3>1 DEF CrBegan
      <4>2. Mine
        BY <1>0, <2>2, <3>1 DEF CrBegan
      <4> QED BY <1>0, <2>2, <4>1, <4>2, CrTrueSame DEF CrOthers
    <3>2. CASE CrRecorded(p)
      <4>1. UNCHANGED <<cr, seen, tickets>> /\ CrOthers(p) /\ pass'[p].pc = "write"
        BY <3>2 DEF CrRecorded, CrMoved
      <4>2. CrTrue(pass'[p].st, tickets', Change!Stale')
        <5>1. PICK t \in 1 .. Len(tickets) :
                 /\ pass'[p].st.ticket = t /\ pass'[p].st.state = tickets[t].state
                 /\ pass'[p].st.readAge = IF pass[p].age <= Change!Stale THEN pass[p].age ELSE Change!Stale
          BY <3>2 DEF CrRecorded, CrMoved
        <5>2. pass'[p].st.readAge # Change!Never /\ t # Change!NoTicket /\ t <= Len(tickets')
          <6>1. pass[p].age \in 0 .. Change!AgeCap /\ Change!Stale \in Nat /\ Change!AgeCap \in Nat
            BY <1>0
          <6> QED BY <1>8, <4>1, <5>1, <6>1 DEF Change!Never, Change!NoTicket
        <5> QED BY <4>1, <5>1, <5>2 DEF CrTrue
      <4>3. Mine
        BY <4>1, <4>2
      <4> QED BY <1>0, <2>2, <4>1, <4>3, CrTrueSame DEF CrOthers
    <3>3. CASE CrFailed(p)
      <4>1. UNCHANGED <<cr, seen>> /\ CrOthers(p) /\ pass'[p].pc = "write"
        BY <3>3 DEF CrFailed, CrMoved
      <4>2. /\ pass'[p].st.ticket = pass[p].st.ticket /\ pass'[p].st.readAge = pass[p].st.readAge
            /\ pass'[p].st.state \in {pass[p].st.state, "unknown"}
        BY <3>3 DEF CrFailed, CrMoved
      <4>3. CrTrue(pass[p].st, tickets', Change!Stale')
        BY <1>0, <2>2
      <4>4. Mine
        BY <4>1, <4>2, <4>3 DEF CrTrue
      <4> QED BY <1>0, <2>2, <4>1, <4>4, CrTrueSame DEF CrOthers
    <3>4. CASE CrToAnnounce(p)
      <4>1. UNCHANGED <<cr, seen>> /\ CrOthers(p) /\ pass'[p].pc = "announce" /\ pass'[p].st = pass[p].st
        BY <3>4 DEF CrToAnnounce, CrMoved
      <4>2. Mine
        BY <1>0, <2>2, <4>1
      <4> QED BY <1>0, <2>2, <4>1, <4>2, CrTrueSame DEF CrOthers
    <3>5. CASE CrStopped(p) \/ CrFinished(p)
      <4>1. UNCHANGED seen /\ CrOthers(p) /\ pass'[p] = Change!Idle /\ cr' \in {cr, pass[p].st}
        BY <3>5 DEF CrStopped, CrFinished, CrEnded
      <4>2. Mine
        <5>1. CrTrue(Change!Idle.st, tickets', Change!Stale') /\ Change!Idle.pc = "idle"
          BY <1>0, <1>9, <2>3, CrTrueIdle
        <5> QED BY <4>1, <5>1
      <4>3. CrTrue(cr', tickets', Change!Stale')
        BY <1>0, <2>2, <4>1
      <4> QED BY <1>0, <2>2, <4>1, <4>2, <4>3, CrTrueSame DEF CrOthers
    <3>6. CASE CrAnnounced(p)
      <4>1. /\ UNCHANGED seen /\ CrOthers(p) /\ pass'[p].pc = "create" /\ pass'[p].st = cr'
            /\ cr'.ticket = pass[p].st.ticket /\ cr'.state = pass[p].st.state /\ cr'.readAge = pass[p].st.readAge
        BY <3>6 DEF CrAnnounced, CrMoved
      <4>2. CrTrue(pass[p].st, tickets', Change!Stale')
        BY <1>0, <2>2
      <4>3. CrTrue(cr', tickets', Change!Stale')
        BY <4>1, <4>2 DEF CrTrue
      <4>4. Mine
        BY <4>1, <4>3
      <4> QED BY <1>0, <2>2, <4>1, <4>3, <4>4, CrTrueSame DEF CrOthers
    <3>7. CASE CrCreated(p)
      <4>1. /\ UNCHANGED <<cr, seen>> /\ CrOthers(p) /\ pass'[p].pc = "write"
            /\ pass'[p].st.ticket = Len(tickets') /\ pass'[p].st.state = "pending"
        BY <3>7 DEF CrCreated, CrMoved
      <4>2. Mine
        BY <2>7, <4>1 DEF CrTrue
      <4> QED BY <1>0, <2>2, <4>1, <4>2, CrTrueSame DEF CrOthers
    <3>8. CASE CrSynced(p)
      <4>1. UNCHANGED <<cr, pass>> /\ \A q \in Procs : seen'[q] \in {cr, seen[q]}
        BY <3>8 DEF CrSynced
      <4> QED BY <1>0, <2>2, <4>1, CrTrueSame
    <3> QED BY <2>4, <3>1, <3>2, <3>3, <3>4, <3>5, <3>6, <3>7, <3>8 DEF CrAct
  <2>5. CASE CrLanded \/ CrDecided \/ UNCHANGED <<cr, seen, current, base, pass, tickets, limbo>>
    <3>1. UNCHANGED <<cr, seen, pass>>
      BY <2>5 DEF CrLanded, CrDecided
    <3> QED BY <1>0, <2>2, <3>1, CrTrueSame
  <2>6. CASE CrRefreshed
    <3>1. /\ UNCHANGED <<seen, pass>>
          /\ cr'.ticket = cr.ticket /\ cr'.state = cr.state /\ cr'.readAge = cr.readAge
      BY <2>6 DEF CrRefreshed
    <3>2. CrTrue(cr', tickets', Change!Stale')
      <4>1. CrTrue(cr, tickets', Change!Stale')
        BY <1>0, <2>2
      <4> QED BY <3>1, <4>1 DEF CrTrue
    <3> QED BY <1>0, <2>2, <3>1, <3>2, CrTrueSame
  <2> QED BY <1>2, <2>4, <2>5, <2>6 DEF CrStep
<1> QED BY <1>1, <1>2

-----------------------------------------------------------------------------
(* ChangeRequest: the invariant, and what follows from it. *)

LEMMA CrStart == Change!Init => Change!TicketInv
<1> SUFFICES ASSUME Change!Init PROVE Change!TicketInv
  OBVIOUS
<1>0. /\ mode \in ChangeSettings /\ Change!Idle \in CrRun /\ Change!Idle.pc = "idle" /\ Change!Idle.st \in Change!Status
      /\ Change!Idle.st.pending = Change!Never /\ Change!Idle.st.ticket = Change!NoTicket /\ Change!Idle.st.state # "approved"
      /\ CrWait \in Nat /\ MaxTickets \in Nat
  BY CrIdle, CrNumbers DEF Change!Init
<1>1. Change!TypeOK
  <2>0. CrWait \in Nat
    BY <1>0
  <2>1. wake \in [Procs -> -1 .. CrWait]
    <3>1. \A p \in Procs : (IF p \in mode.procs THEN 0 ELSE Change!Never) \in -1 .. CrWait
      BY <2>0 DEF Change!Never
    <3> QED BY <3>1 DEF Change!Init
  <2>2. /\ cr \in Change!Status /\ seen \in [Procs -> Change!Status] /\ pass \in [Procs -> CrRun]
        /\ current \in [Procs -> BOOLEAN] /\ base \in [Procs -> BOOLEAN] /\ stopped \in BOOLEAN
    BY <1>0 DEF Change!Init
  <2>3. tickets \in Seq(CrTicket) /\ limbo \subseteq 0 .. Latency
    <3>1. tickets = <<>> /\ limbo = {}
      BY DEF Change!Init
    <3> QED BY <3>1
  <2> QED BY <1>0, <2>1, <2>2, <2>3, CrTypes
<1>2. tickets = <<>> /\ Len(tickets) = 0 /\ limbo = {} /\ Change!Live = {} /\ Change!Creating = {}
  <2>1. tickets = <<>> /\ limbo = {} /\ \A p \in Procs : pass[p] = Change!Idle
    BY DEF Change!Init
  <2>2. Len(tickets) = 0 /\ DOMAIN tickets = {}
    BY <2>1
  <2>3. Change!Idle.pc # "create"
    BY <1>0
  <2> QED BY <2>1, <2>2, <2>3 DEF Change!Live, Change!Creating
<1>3. Change!AtMostOne /\ Change!InTime /\ Change!Announced /\ Change!ReadsStored
  BY <1>0, <1>2 DEF Change!AtMostOne, Change!NoCreate, Change!InTime, Change!Announced, Change!ReadsStored, Change!Init
<1>4. Change!TrueCopies
  <2>1. cr = Change!Idle.st /\ \A p \in Procs : seen[p] = cr /\ pass[p] = Change!Idle
    BY DEF Change!Init
  <2>2. Change!Idle.pc = "idle" /\ CrTrue(Change!Idle.st, tickets, Change!Stale)
    <3>1. tickets \in Seq(CrTicket)
      BY <1>2
    <3> QED BY <1>0, <3>1, CrTrueIdle
  <2> QED BY <2>1, <2>2, CrTrueSame DEF Change!TrueCopies
<1>5. Len(tickets) <= MaxTickets
  <2>1. MaxTickets \in Nat
    BY <1>0
  <2> QED BY <1>2, <2>1
<1> QED BY <1>1, <1>3, <1>4, <1>5 DEF Change!TicketInv

LEMMA CrInvStep == ASSUME Change!TicketInv, [Change!Next]_changeVars PROVE Change!TicketInv'
<1>1. CrStep /\ UNCHANGED mode
  BY CrShape
<1>2. Change!TypeOK' /\ Len(tickets') <= MaxTickets
  BY CrTypeStep
<1>3. Change!AtMostOne' /\ Change!InTime' /\ Change!Announced' /\ Change!ReadsStored' /\ Change!TrueCopies'
  BY <1>1, CrOneStep, CrInTimeStep, CrAnnouncedStep, CrReadsStoredStep, CrTrueStep
<1>4. (Len(tickets) <= MaxTickets)'
  BY <1>2
<1> QED BY <1>2, <1>3, <1>4 DEF Change!TicketInv

LEMMA CrOne == ASSUME Change!TicketInv PROVE Change!OneTicket
<1>1. \A t, u \in Change!Live : t = u
  BY DEF Change!TicketInv, Change!AtMostOne
<1>2. CASE Change!Live = {}
  BY <1>2, CrCardinality, FS_EmptySet DEF Change!OneTicket, Change!Live
<1>3. CASE Change!Live # {}
  <2>1. PICK t : Change!Live = {t}
    BY <1>1, <1>3
  <2>2. Change!Cardinality(Change!Live) = 1
    BY <2>1, CrCardinality, FS_Singleton
  <2> QED BY <2>2 DEF Change!OneTicket, Change!Live
<1> QED BY <1>2, <1>3

LEMMA CrFresh == ASSUME Change!TicketInv PROVE Change!FreshApproval
<1>1. Change!TrueCopy(cr) /\ cr.readAge \in -1 .. Change!Stale /\ Change!Stale \in Nat
  BY CrFacts DEF Change!TicketInv, Change!TrueCopies
<1> QED BY <1>1 DEF Change!TrueCopy, Change!FreshApproval

LEMMA CrForward == ASSUME Change!TicketInv, [Change!Next]_changeVars PROVE Change!ReadsForward
<1>0. CrStep /\ cr.readAge \in -1 .. Change!Stale /\ Change!Stale \in Nat
  BY CrShape, CrFacts
<1>1. ASSUME NEW p \in Procs, CrAct(p) PROVE Change!ReadsForward
  <2>1. CASE CrAnnounced(p)
    <3>1. cr'.readAge = cr.readAge
      BY <2>1 DEF CrAnnounced, Change!TicketInv, Change!ReadsStored, Change!OfStored
    <3> QED BY <1>0, <3>1 DEF Change!ReadsForward
  <2>2. CASE CrFinished(p)
    <3>1. Change!Outcome(cr')
      BY <2>2 DEF CrFinished, Change!TicketInv, Change!ReadsStored, Change!OfStored
    <3> QED BY <1>0, <3>1 DEF Change!Outcome, Change!ReadsForward
  <2>3. CASE UNCHANGED cr
    BY <2>3 DEF Change!ReadsForward
  <2> QED BY <1>1, <2>1, <2>2, <2>3 DEF CrAct, CrBegan, CrRecorded, CrFailed, CrToAnnounce, CrStopped,
         CrCreated, CrSynced
<1>2. CASE CrRefreshed
  BY <1>0, <1>2 DEF CrRefreshed, Change!ReadsForward
<1>3. CASE CrTicked \/ CrLanded \/ CrDecided \/ UNCHANGED <<cr, seen, current, base, pass, tickets, limbo>>
  BY <1>3 DEF CrTicked, CrLanded, CrDecided, Change!ReadsForward
<1> QED BY <1>0, <1>1, <1>2, <1>3 DEF CrStep

\* TicketSafe, for every number of replicas, grace, delay and poll interval: however replicas,
\* outdated copies, crashes, lost answers and late creates interleave, a promotion never has two
\* tickets (reconcile), a state a gate takes for fresh is one the ticket had since the
\* reading, and no older reading is written over a newer one (finishAt).
THEOREM TicketIsSafe == PartsSpec => TicketSafe
<1> DEFINE Inv == part = "change" => Change!TicketInv
<1>1. PartsInit => Inv
  BY PartStarts, CrStart
<1>2. Inv /\ [PartsNext]_partVars => Inv'
  BY PartSteps, CrInvStep
<1>3. Inv => (part = "change" => Change!TypeOK /\ Change!OneTicket /\ Change!FreshApproval)
  BY CrOne, CrFresh DEF Change!TicketInv
<1>4. Inv /\ [PartsNext]_partVars => [part = "change" => Change!ReadsForward]_partVars
  BY PartSteps, CrForward
<1> QED BY <1>1, <1>2, <1>3, <1>4, PTL DEF PartsSpec, TicketSafe
-----------------------------------------------------------------------------
(* FairQueue: numbers, counts and types. *)

LEMMA FqConstants ==
    /\ DOMAIN Home = Keys /\ Aging \in Nat /\ Span \in Nat /\ "tick" \notin Adders
    /\ \A k \in Keys : Home[k] \in Fair!Namespaces
    /\ \A s \in FairSettings : /\ s.keys \subseteq Keys /\ s.workers \subseteq Workers
                           /\ s.bases \subseteq Int /\ s.delays \subseteq Nat /\ s.gen \in Nat
BY PartsAssumption DEF Fair!ConstantsOK, Fair!Setting, Fair!Namespaces

LEMMA FqMax2 ==
    ASSUME NEW a \in Int, NEW b \in Int
    PROVE  Fair!Max({a, b}) \in {a, b} /\ Fair!Max({a, b}) >= a /\ Fair!Max({a, b}) >= b
<1>1. \E x \in {a, b} : \A y \in {a, b} : x >= y
  OBVIOUS
<1> QED BY <1>1 DEF Fair!Max

LEMMA FqMin2 ==
    ASSUME NEW a \in Int, NEW b \in Int
    PROVE  Fair!Min({a, b}) \in {a, b} /\ Fair!Min({a, b}) <= a /\ Fair!Min({a, b}) <= b
<1>1. \E x \in {a, b} : \A y \in {a, b} : x <= y
  OBVIOUS
<1> QED BY <1>1 DEF Fair!Min

\* Sets of keys are finite, and counts add up.
LEMMA FqCard ==
    /\ \A S \in SUBSET Keys : Fair!Cardinality(S) \in Nat
    /\ Fair!Cardinality({}) = 0 /\ \A x : Fair!Cardinality({x}) = 1
<1>1. Fair!IsFiniteSet(Keys)
  BY PartsAssumption, FqCardinality DEF Fair!ConstantsOK
<1>2. ASSUME NEW S \in SUBSET Keys PROVE Fair!Cardinality(S) \in Nat
  BY <1>1, FS_Subset, FS_CardinalityType, FqCardinality
<1> QED BY <1>2, FS_EmptySet, FS_Singleton, FqCardinality

LEMMA FqCardUnion ==
    ASSUME NEW S \in SUBSET Keys, NEW U \in SUBSET Keys, S \cap U = {}
    PROVE  Fair!Cardinality(S \cup U) = Fair!Cardinality(S) + Fair!Cardinality(U)
<1>1. Fair!IsFiniteSet(S) /\ Fair!IsFiniteSet(U)
  BY PartsAssumption, FS_Subset, FqCardinality DEF Fair!ConstantsOK
<1>2. Fair!Cardinality(S \cup U) = Fair!Cardinality(S) + Fair!Cardinality(U) - Fair!Cardinality(S \cap U)
  BY <1>1, FS_Union, FqCardinality
<1>3. Fair!Cardinality(S \cap U) = 0 /\ Fair!Cardinality(S) \in Nat /\ Fair!Cardinality(U) \in Nat
  BY FqCard
<1> QED BY <1>2, <1>3

LEMMA FqCardLess ==
    ASSUME NEW S \in SUBSET Keys, NEW k \in S PROVE Fair!Cardinality(S \ {k}) = Fair!Cardinality(S) - 1
<1>1. S \ {k} \in SUBSET Keys /\ {k} \in SUBSET Keys /\ (S \ {k}) \cap {k} = {} /\ (S \ {k}) \cup {k} = S
  OBVIOUS
<1>2. Fair!Cardinality(S) = Fair!Cardinality(S \ {k}) + Fair!Cardinality({k})
  BY <1>1, FqCardUnion
<1>3. Fair!Cardinality(S \ {k}) \in Nat /\ Fair!Cardinality({k}) = 1
  BY <1>1, FqCard
<1> QED BY <1>2, <1>3

LEMMA FqShift == ASSUME NEW b \in Int, NEW n \in Int PROVE Fair!shift(b, n) \in Int
<1> DEFINE S == {x \in Buckets : n >= x}
<1>1. Fair!IsFiniteSet(Buckets) /\ S \in SUBSET Buckets /\ Span \in Nat
  BY PartsAssumption, FqCardinality DEF Fair!ConstantsOK
<1>2. Fair!Cardinality(S) \in Nat
  BY <1>1, FS_Subset, FS_CardinalityType, FqCardinality
<1>3. b * Span \in Int
  BY <1>1
<1>4. Fair!shift(b, n) = b * Span - Fair!Cardinality(S)
  BY DEF Fair!shift
<1> HIDE DEF S
<1> QED BY <1>2, <1>3, <1>4

\* What a thread still has to add is a sequence of what is to be added.
LEMMA FqImage ==
    ASSUME NEW S \in SUBSET Keys, NEW f, DOMAIN f = S PROVE Fair!IsFiniteSet({f[x] : x \in S})
<1> DEFINE U == {f[x] : x \in S}
           g == [x \in S |-> f[x]]
<1>1. g \in Surjection(S, U)
  BY DEF Surjection
<1>2. Fair!IsFiniteSet(S)
  BY PartsAssumption, FS_Subset, FqCardinality DEF Fair!ConstantsOK
<1> HIDE DEF g, U
<1>3. Fair!IsFiniteSet(U)
  BY <1>1, <1>2, FS_Surjection, FqCardinality
<1> QED BY <1>3 DEF U

LEMMA FqOrders ==
    ASSUME NEW S, S \subseteq Fair!Add, Fair!IsFiniteSet(S), NEW o \in Fair!Orders(S)
    PROVE  o \in Seq(Fair!Add) /\ \A a \in S : \E i \in DOMAIN o : o[i] = a
<1>1. o \in [1 .. Fair!Cardinality(S) -> S] /\ Fair!ToSet(o) = S
  BY DEF Fair!Orders
<1>2. \A a \in S : \E i \in DOMAIN o : o[i] = a
  BY <1>1 DEF Fair!ToSet
<1>3. Fair!Cardinality(S) \in Nat
  BY FS_CardinalityType, FqCardinality
<1>4. o \in Seq(Fair!Add)
  BY <1>1, <1>3
<1> QED BY <1>2, <1>4

LEMMA FqTypes ==
    ASSUME load' \in FairSettings, load' = load,
           DOMAIN st' \subseteq Keys, st' = [x \in DOMAIN st' |-> st'[x]],
           \A x \in DOMAIN st' : st'[x] \in Fair!KeyState,
           active' \in [Fair!Namespaces -> Int],
           waiting' \subseteq [key : Keys, gen : 1 .. load.gen, left : Int],
           \A e \in waiting' : e.left >= -Aging,
           DOMAIN inner' \subseteq Keys, inner' \in [DOMAIN inner' -> [prio : Int, left : Nat]],
           order' \in Seq(Keys), DOMAIN inner' = Fair!ToSet(order'), Fair!IsInjective(order'),
           locked' \subseteq Keys, out' \in [Fair!Threads -> Seq(Fair!Add)],
           worker' \in [Workers -> [doing : Fair!Doing, key : Keys \cup {Fair!NoKey}, prio : Int]],
           \A w \in Workers : worker'[w].doing # "idle" => worker'[w].key \in Keys
    PROVE  Fair!TypeOK'
<1>1. Fair!KeyState' = Fair!KeyState
  BY DEF Fair!KeyState
<1>2. st' \in [DOMAIN st' -> Fair!KeyState]
  OBVIOUS
<1>3. waiting' \subseteq [key : Keys, gen : 1 .. load'.gen, left : Int]
  OBVIOUS
<1> QED BY <1>1, <1>2, <1>3, Zenon DEF Fair!TypeOK

-----------------------------------------------------------------------------
(* FairQueue: what promote does. *)

\* How long a key whose time has come has been due.
LEMMA FqLeast ==
    ASSUME NEW S, S # {}, \A x \in S : x \in Int /\ x <= 0 /\ x >= -Aging
    PROVE  -Fair!Min(S) \in 0 .. Aging
<1>0. Aging \in Nat
  BY FqConstants
<1> DEFINE U == {x + Aging : x \in S}
<1>1. U \subseteq Nat /\ U # {}
  BY <1>0
<1> HIDE DEF U
<1>2. PICK m \in U : \A y \in U : m <= y
  BY <1>1, Least
<1>3. PICK x \in S : m = x + Aging
  BY <1>2 DEF U
<1>4. ASSUME NEW y \in S PROVE x <= y
  <2>1. y + Aging \in U
    BY DEF U
  <2>2. x + Aging <= y + Aging
    BY <1>2, <1>3, <2>1
  <2> QED BY <1>0, <2>2
<1>5. Fair!Min(S) \in S
  BY <1>4 DEF Fair!Min
<1> QED BY <1>0, <1>5

LEMMA FqRipe ==
    ASSUME Fair!TypeOK, NEW k, Fair!Ripe(k) # {}
    PROVE  /\ k \in Keys /\ st[k].queued /\ ~st[k].due /\ -Fair!Min({e.left : e \in Fair!Ripe(k)}) \in 0 .. Aging
<1>1. \A e \in Fair!Ripe(k) : /\ e.key = k /\ e.left <= 0 /\ st[k].queued /\ ~st[k].due /\ e \in waiting
  BY DEF Fair!Ripe
<1>2. \A e \in waiting : e.key \in Keys /\ e.left \in Int /\ e.left >= -Aging
  BY DEF Fair!TypeOK
<1> DEFINE S == {e.left : e \in Fair!Ripe(k)}
<1>3. S # {} /\ \A x \in S : x \in Int /\ x <= 0 /\ x >= -Aging
  BY <1>1, <1>2
<1> HIDE DEF S
<1>4. -Fair!Min(S) \in 0 .. Aging
  BY <1>3, FqLeast
<1> QED BY <1>1, <1>2, <1>4 DEF S

\* A key's state as promote leaves it.
FqDueToo(new, s, more) ==
    /\ new \in Fair!KeyState
    /\ new.queued = s.queued /\ new.processing = s.processing /\ new.aged = s.aged
    /\ new.base = s.base /\ new.left = s.left /\ new.gen = s.gen
    /\ new.due <=> s.due \/ more

LEMMA FqPromotes ==
    ASSUME Fair!TypeOK, NEW ps, \A k \in ps : Fair!Ripe(k) # {}, NEW x \in DOMAIN st
    PROVE  FqDueToo(Fair!promote(ps)[x], st[x], x \in ps)
<1>1. st[x] \in Fair!KeyState
  BY DEF Fair!TypeOK
<1>2. CASE x \in ps
  <2> DEFINE long == -Fair!Min({e.left : e \in Fair!Ripe(x)})
             new == [st[x] EXCEPT !.due = TRUE, !.age = long]
  <2>1. Fair!promote(ps)[x] = new
    BY <1>2 DEF Fair!promote
  <2>2. long \in 0 .. Aging
    BY <1>2, FqRipe
  <2> HIDE DEF long
  <2>3. FqDueToo(new, st[x], TRUE)
    BY <1>1, <2>2 DEF Fair!KeyState, FqDueToo
  <2> HIDE DEF new
  <2> QED BY <1>2, <2>1, <2>3
<1>3. CASE x \notin ps
  <2>1. Fair!promote(ps)[x] = st[x]
    BY <1>3 DEF Fair!promote
  <2>2. FqDueToo(st[x], st[x], x \in ps)
    BY <1>1, <1>3 DEF FqDueToo
  <2> QED BY <2>1, <2>2
<1> QED BY <1>2, <1>3

LEMMA FqPromoted ==
    ASSUME Fair!TypeOK, NEW n
    PROVE  /\ Fair!Promoted(n) \subseteq Fair!KeysOf(n) /\ Fair!Promoted(n) \in SUBSET Keys
           /\ \A k \in Fair!Promoted(n) : Fair!Ripe(k) # {} /\ st[k].queued /\ ~st[k].due /\ k \in DOMAIN st /\ Home[k] = n
<1>1. DOMAIN st \subseteq Keys
  BY DEF Fair!TypeOK
<1>2. \A k \in Fair!Promoted(n) : k \in Fair!KeysOf(n) /\ Fair!Ripe(k) # {}
  BY DEF Fair!Promoted
<1> QED BY <1>1, <1>2, FqRipe DEF Fair!KeysOf

LEMMA FqAgain ==
    ASSUME Fair!TypeOK, NEW ks, ks \subseteq DOMAIN st, NEW counts \in [Fair!Namespaces -> Int]
    PROVE  Fair!Again(ks, counts) \subseteq Fair!Add /\ Fair!IsFiniteSet(Fair!Again(ks, counts))
<1>0. DOMAIN st \subseteq Keys /\ \A k \in DOMAIN st : st[k].base \in Int
  BY DEF Fair!TypeOK, Fair!KeyState
<1> DEFINE f == [k \in ks |-> [key |-> k, prio |-> Fair!shift(st[k].base, counts[Home[k]] - 1), after |-> 0]]
<1>1. Fair!Again(ks, counts) = {f[k] : k \in ks}
  BY DEF Fair!Again
<1>2. ks \in SUBSET Keys /\ DOMAIN f = ks
  BY <1>0
<1>3. ASSUME NEW k \in ks PROVE f[k] \in Fair!Add
  <2>1. counts[Home[k]] - 1 \in Int /\ st[k].base \in Int /\ k \in Keys
    BY <1>0, FqConstants
  <2>2. Fair!shift(st[k].base, counts[Home[k]] - 1) \in Int
    BY <2>1, FqShift
  <2> QED BY <2>1, <2>2 DEF Fair!Add
<1> HIDE DEF f
<1>4. Fair!IsFiniteSet({f[k] : k \in ks})
  BY <1>2, FqImage
<1> QED BY <1>1, <1>3, <1>4

-----------------------------------------------------------------------------
(* FairQueue: adding a key. *)

\* What AddWithOpts changes: the promoted keys ps are due, k is queued, and due when one is 1.
FqAdded(t, k, ps, one) ==
    /\ DOMAIN st' = DOMAIN st \cup {k}
    /\ \A x \in DOMAIN st \ {k} : FqDueToo(st'[x], st[x], x \in ps)
    /\ st'[k] \in Fair!KeyState /\ st'[k].queued /\ st'[k].base \in load.bases
    /\ st'[k].processing <=> k \in DOMAIN st /\ st[k].processing
    /\ st'[k].aged => k \in DOMAIN st /\ st[k].queued /\ st[k].aged
    /\ st'[k].aged => st[k].due
    /\ k \in DOMAIN st /\ st[k].queued => st'[k].base >= st[k].base
    /\ one \in {0, 1}
    /\ one = 1 => ~(k \in DOMAIN st /\ st[k].due) /\ k \notin ps
    /\ st'[k].due <=> (k \in DOMAIN st /\ st[k].due) \/ k \in ps \/ one = 1
    /\ active' = [active EXCEPT ![Home[k]] = active[Home[k]] + Fair!Cardinality(ps) + one]

LEMMA FqNewState == ASSUME Fair!TypeOK PROVE Fair!NewState \in Fair!KeyState
<1>1. Aging \in Nat /\ load.gen \in Nat
  BY FqConstants DEF Fair!TypeOK
<1> QED BY <1>1 DEF Fair!NewState, Fair!KeyState

LEMMA FqNextGen ==
    ASSUME Fair!TypeOK, NEW g \in 0 .. load.gen PROVE Fair!NextGen(g) \in 0 .. load.gen
<1>1. load.gen \in Nat
  BY FqConstants DEF Fair!TypeOK
<1> QED BY <1>1 DEF Fair!NextGen

LEMMA FqAddShape ==
    ASSUME Fair!TypeOK, Fair!DueIsQueued, NEW t \in Adders, NEW k \in load.keys, NEW b \in load.bases,
           NEW d \in load.delays, Fair!AddWithOpts(t, k, b, d)
    PROVE  /\ k \in Keys /\ Home[k] \in Fair!Namespaces /\ out[t] = <<>>
           /\ \E one : FqAdded(t, k, Fair!Promoted(Home[k]), one)
<1> DEFINE n == Home[k]
           ps == Fair!Promoted(n)
           s1 == IF k \in DOMAIN st THEN Fair!promote(ps)[k] ELSE Fair!NewState
<1>0. k \in Keys /\ Home[k] \in Fair!Namespaces /\ b \in Int /\ d \in Nat /\ load.gen \in Nat /\ load.bases \subseteq Int
  BY FqConstants DEF Fair!TypeOK
<1>1. /\ ps \subseteq Fair!KeysOf(n) /\ ps \in SUBSET Keys
      /\ \A x \in ps : Fair!Ripe(x) # {} /\ st[x].queued /\ ~st[x].due /\ x \in DOMAIN st /\ Home[x] = n
  BY FqPromoted
<1>2. \A x \in DOMAIN st : FqDueToo(Fair!promote(ps)[x], st[x], x \in ps)
  BY <1>1, FqPromotes
<1>3. /\ s1 \in Fair!KeyState
      /\ k \in DOMAIN st => FqDueToo(s1, st[k], k \in ps)
      /\ k \notin DOMAIN st => s1 = Fair!NewState /\ k \notin ps
  BY <1>1, <1>2, FqNewState DEF FqDueToo
<1> DEFINE fresh == ~s1.queued
           sooner == ~fresh /\ ~s1.due /\ d < s1.left
           sched == fresh \/ sooner
           dueNow == sched /\ d = 0 /\ ~s1.due
           s2 == [s1 EXCEPT !.queued = TRUE,
                         !.base = IF fresh THEN b ELSE Fair!Max({s1.base, b}),
                         !.aged = IF fresh THEN FALSE ELSE s1.aged,
                         !.left = IF sched THEN d ELSE s1.left,
                         !.gen = IF sched THEN Fair!NextGen(s1.gen) ELSE s1.gen,
                         !.due = s1.due \/ dueNow,
                         !.age = IF dueNow THEN 0 ELSE s1.age]
           act == active[n] + Fair!Cardinality(ps) + (IF dueNow THEN 1 ELSE 0)
<1>4. /\ out[t] = <<>>
      /\ st' = [x \in DOMAIN st \cup {k} |-> IF x = k THEN s2 ELSE Fair!promote(ps)[x]]
      /\ active' = [active EXCEPT ![n] = act]
  BY Zenon DEF Fair!AddWithOpts
<1> HIDE DEF s1
<1> DEFINE one == IF dueNow THEN 1 ELSE 0
           nb == IF fresh THEN b ELSE Fair!Max({s1.base, b})
           na == IF fresh THEN FALSE ELSE s1.aged
           nl == IF sched THEN d ELSE s1.left
           ng == IF sched THEN Fair!NextGen(s1.gen) ELSE s1.gen
           nd == s1.due \/ dueNow
           ne == IF dueNow THEN 0 ELSE s1.age
<1>5. /\ s1.queued \in BOOLEAN /\ s1.processing \in BOOLEAN /\ s1.due \in BOOLEAN /\ s1.aged \in BOOLEAN
      /\ s1.base \in Int /\ s1.left \in Nat /\ s1.age \in 0 .. Aging /\ s1.gen \in 0 .. load.gen
  BY <1>3 DEF Fair!KeyState
<1>6. s1.queued => k \in DOMAIN st /\ st[k].queued /\ s1.base \in load.bases
  <2>1. CASE k \in DOMAIN st
    <3>1. s1.queued = st[k].queued /\ s1.base = st[k].base
      BY <1>3, <2>1 DEF FqDueToo
    <3> QED BY <2>1, <3>1 DEF Fair!DueIsQueued
  <2>2. CASE k \notin DOMAIN st
    BY <1>3, <2>2 DEF Fair!NewState
  <2> QED BY <2>1, <2>2
<1>7. nb \in load.bases
  <2>1. Fair!Max({s1.base, b}) \in {s1.base, b}
    BY <1>0, <1>5, FqMax2, Zenon
  <2> QED BY <1>6, <2>1
<1>7a. k \in DOMAIN st /\ st[k].queued => nb >= st[k].base
  <2> SUFFICES ASSUME k \in DOMAIN st, st[k].queued PROVE nb >= st[k].base
    OBVIOUS
  <2>1. s1.queued /\ s1.base = st[k].base
    BY <1>3 DEF FqDueToo
  <2>2. Fair!Max({s1.base, b}) >= s1.base
    BY <1>0, <1>5, FqMax2, Zenon
  <2>3. nb = Fair!Max({s1.base, b})
    BY <2>1
  <2> QED BY <2>1, <2>2, <2>3
<1>8. /\ nb \in Int /\ na \in BOOLEAN /\ nl \in Nat /\ nd \in BOOLEAN /\ ng \in 0 .. load.gen
      /\ ne \in 0 .. Aging
  <2>1. nb \in Int
    BY <1>0, <1>7
  <2>2. ng \in 0 .. load.gen
    BY <1>5, FqNextGen
  <2>3. na \in BOOLEAN
    BY <1>5
  <2>4. nl \in Nat
    BY <1>0, <1>5
  <2>5. nd \in BOOLEAN
    OBVIOUS
  <2>6. ne \in 0 .. Aging
    BY <1>5, FqConstants
  <2> QED BY <2>1, <2>2, <2>3, <2>4, <2>5, <2>6
<1>9. na => s1.queued /\ s1.aged
  BY <1>5
<1>10. one \in {0, 1} /\ (one = 1 <=> dueNow)
  OBVIOUS
<1>11. dueNow => ~s1.due
  OBVIOUS
<1>12. nd <=> s1.due \/ one = 1
  BY <1>10
<1>13. s2 = [s1 EXCEPT !.queued = TRUE, !.base = nb, !.aged = na, !.left = nl, !.gen = ng, !.due = nd, !.age = ne]
  OBVIOUS
<1>14. act = active[n] + Fair!Cardinality(ps) + one
  OBVIOUS
<1>15. one = 1 => ~s1.due
  BY <1>10, <1>11
<1> HIDE DEF s2, nb, na, nl, ng, nd, ne, one, act
<1>16. /\ s2 \in Fair!KeyState /\ s2.queued /\ s2.base = nb /\ s2.processing = s1.processing
       /\ s2.aged = na /\ s2.due = nd
  BY <1>3, <1>8, <1>13 DEF Fair!KeyState
<1>17. DOMAIN st' = DOMAIN st \cup {k} /\ st'[k] = s2 /\ \A x \in DOMAIN st \ {k} : st'[x] = Fair!promote(ps)[x]
  BY <1>4
<1>18. (s1.due <=> (k \in DOMAIN st /\ st[k].due) \/ k \in ps) /\ (s1.processing <=> k \in DOMAIN st /\ st[k].processing)
  BY <1>3 DEF FqDueToo, Fair!NewState
<1>19. na => k \in DOMAIN st /\ st[k].queued /\ st[k].aged /\ st[k].due
  BY <1>3, <1>6, <1>9 DEF FqDueToo, Fair!DueIsQueued
<1> HIDE DEF ps
<1>20. FqAdded(t, k, ps, one)
  BY <1>2, <1>4, <1>7, <1>7a, <1>10, <1>12, <1>14, <1>15, <1>16, <1>17, <1>18, <1>19 DEF FqAdded
<1> QED BY <1>0, <1>4, <1>20 DEF ps

LEMMA FqAddRest ==
    ASSUME Fair!TypeOK, Fair!DueIsQueued, NEW t \in Adders, NEW k \in load.keys, NEW b \in load.bases,
           NEW d \in load.delays, Fair!AddWithOpts(t, k, b, d)
    PROVE  /\ waiting' \subseteq [key : Keys, gen : 1 .. load.gen, left : Int]
           /\ \A e \in waiting' : e.left >= -Aging
           /\ out' = [out EXCEPT ![t] = out'[t]] /\ out' \in [Fair!Threads -> Seq(Fair!Add)]
           /\ \E i \in DOMAIN out'[t] : out'[t][i].key = k
           /\ UNCHANGED <<load, inner, order, locked, worker>>
<1> DEFINE n == Home[k]
           ps == Fair!Promoted(n)
           s1 == IF k \in DOMAIN st THEN Fair!promote(ps)[k] ELSE Fair!NewState
           fresh == ~s1.queued
           sooner == ~fresh /\ ~s1.due /\ d < s1.left
           sched == fresh \/ sooner
           dueNow == sched /\ d = 0 /\ ~s1.due
           s2 == [s1 EXCEPT !.queued = TRUE,
                         !.base = IF fresh THEN b ELSE Fair!Max({s1.base, b}),
                         !.aged = IF fresh THEN FALSE ELSE s1.aged,
                         !.left = IF sched THEN d ELSE s1.left,
                         !.gen = IF sched THEN Fair!NextGen(s1.gen) ELSE s1.gen,
                         !.due = s1.due \/ dueNow,
                         !.age = IF dueNow THEN 0 ELSE s1.age]
           act == active[n] + Fair!Cardinality(ps) + (IF dueNow THEN 1 ELSE 0)
           backlog == IF s2.due \/ s2.processing THEN act - 1 ELSE act
           counts == [active EXCEPT ![n] = act]
           first == [key |-> k, prio |-> Fair!shift(b, backlog), after |-> d]
<1>0. /\ k \in Keys /\ n \in Fair!Namespaces /\ b \in Int /\ d \in Nat /\ load.gen \in Nat
      /\ active \in [Fair!Namespaces -> Int] /\ t \in Fair!Threads /\ Aging \in Nat
  BY FqConstants DEF Fair!TypeOK, Fair!Threads
<1>1. /\ ps \subseteq Fair!KeysOf(n) /\ ps \in SUBSET Keys
      /\ \A x \in ps : Fair!Ripe(x) # {} /\ st[x].queued /\ ~st[x].due /\ x \in DOMAIN st /\ Home[x] = n
  BY FqPromoted
<1>2. \A x \in DOMAIN st : FqDueToo(Fair!promote(ps)[x], st[x], x \in ps)
  BY <1>1, FqPromotes
<1>3. s1 \in Fair!KeyState
  BY <1>2, FqNewState DEF FqDueToo
<1>4. /\ sched /\ d > 0 => Fair!NextGen(s1.gen) < load.gen
      /\ waiting' = Fair!Unripe(n) \cup (IF sched /\ d > 0 THEN {[key |-> k, gen |-> s2.gen, left |-> d]} ELSE {})
      /\ \E o \in Fair!Orders(Fair!Again(ps \ {k}, counts)) : out' = [out EXCEPT ![t] = <<first>> \o o]
      /\ UNCHANGED <<load, inner, order, locked, worker>>
  BY Zenon DEF Fair!AddWithOpts
<1>5. s1.gen \in 0 .. load.gen
  BY <1>3 DEF Fair!KeyState
<1>6. DOMAIN s1 = DOMAIN Fair!NewState
  BY <1>3 DEF Fair!KeyState, Fair!NewState
<1> HIDE DEF s1
<1>7. sched => s2.gen = Fair!NextGen(s1.gen)
  BY <1>6 DEF Fair!NewState
<1> HIDE DEF s2
<1>8. sched /\ d > 0 => s2.gen \in 1 .. load.gen
  BY <1>0, <1>4, <1>5, <1>7 DEF Fair!NextGen
<1>9. act \in Int
  <2>1. active[n] \in Int /\ Fair!Cardinality(ps) \in Nat
    BY <1>0, <1>1, FqCard
  <2> HIDE DEF ps
  <2> QED BY <2>1
<1> HIDE DEF sched, act
<1>10. /\ waiting' \subseteq [key : Keys, gen : 1 .. load.gen, left : Int]
       /\ \A e \in waiting' : e.left >= -Aging
  <2>1. \A e \in Fair!Unripe(n) : e \in [key : Keys, gen : 1 .. load.gen, left : Int] /\ e.left >= -Aging
    BY DEF Fair!Unripe, Fair!TypeOK
  <2>2. sched /\ d > 0 => [key |-> k, gen |-> s2.gen, left |-> d] \in [key : Keys, gen : 1 .. load.gen, left : Int]
    BY <1>0, <1>8
  <2>3. d >= -Aging
    BY <1>0
  <2>4. ASSUME NEW e \in waiting'
        PROVE  e \in [key : Keys, gen : 1 .. load.gen, left : Int] /\ e.left >= -Aging
    <3>1. CASE e \in Fair!Unripe(n)
      BY <2>1, <3>1
    <3>2. CASE e \notin Fair!Unripe(n)
      <4>1. sched /\ d > 0 /\ e = [key |-> k, gen |-> s2.gen, left |-> d]
        BY <1>4, <3>2
      <4> QED BY <2>2, <2>3, <4>1
    <3> QED BY <3>1, <3>2
  <2> QED BY <2>4
<1>11. counts \in [Fair!Namespaces -> Int]
  BY <1>0, <1>9
<1>12. backlog \in Int
  BY <1>9
<1> HIDE DEF counts, backlog
<1>13. first \in Fair!Add /\ first.key = k
  <2>1. Fair!shift(b, backlog) \in Int
    BY <1>0, <1>12, FqShift
  <2> QED BY <1>0, <2>1 DEF Fair!Add
<1> HIDE DEF first
<1>14. PICK o \in Fair!Orders(Fair!Again(ps \ {k}, counts)) : out' = [out EXCEPT ![t] = <<first>> \o o]
  BY <1>4
<1>15. o \in Seq(Fair!Add)
  <2>1. ps \ {k} \subseteq DOMAIN st
    BY <1>1
  <2>2. Fair!Again(ps \ {k}, counts) \subseteq Fair!Add /\ Fair!IsFiniteSet(Fair!Again(ps \ {k}, counts))
    BY <2>1, <1>11, FqAgain
  <2> QED BY <2>2, FqOrders
<1>16. /\ <<first>> \o o \in Seq(Fair!Add)
       /\ \E i \in DOMAIN (<<first>> \o o) : (<<first>> \o o)[i].key = k
  BY <1>13, <1>15
<1>17. out \in [Fair!Threads -> Seq(Fair!Add)]
  BY DEF Fair!TypeOK
<1> DEFINE more == <<first>> \o o
<1>18. out' = [out EXCEPT ![t] = more] /\ more \in Seq(Fair!Add) /\ \E i \in DOMAIN more : more[i].key = k
  BY <1>14, <1>16
<1> HIDE DEF more
<1>19. out'[t] = more /\ out' = [out EXCEPT ![t] = out'[t]] /\ out' \in [Fair!Threads -> Seq(Fair!Add)]
  BY <1>0, <1>17, <1>18
<1> QED BY <1>4, <1>10, <1>18, <1>19

LEMMA FqAddTypes ==
    ASSUME Fair!TypeOK, Fair!DueIsQueued, NEW t \in Adders, NEW k \in load.keys, NEW b \in load.bases,
           NEW d \in load.delays, Fair!AddWithOpts(t, k, b, d)
    PROVE  Fair!TypeOK'
<1> DEFINE n == Home[k]
           ps == Fair!Promoted(n)
<1>1. PICK one : k \in Keys /\ n \in Fair!Namespaces /\ FqAdded(t, k, ps, one)
  BY FqAddShape
<1>2. /\ waiting' \subseteq [key : Keys, gen : 1 .. load.gen, left : Int]
      /\ \A e \in waiting' : e.left >= -Aging
      /\ out' \in [Fair!Threads -> Seq(Fair!Add)]
      /\ UNCHANGED <<load, inner, order, locked, worker>>
  BY FqAddRest
<1>3. ps \in SUBSET Keys
  BY FqPromoted
<1> HIDE DEF ps
<1>4. Fair!Cardinality(ps) \in Nat
  BY <1>3, FqCard
<1>5. DOMAIN st' \subseteq Keys /\ st' = [x \in DOMAIN st' |-> st'[x]] /\ \A x \in DOMAIN st' : st'[x] \in Fair!KeyState
  <2>1. DOMAIN st' = DOMAIN st \cup {k} /\ DOMAIN st \subseteq Keys
    BY <1>1 DEF FqAdded, Fair!TypeOK
  <2>2. \A x \in DOMAIN st' : st'[x] \in Fair!KeyState
    BY <1>1, <2>1 DEF FqAdded, FqDueToo
  <2>3. st' = [x \in DOMAIN st' |-> st'[x]]
    BY DEF FqAdded, Fair!AddWithOpts
  <2> QED BY <1>1, <2>1, <2>2, <2>3
<1>6. active' \in [Fair!Namespaces -> Int]
  BY <1>1, <1>4 DEF FqAdded, Fair!TypeOK
<1> QED
  <2>1. /\ load' \in FairSettings
        /\ DOMAIN inner' \subseteq Keys /\ inner' \in [DOMAIN inner' -> [prio : Int, left : Nat]]
        /\ order' \in Seq(Keys) /\ DOMAIN inner' = Fair!ToSet(order') /\ Fair!IsInjective(order')
        /\ locked' \subseteq Keys
        /\ worker' \in [Workers -> [doing : Fair!Doing, key : Keys \cup {Fair!NoKey}, prio : Int]]
        /\ \A w \in Workers : worker'[w].doing # "idle" => worker'[w].key \in Keys
    BY <1>2 DEF Fair!TypeOK
  <2> QED BY <1>2, <1>5, <1>6, <2>1, FqTypes, Zenon

-----------------------------------------------------------------------------
(* FairQueue: a sweep. *)

\* What sweep changes: the promoted keys are due, the keys in old aged.
FqSwept(old) ==
    /\ DOMAIN st' = DOMAIN st /\ old \subseteq DOMAIN st
    /\ \A x \in DOMAIN st :
          /\ st'[x] \in Fair!KeyState
          /\ st'[x].queued = st[x].queued /\ st'[x].processing = st[x].processing /\ st'[x].base = st[x].base
          /\ st'[x].due <=> st[x].due \/ x \in Fair!Promoted(Home[x])
          /\ st'[x].aged <=> st[x].aged \/ x \in old
          /\ x \in old => st'[x].due
    /\ \A x \in old : \E i \in DOMAIN out'["tick"] : /\ out'["tick"][i].key = x
                                                     /\ out'["tick"][i].prio = st[x].base * Span

LEMMA FqSweepShape ==
    ASSUME Fair!TypeOK, Fair!sweep
    PROVE  /\ Fair!TypeOK' /\ out["tick"] = <<>>
           /\ active' \in [Fair!Namespaces -> Int]
           /\ \A n \in Fair!Namespaces : active'[n] = active[n] + Fair!Cardinality(Fair!Promoted(n))
           /\ out' = [out EXCEPT !["tick"] = out'["tick"]]
           /\ UNCHANGED <<load, inner, order, locked, worker>>
           /\ \E old : FqSwept(old)
<1> DEFINE ps == UNION {Fair!Promoted(n) : n \in Fair!Namespaces}
           s1 == Fair!promote(ps)
           counts == [n \in Fair!Namespaces |-> active[n] + Fair!Cardinality(Fair!Promoted(n))]
           old == {k \in DOMAIN st : Aging > 0 /\ s1[k].due /\ ~s1[k].aged /\ s1[k].age >= Aging}
           raise == {[key |-> k, prio |-> st[k].base * Span, after |-> 0] : k \in old}
<1>0. /\ DOMAIN st \subseteq Keys /\ active \in [Fair!Namespaces -> Int] /\ out \in [Fair!Threads -> Seq(Fair!Add)] /\ Span \in Nat
      /\ "tick" \in Fair!Threads /\ \A k \in DOMAIN st : st[k].base \in Int
  BY FqConstants DEF Fair!TypeOK, Fair!Threads, Fair!KeyState
<1>1. /\ out["tick"] = <<>>
      /\ st' = [k \in DOMAIN st |-> IF k \in old THEN [s1[k] EXCEPT !.aged = TRUE] ELSE s1[k]]
      /\ active' = counts
      /\ waiting' = {e \in waiting : e.left > 0}
      /\ \E o \in Fair!Orders(Fair!Again(ps, counts) \cup raise) : out' = [out EXCEPT !["tick"] = o]
      /\ UNCHANGED <<load, inner, order, locked, worker>>
  BY Zenon DEF Fair!sweep
<1>2. ASSUME NEW x \in ps PROVE x \in DOMAIN st /\ Fair!Ripe(x) # {} /\ x \in Fair!Promoted(Home[x])
  <2>1. PICK n \in Fair!Namespaces : x \in Fair!Promoted(n)
    OBVIOUS
  <2> QED BY <2>1, FqPromoted
<1>3. ASSUME NEW x \in DOMAIN st PROVE x \in Fair!Promoted(Home[x]) => x \in ps
  BY <1>0, FqConstants
<1>4. \A x \in DOMAIN st : FqDueToo(s1[x], st[x], x \in ps)
  BY <1>2, FqPromotes
<1>5. \A n \in Fair!Namespaces : Fair!Cardinality(Fair!Promoted(n)) \in Nat
  BY FqPromoted, FqCard
<1>6. counts \in [Fair!Namespaces -> Int] /\ \A n \in Fair!Namespaces : counts[n] = active[n] + Fair!Cardinality(Fair!Promoted(n))
  <2>1. \A n \in Fair!Namespaces : active[n] + Fair!Cardinality(Fair!Promoted(n)) \in Int
    BY <1>0, <1>5
  <2> QED BY <2>1
<1>7. Fair!Again(ps, counts) \subseteq Fair!Add /\ Fair!IsFiniteSet(Fair!Again(ps, counts))
  <2>1. ps \subseteq DOMAIN st
    BY <1>2
  <2> HIDE DEF ps, counts
  <2> QED BY <1>6, <2>1, FqAgain
<1>8. raise \subseteq Fair!Add /\ Fair!IsFiniteSet(raise)
  <2> DEFINE f == [k \in old |-> [key |-> k, prio |-> st[k].base * Span, after |-> 0]]
  <2>1. raise = {f[k] : k \in old} /\ old \in SUBSET Keys /\ DOMAIN f = old
    BY <1>0
  <2>2. \A k \in DOMAIN st : st[k].base * Span \in Int
    BY <1>0
  <2>3. ASSUME NEW k \in old PROVE f[k] \in Fair!Add
    <3>1. k \in Keys /\ st[k].base * Span \in Int
      BY <1>0, <2>2
    <3>2. f[k] = [key |-> k, prio |-> st[k].base * Span, after |-> 0]
      OBVIOUS
    <3> HIDE DEF f, old
    <3> QED BY <3>1, <3>2 DEF Fair!Add
  <2> HIDE DEF f, old, raise
  <2>4. Fair!IsFiniteSet({f[k] : k \in old})
    BY <2>1, FqImage
  <2> QED BY <2>1, <2>3, <2>4
<1> HIDE DEF counts
<1>9. \A x \in old : [key |-> x, prio |-> st[x].base * Span, after |-> 0] \in raise
  OBVIOUS
<1>10. old \subseteq DOMAIN st /\ \A x \in old : s1[x].due
  OBVIOUS
<1> HIDE DEF raise, old
<1> DEFINE S == Fair!Again(ps, counts) \cup raise
<1>11. PICK o \in Fair!Orders(S) : out' = [out EXCEPT !["tick"] = o]
  BY <1>1
<1>12. S \subseteq Fair!Add /\ Fair!IsFiniteSet(S)
  <2>1. Fair!IsFiniteSet(Fair!Again(ps, counts) \cup raise)
    BY <1>7, <1>8, FS_Union, FqCardinality
  <2> QED BY <1>7, <1>8, <2>1
<1>13. \A a \in raise : a \in S
  OBVIOUS
<1> HIDE DEF S, s1, ps
<1>14. o \in Seq(Fair!Add) /\ \A a \in S : \E i \in DOMAIN o : o[i] = a
  BY <1>12, FqOrders
<1>15. out'["tick"] = o /\ out' \in [Fair!Threads -> Seq(Fair!Add)] /\ out' = [out EXCEPT !["tick"] = out'["tick"]]
  BY <1>0, <1>11, <1>14
<1>16. ASSUME NEW x \in old
       PROVE  \E i \in DOMAIN out'["tick"] : out'["tick"][i].key = x /\ out'["tick"][i].prio = st[x].base * Span
  <2>1. PICK i \in DOMAIN o : o[i] = [key |-> x, prio |-> st[x].base * Span, after |-> 0]
    BY <1>9, <1>13, <1>14
  <2> QED BY <1>15, <2>1
<1>17. ASSUME NEW x \in DOMAIN st
       PROVE  /\ st'[x] \in Fair!KeyState
              /\ st'[x].queued = st[x].queued /\ st'[x].processing = st[x].processing /\ st'[x].base = st[x].base
              /\ st'[x].due <=> st[x].due \/ x \in Fair!Promoted(Home[x])
              /\ st'[x].aged <=> st[x].aged \/ x \in old
              /\ x \in old => st'[x].due
  <2>1. FqDueToo(s1[x], st[x], x \in ps)
    BY <1>4
  <2>2. x \in ps <=> x \in Fair!Promoted(Home[x])
    BY <1>2, <1>3
  <2>3. CASE x \in old
    <3> DEFINE new == [s1[x] EXCEPT !.aged = TRUE]
    <3>1. st'[x] = new
      BY <1>1, <2>3
    <3>2. /\ new \in Fair!KeyState /\ new.aged
          /\ new.queued = s1[x].queued /\ new.processing = s1[x].processing /\ new.base = s1[x].base
          /\ new.due = s1[x].due
      BY <2>1 DEF FqDueToo, Fair!KeyState
    <3>3. s1[x].due
      BY <1>10, <2>3
    <3> HIDE DEF new
    <3> QED BY <2>1, <2>2, <2>3, <3>1, <3>2, <3>3 DEF FqDueToo
  <2>4. CASE x \notin old
    <3>1. st'[x] = s1[x]
      BY <1>1, <2>4
    <3> QED BY <2>1, <2>2, <2>4, <3>1 DEF FqDueToo
  <2> QED BY <2>3, <2>4
<1>18. DOMAIN st' = DOMAIN st
  BY <1>1
<1>19. FqSwept(old)
  BY <1>10, <1>16, <1>17, <1>18 DEF FqSwept
<1>20. Fair!TypeOK'
  <2>1. /\ load' \in FairSettings /\ load' = load
        /\ DOMAIN inner' \subseteq Keys /\ inner' \in [DOMAIN inner' -> [prio : Int, left : Nat]]
        /\ order' \in Seq(Keys) /\ DOMAIN inner' = Fair!ToSet(order') /\ Fair!IsInjective(order')
        /\ locked' \subseteq Keys
        /\ worker' \in [Workers -> [doing : Fair!Doing, key : Keys \cup {Fair!NoKey}, prio : Int]]
        /\ \A w \in Workers : worker'[w].doing # "idle" => worker'[w].key \in Keys
    BY <1>1 DEF Fair!TypeOK
  <2>2. /\ waiting' \subseteq [key : Keys, gen : 1 .. load.gen, left : Int]
        /\ \A e \in waiting' : e.left >= -Aging
    BY <1>1 DEF Fair!TypeOK
  <2>3. st' = [x \in DOMAIN st' |-> st'[x]] /\ DOMAIN st' \subseteq Keys
    BY <1>0, <1>1
  <2>4. \A x \in DOMAIN st' : st'[x] \in Fair!KeyState
    BY <1>17, <1>18
  <2>5. active' \in [Fair!Namespaces -> Int]
    BY <1>1, <1>6
  <2> QED BY <1>15, <2>1, <2>2, <2>3, <2>4, <2>5, FqTypes, Zenon
<1> QED BY <1>1, <1>6, <1>15, <1>19, <1>20

-----------------------------------------------------------------------------
(* FairQueue: the inner queue's side. *)

\* The next of t's adds: its key is in the inner queue, no priority is lowered, and the
\* others of t's adds are still to be made.
FqLands(t, a) ==
    /\ a \in Fair!Add /\ out[t] # <<>> /\ a = Head(out[t])
    /\ out' = [out EXCEPT ![t] = Tail(out[t])]
    /\ DOMAIN inner' = DOMAIN inner \cup {a.key} /\ inner'[a.key].prio >= a.prio
    /\ \A x \in DOMAIN inner : inner'[x].prio >= inner[x].prio
    /\ UNCHANGED <<load, st, active, waiting, locked, worker>>

LEMMA FqAppend ==
    ASSUME NEW q \in Seq(Keys), NEW k \in Keys, k \notin Fair!ToSet(q), Fair!IsInjective(q)
    PROVE  Append(q, k) \in Seq(Keys) /\ Fair!ToSet(Append(q, k)) = Fair!ToSet(q) \cup {k} /\ Fair!IsInjective(Append(q, k))
<1>1. /\ DOMAIN Append(q, k) = 1 .. Len(q) + 1 /\ DOMAIN q = 1 .. Len(q) /\ Append(q, k)[Len(q) + 1] = k
      /\ \A i \in 1 .. Len(q) : Append(q, k)[i] = q[i]
      /\ Len(q) \in Nat
  OBVIOUS
<1> DEFINE r == Append(q, k)
<1>2. Fair!ToSet(r) = Fair!ToSet(q) \cup {k}
  <2>1. \A x : x \in Fair!ToSet(r) <=> \E i \in 1 .. Len(q) + 1 : r[i] = x
    BY <1>1 DEF Fair!ToSet
  <2>2. \A x : x \in Fair!ToSet(q) <=> \E i \in 1 .. Len(q) : q[i] = x
    BY <1>1 DEF Fair!ToSet
  <2> HIDE DEF r
  <2>3. \A i \in 1 .. Len(q) + 1 : i \in 1 .. Len(q) \/ i = Len(q) + 1
    BY <1>1
  <2>4. \A i \in 1 .. Len(q) : i \in 1 .. Len(q) + 1
    BY <1>1
  <2>5. Len(q) + 1 \in 1 .. Len(q) + 1 /\ r[Len(q) + 1] = k /\ \A i \in 1 .. Len(q) : r[i] = q[i]
    BY <1>1 DEF r
  <2>6. ASSUME NEW x \in Fair!ToSet(r) PROVE x \in Fair!ToSet(q) \cup {k}
    BY <2>1, <2>2, <2>3, <2>5
  <2>7. ASSUME NEW x \in Fair!ToSet(q) \cup {k} PROVE x \in Fair!ToSet(r)
    BY <2>1, <2>2, <2>4, <2>5
  <2> QED BY <2>6, <2>7
<1>3. Fair!IsInjective(r)
  <2>1. \A i \in 1 .. Len(q) : q[i] # k
    BY <1>1 DEF Fair!ToSet
  <2>2. \A i, j \in 1 .. Len(q) : q[i] = q[j] => i = j
    BY <1>1 DEF Fair!IsInjective
  <2> HIDE DEF r
  <2>3. \A i, j \in 1 .. Len(q) + 1 : r[i] = r[j] => i = j
    BY <1>1, <2>1, <2>2 DEF r
  <2> QED BY <1>1, <2>3 DEF Fair!IsInjective, r
<1> QED BY <1>2, <1>3

LEMMA FqRemove ==
    ASSUME NEW q \in Seq(Keys), Fair!IsInjective(q), NEW i \in DOMAIN q
    PROVE  /\ Fair!RemoveAt(q, i) \in Seq(Keys) /\ Fair!ToSet(Fair!RemoveAt(q, i)) = Fair!ToSet(q) \ {q[i]}
           /\ Fair!IsInjective(Fair!RemoveAt(q, i))
<1> DEFINE r == Fair!RemoveAt(q, i)
           len == Len(q)
           from(j) == IF j < i THEN j ELSE j + 1
<1>1. len \in Nat /\ i \in 1 .. len /\ DOMAIN q = 1 .. len
  OBVIOUS
<1>2. r \in Seq(Keys) /\ DOMAIN r = 1 .. len - 1 /\ \A j \in 1 .. len - 1 : r[j] = q[from(j)]
  <2> DEFINE front == SubSeq(q, 1, i - 1)
             back == SubSeq(q, i + 1, Len(q))
  <2>1. r = front \o back
    BY DEF Fair!RemoveAt
  <2>2. front \in Seq(Keys) /\ Len(front) = i - 1 /\ \A j \in 1 .. i - 1 : front[j] = q[j]
    BY <1>1
  <2>3. back \in Seq(Keys) /\ Len(back) = len - i /\ \A j \in 1 .. len - i : back[j] = q[i + j]
    BY <1>1
  <2> HIDE DEF front, back, r, len
  <2>4. r \in Seq(Keys) /\ DOMAIN r = 1 .. len - 1
    <3>0. front \in Seq(Keys) /\ back \in Seq(Keys)
      BY <2>2, <2>3
    <3>1. front \o back \in Seq(Keys) /\ Len(front \o back) = Len(front) + Len(back)
      BY <3>0
    <3>2. Len(front) + Len(back) = len - 1
      BY <1>1, <2>2, <2>3
    <3> QED BY <2>1, <3>1, <3>2
  <2>5. ASSUME NEW j \in 1 .. len - 1 PROVE r[j] = q[from(j)]
    <3>1. CASE j < i
      <4>1. r[j] = front[j] /\ j \in 1 .. i - 1
        BY <1>1, <2>1, <2>2, <2>3, <3>1
      <4> QED BY <2>2, <3>1, <4>1
    <3>2. CASE ~(j < i)
      <4>1. j - (i - 1) \in 1 .. len - i
        BY <1>1, <3>2
      <4>2. r[j] = back[j - (i - 1)]
        BY <1>1, <2>1, <2>2, <2>3, <3>2
      <4>3. back[j - (i - 1)] = q[i + (j - (i - 1))] /\ i + (j - (i - 1)) = j + 1
        BY <1>1, <2>3, <4>1
      <4> QED BY <3>2, <4>2, <4>3
    <3> QED BY <3>1, <3>2
  <2> QED BY <2>4, <2>5
<1> HIDE DEF r, len
<1>3. \A j \in 1 .. len - 1 : from(j) \in 1 .. len /\ from(j) # i
  BY <1>1
<1>4. \A h, j \in 1 .. len - 1 : from(h) = from(j) => h = j
  BY <1>1
<1>5. \A j \in 1 .. len : j # i => \E h \in 1 .. len - 1 : from(h) = j
  <2>1. ASSUME NEW j \in 1 .. len, j # i PROVE \E h \in 1 .. len - 1 : from(h) = j
    <3>1. CASE j < i
      <4>1. j \in 1 .. len - 1 /\ from(j) = j
        BY <1>1, <3>1
      <4> QED BY <4>1
    <3>2. CASE ~(j < i)
      <4>1. j - 1 \in 1 .. len - 1 /\ from(j - 1) = j
        BY <1>1, <2>1, <3>2
      <4> QED BY <4>1
    <3> QED BY <3>1, <3>2
  <2> QED BY <2>1
<1> HIDE DEF from
<1>6. \A h, j \in 1 .. len : q[h] = q[j] => h = j
  BY <1>1 DEF Fair!IsInjective
<1>7. Fair!IsInjective(r)
  BY <1>2, <1>3, <1>4, <1>6 DEF Fair!IsInjective
<1>8. Fair!ToSet(r) = Fair!ToSet(q) \ {q[i]}
  <2>1. ASSUME NEW x \in Fair!ToSet(r) PROVE x \in Fair!ToSet(q) \ {q[i]}
    BY <1>1, <1>2, <1>3, <1>6, <2>1 DEF Fair!ToSet
  <2>2. ASSUME NEW x \in Fair!ToSet(q) \ {q[i]} PROVE x \in Fair!ToSet(r)
    <3>1. PICK j \in 1 .. len : q[j] = x
      BY <1>1 DEF Fair!ToSet
    <3>2. PICK h \in 1 .. len - 1 : from(h) = j
      BY <1>5, <2>2, <3>1
    <3> QED BY <1>2, <3>1, <3>2 DEF Fair!ToSet
  <2> QED BY <2>1, <2>2
<1> QED BY <1>2, <1>7, <1>8 DEF r

LEMMA FqLand ==
    ASSUME Fair!TypeOK, NEW t \in Fair!Threads, Fair!InnerAdd(t)
    PROVE  Fair!TypeOK' /\ \E a : FqLands(t, a)
<1> DEFINE a == Head(out[t])
           k == a.key
<1>0. out \in [Fair!Threads -> Seq(Fair!Add)] /\ out[t] \in Seq(Fair!Add)
  BY DEF Fair!TypeOK
<1>1. /\ out[t] # <<>>
      /\ out' = [out EXCEPT ![t] = Tail(out[t])]
      /\ UNCHANGED <<load, st, active, waiting, locked, worker>>
  BY DEF Fair!InnerAdd
<1>2. a \in Fair!Add /\ Tail(out[t]) \in Seq(Fair!Add)
  BY <1>0, <1>1
<1>3. k \in Keys /\ a.prio \in Int /\ a.after \in Nat
  BY <1>2 DEF Fair!Add
<1>4. /\ DOMAIN inner \subseteq Keys /\ inner \in [DOMAIN inner -> [prio : Int, left : Nat]]
      /\ order \in Seq(Keys) /\ DOMAIN inner = Fair!ToSet(order) /\ Fair!IsInjective(order)
      /\ \A x \in DOMAIN inner : inner[x].prio \in Int /\ inner[x].left \in Nat
  BY DEF Fair!TypeOK
<1>5. k \in DOMAIN inner => /\ inner' = [inner EXCEPT ![k] = [prio |-> Fair!Max({inner[k].prio, a.prio}),
                                                          left |-> Fair!Min({inner[k].left, a.after})]]
                            /\ order' = order
  BY DEF Fair!InnerAdd
<1>6. k \notin DOMAIN inner =>
         /\ inner' = [x \in DOMAIN inner \cup {k} |->
                                IF x = k THEN [prio |-> a.prio, left |-> a.after] ELSE inner[x]]
         /\ order' = Append(order, k)
  BY DEF Fair!InnerAdd
<1> HIDE DEF a
<1>7. /\ DOMAIN inner' = DOMAIN inner \cup {k} /\ inner'[k].prio >= a.prio
      /\ \A x \in DOMAIN inner : inner'[x].prio >= inner[x].prio
      /\ inner' \in [DOMAIN inner' -> [prio : Int, left : Nat]]
      /\ order' \in Seq(Keys) /\ DOMAIN inner' = Fair!ToSet(order') /\ Fair!IsInjective(order')
  <2>1. CASE k \in DOMAIN inner
    <3> DEFINE mp == Fair!Max({inner[k].prio, a.prio})
               ml == Fair!Min({inner[k].left, a.after})
               old == inner[k].prio
    <3>1. inner[k].prio \in Int /\ inner[k].left \in Int /\ a.after \in Int
      BY <1>3, <1>4, <2>1
    <3>2. mp \in {inner[k].prio, a.prio} /\ mp >= inner[k].prio /\ mp >= a.prio
      BY <1>3, <3>1, FqMax2, Zenon
    <3>3. ml \in {inner[k].left, a.after}
      BY <3>1, FqMin2, Zenon
    <3>4. mp \in Int /\ ml \in Nat
      BY <1>3, <1>4, <2>1, <3>2, <3>3
    <3>5. inner' = [inner EXCEPT ![k] = [prio |-> mp, left |-> ml]] /\ order' = order
      BY <1>5, <2>1
    <3> HIDE DEF mp, ml
    <3>6. DOMAIN inner' = DOMAIN inner /\ inner'[k] = [prio |-> mp, left |-> ml]
      BY <2>1, <3>5
    <3>7. \A x \in DOMAIN inner \ {k} : inner'[x] = inner[x]
      BY <3>5
    <3>8. inner' \in [DOMAIN inner' -> [prio : Int, left : Nat]]
      BY <1>4, <3>4, <3>5, <3>6
    <3>9. ASSUME NEW x \in DOMAIN inner PROVE inner'[x].prio >= inner[x].prio
      <4>1. CASE x = k
        BY <3>2, <3>6, <4>1
      <4>2. CASE x # k
        <5>1. inner'[x] = inner[x] /\ inner[x].prio \in Int
          BY <1>4, <3>7, <4>2
        <5> QED BY <5>1
      <4> QED BY <4>1, <4>2
    <3> QED BY <1>4, <2>1, <3>2, <3>5, <3>6, <3>8, <3>9
  <2>2. CASE k \notin DOMAIN inner
    <3>1. /\ inner' = [x \in DOMAIN inner \cup {k} |->
                                IF x = k THEN [prio |-> a.prio, left |-> a.after] ELSE inner[x]]
          /\ order' = Append(order, k)
      BY <1>6, <2>2
    <3>2. order' \in Seq(Keys) /\ DOMAIN inner' = Fair!ToSet(order') /\ Fair!IsInjective(order')
      BY <1>3, <1>4, <2>2, <3>1, FqAppend
    <3>3. DOMAIN inner' = DOMAIN inner \cup {k} /\ inner'[k] = [prio |-> a.prio, left |-> a.after]
      BY <3>1
    <3>4. \A x \in DOMAIN inner : inner'[x] = inner[x]
      BY <2>2, <3>1
    <3>5. inner' \in [DOMAIN inner' -> [prio : Int, left : Nat]]
      <4>1. \A x \in DOMAIN inner' : inner'[x] \in [prio : Int, left : Nat]
        BY <1>3, <1>4, <3>3, <3>4
      <4>2. inner' = [x \in DOMAIN inner' |-> inner'[x]]
        BY <3>1
      <4> QED BY <4>1, <4>2
    <3>6. inner'[k].prio >= a.prio
      BY <1>3, <3>3
    <3>7. \A x \in DOMAIN inner : inner'[x].prio >= inner[x].prio
      BY <1>4, <3>4
    <3> QED BY <3>2, <3>3, <3>5, <3>6, <3>7
  <2> QED BY <2>1, <2>2
<1>8. out' \in [Fair!Threads -> Seq(Fair!Add)]
  BY <1>0, <1>1, <1>2
<1>9. Fair!TypeOK'
  <2>1. DOMAIN inner' \subseteq Keys
    BY <1>3, <1>4, <1>7
  <2>2. /\ load' \in FairSettings /\ load' = load
        /\ DOMAIN st' \subseteq Keys /\ st' = [x \in DOMAIN st' |-> st'[x]]
        /\ \A x \in DOMAIN st' : st'[x] \in Fair!KeyState
        /\ active' \in [Fair!Namespaces -> Int]
        /\ waiting' \subseteq [key : Keys, gen : 1 .. load.gen, left : Int]
        /\ \A e \in waiting' : e.left >= -Aging
        /\ locked' \subseteq Keys
        /\ worker' \in [Workers -> [doing : Fair!Doing, key : Keys \cup {Fair!NoKey}, prio : Int]]
        /\ \A w \in Workers : worker'[w].doing # "idle" => worker'[w].key \in Keys
    BY <1>1 DEF Fair!TypeOK
  <2> QED BY <1>7, <1>8, <2>1, <2>2, FqTypes, Zenon
<1>10. FqLands(t, a)
  BY <1>1, <1>2, <1>7 DEF FqLands, a
<1> QED BY <1>9, <1>10

\* A worker gets a key from the inner queue.
FqTaken(w, k) ==
    /\ k \in DOMAIN inner /\ DOMAIN inner' = DOMAIN inner \ {k}
    /\ \A x \in DOMAIN inner' : inner'[x] = inner[x]
    /\ worker[w].doing = "idle"
    /\ worker'[w].doing = "taken" /\ worker'[w].key = k /\ \A v \in Workers \ {w} : worker'[v] = worker[v]
    /\ UNCHANGED <<load, st, active, waiting, out>>

LEMMA FqGet ==
    ASSUME Fair!TypeOK, NEW w \in Workers, Fair!InnerGet(w) PROVE Fair!TypeOK' /\ \E k : FqTaken(w, k)
<1>0. /\ DOMAIN inner \subseteq Keys /\ inner \in [DOMAIN inner -> [prio : Int, left : Nat]]
      /\ order \in Seq(Keys) /\ DOMAIN inner = Fair!ToSet(order) /\ Fair!IsInjective(order)
      /\ worker \in [Workers -> [doing : Fair!Doing, key : Keys \cup {Fair!NoKey}, prio : Int]]
      /\ \A v \in Workers : worker[v].doing # "idle" => worker[v].key \in Keys
  BY DEF Fair!TypeOK
<1>1. PICK k \in Fair!Ready, i \in DOMAIN order :
         /\ order[i] = k
         /\ worker' = [worker EXCEPT ![w] = [doing |-> "taken", key |-> k, prio |-> inner[k].prio]]
         /\ locked' = locked \cup {k}
         /\ inner' = Fair!Restrict(inner, DOMAIN inner \ {k})
         /\ order' = Fair!RemoveAt(order, i)
  BY DEF Fair!InnerGet
<1>2. worker[w].doing = "idle" /\ UNCHANGED <<load, st, active, waiting, out>>
  BY DEF Fair!InnerGet
<1>3. k \in DOMAIN inner /\ k \in Keys /\ inner[k].prio \in Int
  BY <1>0 DEF Fair!Ready
<1>4. /\ DOMAIN inner' = DOMAIN inner \ {k} /\ \A x \in DOMAIN inner' : inner'[x] = inner[x]
      /\ inner' \in [DOMAIN inner' -> [prio : Int, left : Nat]] /\ DOMAIN inner' \subseteq Keys
  BY <1>0, <1>1 DEF Fair!Restrict
<1>5. order' \in Seq(Keys) /\ Fair!ToSet(order') = DOMAIN inner \ {k} /\ Fair!IsInjective(order')
  BY <1>0, <1>1, FqRemove
<1> DEFINE new == [doing |-> "taken", key |-> k, prio |-> inner[k].prio]
<1>6. new \in [doing : Fair!Doing, key : Keys \cup {Fair!NoKey}, prio : Int] /\ new.doing = "taken" /\ new.key = k
  BY <1>3 DEF Fair!Doing
<1>7. worker' = [worker EXCEPT ![w] = new]
  BY <1>1
<1> HIDE DEF new
<1>8. /\ worker' \in [Workers -> [doing : Fair!Doing, key : Keys \cup {Fair!NoKey}, prio : Int]]
      /\ worker'[w] = new /\ \A v \in Workers \ {w} : worker'[v] = worker[v]
  BY <1>0, <1>6, <1>7
<1>9. \A v \in Workers : worker'[v].doing # "idle" => worker'[v].key \in Keys
  BY <1>0, <1>3, <1>6, <1>8
<1>10. FqTaken(w, k)
  BY <1>2, <1>3, <1>4, <1>6, <1>8 DEF FqTaken
<1>11. Fair!TypeOK'
  <2>1. /\ load' \in FairSettings /\ load' = load
        /\ DOMAIN st' \subseteq Keys /\ st' = [x \in DOMAIN st' |-> st'[x]]
        /\ \A x \in DOMAIN st' : st'[x] \in Fair!KeyState
        /\ active' \in [Fair!Namespaces -> Int]
        /\ waiting' \subseteq [key : Keys, gen : 1 .. load.gen, left : Int]
        /\ \A e \in waiting' : e.left >= -Aging
        /\ out' \in [Fair!Threads -> Seq(Fair!Add)]
    BY <1>2 DEF Fair!TypeOK
  <2>2. locked' \subseteq Keys
    BY <1>1, <1>3 DEF Fair!TypeOK
  <2>3. DOMAIN inner' = Fair!ToSet(order')
    BY <1>4, <1>5
  <2> QED BY <1>4, <1>5, <1>8, <1>9, <2>1, <2>2, <2>3, FqTypes, Zenon
<1> QED BY <1>10, <1>11

\* A worker books the key it got.
FqBooked(w, k) ==
    /\ k \in Keys /\ k = worker[w].key /\ worker[w].doing = "taken"
    /\ DOMAIN st' = DOMAIN st \cup {k} /\ \A x \in DOMAIN st \ {k} : st'[x] = st[x]
    /\ st'[k] \in Fair!KeyState /\ st'[k].processing
    /\ ~st'[k].queued /\ ~st'[k].due /\ ~st'[k].aged
    /\ active' = [active EXCEPT ![Home[k]] = @ - (IF k \in DOMAIN st /\ st[k].due THEN 1 ELSE 0)
                                               + (IF k \in DOMAIN st /\ st[k].processing THEN 0 ELSE 1)]
    /\ worker'[w].doing = "busy" /\ worker'[w].key = k /\ \A v \in Workers \ {w} : worker'[v] = worker[v]
    /\ UNCHANGED <<load, waiting, inner, order, locked, out>>

LEMMA FqQuot == ASSUME NEW p \in Int PROVE Fair!Quot(p) \in Int
<1>1. Fair!IsFiniteSet(Buckets) /\ Fair!Cardinality(Buckets) < Span /\ Span \in Nat
  BY PartsAssumption DEF Fair!ConstantsOK
<1>2. Fair!Cardinality(Buckets) \in Nat
  BY <1>1, FS_CardinalityType, FqCardinality
<1>3. Span > 0
  BY <1>1, <1>2
<1>4. \A m \in Nat : m \div Span \in Int
  BY <1>1, <1>3
<1>5. CASE p >= 0
  BY <1>4, <1>5 DEF Fair!Quot
<1>6. CASE ~(p >= 0)
  <2>1. -p \in Nat
    BY <1>6
  <2>2. (-p) \div Span \in Int
    BY <1>4, <2>1
  <2>3. Fair!Quot(p) = -((-p) \div Span)
    BY <1>6 DEF Fair!Quot
  <2> HIDE DEF Fair!Quot
  <2> QED BY <2>2, <2>3
<1> QED BY <1>5, <1>6

LEMMA FqBook ==
    ASSUME Fair!TypeOK, NEW w \in Workers, Fair!GetWithPriority(w) PROVE Fair!TypeOK' /\ \E k : FqBooked(w, k)
<1> DEFINE k == worker[w].key
           n == Home[k]
           s == IF k \in DOMAIN st THEN st[k] ELSE Fair!NewState
           lvl == IF s.queued THEN s.base ELSE Fair!Quot(worker[w].prio)
           s2 == [s EXCEPT !.queued = FALSE, !.due = FALSE, !.aged = FALSE, !.left = 0, !.age = 0,
                           !.base = lvl, !.gen = Fair!NextGen(@), !.processing = TRUE]
<1>0. /\ worker \in [Workers -> [doing : Fair!Doing, key : Keys \cup {Fair!NoKey}, prio : Int]]
      /\ \A v \in Workers : worker[v].doing # "idle" => worker[v].key \in Keys
      /\ active \in [Fair!Namespaces -> Int] /\ DOMAIN st \subseteq Keys /\ \A x \in DOMAIN st : st[x] \in Fair!KeyState
  BY DEF Fair!TypeOK
<1>1. /\ worker[w].doing = "taken"
      /\ st' = [x \in DOMAIN st \cup {k} |-> IF x = k THEN s2 ELSE st[x]]
      /\ active' = [active EXCEPT ![n] = @ - (IF s.due THEN 1 ELSE 0) + (IF s.processing THEN 0 ELSE 1)]
      /\ worker' = [worker EXCEPT ![w].doing = "busy", ![w].prio = lvl]
      /\ UNCHANGED <<load, waiting, inner, order, locked, out>>
  BY Zenon DEF Fair!GetWithPriority
<1>2. k \in Keys /\ n \in Fair!Namespaces /\ worker[w].prio \in Int
  BY <1>0, <1>1, FqConstants
<1>3. s \in Fair!KeyState
  BY <1>0, FqNewState
<1>4. /\ s.due <=> k \in DOMAIN st /\ st[k].due
      /\ s.processing <=> k \in DOMAIN st /\ st[k].processing
  BY DEF Fair!NewState
<1> HIDE DEF s
<1>5. s.base \in Int /\ s.gen \in 0 .. load.gen
  BY <1>3 DEF Fair!KeyState
<1>6. lvl \in Int
  BY <1>2, <1>5, FqQuot
<1> HIDE DEF lvl
<1>7. Fair!NextGen(s.gen) \in 0 .. load.gen /\ 0 \in 0 .. Aging
  BY <1>5, FqNextGen, FqConstants
<1> DEFINE g == Fair!NextGen(s.gen)
<1>8. s2 = [s EXCEPT !.queued = FALSE, !.due = FALSE, !.aged = FALSE, !.left = 0, !.age = 0,
                     !.base = lvl, !.gen = g, !.processing = TRUE]
  BY <1>3 DEF Fair!KeyState
<1>9. g \in 0 .. load.gen
  BY <1>7
<1> HIDE DEF g, s2
<1>10. s2 \in Fair!KeyState /\ s2.processing /\ ~s2.queued /\ ~s2.due /\ ~s2.aged
  BY <1>3, <1>6, <1>7, <1>8, <1>9 DEF Fair!KeyState
<1>11. /\ DOMAIN st' = DOMAIN st \cup {k} /\ \A x \in DOMAIN st \ {k} : st'[x] = st[x]
       /\ st'[k] = s2 /\ st' = [x \in DOMAIN st' |-> st'[x]]
  BY <1>1
<1>12. active' = [active EXCEPT ![n] = @ - (IF k \in DOMAIN st /\ st[k].due THEN 1 ELSE 0)
                                         + (IF k \in DOMAIN st /\ st[k].processing THEN 0 ELSE 1)]
  BY <1>1, <1>4
<1>13. active' \in [Fair!Namespaces -> Int]
  BY <1>0, <1>2, <1>12
<1>14. /\ worker' \in [Workers -> [doing : Fair!Doing, key : Keys \cup {Fair!NoKey}, prio : Int]]
       /\ worker'[w].doing = "busy" /\ worker'[w].key = k /\ \A v \in Workers \ {w} : worker'[v] = worker[v]
  BY <1>0, <1>1, <1>6 DEF Fair!Doing
<1>15. FqBooked(w, k)
  BY <1>1, <1>2, <1>10, <1>11, <1>12, <1>14 DEF FqBooked
<1>16. Fair!TypeOK'
  <2>1. /\ load' \in FairSettings /\ load' = load
        /\ waiting' \subseteq [key : Keys, gen : 1 .. load.gen, left : Int]
        /\ \A e \in waiting' : e.left >= -Aging
        /\ DOMAIN inner' \subseteq Keys /\ inner' \in [DOMAIN inner' -> [prio : Int, left : Nat]]
        /\ order' \in Seq(Keys) /\ DOMAIN inner' = Fair!ToSet(order') /\ Fair!IsInjective(order')
        /\ locked' \subseteq Keys /\ out' \in [Fair!Threads -> Seq(Fair!Add)]
    BY <1>1 DEF Fair!TypeOK
  <2>2. DOMAIN st' \subseteq Keys /\ \A x \in DOMAIN st' : st'[x] \in Fair!KeyState
    BY <1>0, <1>2, <1>10, <1>11
  <2>3. \A v \in Workers : worker'[v].doing # "idle" => worker'[v].key \in Keys
    BY <1>0, <1>2, <1>14
  <2> QED BY <1>11, <1>13, <1>14, <2>1, <2>2, <2>3, FqTypes, Zenon
<1> QED BY <1>15, <1>16

\* A worker tells the inner queue that it is done.
FqFreed(w) ==
    /\ worker[w].doing = "busy" /\ worker'[w].doing = "done" /\ worker'[w].key = worker[w].key
    /\ \A v \in Workers \ {w} : worker'[v] = worker[v]
    /\ UNCHANGED <<load, st, active, waiting, inner, order, out>>

LEMMA FqFree == ASSUME Fair!TypeOK, NEW w \in Workers, Fair!InnerDone(w) PROVE Fair!TypeOK' /\ FqFreed(w)
<1>0. /\ worker \in [Workers -> [doing : Fair!Doing, key : Keys \cup {Fair!NoKey}, prio : Int]]
      /\ \A v \in Workers : worker[v].doing # "idle" => worker[v].key \in Keys
  BY DEF Fair!TypeOK
<1>1. /\ worker[w].doing = "busy" /\ locked' = locked \ {worker[w].key}
      /\ worker' = [worker EXCEPT ![w].doing = "done"]
      /\ UNCHANGED <<load, st, active, waiting, inner, order, out>>
  BY DEF Fair!InnerDone
<1>2. /\ worker' \in [Workers -> [doing : Fair!Doing, key : Keys \cup {Fair!NoKey}, prio : Int]]
      /\ worker'[w].doing = "done" /\ worker'[w].key = worker[w].key
      /\ \A v \in Workers \ {w} : worker'[v] = worker[v]
  BY <1>0, <1>1 DEF Fair!Doing
<1>3. \A v \in Workers : worker'[v].doing # "idle" => worker'[v].key \in Keys
  BY <1>0, <1>1, <1>2
<1>4. /\ load' \in FairSettings /\ load' = load
      /\ DOMAIN st' \subseteq Keys /\ st' = [x \in DOMAIN st' |-> st'[x]]
      /\ \A x \in DOMAIN st' : st'[x] \in Fair!KeyState
      /\ active' \in [Fair!Namespaces -> Int]
      /\ waiting' \subseteq [key : Keys, gen : 1 .. load.gen, left : Int]
      /\ \A e \in waiting' : e.left >= -Aging
      /\ DOMAIN inner' \subseteq Keys /\ inner' \in [DOMAIN inner' -> [prio : Int, left : Nat]]
      /\ order' \in Seq(Keys) /\ DOMAIN inner' = Fair!ToSet(order') /\ Fair!IsInjective(order')
      /\ locked' \subseteq Keys /\ out' \in [Fair!Threads -> Seq(Fair!Add)]
  BY <1>1 DEF Fair!TypeOK
<1>5. Fair!TypeOK'
  BY <1>2, <1>3, <1>4, FqTypes, Zenon
<1> QED BY <1>1, <1>2, <1>5 DEF FqFreed

\* A worker books that it is done: the key stays only if it is queued, and the namespace of
\* the last key to go counts from zero.
FqEnded(w, k) ==
    /\ k \in Keys /\ k = worker[w].key /\ worker[w].doing = "done" /\ worker'[w].doing = "idle"
    /\ \A v \in Workers \ {w} : worker'[v] = worker[v]
    /\ DOMAIN st' = IF k \in DOMAIN st /\ ~st[k].queued THEN DOMAIN st \ {k} ELSE DOMAIN st
    /\ \A x \in DOMAIN st' \ {k} : st'[x] = st[x]
    /\ k \in DOMAIN st' => /\ st'[k] \in Fair!KeyState /\ ~st'[k].processing
                           /\ st'[k].queued = st[k].queued /\ st'[k].due = st[k].due
                           /\ st'[k].aged = st[k].aged /\ st'[k].base = st[k].base
    /\ active' = [active EXCEPT ![Home[k]] =
                     IF k \in DOMAIN st /\ ~st[k].queued /\ Fair!KeysOf(Home[k]) = {k} THEN 0
                     ELSE @ - (IF k \in DOMAIN st /\ st[k].processing THEN 1 ELSE 0)]
    /\ UNCHANGED <<load, inner, order, locked, out>>

LEMMA FqEnd == ASSUME Fair!TypeOK, NEW w \in Workers, Fair!Done(w) PROVE Fair!TypeOK' /\ \E k : FqEnded(w, k)
<1> DEFINE k == worker[w].key
           n == Home[k]
           drop == k \in DOMAIN st /\ ~st[k].queued
           last == drop /\ Fair!KeysOf(n) = {k}
           act == active[n] - (IF k \in DOMAIN st /\ st[k].processing THEN 1 ELSE 0)
<1>0. /\ worker \in [Workers -> [doing : Fair!Doing, key : Keys \cup {Fair!NoKey}, prio : Int]]
      /\ \A v \in Workers : worker[v].doing # "idle" => worker[v].key \in Keys
      /\ active \in [Fair!Namespaces -> Int] /\ DOMAIN st \subseteq Keys /\ \A x \in DOMAIN st : st[x] \in Fair!KeyState
  BY DEF Fair!TypeOK
<1>1. /\ worker[w].doing = "done"
      /\ worker' = [worker EXCEPT ![w] = Fair!Idle]
      /\ st' = IF drop THEN Fair!Restrict(st, DOMAIN st \ {k})
               ELSE [x \in DOMAIN st |-> IF x = k THEN [st[x] EXCEPT !.processing = FALSE] ELSE st[x]]
      /\ active' = [active EXCEPT ![n] = IF last THEN 0 ELSE act]
      /\ waiting' = IF last THEN {e \in waiting : Home[e.key] # n} ELSE waiting
      /\ UNCHANGED <<load, inner, order, locked, out>>
  BY Zenon DEF Fair!Done
<1>2. k \in Keys /\ n \in Fair!Namespaces
  BY <1>0, <1>1, FqConstants
<1>3. /\ Fair!Idle \in [doing : Fair!Doing, key : Keys \cup {Fair!NoKey}, prio : Int] /\ Fair!Idle.doing = "idle"
  BY DEF Fair!Idle, Fair!Doing
<1>4. /\ worker' \in [Workers -> [doing : Fair!Doing, key : Keys \cup {Fair!NoKey}, prio : Int]]
      /\ worker'[w].doing = "idle" /\ \A v \in Workers \ {w} : worker'[v] = worker[v]
  BY <1>0, <1>1, <1>3
<1>5. /\ DOMAIN st' = IF k \in DOMAIN st /\ ~st[k].queued THEN DOMAIN st \ {k} ELSE DOMAIN st
      /\ st' = [x \in DOMAIN st' |-> st'[x]]
      /\ \A x \in DOMAIN st' \ {k} : st'[x] = st[x]
      /\ k \in DOMAIN st' => k \in DOMAIN st /\ st'[k] = [st[k] EXCEPT !.processing = FALSE]
  <2>1. CASE drop
    <3>1. st' = [x \in DOMAIN st \ {k} |-> st[x]]
      BY <1>1, <2>1 DEF Fair!Restrict
    <3> QED BY <2>1, <3>1
  <2>2. CASE ~drop
    <3>1. st' = [x \in DOMAIN st |-> IF x = k THEN [st[x] EXCEPT !.processing = FALSE] ELSE st[x]]
      BY <1>1, <2>2
    <3> QED BY <2>2, <3>1
  <2> QED BY <2>1, <2>2
<1>6. k \in DOMAIN st' => /\ st'[k] \in Fair!KeyState /\ ~st'[k].processing
                          /\ st'[k].queued = st[k].queued /\ st'[k].due = st[k].due
                          /\ st'[k].aged = st[k].aged /\ st'[k].base = st[k].base
  <2> SUFFICES ASSUME k \in DOMAIN st' PROVE  /\ st'[k] \in Fair!KeyState /\ ~st'[k].processing
                          /\ st'[k].queued = st[k].queued /\ st'[k].due = st[k].due
                          /\ st'[k].aged = st[k].aged /\ st'[k].base = st[k].base
    OBVIOUS
  <2>1. st[k] \in Fair!KeyState /\ st'[k] = [st[k] EXCEPT !.processing = FALSE]
    BY <1>0, <1>5
  <2> QED BY <2>1 DEF Fair!KeyState
<1>7. active' = [active EXCEPT ![n] =
                     IF k \in DOMAIN st /\ ~st[k].queued /\ Fair!KeysOf(n) = {k} THEN 0
                     ELSE @ - (IF k \in DOMAIN st /\ st[k].processing THEN 1 ELSE 0)]
  BY <1>1
<1>8. active' \in [Fair!Namespaces -> Int]
  BY <1>0, <1>1, <1>2
<1>9. FqEnded(w, k)
  BY <1>1, <1>2, <1>4, <1>5, <1>6, <1>7 DEF FqEnded
<1>10. Fair!TypeOK'
  <2>1. /\ load' \in FairSettings /\ load' = load
        /\ DOMAIN inner' \subseteq Keys /\ inner' \in [DOMAIN inner' -> [prio : Int, left : Nat]]
        /\ order' \in Seq(Keys) /\ DOMAIN inner' = Fair!ToSet(order') /\ Fair!IsInjective(order')
        /\ locked' \subseteq Keys /\ out' \in [Fair!Threads -> Seq(Fair!Add)]
    BY <1>1 DEF Fair!TypeOK
  <2>2. /\ waiting' \subseteq [key : Keys, gen : 1 .. load.gen, left : Int]
        /\ \A e \in waiting' : e.left >= -Aging
    <3>1. waiting' \subseteq waiting
      BY <1>1
    <3> QED BY <3>1 DEF Fair!TypeOK
  <2>3. DOMAIN st' \subseteq Keys /\ \A x \in DOMAIN st' : st'[x] \in Fair!KeyState
    BY <1>0, <1>5, <1>6
  <2>4. \A v \in Workers : worker'[v].doing # "idle" => worker'[v].key \in Keys
    BY <1>0, <1>4
  <2> QED BY <1>4, <1>5, <1>8, <2>1, <2>2, <2>3, <2>4, FqTypes, Zenon
<1> QED BY <1>9, <1>10

\* Time changes neither what is queued, due and processing nor a priority.
FqTicked ==
    /\ DOMAIN st' = DOMAIN st /\ DOMAIN inner' = DOMAIN inner
    /\ \A x \in DOMAIN st : /\ st'[x].queued = st[x].queued /\ st'[x].processing = st[x].processing
                            /\ st'[x].due = st[x].due /\ st'[x].aged = st[x].aged /\ st'[x].base = st[x].base
    /\ \A x \in DOMAIN inner : inner'[x].prio = inner[x].prio
    /\ UNCHANGED <<load, active, order, locked, out, worker>>

LEMMA FqTick == ASSUME Fair!TypeOK, Fair!Tick PROVE Fair!TypeOK' /\ FqTicked
<1>0. /\ DOMAIN st \subseteq Keys /\ \A x \in DOMAIN st : st[x] \in Fair!KeyState
      /\ inner \in [DOMAIN inner -> [prio : Int, left : Nat]]
      /\ waiting \subseteq [key : Keys, gen : 1 .. load.gen, left : Int]
      /\ \A e \in waiting : e.left >= -Aging
  BY DEF Fair!TypeOK
<1> DEFINE less(x) == Fair!Max({0, x - 1})
           older(x) == Fair!Min({Aging, x + 1})
           later(x) == Fair!Max({-Aging, x - 1})
<1>1. /\ st' = [k \in DOMAIN st |->
                 [st[k] EXCEPT !.left = less(@), !.age = IF st[k].due THEN older(@) ELSE @]]
      /\ waiting' = {[e EXCEPT !.left = later(@)] : e \in waiting}
      /\ inner' = [k \in DOMAIN inner |-> [inner[k] EXCEPT !.left = less(@)]]
      /\ UNCHANGED <<load, active, order, locked, out, worker>>
  BY DEF Fair!Tick
<1>2. Aging \in Nat /\ -Aging \in Int
  BY FqConstants
<1>3. ASSUME NEW x \in Nat PROVE less(x) \in Nat
  <2>1. x - 1 \in Int /\ 0 \in Int
    OBVIOUS
  <2>2. less(x) \in {0, x - 1} /\ less(x) >= 0
    BY <2>1, FqMax2, Zenon
  <2> HIDE DEF less
  <2> QED BY <2>1, <2>2
<1>4. ASSUME NEW x \in 0 .. Aging PROVE older(x) \in 0 .. Aging
  <2>1. x + 1 \in Int /\ Aging \in Int
    BY <1>2
  <2>2. older(x) \in {Aging, x + 1} /\ older(x) <= Aging
    BY <2>1, FqMin2, Zenon
  <2> HIDE DEF older
  <2> QED BY <1>2, <2>1, <2>2
<1>5. ASSUME NEW x \in Int PROVE later(x) \in Int /\ later(x) >= -Aging
  <2>1. x - 1 \in Int
    OBVIOUS
  <2>2. later(x) \in {-Aging, x - 1} /\ later(x) >= -Aging
    BY <1>2, <2>1, FqMax2, Zenon
  <2> HIDE DEF later
  <2> QED BY <1>2, <2>1, <2>2
<1> HIDE DEF less, older, later
<1>6. ASSUME NEW x \in DOMAIN st
      PROVE  /\ st'[x] \in Fair!KeyState
             /\ st'[x].queued = st[x].queued /\ st'[x].processing = st[x].processing
             /\ st'[x].due = st[x].due /\ st'[x].aged = st[x].aged /\ st'[x].base = st[x].base
  <2> DEFINE ml == less(st[x].left)
             ma == IF st[x].due THEN older(st[x].age) ELSE st[x].age
             new == [st[x] EXCEPT !.left = ml, !.age = ma]
  <2>1. st[x] \in Fair!KeyState
    BY <1>0
  <2>2. st[x].left \in Nat /\ st[x].age \in 0 .. Aging
    BY <2>1 DEF Fair!KeyState
  <2>3. ml \in Nat /\ ma \in 0 .. Aging
    BY <1>3, <1>4, <2>2
  <2>4. st'[x] = new
    BY <1>1, <2>1 DEF Fair!KeyState
  <2> HIDE DEF ml, ma
  <2> QED BY <2>1, <2>3, <2>4 DEF Fair!KeyState
<1>7. ASSUME NEW e \in waiting'
      PROVE  e \in [key : Keys, gen : 1 .. load.gen, left : Int] /\ e.left >= -Aging
  <2>1. PICK f \in waiting : e = [f EXCEPT !.left = later(@)]
    BY <1>1
  <2>2. f \in [key : Keys, gen : 1 .. load.gen, left : Int]
    BY <1>0
  <2> DEFINE ml == later(f.left)
  <2>3. ml \in Int /\ ml >= -Aging
    BY <1>5, <2>2
  <2>4. e = [f EXCEPT !.left = ml]
    BY <2>1, <2>2
  <2> HIDE DEF ml
  <2> QED BY <2>2, <2>3, <2>4
<1>8. ASSUME NEW x \in DOMAIN inner
      PROVE  inner'[x] \in [prio : Int, left : Nat] /\ inner'[x].prio = inner[x].prio
  <2> DEFINE ml == less(inner[x].left)
  <2>1. inner[x] \in [prio : Int, left : Nat]
    BY <1>0
  <2>2. ml \in Nat
    BY <1>3, <2>1
  <2>3. inner'[x] = [inner[x] EXCEPT !.left = ml]
    BY <1>1, <2>1
  <2> HIDE DEF ml
  <2> QED BY <2>1, <2>2, <2>3
<1>9. DOMAIN st' = DOMAIN st /\ DOMAIN inner' = DOMAIN inner
  BY <1>1
<1>10. FqTicked
  BY <1>1, <1>6, <1>8, <1>9 DEF FqTicked
<1>11. Fair!TypeOK'
  <2>1. /\ load' \in FairSettings /\ load' = load
        /\ active' \in [Fair!Namespaces -> Int]
        /\ order' \in Seq(Keys) /\ DOMAIN inner' = Fair!ToSet(order') /\ Fair!IsInjective(order')
        /\ locked' \subseteq Keys /\ out' \in [Fair!Threads -> Seq(Fair!Add)]
        /\ worker' \in [Workers -> [doing : Fair!Doing, key : Keys \cup {Fair!NoKey}, prio : Int]]
        /\ \A w \in Workers : worker'[w].doing # "idle" => worker'[w].key \in Keys
        /\ DOMAIN inner' \subseteq Keys
    BY <1>1, <1>9 DEF Fair!TypeOK
  <2>2. /\ waiting' \subseteq [key : Keys, gen : 1 .. load.gen, left : Int]
        /\ \A e \in waiting' : e.left >= -Aging
    BY <1>7
  <2>3. DOMAIN st' \subseteq Keys /\ \A x \in DOMAIN st' : st'[x] \in Fair!KeyState
    BY <1>0, <1>6, <1>9
  <2>4. st' = [x \in DOMAIN st' |-> st'[x]]
    BY <1>1
  <2>5. inner' \in [DOMAIN inner' -> [prio : Int, left : Nat]]
    <3>1. inner' = [x \in DOMAIN inner' |-> inner'[x]]
      BY <1>1
    <3> QED BY <1>8, <1>9, <3>1
  <2> QED BY <2>1, <2>2, <2>3, <2>4, <2>5, FqTypes, Zenon
<1> QED BY <1>10, <1>11

-----------------------------------------------------------------------------
(* FairQueue: the count of a namespace's active keys. *)

FqProc(n) == {k \in Fair!KeysOf(n) : st[k].processing}
FqDue(n) == {k \in Fair!KeysOf(n) : st[k].due}

LEMMA FqCounted ==
    ASSUME Fair!TypeOK, NEW n
    PROVE  /\ FqProc(n) = {k \in DOMAIN st : Home[k] = n /\ st[k].processing}
           /\ FqDue(n) = {k \in DOMAIN st : Home[k] = n /\ st[k].due}
           /\ FqProc(n) \in SUBSET Keys /\ FqDue(n) \in SUBSET Keys
           /\ Fair!Cardinality(FqProc(n)) \in Nat /\ Fair!Cardinality(FqDue(n)) \in Nat
<1>1. DOMAIN st \subseteq Keys
  BY DEF Fair!TypeOK
<1>2. /\ FqProc(n) = {k \in DOMAIN st : Home[k] = n /\ st[k].processing}
      /\ FqDue(n) = {k \in DOMAIN st : Home[k] = n /\ st[k].due}
  BY DEF FqProc, FqDue, Fair!KeysOf
<1>3. FqProc(n) \in SUBSET Keys /\ FqDue(n) \in SUBSET Keys
  BY <1>1, <1>2
<1> QED BY <1>2, <1>3, FqCard

LEMMA FqCountedNext ==
    ASSUME NEW n
    PROVE  /\ FqProc(n)' = {k \in DOMAIN st' : Home[k] = n /\ st'[k].processing}
           /\ FqDue(n)' = {k \in DOMAIN st' : Home[k] = n /\ st'[k].due}
BY DEF FqProc, FqDue, Fair!KeysOf

LEMMA FqSame ==
    ASSUME NEW n, \A x : x \in DOMAIN st' /\ Home[x] = n <=> x \in DOMAIN st /\ Home[x] = n
    PROVE  /\ (\A x \in DOMAIN st : Home[x] = n => (st'[x].processing <=> st[x].processing)) => FqProc(n)' = FqProc(n)
           /\ (\A x \in DOMAIN st : Home[x] = n => (st'[x].due <=> st[x].due)) => FqDue(n)' = FqDue(n)
<1>1. ASSUME \A x \in DOMAIN st : Home[x] = n => (st'[x].processing <=> st[x].processing)
      PROVE  FqProc(n)' = FqProc(n)
  <2>1. \A x : x \in FqProc(n)' <=> x \in FqProc(n)
    BY <1>1 DEF FqProc, Fair!KeysOf
  <2> QED BY <2>1
<1>2. ASSUME \A x \in DOMAIN st : Home[x] = n => (st'[x].due <=> st[x].due)
      PROVE  FqDue(n)' = FqDue(n)
  <2>1. \A x : x \in FqDue(n)' <=> x \in FqDue(n)
    BY <1>2 DEF FqDue, Fair!KeysOf
  <2> QED BY <2>1
<1> QED BY <1>1, <1>2

\* The two sets are the active keys, and those that are both have been counted twice.
LEMMA FqBoth ==
    ASSUME NEW P \in SUBSET Keys, NEW U \in SUBSET Keys
    PROVE  Fair!Cardinality(P) + Fair!Cardinality(U) = Fair!Cardinality(P \cup U) + Fair!Cardinality(P \cap U)
<1>1. Fair!IsFiniteSet(P) /\ Fair!IsFiniteSet(U)
  BY PartsAssumption, FS_Subset, FqCardinality DEF Fair!ConstantsOK
<1>2. Fair!Cardinality(P \cup U) = Fair!Cardinality(P) + Fair!Cardinality(U) - Fair!Cardinality(P \cap U)
  BY <1>1, FS_Union, FqCardinality
<1>3. /\ Fair!Cardinality(P) \in Nat /\ Fair!Cardinality(U) \in Nat /\ Fair!Cardinality(P \cap U) \in Nat
      /\ Fair!Cardinality(P \cup U) \in Nat
  BY FqCard
<1> QED BY <1>2, <1>3

LEMMA FqActive ==
    ASSUME DOMAIN st \subseteq Keys, NEW n
    PROVE  Fair!Cardinality(Fair!Active(n)) + Fair!Cardinality(Fair!Twice(n))
           = Fair!Cardinality(FqProc(n)) + Fair!Cardinality(FqDue(n))
<1>1. /\ Fair!Active(n) = FqProc(n) \cup FqDue(n) /\ Fair!Twice(n) = FqProc(n) \cap FqDue(n)
      /\ FqProc(n) \in SUBSET Keys /\ FqDue(n) \in SUBSET Keys
  BY DEF Fair!Active, Fair!Twice, FqProc, FqDue, Fair!KeysOf
<1> QED BY <1>1, FqBoth

LEMMA FqActiveNext ==
    ASSUME DOMAIN st' \subseteq Keys, NEW n
    PROVE  Fair!Cardinality(Fair!Active(n)') + Fair!Cardinality(Fair!Twice(n)')
           = Fair!Cardinality(FqProc(n)') + Fair!Cardinality(FqDue(n)')
<1>1. /\ Fair!Active(n)' = FqProc(n)' \cup FqDue(n)' /\ Fair!Twice(n)' = FqProc(n)' \cap FqDue(n)'
      /\ FqProc(n)' \in SUBSET Keys /\ FqDue(n)' \in SUBSET Keys
  BY DEF Fair!Active, Fair!Twice, FqProc, FqDue, Fair!KeysOf
<1> QED BY <1>1, FqBoth

\* The count after a step, from what became of the two sets.
LEMMA FqExact ==
    ASSUME Fair!TypeOK, Fair!ActiveExact
    PROVE  \A n \in Fair!Namespaces : active[n] = Fair!Cardinality(FqProc(n)) + Fair!Cardinality(FqDue(n))
BY FqActive DEF Fair!ActiveExact, Fair!TypeOK

LEMMA FqExactNext ==
    ASSUME DOMAIN st' \subseteq Keys,
           \A n \in Fair!Namespaces : active'[n] = Fair!Cardinality(FqProc(n)') + Fair!Cardinality(FqDue(n)')
    PROVE  Fair!ActiveExact'
BY FqActiveNext DEF Fair!ActiveExact

LEMMA FqExactSame ==
    ASSUME Fair!TypeOK, Fair!ActiveExact, active' = active, DOMAIN st' = DOMAIN st,
           \A x \in DOMAIN st : st'[x].processing = st[x].processing /\ st'[x].due = st[x].due
    PROVE  Fair!ActiveExact'
<1>1. ASSUME NEW n PROVE FqProc(n)' = FqProc(n) /\ FqDue(n)' = FqDue(n)
  BY DEF FqProc, FqDue, Fair!KeysOf
<1>2. \A n \in Fair!Namespaces : active'[n] = Fair!Cardinality(FqProc(n)') + Fair!Cardinality(FqDue(n)')
  BY <1>1, FqExact
<1>3. DOMAIN st' \subseteq Keys
  BY DEF Fair!TypeOK
<1> QED BY <1>2, <1>3, FqExactNext

LEMMA FqAddExact ==
    ASSUME Fair!TypeOK, Fair!ActiveExact, NEW t, NEW k \in Keys, Home[k] \in Fair!Namespaces, NEW one,
           FqAdded(t, k, Fair!Promoted(Home[k]), one)
    PROVE  Fair!ActiveExact'
<1> DEFINE m == Home[k]
           ps == Fair!Promoted(m)
           just == IF one = 1 THEN {k} ELSE {}
<1>0. /\ ps \subseteq Fair!KeysOf(m) /\ ps \in SUBSET Keys
      /\ \A x \in ps : st[x].queued /\ ~st[x].due /\ x \in DOMAIN st /\ Home[x] = m
  BY FqPromoted
<1> HIDE DEF ps
<1>1. FqAdded(t, k, ps, one)
  BY DEF ps
<1>2. /\ active' = [active EXCEPT ![m] = active[m] + Fair!Cardinality(ps) + one]
      /\ active \in [Fair!Namespaces -> Int] /\ one \in {0, 1} /\ m \in Fair!Namespaces
  BY <1>1 DEF FqAdded, Fair!TypeOK
<1>3. ASSUME NEW n \in Fair!Namespaces PROVE FqProc(n)' = FqProc(n)
  <2>1. \A x \in DOMAIN st' : st'[x].processing <=> x \in DOMAIN st /\ st[x].processing
    BY <1>1 DEF FqAdded, FqDueToo
  <2>2. DOMAIN st \subseteq DOMAIN st'
    BY <1>1 DEF FqAdded
  <2>3. ASSUME NEW x PROVE x \in FqProc(n)' <=> x \in FqProc(n)
    BY <2>1, <2>2 DEF FqProc, Fair!KeysOf
  <2> QED BY <2>3
<1>4. \A x \in DOMAIN st' : st'[x].due <=> (x \in DOMAIN st /\ st[x].due) \/ x \in ps \/ (x = k /\ one = 1)
  BY <1>1 DEF FqAdded, FqDueToo
<1>5. DOMAIN st' = DOMAIN st \cup {k}
  BY <1>1 DEF FqAdded
<1>6. ASSUME NEW n \in Fair!Namespaces, n # m PROVE FqDue(n)' = FqDue(n)
  <2>1. \A x : x \in DOMAIN st' /\ Home[x] = n <=> x \in DOMAIN st /\ Home[x] = n
    BY <1>5, <1>6
  <2>2. \A x \in DOMAIN st : Home[x] = n => (st'[x].due <=> st[x].due)
    BY <1>0, <1>4, <1>5, <1>6
  <2> QED BY <2>1, <2>2, FqSame
<1>7. FqDue(m)' = (FqDue(m) \cup ps) \cup just
  BY <1>0, <1>4, <1>5, FqCounted, FqCountedNext
<1>8. Fair!Cardinality(FqDue(m)') = Fair!Cardinality(FqDue(m)) + Fair!Cardinality(ps) + one
  <2>1. FqDue(m) \in SUBSET Keys /\ Fair!Cardinality(FqDue(m)) \in Nat /\ FqDue(m) \cap ps = {}
    BY <1>0, FqCounted
  <2>2. Fair!Cardinality(FqDue(m) \cup ps) = Fair!Cardinality(FqDue(m)) + Fair!Cardinality(ps)
    BY <1>0, <2>1, FqCardUnion
  <2>3. Fair!Cardinality(ps) \in Nat
    BY <1>0, FqCard
  <2>4. CASE one = 1
    <3>1. just = {k} /\ {k} \in SUBSET Keys /\ FqDue(m) \cup ps \in SUBSET Keys
      BY <1>0, <2>1, <2>4
    <3>2. k \notin FqDue(m) \cup ps
      BY <1>1, <2>4, FqCounted DEF FqAdded
    <3>3. Fair!Cardinality((FqDue(m) \cup ps) \cup {k}) = Fair!Cardinality(FqDue(m) \cup ps) + Fair!Cardinality({k})
      BY <3>1, <3>2, FqCardUnion
    <3>4. Fair!Cardinality({k}) = 1
      BY FqCard
    <3> QED BY <1>7, <2>2, <2>4, <3>1, <3>3, <3>4
  <2>5. CASE one = 0
    <3>1. FqDue(m)' = FqDue(m) \cup ps
      BY <1>7, <2>5
    <3> QED BY <2>1, <2>2, <2>3, <2>5, <3>1
  <2> QED BY <1>2, <2>4, <2>5
<1>9. ASSUME NEW n \in Fair!Namespaces PROVE active'[n] = Fair!Cardinality(FqProc(n)') + Fair!Cardinality(FqDue(n)')
  <2>1. active[n] = Fair!Cardinality(FqProc(n)) + Fair!Cardinality(FqDue(n))
    BY FqExact
  <2>2. CASE n # m
    BY <1>2, <1>3, <1>6, <2>1, <2>2
  <2>3. CASE n = m
    <3>1. /\ Fair!Cardinality(FqProc(m)) \in Nat /\ Fair!Cardinality(FqDue(m)) \in Nat /\ Fair!Cardinality(ps) \in Nat
      BY <1>0, FqCounted, FqCard
    <3>2. active'[m] = active[m] + Fair!Cardinality(ps) + one
      BY <1>2
    <3>3. FqProc(m)' = FqProc(m)
      BY <1>2, <1>3
    <3>4. active[m] = Fair!Cardinality(FqProc(m)) + Fair!Cardinality(FqDue(m))
      BY <2>1, <2>3
    <3> HIDE DEF m
    <3>5. active'[m] = Fair!Cardinality(FqProc(m)') + Fair!Cardinality(FqDue(m)')
      BY <1>2, <1>8, <3>1, <3>2, <3>3, <3>4
    <3> QED BY <2>3, <3>5
  <2> QED BY <2>2, <2>3
<1>10. DOMAIN st' \subseteq Keys
  BY DEF FqAdded, Fair!TypeOK
<1> QED BY <1>9, <1>10, FqExactNext

LEMMA FqSweepExact ==
    ASSUME Fair!TypeOK, Fair!ActiveExact, NEW old, FqSwept(old), active' \in [Fair!Namespaces -> Int],
           \A n \in Fair!Namespaces : active'[n] = active[n] + Fair!Cardinality(Fair!Promoted(n))
    PROVE  Fair!ActiveExact'
<1>1. ASSUME NEW n \in Fair!Namespaces PROVE active'[n] = Fair!Cardinality(FqProc(n)') + Fair!Cardinality(FqDue(n)')
  <2> DEFINE ps == Fair!Promoted(n)
  <2>0. /\ ps \in SUBSET Keys
        /\ \A x \in ps : ~st[x].due /\ x \in DOMAIN st /\ Home[x] = n
    BY FqPromoted
  <2>1. active[n] = Fair!Cardinality(FqProc(n)) + Fair!Cardinality(FqDue(n))
    BY FqExact
  <2>2. FqProc(n)' = FqProc(n)
    <3>1. DOMAIN st' = DOMAIN st /\ \A x \in DOMAIN st : st'[x].processing = st[x].processing
      BY DEF FqSwept
    <3> QED BY <3>1, FqSame
  <2>3. FqDue(n)' = FqDue(n) \cup ps
    <3>1. DOMAIN st' = DOMAIN st /\ \A x \in DOMAIN st : st'[x].due <=> st[x].due \/ x \in Fair!Promoted(Home[x])
      BY DEF FqSwept
    <3> QED BY <2>0, <3>1, FqCounted, FqCountedNext
  <2>4. /\ FqDue(n) \in SUBSET Keys /\ FqDue(n) \cap ps = {}
        /\ Fair!Cardinality(FqProc(n)) \in Nat /\ Fair!Cardinality(FqDue(n)) \in Nat
    BY <2>0, FqCounted
  <2>5. Fair!Cardinality(FqDue(n) \cup ps) = Fair!Cardinality(FqDue(n)) + Fair!Cardinality(ps) /\ Fair!Cardinality(ps) \in Nat
    BY <2>0, <2>4, FqCardUnion, FqCard
  <2>6. active'[n] = active[n] + Fair!Cardinality(ps)
    OBVIOUS
  <2> HIDE DEF ps
  <2> QED BY <2>1, <2>2, <2>3, <2>4, <2>5, <2>6
<1>2. DOMAIN st' \subseteq Keys
  BY DEF FqSwept, Fair!TypeOK
<1> QED BY <1>1, <1>2, FqExactNext

LEMMA FqBookExact ==
    ASSUME Fair!TypeOK, Fair!ActiveExact, NEW w, NEW k, FqBooked(w, k) PROVE Fair!ActiveExact'
<1> DEFINE m == Home[k]
<1>0. k \in Keys /\ m \in Fair!Namespaces /\ active \in [Fair!Namespaces -> Int]
  BY FqConstants DEF FqBooked, Fair!TypeOK
<1>1. ASSUME NEW n \in Fair!Namespaces, n # m PROVE FqProc(n)' = FqProc(n) /\ FqDue(n)' = FqDue(n) /\ active'[n] = active[n]
  <2>1. DOMAIN st' = DOMAIN st \cup {k} /\ \A x \in DOMAIN st \ {k} : st'[x] = st[x]
    BY DEF FqBooked
  <2>2. FqProc(n)' = FqProc(n) /\ FqDue(n)' = FqDue(n)
    <3>1. \A x : x \in DOMAIN st' /\ Home[x] = n <=> x \in DOMAIN st /\ Home[x] = n
      BY <1>1, <2>1
    <3>2. \A x \in DOMAIN st : Home[x] = n => st'[x] = st[x]
      BY <1>1, <2>1
    <3> QED BY <3>1, <3>2, FqSame
  <2> QED BY <1>0, <1>1, <2>2 DEF FqBooked
<1>2. FqProc(m)' = FqProc(m) \cup {k} /\ FqDue(m)' = FqDue(m) \ {k}
  BY FqCounted, FqCountedNext DEF FqBooked
<1> DEFINE pk == k \in DOMAIN st /\ st[k].processing
           dk == k \in DOMAIN st /\ st[k].due
<1>3. (k \in FqProc(m) <=> pk) /\ (k \in FqDue(m) <=> dk)
  BY FqCounted
<1>4. active'[m] = active[m] - (IF dk THEN 1 ELSE 0) + (IF pk THEN 0 ELSE 1)
  BY <1>0 DEF FqBooked
<1>5. active[m] = Fair!Cardinality(FqProc(m)) + Fair!Cardinality(FqDue(m))
  BY <1>0, FqExact
<1>6. /\ FqProc(m) \in SUBSET Keys /\ FqDue(m) \in SUBSET Keys
      /\ Fair!Cardinality(FqProc(m)) \in Nat /\ Fair!Cardinality(FqDue(m)) \in Nat
  BY FqCounted
<1> HIDE DEF pk, dk
<1>7. Fair!Cardinality(FqDue(m)') = Fair!Cardinality(FqDue(m)) - (IF dk THEN 1 ELSE 0)
  <2>1. CASE dk
    <3>1. Fair!Cardinality(FqDue(m) \ {k}) = Fair!Cardinality(FqDue(m)) - 1
      BY <1>3, <1>6, <2>1, FqCardLess
    <3> QED BY <1>2, <2>1, <3>1
  <2>2. CASE ~dk
    <3>1. FqDue(m)' = FqDue(m)
      BY <1>2, <1>3, <2>2
    <3> QED BY <1>6, <2>2, <3>1
  <2> QED BY <2>1, <2>2
<1>8. Fair!Cardinality(FqProc(m)') = Fair!Cardinality(FqProc(m)) + (IF pk THEN 0 ELSE 1)
  <2>1. CASE pk
    <3>1. FqProc(m)' = FqProc(m)
      BY <1>2, <1>3, <2>1
    <3> QED BY <1>6, <2>1, <3>1
  <2>2. CASE ~pk
    <3>1. {k} \in SUBSET Keys /\ FqProc(m) \cap {k} = {}
      BY <1>0, <1>3, <2>2
    <3>2. Fair!Cardinality(FqProc(m) \cup {k}) = Fair!Cardinality(FqProc(m)) + Fair!Cardinality({k}) /\ Fair!Cardinality({k}) = 1
      BY <1>6, <3>1, FqCardUnion, FqCard
    <3> QED BY <1>2, <2>2, <3>2
  <2> QED BY <2>1, <2>2
<1> HIDE DEF m
<1>9. active'[m] = Fair!Cardinality(FqProc(m)') + Fair!Cardinality(FqDue(m)')
  BY <1>4, <1>5, <1>6, <1>7, <1>8
<1>10. ASSUME NEW n \in Fair!Namespaces PROVE active'[n] = Fair!Cardinality(FqProc(n)') + Fair!Cardinality(FqDue(n)')
  <2>1. CASE n = m
    BY <1>9, <2>1
  <2>2. CASE n # m
    BY <1>1, <2>2, FqExact
  <2> QED BY <2>1, <2>2
<1>11. DOMAIN st' \subseteq Keys
  BY DEF FqBooked, Fair!TypeOK
<1> QED BY <1>10, <1>11, FqExactNext

LEMMA FqEndExact ==
    ASSUME Fair!TypeOK, Fair!ActiveExact, Fair!DueIsQueued, Fair!NoGhost, NEW w, NEW k, FqEnded(w, k) PROVE Fair!ActiveExact'
<1> DEFINE m == Home[k]
<1>0. k \in Keys /\ m \in Fair!Namespaces /\ active \in [Fair!Namespaces -> Int]
  BY FqConstants DEF FqEnded, Fair!TypeOK
<1>1. DOMAIN st' \subseteq DOMAIN st /\ DOMAIN st \ {k} \subseteq DOMAIN st' /\ \A x \in DOMAIN st' \ {k} : st'[x] = st[x]
  BY DEF FqEnded
<1>2. ASSUME NEW n \in Fair!Namespaces, n # m PROVE FqProc(n)' = FqProc(n) /\ FqDue(n)' = FqDue(n) /\ active'[n] = active[n]
  <2>1. FqProc(n)' = FqProc(n) /\ FqDue(n)' = FqDue(n)
    <3>1. \A x : x \in DOMAIN st' /\ Home[x] = n <=> x \in DOMAIN st /\ Home[x] = n
      BY <1>1, <1>2
    <3>2. \A x \in DOMAIN st : Home[x] = n => st'[x] = st[x]
      BY <1>1, <1>2
    <3> QED BY <3>1, <3>2, FqSame
  <2>2. active'[n] = active[n]
    BY <1>0, <1>2 DEF FqEnded
  <2> QED BY <2>1, <2>2
<1>3. k \in DOMAIN st' => k \in DOMAIN st /\ ~st'[k].processing /\ st'[k].due = st[k].due
  BY <1>1 DEF FqEnded
<1>4. k \in DOMAIN st /\ k \notin DOMAIN st' => ~st[k].due
  BY DEF FqEnded, Fair!DueIsQueued
<1>5. FqProc(m)' = FqProc(m) \ {k}
  BY <1>1, <1>3, FqCounted, FqCountedNext
<1>6. FqDue(m)' = FqDue(m)
  <2>1. \A x \in DOMAIN st : x \in DOMAIN st' => st'[x].due = st[x].due
    BY <1>1, <1>3
  <2>2. \A x \in DOMAIN st : x \notin DOMAIN st' => ~st[x].due
    BY <1>1, <1>4
  <2>3. ASSUME NEW x PROVE x \in FqDue(m)' <=> x \in FqDue(m)
    BY <1>1, <2>1, <2>2 DEF FqDue, Fair!KeysOf
  <2> QED BY <2>3
<1> DEFINE pk == k \in DOMAIN st /\ st[k].processing
           gone == k \in DOMAIN st /\ ~st[k].queued /\ Fair!KeysOf(m) = {k}
<1>7. active'[m] = IF gone THEN 0 ELSE active[m] - (IF pk THEN 1 ELSE 0)
  BY <1>0 DEF FqEnded
<1>8. active[m] = Fair!Cardinality(FqProc(m)) + Fair!Cardinality(FqDue(m))
  BY <1>0, FqExact
<1>9. /\ FqProc(m) \in SUBSET Keys /\ FqDue(m) \in SUBSET Keys
      /\ Fair!Cardinality(FqProc(m)) \in Nat /\ Fair!Cardinality(FqDue(m)) \in Nat
  BY FqCounted
<1>10. Fair!Cardinality(FqProc(m)') = Fair!Cardinality(FqProc(m)) - (IF pk THEN 1 ELSE 0)
  <2>1. k \in FqProc(m) <=> pk
    BY FqCounted
  <2> HIDE DEF pk
  <2>2. CASE pk
    <3>1. Fair!Cardinality(FqProc(m) \ {k}) = Fair!Cardinality(FqProc(m)) - 1
      BY <1>9, <2>1, <2>2, FqCardLess
    <3> QED BY <1>5, <2>2, <3>1
  <2>3. CASE ~pk
    <3>1. FqProc(m)' = FqProc(m)
      BY <1>5, <2>1, <2>3
    <3> QED BY <1>9, <2>3, <3>1
  <2> QED BY <2>2, <2>3
<1>11. gone => pk /\ Fair!Cardinality(FqProc(m)) = 1 /\ Fair!Cardinality(FqDue(m)) = 0
  <2> SUFFICES ASSUME gone PROVE pk /\ Fair!Cardinality(FqProc(m)) = 1 /\ Fair!Cardinality(FqDue(m)) = 0
    OBVIOUS
  <2>1. pk /\ ~st[k].due
    BY DEF Fair!NoGhost, Fair!DueIsQueued
  <2>2. FqProc(m) = {k} /\ FqDue(m) = {}
    BY <2>1 DEF FqProc, FqDue
  <2> QED BY <2>1, <2>2, FqCard
<1> HIDE DEF m, pk, gone
<1>12. active'[m] = Fair!Cardinality(FqProc(m)') + Fair!Cardinality(FqDue(m)')
  <2>1. CASE gone
    BY <1>6, <1>7, <1>9, <1>10, <1>11, <2>1
  <2>2. CASE ~gone
    BY <1>6, <1>7, <1>8, <1>9, <1>10, <2>2
  <2> QED BY <2>1, <2>2
<1>13. ASSUME NEW n \in Fair!Namespaces PROVE active'[n] = Fair!Cardinality(FqProc(n)') + Fair!Cardinality(FqDue(n)')
  <2>1. CASE n = m
    BY <1>12, <2>1
  <2>2. CASE n # m
    BY <1>2, <2>2, FqExact
  <2> QED BY <2>1, <2>2
<1>14. DOMAIN st' \subseteq Keys
  BY DEF FqEnded, Fair!TypeOK
<1> QED BY <1>13, <1>14, FqExactNext

-----------------------------------------------------------------------------
(* FairQueue: no ghosts, and aged keys at their base priority. *)

\* The parts of QueueInv beside the types and the count.
FqKept == Fair!NoGhost /\ Fair!DueIsQueued /\ Fair!AgedIsRaised

\* The three for a key whose state is as it was, from what a step leaves of the ways a queued
\* key is on its way, a processing key with a worker, and an aged key raised.
FqOwned(k) == \E w \in Workers : worker[w].doing \in {"busy", "done"} /\ worker[w].key = k

LEMMA FqKeptParts ==
    FqKept <=>
      \A k \in DOMAIN st :
         /\ st[k].queued \/ st[k].processing
         /\ st[k].queued => Fair!OnItsWay(k) /\ st[k].base \in load.bases
         /\ st[k].processing => FqOwned(k)
         /\ st[k].aged => st[k].due
         /\ st[k].due => st[k].queued
         /\ st[k].aged => Fair!Raised(k)
BY DEF FqKept, Fair!NoGhost, Fair!DueIsQueued, Fair!AgedIsRaised, FqOwned

LEMMA FqKeptNext ==
    ASSUME \A k \in DOMAIN st' :
             /\ st'[k].queued \/ st'[k].processing
             /\ st'[k].queued => Fair!OnItsWay(k)' /\ st'[k].base \in load'.bases
             /\ st'[k].processing => FqOwned(k)'
             /\ st'[k].aged => st'[k].due
             /\ st'[k].due => st'[k].queued
             /\ st'[k].aged => Fair!Raised(k)'
    PROVE  FqKept'
<1>1. Fair!NoGhost'
  BY DEF Fair!NoGhost, FqOwned
<1>2. Fair!DueIsQueued'
  BY DEF Fair!DueIsQueued
<1>3. Fair!AgedIsRaised'
  BY DEF Fair!AgedIsRaised
<1> QED BY <1>1, <1>2, <1>3 DEF FqKept

\* A key that is added in a higher level is still raised in the level it was raised in.
LEMMA FqRaisedStays ==
    ASSUME Fair!TypeOK, NEW x \in DOMAIN st, Fair!Raised(x), st'[x].base \in Int, st'[x].base >= st[x].base,
           load' = load, out'["tick"] = out["tick"], inner' = inner, worker' = worker
    PROVE  Fair!Raised(x)'
<1>1. load.bases \subseteq Int /\ st[x].base \in Int
  BY FqConstants DEF Fair!TypeOK, Fair!KeyState
<1>2. ASSUME NEW p, Fair!AtLevel(p, st[x].base) PROVE \E b \in load.bases : b <= st'[x].base /\ p >= b * Span
  <2>1. PICK b \in load.bases : b <= st[x].base /\ p >= b * Span
    BY <1>2 DEF Fair!AtLevel
  <2>2. b <= st'[x].base
    BY <1>1, <2>1
  <2> QED BY <2>1, <2>2
<1>3. ASSUME NEW i \in DOMAIN out["tick"], out["tick"][i].key = x, Fair!AtLevel(out["tick"][i].prio, st[x].base)
      PROVE  Fair!Raised(x)'
  <2>1. \E b \in load.bases : b <= st'[x].base /\ out["tick"][i].prio >= b * Span
    BY <1>2, <1>3
  <2> QED BY <1>3, <2>1 DEF Fair!Raised, Fair!AtLevel
<1>4. ASSUME x \in DOMAIN inner, Fair!AtLevel(inner[x].prio, st[x].base) PROVE Fair!Raised(x)'
  <2>1. \E b \in load.bases : b <= st'[x].base /\ inner[x].prio >= b * Span
    BY <1>2, <1>4
  <2> QED BY <1>4, <2>1 DEF Fair!Raised, Fair!AtLevel
<1>5. CASE \E w \in Workers : worker[w].doing = "taken" /\ worker[w].key = x
  BY <1>5 DEF Fair!Raised
<1> QED BY <1>3, <1>4, <1>5 DEF Fair!Raised

LEMMA FqAddKept ==
    ASSUME Fair!TypeOK, FqKept, NEW t \in Adders, NEW k \in Keys, NEW ps, NEW one, FqAdded(t, k, ps, one),
           \A x \in ps : x \in DOMAIN st /\ st[x].queued,
           out[t] = <<>>, out' = [out EXCEPT ![t] = out'[t]],
           \E i \in DOMAIN out'[t] : out'[t][i].key = k,
           UNCHANGED <<load, inner, order, locked, worker>>
    PROVE  FqKept'
<1>0. /\ t \in Fair!Threads /\ t # "tick" /\ out'["tick"] = out["tick"] /\ DOMAIN out[t] = {}
      /\ \A v \in Fair!Threads \ {t} : out'[v] = out[v]
  BY FqConstants DEF Fair!Threads, Fair!TypeOK
<1>1. ASSUME NEW x, Fair!OnItsWay(x) PROVE Fair!OnItsWay(x)'
  BY <1>0, <1>1 DEF Fair!OnItsWay
<1>2. Fair!OnItsWay(k)'
  BY <1>0 DEF Fair!OnItsWay
<1>3. ASSUME NEW x, FqOwned(x) PROVE FqOwned(x)'
  BY <1>3 DEF FqOwned
<1>4. ASSUME NEW x \in DOMAIN st, st'[x].base \in Int, st'[x].base >= st[x].base, Fair!Raised(x) PROVE Fair!Raised(x)'
  BY <1>0, <1>4, FqRaisedStays
<1>5. ASSUME NEW x \in DOMAIN st'
      PROVE  /\ st'[x].queued \/ st'[x].processing
             /\ st'[x].queued => Fair!OnItsWay(x)' /\ st'[x].base \in load'.bases
             /\ st'[x].processing => FqOwned(x)'
             /\ st'[x].aged => st'[x].due
             /\ st'[x].due => st'[x].queued
             /\ st'[x].aged => Fair!Raised(x)'
  <2>1. CASE x # k
    <3>1. x \in DOMAIN st /\ FqDueToo(st'[x], st[x], x \in ps)
      BY <2>1 DEF FqAdded
    <3>2. /\ st'[x].queued = st[x].queued /\ st'[x].processing = st[x].processing /\ st'[x].aged = st[x].aged
          /\ st'[x].base = st[x].base /\ (st'[x].due <=> st[x].due \/ x \in ps)
      BY <3>1 DEF FqDueToo
    <3>3. st'[x].base \in Int /\ st'[x].base >= st[x].base
      BY <3>1, <3>2 DEF FqDueToo, Fair!KeyState
    <3> QED BY <1>1, <1>3, <1>4, <3>1, <3>2, <3>3, FqKeptParts
  <2>2. CASE x = k
    <3>1. /\ st'[k].queued /\ st'[k].base \in load.bases
          /\ st'[k].processing <=> k \in DOMAIN st /\ st[k].processing
          /\ st'[k].aged => k \in DOMAIN st /\ st[k].queued /\ st[k].aged /\ st[k].due
          /\ k \in DOMAIN st /\ st[k].due => st'[k].due
          /\ k \in DOMAIN st /\ st[k].queued => st'[k].base >= st[k].base
          /\ st'[k].base \in Int
      BY DEF FqAdded, Fair!KeyState
    <3>2. ASSUME st'[k].aged PROVE Fair!Raised(k)'
      <4>1. k \in DOMAIN st /\ st'[k].base >= st[k].base /\ Fair!Raised(k)
        BY <3>1, <3>2, FqKeptParts
      <4> QED BY <1>4, <3>1, <4>1
    <3>3. st'[k].processing => FqOwned(k)'
      BY <1>3, <3>1, FqKeptParts
    <3> QED BY <1>2, <2>2, <3>1, <3>2, <3>3
  <2> QED BY <2>1, <2>2
<1> QED BY <1>5, FqKeptNext

LEMMA FqSweepKept ==
    ASSUME Fair!TypeOK, FqKept, NEW old, FqSwept(old), out["tick"] = <<>>, out' = [out EXCEPT !["tick"] = out'["tick"]],
           UNCHANGED <<load, inner, order, locked, worker>>
    PROVE  FqKept'
<1>0. /\ "tick" \in Fair!Threads /\ DOMAIN out["tick"] = {} /\ Span \in Nat
      /\ \A v \in Fair!Threads \ {"tick"} : out'[v] = out[v]
  BY FqConstants DEF Fair!Threads, Fair!TypeOK
<1>1. ASSUME NEW x, Fair!OnItsWay(x) PROVE Fair!OnItsWay(x)'
  BY <1>0, <1>1 DEF Fair!OnItsWay
<1>2. ASSUME NEW x, FqOwned(x) PROVE FqOwned(x)'
  BY <1>2 DEF FqOwned
<1>3. ASSUME NEW x, st'[x].base = st[x].base, Fair!Raised(x) PROVE Fair!Raised(x)'
  BY <1>0, <1>3 DEF Fair!Raised, Fair!AtLevel
<1>4. ASSUME NEW x \in old PROVE Fair!Raised(x)'
  <2>1. x \in DOMAIN st /\ st'[x].base = st[x].base /\ st[x].base \in Int
    BY DEF FqSwept, Fair!TypeOK, Fair!KeyState
  <2>2. PICK i \in DOMAIN out'["tick"] : out'["tick"][i].key = x /\ out'["tick"][i].prio = st[x].base * Span
    BY DEF FqSwept
  <2>3. st[x].base * Span \in Int
    BY <1>0, <2>1
  <2>4. st[x].queued
    BY <2>1, FqPromoted, FqKeptParts DEF FqSwept
  <2>5. st[x].base \in load.bases
    BY <2>1, <2>4, FqKeptParts
  <2>6. \E b \in load.bases : b <= st'[x].base /\ out'["tick"][i].prio >= b * Span
    BY <2>1, <2>2, <2>3, <2>5
  <2> QED BY <2>2, <2>6 DEF Fair!Raised, Fair!AtLevel
<1>5. ASSUME NEW x \in DOMAIN st'
      PROVE  /\ st'[x].queued \/ st'[x].processing
             /\ st'[x].queued => Fair!OnItsWay(x)' /\ st'[x].base \in load'.bases
             /\ st'[x].processing => FqOwned(x)'
             /\ st'[x].aged => st'[x].due
             /\ st'[x].due => st'[x].queued
             /\ st'[x].aged => Fair!Raised(x)'
  <2>1. /\ x \in DOMAIN st
        /\ st'[x].queued = st[x].queued /\ st'[x].processing = st[x].processing /\ st'[x].base = st[x].base
        /\ st'[x].due <=> st[x].due \/ x \in Fair!Promoted(Home[x])
        /\ st'[x].aged <=> st[x].aged \/ x \in old
        /\ x \in old => st'[x].due
    BY DEF FqSwept
  <2>2. x \in Fair!Promoted(Home[x]) => st[x].queued
    BY FqPromoted
  <2>3. /\ st[x].queued \/ st[x].processing
        /\ st[x].queued => Fair!OnItsWay(x) /\ st[x].base \in load.bases
        /\ st[x].processing => FqOwned(x)
        /\ st[x].aged => st[x].due
        /\ st[x].due => st[x].queued
        /\ st[x].aged => Fair!Raised(x)
    BY <2>1, FqKeptParts
  <2>4. st'[x].aged => Fair!Raised(x)'
    BY <1>3, <1>4, <2>1, <2>3
  <2> QED BY <1>1, <1>2, <2>1, <2>2, <2>3, <2>4
<1> QED BY <1>5, FqKeptNext

\* A step that leaves the states of the keys as they are, as far as the invariant sees them.
LEMMA FqSameKept ==
    ASSUME FqKept, DOMAIN st' \subseteq DOMAIN st, load' = load,
           \A x \in DOMAIN st' :
              /\ st'[x].queued = st[x].queued /\ st'[x].due = st[x].due /\ st'[x].aged = st[x].aged
              /\ st'[x].base = st[x].base
              /\ st'[x].processing => st[x].processing /\ (FqOwned(x) => FqOwned(x)')
              /\ st'[x].queued \/ st'[x].processing
              /\ Fair!OnItsWay(x) => Fair!OnItsWay(x)'
              /\ Fair!Raised(x) => Fair!Raised(x)'
    PROVE  FqKept'
<1>1. ASSUME NEW x \in DOMAIN st'
      PROVE  /\ st'[x].queued \/ st'[x].processing
             /\ st'[x].queued => Fair!OnItsWay(x)' /\ st'[x].base \in load'.bases
             /\ st'[x].processing => FqOwned(x)'
             /\ st'[x].aged => st'[x].due
             /\ st'[x].due => st'[x].queued
             /\ st'[x].aged => Fair!Raised(x)'
  <2>1. /\ st[x].queued \/ st[x].processing
        /\ st[x].queued => Fair!OnItsWay(x) /\ st[x].base \in load.bases
        /\ st[x].processing => FqOwned(x)
        /\ st[x].aged => st[x].due
        /\ st[x].due => st[x].queued
        /\ st[x].aged => Fair!Raised(x)
    BY FqKeptParts
  <2> QED BY <2>1
<1> QED BY <1>1, FqKeptNext

LEMMA FqLandKept ==
    ASSUME Fair!TypeOK, Fair!TypeOK', FqKept, NEW t \in Fair!Threads, NEW a, FqLands(t, a) PROVE FqKept'
<1>0. /\ a \in Fair!Add /\ out[t] # <<>> /\ a = Head(out[t]) /\ out' = [out EXCEPT ![t] = Tail(out[t])]
      /\ DOMAIN inner' = DOMAIN inner \cup {a.key} /\ inner'[a.key].prio >= a.prio
      /\ \A x \in DOMAIN inner : inner'[x].prio >= inner[x].prio
      /\ UNCHANGED <<load, st, active, waiting, locked, worker>>
  BY DEF FqLands
<1>1. /\ out \in [Fair!Threads -> Seq(Fair!Add)] /\ out[t] \in Seq(Fair!Add) /\ out'[t] = Tail(out[t])
      /\ \A v \in Fair!Threads \ {t} : out'[v] = out[v]
  BY <1>0 DEF Fair!TypeOK
<1>2. ASSUME NEW i \in DOMAIN out[t]
      PROVE  out[t][i] = a \/ \E j \in DOMAIN out'[t] : out'[t][j] = out[t][i]
  <2>1. CASE i = 1
    BY <1>0, <1>1, <2>1
  <2>2. CASE i # 1
    <3>1. i - 1 \in DOMAIN Tail(out[t]) /\ Tail(out[t])[i - 1] = out[t][i]
      BY <1>0, <1>1, <2>2
    <3> QED BY <1>1, <3>1
  <2> QED BY <2>1, <2>2
<1>3. ASSUME NEW x, Fair!OnItsWay(x) PROVE Fair!OnItsWay(x)'
  <2>1. CASE x \in DOMAIN inner
    BY <1>0, <2>1 DEF Fair!OnItsWay
  <2>2. ASSUME NEW v \in Fair!Threads, NEW i \in DOMAIN out[v], out[v][i].key = x PROVE Fair!OnItsWay(x)'
    <3>1. CASE v = t
      <4>1. CASE out[t][i] = a
        BY <1>0, <2>2, <3>1, <4>1 DEF Fair!OnItsWay
      <4>2. CASE out[t][i] # a
        <5>1. PICK j \in DOMAIN out'[t] : out'[t][j] = out[t][i]
          BY <1>2, <3>1, <4>2
        <5> QED BY <2>2, <3>1, <5>1 DEF Fair!OnItsWay
      <4> QED BY <4>1, <4>2
    <3>2. CASE v # t
      BY <1>1, <2>2, <3>2 DEF Fair!OnItsWay
    <3> QED BY <3>1, <3>2
  <2>3. CASE \E w \in Workers : worker[w].doing = "taken" /\ worker[w].key = x
    BY <1>0, <2>3 DEF Fair!OnItsWay
  <2> QED BY <1>3, <2>1, <2>2, <2>3 DEF Fair!OnItsWay
<1>4. ASSUME NEW x \in DOMAIN st, NEW b \in load.bases, b <= st[x].base,
             \/ x \in DOMAIN inner /\ inner[x].prio >= b * Span
             \/ \E i \in DOMAIN out["tick"] : out["tick"][i].key = x /\ out["tick"][i].prio >= b * Span
      PROVE  Fair!Raised(x)'
  <2>0. b * Span \in Int /\ b <= st'[x].base /\ b \in load'.bases
    BY <1>0, <1>4, FqConstants DEF Fair!TypeOK
  <2> DEFINE level == b * Span
  <2>1. /\ a.prio \in Int
        /\ \A y \in DOMAIN inner : inner[y].prio \in Int
        /\ \A y \in DOMAIN inner' : inner'[y].prio \in Int
    BY <1>0 DEF Fair!Add, Fair!TypeOK
  <2> HIDE DEF level
  <2>2. ASSUME x \in DOMAIN inner', inner'[x].prio >= level PROVE Fair!Raised(x)'
    BY <2>0, <2>2 DEF Fair!Raised, Fair!AtLevel, level
  <2>3. ASSUME NEW i \in DOMAIN out'["tick"], out'["tick"][i].key = x, out'["tick"][i].prio >= level
        PROVE  Fair!Raised(x)'
    BY <2>0, <2>3 DEF Fair!Raised, Fair!AtLevel, level
  <2>4. level \in Int
    BY <2>0 DEF level
  <2>5. CASE x \in DOMAIN inner /\ inner[x].prio >= level
    <3>1. x \in DOMAIN inner' /\ inner'[x].prio >= inner[x].prio /\ inner'[x].prio \in Int /\ inner[x].prio \in Int
      BY <1>0, <2>1, <2>5
    <3>2. inner'[x].prio >= level
      BY <2>4, <2>5, <3>1
    <3> QED BY <2>2, <3>1, <3>2
  <2>6. ASSUME NEW i \in DOMAIN out["tick"], out["tick"][i].key = x, out["tick"][i].prio >= level
        PROVE  Fair!Raised(x)'
    <3>1. CASE t # "tick"
      <4>1. out'["tick"] = out["tick"]
        BY <1>1, <3>1 DEF Fair!Threads
      <4> QED BY <2>3, <2>6, <4>1
    <3>2. CASE t = "tick" /\ out[t][i] = a
      <4>1. x = a.key /\ a.prio >= level
        BY <2>6, <3>2
      <4>2. x \in DOMAIN inner' /\ inner'[x].prio >= a.prio /\ inner'[x].prio \in Int
        BY <1>0, <2>1, <4>1
      <4>3. inner'[x].prio >= level
        BY <2>1, <2>4, <4>1, <4>2
      <4> QED BY <2>2, <4>2, <4>3
    <3>3. CASE t = "tick" /\ out[t][i] # a
      <4>1. PICK j \in DOMAIN out'[t] : out'[t][j] = out[t][i]
        BY <1>2, <2>6, <3>3
      <4> QED BY <2>3, <2>6, <3>3, <4>1
    <3> QED BY <3>1, <3>2, <3>3
  <2> QED BY <1>4, <2>5, <2>6 DEF level
<1>7. ASSUME NEW x \in DOMAIN st, Fair!Raised(x) PROVE Fair!Raised(x)'
  <2>1. ASSUME NEW i \in DOMAIN out["tick"], out["tick"][i].key = x, Fair!AtLevel(out["tick"][i].prio, st[x].base)
        PROVE  Fair!Raised(x)'
    <3>1. PICK b \in load.bases : b <= st[x].base /\ out["tick"][i].prio >= b * Span
      BY <2>1 DEF Fair!AtLevel
    <3> QED BY <1>4, <2>1, <3>1
  <2>2. ASSUME x \in DOMAIN inner, Fair!AtLevel(inner[x].prio, st[x].base) PROVE Fair!Raised(x)'
    <3>1. PICK b \in load.bases : b <= st[x].base /\ inner[x].prio >= b * Span
      BY <2>2 DEF Fair!AtLevel
    <3> QED BY <1>4, <2>2, <3>1
  <2>3. CASE \E w \in Workers : worker[w].doing = "taken" /\ worker[w].key = x
    BY <1>0, <2>3 DEF Fair!Raised
  <2> QED BY <1>7, <2>1, <2>2, <2>3 DEF Fair!Raised
<1>5. ASSUME NEW x, FqOwned(x) PROVE FqOwned(x)'
  BY <1>0, <1>5 DEF FqOwned
<1>6. \A x \in DOMAIN st' : st'[x].queued \/ st'[x].processing
  BY <1>0, FqKeptParts
<1> QED BY <1>0, <1>3, <1>5, <1>6, <1>7, FqSameKept

LEMMA FqGetKept ==
    ASSUME Fair!TypeOK, FqKept, NEW w \in Workers, NEW k, FqTaken(w, k) PROVE FqKept'
<1>0. /\ k \in DOMAIN inner /\ DOMAIN inner' = DOMAIN inner \ {k}
      /\ \A x \in DOMAIN inner' : inner'[x] = inner[x]
      /\ worker[w].doing = "idle"
      /\ worker'[w].doing = "taken" /\ worker'[w].key = k /\ \A v \in Workers \ {w} : worker'[v] = worker[v]
      /\ UNCHANGED <<load, st, active, waiting, out>>
  BY DEF FqTaken
<1>1. ASSUME NEW x, Fair!OnItsWay(x) PROVE Fair!OnItsWay(x)'
  BY <1>0, <1>1 DEF Fair!OnItsWay
<1>2. ASSUME NEW x, Fair!Raised(x) PROVE Fair!Raised(x)'
  <2>1. CASE x = k
    BY <1>0, <2>1 DEF Fair!Raised, Fair!AtLevel
  <2>2. CASE x # k
    <3>1. st'[x].base = st[x].base /\ out'["tick"] = out["tick"]
      BY <1>0
    <3>2. x \in DOMAIN inner => x \in DOMAIN inner' /\ inner'[x] = inner[x]
      BY <1>0, <2>2
    <3>3. \A v \in Workers : worker[v].doing = "taken" => worker'[v] = worker[v]
      BY <1>0
    <3>4. load' = load
      BY <1>0
    <3>5. CASE \E i \in DOMAIN out["tick"] : out["tick"][i].key = x /\ Fair!AtLevel(out["tick"][i].prio, st[x].base)
      BY <3>1, <3>4, <3>5 DEF Fair!Raised, Fair!AtLevel
    <3>6. CASE x \in DOMAIN inner /\ Fair!AtLevel(inner[x].prio, st[x].base)
      BY <3>1, <3>2, <3>4, <3>6 DEF Fair!Raised, Fair!AtLevel
    <3>7. CASE \E v \in Workers : worker[v].doing = "taken" /\ worker[v].key = x
      BY <3>3, <3>7 DEF Fair!Raised
    <3> QED BY <1>2, <3>5, <3>6, <3>7 DEF Fair!Raised
  <2> QED BY <2>1, <2>2
<1>3. ASSUME NEW x, FqOwned(x) PROVE FqOwned(x)'
  BY <1>0, <1>3 DEF FqOwned
<1>4. \A x \in DOMAIN st' : st'[x].queued \/ st'[x].processing
  BY <1>0, FqKeptParts
<1> QED BY <1>0, <1>1, <1>2, <1>3, <1>4, FqSameKept

LEMMA FqBookKept ==
    ASSUME Fair!TypeOK, FqKept, NEW w \in Workers, NEW k, FqBooked(w, k) PROVE FqKept'
<1>0. /\ k \in Keys /\ k = worker[w].key /\ worker[w].doing = "taken"
      /\ DOMAIN st' = DOMAIN st \cup {k} /\ \A x \in DOMAIN st \ {k} : st'[x] = st[x]
      /\ st'[k].processing /\ ~st'[k].queued /\ ~st'[k].due /\ ~st'[k].aged
      /\ worker'[w].doing = "busy" /\ worker'[w].key = k /\ \A v \in Workers \ {w} : worker'[v] = worker[v]
      /\ UNCHANGED <<load, waiting, inner, order, locked, out>>
  BY DEF FqBooked
<1>1. ASSUME NEW x, x # k, Fair!OnItsWay(x) PROVE Fair!OnItsWay(x)'
  BY <1>0, <1>1 DEF Fair!OnItsWay
<1>2. ASSUME NEW x, x # k, st'[x].base = st[x].base, Fair!Raised(x) PROVE Fair!Raised(x)'
  BY <1>0, <1>2 DEF Fair!Raised, Fair!AtLevel
<1>3. ASSUME NEW x, FqOwned(x) PROVE FqOwned(x)'
  BY <1>0, <1>3 DEF FqOwned
<1>4. FqOwned(k)'
  BY <1>0 DEF FqOwned
<1>5. ASSUME NEW x \in DOMAIN st'
      PROVE  /\ st'[x].queued \/ st'[x].processing
             /\ st'[x].queued => Fair!OnItsWay(x)' /\ st'[x].base \in load'.bases
             /\ st'[x].processing => FqOwned(x)'
             /\ st'[x].aged => st'[x].due
             /\ st'[x].due => st'[x].queued
             /\ st'[x].aged => Fair!Raised(x)'
  <2>1. CASE x = k
    BY <1>0, <1>4, <2>1
  <2>2. CASE x # k
    <3>1. x \in DOMAIN st /\ st'[x] = st[x]
      BY <1>0, <2>2
    <3> QED BY <1>0, <1>1, <1>2, <1>3, <2>2, <3>1, FqKeptParts
  <2> QED BY <2>1, <2>2
<1> QED BY <1>5, FqKeptNext

LEMMA FqFreeKept ==
    ASSUME Fair!TypeOK, FqKept, NEW w \in Workers, FqFreed(w) PROVE FqKept'
<1>0. /\ worker[w].doing = "busy" /\ worker'[w].doing = "done" /\ worker'[w].key = worker[w].key
      /\ \A v \in Workers \ {w} : worker'[v] = worker[v]
      /\ UNCHANGED <<load, st, active, waiting, inner, order, out>>
  BY DEF FqFreed
<1>1. ASSUME NEW x, Fair!OnItsWay(x) PROVE Fair!OnItsWay(x)'
  BY <1>0, <1>1 DEF Fair!OnItsWay
<1>2. ASSUME NEW x, Fair!Raised(x) PROVE Fair!Raised(x)'
  BY <1>0, <1>2 DEF Fair!Raised, Fair!AtLevel
<1>3. ASSUME NEW x, FqOwned(x) PROVE FqOwned(x)'
  BY <1>0, <1>3 DEF FqOwned
<1>4. \A x \in DOMAIN st' : st'[x].queued \/ st'[x].processing
  BY <1>0, FqKeptParts
<1> QED BY <1>0, <1>1, <1>2, <1>3, <1>4, FqSameKept

LEMMA FqEndKept ==
    ASSUME Fair!TypeOK, FqKept, NEW w \in Workers, NEW k, FqEnded(w, k) PROVE FqKept'
<1>0. /\ k = worker[w].key /\ worker[w].doing = "done"
      /\ \A v \in Workers \ {w} : worker'[v] = worker[v]
      /\ DOMAIN st' = IF k \in DOMAIN st /\ ~st[k].queued THEN DOMAIN st \ {k} ELSE DOMAIN st
      /\ \A x \in DOMAIN st' \ {k} : st'[x] = st[x]
      /\ k \in DOMAIN st' => /\ ~st'[k].processing
                             /\ st'[k].queued = st[k].queued /\ st'[k].due = st[k].due
                             /\ st'[k].aged = st[k].aged /\ st'[k].base = st[k].base
      /\ UNCHANGED <<load, inner, order, locked, out>>
  BY DEF FqEnded
<1>1. ASSUME NEW x, Fair!OnItsWay(x) PROVE Fair!OnItsWay(x)'
  BY <1>0, <1>1 DEF Fair!OnItsWay
<1>2. ASSUME NEW x, st'[x].base = st[x].base, Fair!Raised(x) PROVE Fair!Raised(x)'
  BY <1>0, <1>2 DEF Fair!Raised, Fair!AtLevel
<1>3. ASSUME NEW x, x # k, FqOwned(x) PROVE FqOwned(x)'
  BY <1>0, <1>3 DEF FqOwned
<1>4. DOMAIN st' \subseteq DOMAIN st
  BY <1>0
<1>5. ASSUME NEW x \in DOMAIN st'
      PROVE  /\ st'[x].queued = st[x].queued /\ st'[x].due = st[x].due /\ st'[x].aged = st[x].aged
             /\ st'[x].base = st[x].base
             /\ st'[x].processing => st[x].processing /\ (FqOwned(x) => FqOwned(x)')
             /\ st'[x].queued \/ st'[x].processing
  <2>1. CASE x = k
    BY <1>0, <2>1
  <2>2. CASE x # k
    BY <1>0, <1>3, <1>4, <2>2, FqKeptParts
  <2> QED BY <2>1, <2>2
<1> QED BY <1>0, <1>1, <1>2, <1>4, <1>5, FqSameKept

LEMMA FqTickKept == ASSUME Fair!TypeOK, FqKept, FqTicked PROVE FqKept'
<1>0. /\ DOMAIN st' = DOMAIN st /\ DOMAIN inner' = DOMAIN inner
      /\ \A x \in DOMAIN st : /\ st'[x].queued = st[x].queued /\ st'[x].processing = st[x].processing
                              /\ st'[x].due = st[x].due /\ st'[x].aged = st[x].aged /\ st'[x].base = st[x].base
      /\ \A x \in DOMAIN inner : inner'[x].prio = inner[x].prio
      /\ UNCHANGED <<load, active, order, locked, out, worker>>
  BY DEF FqTicked
<1>1. ASSUME NEW x, Fair!OnItsWay(x) PROVE Fair!OnItsWay(x)'
  BY <1>0, <1>1 DEF Fair!OnItsWay
<1>2. ASSUME NEW x \in DOMAIN st, Fair!Raised(x) PROVE Fair!Raised(x)'
  BY <1>0, <1>2 DEF Fair!Raised, Fair!AtLevel
<1>3. ASSUME NEW x, FqOwned(x) PROVE FqOwned(x)'
  BY <1>0, <1>3 DEF FqOwned
<1>4. \A x \in DOMAIN st' : st'[x].queued \/ st'[x].processing
  BY <1>0, FqKeptParts
<1> QED BY <1>0, <1>1, <1>2, <1>3, <1>4, FqSameKept

-----------------------------------------------------------------------------
(* FairQueue: the invariant. *)

LEMMA FqInvParts == Fair!QueueInv <=> Fair!TypeOK /\ Fair!ActiveExact /\ FqKept
BY DEF Fair!QueueInv, FqKept

LEMMA FqInit == Fair!Init => Fair!QueueInv
<1> SUFFICES ASSUME Fair!Init PROVE Fair!QueueInv
  OBVIOUS
<1>0. /\ load \in FairSettings /\ st = <<>> /\ active = [n \in Fair!Namespaces |-> 0] /\ waiting = {} /\ inner = <<>>
      /\ order = <<>> /\ locked = {} /\ out = [t \in Fair!Threads |-> <<>>] /\ worker = [w \in Workers |-> Fair!Idle]
  BY DEF Fair!Init
<1>1. DOMAIN st = {} /\ DOMAIN inner = {}
  BY <1>0
<1>2. /\ order \in Seq(Keys) /\ Fair!IsInjective(order) /\ Fair!ToSet(order) = {}
  BY <1>0 DEF Fair!IsInjective, Fair!ToSet
<1>3. out \in [Fair!Threads -> Seq(Fair!Add)]
  <2>1. <<>> \in Seq(Fair!Add)
    OBVIOUS
  <2> QED BY <1>0, <2>1
<1>4. /\ worker \in [Workers -> [doing : Fair!Doing, key : Keys \cup {Fair!NoKey}, prio : Int]]
      /\ \A w \in Workers : worker[w].doing = "idle"
  <2>1. Fair!Idle \in [doing : Fair!Doing, key : Keys \cup {Fair!NoKey}, prio : Int] /\ Fair!Idle.doing = "idle"
    BY DEF Fair!Idle, Fair!Doing
  <2> QED BY <1>0, <2>1
<1>5. st \in [DOMAIN st -> Fair!KeyState] /\ inner \in [DOMAIN inner -> [prio : Int, left : Nat]]
  BY <1>0
<1>6. Fair!TypeOK
  BY <1>0, <1>1, <1>2, <1>3, <1>4, <1>5 DEF Fair!TypeOK
<1>7. Fair!ActiveExact
  <2>1. ASSUME NEW n \in Fair!Namespaces PROVE active[n] = Fair!Cardinality(FqProc(n)) + Fair!Cardinality(FqDue(n))
    <3>1. FqProc(n) = {} /\ FqDue(n) = {} /\ active[n] = 0
      BY <1>0, <1>1 DEF FqProc, FqDue, Fair!KeysOf
    <3> QED BY <3>1, FqCard
  <2>2. DOMAIN st \subseteq Keys
    BY <1>1
  <2> QED BY <2>1, <2>2, FqActive DEF Fair!ActiveExact
<1>8. FqKept
  BY <1>1, FqKeptParts
<1> QED BY <1>6, <1>7, <1>8, FqInvParts

LEMMA FqNext == Fair!QueueInv /\ [Fair!Next]_queueVars => Fair!QueueInv'
<1> SUFFICES ASSUME Fair!QueueInv, [Fair!Next]_queueVars PROVE Fair!QueueInv'
  OBVIOUS
<1>0. Fair!TypeOK /\ Fair!ActiveExact /\ FqKept /\ Fair!NoGhost /\ Fair!DueIsQueued
  BY FqInvParts DEF FqKept
<1>a. ASSUME Fair!TypeOK', Fair!ActiveExact', FqKept' PROVE Fair!QueueInv'
  BY <1>a DEF Fair!QueueInv, FqKept
<1>1. ASSUME NEW t \in Adders, NEW k \in load.keys, NEW b \in load.bases, NEW d \in load.delays,
             Fair!AddWithOpts(t, k, b, d)
      PROVE  Fair!QueueInv'
  <2>1. PICK one : /\ k \in Keys /\ Home[k] \in Fair!Namespaces /\ out[t] = <<>>
                   /\ FqAdded(t, k, Fair!Promoted(Home[k]), one)
    BY <1>0, <1>1, FqAddShape
  <2>2. /\ out' = [out EXCEPT ![t] = out'[t]] /\ \E i \in DOMAIN out'[t] : out'[t][i].key = k
        /\ UNCHANGED <<load, inner, order, locked, worker>>
    BY <1>0, <1>1, FqAddRest
  <2>3. \A x \in Fair!Promoted(Home[k]) : x \in DOMAIN st /\ st[x].queued
    BY <1>0, FqPromoted
  <2>4. Fair!TypeOK'
    BY <1>0, <1>1, FqAddTypes
  <2>5. Fair!ActiveExact'
    BY <1>0, <2>1, FqAddExact
  <2>6. FqKept'
    BY <1>0, <2>1, <2>2, <2>3, FqAddKept
  <2> QED BY <1>a, <2>4, <2>5, <2>6
<1>2. CASE Fair!sweep
  <2>1. /\ Fair!TypeOK' /\ out["tick"] = <<>> /\ active' \in [Fair!Namespaces -> Int]
        /\ \A n \in Fair!Namespaces : active'[n] = active[n] + Fair!Cardinality(Fair!Promoted(n))
        /\ out' = [out EXCEPT !["tick"] = out'["tick"]]
        /\ UNCHANGED <<load, inner, order, locked, worker>>
    BY <1>0, <1>2, FqSweepShape
  <2>2. PICK old : FqSwept(old)
    BY <1>0, <1>2, FqSweepShape
  <2>3. Fair!ActiveExact'
    BY <1>0, <2>1, <2>2, FqSweepExact
  <2>4. FqKept'
    BY <1>0, <2>1, <2>2, FqSweepKept
  <2> QED BY <1>a, <2>1, <2>3, <2>4
<1>3. ASSUME NEW t \in Fair!Threads, Fair!InnerAdd(t) PROVE Fair!QueueInv'
  <2>1. PICK a : Fair!TypeOK' /\ FqLands(t, a)
    BY <1>0, <1>3, FqLand
  <2>2. Fair!ActiveExact'
    BY <1>0, <2>1, FqExactSame DEF FqLands
  <2>3. FqKept'
    BY <1>0, <2>1, FqLandKept
  <2> QED BY <1>a, <2>1, <2>2, <2>3
<1>4. ASSUME NEW w \in Workers, Fair!InnerGet(w) PROVE Fair!QueueInv'
  <2>1. PICK k : Fair!TypeOK' /\ FqTaken(w, k)
    BY <1>0, <1>4, FqGet
  <2>2. Fair!ActiveExact'
    BY <1>0, <2>1, FqExactSame DEF FqTaken
  <2>3. FqKept'
    BY <1>0, <2>1, FqGetKept
  <2> QED BY <1>a, <2>1, <2>2, <2>3
<1>5. ASSUME NEW w \in Workers, Fair!GetWithPriority(w) PROVE Fair!QueueInv'
  <2>1. PICK k : Fair!TypeOK' /\ FqBooked(w, k)
    BY <1>0, <1>5, FqBook
  <2>2. Fair!ActiveExact' /\ FqKept'
    BY <1>0, <2>1, FqBookExact, FqBookKept
  <2> QED BY <1>a, <2>1, <2>2
<1>6. ASSUME NEW w \in Workers, Fair!InnerDone(w) PROVE Fair!QueueInv'
  <2>1. Fair!TypeOK' /\ FqFreed(w)
    BY <1>0, <1>6, FqFree
  <2>2. Fair!ActiveExact'
    BY <1>0, <2>1, FqExactSame DEF FqFreed
  <2>3. FqKept'
    BY <1>0, <2>1, FqFreeKept
  <2> QED BY <1>a, <2>1, <2>2, <2>3
<1>7. ASSUME NEW w \in Workers, Fair!Done(w) PROVE Fair!QueueInv'
  <2>1. PICK k : Fair!TypeOK' /\ FqEnded(w, k)
    BY <1>0, <1>7, FqEnd
  <2>2. Fair!ActiveExact' /\ FqKept'
    BY <1>0, <2>1, FqEndExact, FqEndKept
  <2> QED BY <1>a, <2>1, <2>2
<1>8. CASE Fair!Tick
  <2>1. Fair!TypeOK' /\ FqTicked
    BY <1>0, <1>8, FqTick
  <2>2. Fair!ActiveExact'
    BY <1>0, <2>1, FqExactSame DEF FqTicked
  <2>3. FqKept'
    BY <1>0, <2>1, FqTickKept
  <2> QED BY <1>a, <2>1, <2>2, <2>3
<1>9. CASE UNCHANGED queueVars
  <2>1. UNCHANGED <<load, st, active, waiting, inner, order, locked, out, worker>>
    BY <1>9 DEF queueVars
  <2>2. Fair!TypeOK'
    BY <1>0, <2>1 DEF Fair!TypeOK, Fair!KeyState
  <2>3. Fair!ActiveExact'
    BY <1>0, <2>1, FqExactSame
  <2>4. FqTicked
    BY <2>1 DEF FqTicked
  <2>5. FqKept'
    BY <1>0, <2>4, FqTickKept
  <2> QED BY <1>a, <2>2, <2>3, <2>5
<1> QED BY <1>1, <1>2, <1>3, <1>4, <1>5, <1>6, <1>7, <1>8, <1>9 DEF Fair!Next

\* A raised key that no thread adds and no worker has is at the base of a level in the inner queue.
LEMMA FqAged == Fair!QueueInv => Fair!AgedAtBase
<1> SUFFICES ASSUME Fair!QueueInv,
                    NEW k \in DOMAIN st \cap DOMAIN inner, st[k].aged,
                    \A t \in Fair!Threads : \A i \in DOMAIN out[t] : out[t][i].key # k,
                    \A w \in Workers : ~(worker[w].doing = "taken" /\ worker[w].key = k)
             PROVE  Fair!AtLevel(inner[k].prio, st[k].base)
  BY DEF Fair!AgedAtBase
<1>1. Fair!Raised(k)
  BY DEF Fair!QueueInv, Fair!AgedIsRaised
<1> QED BY <1>1 DEF Fair!Raised, Fair!Threads

LEMMA FqTypedIn == Fair!QueueInv => Fair!TypeOK /\ Fair!ActiveExact /\ Fair!NoGhost /\ Fair!AgedAtBase
BY FqAged DEF Fair!QueueInv

\* QueueSafe, for every number of keys, namespaces, adding goroutines and workers, every priority
\* span, backlog bounds and aging bound: however adds, sweeps, gets and dones interleave between
\* the wrapper's mutex and the inner queue, active never drifts: it is the number of keys due or
\* processing and exceeds it by exactly the keys that are both (AddWithOpts, sweep,
\* GetWithPriority, Done); no key is kept that nobody will serve; and a key that sweep raised is
\* served at no less than the base priority of a level it was added with.
THEOREM QueueIsSafe == PartsSpec => []QueueSafe
<1> DEFINE Inv == part = "queue" => Fair!QueueInv
<1>1. PartsInit => Inv
  BY PartStarts, FqInit
<1>2. Inv /\ [PartsNext]_partVars => Inv'
  BY PartSteps, FqNext
<1>3. Inv => QueueSafe
  BY FqTypedIn DEF QueueSafe
<1> QED BY <1>1, <1>2, <1>3, PTL DEF PartsSpec
-----------------------------------------------------------------------------
(* HookRun: types, and what a write of a run keeps. *)

LEMMA HkFacts ==
    /\ \A r \in Hook!Runs : /\ r # Hook!Absent /\ r.uid \in Nat /\ r.uid # 0 /\ r.ver \in Vers /\ r.rec \in Hook!Record
                            /\ r.hash \in Vers \cup {0} /\ r.jobUID \in Nat /\ r.phase \in Hook!Phases
                            /\ r.adv \in BOOLEAN /\ r.fin \in BOOLEAN /\ r.del \in BOOLEAN /\ r.changed \in BOOLEAN
                            /\ r.deadline \in Hook!Times /\ r.finishedAt \in Hook!Times
    /\ Hook!Absent.uid = 0
    /\ Hook!NoJob \in Hook!Jobs /\ Hook!NoJob.uid = 0 /\ Hook!NoJob.owner = 0 /\ Hook!NoJob.state = "none"
    /\ Hook!NoRecord \in Hook!Record /\ Hook!NoRecord.result = "none"
    /\ Vers \subseteq Nat /\ 0 \notin Vers /\ Hook!NoTime \in Hook!Times /\ Nat \subseteq Hook!Times
<1>1. \A r \in Hook!Runs : r.uid # 0 /\ r # Hook!Absent
  BY DEF Hook!Runs, Hook!Absent
<1> QED BY <1>1, PartsAssumption
        DEF Hook!ConstantsOK, Hook!Runs, Hook!Absent, Hook!Jobs, Hook!NoJob, Hook!NoRecord, Hook!Record, Hook!Phases, Hook!Times

\* The state of one hook, as HookInv has it.
LEMMA HkOne ==
    ASSUME Hook!Typed, NEW h \in Hooks
    PROVE  /\ run[h] \in Hook!Runs \/ run[h] = Hook!Absent
           /\ cached[h] \in Hook!Runs \/ cached[h] = Hook!Absent
           /\ job[h] \in Hook!Jobs /\ live[h] \in Hook!Record /\ records[h] \in Hook!Record /\ ver[h] \in Vers
           /\ run[h].uid \in Nat /\ cached[h].uid \in Nat
           /\ job[h].uid \in Nat /\ job[h].owner \in Nat /\ job[h].ver \in Vers \cup {0}
           /\ job[h].uid # 0 => job[h].owner # 0 /\ job[h].ver # 0
           /\ job[h].state = "running" => job[h] # Hook!NoJob
           /\ Hook!Exists(run[h]) <=> run[h] \in Hook!Runs
           /\ Hook!Exists(cached[h]) <=> cached[h] \in Hook!Runs
           /\ Hook!Exists(Hook!Seen(h)) => Hook!Seen(h) \in Hook!Runs
<1>1. /\ run[h] \in Hook!Runs \/ run[h] = Hook!Absent
      /\ cached[h] \in Hook!Runs \/ cached[h] = Hook!Absent
      /\ job[h] \in Hook!Jobs /\ live[h] \in Hook!Record /\ records[h] \in Hook!Record /\ ver[h] \in Vers
  BY DEF Hook!Typed
<1>2. /\ Hook!Exists(run[h]) <=> run[h] \in Hook!Runs
      /\ Hook!Exists(cached[h]) <=> cached[h] \in Hook!Runs
  BY <1>1, HkFacts, Zenon DEF Hook!Exists
<1>3. run[h].uid \in Nat /\ cached[h].uid \in Nat
  BY <1>1, HkFacts
<1>4. /\ job[h].uid \in Nat /\ job[h].owner \in Nat /\ job[h].ver \in Vers \cup {0}
      /\ job[h].uid # 0 => job[h].owner # 0 /\ job[h].ver # 0
      /\ job[h].state = "running" => job[h] # Hook!NoJob
  <2>1. CASE job[h] = Hook!NoJob
    BY <2>1 DEF Hook!NoJob
  <2>2. CASE job[h] # Hook!NoJob
    BY <1>1, <2>2, HkFacts DEF Hook!Jobs
  <2> QED BY <2>1, <2>2
<1>5. Hook!Exists(Hook!Seen(h)) => Hook!Seen(h) \in Hook!Runs
  BY <1>2 DEF Hook!Seen
<1> QED BY <1>1, <1>2, <1>3, <1>4, <1>5

LEMMA HkFinish ==
    ASSUME NEW r \in Hook!Runs, NEW ph \in Hook!Phases, hclock \in Nat
    PROVE  /\ Hook!finish(r, ph) \in Hook!Runs
           /\ Hook!finish(r, ph).uid = r.uid /\ Hook!finish(r, ph).hash = r.hash /\ Hook!finish(r, ph).jobUID = r.jobUID
           /\ Hook!finish(r, ph).rec = r.rec /\ Hook!finish(r, ph).adv = r.adv
           /\ Hook!finish(r, ph).phase \in {r.phase, ph}
           /\ ~Hook!terminal(r) => Hook!finish(r, ph).phase = ph
<1>1. hclock \in Hook!Times
  BY DEF Hook!Times
<1>2. [r EXCEPT !.phase = ph, !.finishedAt = hclock] \in Hook!Runs
  BY <1>1 DEF Hook!Runs
<1> QED BY <1>2 DEF Hook!finish, Hook!Runs

LEMMA HkMark ==
    ASSUME NEW r \in Hook!Runs
    PROVE  /\ Hook!markSpecChange(r) \in Hook!Runs
           /\ Hook!markSpecChange(r).uid = r.uid /\ Hook!markSpecChange(r).hash = r.hash
           /\ Hook!markSpecChange(r).jobUID = r.jobUID /\ Hook!markSpecChange(r).rec = r.rec
           /\ Hook!markSpecChange(r).adv = r.adv /\ Hook!markSpecChange(r).phase = r.phase
           /\ Hook!markSpecChange(r).ver = r.ver /\ Hook!markSpecChange(r).deadline = r.deadline
           /\ Hook!markSpecChange(r).fin = r.fin
           /\ ~Hook!markSpecChange(r).changed /\ r.hash # 0 => r.hash = r.ver
           /\ Hook!terminal(Hook!markSpecChange(r)) <=> Hook!terminal(r)
<1>1. r.changed \in BOOLEAN
  BY HkFacts
<1> DEFINE b == r.changed \/ (r.hash # 0 /\ r.hash # r.ver)
<1>2. Hook!markSpecChange(r) = [r EXCEPT !.changed = b]
  BY DEF Hook!markSpecChange
<1>3. b \in BOOLEAN
  OBVIOUS
<1>4. ~b /\ r.hash # 0 => r.hash = r.ver
  OBVIOUS
<1> HIDE DEF b
<1>5. [r EXCEPT !.changed = b] \in Hook!Runs /\ [r EXCEPT !.changed = b].changed = b
  BY <1>3 DEF Hook!Runs
<1>6. LET m == [r EXCEPT !.changed = b]
      IN  /\ m.uid = r.uid /\ m.hash = r.hash /\ m.jobUID = r.jobUID /\ m.rec = r.rec /\ m.adv = r.adv
          /\ m.phase = r.phase /\ m.ver = r.ver /\ m.deadline = r.deadline /\ m.fin = r.fin
  BY DEF Hook!Runs
<1> QED BY <1>2, <1>4, <1>5, <1>6 DEF Hook!terminal
\* A write of the run of h keeps HookInv when it keeps the run's UID and the hash it started with.
LEMMA HkWrite ==
    ASSUME Hook!HookInv, NEW h \in Hooks, NEW new \in Hook!Runs, run[h] \in Hook!Runs,
           run' = [run EXCEPT ![h] = new],
           job' = job \/ job' = [job EXCEPT ![h] = Hook!NoJob],
           creating' = creating \/ creating' = Hook!Nobody,
           UNCHANGED <<cached, setting, wanted, ver, live, records, step, halt, hclock, uids, passed>>,
           new.uid = run[h].uid, new.jobUID <= uids,
           run[h].hash # 0 => new.hash = run[h].hash,
           job[h].uid # 0 /\ new.jobUID = job[h].uid => new.hash = job[h].ver,
           Hook!Real(h, new.phase, new.hash), Hook!Real(h, new.rec.result, new.rec.hash),
           new.adv => step # "pending", new.phase = "Skipped" => Hook!Over
    PROVE  Hook!HookInv'
<1>0. Hook!Typed /\ Hook!UIDsGiven /\ Hook!HashStays /\ Hook!JobHasSpec /\ Hook!Successes /\ Hook!SkipsLast
  BY DEF Hook!HookInv
<1>1. /\ run'[h] = new /\ \A o \in Hooks \ {h} : run'[o] = run[o]
      /\ job'[h] = job[h] \/ job'[h] = Hook!NoJob
      /\ \A o \in Hooks \ {h} : job'[o] = job[o]
  BY <1>0 DEF Hook!Typed
<1>2. Hook!Exists(new) /\ Hook!Exists(run[h])
  BY HkFacts, Zenon DEF Hook!Exists
<1>3. Hook!NoJob.uid = 0 /\ Hook!NoJob.owner = 0 /\ Hook!NoJob.state = "none" /\ Hook!NoJob \in Hook!Jobs
  BY HkFacts
<1>4. Hook!Typed'
  <2>1. run' \in [Hooks -> Hook!Runs \cup {Hook!Absent}]
    BY <1>0 DEF Hook!Typed
  <2>2. job' \in [Hooks -> Hook!Jobs]
    BY <1>0, <1>3 DEF Hook!Typed
  <2> QED BY <1>0, <2>1, <2>2 DEF Hook!Typed
<1>5. Hook!UIDsGiven'
  <2>1. (creating # Hook!Nobody => creating.uid <= uids)'
    BY <1>0 DEF Hook!UIDsGiven
  <2>2. ASSUME NEW o \in Hooks
        PROVE  /\ run'[o].uid <= uids /\ cached[o].uid <= uids /\ job'[o].uid <= uids /\ job'[o].owner <= uids
               /\ Hook!Exists(run'[o]) => run'[o].jobUID <= uids
    <3>1. /\ run[o].uid <= uids /\ cached[o].uid <= uids /\ job[o].uid <= uids /\ job[o].owner <= uids
          /\ Hook!Exists(run[o]) => run[o].jobUID <= uids
      BY <1>0 DEF Hook!UIDsGiven
    <3>2. uids \in Nat
      BY <1>0 DEF Hook!Typed
    <3>3. CASE o = h
      BY <1>1, <1>3, <3>1, <3>2, <3>3
    <3>4. CASE o # h
      BY <1>1, <3>1, <3>4
    <3> QED BY <3>3, <3>4
  <2> QED BY <2>1, <2>2 DEF Hook!UIDsGiven, Hook!Exists
<1>6. Hook!HashStays'
  <2>1. ASSUME NEW o \in Hooks, Hook!Exists(cached[o]), cached[o].uid = run'[o].uid, cached[o].hash # 0
        PROVE  run'[o].hash = cached[o].hash
    <3>1. cached[o].uid = run[o].uid
      BY <1>1, <2>1
    <3>2. run[o].hash = cached[o].hash
      BY <1>0, <2>1, <3>1 DEF Hook!HashStays
    <3> QED BY <1>1, <2>1, <3>2
  <2> QED BY <2>1 DEF Hook!HashStays, Hook!Exists
<1>7. Hook!JobHasSpec'
  <2>1. ASSUME NEW o \in Hooks, job'[o].uid # 0
        PROVE  /\ job'[o].owner = run'[o].uid => run'[o].hash = job'[o].ver
               /\ Hook!Exists(run'[o]) /\ run'[o].jobUID = job'[o].uid => run'[o].hash = job'[o].ver
               /\ creating' # Hook!Nobody /\ creating'.hook = o /\ creating'.uid = job'[o].uid
                     => creating'.base.hash = job'[o].ver
    <3>1. job'[o] = job[o] /\ job[o].uid # 0
      BY <1>1, <1>3, <2>1
    <3>2. /\ job[o].owner = run[o].uid => run[o].hash = job[o].ver
          /\ Hook!Exists(run[o]) /\ run[o].jobUID = job[o].uid => run[o].hash = job[o].ver
          /\ creating # Hook!Nobody /\ creating.hook = o /\ creating.uid = job[o].uid
                     => creating.base.hash = job[o].ver
      BY <1>0, <3>1 DEF Hook!JobHasSpec
    <3>3. CASE o # h
      BY <1>1, <3>1, <3>2, <3>3
    <3>4. CASE o = h
      <4>1. job[h].ver # 0
        BY <1>0, <3>1, <3>4, HkOne
      <4> QED BY <1>1, <3>1, <3>2, <3>4, <4>1
    <3> QED BY <3>3, <3>4
  <2> QED BY <2>1 DEF Hook!JobHasSpec, Hook!Exists
<1>8. Hook!Successes'
  <2>1. ASSUME NEW o \in Hooks
        PROVE  /\ job'[o].state = "complete" => <<o, job'[o].ver>> \in passed
               /\ Hook!Exists(run'[o]) => /\ Hook!Real(o, run'[o].phase, run'[o].hash)
                                          /\ Hook!Real(o, run'[o].rec.result, run'[o].rec.hash)
               /\ Hook!Real(o, live[o].result, live[o].hash) /\ Hook!Real(o, records[o].result, records[o].hash)
    <3>1. /\ job[o].state = "complete" => <<o, job[o].ver>> \in passed
          /\ Hook!Exists(run[o]) => /\ Hook!Real(o, run[o].phase, run[o].hash)
                                    /\ Hook!Real(o, run[o].rec.result, run[o].rec.hash)
          /\ Hook!Real(o, live[o].result, live[o].hash) /\ Hook!Real(o, records[o].result, records[o].hash)
      BY <1>0 DEF Hook!Successes
    <3>2. CASE o # h
      BY <1>1, <3>1, <3>2
    <3>3. CASE o = h
      BY <1>1, <1>3, <3>1, <3>3
    <3> QED BY <3>2, <3>3
  <2> QED BY <2>1 DEF Hook!Successes, Hook!Exists, Hook!Real
<1>9. Hook!SkipsLast'
  <2>1. ASSUME NEW o \in Hooks
        PROVE  /\ Hook!Exists(run'[o]) => /\ run'[o].adv => step # "pending"
                                          /\ run'[o].phase = "Skipped" => Hook!Over
               /\ live[o].result = "Skipped" => Hook!Over
    <3>1. /\ Hook!Exists(run[o]) => /\ run[o].adv => step # "pending"
                                    /\ run[o].phase = "Skipped" => Hook!Over
          /\ live[o].result = "Skipped" => Hook!Over
      BY <1>0 DEF Hook!SkipsLast
    <3>2. CASE o # h
      BY <1>1, <3>1, <3>2
    <3>3. CASE o = h
      BY <1>1, <3>1, <3>3
    <3> QED BY <3>2, <3>3
  <2> QED BY <2>1 DEF Hook!SkipsLast, Hook!Exists, Hook!Over
<1> QED BY <1>4, <1>5, <1>6, <1>7, <1>8, <1>9 DEF Hook!HookInv

\* The run of h goes.
LEMMA HkGone ==
    ASSUME Hook!HookInv, NEW h \in Hooks, run' = [run EXCEPT ![h] = Hook!Absent],
           UNCHANGED <<job, creating, cached, setting, wanted, ver, live, records, step, halt, hclock, uids, passed>>
    PROVE  Hook!HookInv'
<1>0. Hook!Typed /\ Hook!UIDsGiven /\ Hook!HashStays /\ Hook!JobHasSpec /\ Hook!Successes /\ Hook!SkipsLast
  BY DEF Hook!HookInv
<1>1. run'[h] = Hook!Absent /\ \A o \in Hooks \ {h} : run'[o] = run[o]
  BY <1>0 DEF Hook!Typed
<1>2. Hook!Absent.uid = 0 /\ ~Hook!Exists(run'[h])
  BY <1>1, HkFacts DEF Hook!Exists
<1>4. Hook!Typed'
  <2>1. run' \in [Hooks -> Hook!Runs \cup {Hook!Absent}]
    BY <1>0 DEF Hook!Typed
  <2> QED BY <1>0, <2>1 DEF Hook!Typed
<1>5. Hook!UIDsGiven'
  <2>1. uids \in Nat /\ \A o \in Hooks : run[o].uid <= uids /\ (Hook!Exists(run[o]) => run[o].jobUID <= uids)
    BY <1>0 DEF Hook!Typed, Hook!UIDsGiven
  <2>2. ASSUME NEW o \in Hooks
        PROVE  run'[o].uid <= uids /\ (Hook!Exists(run'[o]) => run'[o].jobUID <= uids)
    BY <1>1, <1>2, <2>1
  <2> QED BY <1>0, <2>2 DEF Hook!UIDsGiven, Hook!Exists
<1>6. Hook!HashStays'
  <2>1. ASSUME NEW o \in Hooks, Hook!Exists(cached[o]), cached[o].uid = run'[o].uid, cached[o].hash # 0
        PROVE  run'[o].hash = cached[o].hash
    <3>1. o # h
      BY <1>0, <1>1, <1>2, <2>1, HkOne, HkFacts
    <3> QED BY <1>0, <1>1, <2>1, <3>1 DEF Hook!HashStays
  <2> QED BY <2>1 DEF Hook!HashStays, Hook!Exists
<1>7. Hook!JobHasSpec'
  <2>1. ASSUME NEW o \in Hooks, job[o].uid # 0
        PROVE  /\ job[o].owner = run'[o].uid => run'[o].hash = job[o].ver
               /\ Hook!Exists(run'[o]) /\ run'[o].jobUID = job[o].uid => run'[o].hash = job[o].ver
               /\ creating # Hook!Nobody /\ creating.hook = o /\ creating.uid = job[o].uid
                     => creating.base.hash = job[o].ver
    <3>2. /\ job[o].owner = run[o].uid => run[o].hash = job[o].ver
          /\ Hook!Exists(run[o]) /\ run[o].jobUID = job[o].uid => run[o].hash = job[o].ver
          /\ creating # Hook!Nobody /\ creating.hook = o /\ creating.uid = job[o].uid
                     => creating.base.hash = job[o].ver
      BY <1>0, <2>1 DEF Hook!JobHasSpec
    <3>3. CASE o # h
      BY <1>1, <3>2, <3>3
    <3>4. CASE o = h
      <4>1. job[h].owner # 0
        BY <1>0, <2>1, <3>4, HkOne
      <4> QED BY <1>1, <1>2, <3>2, <3>4, <4>1
    <3> QED BY <3>3, <3>4
  <2> QED BY <2>1 DEF Hook!JobHasSpec, Hook!Exists
<1>8. Hook!Successes'
  <2>1. ASSUME NEW o \in Hooks, Hook!Exists(run'[o])
        PROVE  Hook!Real(o, run'[o].phase, run'[o].hash) /\ Hook!Real(o, run'[o].rec.result, run'[o].rec.hash)
    <3>1. o # h
      BY <1>2, <2>1
    <3> QED BY <1>0, <1>1, <2>1, <3>1 DEF Hook!Successes
  <2> QED BY <1>0, <2>1 DEF Hook!Successes, Hook!Exists, Hook!Real
<1>9. Hook!SkipsLast'
  <2>1. ASSUME NEW o \in Hooks, Hook!Exists(run'[o])
        PROVE  (run'[o].adv => step # "pending") /\ (run'[o].phase = "Skipped" => Hook!Over)
    <3>1. o # h
      BY <1>2, <2>1
    <3> QED BY <1>0, <1>1, <2>1, <3>1 DEF Hook!SkipsLast
  <2> QED BY <1>0, <2>1 DEF Hook!SkipsLast, Hook!Exists, Hook!Over
<1> QED BY <1>4, <1>5, <1>6, <1>7, <1>8, <1>9 DEF Hook!HookInv

\* Nothing HookInv is about changes, or only goes on as it may: the Job of a hook goes, its UID is
\* not written, the cache catches up, time passes.
LEMMA HkLess ==
    ASSUME Hook!HookInv,
           job' = job \/ \E h \in Hooks : job' = [job EXCEPT ![h] = Hook!NoJob],
           creating' = creating \/ creating' = Hook!Nobody,
           cached' = cached \/ cached' = run,
           hclock' \in Nat,
           UNCHANGED <<run, setting, wanted, ver, live, records, step, halt, uids, passed>>
    PROVE  Hook!HookInv'
<1>0. Hook!Typed /\ Hook!UIDsGiven /\ Hook!HashStays /\ Hook!JobHasSpec /\ Hook!Successes /\ Hook!SkipsLast
  BY DEF Hook!HookInv
<1>1. Hook!NoJob \in Hook!Jobs /\ Hook!NoJob.uid = 0 /\ Hook!NoJob.owner = 0 /\ Hook!NoJob.state = "none"
  BY HkFacts
<1>2. ASSUME NEW o \in Hooks PROVE job'[o] = job[o] \/ job'[o] = Hook!NoJob
  BY <1>0 DEF Hook!Typed
<1>3. ASSUME NEW o \in Hooks PROVE cached'[o] = cached[o] \/ cached'[o] = run[o]
  OBVIOUS
<1>4. Hook!Typed'
  <2>1. job' \in [Hooks -> Hook!Jobs]
    BY <1>0, <1>1 DEF Hook!Typed
  <2>2. cached' \in [Hooks -> Hook!Runs \cup {Hook!Absent}]
    BY <1>0 DEF Hook!Typed
  <2>3. hclock' \in Nat
    OBVIOUS
  <2> QED BY <1>0, <2>1, <2>2, <2>3 DEF Hook!Typed
<1>5. Hook!UIDsGiven'
  <2>1. ASSUME NEW o \in Hooks
        PROVE  cached'[o].uid <= uids /\ job'[o].uid <= uids /\ job'[o].owner <= uids
    <3>1. /\ run[o].uid <= uids /\ cached[o].uid <= uids /\ job[o].uid <= uids /\ job[o].owner <= uids
      BY <1>0 DEF Hook!UIDsGiven
    <3>2. uids \in Nat
      BY <1>0 DEF Hook!Typed
    <3> QED BY <1>1, <1>2, <1>3, <3>1, <3>2
  <2>2. (creating # Hook!Nobody => creating.uid <= uids)'
    BY <1>0 DEF Hook!UIDsGiven
  <2> QED BY <1>0, <2>1, <2>2 DEF Hook!UIDsGiven, Hook!Exists
<1>6. Hook!HashStays'
  <2>1. ASSUME NEW o \in Hooks, Hook!Exists(cached'[o]), cached'[o].uid = run[o].uid, cached'[o].hash # 0
        PROVE  run[o].hash = cached'[o].hash
    BY <1>0, <1>3, <2>1 DEF Hook!HashStays
  <2> QED BY <2>1 DEF Hook!HashStays, Hook!Exists
<1>7. Hook!JobHasSpec'
  <2>1. ASSUME NEW o \in Hooks, job'[o].uid # 0
        PROVE  /\ job'[o].owner = run[o].uid => run[o].hash = job'[o].ver
               /\ Hook!Exists(run[o]) /\ run[o].jobUID = job'[o].uid => run[o].hash = job'[o].ver
               /\ creating' # Hook!Nobody /\ creating'.hook = o /\ creating'.uid = job'[o].uid
                     => creating'.base.hash = job'[o].ver
    <3>1. job'[o] = job[o] /\ job[o].uid # 0
      BY <1>1, <1>2, <2>1
    <3> QED BY <1>0, <3>1 DEF Hook!JobHasSpec
  <2> QED BY <2>1 DEF Hook!JobHasSpec, Hook!Exists
<1>8. Hook!Successes'
  <2>1. ASSUME NEW o \in Hooks, job'[o].state = "complete" PROVE <<o, job'[o].ver>> \in passed
    BY <1>0, <1>1, <1>2, <2>1 DEF Hook!Successes
  <2> QED BY <1>0, <2>1 DEF Hook!Successes, Hook!Exists, Hook!Real
<1>9. Hook!SkipsLast'
  BY <1>0 DEF Hook!SkipsLast, Hook!Exists, Hook!Over
<1> QED BY <1>4, <1>5, <1>6, <1>7, <1>8, <1>9 DEF Hook!HookInv
\* A write locked on the copy w, of a run that has started and keeps its hash, or starts.
LEMMA HkPatch ==
    ASSUME Hook!HookInv, NEW h \in Hooks, NEW w \in Hook!Runs, NEW new \in Hook!Runs, Hook!Patch(h, w, new),
           job' = job \/ job' = [job EXCEPT ![h] = Hook!NoJob],
           creating' = creating \/ creating' = Hook!Nobody,
           UNCHANGED <<cached, setting, wanted, ver, live, records, step, halt, hclock, uids, passed>>,
           new.uid = w.uid, new.jobUID <= uids,
           w.hash # 0 => new.hash = w.hash,
           run[h] = w /\ job[h].uid # 0 /\ new.jobUID = job[h].uid => new.hash = job[h].ver,
           run[h] = w => Hook!Real(h, new.phase, new.hash),
           new.rec = w.rec, new.adv = w.adv,
           run[h] = w => (new.phase = "Skipped" => Hook!Over)
    PROVE  Hook!HookInv'
<1>0. hclock \in Nat
  BY DEF Hook!HookInv, Hook!Typed
<1>1. CASE run[h] # w
  <2>1. run' = run
    BY <1>1 DEF Hook!Patch
  <2> QED BY <1>0, <2>1, HkLess
<1>2. CASE run[h] = w
  <2>1. run' = [run EXCEPT ![h] = new]
    BY <1>2 DEF Hook!Patch
  <2>2. Hook!Exists(run[h])
    BY <1>2, HkFacts, Zenon DEF Hook!Exists
  <2>3. Hook!Real(h, new.rec.result, new.rec.hash)
    BY <1>2, <2>2 DEF Hook!HookInv, Hook!Successes
  <2>4. new.adv => step # "pending"
    BY <1>2, <2>2 DEF Hook!HookInv, Hook!SkipsLast
  <2>5. /\ run[h] \in Hook!Runs /\ new.uid = run[h].uid
        /\ run[h].hash # 0 => new.hash = run[h].hash
        /\ job[h].uid # 0 /\ new.jobUID = job[h].uid => new.hash = job[h].ver
        /\ Hook!Real(h, new.phase, new.hash)
        /\ new.phase = "Skipped" => Hook!Over
    BY <1>2
  <2> QED BY <2>1, <2>3, <2>4, <2>5, HkWrite
<1> QED BY <1>1, <1>2

\* What is known of the copy w when a write is not a conflict.
LEMMA HkCopy ==
    ASSUME Hook!HookInv, NEW h \in Hooks, NEW w \in Hook!Runs, run[h] = w
    PROVE  /\ w.jobUID <= uids /\ w.jobUID \in Nat /\ uids \in Nat
           /\ job[h].uid # 0 /\ w.jobUID = job[h].uid => w.hash = job[h].ver /\ w.hash # 0
           /\ job[h].uid # 0 /\ job[h].owner = w.uid => w.hash = job[h].ver /\ w.hash # 0
           /\ job[h].state = "complete" => <<h, job[h].ver>> \in passed
           /\ Hook!Real(h, w.phase, w.hash) /\ Hook!Real(h, w.rec.result, w.rec.hash)
           /\ w.phase = "Skipped" => Hook!Over
           /\ w.adv => step # "pending"
<1>0. Hook!Exists(run[h]) /\ Hook!Typed
  BY HkFacts DEF Hook!Exists, Hook!HookInv
<1>1. w.jobUID <= uids /\ w.jobUID \in Nat /\ uids \in Nat
  BY <1>0, HkFacts DEF Hook!HookInv, Hook!UIDsGiven, Hook!Typed
<1>2. /\ job[h].uid # 0 /\ w.jobUID = job[h].uid => w.hash = job[h].ver /\ w.hash # 0
      /\ job[h].uid # 0 /\ job[h].owner = w.uid => w.hash = job[h].ver /\ w.hash # 0
  BY <1>0, HkOne DEF Hook!HookInv, Hook!JobHasSpec
<1>3. /\ job[h].state = "complete" => <<h, job[h].ver>> \in passed
      /\ Hook!Real(h, w.phase, w.hash) /\ Hook!Real(h, w.rec.result, w.rec.hash)
  BY <1>0 DEF Hook!HookInv, Hook!Successes
<1>4. (w.phase = "Skipped" => Hook!Over) /\ (w.adv => step # "pending")
  BY <1>0 DEF Hook!HookInv, Hook!SkipsLast
<1> QED BY <1>1, <1>2, <1>3, <1>4

\* A write that only ends the run, or only changes what HookInv does not speak of: the finalizer,
\* the condition, a deletion, the phase of a run that waits or runs.
LEMMA HkEnds ==
    ASSUME Hook!HookInv, NEW h \in Hooks, NEW w \in Hook!Runs, NEW new \in Hook!Runs, Hook!Patch(h, w, new),
           job' = job \/ job' = [job EXCEPT ![h] = Hook!NoJob],
           UNCHANGED <<creating, cached, setting, wanted, ver, live, records, step, halt, hclock, uids, passed>>,
           new.uid = w.uid, new.jobUID = w.jobUID, new.hash = w.hash,
           new.rec = w.rec, new.adv = w.adv,
           \/ new.phase \in {"Pending", "Running", "Failed", w.phase}
           \/ new.phase = "Skipped" /\ Hook!Over
           \/ /\ new.phase = "Succeeded" /\ job[h].state = "complete"
              /\ w.jobUID = job[h].uid /\ w.jobUID # 0
    PROVE  Hook!HookInv'
<1>0. CASE run[h] # w
  <2>1. run' = run /\ hclock \in Nat
    BY <1>0 DEF Hook!Patch, Hook!HookInv, Hook!Typed
  <2> QED BY <2>1, HkLess
<1>1. CASE run[h] = w
  <2>1. /\ w.jobUID <= uids
        /\ job[h].uid # 0 /\ w.jobUID = job[h].uid => w.hash = job[h].ver
        /\ job[h].state = "complete" => <<h, job[h].ver>> \in passed
        /\ Hook!Real(h, w.phase, w.hash)
        /\ w.phase = "Skipped" => Hook!Over
    BY <1>1, HkCopy
  <2>2. Hook!Real(h, new.phase, new.hash)
    BY <2>1 DEF Hook!Real
  <2>3. new.phase = "Skipped" => Hook!Over
    BY <2>1
  <2>4. /\ new.jobUID <= uids
        /\ w.hash # 0 => new.hash = w.hash
        /\ run[h] = w /\ job[h].uid # 0 /\ new.jobUID = job[h].uid => new.hash = job[h].ver
        /\ run[h] = w => Hook!Real(h, new.phase, new.hash)
        /\ run[h] = w => (new.phase = "Skipped" => Hook!Over)
    BY <2>1, <2>2, <2>3
  <2>5. creating' = creating \/ creating' = Hook!Nobody
    OBVIOUS
  <2> QED BY <2>4, <2>5, HkPatch
<1> QED BY <1>0, <1>1
-----------------------------------------------------------------------------
(* HookRun: the reconciler's steps. *)

LEMMA HkReads ==
    ASSUME Hook!HookInv, NEW h \in Hooks, Hook!Reads(h)
    PROVE  Hook!Seen(h) \in Hook!Runs /\ hclock \in Nat /\ uids \in Nat /\ Hook!Typed
BY HkOne DEF Hook!Reads, Hook!HookInv, Hook!Typed

\* start takes a record, skips or fails the hook, or makes it wait.
LEMMA HkStartEnds ==
    ASSUME Hook!HookInv, NEW h \in Hooks, Hook!StartEnds(h)
    PROVE  Hook!HookInv'
<1> DEFINE r == Hook!Seen(h)
           begun == [r EXCEPT !.hash = r.ver]
<1>1. /\ Hook!Advances(h) /\ r.hash = 0 /\ ~Hook!terminal(r)
      /\ \/ /\ r.rec.result # "none" /\ r.rec.hash = r.ver
            /\ Hook!Patch(h, r, Hook!finish(begun, IF r.rec.result \in Hook!Final THEN r.rec.result ELSE "Failed"))
         \/ r.adv /\ Hook!Patch(h, r, Hook!finish(begun, "Skipped"))
         \/ Hook!Patch(h, r, Hook!finish(begun, "Failed"))
         \/ halt = "skip" /\ Hook!Patch(h, r, Hook!finish(begun, "Skipped"))
         \/ Hook!Patch(h, r, [r EXCEPT !.phase = "Pending"])
      /\ UNCHANGED <<cached, job, creating, Hook!store, Hook!counts, Hook!ghosts>>
  BY Zenon DEF Hook!StartEnds
<1>2. r \in Hook!Runs /\ hclock \in Nat
  BY <1>1, HkReads DEF Hook!Advances
<1> HIDE DEF r
<1>3. /\ begun \in Hook!Runs /\ begun.uid = r.uid /\ begun.hash = r.ver /\ begun.jobUID = r.jobUID
      /\ begun.rec = r.rec /\ begun.adv = r.adv /\ begun.phase = r.phase
  BY <1>2 DEF Hook!Runs
<1>4. ~Hook!terminal(begun)
  BY <1>1, <1>3 DEF Hook!terminal
<1> HIDE DEF begun
<1>5. /\ UNCHANGED <<creating, cached, setting, wanted, ver, live, records, step, halt, hclock, uids, passed>>
      /\ job' = job
  BY <1>1 DEF Hook!store, Hook!counts, Hook!ghosts
<1>6. ASSUME NEW ph \in Hook!Phases, Hook!Patch(h, r, Hook!finish(begun, ph)),
             run[h] = r => Hook!Real(h, ph, r.ver), run[h] = r => (ph = "Skipped" => Hook!Over)
      PROVE  Hook!HookInv'
  <2> DEFINE new == Hook!finish(begun, ph)
  <2>1. /\ new \in Hook!Runs /\ new.uid = r.uid /\ new.hash = r.ver /\ new.jobUID = r.jobUID
        /\ new.rec = r.rec /\ new.adv = r.adv /\ new.phase = ph
    BY <1>2, <1>3, <1>4, HkFinish
  <2> HIDE DEF new
  <2>2. CASE run[h] # r
    <3>1. run' = run
      BY <1>6, <2>2 DEF Hook!Patch
    <3> QED BY <1>2, <1>5, <3>1, HkLess
  <2>3. CASE run[h] = r
    <3>1. /\ r.jobUID <= uids
          /\ job[h].uid # 0 /\ r.jobUID = job[h].uid => r.hash # 0
      BY <1>2, <2>3, HkCopy
    <3>2. /\ new.jobUID <= uids
          /\ r.hash # 0 => new.hash = r.hash
          /\ run[h] = r /\ job[h].uid # 0 /\ new.jobUID = job[h].uid => new.hash = job[h].ver
          /\ run[h] = r => Hook!Real(h, new.phase, new.hash)
          /\ run[h] = r => (new.phase = "Skipped" => Hook!Over)
      BY <1>1, <1>6, <2>1, <2>3, <3>1
    <3>3. Hook!Patch(h, r, new)
      BY <1>6 DEF new
    <3> QED BY <1>2, <1>5, <2>1, <3>2, <3>3, HkPatch
  <2> QED BY <2>2, <2>3
<1>7. run[h] = r => Hook!Real(h, r.rec.result, r.rec.hash) /\ (r.adv => step # "pending")
  BY <1>2, HkCopy
<1>8. CASE /\ r.rec.result # "none" /\ r.rec.hash = r.ver
           /\ Hook!Patch(h, r, Hook!finish(begun, IF r.rec.result \in Hook!Final THEN r.rec.result ELSE "Failed"))
  <2> DEFINE ph == IF r.rec.result \in Hook!Final THEN r.rec.result ELSE "Failed"
  <2>1. ph \in Hook!Phases /\ ph # "Skipped"
    BY DEF Hook!Phases, Hook!Final
  <2>2. run[h] = r => Hook!Real(h, ph, r.ver)
    BY <1>7, <1>8 DEF Hook!Real
  <2>3. Hook!Patch(h, r, Hook!finish(begun, ph))
    BY <1>8
  <2> HIDE DEF ph
  <2> QED BY <1>6, <2>1, <2>2, <2>3
<1>9. CASE (r.adv \/ halt = "skip") /\ Hook!Patch(h, r, Hook!finish(begun, "Skipped"))
  <2>1. "Skipped" \in Hook!Phases /\ Hook!Real(h, "Skipped", r.ver)
    BY DEF Hook!Phases, Hook!Real
  <2>2. run[h] = r => Hook!Over
    BY <1>7, <1>9 DEF Hook!Over
  <2> QED BY <1>6, <1>9, <2>1, <2>2
<1>10. CASE Hook!Patch(h, r, Hook!finish(begun, "Failed"))
  <2>1. "Failed" \in Hook!Phases /\ Hook!Real(h, "Failed", r.ver) /\ "Failed" # "Skipped"
    BY DEF Hook!Phases, Hook!Final, Hook!Real
  <2> QED BY <1>6, <1>10, <2>1
<1>11. CASE Hook!Patch(h, r, [r EXCEPT !.phase = "Pending"])
  <2> DEFINE new == [r EXCEPT !.phase = "Pending"]
  <2>1. /\ new \in Hook!Runs /\ new.uid = r.uid /\ new.jobUID = r.jobUID /\ new.hash = r.hash
        /\ new.rec = r.rec /\ new.adv = r.adv /\ new.phase = "Pending"
    BY <1>2 DEF Hook!Runs, Hook!Phases
  <2>2. Hook!Patch(h, r, new)
    BY <1>11
  <2> HIDE DEF new
  <2> QED BY <1>2, <1>5, <2>1, <2>2, HkEnds
<1> QED BY <1>1, <1>8, <1>9, <1>10, <1>11

\* start begins the run.
LEMMA HkStart ==
    ASSUME Hook!HookInv, NEW h \in Hooks, Hook!Start(h)
    PROVE  Hook!HookInv'
<1> DEFINE r == Hook!Seen(h)
           new == [r EXCEPT !.fin = TRUE, !.hash = r.ver, !.phase = "Pending", !.deadline = hclock + HookTimeout]
<1>1. /\ Hook!Advances(h) /\ r.hash = 0
      /\ Hook!Patch(h, r, new)
      /\ UNCHANGED <<cached, job, creating, Hook!store, Hook!counts, Hook!ghosts>>
  BY Zenon DEF Hook!Start, Hook!MayStart
<1>2. r \in Hook!Runs /\ hclock \in Nat
  BY <1>1, HkReads DEF Hook!Advances
<1> HIDE DEF r
<1>3. hclock + HookTimeout \in Hook!Times
  BY <1>2, PartsAssumption DEF Hook!ConstantsOK, Hook!Times
<1>4. /\ new \in Hook!Runs /\ new.uid = r.uid /\ new.hash = r.ver /\ new.jobUID = r.jobUID
      /\ new.rec = r.rec /\ new.adv = r.adv /\ new.phase = "Pending"
  BY <1>2, <1>3 DEF Hook!Runs, Hook!Phases
<1> HIDE DEF new
<1>5. /\ UNCHANGED <<creating, cached, setting, wanted, ver, live, records, step, halt, hclock, uids, passed>>
      /\ job' = job
  BY <1>1 DEF Hook!store, Hook!counts, Hook!ghosts
<1>6. CASE run[h] # r
  <2>1. run' = run
    BY <1>1, <1>6 DEF Hook!Patch
  <2> QED BY <1>2, <1>5, <2>1, HkLess
<1>7. CASE run[h] = r
  <2>1. /\ r.jobUID <= uids
        /\ job[h].uid # 0 /\ r.jobUID = job[h].uid => r.hash # 0
    BY <1>2, <1>7, HkCopy
  <2>2. Hook!Real(h, "Pending", new.hash)
    BY DEF Hook!Real
  <2>3. /\ new.jobUID <= uids
        /\ r.hash # 0 => new.hash = r.hash
        /\ run[h] = r /\ job[h].uid # 0 /\ new.jobUID = job[h].uid => new.hash = job[h].ver
        /\ run[h] = r => Hook!Real(h, new.phase, new.hash)
        /\ run[h] = r => (new.phase = "Skipped" => Hook!Over)
    BY <1>1, <1>4, <2>1, <2>2
  <2> QED BY <1>1, <1>2, <1>4, <1>5, <2>3, HkPatch
<1> QED BY <1>6, <1>7

LEMMA HkStartInterrupted ==
    ASSUME Hook!HookInv, NEW h \in Hooks, Hook!StartInterrupted(h)
    PROVE  Hook!HookInv'
<1> DEFINE r == Hook!Seen(h)
           new == [r EXCEPT !.fin = TRUE]
<1>1. /\ Hook!Advances(h) /\ Hook!Patch(h, r, new)
      /\ UNCHANGED <<cached, job, creating, Hook!store, hclock, uids, deletes, kills, Hook!ghosts>>
  BY Zenon DEF Hook!StartInterrupted, Hook!MayStart
<1>2. r \in Hook!Runs
  BY <1>1, HkReads DEF Hook!Advances
<1> HIDE DEF r
<1>4. /\ new \in Hook!Runs /\ new.uid = r.uid /\ new.hash = r.hash /\ new.jobUID = r.jobUID
      /\ new.rec = r.rec /\ new.adv = r.adv /\ new.phase = r.phase
  BY <1>2 DEF Hook!Runs
<1> HIDE DEF new
<1>5. /\ UNCHANGED <<creating, cached, setting, wanted, ver, live, records, step, halt, hclock, uids, passed>>
      /\ job' = job
  BY <1>1 DEF Hook!store, Hook!ghosts
<1> QED BY <1>1, <1>2, <1>4, <1>5, HkEnds

\* createJob ends the run instead.
LEMMA HkCreateJobEnds ==
    ASSUME Hook!HookInv, NEW h \in Hooks, Hook!CreateJobEnds(h)
    PROVE  Hook!HookInv'
<1> DEFINE c == Hook!Seen(h)
           r == Hook!markSpecChange(c)
<1>1. /\ Hook!Advances(h) /\ ~Hook!terminal(c)
      /\ \/ Hook!Patch(h, c, Hook!finish(r, "Failed"))
         \/ halt = "skip" /\ Hook!Patch(h, c, Hook!finish(r, "Skipped"))
      /\ UNCHANGED <<cached, job, creating, Hook!store, Hook!counts, Hook!ghosts>>
  BY Zenon DEF Hook!CreateJobEnds, Hook!NoJobYet
<1>2. c \in Hook!Runs /\ hclock \in Nat
  BY <1>1, HkReads DEF Hook!Advances
<1> HIDE DEF c
<1>3. /\ r \in Hook!Runs /\ r.uid = c.uid /\ r.hash = c.hash /\ r.jobUID = c.jobUID
      /\ r.rec = c.rec /\ r.adv = c.adv /\ ~Hook!terminal(r)
  BY <1>1, <1>2, HkMark
<1> HIDE DEF r
<1>5. /\ UNCHANGED <<creating, cached, setting, wanted, ver, live, records, step, halt, hclock, uids, passed>>
      /\ job' = job
  BY <1>1 DEF Hook!store, Hook!counts, Hook!ghosts
<1>6. ASSUME NEW ph \in Hook!Phases, Hook!Patch(h, c, Hook!finish(r, ph)), ph = "Failed" \/ (ph = "Skipped" /\ Hook!Over)
      PROVE  Hook!HookInv'
  <2> DEFINE new == Hook!finish(r, ph)
  <2>1. /\ new \in Hook!Runs /\ new.uid = c.uid /\ new.hash = c.hash /\ new.jobUID = c.jobUID
        /\ new.rec = c.rec /\ new.adv = c.adv /\ new.phase = ph
    BY <1>2, <1>3, HkFinish
  <2>2. Hook!Patch(h, c, new)
    BY <1>6
  <2> HIDE DEF new
  <2>3. new.phase \in {"Pending", "Running", "Failed", c.phase} \/ (new.phase = "Skipped" /\ Hook!Over)
    BY <1>6, <2>1
  <2> QED BY <1>2, <1>5, <2>1, <2>2, <2>3, HkEnds
<1>7. "Failed" \in Hook!Phases /\ "Skipped" \in Hook!Phases
  BY DEF Hook!Phases, Hook!Final
<1>8. halt = "skip" => Hook!Over
  BY DEF Hook!Over
<1> QED BY <1>1, <1>6, <1>7, <1>8
\* createJob creates a Job with the spec of the copy it read, which is the run's own if the run is
\* still the one it read.
LEMMA HkCreateJob ==
    ASSUME Hook!HookInv, NEW h \in Hooks, Hook!CreateJob(h)
    PROVE  Hook!HookInv'
<1> DEFINE c == Hook!Seen(h)
           r == Hook!markSpecChange(c)
           j == [uid |-> uids + 1, owner |-> r.uid, state |-> "running", ver |-> r.ver, deadline |-> r.deadline]
           k == [hook |-> h, base |-> c, uid |-> uids + 1]
<1>0. Hook!Typed /\ Hook!UIDsGiven /\ Hook!HashStays /\ Hook!JobHasSpec /\ Hook!Successes /\ Hook!SkipsLast
  BY DEF Hook!HookInv
<1>1. /\ Hook!Advances(h) /\ c.hash # 0 /\ ~r.changed
      /\ uids' = uids + 1 /\ job' = [job EXCEPT ![h] = j] /\ creating' = k
      /\ UNCHANGED <<run, cached, Hook!store, hclock, deletes, crashes, kills, passed, cutOff>>
  BY Zenon DEF Hook!CreateJob, Hook!NoJobYet
<1>2. c \in Hook!Runs /\ hclock \in Nat /\ uids \in Nat /\ creating = Hook!Nobody
  BY <1>1, HkReads DEF Hook!Advances, Hook!Reads
<1>3. cached[h] = c \/ run[h] = c
  BY DEF Hook!Seen
<1> HIDE DEF c
<1>4. r.uid = c.uid /\ r.ver = c.ver /\ r.deadline = c.deadline /\ c.hash = c.ver
  BY <1>1, <1>2, HkMark
<1> HIDE DEF r
<1>5. /\ c.uid \in Nat /\ c.uid # 0 /\ c.ver \in Vers /\ c.deadline \in Hook!Times
      /\ 0 \notin Vers /\ Hook!Exists(c) /\ c.uid <= uids
  <2>1. c.uid <= uids
    BY <1>0, <1>3 DEF Hook!UIDsGiven
  <2> QED BY <1>2, <2>1, HkFacts DEF Hook!Exists
<1>6. j \in Hook!Jobs /\ j.uid = uids + 1 /\ j.owner = c.uid /\ j.ver = c.ver /\ j.state = "running"
  BY <1>2, <1>4, <1>5 DEF Hook!Jobs
<1>7. /\ k \in [hook : Hooks, base : Hook!Runs, uid : Nat \ {0}]
      /\ k.hook = h /\ k.base = c /\ k.uid = uids + 1
  BY <1>2
<1> HIDE DEF j, k
<1>8. job'[h] = j /\ \A o \in Hooks \ {h} : job'[o] = job[o]
  BY <1>0, <1>1 DEF Hook!Typed
<1>9. UNCHANGED <<run, cached, setting, wanted, ver, live, records, step, halt, hclock, passed>>
  BY <1>1 DEF Hook!store
<1>10. Hook!Typed'
  <2>1. job' \in [Hooks -> Hook!Jobs] /\ uids' \in Nat /\ creating' \in [hook : Hooks, base : Hook!Runs, uid : Nat \ {0}]
    BY <1>0, <1>1, <1>2, <1>6, <1>7 DEF Hook!Typed
  <2> QED BY <1>0, <1>9, <2>1 DEF Hook!Typed
<1>11. Hook!UIDsGiven'
  <2>1. creating'.uid <= uids'
    BY <1>1, <1>2, <1>7
  <2>2. ASSUME NEW o \in Hooks
        PROVE  /\ run[o].uid <= uids' /\ cached[o].uid <= uids' /\ job'[o].uid <= uids' /\ job'[o].owner <= uids'
               /\ Hook!Exists(run[o]) => run[o].jobUID <= uids'
    <3>1. /\ run[o].uid <= uids /\ cached[o].uid <= uids /\ job[o].uid <= uids /\ job[o].owner <= uids
          /\ Hook!Exists(run[o]) => run[o].jobUID <= uids
      BY <1>0 DEF Hook!UIDsGiven
    <3>2. /\ run[o].uid \in Nat /\ cached[o].uid \in Nat /\ job[o].uid \in Nat /\ job[o].owner \in Nat
          /\ Hook!Exists(run[o]) => run[o].jobUID \in Nat
      BY <1>0, HkOne, HkFacts
    <3>3. run[o].uid <= uids' /\ cached[o].uid <= uids' /\ (Hook!Exists(run[o]) => run[o].jobUID <= uids')
      BY <1>1, <1>2, <3>1, <3>2
    <3>4. job'[o].uid <= uids' /\ job'[o].owner <= uids'
      BY <1>1, <1>2, <1>5, <1>6, <1>8, <3>1, <3>2
    <3> QED BY <3>3, <3>4
  <2> QED BY <1>9, <2>1, <2>2 DEF Hook!UIDsGiven, Hook!Exists
<1>12. Hook!HashStays'
  BY <1>0, <1>9 DEF Hook!HashStays, Hook!Exists
<1>13. Hook!JobHasSpec'
  <2>1. ASSUME NEW o \in Hooks, job'[o].uid # 0
        PROVE  /\ job'[o].owner = run[o].uid => run[o].hash = job'[o].ver
               /\ Hook!Exists(run[o]) /\ run[o].jobUID = job'[o].uid => run[o].hash = job'[o].ver
               /\ creating' # Hook!Nobody /\ creating'.hook = o /\ creating'.uid = job'[o].uid
                     => creating'.base.hash = job'[o].ver
    <3>1. CASE o # h
      <4>1. creating'.hook # o /\ job'[o] = job[o]
        BY <1>1, <1>7, <1>8, <3>1
      <4> QED BY <1>0, <2>1, <4>1 DEF Hook!JobHasSpec
    <3>2. CASE o = h
      <4>1. c.uid = run[h].uid => run[h].hash = c.hash
        BY <1>0, <1>1, <1>3, <1>5 DEF Hook!HashStays
      <4>2. Hook!Exists(run[h]) => run[h].jobUID <= uids /\ run[h].jobUID \in Nat
        BY <1>0, HkOne, HkFacts DEF Hook!UIDsGiven
      <4>3. Hook!Exists(run[h]) => run[h].jobUID # uids + 1
        BY <1>2, <4>2
      <4>4. creating'.base.hash = c.hash
        BY <1>1, <1>7
      <4> QED BY <1>4, <1>5, <1>6, <1>8, <3>2, <4>1, <4>3, <4>4
    <3> QED BY <3>1, <3>2
  <2> QED BY <1>9, <2>1 DEF Hook!JobHasSpec, Hook!Exists
<1>14. Hook!Successes'
  <2>1. ASSUME NEW o \in Hooks, job'[o].state = "complete" PROVE <<o, job'[o].ver>> \in passed
    BY <1>0, <1>6, <1>8, <2>1 DEF Hook!Successes
  <2> QED BY <1>0, <1>9, <2>1 DEF Hook!Successes, Hook!Exists, Hook!Real
<1>15. Hook!SkipsLast'
  BY <1>0, <1>9 DEF Hook!SkipsLast, Hook!Exists, Hook!Over
<1> QED BY <1>10, <1>11, <1>12, <1>13, <1>14, <1>15 DEF Hook!HookInv

\* createJob writes the UID.
LEMMA HkRecordJob ==
    ASSUME Hook!HookInv, Hook!RecordJob
    PROVE  Hook!HookInv'
<1> DEFINE h == creating.hook
           w == creating.base
           new == [w EXCEPT !.jobUID = creating.uid, !.phase = "Running"]
<1>1. /\ creating # Hook!Nobody /\ Hook!Patch(h, w, new) /\ creating' = Hook!Nobody
      /\ UNCHANGED <<cached, job, Hook!store, Hook!counts, Hook!ghosts>>
  BY Zenon DEF Hook!RecordJob
<1>2. /\ creating \in [hook : Hooks, base : Hook!Runs, uid : Nat \ {0}] /\ creating.uid <= uids
  BY <1>1 DEF Hook!HookInv, Hook!Typed, Hook!UIDsGiven
<1>3. h \in Hooks /\ w \in Hook!Runs /\ creating.uid \in Nat
  BY <1>2
<1>4. job[h].uid # 0 /\ creating.uid = job[h].uid => w.hash = job[h].ver
  BY <1>1, <1>3 DEF Hook!HookInv, Hook!JobHasSpec
<1> HIDE DEF h, w
<1>5. /\ new \in Hook!Runs /\ new.uid = w.uid /\ new.hash = w.hash /\ new.jobUID = creating.uid
      /\ new.rec = w.rec /\ new.adv = w.adv /\ new.phase = "Running"
  BY <1>3 DEF Hook!Runs, Hook!Phases
<1> HIDE DEF new
<1>6. /\ UNCHANGED <<cached, setting, wanted, ver, live, records, step, halt, hclock, uids, passed>>
      /\ job' = job
  BY <1>1 DEF Hook!store, Hook!counts, Hook!ghosts
<1>7. Hook!Real(h, "Running", new.hash)
  BY DEF Hook!Real
<1>8. /\ new.jobUID <= uids
      /\ w.hash # 0 => new.hash = w.hash
      /\ run[h] = w /\ job[h].uid # 0 /\ new.jobUID = job[h].uid => new.hash = job[h].ver
      /\ run[h] = w => Hook!Real(h, new.phase, new.hash)
      /\ run[h] = w => (new.phase = "Skipped" => Hook!Over)
  BY <1>2, <1>4, <1>5, <1>7
<1> QED BY <1>1, <1>3, <1>5, <1>6, <1>8, HkPatch

\* A Job is adopted by the run that owns it.
LEMMA HkAdoptOrFail ==
    ASSUME Hook!HookInv, NEW h \in Hooks, Hook!AdoptOrFail(h)
    PROVE  Hook!HookInv'
<1> DEFINE c == Hook!Seen(h)
           r == Hook!markSpecChange(c)
           own == [r EXCEPT !.jobUID = job[h].uid, !.phase = "Running"]
<1>1. /\ Hook!Advances(h) /\ ~Hook!terminal(c)
      /\ \/ job[h] # Hook!NoJob /\ job[h].owner = c.uid /\ Hook!Patch(h, c, own)
         \/ Hook!Patch(h, c, Hook!finish(r, "Failed"))
      /\ UNCHANGED <<cached, job, creating, Hook!store, Hook!counts, Hook!ghosts>>
  BY Zenon DEF Hook!AdoptOrFail
<1>2. c \in Hook!Runs /\ hclock \in Nat /\ uids \in Nat /\ Hook!Typed
  BY <1>1, HkReads DEF Hook!Advances
<1> HIDE DEF c
<1>3. /\ r \in Hook!Runs /\ r.uid = c.uid /\ r.hash = c.hash /\ r.jobUID = c.jobUID
      /\ r.rec = c.rec /\ r.adv = c.adv /\ ~Hook!terminal(r)
  BY <1>1, <1>2, HkMark
<1> HIDE DEF r
<1>5. /\ UNCHANGED <<creating, cached, setting, wanted, ver, live, records, step, halt, hclock, uids, passed>>
      /\ job' = job
  BY <1>1 DEF Hook!store, Hook!counts, Hook!ghosts
<1>6. CASE Hook!Patch(h, c, Hook!finish(r, "Failed"))
  <2> DEFINE new == Hook!finish(r, "Failed")
  <2>1. "Failed" \in Hook!Phases
    BY DEF Hook!Phases, Hook!Final
  <2>2. /\ new \in Hook!Runs /\ new.uid = c.uid /\ new.hash = c.hash /\ new.jobUID = c.jobUID
        /\ new.rec = c.rec /\ new.adv = c.adv /\ new.phase = "Failed"
    BY <1>2, <1>3, <2>1, HkFinish
  <2>3. Hook!Patch(h, c, new)
    BY <1>6
  <2> HIDE DEF new
  <2> QED BY <1>2, <1>5, <2>2, <2>3, HkEnds
<1>7. CASE job[h] # Hook!NoJob /\ job[h].owner = c.uid /\ Hook!Patch(h, c, own)
  <2>1. job[h].uid \in Nat /\ job[h].uid <= uids
    BY <1>2, HkOne DEF Hook!HookInv, Hook!UIDsGiven
  <2>2. /\ own \in Hook!Runs /\ own.uid = c.uid /\ own.hash = c.hash /\ own.jobUID = job[h].uid
        /\ own.rec = c.rec /\ own.adv = c.adv /\ own.phase = "Running"
    BY <1>3, <2>1 DEF Hook!Runs, Hook!Phases
  <2> HIDE DEF own
  <2>3. Hook!Real(h, "Running", own.hash)
    BY DEF Hook!Real
  <2>4. run[h] = c /\ job[h].uid # 0 => c.hash = job[h].ver
    BY <1>2, <1>7, HkCopy
  <2>5. /\ own.jobUID <= uids
        /\ c.hash # 0 => own.hash = c.hash
        /\ run[h] = c /\ job[h].uid # 0 /\ own.jobUID = job[h].uid => own.hash = job[h].ver
        /\ run[h] = c => Hook!Real(h, own.phase, own.hash)
        /\ run[h] = c => (own.phase = "Skipped" => Hook!Over)
    BY <2>1, <2>2, <2>3, <2>4
  <2> QED BY <1>2, <1>5, <1>7, <2>2, <2>5, HkPatch
<1> QED BY <1>1, <1>6, <1>7
\* The result of a Job that ended is written by the run that names it.
LEMMA HkOutcome ==
    ASSUME Hook!HookInv, NEW h \in Hooks, NEW c \in Hook!Runs, NEW r \in Hook!Runs, hclock \in Nat,
           ~Hook!terminal(r), r.uid = c.uid, r.hash = c.hash, r.jobUID = c.jobUID, r.rec = c.rec, r.adv = c.adv,
           c.jobUID # 0, job[h].uid = c.jobUID,
           Hook!Patch(h, c, Hook!Outcome(r, job[h])),
           UNCHANGED <<job, creating, cached, setting, wanted, ver, live, records, step, halt, hclock, uids, passed>>
    PROVE  Hook!HookInv'
<1> DEFINE ph == IF job[h].state = "complete" THEN "Succeeded" ELSE "Failed"
           new == Hook!finish(r, ph)
<1>1. ph \in Hook!Phases /\ (ph = "Failed" \/ (ph = "Succeeded" /\ job[h].state = "complete"))
  BY DEF Hook!Phases, Hook!Final
<1>2. Hook!Patch(h, c, new)
  BY DEF Hook!Outcome
<1> HIDE DEF ph
<1>3. /\ new \in Hook!Runs /\ new.uid = c.uid /\ new.hash = c.hash /\ new.jobUID = c.jobUID
      /\ new.rec = c.rec /\ new.adv = c.adv /\ new.phase = ph
  BY <1>1, HkFinish
<1> HIDE DEF new
<1>4. \/ new.phase \in {"Pending", "Running", "Failed", c.phase}
      \/ /\ new.phase = "Succeeded" /\ job[h].state = "complete"
         /\ c.jobUID = job[h].uid /\ c.jobUID # 0
  BY <1>1, <1>3
<1> QED BY <1>2, <1>3, <1>4, HkEnds

LEMMA HkObserveEnd ==
    ASSUME Hook!HookInv, NEW h \in Hooks, Hook!ObserveEnd(h)
    PROVE  Hook!HookInv'
<1> DEFINE c == Hook!Seen(h)
           r == Hook!markSpecChange(c)
<1>1. /\ Hook!Advances(h) /\ ~Hook!terminal(c) /\ c.jobUID # 0 /\ job[h].uid = c.jobUID
      /\ Hook!Patch(h, c, Hook!Outcome(r, job[h]))
      /\ UNCHANGED <<cached, job, creating, Hook!store, Hook!counts, Hook!ghosts>>
  BY Zenon DEF Hook!ObserveEnd
<1>2. c \in Hook!Runs /\ hclock \in Nat
  BY <1>1, HkReads DEF Hook!Advances
<1> HIDE DEF c
<1>3. /\ r \in Hook!Runs /\ r.uid = c.uid /\ r.hash = c.hash /\ r.jobUID = c.jobUID
      /\ r.rec = c.rec /\ r.adv = c.adv /\ ~Hook!terminal(r)
  BY <1>1, <1>2, HkMark
<1> HIDE DEF r
<1>4. UNCHANGED <<job, creating, cached, setting, wanted, ver, live, records, step, halt, hclock, uids, passed>>
  BY <1>1 DEF Hook!store, Hook!counts, Hook!ghosts
<1> QED BY <1>1, <1>2, <1>3, <1>4, HkOutcome

LEMMA HkObserveTimeout ==
    ASSUME Hook!HookInv, NEW h \in Hooks, Hook!ObserveTimeout(h)
    PROVE  Hook!HookInv'
<1> DEFINE c == Hook!Seen(h)
           r == Hook!markSpecChange(c)
           new == Hook!finish(r, "Failed")
<1>1. /\ Hook!Advances(h) /\ ~Hook!terminal(c) /\ job' = [job EXCEPT ![h] = Hook!NoJob] /\ Hook!Patch(h, c, new)
      /\ UNCHANGED <<cached, creating, Hook!store, Hook!counts, Hook!ghosts>>
  BY Zenon DEF Hook!ObserveTimeout
<1>2. c \in Hook!Runs /\ hclock \in Nat
  BY <1>1, HkReads DEF Hook!Advances
<1> HIDE DEF c
<1>3. /\ r \in Hook!Runs /\ r.uid = c.uid /\ r.hash = c.hash /\ r.jobUID = c.jobUID
      /\ r.rec = c.rec /\ r.adv = c.adv /\ ~Hook!terminal(r)
  BY <1>1, <1>2, HkMark
<1> HIDE DEF r
<1>4. "Failed" \in Hook!Phases
  BY DEF Hook!Phases, Hook!Final
<1>5. /\ new \in Hook!Runs /\ new.uid = c.uid /\ new.hash = c.hash /\ new.jobUID = c.jobUID
      /\ new.rec = c.rec /\ new.adv = c.adv /\ new.phase = "Failed"
  BY <1>2, <1>3, <1>4, HkFinish
<1> HIDE DEF new
<1>6. UNCHANGED <<creating, cached, setting, wanted, ver, live, records, step, halt, hclock, uids, passed>>
  BY <1>1 DEF Hook!store, Hook!counts, Hook!ghosts
<1> QED BY <1>1, <1>2, <1>5, <1>6, HkEnds

LEMMA HkMarkSpecChange ==
    ASSUME Hook!HookInv, NEW h \in Hooks, Hook!MarkSpecChange(h)
    PROVE  Hook!HookInv'
<1> DEFINE c == Hook!Seen(h)
           r == Hook!markSpecChange(c)
<1>1. /\ Hook!Advances(h) /\ Hook!Patch(h, c, r)
      /\ UNCHANGED <<cached, job, creating, Hook!store, Hook!counts, Hook!ghosts>>
  BY Zenon DEF Hook!MarkSpecChange
<1>2. c \in Hook!Runs
  BY <1>1, HkReads DEF Hook!Advances
<1> HIDE DEF c
<1>3. /\ r \in Hook!Runs /\ r.uid = c.uid /\ r.hash = c.hash /\ r.jobUID = c.jobUID
      /\ r.rec = c.rec /\ r.adv = c.adv /\ r.phase = c.phase
  BY <1>1, <1>2, HkMark
<1> HIDE DEF r
<1>4. /\ UNCHANGED <<creating, cached, setting, wanted, ver, live, records, step, halt, hclock, uids, passed>>
      /\ job' = job
  BY <1>1 DEF Hook!store, Hook!counts, Hook!ghosts
<1> QED BY <1>1, <1>2, <1>3, <1>4, HkEnds

LEMMA HkDeletingRecords ==
    ASSUME Hook!HookInv, NEW h \in Hooks, Hook!DeletingRecords(h)
    PROVE  Hook!HookInv'
<1> DEFINE c == Hook!Seen(h)
<1>1. /\ Hook!Reads(h) /\ Hook!Held(c, h) /\ Hook!Patch(h, c, Hook!Outcome(c, job[h]))
      /\ UNCHANGED <<cached, job, creating, Hook!store, Hook!counts, Hook!ghosts>>
  BY Zenon DEF Hook!DeletingRecords
<1>2. c \in Hook!Runs /\ hclock \in Nat
  BY <1>1, HkReads
<1> HIDE DEF c
<1>3. ~Hook!terminal(c) /\ c.jobUID # 0 /\ job[h].uid = c.jobUID
  BY <1>1 DEF Hook!Held
<1>4. UNCHANGED <<job, creating, cached, setting, wanted, ver, live, records, step, halt, hclock, uids, passed>>
  BY <1>1 DEF Hook!store, Hook!counts, Hook!ghosts
<1> QED BY <1>1, <1>2, <1>3, <1>4, HkOutcome

LEMMA HkDeletingLetsGo ==
    ASSUME Hook!HookInv, NEW h \in Hooks, Hook!DeletingLetsGo(h)
    PROVE  Hook!HookInv'
<1>1. /\ Hook!Patch(h, Hook!Seen(h), Hook!Absent)
      /\ UNCHANGED <<cached, job, creating, Hook!store, Hook!counts, Hook!ghosts>>
  BY Zenon DEF Hook!DeletingLetsGo
<1>2. UNCHANGED <<job, creating, cached, setting, wanted, ver, live, records, step, halt, hclock, uids, passed>>
  BY <1>1 DEF Hook!store, Hook!counts, Hook!ghosts
<1>3. hclock \in Nat
  BY DEF Hook!HookInv, Hook!Typed
<1>4. CASE run' = run
  BY <1>2, <1>3, <1>4, HkLess
<1>5. CASE run' = [run EXCEPT ![h] = Hook!Absent]
  BY <1>2, <1>5, HkGone
<1> QED BY <1>1, <1>4, <1>5 DEF Hook!Patch

LEMMA HkReconcile ==
    ASSUME Hook!HookInv, NEW h \in Hooks, Hook!Reconcile(h) \/ Hook!StartInterrupted(h)
    PROVE  Hook!HookInv'
BY HkStartEnds, HkStart, HkStartInterrupted, HkCreateJobEnds, HkCreateJob, HkAdoptOrFail, HkObserveEnd,
   HkObserveTimeout, HkMarkSpecChange, HkDeletingRecords, HkDeletingLetsGo DEF Hook!Reconcile
-----------------------------------------------------------------------------
(* HookRun: the steps of the Graph, the step and everybody else. *)

\* An applied HookRun is new: it has no Job, and what the step recorded of the hook.
LEMMA HkApply ==
    ASSUME Hook!HookInv, NEW h \in Hooks, Hook!Apply(h)
    PROVE  Hook!HookInv'
<1> DEFINE b == step # "pending"
           new == Hook!NewRun(uids + 1, ver[h], records[h], b)
<1>0. Hook!Typed /\ Hook!UIDsGiven /\ Hook!HashStays /\ Hook!JobHasSpec /\ Hook!Successes /\ Hook!SkipsLast
  BY DEF Hook!HookInv
<1>1. /\ uids' = uids + 1 /\ run' = [run EXCEPT ![h] = new]
      /\ UNCHANGED <<cached, job, creating, Hook!store, hclock, deletes, crashes, kills, Hook!ghosts>>
  BY Zenon DEF Hook!Apply
<1>2. UNCHANGED <<job, creating, cached, setting, wanted, ver, live, records, step, halt, hclock, passed>>
  BY <1>1 DEF Hook!store, Hook!ghosts
<1>3. uids \in Nat /\ ver[h] \in Vers /\ records[h] \in Hook!Record /\ Hook!NoTime \in Hook!Times
  BY <1>0, HkOne, HkFacts DEF Hook!Typed
<1>4. b \in BOOLEAN /\ (b => step # "pending")
  OBVIOUS
<1> HIDE DEF b
<1>5. /\ new \in Hook!Runs /\ new.uid = uids + 1 /\ new.rec = records[h] /\ new.adv = b
      /\ new.phase = "none" /\ new.hash = 0 /\ new.jobUID = 0
  BY <1>3, <1>4 DEF Hook!NewRun, Hook!Runs, Hook!Phases
<1> HIDE DEF new
<1>6. run'[h] = new /\ \A o \in Hooks \ {h} : run'[o] = run[o]
  BY <1>0, <1>1 DEF Hook!Typed
<1>7. Hook!Typed'
  <2>1. run' \in [Hooks -> Hook!Runs \cup {Hook!Absent}] /\ uids' \in Nat
    BY <1>0, <1>1, <1>3, <1>5 DEF Hook!Typed
  <2> QED BY <1>0, <1>2, <2>1 DEF Hook!Typed
<1>8. \A o \in Hooks : /\ run[o].uid <= uids /\ cached[o].uid <= uids /\ job[o].uid <= uids /\ job[o].owner <= uids
                       /\ Hook!Exists(run[o]) => run[o].jobUID <= uids
  BY <1>0 DEF Hook!UIDsGiven
<1>9. \A o \in Hooks : /\ run[o].uid \in Nat /\ cached[o].uid \in Nat /\ job[o].uid \in Nat /\ job[o].owner \in Nat
                       /\ Hook!Exists(run[o]) => run[o].jobUID \in Nat
  BY <1>0, HkOne, HkFacts
<1>10. Hook!UIDsGiven'
  <2>1. creating # Hook!Nobody => creating.uid <= uids'
    <3>1. creating # Hook!Nobody => creating.uid \in Nat
      BY <1>0 DEF Hook!Typed
    <3> QED BY <1>0, <1>1, <1>3, <3>1 DEF Hook!UIDsGiven
  <2>2. ASSUME NEW o \in Hooks
        PROVE  /\ run'[o].uid <= uids' /\ cached[o].uid <= uids' /\ job[o].uid <= uids' /\ job[o].owner <= uids'
               /\ Hook!Exists(run'[o]) => run'[o].jobUID <= uids'
    <3>1. cached[o].uid <= uids' /\ job[o].uid <= uids' /\ job[o].owner <= uids'
      BY <1>1, <1>3, <1>8, <1>9
    <3>2. run'[o].uid <= uids' /\ (Hook!Exists(run'[o]) => run'[o].jobUID <= uids')
      BY <1>1, <1>3, <1>5, <1>6, <1>8, <1>9
    <3> QED BY <3>1, <3>2
  <2> QED BY <1>2, <2>1, <2>2 DEF Hook!UIDsGiven, Hook!Exists
<1>11. Hook!HashStays'
  <2>1. ASSUME NEW o \in Hooks, Hook!Exists(cached[o]), cached[o].uid = run'[o].uid, cached[o].hash # 0
        PROVE  run'[o].hash = cached[o].hash
    <3>1. cached[h].uid # uids + 1
      BY <1>3, <1>8, <1>9
    <3>2. o # h
      BY <1>5, <1>6, <2>1, <3>1
    <3> QED BY <1>0, <1>6, <2>1, <3>2 DEF Hook!HashStays
  <2> QED BY <1>2, <2>1 DEF Hook!HashStays, Hook!Exists
<1>12. Hook!JobHasSpec'
  <2>1. ASSUME NEW o \in Hooks, job[o].uid # 0
        PROVE  /\ job[o].owner = run'[o].uid => run'[o].hash = job[o].ver
               /\ Hook!Exists(run'[o]) /\ run'[o].jobUID = job[o].uid => run'[o].hash = job[o].ver
               /\ creating # Hook!Nobody /\ creating.hook = o /\ creating.uid = job[o].uid
                     => creating.base.hash = job[o].ver
    <3>1. /\ job[o].owner = run[o].uid => run[o].hash = job[o].ver
          /\ Hook!Exists(run[o]) /\ run[o].jobUID = job[o].uid => run[o].hash = job[o].ver
          /\ creating # Hook!Nobody /\ creating.hook = o /\ creating.uid = job[o].uid
                     => creating.base.hash = job[o].ver
      BY <1>0, <2>1 DEF Hook!JobHasSpec
    <3>2. CASE o # h
      BY <1>6, <3>1, <3>2
    <3>3. CASE o = h
      <4>1. job[h].owner # uids + 1
        BY <1>3, <1>8, <1>9
      <4> QED BY <1>5, <1>6, <2>1, <3>1, <3>3, <4>1
    <3> QED BY <3>2, <3>3
  <2> QED BY <1>2, <2>1 DEF Hook!JobHasSpec, Hook!Exists
<1>13. Hook!Successes'
  <2>1. ASSUME NEW o \in Hooks, Hook!Exists(run'[o])
        PROVE  Hook!Real(o, run'[o].phase, run'[o].hash) /\ Hook!Real(o, run'[o].rec.result, run'[o].rec.hash)
    <3>1. CASE o # h
      BY <1>0, <1>6, <2>1, <3>1 DEF Hook!Successes
    <3>2. CASE o = h
      <4>1. Hook!Real(h, "none", 0)
        BY DEF Hook!Real
      <4> QED BY <1>0, <1>5, <1>6, <3>2, <4>1 DEF Hook!Successes
    <3> QED BY <3>1, <3>2
  <2> QED BY <1>0, <1>2, <2>1 DEF Hook!Successes, Hook!Exists, Hook!Real
<1>14. Hook!SkipsLast'
  <2>1. ASSUME NEW o \in Hooks, Hook!Exists(run'[o])
        PROVE  (run'[o].adv => step # "pending") /\ (run'[o].phase = "Skipped" => Hook!Over)
    BY <1>0, <1>4, <1>5, <1>6, <2>1 DEF Hook!SkipsLast
  <2> QED BY <1>0, <1>2, <2>1 DEF Hook!SkipsLast, Hook!Exists, Hook!Over
<1> QED BY <1>7, <1>10, <1>11, <1>12, <1>13, <1>14 DEF Hook!HookInv

LEMMA HkReapply ==
    ASSUME Hook!HookInv, NEW h \in Hooks, Hook!Reapply(h)
    PROVE  Hook!HookInv'
<1> DEFINE w == run[h]
           b == step # "pending"
           new == [w EXCEPT !.ver = ver[h], !.rec = records[h], !.adv = b]
<1>1. /\ Hook!Exists(w) /\ run' = [run EXCEPT ![h] = new]
      /\ UNCHANGED <<cached, job, creating, Hook!store, Hook!counts, Hook!ghosts>>
  BY Zenon DEF Hook!Reapply
<1>2. w \in Hook!Runs /\ ver[h] \in Vers /\ records[h] \in Hook!Record
  BY <1>1, HkOne DEF Hook!HookInv
<1>3. b \in BOOLEAN
  OBVIOUS
<1>4. b => step # "pending"
  OBVIOUS
<1>w. run[h] = w
  OBVIOUS
<1> HIDE DEF w, b
<1>5. /\ new \in Hook!Runs /\ new.uid = w.uid /\ new.hash = w.hash /\ new.jobUID = w.jobUID
      /\ new.phase = w.phase /\ new.rec = records[h] /\ new.adv = b
  BY <1>2, <1>3 DEF Hook!Runs
<1> HIDE DEF new
<1>6. /\ UNCHANGED <<cached, setting, wanted, ver, live, records, step, halt, hclock, uids, passed>>
      /\ job' = job /\ creating' = creating
  BY <1>1 DEF Hook!store, Hook!counts, Hook!ghosts
<1>7. Hook!Real(h, records[h].result, records[h].hash)
  BY DEF Hook!HookInv, Hook!Successes
<1>8. /\ w.jobUID <= uids /\ (job[h].uid # 0 /\ w.jobUID = job[h].uid => w.hash = job[h].ver)
      /\ Hook!Real(h, w.phase, w.hash) /\ (w.phase = "Skipped" => Hook!Over)
  BY <1>2, <1>w, HkCopy
<1>9. /\ run[h] \in Hook!Runs /\ new.uid = run[h].uid /\ new.jobUID <= uids
      /\ run[h].hash # 0 => new.hash = run[h].hash
      /\ job[h].uid # 0 /\ new.jobUID = job[h].uid => new.hash = job[h].ver
      /\ Hook!Real(h, new.phase, new.hash) /\ Hook!Real(h, new.rec.result, new.rec.hash)
      /\ new.adv => step # "pending"
      /\ new.phase = "Skipped" => Hook!Over
  BY <1>2, <1>4, <1>w, <1>5, <1>7, <1>8
<1> QED BY <1>1, <1>5, <1>6, <1>9, HkWrite

\* A deleted HookRun waits for its finalizer, or goes.
LEMMA HkDeleted ==
    ASSUME Hook!HookInv, NEW h \in Hooks, Hook!Prune(h) \/ Hook!Delete(h)
    PROVE  Hook!HookInv'
<1> DEFINE w == run[h]
           new == [w EXCEPT !.del = TRUE]
<1>1. /\ Hook!Exists(w) /\ run' = [run EXCEPT ![h] = Hook!Deleted(w)]
      /\ UNCHANGED <<cached, job, creating, Hook!store, hclock, uids, Hook!ghosts>>
  BY Zenon DEF Hook!Prune, Hook!Delete, Hook!counts
<1>2. w \in Hook!Runs
  BY <1>1, HkOne DEF Hook!HookInv
<1>6. UNCHANGED <<job, creating, cached, setting, wanted, ver, live, records, step, halt, hclock, uids, passed>>
  BY <1>1 DEF Hook!store, Hook!ghosts
<1>7. CASE run' = [run EXCEPT ![h] = Hook!Absent]
  BY <1>6, <1>7, HkGone
<1>8. CASE run' = [run EXCEPT ![h] = new]
  <2>0. run[h] = w
    OBVIOUS
  <2> HIDE DEF w
  <2>1. /\ new \in Hook!Runs /\ new.uid = w.uid /\ new.hash = w.hash /\ new.jobUID = w.jobUID
        /\ new.phase = w.phase /\ new.rec = w.rec /\ new.adv = w.adv
    BY <1>2 DEF Hook!Runs
  <2>2. Hook!Patch(h, w, new)
    BY <1>8, <2>0 DEF Hook!Patch
  <2> HIDE DEF new
  <2> QED BY <1>2, <1>6, <2>1, <2>2, HkEnds
<1> QED BY <1>1, <1>7, <1>8 DEF Hook!Deleted

LEMMA HkJobEnds ==
    ASSUME Hook!HookInv, NEW h \in Hooks, Hook!JobEnds(h)
    PROVE  Hook!HookInv'
<1>0. Hook!Typed /\ Hook!UIDsGiven /\ Hook!HashStays /\ Hook!JobHasSpec /\ Hook!Successes /\ Hook!SkipsLast
  BY DEF Hook!HookInv
<1>1. PICK s \in {"complete", "failed"} :
         /\ job' = [job EXCEPT ![h].state = s]
         /\ passed' = passed \cup (IF s = "complete" THEN {<<h, job[h].ver>>} ELSE {})
  BY Zenon DEF Hook!JobEnds
<1>2. job[h].state = "running" /\ UNCHANGED <<run, cached, creating, Hook!store, Hook!counts, ran, cutOff>>
  BY Zenon DEF Hook!JobEnds
<1>3. UNCHANGED <<run, creating, cached, setting, wanted, ver, live, records, step, halt, hclock, uids>>
  BY <1>2 DEF Hook!store, Hook!counts
<1> DEFINE j == [job[h] EXCEPT !.state = s]
<1>4. job[h] \in Hook!Jobs /\ job[h] # Hook!NoJob /\ job \in [Hooks -> Hook!Jobs]
  BY <1>0, <1>2, HkOne DEF Hook!Typed
<1>5. /\ j \in Hook!Jobs /\ job[h].ver \in Vers
      /\ j.uid = job[h].uid /\ j.owner = job[h].owner /\ j.ver = job[h].ver /\ j.state = s
  BY <1>4 DEF Hook!Jobs
<1>6. job' = [job EXCEPT ![h] = j]
  BY <1>1
<1> HIDE DEF j
<1>7. job'[h] = j /\ \A o \in Hooks \ {h} : job'[o] = job[o]
  BY <1>4, <1>6
<1>8. \A o \in Hooks : job'[o].uid = job[o].uid /\ job'[o].owner = job[o].owner /\ job'[o].ver = job[o].ver
  BY <1>5, <1>7
<1>9. passed \subseteq passed' /\ (s = "complete" => <<h, job[h].ver>> \in passed')
  BY <1>1
<1>10. Hook!Typed'
  <2>1. job' \in [Hooks -> Hook!Jobs]
    BY <1>4, <1>5, <1>6
  <2>2. passed' \subseteq Hooks \X Vers
    BY <1>0, <1>1, <1>5 DEF Hook!Typed
  <2> QED BY <1>0, <1>3, <2>1, <2>2 DEF Hook!Typed
<1>11. Hook!UIDsGiven'
  BY <1>0, <1>3, <1>8 DEF Hook!UIDsGiven, Hook!Exists
<1>12. Hook!HashStays'
  BY <1>0, <1>3 DEF Hook!HashStays, Hook!Exists
<1>13. Hook!JobHasSpec'
  BY <1>0, <1>3, <1>8 DEF Hook!JobHasSpec, Hook!Exists
<1>14. Hook!Successes'
  <2>1. ASSUME NEW o \in Hooks, job'[o].state = "complete" PROVE <<o, job'[o].ver>> \in passed'
    BY <1>0, <1>5, <1>7, <1>9, <2>1 DEF Hook!Successes
  <2> QED BY <1>0, <1>3, <1>9, <2>1 DEF Hook!Successes, Hook!Exists, Hook!Real
<1>15. Hook!SkipsLast'
  BY <1>0, <1>3 DEF Hook!SkipsLast, Hook!Exists, Hook!Over
<1> QED BY <1>10, <1>11, <1>12, <1>13, <1>14, <1>15 DEF Hook!HookInv
\* What the step and the mirror write: records of successes that are in the mirror, and a mirror of
\* the runs; the step and the halt only go on.
LEMMA HkStore ==
    ASSUME Hook!HookInv, live' \in [Hooks -> Hook!Record], records' \in [Hooks -> Hook!Record],
           \A o \in Hooks : /\ Hook!Real(o, live'[o].result, live'[o].hash)
                            /\ Hook!Real(o, records'[o].result, records'[o].hash)
                            /\ live'[o].result = "Skipped" => Hook!Over,
           step' \in {"pending", "started", "failed"}, halt' \in {"no", "wait", "skip"},
           step # "pending" => step' # "pending", halt = "skip" => halt' = "skip",
           wanted' \subseteq Hooks, ver' \in [Hooks -> Vers],
           UNCHANGED <<run, job, creating, cached, setting, hclock, uids, passed>>
    PROVE  Hook!HookInv'
<1>0. Hook!Typed /\ Hook!UIDsGiven /\ Hook!HashStays /\ Hook!JobHasSpec /\ Hook!Successes /\ Hook!SkipsLast
  BY DEF Hook!HookInv
<1>1. Hook!Typed'
  BY <1>0 DEF Hook!Typed
<1>2. Hook!UIDsGiven' /\ Hook!HashStays' /\ Hook!JobHasSpec'
  BY <1>0 DEF Hook!UIDsGiven, Hook!HashStays, Hook!JobHasSpec, Hook!Exists
<1>3. Hook!Successes'
  BY <1>0 DEF Hook!Successes, Hook!Exists, Hook!Real
<1>4. Hook!Over => Hook!Over'
  BY DEF Hook!Over
<1>5. Hook!SkipsLast'
  <2>1. ASSUME NEW o \in Hooks
        PROVE  /\ Hook!Exists(run[o]) => (run[o].adv => step' # "pending") /\ (run[o].phase = "Skipped" => Hook!Over')
               /\ live'[o].result = "Skipped" => Hook!Over'
    BY <1>0, <1>4 DEF Hook!SkipsLast
  <2> QED BY <2>1 DEF Hook!SkipsLast, Hook!Exists
<1> QED BY <1>1, <1>2, <1>3, <1>5 DEF Hook!HookInv

\* HookInv, as the steps of this section use it.
LEMMA HkStored ==
    ASSUME Hook!HookInv
    PROVE  /\ live \in [Hooks -> Hook!Record] /\ records \in [Hooks -> Hook!Record]
           /\ \A o \in Hooks : /\ Hook!Real(o, live[o].result, live[o].hash)
                               /\ Hook!Real(o, records[o].result, records[o].hash)
                               /\ live[o].result = "Skipped" => Hook!Over
           /\ step \in {"pending", "started", "failed"} /\ halt \in {"no", "wait", "skip"}
           /\ wanted \subseteq Hooks /\ ver \in [Hooks -> Vers]
BY DEF Hook!HookInv, Hook!Typed, Hook!Successes, Hook!SkipsLast

LEMMA HkRecordHooks ==
    ASSUME Hook!HookInv, Hook!RecordHooks
    PROVE  Hook!HookInv'
<1>1. /\ records' = Hook!recordHookRuns
      /\ UNCHANGED <<run, cached, job, creating, setting, wanted, ver, live, step, halt, Hook!counts, Hook!ghosts>>
  BY Zenon DEF Hook!RecordHooks
<1>2. UNCHANGED <<run, cached, job, creating, setting, wanted, ver, live, step, halt, hclock, uids, passed>>
  BY <1>1 DEF Hook!counts, Hook!ghosts
<1>3. DOMAIN records' = Hooks /\ \A o \in Hooks : records'[o] \in {live[o], records[o]}
  BY <1>1 DEF Hook!recordHookRuns
<1>4. records' \in [Hooks -> Hook!Record]
  <2>1. \A o \in Hooks : records'[o] \in Hook!Record
    BY <1>3, HkStored
  <2>2. records' = [o \in Hooks |-> records'[o]]
    BY <1>1 DEF Hook!recordHookRuns
  <2> QED BY <2>1, <2>2
<1>5. \A o \in Hooks : Hook!Real(o, records'[o].result, records'[o].hash)
  BY <1>3, HkStored
<1>6. \A o \in Hooks : /\ Hook!Real(o, live'[o].result, live'[o].hash)
                       /\ Hook!Real(o, records'[o].result, records'[o].hash)
                       /\ live'[o].result = "Skipped" => Hook!Over
  BY <1>2, <1>5, HkStored
<1>7. /\ live' \in [Hooks -> Hook!Record]
      /\ step' \in {"pending", "started", "failed"} /\ halt' \in {"no", "wait", "skip"}
      /\ wanted' \subseteq Hooks /\ ver' \in [Hooks -> Vers]
      /\ step # "pending" => step' # "pending"
      /\ halt = "skip" => halt' = "skip"
  BY <1>2, HkStored
<1> QED BY <1>2, <1>4, <1>6, <1>7, HkStore

LEMMA HkMirror ==
    ASSUME Hook!HookInv, Hook!Mirror
    PROVE  Hook!HookInv'
<1>1. /\ live' = Hook!mirrored
      /\ UNCHANGED <<setting, run, cached, job, creating, wanted, ver, records, step, halt, Hook!counts, Hook!ghosts>>
  BY Zenon DEF Hook!Mirror
<1>2. UNCHANGED <<run, cached, job, creating, setting, wanted, ver, records, step, halt, hclock, uids, passed>>
  BY <1>1 DEF Hook!counts, Hook!ghosts
<1>3. ASSUME NEW o \in Hooks
      PROVE  /\ live'[o] \in Hook!Record
             /\ Hook!Real(o, live'[o].result, live'[o].hash)
             /\ live'[o].result = "Skipped" => Hook!Over
  <2>1. CASE Hook!Exists(run[o])
    <3>1. live'[o] = [result |-> run[o].phase, hash |-> run[o].hash]
      BY <1>1, <2>1 DEF Hook!mirrored
    <3>2. run[o].phase \in Hook!Phases /\ run[o].hash \in Vers \cup {0}
      BY <2>1, HkOne, HkFacts DEF Hook!HookInv
    <3>3. Hook!Real(o, run[o].phase, run[o].hash) /\ (run[o].phase = "Skipped" => Hook!Over)
      BY <2>1 DEF Hook!HookInv, Hook!Successes, Hook!SkipsLast
    <3> QED BY <3>1, <3>2, <3>3 DEF Hook!Record
  <2>2. CASE ~Hook!Exists(run[o])
    <3>1. live'[o] = Hook!NoRecord
      BY <1>1, <2>2 DEF Hook!mirrored
    <3> QED BY <3>1, HkFacts DEF Hook!Real
  <2> QED BY <2>1, <2>2
<1>4. live' \in [Hooks -> Hook!Record]
  <2>1. live' = [o \in Hooks |-> live'[o]]
    BY <1>1 DEF Hook!mirrored
  <2> QED BY <1>3, <2>1
<1>5. \A o \in Hooks : /\ Hook!Real(o, live'[o].result, live'[o].hash)
                       /\ Hook!Real(o, records'[o].result, records'[o].hash)
                       /\ live'[o].result = "Skipped" => Hook!Over
  BY <1>2, <1>3, HkStored
<1>7. /\ records' \in [Hooks -> Hook!Record]
      /\ step' \in {"pending", "started", "failed"} /\ halt' \in {"no", "wait", "skip"}
      /\ wanted' \subseteq Hooks /\ ver' \in [Hooks -> Vers]
      /\ step # "pending" => step' # "pending"
      /\ halt = "skip" => halt' = "skip"
  BY <1>2, HkStored
<1> QED BY <1>2, <1>4, <1>5, <1>7, HkStore

LEMMA HkElse ==
    ASSUME Hook!HookInv, Hook!StepAdvances \/ Hook!EditPipeline \/ Hook!ChangeHalt
    PROVE  Hook!HookInv'
<1>1. UNCHANGED <<run, cached, job, creating, setting, live, records, hclock, uids, passed>>
  BY DEF Hook!StepAdvances, Hook!EditPipeline, Hook!ChangeHalt, Hook!counts, Hook!ghosts
<1>2. /\ step' \in {"pending", "started", "failed"} /\ (step # "pending" => step' # "pending")
  BY HkStored DEF Hook!StepAdvances, Hook!EditPipeline, Hook!ChangeHalt
<1>3. /\ halt' \in {"no", "wait", "skip"} /\ (halt = "skip" => halt' = "skip")
  BY HkStored DEF Hook!StepAdvances, Hook!EditPipeline, Hook!ChangeHalt
<1>4. wanted' \subseteq Hooks
  BY HkStored DEF Hook!StepAdvances, Hook!EditPipeline, Hook!ChangeHalt
<1>5. ver' \in [Hooks -> Vers]
  <2>1. setting.vers \subseteq Vers
    BY PartsAssumption DEF Hook!HookInv, Hook!Typed, Hook!ConstantsOK, Hook!Setting
  <2> QED BY <2>1, HkStored DEF Hook!StepAdvances, Hook!EditPipeline, Hook!ChangeHalt
<1>6. \A o \in Hooks : /\ Hook!Real(o, live'[o].result, live'[o].hash)
                       /\ Hook!Real(o, records'[o].result, records'[o].hash)
                       /\ live'[o].result = "Skipped" => Hook!Over
  BY <1>1, HkStored
<1>7. live' \in [Hooks -> Hook!Record] /\ records' \in [Hooks -> Hook!Record]
  BY <1>1, HkStored
<1> QED BY <1>1, <1>2, <1>3, <1>4, <1>5, <1>6, <1>7, HkStore

LEMMA HkNone ==
    ASSUME Hook!HookInv,
           \/ \E h \in Hooks : Hook!CollectJob(h) \/ Hook!KillJob(h)
           \/ Hook!CrashBeforeRecord \/ Hook!SyncCache \/ Hook!Tick \/ UNCHANGED hookVars
    PROVE  Hook!HookInv'
<1>0. hclock \in Nat
  BY DEF Hook!HookInv, Hook!Typed
<1>1. ASSUME NEW h \in Hooks, Hook!CollectJob(h) \/ Hook!KillJob(h) PROVE Hook!HookInv'
  <2>1. /\ job' = [job EXCEPT ![h] = Hook!NoJob]
        /\ UNCHANGED <<run, cached, creating, setting, wanted, ver, live, records, step, halt, hclock, uids, passed>>
    BY <1>1, Zenon DEF Hook!CollectJob, Hook!KillJob, Hook!store, Hook!counts, Hook!ghosts
  <2> QED BY <1>0, <2>1, HkLess
<1>2. CASE Hook!CrashBeforeRecord
  <2>1. /\ creating' = Hook!Nobody
        /\ UNCHANGED <<run, cached, job, setting, wanted, ver, live, records, step, halt, hclock, uids, passed>>
    BY <1>2, Zenon DEF Hook!CrashBeforeRecord, Hook!store, Hook!ghosts
  <2> QED BY <1>0, <2>1, HkLess
<1>3. CASE Hook!SyncCache
  <2>1. /\ cached' = run
        /\ UNCHANGED <<run, job, creating, setting, wanted, ver, live, records, step, halt, hclock, uids, passed>>
    BY <1>3, Zenon DEF Hook!SyncCache, Hook!store, Hook!counts, Hook!ghosts
  <2> QED BY <1>0, <2>1, HkLess
<1>4. CASE Hook!Tick
  <2>1. /\ hclock' = hclock + 1
        /\ UNCHANGED <<run, cached, job, creating, setting, wanted, ver, live, records, step, halt, uids, passed>>
    BY <1>4, Zenon DEF Hook!Tick, Hook!store, Hook!ghosts
  <2>2. hclock' \in Nat
    BY <1>0, <2>1
  <2> QED BY <2>1, <2>2, HkLess
<1>5. CASE UNCHANGED hookVars
  <2>1. UNCHANGED <<run, cached, job, creating, setting, wanted, ver, live, records, step, halt, hclock, uids, passed>>
    BY <1>5 DEF hookVars
  <2> QED BY <1>0, <2>1, HkLess
<1> QED BY <1>1, <1>2, <1>3, <1>4, <1>5

LEMMA HkNext == Hook!HookInv /\ [Hook!Next]_hookVars => Hook!HookInv'
<1> SUFFICES ASSUME Hook!HookInv, [Hook!Next]_hookVars PROVE Hook!HookInv'
  OBVIOUS
<1>1. ASSUME NEW h \in Hooks,
             \/ Hook!Reconcile(h) \/ Hook!StartInterrupted(h)
             \/ Hook!Apply(h) \/ Hook!Reapply(h) \/ Hook!Prune(h) \/ Hook!Delete(h)
             \/ Hook!CollectJob(h) \/ Hook!JobEnds(h) \/ Hook!KillJob(h)
      PROVE  Hook!HookInv'
  BY <1>1, HkReconcile, HkApply, HkReapply, HkDeleted, HkJobEnds, HkNone
<1>2. CASE Hook!RecordJob \/ Hook!CrashBeforeRecord \/ Hook!SyncCache
  BY <1>2, HkRecordJob, HkNone
<1>3. CASE Hook!RecordHooks \/ Hook!StepAdvances \/ Hook!Mirror
  BY <1>3, HkRecordHooks, HkElse, HkMirror
<1>4. CASE Hook!EditPipeline \/ Hook!ChangeHalt \/ Hook!Tick \/ UNCHANGED hookVars
  BY <1>4, HkElse, HkNone
<1> QED BY <1>1, <1>2, <1>3, <1>4 DEF Hook!Next

LEMMA HkInit == Hook!Init => Hook!HookInv
<1> SUFFICES ASSUME Hook!Init PROVE Hook!HookInv
  OBVIOUS
<1>1. setting.vers \subseteq Vers /\ setting.vers # {} /\ setting \in HookSettings
  BY PartsAssumption DEF Hook!Init, Hook!ConstantsOK, Hook!Setting
<1>2. Hook!Min(setting.vers) \in Vers
  <2>1. setting.vers \subseteq Nat
    BY <1>1, HkFacts
  <2>2. \E m \in setting.vers : \A y \in setting.vers : m <= y
    BY <1>1, <2>1, Least
  <2>3. Hook!Min(setting.vers) \in setting.vers
    BY <2>2 DEF Hook!Min
  <2> QED BY <1>1, <2>3
<1>3. /\ run = [h \in Hooks |-> Hook!Absent] /\ cached = run /\ job = [h \in Hooks |-> Hook!NoJob]
      /\ creating = Hook!Nobody /\ wanted = First /\ ver = [h \in Hooks |-> Hook!Min(setting.vers)]
      /\ live = [h \in Hooks |-> Hook!NoRecord] /\ records = [h \in Hooks |-> Hook!NoRecord]
      /\ step = "pending" /\ halt = "no" /\ hclock = 0 /\ uids = 0 /\ passed = {}
  BY DEF Hook!Init
<1>4. Hook!Typed
  <2>1. First \subseteq Hooks
    BY PartsAssumption DEF Hook!ConstantsOK
  <2>2. Hook!NoJob \in Hook!Jobs /\ Hook!NoRecord \in Hook!Record
    BY HkFacts
  <2> QED BY <1>1, <1>2, <1>3, <2>1, <2>2 DEF Hook!Typed
<1>5. \A h \in Hooks : /\ run[h] = Hook!Absent /\ cached[h] = Hook!Absent /\ job[h] = Hook!NoJob
                       /\ live[h] = Hook!NoRecord /\ records[h] = Hook!NoRecord
                       /\ ~Hook!Exists(run[h]) /\ ~Hook!Exists(cached[h])
  BY <1>3 DEF Hook!Exists
<1>6. Hook!UIDsGiven
  BY <1>3, <1>5, HkFacts DEF Hook!UIDsGiven
<1>7. Hook!HashStays /\ Hook!JobHasSpec
  BY <1>5, HkFacts DEF Hook!HashStays, Hook!JobHasSpec
<1>8. Hook!Successes /\ Hook!SkipsLast
  BY <1>5, HkFacts DEF Hook!Successes, Hook!SkipsLast, Hook!Real
<1> QED BY <1>4, <1>6, <1>7, <1>8 DEF Hook!HookInv

LEMMA HkReal == Hook!HookInv => Hook!SuccessIsReal
BY DEF Hook!HookInv, Hook!Successes, Hook!Real, Hook!SuccessIsReal

LEMMA HkAfter == Hook!HookInv /\ [Hook!Next]_hookVars => Hook!StartsAfterHooks
<1> SUFFICES ASSUME Hook!HookInv, [Hook!Next]_hookVars, step = "pending", step' = "started"
             PROVE  \A h \in wanted : \E v \in Vers : <<h, v>> \in passed
  BY DEF Hook!StartsAfterHooks
<1>1. Hook!StepAdvances
  <2>1. CASE UNCHANGED hookVars
    BY <2>1 DEF hookVars
  <2>2. ASSUME NEW h \in Hooks, Hook!Reconcile(h) \/ Hook!StartInterrupted(h) PROVE step' = step
    BY <2>2, Zenon DEF Hook!Reconcile, Hook!StartEnds, Hook!Start, Hook!StartInterrupted, Hook!CreateJobEnds, Hook!CreateJob, Hook!AdoptOrFail,
       Hook!ObserveEnd, Hook!ObserveTimeout, Hook!MarkSpecChange, Hook!DeletingRecords, Hook!DeletingLetsGo, Hook!store
  <2>3. ASSUME NEW h \in Hooks,
               \/ Hook!Apply(h) \/ Hook!Reapply(h) \/ Hook!Prune(h) \/ Hook!Delete(h)
               \/ Hook!CollectJob(h) \/ Hook!JobEnds(h) \/ Hook!KillJob(h)
        PROVE  step' = step
    BY <2>3, Zenon DEF Hook!Apply, Hook!Reapply, Hook!Prune, Hook!Delete, Hook!CollectJob, Hook!JobEnds, Hook!KillJob,
       Hook!store
  <2>4. ASSUME \/ Hook!RecordJob \/ Hook!CrashBeforeRecord \/ Hook!SyncCache \/ Hook!RecordHooks
               \/ Hook!Mirror \/ Hook!EditPipeline \/ Hook!ChangeHalt \/ Hook!Tick
        PROVE  step' = step
    BY <2>4, Zenon DEF Hook!RecordJob, Hook!CrashBeforeRecord, Hook!SyncCache, Hook!RecordHooks, Hook!Mirror, Hook!EditPipeline,
       Hook!ChangeHalt, Hook!Tick, Hook!store
  <2>5. step' # step
    OBVIOUS
  <2> QED BY <2>1, <2>2, <2>3, <2>4, <2>5 DEF Hook!Next
<1>2. halt = "no" /\ ~Hook!holdForPreHooks
  BY <1>1 DEF Hook!StepAdvances
<1>3. ASSUME NEW h \in wanted PROVE \E v \in Vers : <<h, v>> \in passed
  <2>1. h \in Hooks /\ live[h].result \in {"Succeeded", "Skipped"}
    BY <1>2, HkStored DEF Hook!holdForPreHooks
  <2>2. live[h].result # "Skipped"
    BY <1>2, <2>1, HkStored DEF Hook!Over
  <2>3. <<h, live[h].hash>> \in passed
    BY <2>1, <2>2, HkStored DEF Hook!Real
  <2>4. passed \subseteq Hooks \X Vers
    BY DEF Hook!HookInv, Hook!Typed
  <2> QED BY <2>3, <2>4
<1> QED BY <1>3

\* SuccessIsReal and StartsAfterHooks, for every number of hooks and job specs, every timeout and
\* grace, and every setting, however late the HookRuns are read, whatever is deleted, killed or
\* interrupted, and also when a HookRun changes between the creation of its Job and the write of
\* the Job's UID: a success, on a HookRun or in the step's record, is a completed Job of that very
\* spec (observe, adoptRecord, recordHookRuns), and a step starts only after a Job of each of its
\* hooks completed (holdForPreHooks).
THEOREM HookSuccessIsReal ==
    PartsSpec => /\ [](part = "hooks" => Hook!SuccessIsReal)
                 /\ [][part = "hooks" => Hook!StartsAfterHooks]_partVars
<1> DEFINE Inv == part = "hooks" => Hook!HookInv
<1>1. PartsInit => Inv
  BY PartStarts, HkInit
<1>2. Inv /\ [PartsNext]_partVars => Inv'
  BY PartSteps, HkNext
<1>3. Inv => (part = "hooks" => Hook!SuccessIsReal)
  BY HkReal
<1>4. Inv /\ [PartsNext]_partVars => [part = "hooks" => Hook!StartsAfterHooks]_partVars
  BY PartSteps, HkAfter
<1> QED BY <1>1, <1>2, <1>3, <1>4, PTL DEF PartsSpec
=============================================================================
