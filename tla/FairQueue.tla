------------------------------ MODULE FairQueue ------------------------------
(***************************************************************************)
(* The work queue of the controllers (pkg/reconciler/fairqueue): a wrapper *)
(* around controller-runtime's priority queue that lowers a key's priority *)
(* within its level by its namespace's backlog and raises it again when it *)
(* has been due for the aging bound.                                       *)
(*                                                                         *)
(* The wrapper's bookkeeping is changed under its mutex, the inner queue   *)
(* before or after it: the steps between the two are where threads         *)
(* interleave.  Times are relative: left is how long until a key is ready, *)
(* age how long it has been due.  The inner queue (external) serves ready  *)
(* keys by priority, then in the order they were added, keeps the higher   *)
(* priority and the earlier ready time of two adds, and hands no key out   *)
(* while a worker has it.                                                  *)
(***************************************************************************)
EXTENDS Integers, Sequences, FiniteSets, FiniteSetsExt, SequencesExt, Functions

CONSTANTS Keys,      \* reconcile requests
          Home,      \* the namespace of a key
          Adders,    \* goroutines that add keys: event handlers, requeues
          Workers,
          Span,      \* span
          Buckets,   \* the backlog bounds of the priority steps
          Aging,     \* the aging bound; the sweep ages nothing when it is 0
          Settings   \* the situations a behaviour may start in, each a record of Setting

\* keys, workers: the keys that are added and the workers that run
\* bases:  base priorities in use: 0, and negative for low priority
\* delays: delays of an add; 0: none
\* gen:    bound: a waiting entry's generation is below it
Setting == [keys : SUBSET Keys, workers : SUBSET Workers, bases : SUBSET Int, delays : SUBSET Nat,
            gen : Nat]

ConstantsOK ==
    /\ IsFiniteSet(Keys) /\ DOMAIN Home = Keys /\ "tick" \notin Adders
    /\ Aging \in Nat /\ Span \in Nat /\ IsFiniteSet(Buckets) /\ Buckets \subseteq Nat
    /\ Cardinality(Buckets) < Span
    /\ Settings \subseteq Setting

Namespaces == {Home[k] : k \in Keys}
Threads == Adders \cup {"tick"}

VARIABLES setting,  \* the situation of this behaviour
          st,       \* the state of every key the wrapper keeps
          active,   \* namespace.active
          waiting,  \* the entries of the namespaces' waiting heaps
          inner,    \* the items of the inner queue
          order,    \* the inner queue's items in the order they were added
          locked,   \* keys the inner queue has handed out and that are not Done
          out,      \* adds to the inner queue a thread still has to make
          worker    \* what a worker is doing

vars == <<setting, st, active, waiting, inner, order, locked, out, worker>>

\* taken: got from the inner queue, not yet booked; busy: reconciling; done: the
\* inner queue knows, the bookkeeping does not.
Doing == {"idle", "taken", "busy", "done"}
NoKey == "none"
Idle == [doing |-> "idle", key |-> NoKey, prio |-> 0]

NewState == [queued |-> FALSE, processing |-> FALSE, due |-> FALSE, aged |-> FALSE,
             base |-> 0, left |-> 0, age |-> 0, gen |-> 0]

Init ==
    /\ setting \in Settings
    /\ st = <<>>
    /\ active = [n \in Namespaces |-> 0]
    /\ waiting = {}
    /\ inner = <<>>
    /\ order = <<>>
    /\ locked = {}
    /\ out = [t \in Threads |-> <<>>]
    /\ worker = [w \in Workers |-> Idle]

-----------------------------------------------------------------------------
(* Helpers *)

\* shift: the priority of a key when its namespace has backlog other keys.
shift(base, backlog) == base * Span - Cardinality({b \in Buckets : backlog >= b})

\* Go's division, which truncates toward zero.
Quot(p) == IF p >= 0 THEN p \div Span ELSE -((-p) \div Span)

\* gen++.  A generation that has reached setting.gen is no entry's.
NextGen(g) == IF g < setting.gen THEN g + 1 ELSE g

KeysOf(n) == {k \in DOMAIN st : Home[k] = n}

\* The entries whose time has come that still speak of their key (promote).
Ripe(k) == {e \in waiting : /\ e.key = k /\ e.left <= 0
                            /\ e.gen = st[k].gen /\ st[k].queued /\ ~st[k].due}

\* The keys of n that promote marks due.
Promoted(n) == {k \in KeysOf(n) : Ripe(k) # {}}

\* promote: the states with the keys in ps due since their entries' time.
promote(ps) ==
    [k \in DOMAIN st |->
        IF k \in ps THEN [st[k] EXCEPT !.due = TRUE, !.age = -Min({e.left : e \in Ripe(k)})]
        ELSE st[k]]

\* The entries promote leaves in the heap of n.
Unripe(n) == {e \in waiting : Home[e.key] = n => e.left > 0}

\* The adds that re-add ks at the priority of their base, in the backlog of their
\* namespace of act active keys (readd).  A thread makes its adds in any order: the
\* code's, namespace by namespace as Go's map gives them and in each by the time a key
\* became due, is one of them, and no property depends on it.
Again(ks, act) ==
    {[key |-> k, prio |-> shift(st[k].base, act[Home[k]] - 1), after |-> 0] : k \in ks}
Orders(S) == {o \in [1 .. Cardinality(S) -> S] : ToSet(o) = S}

-----------------------------------------------------------------------------
(* Adding *)

\* AddWithOpts of k by thread t, up to the unlock: promote the namespace's due
\* waiters, queue k (schedule) and compute its priority.  The adds to the inner
\* queue follow, k's first.
AddWithOpts(t, k, base, after) ==
    LET n == Home[k]
        ps == Promoted(n)
        s1 == IF k \in DOMAIN st THEN promote(ps)[k] ELSE NewState
        fresh == ~s1.queued
        sooner == ~fresh /\ ~s1.due /\ after < s1.left
        sched == fresh \/ sooner
        dueNow == sched /\ after = 0 /\ ~s1.due
        s2 == [s1 EXCEPT !.queued = TRUE,
                         !.base = IF fresh THEN base ELSE Max({s1.base, base}),
                         !.aged = IF fresh THEN FALSE ELSE s1.aged,
                         !.left = IF sched THEN after ELSE s1.left,
                         !.gen = IF sched THEN NextGen(s1.gen) ELSE s1.gen,
                         !.due = s1.due \/ dueNow,
                         !.age = IF dueNow THEN 0 ELSE s1.age]
        act == active[n] + Cardinality(ps) + (IF dueNow THEN 1 ELSE 0)
        backlog == IF s2.due \/ s2.processing THEN act - 1 ELSE act
        counts == [active EXCEPT ![n] = act]
    IN  /\ out[t] = <<>>
        /\ sched /\ after > 0 => NextGen(s1.gen) < setting.gen
        /\ st' = [x \in DOMAIN st \cup {k} |-> IF x = k THEN s2 ELSE promote(ps)[x]]
        /\ active' = counts
        /\ waiting' = Unripe(n) \cup
                      (IF sched /\ after > 0 THEN {[key |-> k, gen |-> s2.gen, left |-> after]}
                       ELSE {})
        /\ \E o \in Orders(Again(ps \ {k}, counts)) :
              out' = [out EXCEPT ![t] =
                         <<[key |-> k, prio |-> shift(base, backlog), after |-> after]>> \o o]
        /\ UNCHANGED <<setting, inner, order, locked, worker>>

\* Mutant: a sweep marks the aged keys and re-adds none of them.
sweepNoRaise ==
    LET ps == UNION {Promoted(n) : n \in Namespaces}
        s1 == promote(ps)
        act == [n \in Namespaces |-> active[n] + Cardinality(Promoted(n))]
        old == {k \in DOMAIN st : Aging > 0 /\ s1[k].due /\ ~s1[k].aged /\ s1[k].age >= Aging}
    IN  /\ out["tick"] = <<>>
        /\ ps \cup old # {}
        /\ st' = [k \in DOMAIN st |-> IF k \in old THEN [s1[k] EXCEPT !.aged = TRUE] ELSE s1[k]]
        /\ active' = act
        /\ waiting' = {e \in waiting : e.left > 0}
        /\ \E o \in Orders(Again(ps, act)) : out' = [out EXCEPT !["tick"] = o]
        /\ UNCHANGED <<setting, inner, order, locked, worker>>

\* sweep, up to the unlock: promote every namespace's due waiters and mark the
\* keys due for the aging bound, to be re-added at their base priority.
sweep ==
    LET ps == UNION {Promoted(n) : n \in Namespaces}
        s1 == promote(ps)
        act == [n \in Namespaces |-> active[n] + Cardinality(Promoted(n))]
        old == {k \in DOMAIN st : Aging > 0 /\ s1[k].due /\ ~s1[k].aged /\ s1[k].age >= Aging}
    IN  /\ out["tick"] = <<>>
        /\ ps \cup old # {}
        /\ st' = [k \in DOMAIN st |-> IF k \in old THEN [s1[k] EXCEPT !.aged = TRUE] ELSE s1[k]]
        /\ active' = act
        /\ waiting' = {e \in waiting : e.left > 0}
        /\ \E o \in Orders(Again(ps, act) \cup
                           {[key |-> k, prio |-> st[k].base * Span, after |-> 0] : k \in old}) :
              out' = [out EXCEPT !["tick"] = o]
        /\ UNCHANGED <<setting, inner, order, locked, worker>>

\* The next of t's adds reaches the inner queue: a new item, or the higher
\* priority and the earlier ready time of an old one.
InnerAdd(t) ==
    /\ out[t] # <<>>
    /\ LET a == Head(out[t])
           k == a.key
       IN  IF k \in DOMAIN inner
           THEN /\ inner' = [inner EXCEPT ![k] = [prio |-> Max({@.prio, a.prio}),
                                                  left |-> Min({@.left, a.after})]]
                /\ order' = order
           ELSE /\ inner' = [x \in DOMAIN inner \cup {k} |->
                                IF x = k THEN [prio |-> a.prio, left |-> a.after] ELSE inner[x]]
                /\ order' = Append(order, k)
    /\ out' = [out EXCEPT ![t] = Tail(@)]
    /\ UNCHANGED <<setting, st, active, waiting, locked, worker>>

-----------------------------------------------------------------------------
(* Serving *)

\* The keys the inner queue may hand out, and the one that goes first.
Ready == {k \in DOMAIN inner : inner[k].left = 0 /\ k \notin locked}
GoesFirst(k) ==
    \A o \in Ready \ {k} :
       \/ inner[k].prio > inner[o].prio
       \/ /\ inner[k].prio = inner[o].prio
          /\ \E i, j \in DOMAIN order : i < j /\ order[i] = k /\ order[j] = o

\* GetWithPriority: the inner queue hands a key to w.
InnerGet(w) ==
    /\ w \in setting.workers /\ worker[w].doing = "idle"
    /\ \E k \in Ready, i \in DOMAIN order :
         /\ GoesFirst(k) /\ order[i] = k
         /\ worker' = [worker EXCEPT ![w] = [doing |-> "taken", key |-> k, prio |-> inner[k].prio]]
         /\ locked' = locked \cup {k}
         /\ inner' = Restrict(inner, DOMAIN inner \ {k})
         /\ order' = RemoveAt(order, i)
    /\ UNCHANGED <<setting, st, active, waiting, out>>

\* Mutant: a key that was due leaves the count although it is processed now.
GetWithPriorityUncounted(w) ==
    LET k == worker[w].key
        n == Home[k]
        s == IF k \in DOMAIN st THEN st[k] ELSE NewState
        base == IF s.queued THEN s.base ELSE Quot(worker[w].prio)
    IN  /\ worker[w].doing = "taken"
        /\ st' = [x \in DOMAIN st \cup {k} |->
                     IF x = k THEN [s EXCEPT !.queued = FALSE, !.due = FALSE, !.aged = FALSE,
                                             !.left = 0, !.age = 0, !.base = base,
                                             !.gen = NextGen(@), !.processing = TRUE]
                     ELSE st[x]]
        /\ active' = [active EXCEPT ![n] = @ - (IF s.due THEN 1 ELSE 0)]
        /\ worker' = [worker EXCEPT ![w].doing = "busy", ![w].prio = base]
        /\ UNCHANGED <<setting, waiting, inner, order, locked, out>>

\* GetWithPriority, under the mutex: the key is processing and no longer queued;
\* a key the bookkeeping does not have queued gets the level it came with.
GetWithPriority(w) ==
    LET k == worker[w].key
        n == Home[k]
        s == IF k \in DOMAIN st THEN st[k] ELSE NewState
        base == IF s.queued THEN s.base ELSE Quot(worker[w].prio)
    IN  /\ worker[w].doing = "taken"
        /\ st' = [x \in DOMAIN st \cup {k} |->
                     IF x = k THEN [s EXCEPT !.queued = FALSE, !.due = FALSE, !.aged = FALSE,
                                             !.left = 0, !.age = 0, !.base = base,
                                             !.gen = NextGen(@), !.processing = TRUE]
                     ELSE st[x]]
        /\ active' = [active EXCEPT ![n] = @ - (IF s.due THEN 1 ELSE 0)
                                             + (IF s.processing THEN 0 ELSE 1)]
        /\ worker' = [worker EXCEPT ![w].doing = "busy", ![w].prio = base]
        /\ UNCHANGED <<setting, waiting, inner, order, locked, out>>

\* Done: the inner queue may hand the key out again.
InnerDone(w) ==
    /\ worker[w].doing = "busy"
    /\ locked' = locked \ {worker[w].key}
    /\ worker' = [worker EXCEPT ![w].doing = "done"]
    /\ UNCHANGED <<setting, st, active, waiting, inner, order, out>>

\* Done, under the mutex, with release: the state of a key that is not queued is
\* dropped, and the namespace (its count, its heap) with its last key.
Done(w) ==
    LET k == worker[w].key
        n == Home[k]
        drop == k \in DOMAIN st /\ ~st[k].queued
        last == drop /\ KeysOf(n) = {k}
        act == active[n] - (IF k \in DOMAIN st /\ st[k].processing THEN 1 ELSE 0)
    IN  /\ worker[w].doing = "done"
        /\ worker' = [worker EXCEPT ![w] = Idle]
        /\ st' = IF drop THEN Restrict(st, DOMAIN st \ {k})
                 ELSE [x \in DOMAIN st |->
                          IF x = k THEN [st[x] EXCEPT !.processing = FALSE] ELSE st[x]]
        /\ active' = [active EXCEPT ![n] = IF last THEN 0 ELSE act]
        /\ waiting' = IF last THEN {e \in waiting : Home[e.key] # n} ELSE waiting
        /\ UNCHANGED <<setting, inner, order, locked, out>>

-----------------------------------------------------------------------------
(* Time *)

\* One unit of time passes.
Tick ==
    /\ st' = [k \in DOMAIN st |->
                 [st[k] EXCEPT !.left = Max({0, @ - 1}),
                               !.age = IF st[k].due THEN Min({Aging, @ + 1}) ELSE @]]
    /\ waiting' = {[e EXCEPT !.left = Max({-Aging, @ - 1})] : e \in waiting}
    /\ inner' = [k \in DOMAIN inner |-> [inner[k] EXCEPT !.left = Max({0, @ - 1})]]
    /\ <<st', waiting', inner'>> # <<st, waiting, inner>>
    /\ UNCHANGED <<setting, active, order, locked, out, worker>>

Next ==
    \/ \E t \in Adders, k \in setting.keys, b \in setting.bases, d \in setting.delays :
          AddWithOpts(t, k, b, d)
    \/ sweep
    \/ \E t \in Threads : InnerAdd(t)
    \/ \E w \in Workers : InnerGet(w) \/ GetWithPriority(w) \/ InnerDone(w) \/ Done(w)
    \/ Tick

Spec == Init /\ [][Next]_vars

\* The scheduler runs every goroutine, the ticker fires, the clock runs and a
\* reconcile returns.  Nothing makes anybody add a key.
Fairness ==
    /\ WF_vars(sweep) /\ WF_vars(Tick)
    /\ \A t \in Threads : WF_vars(InnerAdd(t))
    /\ \A w \in Workers :
          /\ WF_vars(InnerGet(w)) /\ WF_vars(GetWithPriority(w))
          /\ WF_vars(InnerDone(w)) /\ WF_vars(Done(w))

LiveSpec == Spec /\ Fairness

-----------------------------------------------------------------------------
(* Properties *)

\* Every variable has its type.
KeyState == [queued : BOOLEAN, processing : BOOLEAN, due : BOOLEAN, aged : BOOLEAN,
             base : Int, left : Nat, age : 0 .. Aging, gen : 0 .. setting.gen]
Add == [key : Keys, prio : Int, after : Nat]
TypeOK ==
    /\ setting \in Settings
    /\ DOMAIN st \subseteq Keys /\ st \in [DOMAIN st -> KeyState]
    /\ active \in [Namespaces -> Int]
    /\ waiting \subseteq [key : Keys, gen : 1 .. setting.gen, left : Int]
    /\ \A e \in waiting : e.left >= -Aging
    /\ DOMAIN inner \subseteq Keys /\ inner \in [DOMAIN inner -> [prio : Int, left : Nat]]
    /\ order \in Seq(Keys) /\ DOMAIN inner = ToSet(order) /\ IsInjective(order)
    /\ locked \subseteq Keys
    /\ out \in [Threads -> Seq(Add)]
    /\ worker \in [Workers -> [doing : Doing, key : Keys \cup {NoKey}, prio : Int]]
    /\ \A w \in Workers : worker[w].doing # "idle" => worker[w].key \in Keys

\* The active keys of a namespace, those that are due or processing, and the ones among
\* them that are both: processing, and added again at once.
Active(n) == {k \in KeysOf(n) : st[k].processing \/ st[k].due}
Twice(n) == {k \in KeysOf(n) : st[k].processing /\ st[k].due}

\* namespace.active, kept up to date by increments and decrements in five places, never drifts
\* from the active keys: it exceeds them by exactly the keys that are processing and due
\* again, and is never below them.
ActiveExact ==
    \A n \in Namespaces : active[n] = Cardinality(Active(n)) + Cardinality(Twice(n))

\* What the comments say of it: "active counts the keys that are processing or due", so that
\* a key counts once, however often it is added.
CountedOnce == \A n \in Namespaces : active[n] = Cardinality(Active(n))

\* k is in the inner queue, or a thread is about to put it there, or a worker has
\* just taken it out and not booked it.
OnItsWay(k) ==
    \/ k \in DOMAIN inner
    \/ \E t \in Threads : \E i \in DOMAIN out[t] : out[t][i].key = k
    \/ \E w \in Workers : worker[w].doing = "taken" /\ worker[w].key = k

\* The bookkeeping keeps no ghost: a key it has queued is in the inner queue or on
\* its way, a key it has processing is with a worker, and it has no other.  Else
\* the namespace would be penalised for work that never ends.
NoGhost ==
    \A k \in DOMAIN st :
       /\ st[k].queued \/ st[k].processing
       /\ st[k].queued => OnItsWay(k)
       /\ st[k].processing => \E w \in Workers : /\ worker[w].doing \in {"busy", "done"}
                                                 /\ worker[w].key = k

\* A priority at the base of a level that a key of this base was added with, or above it.
AtLevel(prio, base) == \E b \in setting.bases : b <= base /\ prio >= b * Span

\* A key that sweep raised is served at the base priority of a level it was added with,
\* whatever its backlog: no add, re-add or requeue lowers it again ("a due key waits at most
\* about the aging bound behind keys of its own level").  With one level in use that is its
\* own; a key that was raised in the lower of two and is then added in the higher keeps the
\* priority of the lower one's base, for it is aged already.
AgedAtBase ==
    \A k \in DOMAIN st \cap DOMAIN inner :
       /\ st[k].aged
       /\ \A t \in Threads : \A i \in DOMAIN out[t] : out[t][i].key # k
       /\ \A w \in Workers : ~(worker[w].doing = "taken" /\ worker[w].key = k)
       => AtLevel(inner[k].prio, st[k].base)

\* Why that is: a due key is queued, at a base that somebody added it with, and the add that
\* raises an aged key is on its way, has reached the inner queue, or a worker has the key.
DueIsQueued ==
    \A k \in DOMAIN st : /\ st[k].aged => st[k].due
                         /\ st[k].due => st[k].queued
                         /\ st[k].queued => st[k].base \in setting.bases

Raised(k) ==
    \/ \E i \in DOMAIN out["tick"] : /\ out["tick"][i].key = k
                                     /\ AtLevel(out["tick"][i].prio, st[k].base)
    \/ k \in DOMAIN inner /\ AtLevel(inner[k].prio, st[k].base)
    \/ \E w \in Workers : worker[w].doing = "taken" /\ worker[w].key = k
AgedIsRaised == \A k \in DOMAIN st : st[k].aged => Raised(k)

QueueInv == TypeOK /\ ActiveExact /\ NoGhost /\ DueIsQueued /\ AgedIsRaised

\* No key stays due for ever, however many keys of other namespaces keep arriving ahead
\* of it: aging ends the penalty of its backlog, and a worker takes it.
Due(k) == k \in DOMAIN st /\ st[k].due
DueKeyServed == \A k \in Keys : []<>~Due(k)
=============================================================================
