----------------------------- MODULE BranchQueue -----------------------------
(***************************************************************************)
(* The turns that the auto promotions of one controller take on one base   *)
(* branch (pkg/reconciler/promotionstep/branch_queue.go): tryTurn, release *)
(* and the sweep of waiters that went away, with the part of               *)
(* handlePromoting that asks for a turn and gives it back.                 *)
(*                                                                         *)
(* The clock ticks in turns: avgHold is one tick, so a wait is the step's  *)
(* place in line, at most MaxWait.  A step reads the clock before it gets  *)
(* the queue's mutex.  A waiter that is woken by release asks before its   *)
(* requeue is due; ReadClock is enabled for it at any time.                *)
(***************************************************************************)
EXTENDS Naturals, FiniteSets, FiniteSetsExt, Functions

CONSTANTS Steps,        \* step keys, numbered by name
          MaxNow,       \* bound on the clock
          MaxWait,      \* maxTurnWait
          Grace,        \* waiterGrace
          MaxRestarts   \* bound on controller restarts

ASSUME QueueAssumption ==
    /\ Steps \subseteq Nat \ {0} /\ IsFiniteSet(Steps)
    /\ MaxNow \in Nat /\ MaxWait \in Nat /\ Grace \in Nat /\ MaxRestarts \in Nat

VARIABLES pc,       \* where a step is: see Places
          asked,    \* the time a step read before it asked for the mutex
          holder,   \* branchTurn.holder
          waiters,  \* branchTurn.waiters: when a step was first refused, and until
                    \* when it keeps its place (waiter.due plus waiterGrace)
          now,
          restarts

vars == <<pc, asked, holder, waiters, now, restarts>>

NoStep == 0

\* queued: Promoting, in the workqueue or requeued; asking: has read the clock;
\* working: runs git steps on the branch; pushed: git-push has landed;
\* out: finished, superseded or deleted.
Places == {"queued", "asking", "working", "pushed", "out"}

-----------------------------------------------------------------------------
(* Helpers *)

line == DOMAIN waiters

\* Mutant: a waiter that went away is never forgotten.
KeptForever(t) == line

\* The waiters a sweep at time t keeps (sweepLocked).
Kept(t) == {w \in line : t <= waiters[w].until}

\* Step a, first refused at time fa, goes before step b, refused at fb: earlier,
\* or at the same time and with the smaller name.
Older(fa, a, fb, b) == fa < fb \/ (fa = fb /\ a < b)

\* Mutant: the head of the line is the first by name.
headByName(ws) == IF ws = {} THEN NoStep ELSE Min(ws)

\* The oldest of the waiters ws (headLocked), or NoStep.
head(ws) ==
    IF ws = {} THEN NoStep
    ELSE CHOOSE k \in ws : \A w \in ws \ {k} : Older(waiters[k].first, k, waiters[w].first, w)

\* release: ends the turn of s if it is the holder's.
release(s) == holder' = IF holder = s THEN NoStep ELSE holder

-----------------------------------------------------------------------------
(* Asking for a turn *)

\* handlePromoting reads the clock for tryTurn.
ReadClock(s) ==
    /\ pc[s] = "queued"
    /\ pc' = [pc EXCEPT ![s] = "asking"]
    /\ asked' = [asked EXCEPT ![s] = now]
    /\ UNCHANGED <<holder, waiters, now, restarts>>

\* Mutant: a holder of the turn does not keep others from it.
TakeTurnHeld(s) ==
    /\ pc[s] = "asking"
    /\ head(Kept(asked[s])) \in {NoStep, s}
    /\ holder' = s
    /\ waiters' = Restrict(waiters, Kept(asked[s]) \ {s})
    /\ pc' = [pc EXCEPT ![s] = "working"]
    /\ asked' = [asked EXCEPT ![s] = 0]
    /\ UNCHANGED <<now, restarts>>

\* tryTurn gives s the turn: the branch is free and s is the oldest waiter, or
\* nobody waits.
TakeTurn(s) ==
    /\ pc[s] = "asking"
    /\ holder \in {NoStep, s}
    /\ head(Kept(asked[s])) \in {NoStep, s}
    /\ holder' = s
    /\ waiters' = Restrict(waiters, Kept(asked[s]) \ {s})
    /\ pc' = [pc EXCEPT ![s] = "working"]
    /\ asked' = [asked EXCEPT ![s] = 0]
    /\ UNCHANGED <<now, restarts>>

\* tryTurn refuses s: it keeps its place in line, or takes the last one, and is
\* requeued for about as many turns as are before it.
RefuseTurn(s) ==
    LET kept == Kept(asked[s])
        mine == IF s \in kept THEN waiters[s].first ELSE asked[s]
        place == 1 + Cardinality({o \in kept \ {s} : Older(waiters[o].first, o, mine, s)})
        due == asked[s] + Min({place, MaxWait})
    IN  /\ pc[s] = "asking"
        /\ holder \notin {NoStep, s} \/ head(kept) \notin {NoStep, s}
        /\ waiters' = [w \in kept \cup {s} |->
                          IF w = s THEN [first |-> mine, until |-> due + Grace]
                          ELSE waiters[w]]
        /\ pc' = [pc EXCEPT ![s] = "queued"]
        /\ asked' = [asked EXCEPT ![s] = 0]
        /\ UNCHANGED <<holder, now, restarts>>

\* tryTurn for another branch sweeps the waiters of this one too.
SweepElsewhere ==
    /\ Kept(now) # line
    /\ waiters' = Restrict(waiters, Kept(now))
    /\ UNCHANGED <<pc, asked, holder, now, restarts>>

-----------------------------------------------------------------------------
(* The turn *)

\* git-push has landed: OnStepDone gives the turn back and the reconcile goes on.
PushLanded(s) ==
    /\ pc[s] = "working"
    /\ release(s)
    /\ pc' = [pc EXCEPT ![s] = "pushed"]
    /\ UNCHANGED <<asked, waiters, now, restarts>>

\* The reconcile ends before the push has landed (a cache behind the stored
\* step, a retried error): the deferred release gives the turn back, and the
\* step is requeued.
EndUnpushed(s) ==
    /\ pc[s] = "working"
    /\ now < MaxNow
    /\ release(s)
    /\ pc' = [pc EXCEPT ![s] = "queued"]
    /\ UNCHANGED <<asked, waiters, now, restarts>>

\* The reconcile of a step whose push has landed ends; its deferred release
\* finds the turn given back.
EndPushed(s) ==
    /\ pc[s] = "pushed"
    /\ release(s)
    /\ pc' = [pc EXCEPT ![s] = "out"]
    /\ UNCHANGED <<asked, waiters, now, restarts>>

-----------------------------------------------------------------------------
(* The environment *)

\* A waiting step is superseded, fails or is deleted: it never asks again, and
\* its waiter stays.  (Only while the clock can still show that it is gone.)
Depart(s) ==
    /\ pc[s] = "queued"
    /\ now + MaxWait + Grace < MaxNow
    /\ pc' = [pc EXCEPT ![s] = "out"]
    /\ UNCHANGED <<asked, holder, waiters, now, restarts>>

\* Time passes; a requeued step may be so late that it loses its place.
Tick ==
    /\ now < MaxNow
    /\ now' = now + 1
    /\ UNCHANGED <<pc, asked, holder, waiters, restarts>>

\* The controller restarts with an empty queue and lists its steps again.
Restart ==
    /\ restarts < MaxRestarts
    /\ restarts' = restarts + 1
    /\ holder' = NoStep
    /\ waiters' = <<>>
    /\ asked' = [s \in Steps |-> 0]
    /\ pc' = [s \in Steps |-> IF pc[s] = "out" THEN "out" ELSE "queued"]
    /\ UNCHANGED now

-----------------------------------------------------------------------------
(* Specification *)

Init ==
    /\ pc = [s \in Steps |-> "queued"]
    /\ asked = [s \in Steps |-> 0]
    /\ holder = NoStep
    /\ waiters = <<>>
    /\ now = 0
    /\ restarts = 0

Asks(s) == ReadClock(s) \/ TakeTurn(s) \/ RefuseTurn(s)

Ends(s) == PushLanded(s) \/ EndUnpushed(s) \/ EndPushed(s)

Next ==
    \/ \E s \in Steps : Asks(s) \/ Ends(s) \/ Depart(s)
    \/ SweepElsewhere
    \/ Tick
    \/ Restart

Spec == Init /\ [][Next]_vars

\* A requeued step asks again, whoever asks gets the mutex, a reconcile ends (it
\* has a timeout) and time passes.  Nothing makes a step leave or a restart happen.
FairSpec ==
    /\ Spec
    /\ WF_vars(Tick)
    /\ \A s \in Steps : WF_vars(Asks(s)) /\ WF_vars(Ends(s))

-----------------------------------------------------------------------------
(* Properties *)

TypeOK ==
    /\ pc \in [Steps -> Places]
    /\ asked \in [Steps -> Nat]
    /\ holder \in Steps \cup {NoStep}
    /\ line \subseteq Steps
    /\ waiters \in [line -> [first : Nat, until : Nat]]
    /\ now \in Nat
    /\ restarts \in Nat

\* The turn belongs to the step that does git work on the branch, and to nobody
\* else: a turn has no deadline, so one that a reconcile left behind (an early
\* return between tryTurn and the deferred release) would block the branch for
\* the life of the process.
HolderWorks ==
    /\ holder # NoStep => pc[holder] = "working"
    /\ \A s \in Steps : pc[s] = "working" => holder = s

TurnInv == TypeOK /\ HolderWorks

\* A step that takes the turn overtakes nobody who was refused at an earlier time
\* and asked again within its grace, although clocks are read outside the mutex.
OvertakesNobody ==
    \A s \in Steps : \A w \in line :
       (pc[s] = "asking" /\ pc'[s] = "working" /\ w # s /\ now <= waiters[w].until)
          => waiters[w].first >= (IF s \in line THEN waiters[s].first ELSE asked[s])
RefusedFirstServedFirst == [][OvertakesNobody]_vars

\* The controller's steps write one branch one at a time (Turns).
T == INSTANCE Turns WITH writers <- {s \in Steps : pc[s] = "working"}
OneWriterAtATime == T!Spec

\* Step s has its turn, or wants none.
Served(s) == pc[s] \in {"working", "out"}
=============================================================================
