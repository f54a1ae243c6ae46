----------------------------- MODULE ChangeLink -----------------------------
(***************************************************************************)
(* Mode link of the ChangeRequest reconciler: several promotions name the   *)
(* same ticket, and linkVerified decides whose it is.  An instance counts   *)
(* as verified when the ticket carries its correlation id, or when no other *)
(* instance it sees in the cache holds the ticket since earlier.  Each      *)
(* status is written under its own object's lock; nothing locks the pair.   *)
(*                                                                         *)
(* The field of link.requireField matches and the ticket is newer than the  *)
(* Bundles here: what is left of linkVerified is who held it first.         *)
(***************************************************************************)
EXTENDS Naturals, FiniteSets

CONSTANTS
    Links,      \* instances in mode link, by the order of their names
    Opener,     \* the instance in mode open, in the same order
    Keys,       \* ticket keys
    OpenedKey,  \* the ticket Opener opens
    Carriers,   \* whose correlation id the tickets nobody opened here may carry, 0: nobody's
    MaxTime,    \* bound on the clock, in the seconds of linkedAt
    MaxEvents   \* bound on the changes of a key and the reads that fail

VARIABLES
    carrier, \* whose correlation id those tickets carry
    want,   \* the key each linked promotion names, or NoKey
    st,     \* the stored status of each instance
    seen,   \* the controller's cached copy of st
    run,    \* the read in progress of each linked instance
    clock,
    events   \* counts the changes of a key and the reads that failed

vars == <<carrier, want, st, seen, run, clock, events>>

-----------------------------------------------------------------------------
NoKey == "none"
Instances == Links \cup {Opener}
Status == [key : Keys \cup {NoKey}, linkedAt : 0 .. MaxTime, verified : BOOLEAN]
Unlinked == [key |-> NoKey, linkedAt |-> 0, verified |-> FALSE]

ConstantsOK ==
    /\ Links \subseteq Nat /\ Opener \in Nat \ Links /\ 0 \notin Links
    /\ NoKey \notin Keys /\ OpenedKey \in Keys
    /\ Carriers \subseteq Links \cup {0}
    /\ MaxTime \in Nat /\ MaxEvents \in Nat

TypeOK ==
    /\ carrier \in Carriers
    /\ want \in [Links -> Keys \cup {NoKey}]
    /\ st \in [Instances -> Status]
    /\ seen \in [Instances -> Status]
    /\ run \in [Links -> [pc : {"idle", "get", "write"}, key : Keys \cup {NoKey},
                          now : 0 .. MaxTime, st : Status]]
    /\ clock \in 0 .. MaxTime
    /\ events \in 0 .. MaxEvents

Idle == [pc |-> "idle", key |-> NoKey, now |-> 0, st |-> Unlinked]

Init ==
    /\ carrier \in Carriers
    /\ want \in [Links -> Keys \cup {NoKey}]
    /\ st = [i \in Instances |-> Unlinked]
    /\ seen = st
    /\ run = [i \in Links |-> Idle]
    /\ clock = 0
    /\ events = 0

-----------------------------------------------------------------------------
\* Mutant: equal stamps are no tie to break.
earlierHolderNoTie(i, s) ==
    {o \in Instances \ {i} :
        /\ seen[o].key = s.key
        /\ \/ o = Opener
           \/ seen[o].linkedAt < s.linkedAt}
\* The instances in the cache that hold the ticket of s since earlier: the one
\* that opened it, or one that linked it earlier, ties going to the lesser name.
earlierHolder(i, s) ==
    {o \in Instances \ {i} :
        /\ seen[o].key = s.key
        /\ \/ o = Opener
           \/ seen[o].linkedAt < s.linkedAt
           \/ seen[o].linkedAt = s.linkedAt /\ o < i}

\* The ticket carries the promotion's correlation id, or nobody held it earlier.
linkVerified(i, s) ==
    \/ i = carrier /\ s.key # OpenedKey
    \/ earlierHolder(i, s) = {}

\* A reading of the ticket named key by a reconcile that began at now.
record(i, s, key, now) ==
    LET linked == [s EXCEPT !.key = key, !.linkedAt = IF s.key = key THEN @ ELSE now]
    IN  [linked EXCEPT !.verified = linkVerified(i, linked)]

\* A reconcile reads its instance and the key.  From an outdated copy of its
\* own status its write would lose the lock, so it starts from the stored one.
Begin(i) ==
    /\ run[i].pc = "idle" /\ seen[i] = st[i]
    /\ want[i] # NoKey
    /\ run' = [run EXCEPT ![i] = [pc |-> "get", key |-> want[i], now |-> clock, st |-> st[i]]]
    /\ UNCHANGED <<carrier, want, st, seen, clock, events>>

\* No key any more: nothing of an earlier ticket is kept.
Unlink(i) ==
    /\ run[i].pc = "idle" /\ seen[i] = st[i]
    /\ want[i] = NoKey /\ st[i].key # NoKey
    /\ st' = [st EXCEPT ![i].key = NoKey, ![i].verified = FALSE]
    /\ UNCHANGED <<carrier, want, seen, run, clock, events>>

\* The ticket is read, and the other holders are listed from the cache.
Get(i) ==
    /\ run[i].pc = "get"
    /\ run' = [run EXCEPT ![i].st = record(i, @, run[i].key, run[i].now), ![i].pc = "write"]
    /\ UNCHANGED <<carrier, want, st, seen, clock, events>>

\* The read fails, or the reconcile is cut off: the last reading stays.
GetFails(i) ==
    /\ run[i].pc # "idle"
    /\ events < MaxEvents /\ events' = events + 1
    /\ run' = [run EXCEPT ![i] = Idle]
    /\ UNCHANGED <<carrier, want, st, seen, clock>>

finishAt(i) ==
    /\ run[i].pc = "write"
    /\ st' = [st EXCEPT ![i] = run[i].st]
    /\ run' = [run EXCEPT ![i] = Idle]
    /\ UNCHANGED <<carrier, want, seen, clock, events>>

-----------------------------------------------------------------------------
\* The instance in mode open records the ticket it opened.
Open ==
    /\ st[Opener].key = NoKey
    /\ st' = [st EXCEPT ![Opener].key = OpenedKey, ![Opener].verified = TRUE]
    /\ UNCHANGED <<carrier, want, seen, run, clock, events>>

\* The label, annotation or counted approvals of promotion i name another key.
Edit(i) ==
    /\ events < MaxEvents
    /\ \E k \in (Keys \cup {NoKey}) \ {want[i]} : want' = [want EXCEPT ![i] = k]
    /\ events' = events + 1
    /\ UNCHANGED <<carrier, st, seen, run, clock>>

SyncCache(i) ==
    /\ seen[i] # st[i]
    /\ seen' = [seen EXCEPT ![i] = st[i]]
    /\ UNCHANGED <<carrier, want, st, run, clock, events>>

Tick ==
    /\ clock < MaxTime
    /\ clock' = clock + 1
    /\ UNCHANGED <<carrier, want, st, seen, run, events>>

Next ==
    \/ \E i \in Links :
         Begin(i) \/ Unlink(i) \/ Get(i) \/ GetFails(i) \/ finishAt(i) \/ Edit(i)
    \/ \E i \in Instances : SyncCache(i)
    \/ Open \/ Tick

\* Every instance is polled for ever and the cache catches up; an outage of the
\* ticketing system ends (MaxEvents).
Fairness ==
    /\ \A i \in Links :
         /\ WF_vars(Begin(i)) /\ WF_vars(Unlink(i))
         /\ WF_vars(Get(i)) /\ WF_vars(finishAt(i))
    /\ \A i \in Instances : WF_vars(SyncCache(i))

Spec == Init /\ [][Next]_vars
FairSpec == Spec /\ Fairness

-----------------------------------------------------------------------------
Holders(k) == {i \in Instances : st[i].key = k}
VerifiedHolders(k) == {i \in Holders(k) : st[i].verified}

\* Once the keys stay as they are, a ticket that is held is the verified ticket of
\* one promotion: no held ticket is left to nobody, and nobody is verified besides,
\* except the one promotion whose correlation id the ticket carries.
OneVerified ==
    \A k \in Keys : Holders(k) # {} =>
       VerifiedHolders(k) # {} /\ Cardinality(VerifiedHolders(k) \ {carrier}) <= 1
EventuallyOne == <>[]OneVerified
=============================================================================
