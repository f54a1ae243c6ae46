----------------------------- MODULE AuditOutbox -----------------------------
(***************************************************************************)
(* The audit outbox of one object (pkg/audit/outbox.go) as its reconciler  *)
(* uses it: a change is stored in the object's status together with the    *)
(* records of it; flushAudit creates the AuditEvents and takes the written *)
(* entries out of the status.  Between any two API calls the process may   *)
(* stop, another controller may reconcile the same object (a leader that   *)
(* lost its lease), and a call may fail, or be done with its answer lost.  *)
(*                                                                         *)
(* What an entry is, its name and which entries merge belong to the kind   *)
(* of the object: see StepAudit and GateAudit.                             *)
(***************************************************************************)
EXTENDS Naturals, Sequences, SequencesExt, FiniteSets

CONSTANTS
    Workers,           \* controllers that reconcile the object
    Limit,             \* MaxPendingAuditEvents
    Stories,           \* what may happen to the object, each a record of Story
    NameOf(_),         \* the name of an entry's AuditEvent
    Says(_),           \* the facts an entry records
    Valid(_),          \* whether an entry is one that the CRD accepts
    Mergeable(_, _),   \* whether a registered Coalesce merges two entries
    Merge(_, _)        \* the entry it makes of them

\* changes: the batches of entries, one for each change of the object, in order
\* workers: the controllers that run
\* faults:  bound on failed and refused calls and crashes
ConstantsOK ==
    /\ Limit \in Nat \ {0}
    /\ \A s \in Stories : s.workers \subseteq Workers /\ s.faults \in Nat

VARIABLES
    story,    \* what happens in this behaviour
    done,     \* how many of them are stored
    rv,       \* the object's resourceVersion
    outbox,   \* status.pendingAuditEvents
    cache,    \* a worker's informer copy: [rv, done, outbox]
    work,     \* a worker's reconcile: [pc, rv, done, outbox, next, kept]
    events,   \* the AuditEvents: the entries created
    refused,  \* entries that Validate or the API server refused: dropped, logged and counted
    faults

vars == <<story, done, rv, outbox, cache, work, events, refused, faults>>

Idle == [pc |-> "idle", rv |-> 0, done |-> 0, outbox |-> <<>>, next |-> 1, kept |-> <<>>]

-----------------------------------------------------------------------------
(* Enqueue *)

\* The pairs of entries of p that merge into a valid one, and the oldest of them:
\* smallest i, then smallest j.
Pairs(p) == {ij \in (DOMAIN p) \X (DOMAIN p) :
               /\ ij[1] < ij[2] /\ Mergeable(p[ij[1]], p[ij[2]])
               /\ Valid(Merge(p[ij[1]], p[ij[2]]))}

Oldest(pairs) ==
    CHOOSE ij \in pairs : \A o \in pairs : ij[1] < o[1] \/ (ij[1] = o[1] /\ ij[2] <= o[2])

\* The merged entry takes the newer one's place, the older is removed.
coalesceOldest(p) ==
    LET ij == Oldest(Pairs(p))
    IN  RemoveAt([p EXCEPT ![ij[2]] = Merge(p[ij[1]], p[ij[2]])], ij[1])

\* Adds e to the outbox q.pending unless it is invalid (into q.invalid) or an entry has its
\* name; a full outbox merges a pair, or drops its oldest entry.
Enqueue(q, e) ==
    LET p == Append(q.pending, e)
    IN  CASE ~Valid(e) -> [q EXCEPT !.invalid = @ \cup {e}]
          [] Valid(e) /\ \E i \in DOMAIN q.pending : NameOf(q.pending[i]) = NameOf(e) -> q
          [] OTHER ->
             CASE Len(p) <= Limit -> [q EXCEPT !.pending = p]
               [] Len(p) > Limit /\ Pairs(p) # {} -> [q EXCEPT !.pending = coalesceOldest(p)]
               [] OTHER -> [q EXCEPT !.pending = Tail(p)]

EnqueueAll(p, batch) == FoldLeft(Enqueue, [pending |-> p, invalid |-> {}], batch)

-----------------------------------------------------------------------------
(* A reconcile *)

\* An informer catches up with the object.
SyncCache(w) ==
    /\ cache[w].rv # rv
    /\ cache' = [cache EXCEPT ![w] = [rv |-> rv, done |-> done, outbox |-> outbox]]
    /\ UNCHANGED <<story, done, rv, outbox, work, events, refused, faults>>

\* The copy a flush works on.
Flushing(c) == [pc |-> "flushing", rv |-> c.rv, done |-> c.done, outbox |-> c.outbox,
                next |-> 1, kept |-> <<>>]

\* A reconcile reads the object from the cache, and flushes its outbox first.
Read(w) ==
    /\ work[w].pc = "idle"
    /\ cache[w].outbox # <<>> \/ cache[w].done < Len(story.changes)
    /\ work' = [work EXCEPT ![w] = Flushing(cache[w])]
    /\ UNCHANGED <<story, done, rv, outbox, cache, events, refused, faults>>

\* Flush: c.Create of the next entry.  A name that is taken (AlreadyExists)
\* counts as written.
Exists(e) == \E x \in events : NameOf(x) = NameOf(e)

\* Mutant: AlreadyExists keeps the entry, as every other error does.
CreateDoneOnce(w) ==
    LET k == work[w]
        e == k.outbox[k.next]
    IN  /\ k.pc = "flushing" /\ k.next <= Len(k.outbox)
        /\ events' = IF Exists(e) THEN events ELSE events \cup {e}
        /\ work' = [work EXCEPT ![w].next = k.next + 1,
                                ![w].kept = IF Exists(e) THEN Append(k.kept, e) ELSE k.kept]
        /\ UNCHANGED <<story, done, rv, outbox, cache, refused, faults>>

CreateDone(w) ==
    LET k == work[w]
        e == k.outbox[k.next]
    IN  /\ k.pc = "flushing" /\ k.next <= Len(k.outbox)
        /\ events' = IF Exists(e) THEN events ELSE events \cup {e}
        /\ work' = [work EXCEPT ![w].next = k.next + 1]
        /\ UNCHANGED <<story, done, rv, outbox, cache, refused, faults>>

\* The create fails, or its answer is lost: the entry is kept.
CreateFails(w) ==
    LET k == work[w]
        e == k.outbox[k.next]
    IN  /\ k.pc = "flushing" /\ k.next <= Len(k.outbox)
        /\ faults < story.faults
        /\ faults' = faults + 1
        /\ events' \in {events, IF Exists(e) THEN events ELSE events \cup {e}}
        /\ work' = [work EXCEPT ![w].next = k.next + 1, ![w].kept = Append(k.kept, e)]
        /\ UNCHANGED <<story, done, rv, outbox, cache, refused>>

\* The entry is dropped without error: the namespace is being deleted, or the API server
\* refuses it as invalid.
CreateRefused(w) ==
    LET k == work[w]
        e == k.outbox[k.next]
    IN  /\ k.pc = "flushing" /\ k.next <= Len(k.outbox)
        /\ faults < story.faults
        /\ faults' = faults + 1
        /\ refused' = refused \cup {e}
        /\ work' = [work EXCEPT ![w].next = k.next + 1]
        /\ UNCHANGED <<story, done, rv, outbox, cache, events>>

\* Mutant: the patch carries no resourceVersion.
RemoveWrittenUnlocked(w) ==
    LET k == work[w]
    IN  /\ k.pc = "flushing" /\ k.next > Len(k.outbox) /\ k.kept # k.outbox
        /\ outbox' = k.kept
        /\ rv' = rv + 1
        /\ work' = [work EXCEPT ![w] = [k EXCEPT !.pc = "deciding", !.rv = rv + 1, !.outbox = k.kept]]
        /\ UNCHANGED <<story, done, cache, events, refused, faults>>

\* flushAudit takes the written entries out of the status, under the lock.
RemoveWritten(w) ==
    LET k == work[w]
    IN  /\ k.pc = "flushing" /\ k.next > Len(k.outbox) /\ k.kept # k.outbox
        /\ k.rv = rv
        /\ outbox' = k.kept
        /\ rv' = rv + 1
        /\ work' = [work EXCEPT ![w] = [k EXCEPT !.pc = "deciding", !.rv = rv + 1, !.outbox = k.kept]]
        /\ UNCHANGED <<story, done, cache, events, refused, faults>>

\* The patch conflicts: the entries stay, and the reconcile goes on with its
\* outdated copy, whose next patch conflicts too.
RemoveConflicts(w) ==
    LET k == work[w]
    IN  /\ k.pc = "flushing" /\ k.next > Len(k.outbox) /\ k.kept # k.outbox
        /\ k.rv # rv
        /\ work' = [work EXCEPT ![w].pc = "deciding"]
        /\ UNCHANGED <<story, done, rv, outbox, cache, events, refused, faults>>

\* The patch fails, or is stored with its answer lost.
RemoveFails(w) ==
    LET k == work[w]
    IN  /\ k.pc = "flushing" /\ k.next > Len(k.outbox) /\ k.kept # k.outbox
        /\ faults < story.faults
        /\ faults' = faults + 1
        /\ \/ UNCHANGED <<rv, outbox>>
           \/ k.rv = rv /\ rv' = rv + 1 /\ outbox' = k.kept
        /\ work' = [work EXCEPT ![w].pc = "deciding"]
        /\ UNCHANGED <<story, done, cache, events, refused>>

\* Nothing was written, or nothing was there to write.
FlushedNothing(w) ==
    LET k == work[w]
    IN  /\ k.pc = "flushing" /\ k.next > Len(k.outbox) /\ k.kept = k.outbox
        /\ work' = [work EXCEPT ![w].pc = "deciding"]
        /\ UNCHANGED <<story, done, rv, outbox, cache, events, refused, faults>>

\* patchState: the change and its records, in one locked patch; then the flush.
StoreChange(w) ==
    LET k == work[w]
        q == EnqueueAll(k.outbox, story.changes[k.done + 1])
    IN  /\ k.pc = "deciding" /\ k.done < Len(story.changes)
        /\ k.rv = rv
        /\ done' = k.done + 1
        /\ rv' = rv + 1
        /\ outbox' = q.pending
        /\ refused' = refused \cup q.invalid
        /\ work' = [work EXCEPT ![w] = Flushing([rv |-> rv + 1, done |-> k.done + 1,
                                                 outbox |-> q.pending])]
        /\ UNCHANGED <<story, cache, events, faults>>

\* The reconcile ends: nothing to change, or the patch conflicts; an outbox that
\* is not empty requeues it (retryAudit, requeueChanged).
EndReconcile(w) ==
    LET k == work[w]
    IN  /\ k.pc = "deciding"
        /\ k.done = Len(story.changes) \/ k.rv # rv
        /\ work' = [work EXCEPT ![w] = Idle]
        /\ UNCHANGED <<story, done, rv, outbox, cache, events, refused, faults>>

\* The process stops between two calls.
Crash(w) ==
    /\ work[w].pc # "idle"
    /\ faults < story.faults
    /\ faults' = faults + 1
    /\ work' = [work EXCEPT ![w] = Idle]
    /\ UNCHANGED <<story, done, rv, outbox, cache, events, refused>>

-----------------------------------------------------------------------------
(* Specification *)

Init ==
    /\ story \in Stories
    /\ done = 0 /\ rv = 0 /\ outbox = <<>>
    /\ cache = [w \in Workers |-> [rv |-> 0, done |-> 0, outbox |-> <<>>]]
    /\ work = [w \in Workers |-> Idle]
    /\ events = {} /\ refused = {} /\ faults = 0

Progress(w) ==
    \/ SyncCache(w) \/ Read(w) \/ CreateDone(w)
    \/ RemoveWritten(w) \/ RemoveConflicts(w) \/ FlushedNothing(w)
    \/ StoreChange(w) \/ EndReconcile(w)

Next ==
    \E w \in story.workers :
        Progress(w) \/ CreateFails(w) \/ CreateRefused(w) \/ RemoveFails(w) \/ Crash(w)

Spec == Init /\ [][Next]_vars

\* The workqueue retries (retryAudit, requeueChanged, the auditPending
\* predicate), informers catch up, and an outage of the API ends (story.faults).
FairSpec ==
    /\ Spec
    /\ \A w \in Workers : /\ WF_vars(w \in story.workers /\ SyncCache(w))
                          /\ WF_vars(w \in story.workers /\ Progress(w))

-----------------------------------------------------------------------------
(* Properties *)

\* Facts of a set of entries, and of the changes that are stored.
Facts(es) == UNION {Says(e) : e \in es}
Stored == UNION {Facts(ToSet(story.changes[n])) : n \in 1..done}

\* Every stored change is on record, in the AuditEvents or still in the status:
\* no interleaving, crash, outdated copy or failed call loses a record, and a full outbox
\* pushes none out ("never pushes out the version's other records").  Only one that was
\* refused, as invalid or with its namespace, is not written.
NoRecordLost == Stored \subseteq Facts(events \cup ToSet(outbox) \cup refused)

\* The record tells only what was stored: a change that was not made, because its
\* patch failed, is in no AuditEvent.
NothingInvented == Facts(events \cup ToSet(outbox) \cup refused) \subseteq Stored

\* The status keeps its size, and its entries have different names: Flush tells
\* by the name whether an entry was written.
OutboxBounded ==
    /\ Len(outbox) <= Limit
    /\ \A i, j \in DOMAIN outbox : NameOf(outbox[i]) = NameOf(outbox[j]) => i = j

\* Every change is stored and every record that was not refused is written:
\* nothing else reconciles an object in its last state again.
AllWritten == done = Len(story.changes) /\ outbox = <<>> /\ Stored \subseteq Facts(events \cup refused)
AllRecordsWritten == <>[]AllWritten
=============================================================================
