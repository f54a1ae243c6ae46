---------------------------- MODULE Subscription ----------------------------
(***************************************************************************)
(* The Subscription reconciler of pkg/reconciler/subscription: it polls an  *)
(* artifact source and creates a Bundle when the digest it finds is not the *)
(* one of status.lastSeenDigest.  Between the poll, the list of existing    *)
(* Bundles, the create and the status write the controller may crash, and   *)
(* each replica reads the Subscription and the Bundles from caches that lag.*)
(*                                                                         *)
(* A Bundle is named for its tag, its digest and the digest's generation,   *)
(* so a create of the same change meets AlreadyExists while the digest      *)
(* keeps its tag.  Bundles are kept in the order of their creation          *)
(* (lifecycle.CompareCreation).                                             *)
(*                                                                         *)
(* Left out: credentials, the revision field, the spacing of refresh        *)
(* requests, the Git pathGlob (a baseline like a selection's), and the lag  *)
(* of the list of rejected artifacts.                                       *)
(***************************************************************************)
EXTENDS Naturals, Sequences, FiniteSetsExt

CONSTANTS
    Procs,       \* replicas of the controller
    Digests,     \* artifact digests
    Tags,        \* names a digest can be found under
    Selections,  \* what spec can select (source, tags)
    MaxMoves,    \* bound on the moves of the source
    MaxEdits     \* bound on the edits of the selection

None == "none"

ASSUME SubscriptionAssumption ==
    MaxMoves \in Nat /\ MaxEdits \in Nat /\ None \notin Digests /\ None \notin Selections

VARIABLES
    head,      \* the digest the source shows for each selection
    tag,       \* the tag the source shows each digest under
    shown,     \* the digests it showed so far
    had,       \* the selections so far
    sub,       \* the stored Subscription: spec selection, lastSeen, observed
    cached,    \* each replica's cached copy of sub
    bundles,   \* the Subscription's Bundles
    known,     \* how many of them each replica's cache shows
    run,       \* each replica's reconcile
    rejected,  \* digests a rejected Bundle carries
    taken,     \* the digest last taken up: as a baseline, or by a new Bundle
    moves, edits,
    odd        \* history: "back", the source went back to a digest it showed before, or
               \* the selection to an earlier one; "retag", a digest was shown under another
               \* tag; "cut", a reconcile was cut off or began from caches that were behind

vars == <<head, tag, shown, had, sub, cached, bundles, known, run, rejected, taken, moves, edits, odd>>

-----------------------------------------------------------------------------
Object == [spec : Selections, seen : Digests \cup {None}, observed : Selections \cup {None}]
Bundle == [digest : Digests, tag : Tags, gen : Nat \ {0}]
Run == [pc : {"idle", "watch", "list", "create", "patch"}, base : Object,
        digest : Digests \cup {None}, tag : Tags \cup {None}, gen : Nat]

TypeOK ==
    /\ head \in [Selections -> Digests]
    /\ tag \in [Digests -> Tags]
    /\ shown \subseteq Digests /\ had \subseteq Selections
    /\ sub \in Object
    /\ cached \in [Procs -> Object]
    /\ bundles \in Seq(Bundle)
    /\ known \in [Procs -> 0 .. Len(bundles)]
    /\ run \in [Procs -> Run]
    /\ rejected \subseteq Digests
    /\ taken \in Digests \cup {None}
    /\ moves \in 0 .. MaxMoves /\ edits \in 0 .. MaxEdits
    /\ odd \subseteq {"back", "retag", "cut"}

Init ==
    /\ head \in [Selections -> Digests]
    /\ tag \in [Digests -> Tags]
    /\ shown = {head[s] : s \in Selections}
    /\ \E s \in Selections : sub = [spec |-> s, seen |-> None, observed |-> None]
    /\ had = {sub.spec}
    /\ cached = [p \in Procs |-> sub]
    /\ bundles = <<>>
    /\ known = [p \in Procs |-> 0]
    /\ run = [p \in Procs |-> [pc |-> "idle", base |-> sub, digest |-> None, tag |-> None, gen |-> 0]]
    /\ rejected = {}
    /\ taken = None
    /\ moves = 0
    /\ edits = 0
    /\ odd = {}

-----------------------------------------------------------------------------
selectionChanged(o) == o.observed # None /\ o.spec # o.observed

\* The first poll and a new selection take a baseline and create nothing.
Baseline(o) == o.seen = None \/ selectionChanged(o)

Ends(p) == run' = [run EXCEPT ![p].pc = "idle"]

\* A reconcile reads the Subscription.
Begin(p) ==
    /\ run[p].pc = "idle"
    /\ run' = [run EXCEPT ![p] = [pc |-> "watch", base |-> cached[p], digest |-> None, tag |-> None, gen |-> 0]]
    /\ odd' = IF cached[p] = sub /\ known[p] = Len(bundles) THEN odd ELSE odd \cup {"cut"}
    /\ UNCHANGED <<head, tag, shown, had, sub, cached, bundles, known, rejected, taken, moves, edits>>

\* Mutant: the first poll counts as a change.
WatchFirst(p) ==
    /\ run[p].pc = "watch"
    /\ LET d == head[run[p].base.spec] IN
       run' = [run EXCEPT ![p].digest = d, ![p].tag = tag[d],
                          ![p].pc = IF selectionChanged(run[p].base) \/ d = run[p].base.seen
                                 THEN "patch" ELSE "list"]
    /\ UNCHANGED <<head, tag, shown, had, sub, cached, bundles, known, rejected, taken, moves, edits, odd>>
\* The source is polled.
Watch(p) ==
    /\ run[p].pc = "watch"
    /\ LET d == head[run[p].base.spec] IN
       run' = [run EXCEPT ![p].digest = d, ![p].tag = tag[d],
                          ![p].pc = IF Baseline(run[p].base) \/ d = run[p].base.seen THEN "patch" ELSE "list"]
    /\ UNCHANGED <<head, tag, shown, had, sub, cached, bundles, known, rejected, taken, moves, edits, odd>>

\* The generations of digest d among the first n Bundles.
Generations(d, n) == {bundles[i].gen : i \in {j \in 1 .. n : bundles[j].digest = d}}
Highest(d, n) == IF Generations(d, n) = {} THEN 0 ELSE Max(Generations(d, n))
NewestIs(d, n) == n > 0 /\ bundles[n].digest = d

\* The Subscription's Bundles are listed: the newest may be for this digest
\* already, the digest may be rejected, or a Bundle of the next generation is due.
createBundle(p) ==
    /\ run[p].pc = "list"
    /\ LET d == run[p].digest IN
       run' = [run EXCEPT ![p].pc = IF NewestIs(d, known[p]) \/ d \in rejected THEN "patch" ELSE "create",
                          ![p].gen = Highest(d, known[p]) + 1]
    /\ UNCHANGED <<head, tag, shown, had, sub, cached, bundles, known, rejected, taken, moves, edits, odd>>

Named(d, t, g) == \E i \in DOMAIN bundles : bundles[i] = [digest |-> d, tag |-> t, gen |-> g]

\* Mutant: every create succeeds, as with generated names.
CreatedGenerated(p) ==
    /\ bundles' = Append(bundles, [digest |-> run[p].digest, tag |-> run[p].tag, gen |-> run[p].gen])
    /\ taken' = run[p].digest
\* The API server creates the Bundle unless its name is taken.
Created(p) ==
    IF Named(run[p].digest, run[p].tag, run[p].gen)
    THEN UNCHANGED <<bundles, taken>>
    ELSE /\ bundles' = Append(bundles, [digest |-> run[p].digest, tag |-> run[p].tag, gen |-> run[p].gen])
         /\ taken' = run[p].digest

Create(p) ==
    /\ run[p].pc = "create"
    /\ Created(p)
    /\ run' = [run EXCEPT ![p].pc = "patch"]
    /\ UNCHANGED <<head, tag, shown, had, sub, cached, known, rejected, moves, edits, odd>>

\* The create's answer is lost, or the controller crashes after it was sent.
CreateLost(p) ==
    /\ run[p].pc = "create"
    /\ Created(p)
    /\ Ends(p)
    /\ odd' = odd \cup {"cut"}
    /\ UNCHANGED <<head, tag, shown, had, sub, cached, known, rejected, moves, edits>>

\* The status patch carries only what differs from the copy that was read.
patchStatus(p) ==
    /\ run[p].pc = "patch"
    /\ sub' = [sub EXCEPT !.seen = IF run[p].digest = run[p].base.seen THEN @ ELSE run[p].digest,
                          !.observed = IF run[p].base.spec = run[p].base.observed THEN @ ELSE run[p].base.spec]
    /\ taken' = IF Baseline(run[p].base) THEN run[p].digest ELSE taken
    /\ Ends(p)
    /\ UNCHANGED <<head, tag, shown, had, cached, bundles, known, rejected, moves, edits, odd>>

\* Mutant: the digest counts as seen although nothing came of it.
writeErrorSeen(p) ==
    /\ run[p].pc \in {"watch", "list", "create"}
    /\ sub' = [sub EXCEPT !.seen = IF run[p].pc = "watch" THEN @ ELSE run[p].digest]
    /\ Ends(p)
    /\ UNCHANGED <<head, tag, shown, had, cached, bundles, known, rejected, taken, moves, edits, odd>>
\* The poll or an API call fails: status.phase is Error, and it is tried again.
writeError(p) ==
    /\ run[p].pc \in {"watch", "list", "create"}
    /\ Ends(p)
    /\ UNCHANGED <<head, tag, shown, had, sub, cached, bundles, known, rejected, taken, moves, edits, odd>>

\* The controller crashes, or the status write fails.
Crash(p) ==
    /\ run[p].pc # "idle"
    /\ Ends(p)
    /\ odd' = odd \cup {"cut"}
    /\ UNCHANGED <<head, tag, shown, had, sub, cached, bundles, known, rejected, taken, moves, edits>>

-----------------------------------------------------------------------------
\* The source shows another digest for a selection.
Move ==
    /\ moves < MaxMoves
    /\ \E s \in Selections, d \in Digests :
         /\ d # head[s]
         /\ head' = [head EXCEPT ![s] = d]
         /\ shown' = shown \cup {d}
         /\ odd' = IF d \in shown THEN odd \cup {"back"} ELSE odd
    /\ moves' = moves + 1
    /\ UNCHANGED <<tag, had, sub, cached, bundles, known, run, rejected, taken, edits>>

\* The selection finds a digest under another tag (once: a bound).
Retag ==
    /\ "retag" \notin odd
    /\ \E d \in Digests, t \in Tags : t # tag[d] /\ tag' = [tag EXCEPT ![d] = t]
    /\ odd' = odd \cup {"retag"}
    /\ UNCHANGED <<head, shown, had, sub, cached, bundles, known, run, rejected, taken, moves, edits>>

\* The selection is edited.
Edit ==
    /\ edits < MaxEdits
    /\ \E s \in Selections \ {sub.spec} :
         /\ sub' = [sub EXCEPT !.spec = s]
         /\ had' = had \cup {s}
         /\ odd' = IF s \in had THEN odd \cup {"back"} ELSE odd
    /\ edits' = edits + 1
    /\ UNCHANGED <<head, tag, shown, cached, bundles, known, run, rejected, taken, moves>>

\* A Bundle is rejected, and its artifact with it.
Reject ==
    /\ \E i \in DOMAIN bundles :
         /\ bundles[i].digest \notin rejected
         /\ rejected' = rejected \cup {bundles[i].digest}
    /\ UNCHANGED <<head, tag, shown, had, sub, cached, bundles, known, run, taken, moves, edits, odd>>

SyncCache(p) ==
    /\ cached[p] # sub
    /\ cached' = [cached EXCEPT ![p] = sub]
    /\ UNCHANGED <<head, tag, shown, had, sub, bundles, known, run, rejected, taken, moves, edits, odd>>
SyncBundles(p) ==
    /\ known[p] < Len(bundles)
    /\ \E n \in known[p] + 1 .. Len(bundles) : known' = [known EXCEPT ![p] = n]
    /\ UNCHANGED <<head, tag, shown, had, sub, cached, bundles, run, rejected, taken, moves, edits, odd>>

Next ==
    \/ \E p \in Procs :
         \/ Begin(p) \/ Watch(p) \/ createBundle(p) \/ Create(p) \/ CreateLost(p)
         \/ patchStatus(p) \/ writeError(p) \/ Crash(p) \/ SyncCache(p) \/ SyncBundles(p)
    \/ Move \/ Retag \/ Edit \/ Reject

Spec == Init /\ [][Next]_vars

-----------------------------------------------------------------------------
Apart == \A i \in 1 .. Len(bundles) - 1 : bundles[i].digest # bundles[i + 1].digest

Shown ==
    LET d == head[sub.spec] IN taken = d \/ NewestIs(d, Len(bundles)) \/ d \in rejected

\* However the caches lag and whatever is cut off and tried again, two Bundles
\* in a row are never for one digest while digests keep their tags: a change of
\* the source gets one Bundle.
NoDuplicate == "retag" \notin odd => Apart

\* Of one replica, while the selection and the tags stay: every Bundle answers a
\* change of the source of its own, none is made for a change that had one, or
\* for none.
OneBundlePerChange == edits = 0 /\ "retag" \notin odd => Len(bundles) <= moves

\* Of one replica: a change is not missed.  When no reconcile runs and the status
\* says that the digest the source shows was seen, it is the one taken up last,
\* the newest Bundle's or a rejected one; a change back to an earlier digest or
\* selection may only be missed when a reconcile was cut off.
SeenIsTaken ==
    /\ \A p \in Procs : run[p].pc = "idle"
    /\ sub.observed = sub.spec /\ sub.seen = head[sub.spec]
    /\ ~({"back", "cut"} \subseteq odd)
    => Shown
=============================================================================
