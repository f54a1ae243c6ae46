--------------------------- MODULE ChangeRequest ---------------------------
(***************************************************************************)
(* The ChangeRequest reconciler of pkg/reconciler/changerequest in mode    *)
(* open: for one promotion it opens one ticket in a ticketing system, reads *)
(* its state every poll interval and writes it to the status a PolicyGate   *)
(* reads.                                                                  *)
(*                                                                         *)
(* Replicas reconcile the instance from caches that lag behind the API      *)
(* server, are interrupted anywhere, and send creates whose answer may be   *)
(* lost or whose ticket may appear late.  The provider's search shows a     *)
(* ticket at the latest Lag after it was made.                              *)
(*                                                                         *)
(* Time is kept as ages and countdowns, so that it never runs out: an age   *)
(* saturates at the last value any comparison can tell apart.               *)
(*                                                                         *)
(* Left out: the conditions, startedAt and timedOut, the audit records      *)
(* (module AuditOutbox) and the wait for a slot (module Limiter).           *)
(***************************************************************************)
EXTENDS Integers, Sequences, FiniteSets, FiniteSetsExt

CONSTANTS
    Procs,         \* replicas of the controller
    CreateGrace,   \* only search, this long after an announced create
    Latency,       \* from a reconcile's start until its create has landed
    Lag,           \* from a create until every search shows it
    MaxTickets,    \* bound on the tickets that land
    Settings       \* the situations a behaviour may start in, each a record of Setting

\* procs:   the replicas that run
\* poll:    spec.pollInterval
\* refused: least wait after a refused credential or address
\* events:  what others do
Setting == [procs : SUBSET Procs, poll : Nat \ {0}, refused : Nat,
            events : SUBSET {"decide", "delete", "refresh", "stop"}]

ConstantsOK ==
    /\ {CreateGrace, Latency, Lag, MaxTickets} \subseteq Nat /\ MaxTickets > 1
    /\ Latency + Lag <= CreateGrace /\ Latency < CreateGrace
    /\ Settings \subseteq Setting

VARIABLES
    setting,  \* the situation of this behaviour
    cr,       \* the stored status of the instance
    stopped,  \* spec.suspend, or its version is final
    seen,     \* each replica's cached copy of cr
    current,  \* the cached copy is the stored version
    base,     \* the version a running reconcile read is still the stored one
    run,      \* each replica's reconcile
    wake,     \* when the replica's queue hands the key out next, or Never
    tickets,  \* the provider's tickets with the promotion's correlation id
    limbo     \* ages of creates that may still land

vars == <<setting, cr, stopped, seen, current, base, run, wake, tickets, limbo>>

-----------------------------------------------------------------------------
Never == -1
NoTicket == 0
Stale == 2 * setting.poll                          \* staleAfterPolls
AgeCap == Max({Stale, CreateGrace})

TicketStates == {"pending", "approved", "gone"}
States == {"", "pending", "approved", "unknown"}
Age(n) == -1 .. n

Status == [pending : Age(CreateGrace), ticket : 0 .. MaxTickets, state : States,
           readAge : Age(Stale), retryIn : Age(Max({setting.refused, setting.poll})), refresh : BOOLEAN]
Idle == [pc |-> "idle", age |-> 0, waits |-> FALSE,
         st |-> [pending |-> Never, ticket |-> NoTicket, state |-> "",
                 readAge |-> Never, retryIn |-> Never, refresh |-> FALSE]]

TypeOK ==
    /\ setting \in Settings
    /\ cr \in Status
    /\ stopped \in BOOLEAN
    /\ seen \in [Procs -> Status]
    /\ current \in [Procs -> BOOLEAN]
    /\ base \in [Procs -> BOOLEAN]
    /\ run \in [Procs -> [pc : {"idle", "find", "get", "announce", "create", "write"},
                          age : 0 .. AgeCap, waits : BOOLEAN, st : Status]]
    /\ wake \in [Procs -> Age(Max({setting.refused, setting.poll, CreateGrace}))]
    /\ tickets \in Seq([age : 0 .. Lag, state : TicketStates, left : Age(Stale)])
    /\ limbo \subseteq 0 .. Latency

Init ==
    /\ setting \in Settings
    /\ cr = Idle.st
    /\ stopped = FALSE
    /\ seen = [p \in Procs |-> cr]
    /\ current = [p \in Procs |-> TRUE]
    /\ base = [p \in Procs |-> FALSE]
    /\ run = [p \in Procs |-> Idle]
    /\ wake = [p \in Procs |-> IF p \in setting.procs THEN 0 ELSE Never]
    /\ tickets = <<>>
    /\ limbo = {}

-----------------------------------------------------------------------------
\* No retryAt, and something makes the next call due at once.
AtOnce(s) == s.readAge = Never \/ s.ticket = NoTicket \/ s.pending # Never \/ s.refresh

\* Time left until the next provider call.
nextCall(s) ==
    CASE s.retryIn # Never -> s.retryIn
      [] AtOnce(s)         -> 0
      [] OTHER             -> Max({setting.poll - s.readAge, 0})

\* The requeue of finish: the next call, a poll from now when it is at once.
nextRequeue(s, age) ==
    IF s.retryIn = Never /\ AtOnce(s) THEN Max({setting.poll - age, 0}) ELSE nextCall(s)

\* A reading of ticket t by a reconcile that began age ago.
record(s, t, age) ==
    [s EXCEPT !.pending = Never, !.ticket = t, !.state = tickets[t].state,
              !.readAge = Min({age, Stale}), !.retryIn = Never, !.refresh = FALSE]

\* A failed call: the last reading stays, a ticket that is gone is unknown.
fail(s, retry, notFound, age) ==
    [s EXCEPT !.retryIn = Max({retry - age, 0}), !.refresh = FALSE,
              !.state = IF notFound THEN "unknown" ELSE @]

Retries == {setting.poll, Max({setting.refused, setting.poll})}

\* The reconcile of p ends; an event that came meanwhile hands the key out at once.
Ends(p, next) ==
    /\ run' = [run EXCEPT ![p] = Idle]
    /\ wake' = [wake EXCEPT ![p] = IF @ = 0 THEN 0 ELSE next]
    /\ base' = [base EXCEPT ![p] = FALSE]

\* The status becomes s: every cached copy and every other read version is old.
Stored(p, s) ==
    /\ cr' = s
    /\ current' = [q \in Procs |-> FALSE]

-----------------------------------------------------------------------------
\* The reconcile reads its cached copy and decides which call is due.
Begin(p) ==
    /\ run[p].pc = "idle" /\ wake[p] = 0
    /\ LET s == seen[p] IN
       IF stopped \/ nextCall(s) > 0
       THEN /\ wake' = [wake EXCEPT ![p] = IF stopped THEN Never ELSE nextCall(s)]
            /\ UNCHANGED <<run, base>>
       ELSE /\ run' = [run EXCEPT ![p] =
                  [pc |-> IF s.ticket # NoTicket /\ s.pending = Never THEN "get" ELSE "find",
                   age |-> 0, waits |-> s.pending # Never /\ s.pending < CreateGrace, st |-> s]]
            /\ wake' = [wake EXCEPT ![p] = Never]
            /\ base' = [base EXCEPT ![p] = current[p]]
    /\ UNCHANGED <<setting, cr, stopped, seen, current, tickets, limbo>>

\* The provider answered: the status to write is s.
Answered(p, s) ==
    /\ run' = [run EXCEPT ![p].st = s, ![p].pc = "write"]
    /\ UNCHANGED <<setting, cr, stopped, seen, current, base, wake>>

\* The search shows the promotion's ticket: a create whose answer was lost.
FindFound(p) ==
    /\ run[p].pc = "find"
    /\ \E t \in DOMAIN tickets :
         /\ tickets[t].state # "gone"
         /\ Answered(p, record(run[p].st, t, run[p].age))
    /\ UNCHANGED <<setting, tickets, limbo>>

\* The search shows no ticket: wait for an announced create, or announce one.
FindNone(p) ==
    /\ run[p].pc = "find"
    /\ \A t \in DOMAIN tickets : tickets[t].age < Lag \/ tickets[t].state = "gone"
    /\ IF run[p].waits
       THEN Ends(p, CreateGrace - run[p].st.pending)
       ELSE /\ run' = [run EXCEPT ![p].pc = "announce"]
            /\ UNCHANGED <<wake, base>>
    /\ UNCHANGED <<setting, cr, stopped, seen, current, tickets, limbo>>

\* status.pendingCreate is written with the optimistic lock before the create.
Announce(p) ==
    /\ run[p].pc = "announce" /\ base[p]
    /\ LET s == [run[p].st EXCEPT !.pending = run[p].age] IN
         /\ Stored(p, s)
         /\ base' = [q \in Procs |-> q = p]
         /\ run' = [run EXCEPT ![p].st = s, ![p].pc = "create"]
    /\ UNCHANGED <<setting, stopped, seen, wake, tickets, limbo>>

\* The announcement lost to a newer version: nothing is created.
AnnounceConflict(p) ==
    /\ run[p].pc = "announce" /\ ~base[p]
    /\ Ends(p, 0)
    /\ UNCHANGED <<setting, cr, stopped, seen, current, tickets, limbo>>

\* The provider makes a ticket.
Opened == [age |-> 0, state |-> "pending", left |-> Never]

\* The create answers with the new ticket.
Create(p) ==
    /\ run[p].pc = "create" /\ Len(tickets) < MaxTickets
    /\ tickets' = Append(tickets, Opened)
    /\ run' = [run EXCEPT ![p].pc = "write",
                          ![p].st = [@ EXCEPT !.pending = Never, !.ticket = Len(tickets'),
                                              !.state = "pending", !.readAge = Min({run[p].age, Stale}),
                                              !.retryIn = Never, !.refresh = FALSE]]
    /\ UNCHANGED <<setting, cr, stopped, seen, current, base, wake, limbo>>

\* The create fails to answer: it was refused, it landed, or it may still land.
CreateFails(p) ==
    /\ run[p].pc = "create"
    /\ \/ UNCHANGED <<tickets, limbo>>
       \/ Len(tickets) < MaxTickets /\ tickets' = Append(tickets, Opened) /\ UNCHANGED limbo
       \/ limbo' = limbo \cup {run[p].age} /\ UNCHANGED tickets
    /\ \E r \in Retries : Answered(p, fail(run[p].st, r, FALSE, run[p].age))

\* A known ticket is read.
Get(p) ==
    /\ run[p].pc = "get"
    /\ LET r == run[p] t == r.st.ticket IN
         Answered(p, IF tickets[t].state = "gone" THEN fail(r.st, setting.poll, TRUE, r.age)
                     ELSE record(r.st, t, r.age))
    /\ UNCHANGED <<setting, tickets, limbo>>

\* A search or a read fails.
CallFails(p) ==
    /\ run[p].pc \in {"find", "get"}
    /\ \E r \in Retries : Answered(p, fail(run[p].st, r, FALSE, run[p].age))
    /\ UNCHANGED <<setting, tickets, limbo>>

\* Mutant: the outcome is written over whatever version is stored.
finishAtUnlocked(p) ==
    /\ run[p].pc = "write"
    /\ Stored(p, run[p].st)
    /\ run' = [run EXCEPT ![p] = Idle]
    /\ wake' = [wake EXCEPT ![p] = IF @ = 0 THEN 0 ELSE nextRequeue(run[p].st, run[p].age)]
    /\ base' = [q \in Procs |-> FALSE]
    /\ UNCHANGED <<setting, stopped, seen, tickets, limbo>>

\* The outcome is written with the optimistic lock and the next call is armed.
finishAt(p) ==
    /\ run[p].pc = "write" /\ base[p]
    /\ Stored(p, run[p].st)
    /\ run' = [run EXCEPT ![p] = Idle]
    /\ wake' = [wake EXCEPT ![p] = IF @ = 0 THEN 0 ELSE nextRequeue(run[p].st, run[p].age)]
    /\ base' = [q \in Procs |-> FALSE]
    /\ UNCHANGED <<setting, stopped, seen, tickets, limbo>>

\* The write lost to a newer version: its reconcile searches first.
finishConflict(p) ==
    /\ run[p].pc = "write" /\ ~base[p]
    /\ Ends(p, 0)
    /\ UNCHANGED <<setting, cr, stopped, seen, current, tickets, limbo>>

\* The replica crashes, or an API call fails, and the key is handed out again.
Interrupted(p) ==
    /\ run[p].pc # "idle"
    /\ Ends(p, 0)
    /\ limbo' \in {limbo, IF run[p].pc = "create" THEN limbo \cup {run[p].age} ELSE limbo}
    /\ UNCHANGED <<setting, cr, stopped, seen, current, tickets>>

-----------------------------------------------------------------------------
\* A create that answered nobody makes its ticket, or is dropped.
Land ==
    /\ \E a \in limbo :
         /\ limbo' = limbo \ {a}
         /\ \/ UNCHANGED tickets
            \/ Len(tickets) < MaxTickets /\ tickets' = Append(tickets, Opened)
    /\ UNCHANGED <<setting, cr, stopped, seen, current, base, run, wake>>

\* People approve the ticket, take the approval back, or delete the ticket.
Decide ==
    /\ "decide" \in setting.events
    /\ \E t \in DOMAIN tickets, s \in TicketStates \ {"gone"} :
         /\ tickets[t].state \notin {s, "gone"}
         /\ tickets' = [tickets EXCEPT ![t].state = s,
                                       ![t].left = IF tickets[t].state = "approved" THEN 0 ELSE @]
    /\ UNCHANGED <<setting, cr, stopped, seen, current, base, run, wake, limbo>>
Delete ==
    /\ "delete" \in setting.events
    /\ \E t \in DOMAIN tickets :
         /\ tickets[t].state # "gone"
         /\ tickets' = [tickets EXCEPT ![t].state = "gone",
                                       ![t].left = IF tickets[t].state = "approved" THEN 0 ELSE @]
    /\ UNCHANGED <<setting, cr, stopped, seen, current, base, run, wake, limbo>>

\* A webhook asks for a fresh reading (the kardinal.io/refresh annotation).
Refresh ==
    /\ "refresh" \in setting.events
    /\ ~cr.refresh
    /\ cr' = [cr EXCEPT !.refresh = TRUE]
    /\ current' = [p \in Procs |-> FALSE]
    /\ base' = [p \in Procs |-> FALSE]
    /\ UNCHANGED <<setting, stopped, seen, run, wake, tickets, limbo>>

\* The version stops promoting or promotes again; both enqueue the instance.
StopOrResume ==
    /\ "stop" \in setting.events
    /\ stopped' = ~stopped
    /\ wake' = [p \in Procs |-> IF p \in setting.procs THEN 0 ELSE Never]
    /\ UNCHANGED <<setting, cr, seen, current, base, run, tickets, limbo>>

\* The cache catches up; a refresh annotation it shows enqueues the instance.
SyncCache(p) ==
    /\ p \in setting.procs /\ ~current[p]
    /\ seen' = [seen EXCEPT ![p] = cr]
    /\ current' = [current EXCEPT ![p] = TRUE]
    /\ wake' = [wake EXCEPT ![p] = IF cr.refresh /\ ~seen[p].refresh THEN 0 ELSE @]
    /\ UNCHANGED <<setting, cr, stopped, base, run, tickets, limbo>>

Up(a, cap) == IF a = Never THEN Never ELSE Min({a + 1, cap})
Down(a) == IF a = Never THEN Never ELSE Max({a - 1, 0})
Older(s) == [s EXCEPT !.pending = Up(@, CreateGrace), !.readAge = Up(@, Stale), !.retryIn = Down(@)]

\* Time passes; a create lands or is dropped within Latency of its reconcile.
Tick ==
    /\ \A p \in Procs : run[p].pc \in {"find", "announce", "create"} => run[p].age < Latency
    /\ \A a \in limbo : a < Latency
    /\ cr' = Older(cr)
    /\ seen' = [p \in Procs |-> Older(seen[p])]
    /\ run' = [p \in Procs |-> IF run[p].pc = "idle" THEN Idle
                               ELSE [run[p] EXCEPT !.age = Up(@, AgeCap), !.st = Older(@)]]
    /\ wake' = [p \in Procs |-> Down(wake[p])]
    /\ tickets' = [t \in DOMAIN tickets |->
                     [tickets[t] EXCEPT !.age = Up(@, Lag), !.left = Up(@, Stale)]]
    /\ limbo' = {a + 1 : a \in limbo}
    /\ UNCHANGED <<setting, stopped, current, base>>

Next ==
    \/ \E p \in Procs :
         \/ Begin(p) \/ FindFound(p) \/ FindNone(p) \/ Announce(p) \/ AnnounceConflict(p)
         \/ Create(p) \/ CreateFails(p) \/ Get(p) \/ CallFails(p)
         \/ finishAt(p) \/ finishConflict(p) \/ Interrupted(p) \/ SyncCache(p)
    \/ Land \/ Decide \/ Delete \/ Refresh \/ StopOrResume \/ Tick

Spec == Init /\ [][Next]_vars

-----------------------------------------------------------------------------
\* However replicas, crashes, lost answers and late creates interleave, the
\* promotion never has two tickets ("no crash or lost response opens a
\* second ticket").
OneTicket == Cardinality({t \in DOMAIN tickets : tickets[t].state # "gone"}) <= 1

\* A state a gate still takes for fresh is one the ticket had since the
\* reading's stamp: an approval that was taken back earlier is never shown.
FreshApproval ==
    cr.state = "approved" /\ cr.readAge < Stale
      => LET t == tickets[cr.ticket] IN
         t.state = "approved" \/ (t.left # Never /\ t.left <= cr.readAge)

\* A slower reconcile never writes an older reading over a newer one.
ReadsForward ==
    \/ cr' \in {cr, Older(cr)}
    \/ cr.readAge = Never
    \/ cr'.readAge # Never /\ cr'.readAge <= cr.readAge
ReadingsInOrder == [][ReadsForward]_vars

-----------------------------------------------------------------------------
(* Why there is one ticket, as an inductive invariant.                     *)

Live == {t \in DOMAIN tickets : tickets[t].state # "gone"}
Creating == {p \in Procs : run[p].pc = "create"}
NoCreate == limbo = {} /\ Creating = {}

\* A ticket, a create that runs and one that may still land exclude each other.
AtMostOne ==
    /\ \A t, u \in Live : t = u
    /\ \A p, q \in Creating : p = q
    /\ \A a, b \in limbo : a = b
    /\ Live # {} => NoCreate
    /\ limbo # {} => Creating = {}

\* A reconcile is short until its create has landed.
InTime == \A p \in Procs : run[p].pc \in {"find", "announce", "create"} => run[p].age <= Latency

\* The stored announcement is that of the create that runs or may still land, and by the end of
\* its grace the search shows what came of it; without one nothing is on its way.
Announced ==
    /\ cr.pending # Never =>
         /\ cr.ticket = NoTicket
         /\ \A a \in limbo : a = cr.pending
         /\ \A p \in Creating : run[p].age = cr.pending
         /\ \A t \in Live : tickets[t].age < Lag => cr.pending <= tickets[t].age + Latency
    /\ cr.pending = Never => NoCreate /\ (cr.ticket = NoTicket => Live = {})

\* What a reconcile that read the stored version is about to write over it.
Outcome(s) ==
    \/ s.pending = cr.pending /\ s.ticket = cr.ticket /\ s.readAge = cr.readAge
    \/ /\ s.pending = Never /\ s.ticket # NoTicket /\ NoCreate
       /\ s.readAge # Never /\ (cr.readAge # Never => s.readAge <= cr.readAge)

\* A reconcile whose version is still the stored one works with what is stored, began after its
\* reading, and announces a create only where none is left.
OfStored(p) ==
    /\ run[p].pc # "idle"
    /\ IF run[p].pc = "write" THEN Outcome(run[p].st) ELSE run[p].st = cr
    /\ cr.readAge # Never => run[p].age <= cr.readAge \/ cr.readAge = Stale
    /\ run[p].pc \in {"find", "announce"} => cr.pending # Never \/ cr.ticket = NoTicket
    /\ run[p].pc = "find" /\ ~run[p].waits => NoCreate /\ \A t \in Live : tickets[t].age = Lag
    /\ run[p].pc = "announce" => NoCreate /\ Live = {}

ReadsStored == \A p \in Procs : (current[p] => seen[p] = cr) /\ (base[p] => OfStored(p))

\* A copy of the status names a ticket there is, and shows its state of the reading's time.
TrueCopy(s) ==
    /\ s.ticket <= Len(tickets)
    /\ s.state = "approved" =>
         /\ s.ticket # NoTicket /\ s.readAge # Never
         /\ \/ s.readAge = Stale \/ tickets[s.ticket].state = "approved"
            \/ tickets[s.ticket].left # Never /\ tickets[s.ticket].left <= s.readAge

TrueCopies ==
    /\ TrueCopy(cr) /\ \A p \in Procs : TrueCopy(seen[p]) /\ TrueCopy(run[p].st)
    /\ \A p \in Procs : /\ run[p].pc = "get" => run[p].st.ticket # NoTicket
                        /\ run[p].pc = "find" /\ run[p].waits => run[p].st.pending # Never

TicketInv ==
    /\ TypeOK /\ Len(tickets) <= MaxTickets
    /\ AtMostOne /\ InTime /\ Announced /\ ReadsStored /\ TrueCopies
=============================================================================
