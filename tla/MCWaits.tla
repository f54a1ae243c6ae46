------------------------------- MODULE MCWaits -------------------------------
(***************************************************************************)
(* Two waits that must end, for TLC: a check's wait for a slot of the      *)
(* limiter (the module this one extends), and a step's wait for its PR.  A *)
(* behaviour is one wait's, under that module's fairness, and the other    *)
(* module stays as it is in the beginning, or off.                         *)
(***************************************************************************)
EXTENDS Limiter, TLC

VARIABLES part, env, pr, branch, notes, prs, cache, poll, hook, step, job, halt, seenOpen, inTime

prVars == <<env, pr, branch, notes, prs, cache, poll, hook, step, job, halt, seenOpen, inTime>>
waitVars == <<part, vars, prVars>>

-----------------------------------------------------------------------------
(* The limiter: four checks of three namespaces, two of them in one, so    *)
(* that both the cap of a namespace and the cap of all of them bind.       *)

CONSTANTS a1, a2, b1, c1, A, B, C

MCKeys == {a1, a2, b1, c1}
MCNamespaces == {A, B, C}
MCnsOf == [k \in Keys |-> IF k \in {a1, a2} THEN A ELSE IF k = b1 THEN B ELSE C]

-----------------------------------------------------------------------------
(* The PR: one, which is polled while calls fail; its version may be       *)
(* rejected.                                                               *)

PR == INSTANCE PRLifecycle WITH
    MaxPR <- 1, None <- 99,
    Settings <- {[opens |-> 1, grace |-> 2, timeout |-> 0, retries |-> 0, webhook |-> FALSE,
                  stale |-> FALSE, allowed |-> TRUE, deleter |-> TRUE,
                  halts |-> {"rejected"}, deletes |-> {}]}

PROff ==
    /\ env = 0 /\ pr = 0 /\ branch = 0 /\ notes = 0 /\ prs = 0 /\ cache = 0 /\ poll = 0
    /\ hook = 0 /\ step = 0 /\ job = 0 /\ halt = 0 /\ seenOpen = 0 /\ inTime = 0

-----------------------------------------------------------------------------
WaitsInit ==
    /\ Init
    /\ \/ part = "limiter" /\ PROff
       \/ part = "pr" /\ PR!Init

WaitsNext ==
    \/ part = "limiter" /\ Next /\ UNCHANGED <<part, prVars>>
    \/ part = "pr" /\ PR!Next /\ UNCHANGED <<part, vars>>

LimiterDoes(action) == part = "limiter" /\ action /\ UNCHANGED <<part, prVars>>
PRDoes(action)      == part = "pr" /\ action /\ UNCHANGED <<part, vars>>

\* The fairness of Limiter and of PRLifecycle.  A behaviour is one module's, so one
\* condition on an action of each is a condition on that module's.
WaitsFairness ==
    /\ WF_waitVars(LimiterDoes(Dispatch) \/ PRDoes(PR!ClearForNewPR))
    /\ WF_waitVars(PRDoes(PR!RecordMerger)) /\ WF_waitVars(PRDoes(PR!Wait))
    /\ WF_waitVars(PRDoes(PR!Cancel)) /\ WF_waitVars(PRDoes(PR!CloseDeleted))
    /\ WF_waitVars(PRDoes(PR!SyncCache))
    /\ SF_waitVars(LimiterDoes(Release(a1)) \/ PRDoes(PR!Poll))
    /\ SF_waitVars(LimiterDoes(Release(a2)) \/ PRDoes(PR!PatchPolled))
    /\ SF_waitVars(LimiterDoes(Release(b1)) \/ PRDoes(PR!HookPatches))
    /\ SF_waitVars(LimiterDoes(Release(c1)) \/ PRDoes(PR!AskSCM))
    /\ SF_waitVars(LimiterDoes(Expires(a1)) \/ PRDoes(PR!ClosePR))
    /\ SF_waitVars(LimiterDoes(Expires(a2)) \/ PRDoes(PR!NotePR))
    /\ SF_waitVars(LimiterDoes(Expires(b1)) \/ PRDoes(PR!DeleteBranch))
    /\ SF_waitVars(LimiterDoes(Expires(c1)) \/ PRDoes(PR!Tick))

WaitsSpec == WaitsInit /\ [][WaitsNext]_waitVars /\ WaitsFairness

-----------------------------------------------------------------------------
(* Property.  (The limiter's own are those of Limiter.)                    *)

Waits(n) == part = "pr" /\ step.st = "WaitingForMerge" /\ step.pr = n

\* The step's wait ends: a merge of its PR is always noticed and takes the step out of
\* WaitingForMerge, without a webhook, through lost answers and restarts; and so does a PR that
\* stays closed (PRLifecycle's WaitEnds).
WaitEnds ==
    /\ (Waits(1) /\ pr[1] = "merged") ~> ~Waits(1)
    /\ <>[](part = "pr" => step.pr = 1 /\ pr[1] = "closed") => []<>~Waits(1)
=============================================================================
