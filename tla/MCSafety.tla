------------------------------ MODULE MCSafety -------------------------------
(***************************************************************************)
(* Parts for TLC: values of the constants that are records or functions.   *)
(* The configuration has the others.                                       *)
(***************************************************************************)
EXTENDS Parts

-----------------------------------------------------------------------------
(* HealthBake: every configuration, except that a bake's policy matters    *)
(* only with a bake, a rollback only to the rollback policy, and another   *)
(* cluster or a late cache, one of the two, only to a step that does not   *)
(* verify.                                                                 *)

MCConfigs ==
    {e \in [bake : BOOLEAN, policy : {"reset-on-alarm", "fail-on-alarm"},
            onHealthFailure : {"none", "abort", "rollback"}, isRollback : BOOLEAN,
            verifies : BOOLEAN, remote : BOOLEAN, stale : BOOLEAN] :
       /\ e.isRollback => e.onHealthFailure = "rollback"
       /\ ~e.bake => e.policy = "reset-on-alarm"
       /\ ~(e.remote /\ e.stale)
       /\ e.remote \/ e.stale =>
            e.onHealthFailure = "rollback" /\ ~e.isRollback /\ ~e.verifies}

-----------------------------------------------------------------------------
(* AutoRollback: three alarming steps, two of them regions of one          *)
(* environment, with a failing API; and two policies.  In both, somebody   *)
(* else has a Bundle of one of the names.                                  *)

Alarms   == [sources |-> {"alarm"}, steps |-> {<<"a", "r1">>, <<"a", "r2">>, <<"b", "r1">>},
             squatted |-> {"b"}, faults |-> TRUE, restarts |-> TRUE, changes |-> 2]
Policies == [sources |-> {"policy"}, steps |-> {<<"a", "r1">>, <<"b", "r1">>},
             squatted |-> {"plain"}, faults |-> FALSE, restarts |-> TRUE, changes |-> 3]

MCRollbackSettings == {Alarms, Policies}

-----------------------------------------------------------------------------
(* HookRun: a hook that is renamed, and so pruned; one that is deleted and *)
(* its spec changed while caches lag and the controller and Jobs stop; and *)
(* one with a spec that cannot run.                                        *)

Quiet == [renames |-> FALSE, vers |-> {1}, stale |-> FALSE, window |-> FALSE,
          now |-> 2, uids |-> 4, deletes |-> 1, crashes |-> 0, kills |-> 0]

MCHookSettings ==
    {[Quiet EXCEPT !.renames = TRUE, !.now = 3, !.deletes = 0],
     [Quiet EXCEPT !.vers = {1, 2}, !.stale = TRUE, !.crashes = 1, !.kills = 1],
     [Quiet EXCEPT !.vers = {3}, !.kills = 1]}

-----------------------------------------------------------------------------
(* FairQueue: two keys of a namespace; and two workers with one key that   *)
(* is added with delays, or at two priorities.                             *)

MCHome == [a1 |-> "a", a2 |-> "a"]

Busy == [keys |-> {"a1", "a2"}, workers |-> {1}, bases |-> {0}, delays |-> {0}, gen |-> 0]

MCFairSettings ==
    {Busy,
     [Busy EXCEPT !.keys = {"a1"}, !.workers = {1, 2}, !.delays = {0, 1}, !.gen = 2],
     [Busy EXCEPT !.keys = {"a1"}, !.workers = {1, 2}, !.bases = {-1, 0}]}

-----------------------------------------------------------------------------
(* ChangeRequest: two replicas that open a ticket; and one while people    *)
(* delete or decide it, ask for a reading or stop the version.             *)

Alone == [procs |-> {1}, poll |-> 1, refused |-> 2, events |-> {"decide", "stop"}]

MCChangeSettings ==
    {[procs |-> {1, 2}, poll |-> 1, refused |-> 1, events |-> {}],
     [Alone EXCEPT !.events = {"delete"}],
     [Alone EXCEPT !.events = {"decide", "stop"}],
     [Alone EXCEPT !.events = {"decide", "refresh"}]}

-----------------------------------------------------------------------------
(* AuditOutbox: gate templates change after an upgrade recorded a rule     *)
(* change, and the outbox holds two records.  One controller sees every    *)
(* three edits; with a second one, that lost its lease and still runs,     *)
(* there are a few.  The last version's name is too long for a label.      *)

\* Edits of two templates, the first of which is there and is removed at most once: no
\* template gets a stamp again that it had before.
Edit1  == <<1, "edit">>
Edit2  == <<2, "edit">>
Remove == <<1, "remove">>

ThreeEdits ==
    {e \in [1..3 -> {Edit1, Edit2, Remove}] :
       \A m, n \in 1..3 : e[m] = Remove /\ e[n] = Remove => m = n}

Version(e, valid, ws, most) ==
    [changes |-> <<<<Gate!verifyRuleChangeEntry(0, valid)>>>> \o
                 [n \in DOMAIN e |-> <<Gate!gateChangeEntry(e, n, valid)>>],
     workers |-> ws, faults |-> most]

MCStories ==
    {Version(e, TRUE, {1}, 2) : e \in ThreeEdits}
    \cup {Version(e, TRUE, {1, 2}, 1) :
             e \in {<<Edit1, Edit2, Remove>>, <<Remove, Edit1, Edit2>>, <<Edit1, Remove, Edit1>>}}
    \cup {Version(<<Edit1, Remove>>, TRUE, {1, 2}, 2), Version(<<Edit1>>, FALSE, {1, 2}, 1)}
=============================================================================
