---------------------------- MODULE MCPRLifecycle ----------------------------
(* Six situations: one PR with a webhook, a deadline and every way of      *)
(* being cancelled; a step that is deleted and comes back, with a second   *)
(* PR or with the one it had; reads from a lagging cache; a repository     *)
(* taken off the allowlist; and a provider that cannot delete branches.    *)
EXTENDS PRLifecycle

Plain == [opens |-> 1, grace |-> 1, timeout |-> 0, retries |-> 0, webhook |-> FALSE, stale |-> FALSE,
          allowed |-> TRUE, deleter |-> TRUE, halts |-> {}, deletes |-> {}]

MCSettings ==
    {[Plain EXCEPT !.timeout = 1, !.retries = 1, !.webhook = TRUE,
                   !.halts = {"superseded", "rejected", "held"}, !.deletes = {"none"}],
     [Plain EXCEPT !.opens = 2, !.halts = {"superseded"}, !.deletes = {"pushes"}],
     [Plain EXCEPT !.grace = 2, !.halts = {"rejected"}, !.deletes = {"reuses"}],
     [Plain EXCEPT !.stale = TRUE, !.halts = {"rejected"}],
     [Plain EXCEPT !.allowed = FALSE, !.halts = {"rejected"}],
     [Plain EXCEPT !.deleter = FALSE, !.halts = {"superseded"}]}

\* A step that is deleted and comes back with a second PR, and a webhook.
RaceSettings == {[Plain EXCEPT !.opens = 2, !.webhook = TRUE, !.deletes = {"pushes"}]}
=============================================================================
