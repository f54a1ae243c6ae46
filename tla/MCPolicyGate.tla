---------------------------- MODULE MCPolicyGate ----------------------------
(* PolicyGate for TLC: a step and a fact that changes; a restart; a step   *)
(* that is created again; overrides that come, go and come back.           *)
EXTENDS PolicyGate, TLC

CONSTANTS person, brief, agent

\* person expires after its cap ends, brief before.
MCExpires == [o \in Overrides |-> IF o = brief THEN 1 ELSE 9]

MCLists == {<<>>, <<person>>, <<agent, brief, person>>}

MCBudgets ==
    {[time |-> 2, steps |-> 1, flips |-> 1, edits |-> 0, restarts |-> 0],
     [time |-> 1, steps |-> 1, flips |-> 2, edits |-> 0, restarts |-> 0],
     [time |-> 1, steps |-> 1, flips |-> 1, edits |-> 0, restarts |-> 1],
     [time |-> 1, steps |-> 2, flips |-> 0, edits |-> 0, restarts |-> 1],
     [time |-> 2, steps |-> 0, flips |-> 0, edits |-> 3, restarts |-> 0],
     [time |-> 3, steps |-> 0, flips |-> 0, edits |-> 2, restarts |-> 0]}
=============================================================================
