------------------------------- MODULE Turns --------------------------------
(***************************************************************************)
(* What the branch queue promises: of the promotions of one controller     *)
(* that push to one branch, one at a time does git work on it.             *)
(***************************************************************************)
CONSTANT Steps

VARIABLE writers

vars == <<writers>>

Init == writers = {}

Enter(s) == writers = {} /\ writers' = {s}

Exit(s) == writers = {s} /\ writers' = {}

Next == \E s \in Steps : Enter(s) \/ Exit(s)

Spec == Init /\ [][Next]_vars
=============================================================================
