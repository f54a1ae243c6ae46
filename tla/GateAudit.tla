------------------------------ MODULE GateAudit ------------------------------
(***************************************************************************)
(* The records of the gate templates that change under a version           *)
(* (pkg/reconciler/bundle/gate_audit.go), the one kind of record that a    *)
(* full outbox merges.  A template's stamp is its digest and generation:   *)
(* Absent, Original for template 1 when the story begins, or a new one     *)
(* with each edit.  An entry is valid when the version's name is a label   *)
(* value.                                                                  *)
(***************************************************************************)
EXTENDS Naturals, Sequences

Absent   == 0
Original == 1

\* A rule change on upgrade: an entry of its own, that is never merged.
verifyRuleChangeEntry(n, valid) == [rule |-> TRUE, gates |-> <<>>, says |-> {n}, valid |-> valid]

\* The stamp of template t before edit n of edits, each <<template, kind>>.
StampBefore(edits, n, t) ==
    LET earlier == {k \in 1..(n - 1) : edits[k][1] = t}
    IN  IF earlier = {} THEN IF t = 1 THEN Original ELSE Absent
        ELSE LET k == CHOOSE k \in earlier : \A o \in earlier : o <= k
             IN  IF edits[k][2] = "remove" THEN Absent ELSE Original + k

\* The entry of edit n: how its template's stamp changed.
gateChangeEntry(edits, n, valid) ==
    LET t == edits[n][1]
        new == IF edits[n][2] = "remove" THEN Absent ELSE Original + n
    IN  [rule |-> FALSE, gates |-> [x \in {t} |-> <<StampBefore(edits, n, t), new>>],
         says |-> {n}, valid |-> valid]

\* Two entries as one: each template from its stamp in the older entry to that in
\* the newer; one that came back to its first stamp is no change.
AllChanges(older, newer) ==
    [t \in DOMAIN older.gates \cup DOMAIN newer.gates |->
       CASE t \notin DOMAIN older.gates -> newer.gates[t]
         [] t \notin DOMAIN newer.gates -> older.gates[t]
         [] OTHER -> <<older.gates[t][1], newer.gates[t][2]>>]

Changes(older, newer) ==
    LET all == AllChanges(older, newer)
    IN  [t \in {x \in DOMAIN all : all[x][1] # all[x][2]} |-> all[t]]

coalesceGateChanges(older, newer) ==
    [rule |-> FALSE, gates |-> Changes(older, newer), says |-> older.says \cup newer.says,
     valid |-> newer.valid]

Coalesces(older, newer) ==
    ~older.rule /\ ~newer.rule /\ DOMAIN Changes(older, newer) # {}

\* A record is named after its changes; a rule change after its template.
gateChangeName(e) == <<e.gates, IF e.rule THEN e.says ELSE {}>>
=============================================================================
