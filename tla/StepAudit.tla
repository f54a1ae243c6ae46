------------------------------ MODULE StepAudit ------------------------------
(***************************************************************************)
(* The records of a PromotionStep's transitions                            *)
(* (pkg/reconciler/promotionstep/audit.go and transition.go).              *)
(***************************************************************************)
EXTENDS Naturals, Sequences

\* The suffix of the AuditEvent's name; the step's own name is the same for all.
slugifyAction(action) ==
    CASE action = "PromotionStarted" -> "started"
      [] action = "PromotionSucceeded" -> "succeeded"
      [] action = "PromotionFailed" -> "failed"
      [] action = "PromotionSuperseded" -> "superseded"
      [] action = "PromotionRejected" -> "rejected"
      [] action = "RollbackStarted" -> "rollback-started"
      [] action = "RollbackSucceeded" -> "rollback-succeeded"
      [] OTHER -> "event"

\* The entries of a change of state with audit action action ("": the state's
\* default): auditEntries, and the ReceiptFailed that patchState adds.  noReceipt:
\* the receipt can never be built; rollback: the step is of a rollback Bundle.
auditEntries(state, action, noReceipt, rollback) ==
    CASE state = "Promoting" -> <<"PromotionStarted">>
      [] state = "HealthChecking" -> IF action = "PRMerged" THEN <<"PRMerged">> ELSE <<>>
      [] state = "Verified" ->
           <<"PromotionSucceeded">>
             \o (IF rollback THEN <<"RollbackSucceeded">> ELSE <<>>)
             \o (IF noReceipt THEN <<"ReceiptFailed">> ELSE <<>>)
      [] state \in {"Failed", "AbortedByAlarm"} ->
           <<IF action = "" THEN "PromotionFailed" ELSE action>>
      [] state = "RollingBack" -> <<"RollbackStarted">>
      [] state = "Superseded" -> IF action = "" THEN <<>> ELSE <<action>>
      [] OTHER -> <<>>

\* The records of a step that makes changes, each <<state, action>>.
Story(changes, noReceipt, rollback) ==
    [n \in DOMAIN changes |-> auditEntries(changes[n][1], changes[n][2], noReceipt, rollback)]
=============================================================================
