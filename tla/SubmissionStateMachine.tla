----------------------- MODULE SubmissionStateMachine -----------------------
(***************************************************************************)
(* The statuses of a fiscal submission and the transition table that       *)
(* FiscalSubmissionStateMachine evaluates.  Pure operators, no state.      *)
(***************************************************************************)

Statuses == {"REQUESTED", "QUEUED", "SUBMITTING", "POST_OUTCOME_UNKNOWN",
             "ACKNOWLEDGED", "PROCESSING", "ACCEPTED", "REJECTED",
             "TECHNICAL_RETRY_PENDING", "MANUAL_REVIEW_REQUIRED", "SUPERSEDED"}

\* The two outcomes only Hacienda can give.
Verdicts == {"ACCEPTED", "REJECTED"}

Terminal == Verdicts \cup {"SUPERSEDED"}

Successors ==
    [ s \in Statuses |->
        CASE s = "REQUESTED" -> {"QUEUED"}
          [] s = "QUEUED" -> {"SUBMITTING"}
          [] s = "SUBMITTING" ->
               {"ACKNOWLEDGED", "POST_OUTCOME_UNKNOWN", "TECHNICAL_RETRY_PENDING",
                "MANUAL_REVIEW_REQUIRED"} \cup Verdicts
          [] s = "POST_OUTCOME_UNKNOWN" ->
               {"PROCESSING", "MANUAL_REVIEW_REQUIRED"} \cup Verdicts
          [] s = "ACKNOWLEDGED" -> {"PROCESSING", "TECHNICAL_RETRY_PENDING"} \cup Verdicts
          [] s = "PROCESSING" -> {"TECHNICAL_RETRY_PENDING"} \cup Verdicts
          [] s = "TECHNICAL_RETRY_PENDING" -> {"QUEUED"}
          [] s = "MANUAL_REVIEW_REQUIRED" -> {"QUEUED", "POST_OUTCOME_UNKNOWN"}
          [] OTHER -> {} ]

CanTransition(from, to) == from = to \/ to \in Successors[from]

\* The same-state case is answered before the terminal one.
EvaluateTransition(from, to) ==
    IF CanTransition(from, to) THEN "APPLIED"
    ELSE IF from \in Terminal THEN "IGNORED_STALE_TERMINAL"
    ELSE "REJECTED"
=============================================================================
