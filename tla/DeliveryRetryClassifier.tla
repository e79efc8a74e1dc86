---------------------- MODULE DeliveryRetryClassifier ----------------------
(***************************************************************************)
(* How an email delivery goes on after a failure: the error class of what  *)
(* went wrong, and the status DeliveryRetryClassifier chooses for it.      *)
(* Pure operators, no state.                                               *)
(***************************************************************************)

EXTENDS Naturals

\* The attachments will not become sendable by waiting.
Blocked == {"ARTIFACT_HASH_MISMATCH", "ARTIFACT_CORRUPT", "HISTORICAL_MOCK",
            "ARTIFACT_WRONG_VERSION"}

\* The provider will refuse this mail again.
Permanent == {"INVALID_RECIPIENT", "PERMANENT_PROVIDER_REJECTION"}

\* Retried up to the horizon, then failed.
Transient == {"TRANSIENT_PROVIDER_FAILURE", "NETWORK_TIMEOUT", "PROVIDER_RATE_LIMIT",
              "ARTIFACT_MISSING", "PDF_NOT_YET_GENERATED", "REJECTED_HACIENDA_RESPONSE"}

ErrorClasses == Blocked \cup Permanent \cup Transient \cup
    {"DUPLICATE_TRIGGER", "MANUAL_RESEND_AFTER_DELIVERED", "CONFIG_CREDENTIAL_ERROR",
     "WORKER_CRASH_STALE_SENDING", "UNKNOWN_EXTERNAL_OUTCOME", "UNKNOWN_PROVIDER_RESPONSE"}

Classify(errorClass, retryCount, maxRetries) ==
    LET exhausted == retryCount >= maxRetries IN
    CASE errorClass \in {"DUPLICATE_TRIGGER", "MANUAL_RESEND_AFTER_DELIVERED"} -> "QUEUED"
      [] errorClass \in Blocked \cup Permanent -> "FAILED"
      [] errorClass \in Transient -> IF exhausted THEN "FAILED" ELSE "RETRY_PENDING"
      [] errorClass = "WORKER_CRASH_STALE_SENDING" -> "RETRY_PENDING"
      [] errorClass = "UNKNOWN_PROVIDER_RESPONSE" ->
           IF exhausted THEN "MANUAL_REVIEW_REQUIRED" ELSE "RETRY_PENDING"
      [] OTHER -> "MANUAL_REVIEW_REQUIRED"

\* mapOutcomeToErrorClass for the outcomes of the email port; an UNKNOWN outcome
\* comes with its own error code.
ErrorClassOfOutcome ==
    [ TRANSIENT_FAILURE |-> "TRANSIENT_PROVIDER_FAILURE",
      PERMANENT_FAILURE |-> "PERMANENT_PROVIDER_REJECTION",
      RATE_LIMITED |-> "PROVIDER_RATE_LIMIT",
      UNKNOWN |-> "UNKNOWN_EXTERNAL_OUTCOME" ]
=============================================================================
