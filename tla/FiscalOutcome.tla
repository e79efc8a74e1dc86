--------------------------- MODULE FiscalOutcome ----------------------------
(***************************************************************************)
(* What the submission subsystem promises about one fiscal document, with  *)
(* no queue, worker or row in sight: Hacienda receives the document,       *)
(* decides it once, and the document's recorded outcome is either still    *)
(* open or exactly that decision.  A superseded document stays superseded. *)
(***************************************************************************)
EXTENDS SubmissionStateMachine

VARIABLES authority,   \* what Hacienda holds: "none", "received" or a verdict
          outcome      \* the document's recorded outcome: "open" or a terminal status

vars == <<authority, outcome>>

Init ==
    /\ authority = "none"
    /\ outcome \in {"open", "SUPERSEDED"}

Receive ==
    /\ authority = "none"
    /\ authority' = "received"
    /\ UNCHANGED outcome

Decide ==
    /\ authority = "received"
    /\ authority' \in Verdicts
    /\ UNCHANGED outcome

\* The outcome is copied from the authority, never invented, never revised.
Record ==
    /\ outcome = "open"
    /\ authority \in Verdicts
    /\ outcome' = authority
    /\ UNCHANGED authority

Next == Receive \/ Decide \/ Record

Spec == Init /\ [][Next]_vars
=============================================================================
