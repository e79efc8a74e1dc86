------------------------- MODULE MCDocumentDelivery -------------------------
(***************************************************************************)
(* Values for the constants of DocumentDelivery.                           *)
(***************************************************************************)
EXTENDS DocumentDelivery, TLC

CONSTANTS r1, r2, w1, w2, s1

OneRequester == {r1}
TwoRequesters == {r1, r2}
OneWorker == {w1}
TwoWorkers == {w1, w2}
OneScanner == {s1}

\* Requesters, and workers, are interchangeable; no property names one of them.
Symmetry == Permutations(Requesters) \cup Permutations(Workers)

AtMost(allowed) == allowed @@ [cost \in Disturbances |-> 0]

HookResendAndDeath == AtMost("ensure" :> 1 @@ "resend" :> 1 @@ "crash" :> 1)
HookAndFailures == AtMost("ensure" :> 1 @@ "resend" :> 2 @@ "local" :> 1 @@ "crash" :> 1)
=============================================================================
