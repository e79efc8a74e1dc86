------------------------- MODULE MCFiscalSubmission -------------------------
(***************************************************************************)
(* Values for the constants of FiscalSubmission.  Each limit names the     *)
(* disturbances one run allows; the others do not happen in that run.      *)
(***************************************************************************)
EXTENDS FiscalSubmission, TLC

CONSTANTS c1, c2, w1, w2, s1

OneClient == {c1}
TwoClients == {c1, c2}
OneWorker == {w1}
TwoWorkers == {w1, w2}
OneSweeper == {s1}

\* Clients, and workers, are interchangeable; no property names one of them.
Symmetry == Permutations(Clients) \cup Permutations(Workers)

AtMost(allowed) == allowed @@ [kind \in Disturbances |-> 0]

Once(kinds) == AtMost([kind \in kinds |-> 1])

Outages == AtMost([kind \in {"submit", "signal", "connection", "local"} |-> 1]
                  @@ "post" :> 2)
Failing == Once({"submit", "crash", "local", "post", "get"})
ProviderHiccups == AtMost("submit" :> 1 @@ "post" :> 2)

TwoRequests == AtMost("submit" :> 2)
FailedPollBySignal == Once({"submit", "signal", "get"})
=============================================================================
