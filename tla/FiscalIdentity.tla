--------------------------- MODULE FiscalIdentity ---------------------------
(***************************************************************************)
(* What issuance promises about the fiscal identities of one sequence,     *)
(* with no transaction, lock or row in sight: an idempotency key is given  *)
(* a consecutive once, for one request body, no consecutive is given to    *)
(* two keys, and what was given is never taken back or changed.            *)
(***************************************************************************)
CONSTANTS Keys, Hashes, Consecutives

VARIABLE issued   \* the identities given out: records of key, body and consecutive

Identity == [key : Keys, hash : Hashes, value : Consecutives]

Init == issued = {}

Issue(identity) ==
    /\ \A other \in issued : /\ other.key # identity.key
                             /\ other.value # identity.value
    /\ issued' = issued \cup {identity}

Next == \E identity \in Identity : Issue(identity)

Spec == Init /\ [][Next]_issued
=============================================================================
