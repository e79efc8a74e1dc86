-------------------------- MODULE MCFiscalIssuance --------------------------
(***************************************************************************)
(* Values for the constants of FiscalIssuance.                             *)
(***************************************************************************)
EXTENDS FiscalIssuance, TLC

CONSTANTS q1, q2, q3, o1, b1, k1, k2, h1, h2

TwoRequests == {q1, q2}
ThreeRequests == {q1, q2, q3}
OneOperator == {o1}
OneOnboarder == {b1}
TwoKeys == {k1, k2}
TwoHashes == {h1, h2}
OneOrTwo == {1, 2}

\* Requests, keys and request bodies are interchangeable.
Symmetry == Permutations(Requests) \cup Permutations(Keys) \cup Permutations(Hashes)
=============================================================================
