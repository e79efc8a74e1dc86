---------------------------- MODULE WriteOnceStore ----------------------------
(***************************************************************************)
(* What the fiscal services expect of the local object store: an object is *)
(* written once, whole; it may be lost, never replaced; and an upload that *)
(* is told of success has found its own bytes in the store, or put them.   *)
(***************************************************************************)
CONSTANTS Keys, Contents, Uploads, Nothing

VARIABLES
    stored,    \* the content of each key
    accepted   \* per upload, the key and content it has seen stored

Unseen == [key |-> Nothing, content |-> Nothing]

Init ==
    /\ stored = [k \in Keys |-> Nothing]
    /\ accepted = [u \in Uploads |-> Unseen]

Put(k, b) ==
    /\ stored[k] \in {Nothing, b}
    /\ stored' = [stored EXCEPT ![k] = b]

Accept(u, k, b) ==
    /\ accepted[u] = Unseen
    /\ accepted' = [accepted EXCEPT ![u] = [key |-> k, content |-> b]]

Lose(lost) ==
    /\ stored' = [k \in Keys |-> IF k \in lost THEN Nothing ELSE stored[k]]
    /\ UNCHANGED accepted

Next ==
    \/ \E u \in Uploads, k \in Keys, b \in Contents : Put(k, b) /\ Accept(u, k, b)
    \/ \E lost \in SUBSET Keys : Lose(lost)

Spec == Init /\ [][Next]_<<stored, accepted>>
=============================================================================
