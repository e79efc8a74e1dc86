-------------------------- MODULE HaciendaConnection --------------------------
(***************************************************************************)
(* The credentials of one company in one Hacienda environment: one row that *)
(* names an immutable secret, requests that configure, validate and disable *)
(* it, the worker that authenticates with it, and the token cache of each   *)
(* process (src/modules/hacienda-connection).  A save carries the updatedAt *)
(* it read, in milliseconds; the loser gets a conflict.                     *)
(***************************************************************************)
EXTENDS Naturals, FiniteSets

CONSTANTS
    Requests,         \* requests, configure, validate, disable or authenticate
    Processes,        \* API and worker processes, a token cache each
    Parts,            \* usernames, and passwords
    Accepted,         \* the <<username, password>> pairs Hacienda accepts
    MaxStamp          \* bound: the clock

VARIABLES
    row,              \* the connection row
    secret,           \* [references -> credentials, or None]
    now,              \* the clock, in milliseconds
    requestPc, memory,\* where a request is, and what it holds
    cache,            \* [Processes -> credentials of the cached token, or None]
    restored,         \* references of credentials restored to a CONNECTED row, unasked
    rotatedIn,        \* process of the last committed rotation or disabling
    late,             \* processes a token of replaced credentials arrived in afterwards
    tied,             \* a save was stamped with the millisecond it expected
    mixed             \* a configuration kept half of credentials that were not the row's

connectionVars == <<row, secret, now, requestPc, memory, cache, restored, rotatedIn, late, tied,
                    mixed>>

None == <<0, 0>>
NoReference == "none"
NoRow == [status |-> "NONE", reference |-> NoReference, stamp |-> 0]
NoMemory == [kind |-> "none", process |-> CHOOSE p \in Processes : TRUE, row |-> NoRow,
             credentials |-> None, restore |-> FALSE, result |-> "none", partial |-> FALSE]

RowCredentials == IF row.reference = NoReference THEN None ELSE secret[row.reference]

(* configure-connection *)

\* What is given replaces what the row read names.
Merged(given, previous) ==
    <<IF given[1] = 0 THEN previous[1] ELSE given[1],
      IF given[2] = 0 THEN previous[2] ELSE given[2]>>

\* Variant of NewReference: a rotation writes to the reference the row has.
SameReference(q, read) == IF read.reference = NoReference THEN q ELSE read.reference

\* A rotation takes a reference of its own, a random UUID.
NewReference(q, read) == q

FindAndStoreSecret(q, p) ==
    /\ requestPc[q] = "begin" /\ row.status # "DISABLED"
    /\ \E given \in (Parts \cup {0}) \X (Parts \cup {0}), restore \in BOOLEAN :
          /\ given # None /\ (row.status = "NONE" => 0 \notin {given[1], given[2]})
          /\ restore => /\ row.status = "CONNECTED" /\ 0 \notin {given[1], given[2]}
          /\ LET c == Merged(given, RowCredentials) IN
             /\ secret' = [secret EXCEPT ![NewReference(q, row)] = c]
             /\ memory' = [memory EXCEPT ![q] =
                   [NoMemory EXCEPT !.kind = "configure", !.process = p, !.row = row,
                        !.credentials = c, !.restore = restore,
                        !.partial = 0 \in {given[1], given[2]}]]
    /\ requestPc' = [requestPc EXCEPT ![q] = "saving"]
    /\ UNCHANGED <<row, now, cache, restored, rotatedIn, late, tied, mixed>>

(* validate-connection and disable-connection *)

Find(q, p, kind) ==
    /\ requestPc[q] = "begin" /\ row.status \notin {"NONE", "DISABLED"}
    /\ memory' = [memory EXCEPT ![q] = [NoMemory EXCEPT !.kind = kind, !.process = p, !.row = row]]
    /\ requestPc' = [requestPc EXCEPT ![q] = IF kind = "disable" THEN "saving" ELSE "asking"]
    /\ UNCHANGED <<row, secret, now, cache, restored, rotatedIn, late, tied, mixed>>

\* Disabling again invalidates the cache of this process and saves nothing.
DisableAgain(q, p) ==
    /\ requestPc[q] = "begin" /\ row.status = "DISABLED"
    /\ cache' = [cache EXCEPT ![p] = None] /\ late' = late \ {p}
    /\ requestPc' = [requestPc EXCEPT ![q] = "done"]
    /\ UNCHANGED <<row, secret, now, memory, restored, rotatedIn, tied, mixed>>

\* The token a process keeps: the cache is written before the row, and whatever the row says.
SetToken(p, c) ==
    /\ cache' = [cache EXCEPT ![p] = c]
    /\ late' = IF c = RowCredentials /\ row.status # "DISABLED" THEN late ELSE late \cup {p}

\* Hacienda answers for the credentials of the secret the row read names.
Ask(q) ==
    /\ requestPc[q] = "asking" /\ memory[q].kind = "validate"
    /\ LET c == secret[memory[q].row.reference] IN
       \E result \in {"CONNECTED", "INVALID_CREDENTIALS", "UNAVAILABLE"} :
          /\ result = "CONNECTED" => c \in Accepted
          /\ result = "INVALID_CREDENTIALS" => c \notin Accepted
          /\ memory' = [memory EXCEPT ![q].credentials = c, ![q].result = result]
          /\ IF result = "CONNECTED"
             THEN SetToken(memory[q].process, c) ELSE UNCHANGED <<cache, late>>
    /\ requestPc' = [requestPc EXCEPT ![q] = "saving"]
    /\ UNCHANGED <<row, secret, now, restored, rotatedIn, tied, mixed>>

\* The row each request writes.  A restored secret keeps the status of the row read.
Written(q, stamp) ==
    LET m == memory[q] IN
    CASE m.kind = "configure" ->
           [status |-> IF m.restore THEN m.row.status ELSE "PENDING_VALIDATION",
            reference |-> NewReference(q, m.row), stamp |-> stamp]
      [] m.kind = "validate" -> [m.row EXCEPT !.status = m.result, !.stamp = stamp]
      [] m.kind = "disable" -> [m.row EXCEPT !.status = "DISABLED", !.stamp = stamp]

\* Variant of SaveMatches: the row is updated by its id.
SavesAlways(q) == IF memory[q].row = NoRow THEN row = NoRow ELSE TRUE

\* updateMany where updatedAt is the one read; create when none was, which the unique
\* company and environment refuse to the second.
SaveMatches(q) == IF memory[q].row = NoRow THEN row = NoRow ELSE row.stamp = memory[q].row.stamp

Save(q) ==
    /\ requestPc[q] = "saving" /\ SaveMatches(q)
    /\ \E stamp \in {now, now + 1} :
          /\ stamp <= MaxStamp /\ stamp > 0
          /\ now' = stamp
          /\ row' = Written(q, stamp)
          /\ tied' = (tied \/ (row # NoRow /\ stamp = row.stamp))
    /\ restored' = restored \cup (IF memory[q].restore THEN {row'.reference} ELSE {})
    /\ mixed' = (mixed \/ (memory[q].partial /\ memory[q].row.reference # row.reference))
    /\ IF memory[q].kind = "validate"
       THEN UNCHANGED <<rotatedIn, late>>
       ELSE rotatedIn' = {memory[q].process} /\ late' = {}
    /\ requestPc' = [requestPc EXCEPT ![q] =
                        IF memory[q].kind = "validate" THEN "done" ELSE "invalidating"]
    /\ UNCHANGED <<secret, memory, cache>>

SaveConflicts(q) ==
    /\ requestPc[q] = "saving" /\ ~SaveMatches(q)
    /\ requestPc' = [requestPc EXCEPT ![q] = "done"]
    /\ UNCHANGED <<row, secret, now, memory, cache, restored, rotatedIn, late, tied, mixed>>

\* Variant of Invalidated: the cache is left to expire.
LeftToExpire(p) == cache

\* A committed rotation or disabling drops the token of its own process.
Invalidated(p) == [cache EXCEPT ![p] = None]

Invalidate(q) ==
    /\ requestPc[q] = "invalidating"
    /\ cache' = Invalidated(memory[q].process)
    /\ requestPc' = [requestPc EXCEPT ![q] = "done"]
    /\ UNCHANGED <<row, secret, now, memory, restored, rotatedIn, late, tied, mixed>>

(* The worker's accessToken: a cached token whatever the row says now, or a new one. *)

Authenticate(q) ==
    /\ requestPc[q] = "asking" /\ memory[q].kind = "use"
    /\ LET p == memory[q].process  c == secret[memory[q].row.reference] IN
       \/ cache[p] # None /\ UNCHANGED <<cache, late>>
       \/ cache[p] = None /\ c \in Accepted /\ SetToken(p, c)
       \/ cache[p] = None /\ UNCHANGED <<cache, late>>
    /\ requestPc' = [requestPc EXCEPT ![q] = "done"]
    /\ UNCHANGED <<row, secret, now, memory, restored, rotatedIn, tied, mixed>>

\* The safety margin passes, or Hacienda refuses the token and the worker drops it.
ExpireToken(p) ==
    /\ cache[p] # None
    /\ cache' = [cache EXCEPT ![p] = None] /\ late' = late \ {p}
    /\ UNCHANGED <<row, secret, now, requestPc, memory, restored, rotatedIn, tied, mixed>>

Init ==
    /\ row = NoRow /\ secret = [q \in Requests |-> None] /\ now = 0
    /\ requestPc = [q \in Requests |-> "begin"] /\ memory = [q \in Requests |-> NoMemory]
    /\ cache = [p \in Processes |-> None] /\ restored = {} /\ rotatedIn = {} /\ late = {}
    /\ tied = FALSE /\ mixed = FALSE

Next ==
    \/ \E q \in Requests, p \in Processes :
          \/ FindAndStoreSecret(q, p) \/ DisableAgain(q, p)
          \/ \E kind \in {"validate", "disable", "use"} : Find(q, p, kind)
    \/ \E q \in Requests : Ask(q) \/ Save(q) \/ SaveConflicts(q) \/ Invalidate(q)
                           \/ Authenticate(q)
    \/ \E p \in Processes : ExpireToken(p)

Credentials == (Parts \cup {0}) \X (Parts \cup {0})
Row == [status : {"NONE", "PENDING_VALIDATION", "CONNECTED", "INVALID_CREDENTIALS",
                  "UNAVAILABLE", "DISABLED"},
        reference : Requests \cup {NoReference}, stamp : 0..MaxStamp]
Memory == [kind : {"none", "configure", "validate", "disable", "use"}, process : Processes,
           row : Row, credentials : Credentials, restore : BOOLEAN,
           result : {"none", "CONNECTED", "INVALID_CREDENTIALS", "UNAVAILABLE"},
           partial : BOOLEAN]

TypeOK ==
    /\ row \in Row /\ secret \in [Requests -> Credentials] /\ now \in 0..MaxStamp
    /\ requestPc \in [Requests -> {"begin", "asking", "saving", "invalidating", "done"}]
    /\ memory \in [Requests -> Memory] /\ cache \in [Processes -> Credentials]
    /\ restored \subseteq Requests /\ rotatedIn \subseteq Processes
    /\ late \subseteq Processes /\ tied \in BOOLEAN /\ mixed \in BOOLEAN

\* A connection is CONNECTED only with credentials Hacienda accepts, or that restored those
\* it had: no answer about earlier credentials marks later ones, and no secret changes under
\* the reference it was asked with, even when two saves share a millisecond.
ConnectedIsAccepted ==
    row.status = "CONNECTED" => RowCredentials \in Accepted \/ row.reference \in restored

\* The secret of the row is what the request that won wrote: a loser changes nothing.
SecretIsTheWinners ==
    \A q \in Requests :
        row.reference = q => secret[q] = memory[q].credentials /\ secret[q] # None

\* A request that gives half of the credentials keeps the other half of those it replaces.
HalvesBelongTogether == mixed => tied

\* A rotation or disabling leaves no token of the old credentials in its process, but one
\* whose request was under way, unless two saves within one millisecond took an older row
\* back.
RotationDropsToken ==
    ~tied => \A p \in rotatedIn \ late :
        (\A q \in Requests : ~(requestPc[q] = "invalidating" /\ memory[q].process = p))
        => cache[p] = None \/ (cache[p] = RowCredentials /\ row.status # "DISABLED")

\* One connection under racing requests.
ConnectionInv ==
    TypeOK /\ ConnectedIsAccepted /\ SecretIsTheWinners /\ HalvesBelongTogether
    /\ RotationDropsToken
=============================================================================
