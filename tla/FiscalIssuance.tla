--------------------------- MODULE FiscalIssuance ---------------------------
(***************************************************************************)
(* The creation of fiscal documents of one sequence: one tenant, company,  *)
(* environment, issuance point and document type.  createDocument runs in  *)
(* one read-committed PostgreSQL transaction that reserves the idempotency *)
(* key, checks the Hacienda connection, allocates the consecutive and      *)
(* creates the document.  The sequence can be configured by the management *)
(* API and by onboarding while documents are being created.                *)
(*                                                                         *)
(* The variables hold what is committed; what a transaction has written    *)
(* and not committed is its memory, and the row locks it holds until it    *)
(* ends are "keyLock" and "sequenceLock".  A step is one statement.        *)
(***************************************************************************)
EXTENDS Naturals, FiniteSets

CONSTANTS
    Requests,      \* calls of createDocument, each made once
    Operators,     \* calls of configureSequence, the management API
    Onboarders,    \* calls of configureInitialSequence, the onboarding API
    Keys,          \* idempotency keys
    Hashes,        \* hashes of request bodies
    FirstValues,   \* values a configuration asks for
    LastValue,     \* 9999999999
    PoolSize,      \* connections of the Prisma pool
    MaxRotations   \* bound: rotations of the Hacienda credentials

Configurers == Operators \cup Onboarders

ASSUME ActorsAreDisjoint ==
    /\ Requests \cap Configurers = {}
    /\ Operators \cap Onboarders = {}
ASSUME LastValueIsPositive == LastValue \in Nat \ {0}
ASSUME FirstValuesAreValid == FirstValues \subseteq 1..LastValue
ASSUME PoolAndBoundsAreNat ==
    /\ PoolSize \in Nat \ {0}
    /\ MaxRotations \in Nat

VARIABLES
    sequence,       \* the FiscalSequence row
    sequenceLock,   \* the transaction that has written it and not ended
    idempotency,    \* the FiscalIdempotencyKey rows
    keyLock,        \* per key, the transaction that has inserted the row and not ended
    documents,      \* the FiscalDocument created by each request
    connection,     \* the HaciendaConnection row
    pc,             \* where each call stands
    mem,            \* the local variables of each request
    asked,          \* the initial value each configuration asks for
    answer,         \* the document each request was answered with
    overwritten,    \* history: configureSequence wrote over a started sequence
    overtaken       \* history: requests that have rechecked a connection changed since

vars == <<sequence, sequenceLock, idempotency, keyLock, documents, connection,
          pc, mem, asked, answer, overwritten, overtaken>>

-----------------------------------------------------------------------------
(* Types *)

None == "NONE"

ASSUME NoneIsNobody == None \notin Requests \cup Keys \cup Hashes

\* last: lastAssigned, 0 for null.  A row that is not present has next 1.
Sequence == [present : BOOLEAN, next : Nat, last : Nat]

\* document: the request that created it.  hash None: no row.
Reservation == [hash : Hashes \cup {None}, document : Requests \cup {None}]

\* UNCONFIRMED: PENDING_VALIDATION, INVALID_CREDENTIALS, UNAVAILABLE.
\* reference: secretReference, a fresh one for every rotation.
Connection == [status : {"CONNECTED", "UNCONFIRMED", "DISABLED"}, reference : Nat]

Connected(reference) == [status |-> "CONNECTED", reference |-> reference]

\* value 0: no document.  under, history: the connection row as its transaction commits.
Document == [value : Nat, key : Keys \cup {None}, hash : Hashes \cup {None},
             under : Connection]

\* eligible: the reference the eligibility check returned.  value: the consecutive
\* allocated and not committed.
Memory == [key : Keys \cup {None}, hash : Hashes \cup {None}, eligible : Nat, value : Nat]

NoDocument == [value |-> 0, key |-> None, hash |-> None, under |-> Connected(0)]
NoMemory == [key |-> None, hash |-> None, eligible |-> 0, value |-> 0]

Labels == {"idle", "lookup", "reserve", "eligible", "recheck", "allocate", "create",
           "done"}

\* Where a transaction is open, and where it holds the row of its key.
InTransaction == Labels \ {"idle", "done"}
Reserved == {"eligible", "recheck", "allocate", "create"}

TypeOK ==
    /\ sequence \in Sequence
    /\ sequenceLock \in Requests \cup {None}
    /\ idempotency \in [Keys -> Reservation]
    /\ keyLock \in [Keys -> Requests \cup {None}]
    /\ documents \in [Requests -> Document]
    /\ connection \in Connection
    /\ pc \in [Requests \cup Configurers -> Labels]
    /\ mem \in [Requests -> Memory]
    /\ asked \in [Configurers -> Nat]
    /\ answer \in [Requests -> Requests \cup {None}]
    /\ overwritten \in BOOLEAN
    /\ overtaken \subseteq Requests

-----------------------------------------------------------------------------
(* Shared pieces *)

Goto(c, label) == pc' = [pc EXCEPT ![c] = label]

\* A connection of the pool is free; every open transaction keeps one.
ConnectionFree ==
    Cardinality({r \in Requests : pc[r] \in InTransaction}) < PoolSize

Unlocked(lock, r) == IF lock = r THEN None ELSE lock

\* The transaction ends: its locks go, and with them, unless it is committed,
\* everything it has written.
End(r) ==
    /\ sequenceLock' = Unlocked(sequenceLock, r)
    /\ keyLock' = [k \in Keys |-> Unlocked(keyLock[k], r)]
    /\ Goto(r, "done")

\* Variant of Rollback: the value is not given back, as with a PostgreSQL sequence.
RollbackKeepingValue(r) ==
    /\ End(r)
    /\ sequence' = IF sequenceLock # r THEN sequence
                   ELSE [present |-> TRUE, next |-> sequence.next + 1, last |-> sequence.next]
    /\ overtaken' = overtaken \ {r}
    /\ UNCHANGED <<idempotency, documents, connection, mem, asked, answer, overwritten>>

Rollback(r) ==
    /\ End(r)
    /\ overtaken' = overtaken \ {r}
    /\ UNCHANGED <<sequence, idempotency, documents, connection, mem, asked, answer,
                   overwritten>>

\* Variant of Resolve: the hash of the body is not compared.
ResolveAnyBody(r) ==
    /\ End(r)
    /\ answer' = [answer EXCEPT ![r] = idempotency[mem[r].key].document]
    /\ UNCHANGED <<sequence, idempotency, documents, connection, mem, asked, overwritten,
                   overtaken>>

\* resolveExistingIdempotencyKey: the document of the same body, or a conflict.
Resolve(r) ==
    LET found == idempotency[mem[r].key] IN
    /\ End(r)
    /\ answer' = [answer EXCEPT ![r] = IF found.hash = mem[r].hash THEN found.document
                                       ELSE None]
    /\ UNCHANGED <<sequence, idempotency, documents, connection, mem, asked, overwritten,
                   overtaken>>

-----------------------------------------------------------------------------
(* createDocument.  A call refused by the checks of lines 237-263 (command,   *)
(* company, API key, fiscal profile) changes nothing and is left out.         *)

Begin(r) ==
    /\ pc[r] = "idle"
    /\ ConnectionFree
    /\ \E k \in Keys, h \in Hashes : mem' = [mem EXCEPT ![r] = [NoMemory EXCEPT
                                                !.key = k, !.hash = h]]
    /\ Goto(r, "lookup")
    /\ UNCHANGED <<sequence, sequenceLock, idempotency, keyLock, documents, connection,
                   asked, answer, overwritten, overtaken>>

\* reserveIdempotencyKey, the first read.
Lookup(r) ==
    /\ pc[r] = "lookup"
    /\ \/ /\ idempotency[mem[r].key].hash # None
          /\ Resolve(r)
       \/ /\ idempotency[mem[r].key].hash = None
          /\ Goto(r, "reserve")
          /\ UNCHANGED <<sequence, sequenceLock, idempotency, keyLock, documents,
                         connection, mem, asked, answer, overwritten, overtaken>>

\* Variant of Reserve: an insert that trusts the first read.
ReserveUnchecked(r) ==
    /\ pc[r] = "reserve"
    /\ keyLock' = [keyLock EXCEPT ![mem[r].key] = r]
    /\ Goto(r, "eligible")
    /\ UNCHANGED <<sequence, sequenceLock, idempotency, documents, connection, mem, asked,
                   answer, overwritten, overtaken>>

\* INSERT ... ON CONFLICT DO NOTHING waits for a transaction that has inserted the
\* same key; the row of one that committed is never deleted, so the second read finds it.
Reserve(r) ==
    /\ pc[r] = "reserve"
    /\ keyLock[mem[r].key] = None
    /\ \/ /\ idempotency[mem[r].key].hash # None
          /\ Resolve(r)
       \/ /\ idempotency[mem[r].key].hash = None
          /\ keyLock' = [keyLock EXCEPT ![mem[r].key] = r]
          /\ Goto(r, "eligible")
          /\ UNCHANGED <<sequence, sequenceLock, idempotency, documents, connection, mem,
                         asked, answer, overwritten, overtaken>>

\* haciendaEligibility reads outside the transaction, on a second connection of the
\* pool; the secret may be unavailable.
CheckEligibility(r) ==
    /\ pc[r] = "eligible"
    /\ ConnectionFree
    /\ \/ Rollback(r)
       \/ /\ connection.status = "CONNECTED"
          /\ mem' = [mem EXCEPT ![r] = [@ EXCEPT !.eligible = connection.reference]]
          /\ Goto(r, "recheck")
          /\ UNCHANGED <<sequence, sequenceLock, idempotency, keyLock, documents,
                         connection, asked, answer, overwritten, overtaken>>

\* Variant of StillEligible: the recheck looks at the status only.
StillConnected(r) == connection.status = "CONNECTED"

\* The same connection, still CONNECTED with the same reference.
StillEligible(r) ==
    /\ connection.status = "CONNECTED"
    /\ connection.reference = mem[r].eligible

\* The connection is read again in the transaction.  The issuance point stays.
Recheck(r) ==
    /\ pc[r] = "recheck"
    /\ \/ /\ ~StillEligible(r)
          /\ Rollback(r)
       \/ /\ StillEligible(r)
          /\ Goto(r, "allocate")
          /\ UNCHANGED <<sequence, sequenceLock, idempotency, keyLock, documents,
                         connection, mem, asked, answer, overwritten, overtaken>>

\* INSERT ... ON CONFLICT DO UPDATE waits for the row's lock and keeps it: the row is
\* inserted with last_assigned 1, or next_value is assigned.
Allocate(r) ==
    /\ pc[r] = "allocate"
    /\ sequenceLock = None
    /\ \/ /\ sequence.next > LastValue
          /\ Rollback(r)
       \/ /\ sequence.next <= LastValue
          /\ sequenceLock' = r
          /\ mem' = [mem EXCEPT ![r] = [@ EXCEPT !.value = sequence.next]]
          /\ Goto(r, "create")
          /\ UNCHANGED <<sequence, idempotency, keyLock, documents, connection, asked,
                         answer, overwritten, overtaken>>

\* Variant of Taken: no unique index.
NeverTaken(value) == FALSE

\* The unique index on the consecutive.
Taken(value) == \E d \in Requests : documents[d].value = value

\* The document, the completed reservation and the commit; nobody sees the first
\* two before the third.
Create(r) ==
    /\ pc[r] = "create"
    /\ \/ /\ Taken(mem[r].value)
          /\ Rollback(r)
       \/ /\ ~Taken(mem[r].value)
          /\ documents' = [documents EXCEPT ![r] =
                [value |-> mem[r].value, key |-> mem[r].key, hash |-> mem[r].hash,
                 under |-> connection]]
          /\ idempotency' = [idempotency EXCEPT ![mem[r].key] =
                [hash |-> mem[r].hash, document |-> r]]
          /\ sequence' = [present |-> TRUE, next |-> mem[r].value + 1,
                          last |-> mem[r].value]
          /\ answer' = [answer EXCEPT ![r] = r]
          /\ End(r)
          /\ UNCHANGED <<connection, mem, asked, overwritten, overtaken>>

\* The time limit of an interactive transaction, a lost database or a dying process.
TimeOut(r) ==
    /\ pc[r] \in InTransaction
    /\ Rollback(r)

-----------------------------------------------------------------------------
(* Configuration of the sequence; a refused call changes nothing.            *)

\* configureSequence: refused once lastAssigned is set.
ConfigureRead(o) ==
    /\ pc[o] = "idle"
    /\ sequence.last = 0
    /\ \E v \in FirstValues : asked' = [asked EXCEPT ![o] = v]
    /\ Goto(o, "create")
    /\ UNCHANGED <<sequence, sequenceLock, idempotency, keyLock, documents, connection,
                   mem, answer, overwritten, overtaken>>

\* The upsert sets next_value whatever the row has become.
ConfigureWrite(o) ==
    /\ pc[o] = "create"
    /\ sequenceLock = None
    /\ sequence' = [sequence EXCEPT !.present = TRUE, !.next = asked[o]]
    /\ overwritten' = (overwritten \/ sequence.last # 0)
    /\ Goto(o, "done")
    /\ UNCHANGED <<sequenceLock, idempotency, keyLock, documents, connection, mem, asked,
                   answer, overtaken>>

\* configureInitialSequence: an existing row is only compared.
InitializeRead(o) ==
    /\ pc[o] = "idle"
    /\ ~sequence.present
    /\ \E v \in FirstValues : asked' = [asked EXCEPT ![o] = v]
    /\ Goto(o, "create")
    /\ UNCHANGED <<sequence, sequenceLock, idempotency, keyLock, documents, connection,
                   mem, answer, overwritten, overtaken>>

\* The create fails on the unique index if the row has appeared meanwhile.
InitializeWrite(o) ==
    /\ pc[o] = "create"
    /\ sequenceLock = None
    /\ sequence' = IF sequence.present THEN sequence
                   ELSE [sequence EXCEPT !.present = TRUE, !.next = asked[o]]
    /\ Goto(o, "done")
    /\ UNCHANGED <<sequenceLock, idempotency, keyLock, documents, connection, mem, asked,
                   answer, overwritten, overtaken>>

-----------------------------------------------------------------------------
(* The Hacienda connection, one action per save of its entity: saves are      *)
(* guarded by the version read, so each acts on the row it has read.          *)

\* The transactions that have rechecked the row do not look at it again: it is not
\* locked, and a save changes it under them.
Overtakes ==
    overtaken' = IF connection' = connection THEN overtaken
                 ELSE overtaken \cup {r \in Requests : pc[r] \in {"allocate", "create"}}

\* configure: credentials are stored under a fresh reference; the restore of a lost
\* secret keeps CONNECTED.
RotateCredentials ==
    /\ connection.status # "DISABLED"
    /\ connection.reference < MaxRotations
    /\ \E s \in {"UNCONFIRMED", connection.status} :
          connection' = [status |-> s, reference |-> connection.reference + 1]
    /\ Overtakes
    /\ UNCHANGED <<sequence, sequenceLock, idempotency, keyLock, documents, pc, mem, asked,
                   answer, overwritten>>

\* validate: the provider's answer decides.
ValidateConnection ==
    /\ connection.status # "DISABLED"
    /\ \E s \in {"CONNECTED", "UNCONFIRMED"} :
          connection' = [connection EXCEPT !.status = s]
    /\ Overtakes
    /\ UNCHANGED <<sequence, sequenceLock, idempotency, keyLock, documents, pc, mem, asked,
                   answer, overwritten>>

DisableConnection ==
    /\ connection' = [connection EXCEPT !.status = "DISABLED"]
    /\ Overtakes
    /\ UNCHANGED <<sequence, sequenceLock, idempotency, keyLock, documents, pc, mem, asked,
                   answer, overwritten>>

-----------------------------------------------------------------------------
(* Specification *)

Init ==
    /\ sequence = [present |-> FALSE, next |-> 1, last |-> 0]
    /\ sequenceLock = None
    /\ idempotency = [k \in Keys |-> [hash |-> None, document |-> None]]
    /\ keyLock = [k \in Keys |-> None]
    /\ documents = [r \in Requests |-> NoDocument]
    /\ connection = [status |-> "CONNECTED", reference |-> 0]
    /\ pc = [c \in Requests \cup Configurers |-> "idle"]
    /\ mem = [r \in Requests |-> NoMemory]
    /\ asked = [o \in Configurers |-> 0]
    /\ answer = [r \in Requests |-> None]
    /\ overwritten = FALSE
    /\ overtaken = {}

Next ==
    \/ \E r \in Requests : Begin(r)
    \/ \E r \in Requests : Lookup(r)
    \/ \E r \in Requests : Reserve(r)
    \/ \E r \in Requests : CheckEligibility(r)
    \/ \E r \in Requests : Recheck(r)
    \/ \E r \in Requests : Allocate(r)
    \/ \E r \in Requests : Create(r)
    \/ \E r \in Requests : TimeOut(r)
    \/ \E o \in Operators : ConfigureRead(o)
    \/ \E o \in Operators : ConfigureWrite(o)
    \/ \E o \in Onboarders : InitializeRead(o)
    \/ \E o \in Onboarders : InitializeWrite(o)
    \/ RotateCredentials
    \/ ValidateConnection
    \/ DisableConnection

Spec == Init /\ [][Next]_vars

-----------------------------------------------------------------------------
(* Properties *)

\* Locks are held by the transactions that took them, reservations and documents
\* point at each other, and only committed values are on documents.
LocksAreHeld ==
    /\ \A k \in Keys : keyLock[k] # None =>
          /\ pc[keyLock[k]] \in Reserved
          /\ mem[keyLock[k]].key = k
          /\ idempotency[k].hash = None
    /\ \A r \in Requests : pc[r] \in Reserved => keyLock[mem[r].key] = r
    /\ sequenceLock # None =>
          /\ pc[sequenceLock] = "create"
          /\ mem[sequenceLock].value = sequence.next
    /\ \A r \in Requests : pc[r] = "create" => sequenceLock = r

\* What the calls have read and not yet written.
MemoryIsRight ==
    /\ \A r \in Requests : pc[r] \in InTransaction => /\ mem[r].key \in Keys
                                                     /\ mem[r].hash \in Hashes
    /\ \A r \in Requests : pc[r] \in {"allocate", "create"} /\ r \notin overtaken =>
          connection = Connected(mem[r].eligible)
    /\ \A r \in Requests : pc[r] = "create" => mem[r].value \in 1..LastValue
    /\ \A o \in Configurers : pc[o] = "create" => asked[o] \in FirstValues
    /\ sequence.next # 0
    /\ sequence.last # 0 => sequence.present

ReservationsPointAtDocuments ==
    /\ \A k \in Keys : idempotency[k].hash # None =>
          LET d == idempotency[k].document IN
          /\ d \in Requests
          /\ documents[d].value # 0
          /\ documents[d].key = k
          /\ documents[d].hash = idempotency[k].hash
    /\ \A r \in Requests : documents[r].value # 0 =>
          /\ pc[r] = "done"
          /\ documents[r].value \in 1..LastValue
          /\ documents[r].key \in Keys
          /\ documents[r].hash \in Hashes
          /\ idempotency[documents[r].key].document = r
          /\ idempotency[documents[r].key].hash = documents[r].hash

\* The inductive invariant of the proofs: the locks PostgreSQL takes, the rows of
\* fiscal-document.service.ts and what each open transaction knows fit together.
IssuanceInv ==
    /\ TypeOK
    /\ MemoryIsRight
    /\ LocksAreHeld
    /\ ReservationsPointAtDocuments

\* A client that repeats a request, while the first is running or after it has ended
\* in whatever way, is answered with the one document of its key and its own body.
AnsweredAsAsked ==
    \A r \in Requests : answer[r] # None =>
        LET d == answer[r] IN /\ pc[r] = "done"
                              /\ documents[d].value # 0
                              /\ documents[d].key = mem[r].key
                              /\ documents[d].hash = mem[r].hash

\* A document is committed while the connection row is CONNECTED with the credentials
\* its own eligibility check has read, whatever is rotated, disabled or validated
\* before its recheck.  Nothing looks at the row after the recheck (line 295), so a save
\* between it and the commit is not noticed: those requests, and no others, are excepted.
IssuedAsChecked ==
    \A r \in Requests : documents[r].value # 0 /\ r \notin overtaken =>
        documents[r].under = Connected(mem[r].eligible)

Values == {documents[r].value : r \in Requests} \ {0}

\* Consecutives are issued without gaps up to lastAssigned, although transactions
\* fail after allocating, unless configureSequence has overwritten a started sequence.
SequenceIsDense ==
    ~overwritten =>
        /\ sequence.last # 0 => sequence.next = sequence.last + 1
        /\ \A v \in Values : v..sequence.last \subseteq Values /\ v <= sequence.last
        /\ sequence.last # 0 => sequence.last \in Values

\* The two identities of the abstract specification: key and consecutive.
Identities == {[key |-> documents[r].key, hash |-> documents[r].hash,
                value |-> documents[r].value] :
               r \in {d \in Requests : documents[d].value # 0}}

Abstract == INSTANCE FiscalIdentity WITH issued <- Identities, Consecutives <- 1..LastValue

\* One consecutive and one body per idempotency key, one key per consecutive, for ever.
IdentityRefinement == Abstract!Spec

\* A started sequence goes on at the value after the last one assigned, also when
\* its initialization races with the first allocation.
SequenceIsIntact == sequence.last # 0 => sequence.next = sequence.last + 1

=============================================================================
