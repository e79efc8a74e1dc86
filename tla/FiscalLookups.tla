----------------------------- MODULE FiscalLookups -----------------------------
(***************************************************************************)
(* How a client finds again what it created: by the hash of its request, by *)
(* canonical evidence of what it sold, or by the document's id.  A client   *)
(* renews its API key in between, and the reservation of an idempotency key *)
(* does not belong to the key that made it.  One company and one            *)
(* idempotency key; its reservations differ by operation.  A creation is    *)
(* one transaction, so a lookup sees all of it or nothing.                  *)
(***************************************************************************)

CONSTANTS
    OldKey, NewKey,   \* the client's API keys; the new one replaces the old
    Stranger,         \* a key of another tenant
    InvoiceReaders    \* the keys that may not read tickets

VARIABLES
    documents,   \* the created documents, each with its COMPLETED reservation
    linked,      \* the keys that are linked to the company
    live,        \* the keys the guard lets in
    asked,       \* the request that passed the guard and is being answered
    answer       \* the last answer, and the reservation it was about

lookupVars == <<documents, linked, live, asked, answer>>

ApiKeys == {OldKey, NewKey, Stranger}
Environments == {"PRODUCTION", "SANDBOX"}
Types == {"INVOICE", "TICKET"}

\* What is sold and how its JSON is written; a receiver with a text under a name that
\* ends in "at" or "date" cannot be brought to canonical form.
Payloads == [content : {"a", "b"}, written : {"plain"}]
            \cup {[content |-> "a", written |-> "padded"],
                  [content |-> "odd", written |-> "plain"]}
AnyPayload == [content |-> "a", written |-> "plain"]

NoRequest == [by |-> "nobody"]
NoAnswer == [code |-> "NONE"]
NoDocument == [id |-> "none"]

\* hashRequest: everything but the caller and the key, as it was written.
HashRequest(environment, type, payload) == <<environment, type, payload>>

\* canonicalFiscalPayloadHash, and whether there is one.
Hashable(payload) == payload.content # "odd"
CanonicalHash(payload) == payload.content

\* Variant of Reservations: the key of the caller is part of what is searched.
OwnReservations(type, by) == {d \in documents : d.type = type /\ d.by = by}

\* The rows of this operation and idempotency key; who made them is not asked.
Reservations(type, by) == {d \in documents : d.type = type}

LookupsInit ==
    /\ documents = {} /\ linked = {OldKey} /\ live = ApiKeys
    /\ asked = NoRequest /\ answer = NoAnswer

(* The client. *)

\* createDocument by a linked key: a known idempotency key makes no second document.
CreateAgain(by, environment, type, payload) ==
    /\ by \in linked \cap live
    /\ ~\E d \in documents : d.type = type
    /\ documents' = documents \cup
         {[by |-> by, environment |-> environment, type |-> type, payload |-> payload,
           requestHash |-> HashRequest(environment, type, payload)]}
    /\ UNCHANGED <<linked, live, asked, answer>>

\* The new key is linked to the company, then the old one is revoked.
LinkNewKey ==
    /\ NewKey \notin linked
    /\ linked' = linked \cup {NewKey}
    /\ UNCHANGED <<documents, live, asked, answer>>

RevokeOldKey ==
    /\ NewKey \in linked /\ OldKey \in live
    /\ live' = live \ {OldKey}
    /\ UNCHANGED <<documents, linked, asked, answer>>

Questions ==
    [by : ApiKeys, how : {"request", "evidence"}, environment : Environments, type : Types,
     payload : Payloads]
    \cup [by : ApiKeys, how : {"read"}, environment : {"SANDBOX"}, type : Types,
          payload : {AnyPayload}]

\* A read names a document by its id, which the client has from its creation.  One
\* request is asked in a behaviour: a lookup changes nothing.
Ask(r) ==
    /\ asked = NoRequest /\ answer = NoAnswer /\ r.by \in live
    /\ r.how = "read" => \E d \in documents : d.type = r.type
    /\ asked' = r
    /\ UNCHANGED <<documents, linked, live, answer>>

(* The three handlers. *)

HasScope(r) == r.type = "INVOICE" \/ r.by \notin InvoiceReaders

\* The integrity checks: only the environment is not part of the search.
Intact(d, r) == d.environment = r.environment

\* The answer, with the document there is under that operation, found or not.
Answered(code) ==
    /\ answer' = [code |-> code, request |-> asked, authorized |-> asked.by \in linked,
                  about |-> IF \E d \in documents : d.type = asked.type
                              THEN CHOOSE d \in documents : d.type = asked.type
                              ELSE NoDocument]
    /\ asked' = NoRequest
    /\ UNCHANGED <<documents, linked, live>>

\* rows.length is more than one, or it is one.
Several(rows) == \E d, e \in rows : d # e
One(rows) == rows # {} /\ ~Several(rows)

\* The reservation the search found, if it found one.
Found(r) ==
    LET rows == Reservations(r.type, r.by) IN
    IF One(rows) THEN CHOOSE d \in rows : TRUE ELSE NoDocument

\* FiscalIdentityLookupService.execute: the request's hash is compared first.
ByRequest ==
    /\ asked # NoRequest /\ asked.how = "request"
    /\ LET d == Found(asked)
           code == IF ~HasScope(asked) THEN "INSUFFICIENT_SCOPE"
                   ELSE IF asked.by \notin linked THEN "API_KEY_COMPANY_NOT_AUTHORIZED"
                   ELSE IF Several(Reservations(asked.type, asked.by))
                     THEN "FISCAL_IDENTITY_AMBIGUOUS"
                   ELSE IF \/ d = NoDocument
                           \/ d.requestHash
                                # HashRequest(asked.environment, asked.type, asked.payload)
                     THEN "FISCAL_IDENTITY_NOT_FOUND"
                   ELSE IF ~Intact(d, asked) THEN "FISCAL_IDENTITY_INTEGRITY_ERROR"
                   ELSE "OK" IN
       Answered(code)

\* FiscalIdentityEvidenceLookupService.execute: the row is judged before the evidence.
ByEvidence ==
    /\ asked # NoRequest /\ asked.how = "evidence"
    /\ LET d == Found(asked)
           code == IF ~HasScope(asked) THEN "INSUFFICIENT_SCOPE"
                   ELSE IF asked.by \notin linked THEN "API_KEY_COMPANY_NOT_AUTHORIZED"
                   ELSE IF ~Hashable(asked.payload) THEN "FISCAL_PAYLOAD_EVIDENCE_INVALID"
                   ELSE IF Several(Reservations(asked.type, asked.by))
                     THEN "FISCAL_IDENTITY_AMBIGUOUS"
                   ELSE IF d = NoDocument THEN "FISCAL_IDENTITY_NOT_FOUND"
                   ELSE IF ~Intact(d, asked) THEN "FISCAL_IDENTITY_INTEGRITY_ERROR"
                   ELSE IF ~Hashable(d.payload)
                     THEN "FISCAL_IDENTITY_EVIDENCE_INTEGRITY_ERROR"
                   ELSE IF CanonicalHash(d.payload) # CanonicalHash(asked.payload)
                     THEN "FISCAL_IDENTITY_NOT_FOUND"
                   ELSE "OK" IN
       Answered(code)

\* getDocument: the tenant is part of the search, the company is asked afterwards.
ById ==
    /\ asked # NoRequest /\ asked.how = "read"
    /\ LET code == IF asked.by = Stranger THEN "FISCAL_DOCUMENT_NOT_FOUND"
                   ELSE IF ~HasScope(asked) THEN "INSUFFICIENT_SCOPE"
                   ELSE IF asked.by \notin linked THEN "API_KEY_COMPANY_NOT_AUTHORIZED"
                   ELSE "OK" IN
       Answered(code)

LookupsNext ==
    \/ \E by \in ApiKeys, environment \in Environments, type \in Types, payload \in Payloads :
         CreateAgain(by, environment, type, payload)
    \/ LinkNewKey \/ RevokeOldKey
    \/ \E r \in Questions : Ask(r)
    \/ ByRequest \/ ByEvidence \/ ById

-----------------------------------------------------------------------------
(* Properties. *)

Searched == answer # NoAnswer /\ answer.request.how # "read"

\* A document is shown to nobody but a key of its company that knows what was asked for
\* or sold.
ShownToItsOwn ==
    (answer # NoAnswer /\ answer.code = "OK")
        => /\ answer.request.by # Stranger /\ answer.authorized
           /\ Searched => /\ answer.about.environment = answer.request.environment
                          /\ answer.about.payload.content = answer.request.payload.content

\* A client that repeats what it created finds it, whichever of its keys it uses now,
\* unless what it sold has no canonical form and it searches by evidence.
WhatIsKnownIsFound ==
    (/\ Searched /\ answer.authorized /\ HasScope(answer.request)
     /\ answer.about # NoDocument
     /\ answer.request.environment = answer.about.environment
     /\ answer.request.payload.content = answer.about.payload.content
     /\ answer.request.how = "request" => answer.request.payload = answer.about.payload)
        => \/ answer.code = "OK"
           \/ answer.request.how = "evidence" /\ ~Hashable(answer.about.payload)

\* No row of this program is ambiguous or damaged: the integrity errors say that the
\* idempotency key was used in the other environment, or that what was sold has no
\* canonical form.
IntegrityErrorsAreNoDamage ==
    Searched =>
        /\ answer.code # "FISCAL_IDENTITY_AMBIGUOUS"
        /\ answer.code = "FISCAL_IDENTITY_EVIDENCE_INTEGRITY_ERROR"
              => ~Hashable(answer.about.payload)
        /\ answer.code = "FISCAL_IDENTITY_INTEGRITY_ERROR"
              => answer.about.environment # answer.request.environment

LookupsInv == ShownToItsOwn /\ WhatIsKnownIsFound /\ IntegrityErrorsAreNoDamage
=============================================================================
