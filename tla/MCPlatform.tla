------------------------------ MODULE MCPlatform ------------------------------
(***************************************************************************)
(* What the fiscal flow stands on, checked in one run: the secret store and *)
(* its maintenance, the connection to Hacienda, sessions and API keys, the  *)
(* circuit breaker and the answers of Hacienda, the document from request   *)
(* to XML and PDF, the lookups and the readiness report.  They share no     *)
(* variable, so one of them moves in each behaviour.                        *)
(***************************************************************************)
EXTENDS EncryptedFileSecrets, TLC

CONSTANTS
    Components,   \* the components that may move
    Initialisers, References, MaxWrites,
    Requests, Processes, Parts, MaxStamp,
    Sessions, FirstSession, Validations, Revokers, Companies, Strangers, Assigners, Founders,
    Calls, FailureThreshold, ResetTimeout, MaxPerWindow, Window, Retries429, Retries5xx,
    MaxTime, HttpStatuses,
    ContentHeights, MaxRows, TextHeights, RowHeights, MaxTexts, MaxLines,
    Factor, QuantityUnit, Quantities, Prices,
    OldKey, NewKey, Stranger, InvoiceReaders, MaxChanges

\* Names that stand for nobody are nobody's; bounds are numbers; the first session is one;
\* no cell of a PDF is as high as a page.
ASSUME PlatformConstants ==
    /\ "nobody" \notin Writers /\ MaxVersion \in Nat /\ MaxFaults \in Nat
    /\ {"none", "operator"} \cap Initialisers = {}
    /\ Processes # {} /\ MaxStamp \in Nat /\ "none" \notin Requests
    /\ FirstSession \in Sessions /\ Stranger \notin {OldKey, NewKey}
    /\ FailureThreshold \in Nat \ {0} /\ ResetTimeout \in Nat
    /\ MaxPerWindow \in Nat /\ Window \in Nat /\ MaxTime \in Nat
    /\ HttpStatuses \subseteq Nat /\ MaxRows \in Nat
    /\ ContentHeights \subseteq 0..500 /\ TextHeights \subseteq 0..600
    /\ RowHeights \subseteq 0..600

\* A decimal has some places, and neither a quantity nor a price has a sign.
ASSUME AmountConstants ==
    /\ Factor \in Nat \ {0} /\ QuantityUnit \in Nat \ {0}
    /\ Quantities \subseteq Nat /\ Prices \subseteq Nat

VARIABLES
    moving,       \* the component this behaviour is about
    keyFile, root, initPc, versions, named, backupPc, listed, copied, copiedAll, quiet,
    manifest, damaged, restorePc, value, before, migratePc, missing, raced,
    row, secret, now, requestPc, memory, cache, restored, rotatedIn, late, tied, mixed,
    token, userActive, sessionPc, presented, spentAtBegin, keyEnvironment, keyStatus,
    revokedAt, usage, saving, guard, revokePc, revoked, usageOverlapped, links, linkedBy,
    assignPc, founded, foundPc,
    clock, circuit, stamps, callPc, wakeAt, attempt, cached, sends,
    exchange, answer, failure, decision,
    pdfPc, shape, page, y, box, above, headed, moved, rows,
    drawPc, section, texts, lines, drawPage, drawY, drawBox, drawAbove, qr, footers, signal,
    listening, promise,
    command, stored, xml, file, view,
    documents, linked, live, asked, found,
    facts, report, changes

operationVars == <<keyFile, root, initPc, versions, named, backupPc, listed, copied, copiedAll,
                   quiet, manifest, damaged, restorePc, value, before, migratePc, missing,
                   raced>>
connectionVars == <<row, secret, now, requestPc, memory, cache, restored, rotatedIn, late, tied,
                    mixed>>
accessVars == <<token, userActive, sessionPc, presented, spentAtBegin, keyEnvironment,
                keyStatus, revokedAt, usage, saving, guard, revokePc, revoked, usageOverlapped,
                links, linkedBy, assignPc, founded, foundPc>>
breakerVars == <<clock, circuit, stamps, callPc, wakeAt, attempt, cached, sends>>
answersVars == <<exchange, answer, failure, decision>>
documentPdfVars == <<pdfPc, shape, page, y, box, above, headed, moved, rows>>
representationVars == <<drawPc, section, texts, lines, drawPage, drawY, drawBox, drawAbove, qr,
                        footers, signal, listening, promise>>
xmlDocumentVars == <<command, stored, xml, file, view>>
lookupVars == <<documents, linked, live, asked, found>>
readinessVars == <<facts, report, changes>>
pdfVars == <<documentPdfVars, representationVars>>
flowVars == <<xmlDocumentVars, lookupVars, readinessVars>>
platformVars == <<moving, secretVars, operationVars, connectionVars, accessVars, breakerVars,
                  answersVars, pdfVars, flowVars>>

\* Hacienda accepts the two pairs that belong together.
MatchingPairs == {<<1, 1>>, <<2, 2>>}
\* No discount, or half a unit; no tax, or some.
SomeDiscounts == {-1, Factor \div 2}
SomeTaxes == {-1, Factor \div 8}

Maintenance == INSTANCE SecretStoreOperations
Connection == INSTANCE HaciendaConnection WITH Accepted <- MatchingPairs
Accounts == INSTANCE Access WITH overlapped <- usageOverlapped
Breaker == INSTANCE HaciendaCircuitBreaker
Provider == INSTANCE HaciendaAnswers
Pdf == INSTANCE DocumentPdf
Representation == INSTANCE RepresentationPdf
                    WITH page <- drawPage, y <- drawY, box <- drawBox, above <- drawAbove
Documents == INSTANCE FiscalXmlDocument WITH Discounts <- SomeDiscounts, Taxes <- SomeTaxes
Lookups == INSTANCE FiscalLookups WITH answer <- found
Readiness == INSTANCE FiscalReadiness

\* A component that stays still starts in one state: Moving is decided first, so that
\* the other initial states are never enumerated.
Or(component, still) == moving = component \/ (moving # component /\ still)

PlatformInit ==
    /\ moving \in Components
    /\ Or("secrets", masterKey = StoreKey) /\ Init
    /\ Or("initialise", keyFile = "none") /\ Or("backup", versions = 0)
    /\ Or("migrate", value = [r \in References |-> "none"]) /\ Maintenance!Init
    /\ Connection!Init
    /\ Or("keys", keyEnvironment = "TEST") /\ Accounts!Init
    /\ Breaker!Init /\ Provider!AnswersInit
    /\ Or("documentPdf", shape = CHOOSE s \in Pdf!Shapes : TRUE)
    /\ Pdf!DocumentPdfInit
    /\ Or("representation", qr = "none" /\ signal = "none")
    /\ Representation!RepresentationPdfInit
    /\ IF moving = "documents" THEN Documents!XmlDocumentInit
       ELSE /\ command = Documents!OrdinaryCommand /\ stored = Documents!Nothing
            /\ Documents!NothingWritten
    /\ Lookups!LookupsInit
    /\ IF moving = "readiness" THEN Readiness!ReadinessInit
       ELSE facts = Readiness!ReadyFacts /\ Readiness!NothingRead

(* The store keeps its secrets, and is made, backed up and filled. *)
MoveSecrets ==
    /\ moving = "secrets" /\ Next
    /\ UNCHANGED <<moving, operationVars, connectionVars, accessVars, breakerVars,
                   answersVars, pdfVars, flowVars>>
MoveInitialise ==
    /\ moving = "initialise" /\ Maintenance!Initialise
    /\ UNCHANGED <<moving, secretVars, connectionVars, accessVars, breakerVars,
                   answersVars, pdfVars, flowVars>>
MoveBackup ==
    /\ moving = "backup" /\ Maintenance!BackUpAndRestore
    /\ UNCHANGED <<moving, secretVars, connectionVars, accessVars, breakerVars,
                   answersVars, pdfVars, flowVars>>
MoveMigrate ==
    /\ moving = "migrate" /\ Maintenance!Migrate
    /\ UNCHANGED <<moving, secretVars, connectionVars, accessVars, breakerVars,
                   answersVars, pdfVars, flowVars>>

(* The connection, the accounts, and Hacienda's answers. *)
MoveConnection ==
    /\ moving = "connection" /\ Connection!Next
    /\ UNCHANGED <<moving, secretVars, operationVars, accessVars, breakerVars, answersVars,
                   pdfVars, flowVars>>
MoveSessions ==
    /\ moving = "sessions" /\ Accounts!SessionNext
    /\ UNCHANGED <<moving, secretVars, operationVars, connectionVars, breakerVars,
                   answersVars, pdfVars, flowVars>>
MoveKeys ==
    /\ moving = "keys" /\ Accounts!KeyNext
    /\ UNCHANGED <<moving, secretVars, operationVars, connectionVars, breakerVars,
                   answersVars, pdfVars, flowVars>>
MoveTenants ==
    /\ moving = "tenants" /\ Accounts!TenantNext
    /\ UNCHANGED <<moving, secretVars, operationVars, connectionVars, breakerVars,
                   answersVars, pdfVars, flowVars>>
MoveBreaker ==
    /\ moving = "breaker" /\ Breaker!Next
    /\ UNCHANGED <<moving, secretVars, operationVars, connectionVars, accessVars,
                   answersVars, pdfVars, flowVars>>
MoveAnswers ==
    /\ moving = "answers" /\ Provider!AnswersNext
    /\ UNCHANGED <<moving, secretVars, operationVars, connectionVars, accessVars,
                   breakerVars, pdfVars, flowVars>>

(* The document, its two PDFs, the lookups and the readiness report. *)
MoveDocumentPdf ==
    /\ moving = "documentPdf" /\ Pdf!DocumentPdfNext
    /\ UNCHANGED <<moving, secretVars, operationVars, connectionVars, accessVars,
                   breakerVars, answersVars, flowVars, representationVars>>
MoveRepresentation ==
    /\ moving = "representation" /\ Representation!RepresentationPdfNext
    /\ UNCHANGED <<moving, secretVars, operationVars, connectionVars, accessVars,
                   breakerVars, answersVars, flowVars, documentPdfVars>>
MoveDocuments ==
    /\ moving = "documents" /\ Documents!XmlDocumentNext
    /\ UNCHANGED <<moving, secretVars, operationVars, connectionVars, accessVars,
                   breakerVars, answersVars, pdfVars, lookupVars, readinessVars>>
MoveLookups ==
    /\ moving = "lookups" /\ Lookups!LookupsNext
    /\ UNCHANGED <<moving, secretVars, operationVars, connectionVars, accessVars,
                   breakerVars, answersVars, pdfVars, xmlDocumentVars, readinessVars>>
MoveReadiness ==
    /\ moving = "readiness" /\ Readiness!ReadinessNext
    /\ UNCHANGED <<moving, secretVars, operationVars, connectionVars, accessVars,
                   breakerVars, answersVars, pdfVars, xmlDocumentVars, lookupVars>>

PlatformNext ==
    \/ MoveSecrets \/ MoveInitialise \/ MoveBackup \/ MoveMigrate
    \/ MoveConnection \/ MoveSessions \/ MoveKeys \/ MoveTenants \/ MoveBreaker \/ MoveAnswers
    \/ MoveDocumentPdf \/ MoveRepresentation \/ MoveDocuments \/ MoveLookups \/ MoveReadiness

PlatformSpec == PlatformInit /\ [][PlatformNext]_platformVars

\* What is interchangeable: no definition compares or names these.
Symmetry == Permutations(Requests)

(* The properties of the components, by their names there. *)

\* A stored secret is kept, read whole and recent; a key is never lost by initialising, a
\* verified backup restores what it copied, a migration overwrites nothing it did not see
\* missing (EncryptedFileSecretProvider and the scripts around it).
StoreInv == SecretsInv /\ Maintenance!OperationsInv

\* A connection is CONNECTED with credentials Hacienda accepted, and the process that
\* rotated or disabled them drops its token of the older ones, unless a request for one was
\* under way; another process keeps its own until it expires (the connection's handlers).
ConnectionInv == Connection!ConnectionInv

\* A spent refresh token is refused, a revoked key stays revoked unless a usage record
\* overlaps, who is admitted is linked, and a slug is created once.
AccessInv == Accounts!AccessInv

\* The circuit breaker bounds the rate and decides its half-open state; an answer of
\* Hacienda is read one way by the adapter, the state machine and the classifier.
ProviderInv == Breaker!BreakerInv /\ Provider!AnswersInv

\* What a request says is what is stored, written, and drawn, once and on the page.
DocumentInv ==
    Documents!XmlDocumentInv /\ Pdf!DocumentPdfInv /\ Representation!RepresentationPdfInv

\* A client finds what it created and nobody else does; a company reported ready can issue.
IssuerInv == Lookups!LookupsInv /\ Readiness!ReadinessInv
=============================================================================
