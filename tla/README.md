# Billing-API: verification models

TLA+ models of Billing-API, the NestJS service that issues Costa Rican
electronic invoices and tickets, signs them and submits them to Hacienda: state
machines, jobs, recovery, the provider, the storage and the secrets below them,
and the company data above, with TLC runs on small instances and TLAPS proofs
for all instances.

Paths below are relative to the repository. `fd/` stands for
`src/modules/fiscal-documents/`.

## 1. Inventory of the system

The program is one NestJS process (possibly several instances) over one
PostgreSQL database, pg-boss queues in the same database, object storage and a
secret store.  Concurrency comes from HTTP requests, from queue jobs, from
timers and from several instances; every `await` is a point where another of
them may run.

| Component | State | Operations | Hard behaviour |
|---|---|---|---|
| Fiscal submission (`fd/application/submission`) | `FiscalSubmission` row (status, `nextAttemptAt`, `lastAttemptAt`, response reference), `FiscalDocument.status`, two queues | submit request, reconcile request, callback, submit job, reconcile job, recovery sweep | stale reads before updates, lost publications, crash between POST and write, ambiguous POST, duplicate jobs |
| Hacienda connection (`src/modules/hacienda-connection`) | connection row with status and `updatedAt`, immutable secrets, token cache per process | configure, validate, disable, authenticate | optimistic save by timestamp, validation that answers late, token of replaced credentials |
| Hacienda's answers (`fd/infrastructure/submission`) | none | reading of a POST or GET answer, retry classification | a status that may hide a received document, untrusted text in diagnostics |
| Delivery (`fd/application/delivery`) | `DocumentDelivery`, `DeliveryAttempt` | ensure initial package, ensure response delivery, delivery job, resend, recovery scan | mail sent but write failed, stale worker, lost hook, resend during sending |
| Artifacts, PDF (`fd/application/artifacts`, `pdf`, `fd/infrastructure/pdf`) | `FiscalArtifact` rows, objects in storage, logos | index signed XML and response, generate PDF, download, lay out pages | racing generations, compensation that deletes a winner's file, row without file, abort while drawing |
| Issuance (`fd/application/fiscal-document.service.ts`, lookups) | idempotency key, sequence, document | validate and create a document, configure the sequence, find a document again | idempotent retry during the first attempt, gap-free consecutive, credentials rotated in between, evidence computed twice |
| Fiscal XML (`fd/application/fiscal-xml`, `fd/infrastructure/xml`) | `FiscalXmlArtifact`, two objects, `FiscalDocument.status` | prepare (generate, sign, validate, store), project for the PDF | two preparations of one document, failure between upload and transaction, amounts rounded in several places |
| Signing certificates (`fd/application/fiscal-xml`) | certificate rows, secrets | upload and rotate, use for signing | secrets stored before the transaction, compensation, identity change of the company |
| Companies (`src/modules/companies`) | company, fiscal profile, activities | create, verify, choose a default, change identity | verification against an operator's choice, identity against documents in creation |
| Onboarding (`src/modules/fiscal-onboarding`) | association, credential, branches, terminals, points, test invoice | provision, bootstrap, open and close, select a default, readiness | repeated and racing requests, check before write, lock that expires |
| Identity, API keys (`src/modules/identity`, `api-keys`) | users, refresh tokens, keys, links | login, refresh, validate, revoke, assign, create tenants | concurrent refresh of one token, revocation under a usage record |
| Public queries, circuit breaker (`src/infrastructure/integrations`) | circuit, rate window and cache in memory | lookup of taxpayers, CABYS, exchange rates | late answers, retries that pass the circuit, half-open state |
| Secret store (`src/infrastructure/secrets`) | version files, `metadata.json`, lock file, key file | store, delete, read, initialise, back up, restore, migrate | two processes, stale lock, crash while writing, backup while services write |
| Storage (`src/infrastructure/storage`) | files, or objects of S3 | upload, delete, read | power loss, two uploads of one key |
| Configuration, audit, HTTP, scripts | none of their own | I/O and validation | failures show up in the callers |

How they interact: a request with an API key that the guard lets in creates a
document from the company's profile, activities, issuance point and sequence.
Preparing the XML takes the active certificate and its secrets, stores the signed
file, leaves the document `READY_TO_SUBMIT` and schedules the initial delivery; a
submit request creates the submission and publishes a job; jobs authenticate with
the connection's credentials, call Hacienda and apply results to submission and
document; a terminal result is indexed as an artifact and schedules the delivery
of the response.  The delivery never writes the fiscal statuses.

What makes each component correct:

* submission: outcomes come from Hacienda only, terminal statuses do not change,
  submission and document agree, one POST in flight, no second POST of a received
  document, queued work ends;
* connection: `CONNECTED` means credentials Hacienda accepted, a replaced or
  disabled connection is not revived by a late validation, and the process that rotated or
  disabled it drops its token (another process keeps its own until it expires);
* delivery: a reported delivery happened, nobody but a new request takes it back,
  an uncertain send is not repeated blindly, a started delivery ends;
* storage, XML, artifacts: an object is written once and whole, and one signed
  XML and one PDF stand behind a document;
* issuance: one document per idempotency key, no consecutive used twice, no document under
  credentials its own check did not see, unless they change after its recheck, what was
  created can be found again by its client and by nobody else;
* certificates: one active per company and environment, with its secrets, of the
  issuer whose documents it signs;
* company and onboarding: a repeated, racing or interrupted operation ends in a
  state the uninterrupted one could have reached;
* access, breaker, secrets: what was revoked, spent, limited or stored stays so.

## 2. Plan

Every component above has its module.  In the order in which they were written:

1. the submission (`SubmissionStateMachine`, `FiscalOutcome`, `FiscalSubmission`), the
   delivery (`DeliveryRetryClassifier`, `DocumentDelivery`) and the issuance
   (`FiscalIdentity`, `FiscalIssuance`), each with runs of its own and with proofs;
2. what the fiscal evidence stands on: `WriteOnceStore`, `LocalStorage`,
   `XmlPreparation`, `PdfArtifacts`, and what is mailed of it, `DeliveryPackage` and
   `MissedResponses`, in one run;
3. what a company is administered by: `SigningCertificates`, `TaxpayerActivities`,
   `FiscalAssociation`, `IssuancePoints`, `TestInvoice`, in one run;
4. what the flow uses or produces: secrets, connection, access, breaker, answers,
   requests, XML, layout, lookups, readiness, in one run;
5. proofs of every safety property the passing runs check, in eight modules (section 5).

What is left, most valuable first:

* composition of `SigningCertificates` with `XmlPreparation`, and of the hooks of
  `FiscalSubmission` with `MissedResponses` and `DocumentDelivery`; today each module
  models what it needs of the other;
* the claim under faults: which of the disturbances that `ClaimCorrect` excludes could be
  admitted one by one;
* several documents at once: the page of the sweep, the batch of the durable delivery
  recovery.

## 3. Modules

| Module | Role |
|---|---|
| `SubmissionStateMachine` | statuses and transition table (`fd/domain/submission/fiscal-submission-state-machine.ts`), operators only |
| `FiscalOutcome` | abstract specification: Hacienda receives and decides once, the document's outcome is open or that decision |
| `FiscalSubmission` | the component: one document, its row, the queues, requests, jobs, sweep, Hacienda; its properties |
| `FiscalSubmissionProofs` | theorems about `FiscalSubmission`: types, outcomes, the refinement of `FiscalOutcome` |
| `FiscalClaimProofs` | extends it: answers that stay, the exclusive claim, the transition table |
| `MCFiscalSubmission` | values of its constants for TLC |
| `DeliveryRetryClassifier` | error classes of a delivery and the status that follows (`fd/domain/delivery/delivery-retry-classifier.ts`), operators only |
| `DocumentDelivery` | the component: one delivery row, its queue, the services that ask for a mail, the worker, the recovery scan, the mail server; its properties |
| `DocumentDeliveryProofs` | theorems about `DocumentDelivery` |
| `MCDocumentDelivery` | values of its constants for TLC |
| `FiscalIdentity` | abstract specification: idempotency keys and consecutives are given to each other once and for ever |
| `FiscalIssuance` | the component: creation of the documents of one sequence, its configuration, the connection's saves; its properties |
| `FiscalIssuanceProofs` | theorems about `FiscalIssuance` |
| `MCFiscalIssuance` | values of its constants for TLC |
| `WriteOnceStore` | abstract specification: what the fiscal services expect of the object store |
| `LocalStorage` | the local storage adapter over a file system that crashes and loses power |
| `XmlPreparation` | preparations of the signed XML of one document, its submission, decision and hand-out meanwhile |
| `PdfArtifacts` | generations of the PDF of one document, its downloads, uploads of logos |
| `DeliveryPackage` | what the deliveries of one document are admitted for, carry and say |
| `MissedResponses` | verdicts of several documents, their hooks, and the startup scan for those that were missed |
| `MCEvidence` | these five in one run |
| `EvidenceProofs` | theorems about these five |
| `SigningCertificates` | uploads and rotation, identity of the company, signing |
| `TaxpayerActivities` | creation and verification of a company, its activities and their default |
| `FiscalAssociation` | provisioning and bootstrap of external keys |
| `IssuancePoints` | branches, terminals, points and the default |
| `TestInvoice` | repeated requests for one sandbox test invoice |
| `MCCompany` | these five in one run |
| `CompanyProofs` | theorems about these five |
| `EncryptedFileSecrets` | one secret reference, its writers and readers |
| `SecretStoreOperations` | initialisation, backup, restoration and migration of the store |
| `HaciendaConnection` | one connection, its handlers, the token caches |
| `Access` | refresh tokens, one API key, its links and the guard, creation of tenants |
| `HaciendaCircuitBreaker` | circuit, rate window, retries and cache of one process |
| `HaciendaAnswers` | what the adapter and the retry classifier make of an exchange |
| `FiscalRequests` | validation, totals and payload evidence of a command |
| `FiscalXmlDocument` | extends it: the XML of the stored document and its projection |
| `DocumentPdf`, `RepresentationPdf` | the pages of the two renderings |
| `FiscalLookups` | the three ways to find a document again |
| `FiscalReadiness` | the readiness report against what creation asks |
| `MCPlatform` | these twelve in one run |
| `PlatformProofs` | theorems about all of these but `FiscalRequests` and `FiscalXmlDocument` |
| `DocumentProofs` | extends it: theorems about `FiscalRequests` and `FiscalXmlDocument` |

### FiscalSubmission and the code

One document is modelled: rows of different documents share no state (the
sweep's page of 100 rows is the one exception and is listed as a hazard).  A step
is the stretch between two awaits that touch shared state; reads that follow each
other with nothing in between that another actor could act on are one step.

| Variable | In the code |
|---|---|
| `row` | the `FiscalSubmission` row; `due` is `nextAttemptAt` null or past, `fresh` is `lastAttemptAt` within five minutes, `response` is `responseStorageKey` set |
| `document` | `FiscalDocument.status`, from `READY_TO_SUBMIT` on |
| `evidence` | the response XML in storage, its `FiscalArtifact` row |
| `hooks` | verdicts for which `setImmediate` scheduled the response delivery |
| `connected` | a `CONNECTED` `HaciendaConnection` exists |
| `queue`, `slot` | waiting pg-boss jobs; whether the singleton key is used in the current 12-hour slot |
| `hacienda` | what Hacienda holds under the clave |
| `pc`, `mem` | where each request, job and sweep stands, and its local variables |
| `spent` | disturbances used, against the bound `Limit` |

| Actions | In the code |
|---|---|
| `SubmitRead`, `SubmitCreate`, `SubmitMark`, `PublishNext` | `SubmitFiscalDocumentService.execute` |
| `RequestReconciliation`, `HandleCallback` | the two services of these names; update and publication are one step |
| `ClaimSubmission`, `LoadContext`, `PostAnswered`, `PostAnsweredBadly`, `PostTokenExpired` | `handleSubmitJob` and the adapter's mapping of answers |
| `TakeReconcileJob`, `GetAnswered`, `GetAnsweredBadly` | `handleReconcileJob` |
| `ReadAndEvaluate`, `StoreResponseArtifact`, `CommitResult`, `IndexResponseArtifact` | `applyProviderResult`, run by both jobs and by the sweep |
| `Sweep` | `enqueueDueWork`, at startup and every minute |
| `HandleSubmitFailure`, `Throw`, `IndexMissing`, `Crash` | the catch of the submit job; exceptions nobody catches; the missing response reference; death of an execution |
| `Decide`, `ChangeConnection`, `SlotEnds`, `BecomeDue`, `LeaseEnds` | environment: Hacienda, the operator, time |

Two choices deserve a word.  A job that fails either goes back to the queue or is
gone, because pg-boss retries three times and the count is not modelled.  A
request that is refused changes nothing and is left out.

External behaviour is taken from how the code uses it: a POST with 201, or with
5xx, no answer or an undocumented 2xx, may have delivered the document; one with
another 4xx has not; a clave already held may be answered with 400, as the
adapter's test of `clave duplicada` has it; a decision is final.  A `SUPERSEDED`
submission is never written by the code and occurs only as an initial state.

### DocumentDelivery and the code

One `DocumentDelivery` row is modelled, of any of the three kinds; its key is
protected by a partial unique index, and rows of different packages share nothing
(the recovery's batch is listed as a hazard).

| Variable | In the code |
|---|---|
| `row` | the row: `kind`, `status`, `count` for `attemptCount`, `due` for `nextAttemptAt` past, `fresh` for `lastAttemptAt` within the recovery lease |
| `mails` | messages the SMTP server accepted, whatever it answered |
| `queue`, `slot` | waiting jobs; whether the singleton key is used in its 15-minute slot |
| `pc`, `mem` | where each request, job and scan stands, and what it read |
| `spent` | automatic requests, resends, crashes and caught errors so far, against `Limit` |

| Actions | In the code |
|---|---|
| `EnsureRead`, `EnsureCreate`, `EnsureRequeue` | `findOrCreateDelivery` of the initial package and of the response delivery; the startup scan calls the latter (`MissedResponses`) |
| `EnsureWithoutPdf`, `RecordPdfFailure` | `recordPdfPrerequisiteFailure` |
| `ResendRead`, `ResendWrite`, `PublishAnew` | `requestResend`, which publishes without a singleton key |
| `AcceptedRead`, `AcceptedClaim` | `claimDelivery` of the accepted package |
| `Publish` | the publication with singleton key shared by the services and the scan |
| `TakeJob`, `Claim`, `BuildAttachmentsFails`, `SendEmail`, `MarkDelivered`, `MarkFailed`, `CloseAttempt`, `CatchFailure` | `processDelivery`, `handleFailure`, the SMTP adapter's outcomes, and the catch around them |
| `ScanStale`, `ScanDue`, `ScanFind` | the three statements of `recoverOnce` |
| `Crash` | death of an execution, or an exception nobody catches; a job may come back |
| `RetryBecomesDue`, `LeaseEnds`, `SlotEnds` | time; the lease may end while the worker lives |

A call that finds nothing to do, or is refused, changes nothing and is left out.
Error classes that `classify` treats alike are represented by one of them.  A
publication that fails, which the services log and leave to recovery, is the same
step as a crash at that point.

### FiscalIssuance and the code

One `FiscalSequence` row is modelled, with the calls that create documents from it;
other sequences have other consecutives and their keys another operation.  A step
is one SQL statement.  The variables hold committed rows only.  What an open
transaction has written is in its memory and becomes visible with its commit, in
`Create`; until then its row locks stop others that write the same rows, as
PostgreSQL does under read committed.

| Variable | In the code |
|---|---|
| `sequence`, `sequenceLock` | the row (`next` is `nextValue`, `last` is `lastAssigned`); the transaction that has allocated and not ended |
| `idempotency`, `keyLock` | the `FiscalIdempotencyKey` rows; per key, the transaction that has inserted it and not ended |
| `documents` | the `FiscalDocument` each request created: consecutive, key, hash, and the connection row (status and reference) as it is when the document is inserted |
| `connection` | status and `secretReference` of the `HaciendaConnection` |
| `pc`, `mem`, `asked`, `answer` | where each call stands, what it read, the value a configuration asks for, the document a request was answered with |
| `overwritten` | history: a configuration has written over a started sequence |
| `overtaken` | history: requests between recheck and commit during which the connection was saved with another status or reference |

| Actions | In the code |
|---|---|
| `Begin` | `createDocument` up to the reservation; a call refused there changes nothing and is left out |
| `Lookup`, `Reserve`, `Resolve` | `reserveIdempotencyKey`, `resolveExistingIdempotencyKey` |
| `CheckEligibility` | `haciendaEligibility`, which reads on another connection of the pool |
| `Recheck`, `Allocate`, `Create` | the second read of the connection, the `INSERT ... ON CONFLICT DO UPDATE`, the document with the completed reservation and the commit |
| `Rollback`, `TimeOut` | every exception in the callback; Prisma's time limit, a lost database, process death |
| `ConfigureRead`, `ConfigureWrite` | `configureSequence` |
| `InitializeRead`, `InitializeWrite` | `configureInitialSequence` of onboarding |
| `RotateCredentials`, `ValidateConnection`, `DisableConnection` | the saves of the three connection handlers, one step each because a save succeeds only on the version that was read |

### The evidence: LocalStorage, XmlPreparation, PdfArtifacts, DeliveryPackage, MissedResponses

`LocalStorage`: a key names an inode and an inode is the temporary file of the upload
that wrote it.  `visible` is the directory as processes see it, `onDisk` as a power loss
leaves it, `inodes` tells whether the content is complete and synced.  `FindExisting`,
`FindNothing`, `OpenTemporary`, `WriteTemporary`, `SyncTemporary`, `Link`, `LinkExists`,
`SyncDirectory`, `Compare` and `Unlink` are the calls of `upload` in their order,
`Delete` is `delete`; `IoError`, `Crash` and `PowerLoss` are the file system's.

`XmlPreparation`: every signature differs, so a signature is named by the call that made
it.

| Variable | In the code |
|---|---|
| `adapter` | the configured storage driver; S3 replaces an object, the local one refuses to |
| `status` | `FiscalDocument.status` |
| `artifact`, `index` | the `FiscalXmlArtifact` row; the `FiscalArtifact` row of type `SIGNED_XML` |
| `unsignedFile`, `signedFile` | the two objects |
| `submission` | the reference and hash a submission took, and what the worker posted |
| `prepPc`, `prepMem` | where each call of `execute` stands, and what it holds |

`ReadDocument` to `ScheduleDelivery` are the awaits of `PrepareFiscalXmlService.execute`,
`MarkFailure` its catch, `FindIndex` and `CreateIndex` the index service; `TakeForSubmission`,
`Post` and `Decide` what the submission does meanwhile, `ResolveSignedXmlBytes` and
`DownloadArtifact` who reads the evidence.

`PdfArtifacts`: a PDF's bytes depend on the second of the rendering and on the logo, and
its key contains their hash, so a file is named by its content.  `FindCurrent` to
`Compensate` are `generateOrReuse`, with the insert that collides, the winner that is
found, missing or unreadable, and the deletion of the loser's file; `Assess` and
`Reusable` are `FiscalPdfArtifactStateService`; `StoreLogo`, `SaveLogo`, `DeleteLogo` are
`uploadLogo`.  `Abandon` is an attempt that runs out of its time.

`DeliveryPackage`: one document, its files as they stand against the hashes on record,
and the kinds of delivery it has rows for.  `EnsureInitialPackage` and
`EnsureHaciendaResponse` are the two services up to the creation of a row;
`RequestAcceptedPackage` and `AdmitAcceptedPackage` the request of the accepted package,
`TakeJob` and `Send` the worker's `buildAttachments` and mail; between them each reads
with `ReadDocument`, `ReadPdf`, `ReadSigned`, `ReadResponse`, one per await, in the order
of the code (`Parts`), and a file that is missing or has another hash ends the call.
`Told` is the verdict `buildEmailBody` names, from the status the row was loaded with;
`ResolveDeliveryRecipient` is the function of that name on the two email fields of the
snapshot.  `Decide` is the verdict, `Damage` a stored file that is lost or altered.

`MissedResponses`: several documents in the order of their submission ids, and for each
what Hacienda will answer: mailable, decided outside the configured window, without a
response XML (for which the code schedules and sends nothing), or without one recipient.
`Commit`, `Schedule`, `HookEnsures`, `HookCreates`, `HookFails` are `applyProviderResult`
from its transaction to the end of the `setImmediate` callback; `StartScan`,
`QueryBatch`, `Visit`, `ScanCreates`, `EndBatch`, `ScanFails` are
`recoverMissedDeliveries` with its cursor; `Restart` forgets hooks and scan, and the next
start scans again.

### The company: SigningCertificates, TaxpayerActivities, FiscalAssociation, IssuancePoints, TestInvoice

`SigningCertificates`: a row is named by the upload that creates it.  `CheckUpload`,
`StoreCertificate`, `StorePin`, `Stamp`, `FindActive` and the commit (`Activated`, with
`CommitConflicts` and `CommitFails`) are `execute` of the upload, `Cleanup` its
compensation; `UpdateCheck` and `UpdateSave` the identity change and its lock;
`IssueRead` and `IssueInsert` the snapshot of the issuer that creation takes;
`FindCertificate`, `CompareIdentity`, `LoadSecretsAndSign` are `getActiveCertificate`.
`undone`, `reordered` and `overtaken` are history: secrets deleted by a failed upload of
the same file, an activation committed after a later one, an identity change across a
creation.

`TaxpayerActivities`: `registry` is what Hacienda answers; `CheckUniqueness`, `Lookup`,
`SaveCompany` are `create-company`, `Ask` to `SetDefault` the verification, whose
`PersistActivities` is one transaction; `ChooseRead`, `ChooseWrite`, `SetEnabled` and
`UpsertProfile` are the operator's.  `disturbed` remembers the verifications that still have
to decide the default (`Deciding`) while the rows they read are written, or that have read
the profile (`ProfileRead`) while it is; what is written before they read is no exception.

`FiscalAssociation`: `FindExisting`, `FindCompany`, `CommitAssociation` (a serializable
transaction is its reads and its commit), `CommitConflicts` and the reads after it are
`provisionAssociation`; `TakeLock`, `RevokeActive`, `IssueCredential` the transaction of
`bootstrapAssociation` under `pg_advisory_xact_lock`.

`IssuancePoints`: every operation of the onboarding service is a `Check` followed by a
write; `Fits` is the partial unique index of the default.  `EnsureDefault` is the older
endpoint's way to make a point.  `stale` holds the requests whose check was overtaken by a
write of points, `crossed` remembers a write whose check no longer held, and the use of the
legacy endpoint on a terminal that is not open.

`TestInvoice`: `TakeLock`, `CheckReadiness`, `CreateDocument`, `Submit`, `Answer` are
`initiate`; `ReadForXml`, `GenerateXml`, `FinishXml` are the `prepareXml` it calls, by its
effect on the document's status (`XmlPreparation` has it in detail), and
`PrepareConflicts`, `SubmitConflicts` the refusals when another request was faster.  The
advisory lock ends with its transaction after 60 seconds (`LockExpires`) while the request
goes on.  `prepared` and `sent` are the requests that got that far, so that two of them can be
told from one; `abandoned` remembers a request that stopped between generating the XML and
submitting.

### The platform

`EncryptedFileSecrets` has one reference: version files (`records`), `metadata.json`
(`metadata`), `.write.lock` (`lock`).  `TakeLock` to `Unlock` are `withLock` around
`writeVersion`, which loads the metadata and the key, links the version file and renames
the metadata over; `ReadMetadata` and `ReadRecord` are `getSecret`, which takes no lock.
`Age` lets a lock become stale and `Steal` removes it, with its writer dead or alive.
`SecretStoreOperations` has the initialisation, the backup that copies while services
write, the restoration and the migration script, each with its own variables.

`HaciendaConnection`: `row.stamp` is `updatedAt` in milliseconds; `FindAndStoreSecret`,
`Find`, `Ask`, `Written` and `Save` are the three handlers, `SaveMatches` the condition of
the repository's `updateMany`; `SetToken`, `Invalidated`, `ExpireToken` the token cache of
each process, `Authenticate` the worker's use of it.  `restored` is history: the references
that `configure` made `CONNECTED` without asking, because the row had been; `tied` remembers
that two saves fell into one millisecond.

`Access`: `Login` to `SaveToken` are login and refresh; `FindKey`, `VerifyKey`, `SaveUsage`
the validation of a key, which saves the entity it has read; `Authorize` the guard;
`FindToRevoke`, `SaveRevocation`, `FindToAssign`, `CreateLink` the key handlers;
`LookUpSlug`, `CreateRow` the creation of tenants and users, for one slug.

`HaciendaCircuitBreaker`: `Lookup`, `Send`, `Sleep`, `Answer`, `Retry` and `Fail` are
`execute` and `executeWithRetry`; `Recent` the timestamps still in the window, which are
the end of the list since time only grows; `Succeeded` and `Failed` the transitions of the
circuit.

`HaciendaAnswers` reads one exchange per behaviour: `SubmitSignedDocument` and
`QueryStatusByClave` apply the adapter's mapping to every combination of status, body,
headers and response XML, `AskClassifier` asks `RetryClassifier` about it.  A text is the
set of things in it that matter, with its length.

`FiscalRequests` takes a command through `CommandRefusal` (the checks in their order),
`CalculateTotals` and `StoredFrom`, and computes the payload evidence on both sides
(`FromCommand`, `FromStored`, `Canonical`).  A decimal is its number of smallest units and
the way it is written.  `FiscalXmlDocument` goes on: `Serialize` writes `Document(stored)`
or refuses, `KeepFile` is what becomes of the signed file, `Project` reads it back with the
parser's bounds, hash and required elements.

`DocumentPdf` and `RepresentationPdf` are the arithmetic of `doRender` and
`doRenderRepresentation`: a block has a height, `y` is where the next one goes, and
`RowFits`, `TotalsFit` and `Fits` decide on a new page; the second also has the QR
request, the footers, the stream and the abort signal.

`FiscalLookups`: `CreateAgain`, `LinkNewKey`, `RevokeOldKey` are what changes, `ByRequest`,
`ByEvidence`, `ById` the lookups with their order of checks.  `FiscalReadiness`: a report
is a sequence of reads, each adding its reasons, between which `Change` may alter the
company's data; `CreationRefusal` is what `createDocument` would answer.

## 4. Runs

Twelve runs, nine that pass and three that show a divergence.

Bounds: `MaxPending` (jobs of one name waiting before time or a signal adds
another) is 1; `Limit` bounds each kind of disturbance and is named per run in
`MCFiscalSubmission`; a kind it does not mention does not happen in that run.
`LeaseOutlivesWorkers` says that no live submit job runs for five minutes; it is
FALSE in `outages`, where the sweep may take over from a job that is still alive.
Clients and workers are symmetric.  Deadlock is not checked: with a terminal row,
no job and no disturbance left the system stops for good, and so does every other
component whose calls have ended.

| Run | Instance | Shows |
|---|---|---|
| `outages` | 1 request, 1 worker, sweep, lease may end; connection change, signal, local failure, 2 bad POST answers | outcomes are Hacienda's and follow into row, document and hooks, `FiscalOutcome` is implemented, with the inductive invariant of the proofs; terminal statuses stay, row and document agree, the response reference survives stale results |
| `quiet` | 1 request, 2 workers, sweep, 2 bad POST answers | exclusive claim, no second POST, transition table (except that the claim takes a `TECHNICAL_RETRY_PENDING` row straight to `SUBMITTING`, which the table does not list), a decision is eventually recorded |
| `queued_work_ends` | 1 request, 1 worker, sweep; crash, local failure, bad POST, failed poll | queued work ends in a terminal status or in manual review |
| `deliveries` | 2 requesters, 2 workers, scan; 1 automatic request, 1 resend, a crash | each mail answers to a request, a reported delivery happened, `DELIVERED` is left only by somebody's request; the inductive invariant of the proofs |
| `delivery_settles` | 1 requester, 1 worker, scan; 1 automatic request, 2 resends, a crash, a caught error | a started delivery ends |
| `issuances` | 3 requests over 2 keys and 2 bodies, 1 operator, 1 onboarder, pool of 2, 1 rotation | repeated requests get the one document of their key and body, consecutives have no gaps, a document is inserted under the credentials its own check read unless the connection was saved after its recheck, `FiscalIdentity` is implemented; the inductive invariant of the proofs |
| `evidence` | 2 uploads, 2 faults; 2 preparations under either driver, 2 mishaps; 2 generations, 2 logos, 1 mishap; 1 document's mails, 1 damaged file; 3 verdicts, batches of 2, 2 misses | objects are whole, written once and durable once acknowledged, and the local adapter implements `WriteOnceStore`; the signed XML recorded, stored, indexed, posted and handed out is one; a document has one PDF with its file; no preparation takes back a decided document; a mail is whole, says what Hacienda said and goes to the one address given; no verdict's mail is forgotten by a scan that ends |
| `company` | 2 uploads, certificates and identities, 1 signature; 2 creations, 2 verifications, 1 operator; 2 callers, 2 external keys; 2 administrators, 1 branch, 2 terminals; 3 test-invoice requests | rotation has neither gap nor overlap and readiness tells the truth about signing; verification and operator respect each other; association and credential are unique; the default point is one, open, and leaves its terminal only when another is selected or a deactivation was checked too early; a test invoice is prepared and submitted by one request, and answered when submitted |
| `platform` | fifteen components, see below | secrets, connection, access, provider, documents and lookups, one property each |

In `issuances` `LastValue` is 3 where the code has 9999999999, so that three requests after
a configuration to 2 exhaust the sequence, `PoolSize` is 2, so that both connections may be
taken and the eligibility check has to wait, and `MaxRotations` is 1, enough to change what
one check has read, before its recheck or after it.  Each call is made once; a client that
repeats a request is another request with the same key.

In `evidence`, `company` and `platform` the variable `moving` is chosen initially and one
component moves in each behaviour.  Nothing is lost by it: the modules composed there share
no variable, every property but the conjunctions speaks of one of them, and a state of
the interleaved system is a tuple of states these behaviours reach.  Components
that stay still start in one state, so that their initial states are not multiplied.

`evidence` needs two of each, since what can go wrong there is a race between two, and two
faults, since a power loss matters after a crash that left a temporary file.  `LastSecond`
1 lets two renderings fall into different seconds.  Three verdicts in batches of two make a
full batch and one that is not, two misses a lost hook and a scan that fails or dies as well,
and one damaged file is enough for any await of a mail.  In `company` `MaxChanges` 2 allows one
change of the operator and one of the registry within a verification, `MaxFaults` 1 and
`MaxMishaps` 2 a failure and a lost lock; three requests for the test invoice, so that one
holds the lock, one lost it and one waits.  In `platform`: 2 writers and 1 reader of 2 versions
with 1 fault (a stale lock under a live writer and the other writer); 3 requests on a
connection, 2 processes, clock up to 3 (two saves in one millisecond); 3 sessions, so that a
spent token can be presented again; 3 lookups, threshold 2, 2 calls per window of 2 and time
up to 3, so that a window can slide and a circuit open and half-open; pages with rows of
250 and texts of 320 points, which force every page break; documents of up to two lines over a
few amounts with `Factor` 100 for 10^5, so that rounding happens; one change during a report.

In the delivery runs `MaxRetries` is 1 where the code has 8, so that the horizon is
reached with the two or three attempts the bounds allow; `MaxPending` is 1 and the
limits are those of `MCDocumentDelivery`.

Why these bounds are enough to be interesting: every hazard needs two
executions at different points of `applyProviderResult`, of the claim or of a
request, and one or two unlucky events; each run has two executions of the kind
its question is about (two workers, or a worker and the sweep) and the events
that question is about.  A mail sent twice needs two workers or a worker and the
scan, and one trigger to be spent twice; `deliveries` has that, a trigger to
spare and a death between any two steps.  The passing runs together take every action of `Next`.

The remaining runs show where the code and the repository's own statements part;
each fails with a short trace.

| Run | Statement | Trace |
|---|---|---|
| `terminal_regresses` | terminal status "is monotonic and cannot regress" | a second request reads the row before the verdict and marks it `QUEUED` after it |
| `claim_shared` | the claim keeps "duplicate jobs" from duplicating POSTs | a failed poll during a POST releases the claim |
| `sequence_reset` | "prevents sequence initialization races from resetting or corrupting allocation" | configuration reads an unused sequence, a document is created, the upsert sets `next_value` back |

The test of that title starts both calls at once and has no say in how they
interleave.  After the reset every creation is rolled back by the unique index
on the consecutive, so no consecutive is used twice (`IdentityRefinement` holds
throughout), but none is issued either, and the configuration cannot be repeated.

Other disagreements between the code and its own statements, or between two of its
parts, are stated here and are visible in the models, as an exception a property names or
as a disturbance a run leaves out:

* Submission: a crash between the creation of the row and its marking leaves it
  `REQUESTED`, which `enqueueDueWork` does not look for.  A failed poll leads to a second
  POST whose answer, 400 for a clave already held, parks the row in manual review, from
  which a later verdict is not taken up; so `VerdictIsRecorded` is claimed by `quiet` only,
  where no poll fails.  A crash after a possible POST, which by the classifier "requires
  reconciliation by Clave", is a technical retry of the sweep and another POST once the
  lease has ended.
* Issuance: the comment at the recheck says that a concurrent rotation or revocation "must
  restart readiness rather than allocate" (`fiscal-document.service.ts:292`), but the row it
  reads is not locked and nothing looks at it again before the commit, so a document may be
  allocated and inserted after its credentials were rotated or disabled.  `IssuedAsChecked`
  excepts exactly the requests this happens to (`overtaken`).
* Delivery: when the mail was accepted and the write of `DELIVERED` throws, the catch makes
  it a retry, and the mail is sent again.
* XML: with S3 the signed file of a `READY_TO_SUBMIT` document may be replaced by a late
  preparation; with local storage a preparation that is repeated conflicts with the file of
  the first for ever.  The projection requires the net tax in each line, which the serializer
  writes for taxed lines only, so a document with an exempt line has no PDF.  Creation
  accepts tax codes other than 01 and 07, a receiver's activity code of another length and a
  province without a canton, which cannot be serialised when the consecutive is spent.
* Certificates: a failed upload of the file that is active deletes the secrets the active
  row names.  An identity change that overtakes a creation leaves a document its company
  cannot sign.
* Onboarding: `createTerminal` activates again the point of a terminal that was closed, and
  `ensureDefaultIssuancePoint` does not look at the terminal.  A test invoice that stops
  between the generation of its XML and its submission is not submitted by its repetition,
  and once the lock has expired two requests may prepare and submit it at once.
* Lookups: the hash of a request contains the environment, the name space of the
  reservation does not, so using a key in the other environment is reported as an integrity
  error of data that is intact.  The lookup by evidence judges a row before it compares the
  evidence.  A text under a name that ends in `date` or `at`, and is no date, has no
  canonical hash, so what was created with it is not found by evidence.
* Keys, connection, secrets: recording the use of a key saves the whole entity and may undo
  a revocation; of two refreshes begun together both succeed; two saves in one millisecond
  pass the optimistic check; a lock older than 30 seconds is taken from a writer that
  lives; a `Retry-After` that is a date becomes no number.

`quiet`, `outages`, `issuances` and `deliveries` are the other side of these: they say under which
conditions the same properties do hold.

### Fairness

`FairSpec` adds weak fairness of each request, worker and sweeper, of Hacienda's
decision and of time (`BecomeDue`, `LeaseEnds`, `SlotEnds`).  The code justifies
it: an awaited call in this process returns or throws, pg-boss polls its queues
for ever, `startRecoveryTimer` repeats the sweep every minute, and a restart runs
it again.  Disturbances get no fairness.

The delivery's `FairSpec` is the same idea: requests, jobs and scans that have begun
go on, waiting jobs are taken, and time passes.  It assumes
`FISCAL_DELIVERY_RECOVERY_ENABLED`, whose default is off: without the scan a row in
`RETRY_PENDING`, or a publication lost to the slot, waits for a person.

`FiscalIssuance` states no fairness and no liveness: a creation that waits for a lock
or for the pool either goes on or is ended by its time limit.  The modules of `evidence`,
`company` and `platform` state none either: their calls end or fail with the request that
made them, and nothing in the code takes them up again.

## 5. Proofs

### Submission

`FiscalSubmissionProofs` proves, for any sets of clients, workers and sweepers,
any limits and either value of `LeaseOutlivesWorkers`, without using the
assumptions on the constants:

* `TypeCorrect`: `Spec => []TypeOK`;
* `OutcomeCorrect`: `Spec => []OutcomeInv`, and from it `AuthoritativeOutcomeHolds`,
  `RowImpliesDocumentHolds`, `HooksFollowCommitHolds`;
* `OutcomeImplemented`: `Spec => OutcomeRefinement`, the refinement of
  `FiscalOutcome` under `authority <- hacienda` and `outcome <- document`.

The three properties are not inductive: a worker may carry a verdict for a long
time before it writes it, and the row may be requeued meanwhile.  `OutcomeInv`
adds what carries them through.  `PendingVerdictIsHeld`: a verdict in anybody's
hands is Hacienda's, which never changes, so stale results cannot disagree.
`SupersededIsInert`: a superseded submission has nobody past the point where
terminal statuses are checked; without it a commit might find the document
superseded and the row not.  `IndexFollowsCommit`: whoever indexes the response
of a verdict comes after its commit, so the hook scheduled afterwards is
justified.  The one step with a real argument is `CommitResult` in `ApplyOutcome`:
whether the guarded update writes or not, the document shows the verdict
afterwards.  All other steps go through `ActorStep`, which says what an actor may
do without disturbing the invariant.  The refinement follows from `OutcomeStep`,
the list of everything a step can do to `hacienda` and `document`.

`FiscalClaimProofs` goes on to what interleavings do to the row.  Its theorems name the
disturbances the code does not withstand, as hypotheses on `Limit`, which is what the runs
bound too:

* `VerdictsAgreeHolds`, `TerminalIsFinalHolds`, `ResponseIsKeptHolds`: if a document is
  requested at most once (`Limit["submit"] <= 1`), for any sets of actors and any crashes,
  failures, signals and late or bad answers;
* `ClaimCorrect`, and from it `ClaimIsExclusiveHolds` and `NoRepostHolds`: under
  `Undisturbed`, that is one request, no death, no local failure, no failed poll
  (`crash`, `local`, `get` are 0) and `LeaseOutlivesWorkers`; signals, connection changes
  and the answers to the POST are free;
* `OnlyFiveStepsShareTheClaim`: for any limits, crashes and local failures included, the
  claim stays exclusive as long as none of five steps is taken (`ClaimProtected`): a
  request marks the row while a job or a recovery is under way; a job that has committed
  fails and is applied as a technical retry; a poll answers with one; a lease ends under
  a live job; a sweep starts a recovery beside another one;
* `ClaimSurvivesDeaths`: under `OnlyDeaths` (one request, `local` and `get` 0,
  `LeaseOutlivesWorkers`, one sweep at a time) none of the five is taken, so the claim
  stays exclusive although any execution may die at any point;
* `OnlyRetriesRepost`: if moreover a request marks the row, a failed job is retried and a
  recovery starts only while Hacienda does not hold the document (`RetriesUnposted`),
  nobody is about to POST a document it holds, again for any limits;
* `StatusFollowsTableHolds`: under `OnlyPostDisturbed`, which excludes signals and
  connection changes as well: with one of either, TLC finds two results, of a POST and a
  poll or of two polls, committed in an order the table has no way for.

The first hypothesis is needed: run `terminal_regresses` is a second request that marks a
terminal row `QUEUED`.  `AnswersAreKept` shows that this is the only way: whatever is done
to a row, an answer on it stays unless a request writes over it (`NoStaleMark`).  Its
invariant `AnswerInv` says that artifacts travel only with verdicts and that who read a
response read it off a terminal row.  `RequestInv` then shows that the first request is
never stale, because until it has marked the row nobody else has one to work on.  The
second set is needed as well: run `claim_shared` is a failed poll that releases the claim
of a running job, and a lost lease or a crash after the POST leads to a second POST by
design of the sweep.  `ClaimInv` is about `Engaged`, the executions between claim and
commit: there is at most one, a row that can be claimed has none and nothing posted, a row
in flight has its own.  A crash breaks its last part: the row stays in flight with
nobody at work.  `HolderInv`, for the theorems that admit crashes, therefore counts the
recovery of such a row as one more holder (`Holds`) and ties the lease to the holder
instead of the row: one execution holds the row at a time, nobody holds a row that can be
claimed, and a worker holds it only under its lease, so the recovery of a row whose
lease is over finds no worker at it.  Its hypotheses are about steps, not about
`Limit`, and say where the design relies on more than the claim: `claim_shared` takes the
third of the five.  `TableInv` adds that no reconciliation starts before the answer to
the POST is committed, and that the row's status agrees with what Hacienda holds.

### Delivery

`DocumentDeliveryProofs` proves, for any finite sets of requesters, workers and
scanners (`DeliveryActorsDisjoint`), any retry horizon (`DeliveryBoundsAreNat`) and
any limits:

* `DeliveryTypeCorrect`: `Spec => []TypeOK`;
* `DeliveryCorrect`: `Spec => []DeliveryInv`, and from it `MailIsTriggeredHolds` and
  `DeliveredIsTrueHolds`;
* `DeliveredIsKeptHolds`: `Spec => DeliveredIsKept`.

`MailIsTriggered` compares two counters, so it cannot be inductive: a row about to be
sent owes its mail to a trigger counted earlier.  `EntitlementsAreTriggered` counts the
rights to send that are still out: one for each actor that will make the row
claimable or may still send (`Entitled`), one if the row is claimable now
(`RowEntitles`).  Mails, entitled actors and the row together never exceed the
triggers.  A request creates a right with its trigger, `Claim` moves it from the row to
the worker, `SendEmail` turns it into a mail or keeps it when the mail is known not
to have been accepted, an unknown outcome and the scan of stale rows destroy it, and
a crash forgets it.  `EntitledChange` reduces the cardinality to the acting actor,
so each action is a small sum (`Balanced`); `SoundStep` assembles the invariant.

### Issuance

`FiscalIssuanceProofs` proves, for any sets of calls, keys and bodies, any pool and any
last value, from the module's assumptions (`ActorsAreDisjoint`, `LastValueIsPositive`,
`FirstValuesAreValid`, `PoolAndBoundsAreNat`, `NoneIsNobody`):

* `IssuanceCorrect`: `Spec => []IssuanceInv`, and with it `AnsweredAsAskedHolds`,
  `IssuedAsCheckedHolds` and `SequenceIsDenseHolds`;
* `IdentityRefinementHolds`: `Spec => IdentityRefinement`.

The refinement needs to know, when a document is committed, that neither its key nor its
value is taken.  The value is the unique index's business (`Taken`); the key
is the code's.  `LocksAreHeld` says that a transaction past its reservation holds the
lock of its key and that a locked key has no committed row, so two transactions
never both get past `Reserve` with one key.  `ReservationsPointAtDocuments` then
ties each document to the row of its key, so a key without row has no document.
`MemoryIsRight` says what a transaction knows at each point, among others that from the
recheck to the commit the connection row is CONNECTED with the credentials of the check,
unless it was saved meanwhile (`overtaken`); every save of the connection has to keep that,
and `IssuedAsChecked` follows at the insert, which records the row as it is then.  For the consecutives,
`LocksAreHeld` adds that whoever has allocated holds the row and its `next` value is still
the one allocated: a rollback then gives it back simply by ending.  Two lemmas carry
most steps: `QuietStep`, that every action but the commit leaves documents and
reservations alone and the sequence unless it is a configuration, and `CommitRows`,
what the commit changes.

### Evidence

`EvidenceProofs` proves about `LocalStorage`, for any number of uploads, keys, contents and
faults:

* `StorageCorrect`: `Spec => []StorageInv`;
* `StoreImplemented`: `Spec => StoreIsWriteOnce`, the refinement of `WriteOnceStore` for the
  keys nobody deletes.

That an acknowledged object survives a power loss needs to know what is on disk while it is
still being written.  `NamesAreWritten` says that a named file is complete and synced,
visible or on disk; `LinksStay` that a link stays until a deletion and that the directory on
disk knows no other object than the visible one, so a power loss may forget a name but never
changes one; `LinksAreWritten` and `AcceptedAtTheLink` say what the uploads on their way
have.

About `MissedResponses` it proves `ResponsesAccountedFor` (`MissedSpec => []MissedInv`), for
any number of documents, any size of a batch and any number of failures
(`MissedConstants`).  `ScanMissesNothing` is the strengthening: whatever the scan found owing
is in the batch, or behind the cursor while another batch is to come.  It rests on
`FirstOnes`, what the first `n` of a finite set of numbers are (at most `n`, all of them or
`n`, and before all others), which is proved from `SomeFirst`, that a finite set has an
element no other precedes.

About the other three, for any number of calls and mishaps (`EvidenceConstants`):

* `SignedXmlCorrect` (`EvidenceSpec => []Xml!SignedXmlInv`) and `DecisionIsKeptHolds`.
  `RowsInOrder` relates the rows whoever wrote them: with local storage the submission,
  the index and the artifact name one signature.  `PreparationInOrder` says what each
  preparation has behind it at each await, so that one that lost the race writes the
  winner's reference.
* `PdfCorrect` (`[]Pdf!PdfInv`). `GenerationInOrder` is what a generation may rely on
  before it inserts a row or deletes its file; the exception it carries, `misled`, are the
  generations that compensate though no row has other bytes than theirs, because an insert
  or a read failed: those may delete the file of the row. `FilesAreOwned` says who still
  has to deal with a file that has no row.
* `PackageCorrect` (`[]Packages!PackageInv`).  `ReaderInOrder`: what a mail has read so far
  is intact and what it was told of the document still holds when it is sent.

`ArtifactsCorrect` puts the five together: `EvidenceSpec => []ArtifactsInv`.

### Company

`CompanyProofs` proves about `FiscalAssociation`: `AssociationCorrect` (`Spec =>
[]AssociationInv`), from the assumption `NobodyIsAbsent`. `OneCredential` follows from
`LocksAreHeld`, that whoever is between the two statements holds the lock of its key, and
`SeenIsActive`, that what it saw is still what is active; without the lock the second is
lost between the statements.

About `IssuancePoints`: `PointsCorrect` (`Spec => []PointInv`) and
`SelectedDefaultIsKept` (`Spec => DefaultIsKept`), from the assumption `PointConstants` (finitely
many terminals, the legacy ones among them).  `FlagsAreRight` is one strengthening: a default
flag is only left on an active point, so activating a point makes no second default.
`ChecksHold` is the other: a deactivation that is about to write, and was not overtaken by a
write of points, is not of the default's terminal.  `DefaultIsKept` speaks of each terminal
by itself: a default stays where it is unless this step selects another, which is the default
then, or is the write of a deactivation that was overtaken (`stale`).  A lemma per operation
says what it does to branches, terminals and points.

About `SigningCertificates`: `CertificatesCorrect` (`Spec => []CertificateInv`), under
`CertificateConstants`.  `RowsAreInOrder` says that the active row is one and, unless commits
were reordered, the latest; `SecretsAreThere` that an upload past storing its secrets
has them unless they were deleted; `IssuerIsCompany` what the company, the snapshot on its way
and the document agree on until an identity change overtakes.  `WhatFollows` derives the
four properties from these, `OthersLeaveRows` takes care of every step that is not an
upload's.

About `TaxpayerActivities`: `TaxpayerCorrect` (`CompanySpec => []TaxpayerInv`) and
`VerificationsAreFaithful`, under `CompanyConstants`.  `VerificationInOrder` says what a
verification still knows when it writes: unless something else was written meanwhile
(`disturbed`), the activities and the profile are as it left and read them.
`DefaultIsOwn`, part of `TaxpayerInv`, holds also across such writes: whatever the operator
and two verifications do to each other, the default is an activity the company has.  It
rests on what `OwnStep` says of every step, that no declared activity is ever removed
(`ActivitiesStay`), so a choice made on rows read earlier still names one (`ChoiceInOrder`).

About `TestInvoice`: `InvoiceIsCarriedOutOnce` (`CompanySpec => []InvoiceInv`).
`OneAtATime` is what the advisory lock gives while it lasts: only its holder is inside, and
it finds a document past its preparation only when that is submitted or about to be; with it
`CarriedOutOnce` says that one request prepares and one submits, unless a lock has expired.
`SubmissionFollows` does without the lock: a document that is past generating its XML is
submitted, or a request is on the way to do so, or one was `abandoned`.  So
`AnsweredIsSubmitted` holds when locks expire as well.

### Platform

`PlatformProofs` proves about the components of `platform`, for any sets of requests,
processes, sessions, callers, initialisers, references, writers, readers and calls, and any
bounds, from `PlatformConstants`: names that stand for nobody are nobody's, bounds are
natural numbers, the circuit's threshold is positive, and no cell of a PDF is nearly as high
as a page (500 points for a row's content, 600 for a text; a page holds 697).  The program
does not check the last one, and `ensure` does not split a block: it relies on the XML
schema, against which the document was validated and which allows 200 characters for the
detail of a line (`resources/hacienda/v4.4/FacturaElectronica.xsd`), and on the serializer,
which writes no free text beyond the schema's bounded fields.

* `ConnectionCorrect` (`ConnectionInv`).  `RotationDropsToken` is about the process that
  rotated or disabled: it has dropped its token of the older credentials, unless a token
  request was under way, while another process uses its cached one until it
  expires.  `StampsGrow` says that the stamp of the row tells its versions apart unless two
  saves were `tied`, so a request that passes `SaveMatches` saves over what it read;
  `NamedAreSaved` that a reference in any row, also a remembered one, has an immutable
  secret behind it.  `ConnectedIsAccepted` holds with ties; `RotationDropsToken` does not:
  two saves in one millisecond can take an older row back after the process has dropped its
  token, so it is claimed for `~tied`.
* `AccessCorrect` (`AccessInv`), with `SessionsInOrder` (a session presents the token of a
  session that was answered, and has spent it by its own answer) and `LinksInOrder`.
* `StoreCorrect` (`StoreInv`), from `OperationsCorrect` and `SecretsCorrect`.
  `MaintenanceInOrder` follows initialisation, backup and migration through their awaits.
  In `SecretsOrder`, `NamesFiles` says that metadata, the current one and whatever a writer
  remembers of it, names whole version files in order; `WriterHolds` is what the lock gives
  as long as none was taken from a live writer (`overlapped`).
* `ProviderCorrect` (`ProviderInv`).  `StampsOrder`: the stamps are the end of the list of
  requests sent, and every request before them has left the window.  That makes
  `RateIsBounded` a statement about two positions of that list: of `MaxPerWindow + 1`
  requests in a row, the last is sent when the first has left.  `AnswersOrder` says that an
  answer is the adapter's reading of the exchange, `IsSafe` what may be stored beside it.
* `IssuerCorrect` (`IssuerInv`).  `ReadyMeansIssuable`, its part about readiness, compares a
  report with what creation would answer only as long as nothing was changed (`changes` is
  0), since a report is a sequence of reads and promises nothing about later data.  Two
  refusals are excepted, as the report does not look at what they ask:
  `COMPANY_FISCAL_PROFILE_INCOMPLETE`, an incomplete address in the profile, and
  `COMPANY_NOT_FOUND`, the status of the company itself.  `LookupsOrder`: there is one
  document of a type and its hash is its request's.  `ReadinessOrder`: while nothing
  changes, a report has gathered what its reads so far say (`Gathered`), and its dimensions
  follow from its reasons (`IsOfReasons`).
* `PdfsCorrect`: `Pdf!DocumentPdfInv` and `Representation!RepresentationPdfInv`.
  `BoxesOrder` and `SheetsOrder` say that the next block starts below the last one or on a
  later page (in `DocumentPdf` for header texts of one line each, see section 6),
  `DepthsOrder` how low it may start at each point of the rendering, and `PromiseOrder` who
  settles the promise and which pages have a footer by then.

### Document

`DocumentProofs` proves what a command becomes, from its validation to the view its receiver
gets, for any factor and quantity unit above zero, any natural quantities and prices
(`AmountConstants`) and any number of lines:

* `XmlDocumentCorrect`: `PlatformSpec => []Documents!XmlDocumentInv`;
* `DocumentCorrect`: `PlatformSpec => []DocumentInv`, with `PdfsCorrect` and so from the
  assumptions named there.

The invariant is `DocumentOrder`: the command has lines of the shape the DTO lets through, and
each of the four stages (`stored`, `xml`, `file`, `view`) is empty, is what its operation
makes of the stage before, or is the failure of a check that does fail.  TLC has checked it on
the instance of `platform` (with at most two lines where it says any number).  The
properties then are facts about the operators, of three kinds:

* Totals.  `SumOf` is a loop with a running total, `RunningTotal`.  No induction theorem can
  be cited, as they all take an operator, but induction along an interval can be done on a
  set: `LoopEnds` says that a set which has 0 and, with `n - 1`, also `n` has all of `0..m`,
  by the least number that would be missing.  With it `TotalExists` and `SumIs` say that the
  loop has a result, and `SumsAdd` that two loops over the same lines add up turn by turn.
  `PartsAddUp` and `SummaryIs` follow: the stored totals are those of the parts, and the
  four categories of the summary are the gross total, for documents of any length.
* Refusals.  A validator returns the code of the first check that fails.  `RefusalIs` says
  that it passes exactly when none fails, `RefusalOfOne` to `RefusalOfNine` the same of checks
  written out.  `CommandPasses`, `LinePasses`, `DiscountPasses` and so on are what
  creation lets through, `DocumentIsWritten`, `LineIsWritten` and so on what the serializer
  asks, `DocumentIsShown` what the projection asks.  Put together (`PassedIsWritten`,
  `AcceptedIs`, `SerialisedIs`): what one stage accepts the next one can make, but for
  the cases the properties name.
* Evidence.  `CanonicalIs` is what the canonical form keeps of a payload; `EvidenceIs`
  compares the command's with that of the stored document.

The modules are written for this argument: refusals are nested as the functions of the code
are, a `Group` for each function that another one calls, and the sums over categories and
tax groups are conditional sums over all lines, as `computeSummary` has them.

### What stays model-checked

* Liveness (`VerdictIsRecorded`, `QueuedWorkEnds`, `DeliverySettles`), which needs fairness
  and `ENABLED`.
* What the hypotheses of `FiscalClaimProofs` leave out.  In the runs that allow more,
  the same properties fail or are checked on that instance.

## 6. Not modelled

Configuration, audit records and the HTTP layer, whose failures are the local failures of the
models; the delivery's state machine class, which no service calls; scripts other than the
initialisation and the migration of secrets.

Within the modelled components: several documents at once in the submission, the page of
the sweep, the batch and the age window of the durable delivery recovery; the content of
the attempt records; the parsing of the recovery's configured window; documents that are
superseded or disposed of, which no code writes; the accepted package's cooldown;
attempt counters of the submission and the number of pg-boss retries; expiry of a running
pg-boss job; the digits of the clave and of the consecutive; canonicalisation, digests, the
XAdES structure, the XSD and the grammar of the XML parser; PKCS#12 files; fonts, colours
and wording of the PDFs; header and party texts of `DocumentPdf` that wrap (its heights take
each of them for one line, while `renderPageHeader` and
`renderPartiesBlock` let the company's name and
address wrap, so a very long one would run into the next block; no caller at run time uses
that `render` any more); encryption itself, password and key hashing; listing, pagination
and the composed queries of the onboarding and artifact APIs; S3 beyond its replacing
uploads; several processes of the circuit breaker, which share nothing.
