---------------------------- MODULE XmlPreparation ----------------------------
(***************************************************************************)
(* The preparation of the signed XML of one fiscal document: serialize,    *)
(* sign, verify, validate, store, index.  Every call signs anew, and every *)
(* signature differs (a random identifier, the signing time), so a         *)
(* signature is named by the call that made it.  The document is submitted *)
(* and decided while calls run.  A step is one await.                      *)
(***************************************************************************)
EXTENDS Naturals

CONSTANTS
    Preparations,     \* calls of PrepareFiscalXmlService.execute
    Adapters,         \* the storage drivers of a deployment: "local", "s3"
    MaxMishaps        \* bound: failures of a call to a service, and crashes

VARIABLES
    adapter,      \* the configured storage driver
    status,       \* FiscalDocument.status
    artifact,     \* the FiscalXmlArtifact row
    unsignedFile, signedFile,   \* the two objects of the document
    index,        \* the SIGNED_XML FiscalArtifact row: the hash it records
    submission,   \* the reference the submission took, and what it has posted
    prepPc, prepMem,
    served,       \* the signed XML handed out by the evidence resolver and the artifact API
    initialDelivery,   \* ensureInitialDelivery has been scheduled
    mishaps

xmlVars == <<adapter, status, artifact, unsignedFile, signedFile, index,
                     submission, prepPc, prepMem, served, initialDelivery, mishaps>>

None == "NONE"

PreReady == {"READY_FOR_XML", "XML_GENERATED", "XML_VALIDATED", "SIGNED"}
Terminal == {"ACCEPTED", "REJECTED"}   \* SUPERSEDED is written by no code
Statuses == PreReady \cup {"READY_TO_SUBMIT"} \cup Terminal

Signature == Preparations \cup {None}
Artifact == [exists : BOOLEAN, unsigned : BOOLEAN, signed : Signature, failed : BOOLEAN]
Submission == [signed : Signature, posted : Signature]
Labels == {"read", "attempt", "generate", "generated", "sign", "upload", "complete",
           "findIndex", "createIndex", "hook", "failing", "done"}

\* known: the artifact existed when the document was read.  source: the hash
\* createVerifiedIndex expects.
Memory == [known : BOOLEAN, source : Signature]

TypeOK ==
    /\ adapter \in Adapters
    /\ status \in Statuses
    /\ artifact \in Artifact
    /\ unsignedFile \in BOOLEAN
    /\ signedFile \in Signature
    /\ index \in Signature
    /\ submission \in Submission
    /\ prepPc \in [Preparations -> Labels]
    /\ prepMem \in [Preparations -> Memory]
    /\ served \subseteq Signature
    /\ initialDelivery \in BOOLEAN
    /\ mishaps \in 0..MaxMishaps

Init ==
    /\ adapter \in Adapters
    /\ status = "READY_FOR_XML"
    /\ artifact = [exists |-> FALSE, unsigned |-> FALSE, signed |-> None, failed |-> FALSE]
    /\ unsignedFile = FALSE
    /\ signedFile = None
    /\ index = None
    /\ submission = [signed |-> None, posted |-> None]
    /\ prepPc = [p \in Preparations |-> "read"]
    /\ prepMem = [p \in Preparations |-> [known |-> FALSE, source |-> None]]
    /\ served = {}
    /\ initialDelivery = FALSE
    /\ mishaps = 0

At(p, from, to) ==
    /\ prepPc[p] = from
    /\ prepPc' = [prepPc EXCEPT ![p] = to]

Remember(p, field, value) == prepMem' = [prepMem EXCEPT ![p][field] = value]

\* Variant of Advanceable: the document's status is not looked at.
AlwaysAdvanceable == TRUE

\* The guard of every updateMany on the document: not terminal, or a conflict.
Advanceable == status \notin Terminal

-----------------------------------------------------------------------------
(* One call *)

\* A ready document is answered from its artifact; a terminal one is refused.
ReadFinished(p) ==
    /\ At(p, "read", "done")
    /\ \/ status = "READY_TO_SUBMIT" /\ artifact.signed # None
       \/ status \notin PreReady
    /\ UNCHANGED <<adapter, status, artifact, unsignedFile, signedFile, index, submission,
                   prepMem, served, initialDelivery, mishaps>>

ReadDocument(p) ==
    /\ At(p, "read", "attempt")
    /\ status \in PreReady
    /\ Remember(p, "known", artifact.exists)
    /\ UNCHANGED <<adapter, status, artifact, unsignedFile, signedFile, index, submission,
                   served, initialDelivery, mishaps>>

\* upsertAttemptArtifact outside the try: a call that read no artifact and finds
\* one violates the unique key and ends.
RecordAttempt(p) ==
    /\ At(p, "attempt", IF artifact.exists /\ ~prepMem[p].known THEN "done" ELSE "generate")
    /\ artifact' = [artifact EXCEPT !.exists = TRUE]
    /\ UNCHANGED <<adapter, status, unsignedFile, signedFile, index, submission, prepMem,
                   served, initialDelivery, mishaps>>

\* The unsigned XML is the same in every call: its upload never conflicts.
UploadUnsigned(p) ==
    /\ At(p, "generate", "generated")
    /\ unsignedFile' = TRUE
    /\ UNCHANGED <<adapter, status, artifact, signedFile, index, submission, prepMem,
                   served, initialDelivery, mishaps>>

\* ConflictException is rethrown without recording a failure.
Conflict(p) ==
    /\ prepPc[p] \in {"generated", "sign", "complete"}
    /\ ~Advanceable
    /\ prepPc' = [prepPc EXCEPT ![p] = "done"]
    /\ UNCHANGED <<adapter, status, artifact, unsignedFile, signedFile, index, submission,
                   prepMem, served, initialDelivery, mishaps>>

RecordGenerated(p) ==
    /\ At(p, "generated", "sign")
    /\ Advanceable
    /\ status' = "XML_GENERATED"
    /\ artifact' = [artifact EXCEPT !.unsigned = TRUE, !.failed = FALSE]
    /\ UNCHANGED <<adapter, unsignedFile, signedFile, index, submission, prepMem,
                   served, initialDelivery, mishaps>>

\* getActiveCertificate, sign, and advanceDocumentStatus; verify and validate follow.
Sign(p) ==
    /\ At(p, "sign", "upload")
    /\ Advanceable
    /\ status' = "SIGNED"
    /\ UNCHANGED <<adapter, artifact, unsignedFile, signedFile, index, submission, prepMem,
                   served, initialDelivery, mishaps>>

\* Variant of UploadSigned: the local adapter overwrites as S3 does.
UploadSignedOver(p) ==
    /\ At(p, "upload", "complete")
    /\ signedFile' = p
    /\ UNCHANGED <<adapter, status, artifact, unsignedFile, index, submission, prepMem,
                   served, initialDelivery, mishaps>>

\* The key does not depend on the call.  The local adapter refuses other bytes;
\* S3 overwrites.
UploadSigned(p) ==
    LET refused == adapter = "local" /\ signedFile # None IN
    /\ At(p, "upload", IF refused THEN "failing" ELSE "complete")
    /\ signedFile' = IF refused THEN signedFile ELSE p
    /\ UNCHANGED <<adapter, status, artifact, unsignedFile, index, submission, prepMem,
                   served, initialDelivery, mishaps>>

\* Variant of Complete: the artifact is written outside the transaction, which is lost.
CompleteDocumentFirst(p) ==
    /\ At(p, "complete", "findIndex")
    /\ Advanceable
    /\ status' = "READY_TO_SUBMIT"
    /\ UNCHANGED <<adapter, artifact, unsignedFile, signedFile, index, submission, prepMem,
                   served, initialDelivery, mishaps>>

\* The last transaction: XML_VALIDATED, the artifact's evidence, READY_TO_SUBMIT.
Complete(p) ==
    /\ At(p, "complete", "findIndex")
    /\ Advanceable
    /\ status' = "READY_TO_SUBMIT"
    /\ artifact' = [artifact EXCEPT !.signed = p, !.failed = FALSE]
    /\ UNCHANGED <<adapter, unsignedFile, signedFile, index, submission, prepMem,
                   served, initialDelivery, mishaps>>

\* Variant of FindIndex: the delivery does not wait for the index.
FindIndexOrSkip(p) ==
    /\ At(p, "findIndex", "hook")
    /\ UNCHANGED <<adapter, status, artifact, unsignedFile, signedFile, index, submission,
                   prepMem, served, initialDelivery, mishaps>>

\* ensureSignedXmlArtifact: findExisting, then the source row.
FindIndex(p) ==
    /\ At(p, "findIndex", IF index # None THEN "hook" ELSE "createIndex")
    /\ Remember(p, "source", artifact.signed)
    /\ UNCHANGED <<adapter, status, artifact, unsignedFile, signedFile, index, submission,
                   served, initialDelivery, mishaps>>

\* Variant of CreateIndex: the hash of the stored bytes is recorded, not the expected one.
CreateIndexOfStored(p) ==
    /\ At(p, "createIndex", "hook")
    /\ index' = IF index = None THEN signedFile ELSE index
    /\ UNCHANGED <<adapter, status, artifact, unsignedFile, signedFile, submission,
                   prepMem, served, initialDelivery, mishaps>>

\* createVerifiedIndex: the stored bytes must have the expected hash; a row
\* created by another call meanwhile is the winner.
CreateIndex(p) ==
    LET intact == signedFile = prepMem[p].source IN
    /\ At(p, "createIndex", IF intact THEN "hook" ELSE "failing")
    /\ index' = IF intact /\ index = None THEN prepMem[p].source ELSE index
    /\ UNCHANGED <<adapter, status, artifact, unsignedFile, signedFile, submission,
                   prepMem, served, initialDelivery, mishaps>>

\* setImmediate of ensureInitialDelivery, and the answer.
ScheduleDelivery(p) ==
    /\ At(p, "hook", "done")
    /\ initialDelivery' = TRUE
    /\ UNCHANGED <<adapter, status, artifact, unsignedFile, signedFile, index, submission,
                   prepMem, mishaps, served>>

\* The catch block: markFailure, and BadRequest.
MarkFailure(p) ==
    /\ At(p, "failing", "done")
    /\ artifact' = [artifact EXCEPT !.failed = TRUE]
    /\ UNCHANGED <<adapter, status, unsignedFile, signedFile, index, submission, prepMem,
                   served, initialDelivery, mishaps>>

\* A call to storage, the database, the secret store or the signer fails, or a
\* verification or validation does.
ServiceFails(p) ==
    /\ mishaps < MaxMishaps
    /\ prepPc[p] \in {"generate", "generated", "sign", "upload", "complete", "findIndex",
                      "createIndex"}
    /\ prepPc' = [prepPc EXCEPT ![p] = "failing"]
    /\ mishaps' = mishaps + 1
    /\ UNCHANGED <<adapter, status, artifact, unsignedFile, signedFile, index, submission,
                   prepMem, served, initialDelivery>>

Crash(p) ==
    /\ mishaps < MaxMishaps
    /\ prepPc[p] # "done"
    /\ prepPc' = [prepPc EXCEPT ![p] = "done"]
    /\ mishaps' = mishaps + 1
    /\ UNCHANGED <<adapter, status, artifact, unsignedFile, signedFile, index, submission,
                   prepMem, served, initialDelivery>>

-----------------------------------------------------------------------------
(* The submission of the document, see FiscalSubmission *)

\* Submit takes the key and hash of the signed XML into its row.
TakeForSubmission ==
    /\ status = "READY_TO_SUBMIT"
    /\ artifact.signed # None
    /\ submission.signed = None
    /\ submission' = [submission EXCEPT !.signed = artifact.signed]
    /\ UNCHANGED <<adapter, status, artifact, unsignedFile, signedFile, index, prepPc,
                   prepMem, served, initialDelivery, mishaps>>

\* Variant of Post: the worker does not compare the hash.
PostUnchecked ==
    /\ submission.signed # None
    /\ submission.posted = None
    /\ submission' = [submission EXCEPT !.posted = signedFile]
    /\ UNCHANGED <<adapter, status, artifact, unsignedFile, signedFile, index, prepPc,
                   prepMem, served, initialDelivery, mishaps>>

\* The worker downloads the object, compares its hash and posts it.
Post ==
    /\ submission.signed # None
    /\ submission.posted = None
    /\ signedFile = submission.signed
    /\ submission' = [submission EXCEPT !.posted = signedFile]
    /\ UNCHANGED <<adapter, status, artifact, unsignedFile, signedFile, index, prepPc,
                   prepMem, served, initialDelivery, mishaps>>

\* The verdict is recorded on a document that has none.
Decide ==
    /\ submission.posted # None
    /\ Advanceable
    /\ status' \in Terminal
    /\ UNCHANGED <<adapter, artifact, unsignedFile, signedFile, index, submission, prepPc,
                   prepMem, served, initialDelivery, mishaps>>

-----------------------------------------------------------------------------
(* The readers of the evidence *)

Serve(recorded) ==
    /\ recorded # None
    /\ signedFile = recorded
    /\ served' = served \cup {signedFile}
    /\ UNCHANGED <<adapter, status, artifact, unsignedFile, signedFile, index, submission,
                   prepPc, prepMem, initialDelivery, mishaps>>

\* Mails and PDFs are made from the object whose hash the artifact records ...
ResolveSignedXmlBytes == Serve(artifact.signed)

\* ... and downloads are served by the index.
DownloadArtifact == Serve(index)

Step(p) ==
    \/ ReadFinished(p) \/ ReadDocument(p) \/ RecordAttempt(p) \/ UploadUnsigned(p)
    \/ Conflict(p) \/ RecordGenerated(p) \/ Sign(p) \/ UploadSigned(p) \/ Complete(p)
    \/ FindIndex(p) \/ CreateIndex(p) \/ ScheduleDelivery(p) \/ MarkFailure(p)
    \/ ServiceFails(p) \/ Crash(p)

Next ==
    \/ \E p \in Preparations : Step(p)
    \/ TakeForSubmission \/ Post \/ Decide
    \/ ResolveSignedXmlBytes \/ DownloadArtifact

Spec == Init /\ [][Next]_xmlVars
-----------------------------------------------------------------------------
(* Properties *)

\* A document that can be submitted, or has been decided, has a signed XML on
\* record, whatever preparations fail or race.
ReadyIsSigned ==
    status \in {"READY_TO_SUBMIT"} \cup Terminal => artifact.signed # None /\ artifact.exists

\* With write-once storage the recorded hash is that of the stored bytes, at any
\* moment of any preparation: the evidence can always be resolved.
EvidenceIsStored ==
    adapter = "local" /\ artifact.signed # None => signedFile = artifact.signed

\* With write-once storage, what Hacienda received, what the artifact records, what
\* the artifact API lists and what mails, PDFs and downloads were made from are the
\* same signed XML.
OneSignedXml ==
    adapter = "local" =>
        /\ submission.posted \in {None, artifact.signed}
        /\ index \in {None, artifact.signed}
        /\ served \subseteq {artifact.signed}

\* With any storage, what was posted has the hash the submission row records.
PostedAsRecorded == submission.posted \in {None, submission.signed}

\* A preparation that runs late never takes a decided document back.
DecisionIsKept == [][status \notin Terminal \/ UNCHANGED status]_xmlVars

\* The initial delivery is scheduled only for a document whose signed XML is
\* recorded and indexed, even when the call that schedules it lost every race.
DeliveryIsPrepared == initialDelivery => artifact.signed # None /\ index # None

\* One signed XML stands behind a document that can be submitted: recorded, stored,
\* indexed, posted and handed out, however preparations race and fail.
SignedXmlInv ==
    /\ TypeOK
    /\ ReadyIsSigned
    /\ EvidenceIsStored
    /\ OneSignedXml
    /\ PostedAsRecorded
    /\ DeliveryIsPrepared
=============================================================================
