-------------------------- MODULE SigningCertificates --------------------------
(***************************************************************************)
(* The signing certificates of one company in one environment, and the     *)
(* identity they are bound to: uploads that race and fail, the secrets they *)
(* store under the fingerprint of the file, the change of the company's     *)
(* identification, the document it locks, and signing.  A step is one       *)
(* await; the upload's transaction reads, then writes and commits.          *)
(***************************************************************************)
EXTENDS Naturals, FiniteSets

CONSTANTS
    Uploads,        \* calls of the upload service
    Certificates,   \* the PKCS#12 files, by their fingerprint
    Identities,     \* fiscal identifications: type and number
    IssuedTo,       \* the identity each certificate carries
    Signings,       \* calls that sign a document
    LastStamp,      \* bound: the milliseconds the clock counts
    MaxFaults       \* bound: failed services and crashes

VARIABLES
    identity,       \* of the company
    file,           \* the certificate each upload brings
    expired,        \* the certificates past their validTo
    rows,           \* FiscalSigningCertificate, by the upload that creates it
    secrets,        \* what the secret store holds of each certificate
    clock,
    uploadPc, uploadMem,
    issuer,         \* the issuer in the documents' snapshot
    issuePc, issueMem,
    updatePc, updateMem,
    signPc, signMem,
    signatures,     \* who signed what: the certificate and the document's issuer
    undone,         \* history: certificates whose secrets a failed upload deleted
    reordered,      \* history: an activation committed after a later one
    overtaken,      \* history: the identity changed over a document being created
    faults

certificateVars ==
    <<identity, file, expired, rows, secrets, clock, uploadPc, uploadMem, issuer, issuePc,
      issueMem, updatePc, updateMem, signPc, signMem, signatures, undone, reordered,
      overtaken, faults>>

None == "NONE"

\* Nobody's identity, and no upload, is the absent one; the bounds are numbers.
ASSUME CertificateConstants ==
    /\ None \notin Identities \cup Uploads
    /\ LastStamp \in Nat /\ MaxFaults \in Nat

Both == {"certificate", "pin"}

Row == [status : {None, "ACTIVE", "REPLACED"}, activeFrom : 0..LastStamp]

\* Where an upload has no row yet.
BeforeCommit == {"check", "storeCertificate", "storePin", "stamp", "find", "commit",
                 "dropCertificate"}

UploadLabels == BeforeCommit \cup {"cleanCertificate", "cleanPin", "done"}

TypeOK ==
    /\ identity \in Identities
    /\ file \in [Uploads -> Certificates]
    /\ expired \subseteq Certificates
    /\ rows \in [Uploads -> Row]
    /\ secrets \in [Certificates -> SUBSET Both]
    /\ clock \in 0..LastStamp
    /\ uploadPc \in [Uploads -> UploadLabels]
    /\ uploadMem \in [Uploads -> [found : Uploads \cup {None}, activeFrom : 0..LastStamp]]
    /\ issuer \in Identities \cup {None}
    /\ issuePc \in {"read", "insert", "done"}
    /\ issueMem \in Identities \cup {None}
    /\ updatePc \in {"check", "save", "done"}
    /\ updateMem \in Identities \cup {None}
    /\ signPc \in [Signings -> {"find", "compare", "load", "done"}]
    /\ signMem \in [Signings -> Uploads \cup {None}]
    /\ signatures \subseteq [certificate : Certificates, issuer : Identities]
    /\ undone \subseteq Certificates
    /\ reordered \in BOOLEAN /\ overtaken \in BOOLEAN
    /\ faults \in 0..MaxFaults

Init ==
    /\ identity \in Identities
    /\ file \in [Uploads -> Certificates]
    /\ expired = {}
    /\ rows = [u \in Uploads |-> [status |-> None, activeFrom |-> 0]]
    /\ secrets = [c \in Certificates |-> {}]
    /\ clock = 0
    /\ uploadPc = [u \in Uploads |-> "check"]
    /\ uploadMem = [u \in Uploads |-> [found |-> None, activeFrom |-> 0]]
    /\ issuer = None /\ issuePc = "read" /\ issueMem = None
    /\ updatePc = "check" /\ updateMem = None
    /\ signPc = [s \in Signings |-> "find"]
    /\ signMem = [s \in Signings |-> None]
    /\ signatures = {} /\ undone = {}
    /\ reordered = FALSE /\ overtaken = FALSE
    /\ faults = 0

Active == {u \in Uploads : rows[u].status = "ACTIVE"}
Stored == {u \in Uploads : rows[u].status # None}

-----------------------------------------------------------------------------
(* One upload *)

At(u, from, to) ==
    /\ uploadPc[u] = from
    /\ uploadPc' = [uploadPc EXCEPT ![u] = to]

OthersUnchanged ==
    UNCHANGED <<identity, file, expired, issuer, issuePc, issueMem, updatePc, updateMem,
                signPc, signMem, signatures, overtaken>>

\* The certificate is the company's and valid now, or the upload is refused.
CheckUpload(u) ==
    /\ At(u, "check", IF IssuedTo[file[u]] = identity /\ file[u] \notin expired
                      THEN "storeCertificate" ELSE "done")
    /\ OthersUnchanged
    /\ UNCHANGED <<rows, secrets, clock, uploadMem, undone, reordered, faults>>

\* storeSecret replaces what the store holds under the reference.
StoreSecret(u, secret) ==
    /\ secrets' = [secrets EXCEPT ![file[u]] = @ \cup {secret}]
    /\ OthersUnchanged
    /\ UNCHANGED <<rows, clock, uploadMem, undone, reordered, faults>>

StoreCertificate(u) == At(u, "storeCertificate", "storePin") /\ StoreSecret(u, "certificate")
StorePin(u) == At(u, "storePin", "stamp") /\ StoreSecret(u, "pin")

\* activeFrom is taken before the transaction.
Stamp(u) ==
    /\ At(u, "stamp", "find")
    /\ clock' \in {clock, clock + 1} \cap 0..LastStamp
    /\ uploadMem' = [uploadMem EXCEPT ![u].activeFrom = clock']
    /\ OthersUnchanged
    /\ UNCHANGED <<rows, secrets, undone, reordered, faults>>

\* Variant of FindActive: the secrets of the certificate to replace go at once.
FindAndForget(u) ==
    /\ At(u, "find", "commit")
    /\ \E found \in IF Active = {} THEN {None} ELSE Active :
          /\ uploadMem' = [uploadMem EXCEPT ![u].found = found]
          /\ secrets' = IF found = None \/ file[found] = file[u] THEN secrets
                        ELSE [secrets EXCEPT ![file[found]] = {}]
    /\ OthersUnchanged
    /\ UNCHANGED <<rows, clock, undone, reordered, faults>>

FindActive(u) ==
    /\ At(u, "find", "commit")
    /\ \E found \in IF Active = {} THEN {None} ELSE Active :
          uploadMem' = [uploadMem EXCEPT ![u].found = found]
    /\ OthersUnchanged
    /\ UNCHANGED <<rows, secrets, clock, undone, reordered, faults>>

\* Variant of Conflict: without the partial unique index.
NoConflict(u) == FALSE

\* The partial unique index: another certificate is active than the one found.
Conflict(u) == Active \ {uploadMem[u].found} # {}

\* Variant of Activated: the certificate replaced is revoked.
ActivatedRevoking(u) ==
    [v \in Uploads |->
        IF v = u THEN [status |-> "ACTIVE", activeFrom |-> uploadMem[u].activeFrom]
        ELSE IF v = uploadMem[u].found THEN [rows[v] EXCEPT !.status = "REVOKED"]
        ELSE rows[v]]

Activated(u) ==
    [v \in Uploads |->
        IF v = u THEN [status |-> "ACTIVE", activeFrom |-> uploadMem[u].activeFrom]
        ELSE IF v = uploadMem[u].found THEN [rows[v] EXCEPT !.status = "REPLACED"]
        ELSE rows[v]]

IsReordered(u) ==
    reordered' = (reordered \/ \E v \in Stored : rows[v].activeFrom >= uploadMem[u].activeFrom)

Commit(u) ==
    /\ At(u, "commit", "done")
    /\ ~Conflict(u)
    /\ rows' = Activated(u)
    /\ IsReordered(u)
    /\ OthersUnchanged
    /\ UNCHANGED <<secrets, clock, uploadMem, undone, faults>>

CommitConflicts(u) ==
    /\ At(u, "commit", "cleanCertificate")
    /\ Conflict(u)
    /\ OthersUnchanged
    /\ UNCHANGED <<rows, secrets, clock, uploadMem, undone, reordered, faults>>

\* Any other error of the transaction, before its commit or after it.
CommitFails(u) ==
    /\ faults < MaxFaults
    /\ At(u, "commit", "cleanCertificate")
    /\ ~Conflict(u)
    /\ \/ rows' = Activated(u) /\ IsReordered(u)
       \/ UNCHANGED <<rows, reordered>>
    /\ faults' = faults + 1
    /\ OthersUnchanged
    /\ UNCHANGED <<secrets, clock, uploadMem, undone>>

StorePinFails(u) ==
    /\ faults < MaxFaults
    /\ At(u, "storePin", "dropCertificate")
    /\ faults' = faults + 1
    /\ OthersUnchanged
    /\ UNCHANGED <<rows, secrets, clock, uploadMem, undone, reordered>>

\* attemptCleanupSecret: the references are those of the file, not of the upload.
Cleanup(u, secret) ==
    /\ secrets' = [secrets EXCEPT ![file[u]] = @ \ {secret}]
    /\ undone' = undone \cup {file[u]}
    /\ OthersUnchanged
    /\ UNCHANGED <<rows, clock, uploadMem, reordered, faults>>

CleanCertificate(u) == At(u, "cleanCertificate", "cleanPin") /\ Cleanup(u, "certificate")
CleanPin(u) == At(u, "cleanPin", "done") /\ Cleanup(u, "pin")
DropCertificate(u) == At(u, "dropCertificate", "done") /\ Cleanup(u, "certificate")

Crash(u) ==
    /\ faults < MaxFaults
    /\ uploadPc[u] # "done"
    /\ uploadPc' = [uploadPc EXCEPT ![u] = "done"]
    /\ faults' = faults + 1
    /\ OthersUnchanged
    /\ UNCHANGED <<rows, secrets, clock, uploadMem, undone, reordered>>

-----------------------------------------------------------------------------
(* The identity of the company and its first document *)

CertificatesUnchanged ==
    UNCHANGED <<file, expired, rows, secrets, clock, uploadPc, uploadMem, signPc, signMem,
                signatures, undone, reordered, faults>>

\* Variant of Locked: only certificates lock the identity.
LockedByCertificate == Active # {}

\* assertIssuerIdentityUnlocked: an active certificate, a reservation or a document.
Locked == Active # {} \/ issuer # None

UpdateCheck ==
    /\ updatePc = "check"
    /\ \E new \in Identities \ {identity} :
          /\ ~Locked
          /\ updateMem' = new
    /\ updatePc' = "save"
    /\ CertificatesUnchanged
    /\ UNCHANGED <<identity, issuer, issuePc, issueMem, overtaken>>

UpdateSave ==
    /\ updatePc = "save"
    /\ identity' = updateMem
    /\ updatePc' = "done"
    /\ overtaken' = (overtaken \/ Locked \/ issuePc = "insert")
    /\ CertificatesUnchanged
    /\ UNCHANGED <<issuer, issuePc, issueMem, updateMem>>

\* createDocument takes the issuer's snapshot and commits it with the reservation.
IssueRead ==
    /\ issuePc = "read"
    /\ issuePc' = "insert"
    /\ issueMem' = identity
    /\ CertificatesUnchanged
    /\ UNCHANGED <<identity, issuer, updatePc, updateMem, overtaken>>

IssueInsert ==
    /\ issuePc = "insert"
    /\ issuePc' = "done"
    /\ issuer' = issueMem
    /\ CertificatesUnchanged
    /\ UNCHANGED <<identity, issueMem, updatePc, updateMem, overtaken>>

-----------------------------------------------------------------------------
(* Signing: getActiveCertificate *)

SignAt(s, from, to) ==
    /\ signPc[s] = from
    /\ signPc' = [signPc EXCEPT ![s] = to]

SigningOnly ==
    UNCHANGED <<identity, file, expired, rows, secrets, clock, uploadPc, uploadMem, issuer,
                issuePc, issueMem, updatePc, updateMem, undone, reordered, overtaken, faults>>

\* The record with the latest activeFrom, whatever its status.
Latest == {u \in Stored : \A v \in Stored : rows[v].activeFrom <= rows[u].activeFrom}

Usable(u) == rows[u].status = "ACTIVE" /\ file[u] \notin expired

FindCertificate(s) ==
    /\ issuer # None
    /\ \/ \E u \in Latest :
             /\ SignAt(s, "find", IF Usable(u) THEN "compare" ELSE "done")
             /\ signMem' = [signMem EXCEPT ![s] = u]
       \/ /\ Latest = {}
          /\ SignAt(s, "find", "done")
          /\ UNCHANGED signMem
    /\ SigningOnly
    /\ UNCHANGED signatures

CompareIdentity(s) ==
    /\ SignAt(s, "compare", IF IssuedTo[file[signMem[s]]] = identity THEN "load" ELSE "done")
    /\ SigningOnly
    /\ UNCHANGED <<signMem, signatures>>

LoadSecretsAndSign(s) ==
    LET certificate == file[signMem[s]] IN
    /\ SignAt(s, "load", "done")
    /\ signatures' = IF secrets[certificate] = Both
                     THEN signatures \cup {[certificate |-> certificate, issuer |-> issuer]}
                     ELSE signatures
    /\ SigningOnly
    /\ UNCHANGED signMem

\* validTo passes.
Expire(c) ==
    /\ c \notin expired
    /\ faults < MaxFaults
    /\ expired' = expired \cup {c}
    /\ faults' = faults + 1
    /\ UNCHANGED <<identity, file, rows, secrets, clock, uploadPc, uploadMem, issuer, issuePc,
                   issueMem, updatePc, updateMem, signPc, signMem, signatures, undone,
                   reordered, overtaken>>

UploadStep(u) ==
    \/ CheckUpload(u) \/ StoreCertificate(u) \/ StorePin(u) \/ Stamp(u) \/ FindActive(u)
    \/ Commit(u) \/ CommitConflicts(u) \/ CommitFails(u) \/ StorePinFails(u)
    \/ CleanCertificate(u) \/ CleanPin(u) \/ DropCertificate(u) \/ Crash(u)

Next ==
    \/ \E u \in Uploads : UploadStep(u)
    \/ UpdateCheck \/ UpdateSave \/ IssueRead \/ IssueInsert
    \/ \E s \in Signings : FindCertificate(s) \/ CompareIdentity(s) \/ LoadSecretsAndSign(s)
    \/ \E c \in Certificates : Expire(c)

Spec == Init /\ [][Next]_certificateVars
-----------------------------------------------------------------------------
(* FiscalReadinessService.evaluate, checks 4 to 6 *)

\* Variant of CertificateReady: the secrets are not resolved.
CertificateReadyOnPaper ==
    \E u \in Active : file[u] \notin expired /\ IssuedTo[file[u]] = identity

CertificateReady ==
    \E u \in Active :
        /\ file[u] \notin expired
        /\ secrets[file[u]] = Both
        /\ IssuedTo[file[u]] = identity

(* Properties *)

\* Rotation has no gap and no overlap: once a certificate has been activated there
\* is exactly one active, however uploads race and fail.
RotationIsAtomic == Stored # {} => Cardinality(Active) = 1

\* The active certificate keeps its secrets, unless an upload of the same file
\* failed and deleted them.
SecretsAreKept == \A u \in Active : file[u] \notin undone => secrets[file[u]] = Both

\* No document is signed with a certificate of somebody else than its issuer,
\* unless the identity was changed while the document was being created.
SignedByIssuer ==
    \A signature \in signatures :
        overtaken \/ IssuedTo[signature.certificate] = signature.issuer

\* When readiness reports no problem with the certificate, signing would succeed
\* now, unless activations were committed in another order than they were stamped.
ReadyCanSign ==
    CertificateReady /\ ~reordered =>
        \A u \in Latest :
            Usable(u) /\ IssuedTo[file[u]] = identity /\ secrets[file[u]] = Both

\* An upload has no row before its transaction; the active row is one, and the latest
\* unless commits were reordered.
RowsAreInOrder ==
    /\ \A u \in Uploads : uploadPc[u] \in BeforeCommit => rows[u].status = None
    /\ \A u, v \in Active : u = v
    /\ Stored # {} => Active # {}
    /\ \A u \in Active, v \in Stored :
          ~reordered /\ v # u => rows[v].activeFrom < rows[u].activeFrom
    /\ \A u \in Uploads : uploadMem[u].found \in Stored \cup {None}

\* An upload past storing its secrets, and a row, has them unless they were deleted.
SecretsAreThere ==
    \A u \in Uploads : file[u] \notin undone =>
        /\ uploadPc[u] = "storePin" => "certificate" \in secrets[file[u]]
        /\ uploadPc[u] \in {"stamp", "find", "commit"} \/ rows[u].status # None =>
              secrets[file[u]] = Both

\* While no identity change overtook a document, the company, the document and the
\* snapshot on its way are one identity; whoever signs has a document and a row.
IssuerIsCompany ==
    /\ ~overtaken => /\ issuer \in {None, identity}
                     /\ issuePc = "insert" => issueMem = identity
    /\ issuePc = "insert" => issueMem # None
    /\ issuePc # "done" => issuer = None
    /\ updatePc = "save" => updateMem # None
    /\ \A s \in Signings :
          /\ signPc[s] \in {"compare", "load"} => issuer # None /\ signMem[s] \in Uploads
          /\ signPc[s] = "load" /\ ~overtaken => IssuedTo[file[signMem[s]]] = issuer

\* One certificate is active, with its secrets, for the issuer of what it signs, and
\* readiness knows, however uploads, identity changes and signatures cross.
CertificateInv ==
    /\ TypeOK
    /\ RowsAreInOrder
    /\ SecretsAreThere
    /\ IssuerIsCompany
    /\ RotationIsAtomic
    /\ SecretsAreKept
    /\ SignedByIssuer
    /\ ReadyCanSign
=============================================================================
