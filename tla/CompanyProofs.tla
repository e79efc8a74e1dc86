--------------------------- MODULE CompanyProofs ---------------------------
(***************************************************************************)
(* Proofs about what a company is administered by: SigningCertificates,     *)
(* FiscalAssociation, IssuancePoints, TaxpayerActivities and TestInvoice,   *)
(* for any number of uploads, callers, managers, verifications, codes and   *)
(* requests.                                                                *)
(***************************************************************************)
EXTENDS MCCompany, FiniteSetTheorems, TLAPS

-----------------------------------------------------------------------------
(* SigningCertificates: one certificate is active, and it signs for its owner *)

(* Types.  A step of an upload leaves what OthersUnchanged names. *)

LEMMA AtType ==
    ASSUME TypeOK, NEW u \in Uploads, NEW from, NEW to \in UploadLabels, At(u, from, to)
    PROVE  /\ uploadPc' \in [Uploads -> UploadLabels] /\ uploadPc[u] = from
           /\ uploadPc'[u] = to /\ \A v \in Uploads : v # u => uploadPc'[v] = uploadPc[v]
BY DEF TypeOK, At

\* Activation keeps the rows' type.
LEMMA ActivatedType ==
    ASSUME TypeOK, NEW u \in Uploads
    PROVE  Activated(u) \in [Uploads -> Row]
<1>1. uploadMem[u].activeFrom \in 0..LastStamp
  BY DEF TypeOK
<1>2. ASSUME NEW v \in Uploads
      PROVE  /\ [status |-> "ACTIVE", activeFrom |-> uploadMem[u].activeFrom] \in Row
             /\ [rows[v] EXCEPT !.status = "REPLACED"] \in Row
             /\ rows[v] \in Row
  BY <1>1 DEF TypeOK, Row
<1> QED
  BY <1>2 DEF Activated

\* What a step of an upload does that writes no row: it keeps the secrets of all files
\* but those it marks as undone, and goes on only with the secrets it has stored.
KeepsRows(u) ==
    /\ TypeOK' /\ OthersUnchanged
    /\ rows' = rows /\ reordered' = reordered
    /\ undone \subseteq undone'
    /\ \A c \in Certificates \ undone' : secrets[c] \subseteq secrets'[c]
    /\ \A v \in Uploads \ {u} : uploadPc'[v] = uploadPc[v]
    /\ uploadPc'[u] \in BeforeCommit => uploadPc[u] \in BeforeCommit
    /\ \A v \in Uploads : uploadMem'[v].found \in {uploadMem[v].found, None} \cup Active
    /\ file[u] \notin undone' =>
          /\ uploadPc'[u] = "storePin" => "certificate" \in secrets'[file[u]]
          /\ uploadPc'[u] \in {"stamp", "find", "commit"} => Both \subseteq secrets'[file[u]]

\* What the commit does.
Activates(u) ==
    /\ TypeOK' /\ OthersUnchanged
    /\ uploadPc[u] = "commit" /\ ~Conflict(u)
    /\ rows' = Activated(u) /\ IsReordered(u)
    /\ UNCHANGED <<secrets, undone, uploadMem>>
    /\ \A v \in Uploads \ {u} : uploadPc'[v] = uploadPc[v]
    /\ uploadPc'[u] \notin BeforeCommit

LEMMA CheckKeeps ==
    ASSUME CertificateInv, NEW u \in Uploads, CheckUpload(u) PROVE KeepsRows(u)
<1> DEFINE to == IF IssuedTo[file[u]] = identity /\ file[u] \notin expired
                 THEN "storeCertificate" ELSE "done"
<1>1. to \in UploadLabels /\ to \in {"storeCertificate", "done"} /\ At(u, "check", to)
  BY DEF UploadLabels, BeforeCommit, CheckUpload
<1>2. /\ uploadPc' \in [Uploads -> UploadLabels] /\ uploadPc[u] = "check"
      /\ uploadPc'[u] = to /\ \A v \in Uploads : v # u => uploadPc'[v] = uploadPc[v]
  BY <1>1, AtType DEF CertificateInv
<1> QED
  BY <1>1, <1>2 DEF CertificateInv, TypeOK, CheckUpload, OthersUnchanged, KeepsRows, BeforeCommit

LEMMA StoreCertificateKeeps ==
    ASSUME CertificateInv, NEW u \in Uploads, StoreCertificate(u) PROVE KeepsRows(u)
<1>1. /\ uploadPc' \in [Uploads -> UploadLabels] /\ uploadPc[u] = "storeCertificate"
      /\ uploadPc'[u] = "storePin" /\ \A v \in Uploads : v # u => uploadPc'[v] = uploadPc[v]
  BY AtType DEF CertificateInv, UploadLabels, BeforeCommit, StoreCertificate
<1>2. /\ secrets' = [secrets EXCEPT ![file[u]] = @ \cup {"certificate"}]
      /\ OthersUnchanged /\ UNCHANGED <<rows, clock, uploadMem, undone, reordered, faults>>
  BY DEF StoreCertificate, StoreSecret
<1>3. file[u] \in Certificates /\ "certificate" \in Both
  BY DEF CertificateInv, TypeOK, Both
<1>4. /\ secrets' \in [Certificates -> SUBSET Both] /\ "certificate" \in secrets'[file[u]]
      /\ \A c \in Certificates : secrets[c] \subseteq secrets'[c]
  BY <1>2, <1>3 DEF CertificateInv, TypeOK
<1> QED
  BY <1>1, <1>2, <1>4 DEF CertificateInv, TypeOK, OthersUnchanged, KeepsRows, BeforeCommit

LEMMA StorePinKeeps ==
    ASSUME CertificateInv, NEW u \in Uploads, StorePin(u) PROVE KeepsRows(u)
<1>1. /\ uploadPc' \in [Uploads -> UploadLabels] /\ uploadPc[u] = "storePin"
      /\ uploadPc'[u] = "stamp" /\ \A v \in Uploads : v # u => uploadPc'[v] = uploadPc[v]
  BY AtType DEF CertificateInv, UploadLabels, BeforeCommit, StorePin
<1>2. /\ secrets' = [secrets EXCEPT ![file[u]] = @ \cup {"pin"}]
      /\ OthersUnchanged /\ UNCHANGED <<rows, clock, uploadMem, undone, reordered, faults>>
  BY DEF StorePin, StoreSecret
<1>3. file[u] \in Certificates /\ "pin" \in Both
  BY DEF CertificateInv, TypeOK, Both
<1>4. /\ secrets' \in [Certificates -> SUBSET Both] /\ "pin" \in secrets'[file[u]]
      /\ \A c \in Certificates : secrets[c] \subseteq secrets'[c]
  BY <1>2, <1>3 DEF CertificateInv, TypeOK
<1>5. file[u] \notin undone => Both \subseteq secrets'[file[u]]
  BY <1>1, <1>3, <1>4 DEF CertificateInv, SecretsAreThere, Both
<1> QED
  BY <1>1, <1>2, <1>4, <1>5
  DEF CertificateInv, TypeOK, OthersUnchanged, KeepsRows, BeforeCommit

LEMMA StampKeeps ==
    ASSUME CertificateInv, NEW u \in Uploads, Stamp(u) PROVE KeepsRows(u)
<1>1. /\ uploadPc' \in [Uploads -> UploadLabels] /\ uploadPc[u] = "stamp"
      /\ uploadPc'[u] = "find" /\ \A v \in Uploads : v # u => uploadPc'[v] = uploadPc[v]
  BY AtType DEF CertificateInv, UploadLabels, BeforeCommit, Stamp
<1>2. /\ clock' \in 0..LastStamp /\ uploadMem' = [uploadMem EXCEPT ![u].activeFrom = clock']
      /\ OthersUnchanged /\ UNCHANGED <<rows, secrets, undone, reordered, faults>>
  BY DEF Stamp
<1>3. uploadMem' \in [Uploads -> [found : Uploads \cup {None}, activeFrom : 0..LastStamp]]
  BY <1>2 DEF CertificateInv, TypeOK
<1>4. file[u] \notin undone => Both \subseteq secrets[file[u]]
  BY <1>1 DEF CertificateInv, SecretsAreThere
<1> QED
  BY <1>1, <1>2, <1>3, <1>4
  DEF CertificateInv, TypeOK, OthersUnchanged, KeepsRows, BeforeCommit

LEMMA FindKeeps ==
    ASSUME CertificateInv, NEW u \in Uploads, FindActive(u) PROVE KeepsRows(u)
<1>1. /\ uploadPc' \in [Uploads -> UploadLabels] /\ uploadPc[u] = "find"
      /\ uploadPc'[u] = "commit" /\ \A v \in Uploads : v # u => uploadPc'[v] = uploadPc[v]
  BY AtType DEF CertificateInv, UploadLabels, BeforeCommit, FindActive
<1>2. PICK found \in IF Active = {} THEN {None} ELSE Active :
         uploadMem' = [uploadMem EXCEPT ![u].found = found]
  BY DEF FindActive
<1>3. found \in Uploads \cup {None}
  BY DEF Active
<1>4. uploadMem' \in [Uploads -> [found : Uploads \cup {None}, activeFrom : 0..LastStamp]]
  BY <1>2, <1>3 DEF CertificateInv, TypeOK
<1>5. OthersUnchanged /\ UNCHANGED <<rows, secrets, clock, undone, reordered, faults>>
  BY DEF FindActive
<1>6. file[u] \notin undone => Both \subseteq secrets[file[u]]
  BY <1>1 DEF CertificateInv, SecretsAreThere
<1>7. \A v \in Uploads : uploadMem'[v].found \in {uploadMem[v].found, None} \cup Active
  BY <1>2 DEF CertificateInv, TypeOK
<1> QED
  BY <1>1, <1>4, <1>5, <1>6, <1>7
  DEF CertificateInv, TypeOK, OthersUnchanged, KeepsRows, BeforeCommit

\* Deletion of one secret.
LEMMA CleanupKeeps ==
    ASSUME CertificateInv, NEW u \in Uploads, NEW secret, Cleanup(u, secret),
           NEW from \in UploadLabels, NEW to \in {"cleanPin", "done"}, At(u, from, to)
    PROVE  KeepsRows(u)
<1>1. /\ uploadPc' \in [Uploads -> UploadLabels]
      /\ uploadPc'[u] = to /\ \A v \in Uploads : v # u => uploadPc'[v] = uploadPc[v]
  BY AtType DEF CertificateInv, UploadLabels
<1>2. /\ secrets' = [secrets EXCEPT ![file[u]] = @ \ {secret}]
      /\ undone' = undone \cup {file[u]}
      /\ OthersUnchanged /\ UNCHANGED <<rows, clock, uploadMem, reordered, faults>>
  BY DEF Cleanup
<1>3. file[u] \in Certificates
  BY DEF CertificateInv, TypeOK
<1>4. /\ secrets' \in [Certificates -> SUBSET Both] /\ undone' \subseteq Certificates
      /\ \A c \in Certificates \ undone' : secrets'[c] = secrets[c]
  BY <1>2, <1>3 DEF CertificateInv, TypeOK
<1> QED
  BY <1>1, <1>2, <1>4 DEF CertificateInv, TypeOK, OthersUnchanged, KeepsRows, BeforeCommit

\* An upload that fails or dies without touching anything.
LEMMA StopKeeps ==
    ASSUME CertificateInv, NEW u \in Uploads, NEW to \in UploadLabels,
           to \in {"dropCertificate", "cleanCertificate", "done"},
           to = "dropCertificate" => uploadPc[u] \in BeforeCommit,
           uploadPc' = [uploadPc EXCEPT ![u] = to], faults' \in 0..MaxFaults, OthersUnchanged,
           UNCHANGED <<rows, secrets, clock, uploadMem, undone, reordered>>
    PROVE  KeepsRows(u)
<1>1. /\ uploadPc' \in [Uploads -> UploadLabels]
      /\ uploadPc'[u] = to /\ \A v \in Uploads : v # u => uploadPc'[v] = uploadPc[v]
  BY DEF CertificateInv, TypeOK
<1> QED
  BY <1>1 DEF CertificateInv, TypeOK, OthersUnchanged, KeepsRows, BeforeCommit

\* A counted fault stays within its bound.
LEMMA FaultType ==
    ASSUME TypeOK, faults < MaxFaults, faults' = faults + 1
    PROVE  faults' \in 0..MaxFaults
BY CertificateConstants DEF TypeOK

\* Every step of an upload keeps the rows, or activates one.
LEMMA UploadSteps ==
    ASSUME CertificateInv, NEW u \in Uploads, UploadStep(u)
    PROVE  KeepsRows(u) \/ Activates(u)
<1>t. TypeOK
  BY DEF CertificateInv
<1>l. {"dropCertificate", "cleanCertificate", "cleanPin", "done"} \subseteq UploadLabels
  BY DEF UploadLabels, BeforeCommit
<1>1. CASE CheckUpload(u) \/ StoreCertificate(u) \/ StorePin(u) \/ Stamp(u) \/ FindActive(u)
  BY <1>1, CheckKeeps, StoreCertificateKeeps, StorePinKeeps, StampKeeps, FindKeeps
<1>2. ASSUME At(u, "commit", "done") \/ At(u, "commit", "cleanCertificate"), ~Conflict(u),
             rows' = Activated(u), IsReordered(u), OthersUnchanged,
             UNCHANGED <<secrets, clock, uploadMem, undone>>, faults' \in 0..MaxFaults
      PROVE  Activates(u)
  <2>1. /\ uploadPc' \in [Uploads -> UploadLabels] /\ uploadPc[u] = "commit"
        /\ uploadPc'[u] \in {"done", "cleanCertificate"}
        /\ \A v \in Uploads : v # u => uploadPc'[v] = uploadPc[v]
    BY <1>2, <1>t, <1>l, AtType
  <2>2. rows' \in [Uploads -> Row]
    BY <1>2, <1>t, ActivatedType
  <2>3. reordered' \in BOOLEAN
    BY <1>2, <1>t DEF IsReordered, TypeOK
  <2>4. TypeOK'
    BY <1>2, <1>t, <2>1, <2>2, <2>3 DEF TypeOK, OthersUnchanged
  <2> QED
    BY <1>2, <2>1, <2>4 DEF Activates, BeforeCommit
<1>3. CASE Commit(u)
  BY <1>2, <1>3, <1>t DEF Commit, TypeOK
<1>4. CASE CommitConflicts(u)
  BY <1>4, <1>t, <1>l, StopKeeps DEF CommitConflicts, At, TypeOK
<1>5. CASE CommitFails(u)
  <2>1. /\ At(u, "commit", "cleanCertificate") /\ ~Conflict(u) /\ faults' \in 0..MaxFaults
        /\ OthersUnchanged /\ UNCHANGED <<secrets, clock, uploadMem, undone>>
    BY <1>5, <1>t, FaultType DEF CommitFails
  <2>2. CASE rows' = Activated(u) /\ IsReordered(u)
    BY <1>2, <2>1, <2>2
  <2>3. CASE UNCHANGED <<rows, reordered>>
    BY <1>l, <2>1, <2>3, StopKeeps DEF At
  <2> QED
    BY <1>5, <2>2, <2>3 DEF CommitFails
<1>6. CASE StorePinFails(u)
  <2>1. faults' \in 0..MaxFaults
    BY <1>6, <1>t, FaultType DEF StorePinFails
  <2>2. "storePin" \in BeforeCommit
    BY DEF BeforeCommit
  <2> QED
    BY <1>6, <1>l, <2>1, <2>2, StopKeeps DEF StorePinFails, At
<1>7. CASE CleanCertificate(u) \/ CleanPin(u) \/ DropCertificate(u)
  BY <1>7, <1>l, CleanupKeeps DEF CleanCertificate, CleanPin, DropCertificate
<1>8. CASE Crash(u)
  <2>1. faults' \in 0..MaxFaults
    BY <1>8, <1>t, FaultType DEF Crash
  <2> QED
    BY <1>8, <1>l, <2>1, StopKeeps DEF Crash
<1> QED
  BY <1>1, <1>3, <1>4, <1>5, <1>6, <1>7, <1>8 DEF UploadStep

(* The rows and the secrets. *)

\* The row a commit activates is the only active one, and later than all others unless
\* it is marked as reordered.
LEMMA ActivationInOrder ==
    ASSUME CertificateInv, NEW u \in Uploads, Activates(u)
    PROVE  RowsAreInOrder' /\ SecretsAreThere'
<1>1. /\ rows \in [Uploads -> Row] /\ uploadMem[u].activeFrom \in 0..LastStamp
      /\ file' = file /\ rows' \in [Uploads -> Row]
  BY DEF CertificateInv, TypeOK, Activates, OthersUnchanged
<1>2. /\ rows'[u] = [status |-> "ACTIVE", activeFrom |-> uploadMem[u].activeFrom]
      /\ \A v \in Uploads : v # u =>
            rows'[v] = IF v = uploadMem[u].found THEN [rows[v] EXCEPT !.status = "REPLACED"]
                       ELSE rows[v]
  BY <1>1 DEF Activates, Activated
<1>3. ASSUME NEW v \in Uploads, v # u
      PROVE  /\ rows'[v].activeFrom = rows[v].activeFrom
             /\ rows'[v].status # "ACTIVE"
             /\ uploadPc'[v] = uploadPc[v]
             /\ rows'[v].status = None <=> rows[v].status = None
  <2>1. rows[v].status = "ACTIVE" => v = uploadMem[u].found
    BY <1>3 DEF Activates, Conflict, Active
  <2>2. v = uploadMem[u].found => rows[v].status # None
    BY <1>3, CertificateConstants DEF CertificateInv, RowsAreInOrder, Stored
  <2> QED
    BY <1>1, <1>2, <1>3, <2>1, <2>2 DEF Row, Activates, None
<1>4. Active' = {u}
  BY <1>2, <1>3 DEF Active
<1>5. Stored \cup {u} = Stored'
  BY <1>2, <1>3 DEF Stored, None
<1>6. \A v \in Uploads : uploadPc'[v] \in BeforeCommit => rows'[v].status = None
  BY <1>3 DEF Activates, CertificateInv, RowsAreInOrder
<1>7. ASSUME NEW v \in Stored', ~reordered', v # u
      PROVE  rows'[v].activeFrom < rows'[u].activeFrom
  <2>1. v \in Stored
    BY <1>5, <1>7
  <2>2. ~(rows[v].activeFrom >= uploadMem[u].activeFrom)
    BY <1>7, <2>1 DEF Activates, IsReordered
  <2>3. v \in Uploads /\ rows[v].activeFrom \in Int /\ uploadMem[u].activeFrom \in Int
    BY <1>1, <2>1 DEF Stored, Row
  <2>4. rows'[v].activeFrom = rows[v].activeFrom /\ rows'[u].activeFrom = uploadMem[u].activeFrom
    BY <1>2, <1>3, <1>7, <2>3
  <2> QED
    BY <2>2, <2>3, <2>4
<1>8. \A v \in Uploads : uploadMem'[v].found \in Stored' \cup {None}
  BY <1>5 DEF Activates, CertificateInv, RowsAreInOrder
<1>9. RowsAreInOrder'
  BY <1>4, <1>5, <1>6, <1>7, <1>8 DEF RowsAreInOrder
<1>10. ASSUME NEW v \in Uploads, file[v] \notin undone
       PROVE  /\ uploadPc'[v] = "storePin" => "certificate" \in secrets[file[v]]
              /\ uploadPc'[v] \in {"stamp", "find", "commit"} \/ rows'[v].status # None =>
                    secrets[file[v]] = Both
  <2>1. CASE v = u
    BY <1>10, <2>1 DEF Activates, CertificateInv, SecretsAreThere, BeforeCommit
  <2>2. CASE v # u
    BY <1>3, <1>10, <2>2 DEF CertificateInv, SecretsAreThere
  <2> QED
    BY <2>1, <2>2
<1>11. SecretsAreThere'
  BY <1>1, <1>10 DEF Activates, SecretsAreThere
<1> QED
  BY <1>9, <1>11

\* A step that keeps the rows keeps their order and the secrets.
LEMMA KeepingInOrder ==
    ASSUME CertificateInv, NEW u \in Uploads, KeepsRows(u)
    PROVE  RowsAreInOrder' /\ SecretsAreThere'
<1>1. Active' = Active /\ Stored' = Stored /\ file' = file /\ file \in [Uploads -> Certificates]
      /\ secrets' \in [Certificates -> SUBSET Both]
  BY DEF KeepsRows, OthersUnchanged, Active, Stored, CertificateInv, TypeOK
<1>2. \A v \in Uploads : uploadPc'[v] \in BeforeCommit => rows'[v].status = None
  BY DEF KeepsRows, CertificateInv, RowsAreInOrder
<1>3. Active \subseteq Stored
  BY DEF Active, Stored, None
<1>4. RowsAreInOrder'
  BY <1>1, <1>2, <1>3 DEF KeepsRows, CertificateInv, RowsAreInOrder
<1>5. ASSUME NEW v \in Uploads, file[v] \notin undone'
      PROVE  /\ uploadPc'[v] = "storePin" => "certificate" \in secrets'[file[v]]
             /\ uploadPc'[v] \in {"stamp", "find", "commit"} \/ rows'[v].status # None =>
                   secrets'[file[v]] = Both
  <2>1. /\ file[v] \in Certificates /\ secrets'[file[v]] \subseteq Both
        /\ secrets[file[v]] \subseteq secrets'[file[v]] /\ file[v] \notin undone
    BY <1>1, <1>5 DEF KeepsRows
  <2>2. CASE v = u
    BY <1>5, <2>1, <2>2 DEF KeepsRows, CertificateInv, SecretsAreThere
  <2>3. CASE v # u
    BY <1>5, <2>1, <2>3 DEF KeepsRows, CertificateInv, SecretsAreThere
  <2> QED
    BY <2>2, <2>3
<1>6. SecretsAreThere'
  BY <1>1, <1>5 DEF SecretsAreThere
<1> QED
  BY <1>4, <1>6

(* The identity, the document and its signatures. *)

\* What the steps outside uploads do to the document and its signers.
LEMMA UpdateChecks ==
    ASSUME CertificateInv, UpdateCheck
    PROVE  TypeOK' /\ IssuerIsCompany' /\ SignedByIssuer'
<1>1. /\ UNCHANGED <<identity, issuer, issuePc, issueMem, overtaken>> /\ CertificatesUnchanged
      /\ updatePc' = "save" /\ updateMem' \in Identities
  BY DEF UpdateCheck
<1> QED
  BY <1>1, CertificateConstants
  DEF CertificatesUnchanged, CertificateInv, TypeOK, IssuerIsCompany, SignedByIssuer

LEMMA UpdateSaves ==
    ASSUME CertificateInv, UpdateSave
    PROVE  TypeOK' /\ IssuerIsCompany' /\ SignedByIssuer'
<1>1. /\ CertificatesUnchanged /\ UNCHANGED <<issuer, issuePc, issueMem, updateMem>>
      /\ identity' = updateMem /\ updatePc' = "done"
      /\ overtaken' = (overtaken \/ Locked \/ issuePc = "insert")
  BY DEF UpdateSave
<1>2. /\ overtaken' \in BOOLEAN /\ (overtaken => overtaken')
      /\ ~overtaken' => issuer = None /\ issuePc # "insert"
      /\ updateMem \in Identities
  BY <1>1 DEF UpdateSave, CertificateInv, TypeOK, IssuerIsCompany, Locked
<1>3. TypeOK'
  BY <1>1, <1>2 DEF CertificatesUnchanged, CertificateInv, TypeOK
<1>4. IssuerIsCompany'
  BY <1>1, <1>2 DEF CertificatesUnchanged, CertificateInv, IssuerIsCompany
<1>5. SignedByIssuer'
  BY <1>1, <1>2 DEF CertificatesUnchanged, CertificateInv, SignedByIssuer
<1> QED
  BY <1>3, <1>4, <1>5

LEMMA IssueReads ==
    ASSUME CertificateInv, IssueRead
    PROVE  TypeOK' /\ IssuerIsCompany' /\ SignedByIssuer'
<1>1. /\ CertificatesUnchanged /\ UNCHANGED <<identity, issuer, updatePc, updateMem, overtaken>>
      /\ issuePc' = "insert" /\ issueMem' = identity
  BY DEF IssueRead
<1>2. /\ issuer = None /\ issuer' = None /\ identity \in Identities
      /\ issueMem' # None
  BY <1>1, CertificateConstants DEF IssueRead, CertificateInv, TypeOK, IssuerIsCompany
<1>3. TypeOK'
  BY <1>1, <1>2 DEF CertificatesUnchanged, CertificateInv, TypeOK
<1>4. IssuerIsCompany'
  BY <1>1, <1>2 DEF CertificatesUnchanged, CertificateInv, IssuerIsCompany
<1>5. SignedByIssuer'
  BY <1>1, <1>2 DEF CertificatesUnchanged, CertificateInv, SignedByIssuer
<1> QED
  BY <1>3, <1>4, <1>5

LEMMA IssueInserts ==
    ASSUME CertificateInv, IssueInsert
    PROVE  TypeOK' /\ IssuerIsCompany' /\ SignedByIssuer'
<1>1. /\ CertificatesUnchanged /\ UNCHANGED <<identity, issueMem, updatePc, updateMem, overtaken>>
      /\ issuePc = "insert" /\ issuePc' = "done" /\ issuer' = issueMem
  BY DEF IssueInsert
<1>2. \A s \in Signings : signPc[s] \notin {"compare", "load"}
  BY <1>1 DEF CertificateInv, IssuerIsCompany
<1> QED
  BY <1>1, <1>2 DEF CertificatesUnchanged, CertificateInv, TypeOK, IssuerIsCompany, SignedByIssuer

LEMMA FindsCertificate ==
    ASSUME CertificateInv, NEW s \in Signings, FindCertificate(s)
    PROVE  TypeOK' /\ IssuerIsCompany' /\ SignedByIssuer'
<1>1. /\ SigningOnly /\ UNCHANGED signatures /\ issuer # None
      /\ signPc' \in [Signings -> {"find", "compare", "load", "done"}]
      /\ signMem' \in [Signings -> Uploads \cup {None}]
      /\ \A t \in Signings : t # s => signPc'[t] = signPc[t] /\ signMem'[t] = signMem[t]
      /\ signPc'[s] # "load" /\ (signPc'[s] = "compare" => signMem'[s] \in Uploads)
  <2>1. CASE Latest = {} /\ SignAt(s, "find", "done") /\ UNCHANGED signMem
    BY <2>1 DEF CertificateInv, TypeOK, FindCertificate, SignAt
  <2>2. ASSUME NEW u \in Latest, SignAt(s, "find", IF Usable(u) THEN "compare" ELSE "done"),
               signMem' = [signMem EXCEPT ![s] = u]
        PROVE  /\ signPc' \in [Signings -> {"find", "compare", "load", "done"}]
               /\ signMem' \in [Signings -> Uploads \cup {None}]
               /\ \A t \in Signings : t # s => signPc'[t] = signPc[t] /\ signMem'[t] = signMem[t]
               /\ signPc'[s] # "load" /\ signMem'[s] \in Uploads
    <3>1. u \in Uploads
      BY DEF Latest, Stored
    <3> QED
      BY <2>2, <3>1 DEF CertificateInv, TypeOK, SignAt
  <2> QED
    BY <2>1, <2>2 DEF FindCertificate
<1> QED
  BY <1>1 DEF SigningOnly, CertificateInv, TypeOK, IssuerIsCompany, SignedByIssuer

LEMMA ComparesIdentity ==
    ASSUME CertificateInv, NEW s \in Signings, CompareIdentity(s)
    PROVE  TypeOK' /\ IssuerIsCompany' /\ SignedByIssuer'
<1>1. /\ SigningOnly /\ UNCHANGED <<signMem, signatures>>
      /\ signPc[s] = "compare"
      /\ signPc' = [signPc EXCEPT ![s] = IF IssuedTo[file[signMem[s]]] = identity
                                         THEN "load" ELSE "done"]
  BY DEF CompareIdentity, SignAt
<1>2. /\ signPc' \in [Signings -> {"find", "compare", "load", "done"}]
      /\ \A t \in Signings : t # s => signPc'[t] = signPc[t]
      /\ signPc'[s] \in {"load", "done"}
      /\ signPc'[s] = "load" => IssuedTo[file[signMem[s]]] = identity
  BY <1>1 DEF CertificateInv, TypeOK
<1>3. issuer # None /\ signMem[s] \in Uploads /\ (~overtaken => issuer = identity)
  BY <1>1 DEF CertificateInv, IssuerIsCompany
<1>4. TypeOK' /\ SignedByIssuer'
  BY <1>1, <1>2 DEF SigningOnly, CertificateInv, TypeOK, SignedByIssuer
<1>5. ASSUME NEW t \in Signings
      PROVE  /\ signPc'[t] \in {"compare", "load"} => issuer # None /\ signMem[t] \in Uploads
             /\ signPc'[t] = "load" /\ ~overtaken => IssuedTo[file[signMem[t]]] = issuer
  <2>1. CASE t = s
    BY <1>2, <1>3, <2>1
  <2>2. CASE t # s
    BY <1>2, <2>2 DEF CertificateInv, IssuerIsCompany
  <2> QED
    BY <2>1, <2>2
<1> QED
  BY <1>1, <1>4, <1>5 DEF SigningOnly, CertificateInv, IssuerIsCompany

LEMMA Signs ==
    ASSUME CertificateInv, NEW s \in Signings, LoadSecretsAndSign(s)
    PROVE  TypeOK' /\ IssuerIsCompany' /\ SignedByIssuer'
<1> DEFINE signature == [certificate |-> file[signMem[s]], issuer |-> issuer]
<1>1. /\ SigningOnly /\ UNCHANGED signMem
      /\ signPc[s] = "load" /\ signPc' = [signPc EXCEPT ![s] = "done"]
      /\ signatures' \in {signatures, signatures \cup {signature}}
  BY DEF LoadSecretsAndSign, SignAt
<1>2. /\ issuer \in Identities /\ file[signMem[s]] \in Certificates
      /\ overtaken \/ IssuedTo[file[signMem[s]]] = issuer
  BY <1>1 DEF CertificateInv, TypeOK, IssuerIsCompany
<1>3. /\ signPc' \in [Signings -> {"find", "compare", "load", "done"}]
      /\ \A t \in Signings : signPc'[t] \in {"compare", "load"} => signPc'[t] = signPc[t]
  BY <1>1 DEF CertificateInv, TypeOK
<1>4. signature \in [certificate : Certificates, issuer : Identities]
  BY <1>2
<1>5. TypeOK'
  BY <1>1, <1>3, <1>4 DEF SigningOnly, CertificateInv, TypeOK
<1>6. SignedByIssuer'
  BY <1>1, <1>2 DEF SigningOnly, CertificateInv, SignedByIssuer
<1> QED
  BY <1>1, <1>3, <1>5, <1>6 DEF SigningOnly, CertificateInv, IssuerIsCompany

\* A step of an upload leaves the document and its signers alone.
LEMMA UploadLeavesSigners ==
    ASSUME CertificateInv, NEW u \in Uploads, KeepsRows(u) \/ Activates(u)
    PROVE  TypeOK' /\ IssuerIsCompany' /\ SignedByIssuer'
<1>1. OthersUnchanged /\ TypeOK'
  BY DEF KeepsRows, Activates
<1> QED
  BY <1>1 DEF OthersUnchanged, CertificateInv, IssuerIsCompany, SignedByIssuer

\* The other steps leave rows, secrets and uploads alone.
LEMMA OthersLeaveRows ==
    ASSUME CertificateInv,
           UNCHANGED <<file, rows, secrets, uploadPc, uploadMem, undone, reordered>>
    PROVE  RowsAreInOrder' /\ SecretsAreThere'
<1>1. Active' = Active /\ Stored' = Stored
  BY DEF Active, Stored
<1> QED
  BY <1>1 DEF CertificateInv, RowsAreInOrder, SecretsAreThere

\* What the inductive parts say about the certificate that signs.
LEMMA WhatFollows ==
    ASSUME TypeOK, RowsAreInOrder, SecretsAreThere, IssuerIsCompany, SignedByIssuer
    PROVE  CertificateInv
<1>1. RotationIsAtomic
  <2> SUFFICES ASSUME Stored # {} PROVE Cardinality(Active) = 1
    BY DEF RotationIsAtomic
  <2>1. PICK a \in Active : Active = {a}
    BY DEF RowsAreInOrder
  <2> QED
    BY <2>1, FS_Singleton
<1>2. SecretsAreKept
  BY DEF SecretsAreThere, SecretsAreKept, Active, None
<1>3. ReadyCanSign
  <2> SUFFICES ASSUME CertificateReady, ~reordered, NEW u \in Latest
               PROVE  Usable(u) /\ IssuedTo[file[u]] = identity /\ secrets[file[u]] = Both
    BY DEF ReadyCanSign
  <2>1. PICK a \in Active : /\ file[a] \notin expired /\ secrets[file[a]] = Both
                            /\ IssuedTo[file[a]] = identity
    BY DEF CertificateReady
  <2>2. a \in Stored /\ u \in Stored /\ rows[a].activeFrom <= rows[u].activeFrom
    BY DEF Latest, Active, Stored, None
  <2>3. rows[a].activeFrom \in Int /\ rows[u].activeFrom \in Int
    BY <2>2 DEF TypeOK, Row, Stored
  <2>4. u # a => rows[u].activeFrom < rows[a].activeFrom
    BY <2>2 DEF RowsAreInOrder
  <2>5. u = a
    BY <2>2, <2>3, <2>4
  <2> QED
    BY <2>1, <2>5 DEF Usable, Active
<1> QED
  BY <1>1, <1>2, <1>3 DEF CertificateInv

\* The invariant is inductive.
LEMMA CertificateStep ==
    ASSUME CertificateInv, Next
    PROVE  CertificateInv'
<1>1. ASSUME NEW u \in Uploads, UploadStep(u) PROVE CertificateInv'
  <2>1. KeepsRows(u) \/ Activates(u)
    BY <1>1, UploadSteps
  <2>2. RowsAreInOrder' /\ SecretsAreThere'
    BY <2>1, KeepingInOrder, ActivationInOrder
  <2>3. TypeOK' /\ IssuerIsCompany' /\ SignedByIssuer'
    BY <2>1, UploadLeavesSigners
  <2> QED
    BY <2>2, <2>3, WhatFollows, PTL
<1>2. CASE UpdateCheck \/ UpdateSave \/ IssueRead \/ IssueInsert
  <2>1. UNCHANGED <<file, rows, secrets, uploadPc, uploadMem, undone, reordered>>
    BY <1>2 DEF UpdateCheck, UpdateSave, IssueRead, IssueInsert, CertificatesUnchanged
  <2>2. TypeOK' /\ IssuerIsCompany' /\ SignedByIssuer'
    BY <1>2, UpdateChecks, UpdateSaves, IssueReads, IssueInserts
  <2> QED
    BY <2>1, <2>2, OthersLeaveRows, WhatFollows, PTL
<1>3. ASSUME NEW s \in Signings, FindCertificate(s) \/ CompareIdentity(s) \/ LoadSecretsAndSign(s)
      PROVE  CertificateInv'
  <2>1. UNCHANGED <<file, rows, secrets, uploadPc, uploadMem, undone, reordered>>
    BY <1>3 DEF FindCertificate, CompareIdentity, LoadSecretsAndSign, SigningOnly
  <2>2. TypeOK' /\ IssuerIsCompany' /\ SignedByIssuer'
    BY <1>3, FindsCertificate, ComparesIdentity, Signs
  <2> QED
    BY <2>1, <2>2, OthersLeaveRows, WhatFollows, PTL
<1>4. ASSUME NEW c \in Certificates, Expire(c) PROVE CertificateInv'
  <2>1. UNCHANGED <<file, rows, secrets, uploadPc, uploadMem, undone, reordered>>
    BY <1>4 DEF Expire
  <2>2. faults' \in 0..MaxFaults
    BY <1>4, FaultType DEF Expire, CertificateInv
  <2>3. TypeOK' /\ IssuerIsCompany' /\ SignedByIssuer'
    BY <1>4, <2>2 DEF Expire, CertificateInv, TypeOK, IssuerIsCompany, SignedByIssuer
  <2> QED
    BY <2>1, <2>3, OthersLeaveRows, WhatFollows, PTL
<1> QED
  BY <1>1, <1>2, <1>3, <1>4 DEF Next

\* One certificate is active once there is one, with its secrets unless an upload of the
\* same file deleted them; documents are signed for their issuer unless the identity
\* was changed while one was being created; what readiness reports, signing can do
\* (upload-fiscal-signing-certificate.service.ts, fiscal-signing-certificate.service.ts).
THEOREM CertificatesCorrect == Spec => []CertificateInv
<1>1. Init => CertificateInv
  <2> SUFFICES ASSUME Init PROVE CertificateInv
    OBVIOUS
  <2>1. [status |-> None, activeFrom |-> 0] \in Row /\ "check" \in UploadLabels
    BY CertificateConstants DEF Row, UploadLabels, BeforeCommit
  <2>2. TypeOK
    <3>1. 0 \in 0..LastStamp /\ 0 \in 0..MaxFaults
      BY CertificateConstants
    <3>2. /\ rows \in [Uploads -> Row]
          /\ secrets \in [Certificates -> SUBSET Both]
          /\ uploadPc \in [Uploads -> UploadLabels]
      BY <2>1 DEF Init
    <3>3. uploadMem \in [Uploads -> [found : Uploads \cup {None}, activeFrom : 0..LastStamp]]
      BY <3>1 DEF Init
    <3>4. /\ signPc \in [Signings -> {"find", "compare", "load", "done"}]
          /\ signMem \in [Signings -> Uploads \cup {None}]
      BY DEF Init
    <3> QED
      BY <3>1, <3>2, <3>3, <3>4 DEF Init, TypeOK
  <2>3. \A u \in Uploads : rows[u].status = None
    BY DEF Init
  <2>4. Active = {} /\ Stored = {}
    BY <2>3 DEF Active, Stored, None
  <2>5. RowsAreInOrder
    BY <2>3, <2>4 DEF Init, RowsAreInOrder
  <2>6. SecretsAreThere /\ IssuerIsCompany /\ SignedByIssuer
    BY <2>3 DEF Init, SecretsAreThere, IssuerIsCompany, SignedByIssuer
  <2> QED
    BY <2>2, <2>5, <2>6, WhatFollows
<1>2. CertificateInv /\ [Next]_certificateVars => CertificateInv'
  <2>1. ASSUME CertificateInv, UNCHANGED certificateVars PROVE CertificateInv'
    <3>1. UNCHANGED <<file, rows, secrets, uploadPc, uploadMem, undone, reordered>>
      BY <2>1 DEF certificateVars
    <3>2. TypeOK' /\ IssuerIsCompany' /\ SignedByIssuer'
      BY <2>1 DEF certificateVars, CertificateInv, TypeOK, IssuerIsCompany, SignedByIssuer
    <3> QED
      BY <2>1, <3>1, <3>2, OthersLeaveRows, WhatFollows, PTL
  <2> QED
    BY <2>1, CertificateStep
<1> QED
  BY <1>1, <1>2, PTL DEF Spec

-----------------------------------------------------------------------------
(* FiscalAssociation: one association and one active credential *)

\* The transaction that issues a credential, and its end.
CredentialStep(c) == TakeLock(c) \/ RevokeActive(c) \/ IssueCredential(c) \/ Abandon(c)

\* The transaction that provisions the association.
ProvisionStep(c) ==
    \/ FindExisting(c) \/ FindCompany(c) \/ CommitAssociation(c) \/ AssociationConflicts(c)
    \/ RereadExisting(c) \/ RereadNothing(c)

\* Every step keeps the types.
LEMMA AssociationType ==
    ASSUME AssociationTypeOK, AssociationNext
    PROVE  AssociationTypeOK'
<1>1. ASSUME NEW c \in Callers, NEW from, Answer(c, from), UNCHANGED <<companies, association>>,
             CredentialUnchanged
      PROVE  AssociationTypeOK'
  BY <1>1 DEF AssociationTypeOK, Answer, CallAt, Key, Wanted, CredentialUnchanged
<1>2. ASSUME NEW c \in Callers, ProvisionStep(c)
      PROVE  AssociationTypeOK'
  <2>1. CASE FindExisting(c) \/ RereadExisting(c)
    BY <1>1, <2>1 DEF FindExisting, RereadExisting
  <2>2. CASE FindCompany(c) \/ AssociationConflicts(c) \/ RereadNothing(c)
    BY <2>2 DEF AssociationTypeOK, FindCompany, AssociationConflicts, RereadNothing, CallAt, CredentialUnchanged
  <2>3. CASE CommitAssociation(c)
    BY <2>3 DEF AssociationTypeOK, CommitAssociation, CallAt, Key, Wanted, CredentialUnchanged
  <2> QED
    BY <1>2, <2>1, <2>2, <2>3 DEF ProvisionStep
<1>3. ASSUME NEW c \in Callers, CredentialStep(c)
      PROVE  AssociationTypeOK'
  <2>1. CASE TakeLock(c)
    BY <2>1 DEF AssociationTypeOK, TakeLock, CallAt, Key, Wanted, AssociationUnchanged
  <2>2. CASE RevokeActive(c)
    BY <2>2 DEF AssociationTypeOK, RevokeActive, CallAt, AssociationUnchanged
  <2>3. CASE IssueCredential(c)
    BY <2>3 DEF AssociationTypeOK, IssueCredential, CallAt, Key, Wanted, AssociationUnchanged
  <2>4. CASE Abandon(c)
    BY <2>4 DEF AssociationTypeOK, Abandon, AssociationUnchanged
  <2> QED
    BY <1>3, <2>1, <2>2, <2>3, <2>4 DEF CredentialStep
<1>4. ASSUME NEW n \in Numbers, NEW t \in Types, CompanyAppears(n, t)
      PROVE  AssociationTypeOK'
  BY <1>4 DEF AssociationTypeOK, CompanyAppears, CredentialUnchanged
<1> QED
  BY <1>2, <1>3, <1>4 DEF AssociationNext, ProvisionStep, CredentialStep

\* Associations and answers are written once, under the unique keys.
LEMMA AnsweredStep ==
    ASSUME AssociationTypeOK, AnsweredAsAsked, AssociationNext
    PROVE  AnsweredAsAsked'
<1>1. ASSUME NEW c \in Callers, NEW from, Answer(c, from),
             UNCHANGED <<wanted, companies, association>>
      PROVE  AnsweredAsAsked'
  BY <1>1 DEF AssociationTypeOK, AnsweredAsAsked, Answer, Equivalent, Key
<1>2. ASSUME UNCHANGED <<wanted, companies, association, answer>>
      PROVE  AnsweredAsAsked'
  BY <1>2 DEF AnsweredAsAsked, Key
<1>3. ASSUME NEW c \in Callers, CommitAssociation(c)
      PROVE  AnsweredAsAsked'
  <2> DEFINE number == wanted[c].number
  <2>1. /\ number \in Numbers /\ number # Absent /\ Key(c) \in ExternalKeys
        /\ association[Key(c)] = Absent
        /\ \A k \in ExternalKeys : association[k] # number
        /\ companies[number] \in {Absent, wanted[c].type}
        /\ companies' = [companies EXCEPT ![number] = wanted[c].type]
        /\ association' = [association EXCEPT ![Key(c)] = number]
        /\ answer' = [answer EXCEPT ![c] = number]
        /\ wanted' = wanted
    BY <1>3, NobodyIsAbsent DEF AssociationTypeOK, Wanted, Key, CommitAssociation, Unique, CredentialUnchanged
  <2>2. ASSUME NEW d \in Callers, answer'[d] # Absent
        PROVE  /\ answer'[d] = association'[wanted[d].key]
               /\ answer'[d] = wanted[d].number /\ companies'[answer'[d]] = wanted[d].type
    <3>1. CASE d = c
      BY <2>1, <3>1 DEF AssociationTypeOK, Key
    <3>2. CASE d # c
      <4>1. /\ answer'[d] = answer[d] /\ answer[d] = association[wanted[d].key]
            /\ answer[d] = wanted[d].number /\ companies[answer[d]] = wanted[d].type
        BY <2>1, <2>2, <3>2 DEF AssociationTypeOK, AnsweredAsAsked, Key
      <4>2. /\ wanted[d].key \in ExternalKeys /\ wanted[d].key # Key(c)
            /\ answer[d] \in Numbers /\ answer[d] # number
        BY <2>1, <2>2, <4>1 DEF AssociationTypeOK, Wanted
      <4> QED
        BY <2>1, <4>1, <4>2 DEF AssociationTypeOK
    <3> QED
      BY <3>1, <3>2
  <2>3. ASSUME NEW j \in ExternalKeys, NEW k \in ExternalKeys,
               association'[j] # Absent, association'[j] = association'[k]
        PROVE  j = k
    BY <2>1, <2>3 DEF AssociationTypeOK, AnsweredAsAsked
  <2> QED
    BY <2>1, <2>2, <2>3 DEF AnsweredAsAsked, Key
<1>4. ASSUME NEW n \in Numbers, NEW t \in Types, CompanyAppears(n, t)
      PROVE  AnsweredAsAsked'
  BY <1>4, NobodyIsAbsent DEF AssociationTypeOK, Wanted, AnsweredAsAsked, CompanyAppears, CredentialUnchanged, Key
<1>5. ASSUME NEW c \in Callers,
             \/ FindCompany(c) \/ AssociationConflicts(c) \/ RereadNothing(c)
             \/ TakeLock(c) \/ RevokeActive(c) \/ IssueCredential(c) \/ Abandon(c)
      PROVE  UNCHANGED <<wanted, companies, association, answer>>
  BY <1>5 DEF FindCompany, AssociationConflicts, RereadNothing, TakeLock, RevokeActive,
              IssueCredential, Abandon, CredentialUnchanged, AssociationUnchanged
<1> QED
  BY <1>1, <1>2, <1>3, <1>4, <1>5 DEF AssociationNext, FindExisting, RereadExisting, CredentialUnchanged

\* The part of the invariant about the lock and the credentials.
Guarded == LocksAreHeld /\ SeenIsActive

\* A step that leaves locks and credentials alone, and takes no caller into the
\* transaction or out of its end, keeps the credentials guarded.
LEMMA GuardedQuiet ==
    ASSUME AssociationTypeOK, Guarded, UNCHANGED <<wanted, lock, credential, seen>>,
           \A c \in Callers : \/ callPc'[c] = callPc[c]
                              \/ callPc'[c] \notin {"revoke", "issue"} /\ callPc[c] # "issued"
    PROVE  Guarded'
<1>1. LocksAreHeld'
  BY DEF Guarded, LocksAreHeld, Key
<1>2. SeenIsActive'
  BY DEF Guarded, SeenIsActive, Key
<1> QED
  BY <1>1, <1>2 DEF Guarded

\* Whoever issues revokes everything that is active under its key, because nobody
\* else has issued under that key since it looked.
LEMMA IssueGuarded ==
    ASSUME AssociationTypeOK, Guarded, NEW c \in Callers, IssueCredential(c)
    PROVE  Guarded'
<1>1. /\ callPc[c] = "issue" /\ callPc' = [callPc EXCEPT ![c] = "issued"]
      /\ lock' = [lock EXCEPT ![Key(c)] = Absent] /\ lock[Key(c)] = c
      /\ UNCHANGED <<wanted, seen>>
      /\ Key(c) \in ExternalKeys
      /\ seen[c] = {d \in Callers : Key(d) = Key(c) /\ credential[d] = "ACTIVE"}
  BY DEF AssociationTypeOK, Wanted, Guarded, LocksAreHeld, SeenIsActive, IssueCredential, CallAt, Key,
         AssociationUnchanged
<1>2. \A d \in Callers : credential'[d] = IF d = c THEN "ACTIVE"
                                          ELSE IF d \in seen[c] THEN "REVOKED" ELSE credential[d]
  BY DEF IssueCredential
<1>3. LocksAreHeld'
  <2> SUFFICES ASSUME NEW d \in Callers
               PROVE  /\ callPc'[d] \in {"revoke", "issue"} => lock'[Key(d)] = d
                      /\ credential'[d] # Absent => callPc'[d] = "issued"
    BY <1>1 DEF LocksAreHeld, Key
  <2>1. CASE d = c
    BY <1>1, <2>1 DEF AssociationTypeOK
  <2>2. CASE d # c
    <3>1. callPc'[d] = callPc[d] /\ (credential'[d] # Absent => credential[d] # Absent)
      BY <1>1, <1>2, <2>2 DEF AssociationTypeOK, Absent
    <3>2. callPc[d] \in {"revoke", "issue"} => lock[Key(d)] = d /\ Key(d) # Key(c)
      BY <1>1, <2>2 DEF Guarded, LocksAreHeld
    <3>3. Key(d) # Key(c) => lock'[Key(d)] = lock[Key(d)]
      BY <1>1 DEF AssociationTypeOK, Wanted, Key
    <3> QED
      BY <3>1, <3>2, <3>3 DEF Guarded, LocksAreHeld
  <2> QED
    BY <2>1, <2>2
<1>4. ASSUME NEW k \in ExternalKeys
      PROVE  {e \in Callers : Key(e) = k /\ credential'[e] = "ACTIVE"}
               = IF k = Key(c) THEN {c}
                 ELSE {e \in Callers : Key(e) = k /\ credential[e] = "ACTIVE"}
  BY <1>1, <1>2
<1>5. \A d \in Callers : Key(d) \in ExternalKeys /\ Key(d)' = Key(d)
  BY <1>1 DEF AssociationTypeOK, Wanted, Key
<1>6. SeenIsActive'
  <2>1. ASSUME NEW d \in Callers, callPc'[d] = "issue"
        PROVE  seen[d] = {e \in Callers : Key(e) = Key(d) /\ credential'[e] = "ACTIVE"}
    <3>1. d # c /\ callPc[d] = "issue"
      BY <1>1, <2>1 DEF AssociationTypeOK
    <3>2. Key(d) # Key(c)
      BY <1>1, <3>1 DEF Guarded, LocksAreHeld
    <3> QED
      BY <1>4, <1>5, <3>1, <3>2 DEF Guarded, SeenIsActive
  <2>2. ASSUME NEW d \in Callers, credential'[d] # Absent
        PROVE  \E f \in Callers :
                  {e \in Callers : Key(e) = Key(d) /\ credential'[e] = "ACTIVE"} = {f}
    <3>1. CASE Key(d) = Key(c)
      BY <1>4, <1>5, <3>1
    <3>2. CASE Key(d) # Key(c)
      <4>1. credential[d] # Absent
        BY <1>1, <1>2, <2>2, <3>2
      <4> QED
        BY <1>4, <1>5, <3>2, <4>1 DEF Guarded, SeenIsActive
    <3> QED
      BY <3>1, <3>2
  <2>3. seen' = seen
    BY <1>1
  <2> QED
    BY <1>5, <2>1, <2>2, <2>3 DEF SeenIsActive
<1> QED
  BY <1>3, <1>6 DEF Guarded

\* Every step keeps the credentials behind the lock.
LEMMA GuardedStep ==
    ASSUME AssociationTypeOK, Guarded, AssociationNext
    PROVE  Guarded'
<1>1. ASSUME NEW c \in Callers, ProvisionStep(c)
      PROVE  Guarded'
  <2>1. /\ UNCHANGED <<wanted, lock, credential, seen>>
        /\ callPc[c] \in {"find", "commit", "reread"}
        /\ \E to \in {"lock", "refused", "commit", "reread"} : callPc' = [callPc EXCEPT ![c] = to]
    BY <1>1 DEF ProvisionStep, FindExisting, FindCompany, CommitAssociation, AssociationConflicts,
                RereadExisting, RereadNothing, Answer, CallAt, CredentialUnchanged
  <2> QED
    BY <2>1, GuardedQuiet DEF AssociationTypeOK
<1>2. ASSUME NEW c \in Callers, TakeLock(c)
      PROVE  Guarded'
  <2>1. /\ callPc[c] = "lock" /\ callPc' = [callPc EXCEPT ![c] = "revoke"]
        /\ lock[Key(c)] = Absent /\ lock' = [lock EXCEPT ![Key(c)] = c]
        /\ UNCHANGED <<wanted, credential, seen>> /\ Key(c) \in ExternalKeys
    BY <1>2 DEF AssociationTypeOK, Wanted, TakeLock, LockFree, CallAt, Key, AssociationUnchanged
  <2>2. LocksAreHeld'
    BY <2>1, NobodyIsAbsent DEF AssociationTypeOK, Guarded, LocksAreHeld, Key
  <2>3. SeenIsActive'
    BY <2>1 DEF AssociationTypeOK, Guarded, SeenIsActive, Key
  <2> QED
    BY <2>2, <2>3 DEF Guarded
<1>3. ASSUME NEW c \in Callers, RevokeActive(c)
      PROVE  Guarded'
  <2>1. /\ callPc[c] = "revoke" /\ callPc' = [callPc EXCEPT ![c] = "issue"]
        /\ seen' = [seen EXCEPT ![c] =
                       {d \in Callers : Key(d) = Key(c) /\ credential[d] = "ACTIVE"}]
        /\ UNCHANGED <<wanted, lock, credential>>
    BY <1>3 DEF RevokeActive, CallAt, AssociationUnchanged
  <2>2. LocksAreHeld'
    BY <2>1 DEF AssociationTypeOK, Guarded, LocksAreHeld, Key
  <2>3. SeenIsActive'
    BY <2>1 DEF AssociationTypeOK, Guarded, SeenIsActive, Key
  <2> QED
    BY <2>2, <2>3 DEF Guarded
<1>4. ASSUME NEW c \in Callers, Abandon(c)
      PROVE  Guarded'
  <2>1. /\ callPc[c] # "issued" /\ callPc' = [callPc EXCEPT ![c] = "refused"]
        /\ lock' = [k \in ExternalKeys |-> IF lock[k] = c THEN Absent ELSE lock[k]]
        /\ UNCHANGED <<wanted, credential, seen>>
    BY <1>4 DEF Abandon, AssociationUnchanged
  <2>2. \A d \in Callers : Key(d) \in ExternalKeys
    BY DEF AssociationTypeOK, Wanted, Key
  <2>3. LocksAreHeld'
    BY <2>1, <2>2 DEF AssociationTypeOK, Guarded, LocksAreHeld, Key
  <2>4. SeenIsActive'
    BY <2>1 DEF AssociationTypeOK, Guarded, SeenIsActive, Key
  <2> QED
    BY <2>3, <2>4 DEF Guarded
<1>5. ASSUME NEW n \in Numbers, NEW t \in Types, CompanyAppears(n, t)
      PROVE  Guarded'
  BY <1>5, GuardedQuiet DEF CompanyAppears, CredentialUnchanged
<1> QED
  BY <1>1, <1>2, <1>3, <1>4, <1>5, IssueGuarded DEF AssociationNext, ProvisionStep

\* One is active: the property counts what the invariant names.
LEMMA OneIsActive ==
    ASSUME AssociationTypeOK, SeenIsActive
    PROVE  OneCredential
<1> SUFFICES ASSUME NEW k \in ExternalKeys,
                    NEW c \in {d \in Callers : Key(d) = k /\ credential[d] # Absent}
             PROVE  Cardinality({e \in {d \in Callers : Key(d) = k /\ credential[d] # Absent} :
                                    credential[e] = "ACTIVE"}) = 1
  BY DEF OneCredential
<1>1. {e \in {d \in Callers : Key(d) = k /\ credential[d] # Absent} : credential[e] = "ACTIVE"}
        = {e \in Callers : Key(e) = Key(c) /\ credential[e] = "ACTIVE"}
  BY DEF Absent
<1>2. PICK d \in Callers : {e \in Callers : Key(e) = Key(c) /\ credential[e] = "ACTIVE"} = {d}
  BY DEF SeenIsActive
<1> QED
  BY <1>1, <1>2, FS_Singleton

\* However many bootstraps of a company race, fail and repeat, all that are answered name
\* the one company they asked for, and one operational credential of the key is active.
THEOREM AssociationCorrect ==
    AssociationSpec => []AssociationInv
<1> DEFINE Inv == AssociationTypeOK /\ AnsweredAsAsked /\ Guarded
<1>1. AssociationInit => Inv
  <2> SUFFICES ASSUME AssociationInit PROVE Inv
    OBVIOUS
  <2>1. AssociationTypeOK
    BY DEF AssociationInit, AssociationTypeOK
  <2>2. AnsweredAsAsked
    BY DEF AssociationInit, AnsweredAsAsked
  <2>3. Guarded
    BY DEF AssociationInit, Guarded, LocksAreHeld, SeenIsActive
  <2> QED
    BY <2>1, <2>2, <2>3
<1>2. Inv /\ [AssociationNext]_associationVars => Inv'
  <2>1. Inv /\ AssociationNext => Inv'
    BY AssociationType, AnsweredStep, GuardedStep
  <2>2. Inv /\ UNCHANGED associationVars => Inv'
    BY DEF associationVars, AssociationTypeOK, AnsweredAsAsked, Guarded, LocksAreHeld, SeenIsActive, Key
  <2> QED
    BY <2>1, <2>2
<1>3. Inv => AssociationInv
  BY OneIsActive DEF Guarded, AssociationInv
<1> QED
  BY <1>1, <1>2, <1>3, PTL DEF AssociationSpec

-----------------------------------------------------------------------------
(* IssuancePoints: one default point, chosen by an operator *)

Points == [Terminals -> [exists : BOOLEAN, active : BOOLEAN, isDefault : BOOLEAN]]

\* The partial unique index admits at most one active default.
LEMMA FitsIsUnique ==
    ASSUME NEW points, Fits(points),
           NEW t \in Terminals, points[t].active /\ points[t].isDefault,
           NEW u \in Terminals, points[u].active /\ points[u].isDefault
    PROVE  t = u
<1> DEFINE defaults == {v \in Terminals : points[v].active /\ points[v].isDefault}
<1>1. IsFiniteSet(Terminals) /\ defaults \in SUBSET Terminals
  BY PointConstants
<1>2. IsFiniteSet(defaults) /\ Cardinality(defaults) \in Nat
  BY <1>1, FS_Subset, FS_CardinalityType
<1>3. Cardinality(defaults) <= 1
  BY DEF Fits
<1> SUFFICES ASSUME t # u PROVE FALSE
  OBVIOUS
<1>4. IsFiniteSet({t}) /\ Cardinality({t}) = 1
  BY FS_Singleton
<1>7. Cardinality({t} \cup {u}) = 2
  <2>1. u \notin {t}
    OBVIOUS
  <2>2. Cardinality({t} \cup {u}) = Cardinality({t}) + 1
    BY <1>4, <2>1, FS_AddElement
  <2> QED
    BY <1>4, <2>2
<1>5. {t} \cup {u} \in SUBSET defaults
  OBVIOUS
<1>6. Cardinality({t} \cup {u}) <= Cardinality(defaults)
  BY <1>2, <1>5, FS_Subset
<1> HIDE DEF defaults
<1> QED
  BY <1>2, <1>3, <1>6, <1>7

\* The end of a request's write.
LEMMA WriteType ==
    ASSUME PointsTypeOK, NEW m \in Managers, NEW operation, NEW to \in {"idle", "writePoint"},
           Write(m, operation, to)
    PROVE  /\ managePc' \in [Managers -> {"idle", "write", "writePoint"}]
           /\ request' \in [Managers ->
                 [operation : Operations \cup {Missing}, terminal : Terminals \cup {Missing}]]
           /\ managePc[m] # "idle"
BY DEF PointsTypeOK, Write, NoRequest

\* A request in progress still names its terminal after a write.
LEMMA WriteFlags ==
    ASSUME PointsTypeOK, FlagsAreRight, NEW m \in Managers, NEW operation,
           NEW to \in {"idle", "writePoint"}, Write(m, operation, to)
    PROVE  \A n \in Managers : managePc'[n] # "idle" => request'[n].terminal # Missing
BY DEF PointsTypeOK, FlagsAreRight, Write, NoRequest

(* What a step of a manager does to the points, terminals and branches. *)

\* The points stay, and no default is shut in unless requests crossed.
LeavesPoints ==
    /\ point' = point
    /\ \A t \in Terminals :
          /\ terminal[t] = "active" => terminal'[t] = "active"
          /\ BranchActive(t) => BranchActive(t)' \/ crossed' \/ ~Default(t)

\* The point of t is active if it exists; its default flag stays.
IsActivated(t) ==
    \E exists \in BOOLEAN :
        /\ exists \/ ~point[t].exists
        /\ point' = [point EXCEPT ![t] = [exists |-> exists, active |-> exists,
                                          isDefault |-> point[t].isDefault]]
        /\ Fits(point')
        /\ branch' = branch
        /\ \A u \in Terminals : terminal[u] = "active" => terminal'[u] = "active"

\* The point of t is closed, and was not the default unless requests crossed.
IsClosed(t) ==
    /\ point' = [point EXCEPT ![t].active = FALSE]
    /\ crossed' \/ ~Default(t)
    /\ \A u \in Terminals \ {t} : terminal'[u] = terminal[u]
    /\ branch' = branch

\* The point of t becomes the default, and is open unless requests crossed.
BecomesDefault(t) ==
    /\ Fits(point')
    /\ point'[t] = [exists |-> TRUE, active |-> TRUE, isDefault |-> TRUE]
    /\ \A u \in Terminals \ {t} : point'[u] \in {point[u], [point[u] EXCEPT !.isDefault = FALSE]}
    /\ crossed' \/ (terminal[t] = "active" /\ BranchActive(t))
    /\ UNCHANGED <<branch, terminal>>

Effects ==
    /\ point' \in Points
    /\ PointsTypeOK'
    /\ \A n \in Managers : managePc'[n] # "idle" => request'[n].terminal # Missing
    /\ crossed => crossed'
    /\ \/ LeavesPoints
       \/ \E t \in Terminals : IsActivated(t) \/ IsClosed(t) \/ BecomesDefault(t)

\* One point rewritten.
LEMMA PointType ==
    ASSUME PointsTypeOK, NEW t \in Terminals, NEW e \in BOOLEAN, NEW a \in BOOLEAN, NEW d \in BOOLEAN
    PROVE  [point EXCEPT ![t] = [exists |-> e, active |-> a, isDefault |-> d]] \in Points
BY DEF PointsTypeOK, Points

\* The fields of a point.
LEMMA PointFields ==
    ASSUME PointsTypeOK, NEW t \in Terminals
    PROVE  \E e \in BOOLEAN, a \in BOOLEAN, d \in BOOLEAN :
              point[t] = [exists |-> e, active |-> a, isDefault |-> d]
<1>1. point[t] \in [exists : BOOLEAN, active : BOOLEAN, isDefault : BOOLEAN]
  BY DEF PointsTypeOK
<1>2. /\ point[t].exists \in BOOLEAN /\ point[t].active \in BOOLEAN
      /\ point[t].isDefault \in BOOLEAN
      /\ point[t] = [exists |-> point[t].exists, active |-> point[t].active,
                     isDefault |-> point[t].isDefault]
  BY <1>1
<1> QED
  BY <1>2, Zenon

\* Each step has one of these effects.
LEMMA CheckEffects ==
    ASSUME PointsTypeOK, FlagsAreRight,
           NEW m \in Managers, NEW operation \in Operations, NEW t \in Terminals,
           Check(m, operation, t)
    PROVE  Effects
<1>1. UNCHANGED <<branch, terminal, point, crossed>>
  BY DEF Check
<1>2. PointsTypeOK'
  BY DEF PointsTypeOK, Check
<1>3. \A n \in Managers : managePc'[n] # "idle" => request'[n].terminal # Missing
  BY PointConstants DEF PointsTypeOK, FlagsAreRight, Check
<1>4. point' \in Points
  BY <1>1 DEF PointsTypeOK, Points
<1> QED
  BY <1>1, <1>2, <1>3, <1>4 DEF LeavesPoints, Effects, BranchActive

LEMMA CreateTerminalEffects ==
    ASSUME PointsTypeOK, FlagsAreRight, NEW m \in Managers, CreateTerminal(m)
    PROVE  Effects
<1>1. Write(m, "createTerminal", "writePoint") /\ UNCHANGED <<branch, point, stale>>
  BY DEF CreateTerminal
<1>2. terminal' \in [Terminals -> {Missing, "active", "inactive"}] /\ crossed' \in BOOLEAN
  BY DEF PointsTypeOK, CreateTerminal, Overtaken
<1>3. PointsTypeOK'
  BY <1>1, <1>2, WriteType DEF PointsTypeOK
<1>4. \A t \in Terminals : terminal[t] = "active" => terminal'[t] = "active"
  BY DEF PointsTypeOK, CreateTerminal, Missing
<1>5. point' \in Points /\ (crossed => crossed')
  BY <1>1 DEF PointsTypeOK, Points, CreateTerminal, Overtaken
<1> QED
  BY <1>1, <1>3, <1>4, <1>5, WriteFlags DEF LeavesPoints, Effects, BranchActive

LEMMA CreatePointEffects ==
    ASSUME PointsTypeOK, FlagsAreRight, NEW m \in Managers, CreatePoint(m)
    PROVE  Effects
<1> DEFINE t == OfRequest(m)
           new == [exists |-> TRUE, active |-> TRUE, isDefault |-> point[t].isDefault]
<1>1. t \in Terminals
  BY DEF PointsTypeOK, FlagsAreRight, CreatePoint, OfRequest
<1>2. point' \in {point, [point EXCEPT ![t] = new]} /\ (point' # point => Fits(point'))
  BY <1>1 DEF CreatePoint
<1>3. point' \in Points /\ UNCHANGED <<branch, terminal, crossed>>
  BY <1>1, <1>2, PointType DEF PointsTypeOK, Points, CreatePoint
<1>4. PointsTypeOK'
  BY <1>3 DEF PointsTypeOK, Points, CreatePoint, NoRequest, Ready
<1>5. \A n \in Managers : managePc'[n] # "idle" => request'[n].terminal # Missing
  BY DEF PointsTypeOK, FlagsAreRight, CreatePoint, NoRequest
<1> QED
  BY <1>1, <1>2, <1>3, <1>4, <1>5 DEF LeavesPoints, IsActivated, Effects, BranchActive

LEMMA DeactivateBranchEffects ==
    ASSUME PointsTypeOK, FlagsAreRight, NEW m \in Managers, DeactivateBranch(m)
    PROVE  Effects
<1> DEFINE t == OfRequest(m)
<1>1. /\ Write(m, "deactivateBranch", "idle") /\ UNCHANGED <<terminal, point, stale>>
      /\ managePc[m] = "write" /\ request[m].operation = "deactivateBranch"
  BY DEF DeactivateBranch, Write
<1>2. t \in Terminals /\ BranchOf[t] \in Branches
  BY <1>1, PointConstants DEF PointsTypeOK, FlagsAreRight, OfRequest
<1>3. branch' = [branch EXCEPT ![BranchOf[t]] = FALSE]
  BY DEF DeactivateBranch
<1>4. crossed' \in BOOLEAN /\ (crossed => crossed')
  BY DEF PointsTypeOK, DeactivateBranch, Overtaken
<1>5. PointsTypeOK'
  BY <1>1, <1>2, <1>3, <1>4, WriteType DEF PointsTypeOK
<1>6. crossed' \/ \A u \in Terminals : BranchOf[u] = BranchOf[t] => ~Default(u)
  BY <1>1 DEF DeactivateBranch, Overtaken, CheckPasses
<1>7. ASSUME NEW u \in Terminals, BranchActive(u)
      PROVE  BranchActive(u)' \/ crossed' \/ ~Default(u)
  <2>1. CASE BranchOf[u] = BranchOf[t]
    BY <1>6, <2>1
  <2>2. CASE BranchOf[u] # BranchOf[t]
    BY <1>3, <1>7, <2>2, PointConstants DEF PointsTypeOK, BranchActive
  <2> QED
    BY <2>1, <2>2
<1>8. point' \in Points
  BY <1>1 DEF PointsTypeOK, Points
<1> QED
  BY <1>1, <1>4, <1>5, <1>7, <1>8, WriteFlags DEF LeavesPoints, Effects

LEMMA DeactivateTerminalEffects ==
    ASSUME PointsTypeOK, FlagsAreRight, NEW m \in Managers, DeactivateTerminal(m)
    PROVE  Effects
<1> DEFINE t == OfRequest(m)
<1>1. /\ Write(m, "deactivateTerminal", "idle") /\ branch' = branch
      /\ managePc[m] = "write" /\ request[m].operation = "deactivateTerminal"
  BY DEF DeactivateTerminal, Write
<1>2. t \in Terminals
  BY <1>1 DEF PointsTypeOK, FlagsAreRight, OfRequest
<1>3. /\ terminal' = [terminal EXCEPT ![t] = "inactive"]
      /\ point' = [point EXCEPT ![t].active = FALSE]
  BY DEF DeactivateTerminal
<1>4. crossed' \in BOOLEAN /\ (crossed => crossed')
  BY DEF PointsTypeOK, DeactivateTerminal, Overtaken
<1>5. stale' \subseteq Managers
  BY DEF PointsTypeOK, DeactivateTerminal, Ready
<1>6. point' \in Points
  BY <1>2, <1>3 DEF PointsTypeOK, Points
<1>7. PointsTypeOK'
  BY <1>1, <1>2, <1>3, <1>4, <1>5, <1>6, WriteType DEF PointsTypeOK, Points
<1>8. crossed' \/ ~Default(t)
  BY <1>1 DEF DeactivateTerminal, Overtaken, CheckPasses
<1> QED
  BY <1>1, <1>2, <1>3, <1>4, <1>6, <1>7, <1>8, WriteFlags DEF PointsTypeOK, IsClosed, Effects

LEMMA ActivateTerminalEffects ==
    ASSUME PointsTypeOK, FlagsAreRight, NEW m \in Managers, NEW t \in Terminals, ActivateTerminal(m, t)
    PROVE  Effects
<1> DEFINE new == [exists |-> point[t].exists, active |-> point[t].exists,
                   isDefault |-> point[t].isDefault]
<1>1. /\ terminal' = [terminal EXCEPT ![t] = "active"]
      /\ UNCHANGED <<branch, managePc, request, crossed>>
  BY DEF ActivateTerminal
<1>2. point' = [point EXCEPT ![t] = new] /\ Fits(point')
  <2>0. PICK e \in BOOLEAN, a \in BOOLEAN, d \in BOOLEAN :
           point[t] = [exists |-> e, active |-> a, isDefault |-> d]
    BY PointFields
  <2>1. [point[t] EXCEPT !.active = point[t].exists] = new
    <3>1. [[exists |-> e, active |-> a, isDefault |-> d] EXCEPT !.active = e]
             = [exists |-> e, active |-> e, isDefault |-> d]
      OBVIOUS
    <3>2. point[t].isDefault = d /\ point[t].exists = e
      BY <2>0
    <3> QED
      BY <2>0, <3>1, <3>2
  <2>2. [point EXCEPT ![t].active = point[t].exists] = [point EXCEPT ![t] = new]
    BY <2>1
  <2> QED
    BY <2>2 DEF ActivateTerminal
<1>3. point' \in Points
  BY <1>2, PointType DEF PointsTypeOK
<1>4. PointsTypeOK'
  BY <1>1, <1>3 DEF PointsTypeOK, Points, ActivateTerminal, Ready
<1>5. point[t].exists \in BOOLEAN
  BY DEF PointsTypeOK
<1>6. \A u \in Terminals : terminal[u] = "active" => terminal'[u] = "active"
  BY <1>1 DEF PointsTypeOK
<1> QED
  BY <1>1, <1>2, <1>3, <1>4, <1>5, <1>6 DEF FlagsAreRight, IsActivated, Effects

LEMMA ActivateBranchEffects ==
    ASSUME PointsTypeOK, FlagsAreRight, NEW b \in Branches, ActivateBranch(b)
    PROVE  Effects
<1>1. /\ branch' = [branch EXCEPT ![b] = TRUE]
      /\ UNCHANGED <<terminal, point, managePc, request, stale, crossed>>
  BY DEF ActivateBranch
<1>2. PointsTypeOK' /\ point' \in Points
  BY <1>1 DEF PointsTypeOK, Points
<1>3. \A t \in Terminals : BranchActive(t) => BranchActive(t)'
  BY <1>1 DEF PointsTypeOK, BranchActive
<1> QED
  BY <1>1, <1>2, <1>3 DEF FlagsAreRight, LeavesPoints, Effects

LEMMA SelectEffects ==
    ASSUME PointsTypeOK, FlagsAreRight, NEW m \in Managers, SelectDefault(m)
    PROVE  Effects
<1> DEFINE t == OfRequest(m)
<1>1. /\ Write(m, "select", "idle") /\ UNCHANGED <<branch, terminal>>
      /\ managePc[m] = "write" /\ request[m].operation = "select"
      /\ point' = Selected(t) /\ Fits(point')
  BY DEF SelectDefault, Write
<1>2. t \in Terminals
  BY <1>1 DEF PointsTypeOK, FlagsAreRight, OfRequest
<1>3. /\ point' \in Points
      /\ point'[t] = [exists |-> TRUE, active |-> TRUE, isDefault |-> TRUE]
      /\ \A u \in Terminals \ {t} : point'[u] = [point[u] EXCEPT !.isDefault = FALSE]
  BY <1>1, <1>2 DEF PointsTypeOK, Points, Selected
<1>4. crossed' \in BOOLEAN /\ (crossed => crossed')
  BY DEF PointsTypeOK, SelectDefault, Overtaken
<1>5. stale' \subseteq Managers
  BY DEF PointsTypeOK, SelectDefault, Ready
<1>6. PointsTypeOK'
  BY <1>1, <1>3, <1>4, <1>5, WriteType DEF PointsTypeOK, Points
<1>7. crossed' \/ (terminal[t] = "active" /\ BranchActive(t))
  <2>1. CheckPasses("select", t) => terminal[t] = "active" /\ BranchActive(t)
    BY DEF CheckPasses
  <2>2. crossed' = (crossed \/ ~CheckPasses("select", t))
    BY <1>1 DEF SelectDefault, Overtaken
  <2> QED
    BY <2>1, <2>2, Zenon
<1>8. \A n \in Managers : managePc'[n] # "idle" => request'[n].terminal # Missing
  BY <1>1, WriteFlags
<1>9. \A u \in Terminals \ {t} : point'[u] \in {point[u], [point[u] EXCEPT !.isDefault = FALSE]}
  BY <1>3
<1> QED
  BY <1>1, <1>2, <1>3, <1>4, <1>6, <1>7, <1>8, <1>9 DEF BecomesDefault, Effects

LEMMA ConflictEffects ==
    ASSUME PointsTypeOK, FlagsAreRight, NEW m \in Managers, SelectConflicts(m)
    PROVE  Effects
<1>1. Write(m, "select", "idle") /\ UNCHANGED <<branch, terminal, point, stale, crossed>>
  BY DEF SelectConflicts
<1>2. PointsTypeOK' /\ point' \in Points
  BY <1>1, WriteType DEF PointsTypeOK, Points
<1> QED
  BY <1>1, <1>2, WriteFlags DEF LeavesPoints, Effects, BranchActive

LEMMA EnsureEffects ==
    ASSUME PointsTypeOK, FlagsAreRight, NEW m \in Managers, NEW t \in Terminals, EnsureDefault(m, t)
    PROVE  Effects
<1>1. /\ point' = [point EXCEPT ![t] = [exists |-> TRUE, active |-> TRUE, isDefault |-> TRUE]]
      /\ Fits(point') /\ UNCHANGED <<branch, terminal, managePc, request>>
  BY DEF EnsureDefault
<1>2. point' \in Points
  BY <1>1, PointType
<1>3. /\ point'[t] = [exists |-> TRUE, active |-> TRUE, isDefault |-> TRUE]
      /\ \A u \in Terminals \ {t} : point'[u] = point[u]
  BY <1>1 DEF PointsTypeOK
<1>4. /\ crossed' \in BOOLEAN /\ (crossed => crossed')
      /\ crossed' \/ (terminal[t] = "active" /\ BranchActive(t))
  <2>1. crossed' = (crossed \/ terminal[t] # "active" \/ ~BranchActive(t)
                            \/ \E n \in Managers : managePc[n] # "idle")
    BY DEF EnsureDefault
  <2> QED
    BY <2>1, Zenon DEF PointsTypeOK
<1>5. PointsTypeOK'
  BY <1>1, <1>2, <1>4 DEF PointsTypeOK, Points, EnsureDefault, Ready
<1>6. \A n \in Managers : managePc'[n] # "idle" => request'[n].terminal # Missing
  BY <1>1 DEF FlagsAreRight
<1>7. \A u \in Terminals \ {t} : point'[u] \in {point[u], [point[u] EXCEPT !.isDefault = FALSE]}
  BY <1>3
<1> QED
  BY <1>1, <1>2, <1>3, <1>4, <1>5, <1>6, <1>7 DEF BecomesDefault, Effects

LEMMA StepEffects ==
    ASSUME PointsTypeOK, FlagsAreRight, PointsNext
    PROVE  Effects
BY CheckEffects, CreateTerminalEffects, CreatePointEffects, DeactivateBranchEffects,
   DeactivateTerminalEffects, ActivateTerminalEffects, ActivateBranchEffects, SelectEffects,
   ConflictEffects, EnsureEffects, PointConstants DEF PointsNext

(* What the effects do to the invariant. *)

\* A step that leaves the points.
LEMMA LeavingKeeps ==
    ASSUME PointInv, crossed => crossed', LeavesPoints
    PROVE  /\ \A t \in Terminals : /\ point'[t].active => point'[t].exists
                                   /\ ~crossed' /\ point'[t].isDefault => point'[t].active
           /\ OneActiveDefault' /\ DefaultIsOpen'
<1>1. point' = point
  BY DEF LeavesPoints
<1>2. \A t \in Terminals : Default(t)' = Default(t)
  BY <1>1 DEF Default
<1>3. OneActiveDefault'
  BY <1>2 DEF PointInv, OneActiveDefault
<1>4. DefaultIsOpen'
  BY <1>2 DEF PointInv, DefaultIsOpen, LeavesPoints
<1> QED
  BY <1>1, <1>3, <1>4 DEF PointInv, FlagsAreRight

\* A point activated with its terminal keeps its flag, and the index its uniqueness.
LEMMA ActivatingKeeps ==
    ASSUME PointInv, crossed => crossed', NEW t \in Terminals, IsActivated(t)
    PROVE  /\ \A u \in Terminals : /\ point'[u].active => point'[u].exists
                                   /\ ~crossed' /\ point'[u].isDefault => point'[u].active
           /\ OneActiveDefault' /\ DefaultIsOpen'
<1>1. PICK e \in BOOLEAN :
         /\ e \/ ~point[t].exists
         /\ point' = [point EXCEPT ![t] = [exists |-> e, active |-> e,
                                           isDefault |-> point[t].isDefault]]
         /\ Fits(point') /\ branch' = branch
         /\ \A u \in Terminals : terminal[u] = "active" => terminal'[u] = "active"
  BY DEF IsActivated
<1>2. /\ point'[t].exists = e /\ point'[t].active = e
      /\ point'[t].isDefault = point[t].isDefault
      /\ \A u \in Terminals : u # t => point'[u] = point[u]
  BY <1>1 DEF PointInv, PointsTypeOK
<1>3. ASSUME NEW u \in Terminals
      PROVE  /\ point'[u].active => point'[u].exists
             /\ ~crossed' /\ point'[u].isDefault => point'[u].active
  <2>1. CASE u = t
    BY <1>1, <1>2, <2>1 DEF PointInv, FlagsAreRight
  <2>2. CASE u # t
    BY <1>2, <2>2 DEF PointInv, FlagsAreRight
  <2> QED
    BY <2>1, <2>2
<1>4. OneActiveDefault'
  BY <1>1, FitsIsUnique DEF OneActiveDefault, Default
<1>5. ASSUME NEW u \in Terminals, ~crossed', Default(u)'
      PROVE  terminal'[u] = "active" /\ BranchActive(u)'
  <2>1. Default(u)
    <3>1. point'[u].isDefault
      BY <1>5 DEF Default
    <3>2. point[u].isDefault
      BY <1>2, <3>1
    <3> QED
      BY <1>5, <3>2 DEF PointInv, FlagsAreRight, Default
  <2>2. terminal[u] = "active" /\ BranchActive(u)
    BY <1>5, <2>1 DEF PointInv, DefaultIsOpen
  <2> QED
    BY <1>1, <2>2 DEF BranchActive
<1> QED
  BY <1>3, <1>4, <1>5 DEF DefaultIsOpen

\* A point closed with its terminal was not the default.
LEMMA ClosingKeeps ==
    ASSUME PointInv, crossed => crossed', NEW t \in Terminals, IsClosed(t)
    PROVE  /\ \A u \in Terminals : /\ point'[u].active => point'[u].exists
                                   /\ ~crossed' /\ point'[u].isDefault => point'[u].active
           /\ OneActiveDefault' /\ DefaultIsOpen'
<1>1. /\ ~point'[t].active /\ point'[t].isDefault = point[t].isDefault
      /\ \A u \in Terminals : u # t => point'[u] = point[u] /\ terminal'[u] = terminal[u]
      /\ branch' = branch /\ (crossed' \/ ~Default(t))
  BY DEF IsClosed, PointInv, PointsTypeOK
<1>2. ASSUME NEW u \in Terminals
      PROVE  /\ point'[u].active => point'[u].exists
             /\ ~crossed' /\ point'[u].isDefault => point'[u].active
  <2>1. CASE u = t
    BY <1>1, <2>1 DEF PointInv, FlagsAreRight, Default
  <2>2. CASE u # t
    BY <1>1, <2>2 DEF PointInv, FlagsAreRight
  <2> QED
    BY <2>1, <2>2
<1>3. \A u \in Terminals : Default(u)' => u # t /\ Default(u)
  BY <1>1 DEF Default
<1>4. OneActiveDefault'
  BY <1>3 DEF PointInv, OneActiveDefault
<1>5. DefaultIsOpen'
  BY <1>1, <1>3 DEF PointInv, DefaultIsOpen, BranchActive
<1> QED
  BY <1>2, <1>4, <1>5

\* A selected point is open, and the others lose the flag or the index refuses it.
LEMMA SelectingKeeps ==
    ASSUME PointInv, crossed => crossed', NEW t \in Terminals,
           BecomesDefault(t)
    PROVE  /\ \A u \in Terminals : /\ point'[u].active => point'[u].exists
                                   /\ ~crossed' /\ point'[u].isDefault => point'[u].active
           /\ OneActiveDefault' /\ DefaultIsOpen'
<1>1. /\ point'[t].exists /\ point'[t].active /\ point'[t].isDefault
      /\ Fits(point') /\ UNCHANGED <<branch, terminal>>
      /\ crossed' \/ (terminal[t] = "active" /\ BranchActive(t))
  BY DEF BecomesDefault
<1>2. ASSUME NEW u \in Terminals, u # t
      PROVE  /\ point'[u].exists = point[u].exists /\ point'[u].active = point[u].active
             /\ point'[u].isDefault => point[u].isDefault
  <2>1. point[u] \in [exists : BOOLEAN, active : BOOLEAN, isDefault : BOOLEAN]
    BY DEF PointInv, PointsTypeOK
  <2>2. point'[u] = point[u] \/ point'[u] = [point[u] EXCEPT !.isDefault = FALSE]
    BY <1>2 DEF BecomesDefault
  <2> QED
    BY <2>1, <2>2
<1>3. ASSUME NEW u \in Terminals
      PROVE  /\ point'[u].active => point'[u].exists
             /\ ~crossed' /\ point'[u].isDefault => point'[u].active
  BY <1>1, <1>2 DEF PointInv, FlagsAreRight
<1>4. OneActiveDefault'
  BY <1>1, FitsIsUnique DEF OneActiveDefault, Default
<1>5. ASSUME NEW u \in Terminals, ~crossed', Default(u)'
      PROVE  u = t
  BY <1>1, <1>4, <1>5 DEF OneActiveDefault, Default
<1>6. DefaultIsOpen'
  BY <1>1, <1>5 DEF DefaultIsOpen, BranchActive
<1> QED
  BY <1>3, <1>4, <1>6

\* Who is still to write has not been touched, and has seen the points as they are
\* unless it is stale.
LEMMA ChecksSurvive ==
    ASSUME PointInv, NEW m \in Managers,
           \A n \in Managers : managePc'[n] = "write" =>
              n # m /\ managePc[n] = "write" /\ request'[n] = request[n],
           stale \subseteq stale',
           Ready(m) \subseteq stale' \/ \A t \in Terminals : Default(t)' => Default(t)
    PROVE  ChecksHold'
<1>1. SUFFICES ASSUME NEW n \in Managers, n \notin stale', managePc'[n] = "write",
                      request'[n].operation = "deactivateTerminal"
               PROVE  ~Default(OfRequest(n))'
  BY DEF ChecksHold
<1>2. /\ n # m /\ managePc[n] = "write" /\ request'[n] = request[n] /\ n \notin stale
  BY <1>1
<1>3. n \in Ready(m)
  BY <1>2 DEF Ready
<1>4. ~Default(request[n].terminal)
  BY <1>1, <1>2 DEF PointInv, ChecksHold, OfRequest
<1>5. request[n].terminal \in Terminals
  BY <1>2 DEF PointInv, PointsTypeOK, FlagsAreRight
<1>6. \A t \in Terminals : Default(t)' => Default(t)
  BY <1>1, <1>3
<1> QED
  BY <1>2, <1>4, <1>5, <1>6 DEF OfRequest, Default

\* A write leaves the other requests alone.
LEMMA WriteLeavesOthers ==
    ASSUME PointsTypeOK, NEW m \in Managers, NEW operation, NEW to \in {"idle", "writePoint"},
           Write(m, operation, to)
    PROVE  \A n \in Managers : managePc'[n] = "write" =>
              n # m /\ managePc[n] = "write" /\ request'[n] = request[n]
BY DEF PointsTypeOK, Write

\* The checks of deactivations that are not stale still hold after every step.
LEMMA ChecksStep ==
    ASSUME PointInv, PointsNext
    PROVE  ChecksHold'
<1> USE DEF PointInv
<1>1. ASSUME NEW m \in Managers, NEW operation \in Operations, NEW t \in Terminals,
             Check(m, operation, t)
      PROVE  ChecksHold'
  <2>1. SUFFICES ASSUME NEW n \in Managers, n \notin stale', managePc'[n] = "write",
                        request'[n].operation = "deactivateTerminal"
                 PROVE  ~Default(request'[n].terminal)
    BY <1>1 DEF ChecksHold, Check, OfRequest, Default
  <2>2. CASE n = m
    <3>1. request'[n] = [operation |-> operation, terminal |-> t]
      BY <1>1, <2>2 DEF Check, PointsTypeOK
    <3>2. operation = "deactivateTerminal" /\ request'[n].terminal = t
      BY <2>1, <3>1
    <3>3. CheckPasses("deactivateTerminal", t) => ~Default(t)
      BY DEF CheckPasses
    <3>4. CheckPasses(operation, t)
      BY <1>1 DEF Check
    <3> QED
      BY <3>2, <3>3, <3>4
  <2>3. CASE n # m
    <3>1. managePc[n] = "write" /\ request'[n] = request[n] /\ n \notin stale
      BY <1>1, <2>1, <2>3 DEF Check, PointsTypeOK
    <3> QED
      BY <2>1, <3>1 DEF ChecksHold, OfRequest
  <2> QED
    BY <2>2, <2>3
<1>2. ASSUME NEW m \in Managers,
             CreateTerminal(m) \/ DeactivateBranch(m) \/ SelectConflicts(m)
      PROVE  ChecksHold'
  <2>1. UNCHANGED <<point, stale>>
    BY <1>2 DEF CreateTerminal, DeactivateBranch, SelectConflicts
  <2>2. \A n \in Managers : managePc'[n] = "write" =>
           n # m /\ managePc[n] = "write" /\ request'[n] = request[n]
    BY <1>2, WriteLeavesOthers DEF CreateTerminal, DeactivateBranch, SelectConflicts
  <2> QED
    BY <2>1, <2>2, ChecksSurvive DEF Default
<1>3. ASSUME NEW m \in Managers, CreatePoint(m)
      PROVE  ChecksHold'
  <2>1. \A n \in Managers : managePc'[n] = "write" =>
           n # m /\ managePc[n] = "write" /\ request'[n] = request[n]
    BY <1>3 DEF CreatePoint, PointsTypeOK
  <2>2. stale' = stale \cup Ready(m)
    BY <1>3 DEF CreatePoint
  <2> QED
    BY <2>1, <2>2, ChecksSurvive
<1>4. ASSUME NEW m \in Managers, SelectDefault(m)
      PROVE  ChecksHold'
  <2>1. \A n \in Managers : managePc'[n] = "write" =>
           n # m /\ managePc[n] = "write" /\ request'[n] = request[n]
    BY <1>4, WriteLeavesOthers DEF SelectDefault
  <2>2. stale' = stale \cup Ready(m)
    BY <1>4 DEF SelectDefault
  <2> QED
    BY <2>1, <2>2, ChecksSurvive
<1>5. ASSUME NEW m \in Managers, DeactivateTerminal(m)
      PROVE  ChecksHold'
  <2>1. \A n \in Managers : managePc'[n] = "write" =>
           n # m /\ managePc[n] = "write" /\ request'[n] = request[n]
    BY <1>5, WriteLeavesOthers DEF DeactivateTerminal
  <2>2. stale \subseteq stale'
    BY <1>5 DEF DeactivateTerminal
  <2>3. \A t \in Terminals : Default(t)' => Default(t)
    BY <1>5 DEF DeactivateTerminal, PointsTypeOK, Default
  <2> QED
    BY <2>1, <2>2, <2>3, ChecksSurvive
<1>6. ASSUME NEW m \in Managers, NEW t \in Terminals,
             ActivateTerminal(m, t) \/ EnsureDefault(m, t)
      PROVE  ChecksHold'
  <2>1. /\ managePc[m] = "idle" /\ UNCHANGED <<managePc, request>>
        /\ stale' = stale \cup Ready(m)
    BY <1>6 DEF ActivateTerminal, EnsureDefault
  <2>2. \A n \in Managers : managePc'[n] = "write" =>
           n # m /\ managePc[n] = "write" /\ request'[n] = request[n]
    BY <2>1
  <2> QED
    BY <2>1, <2>2, ChecksSurvive
<1>7. ASSUME NEW b \in Branches, ActivateBranch(b)
      PROVE  ChecksHold'
  BY <1>7 DEF ActivateBranch, ChecksHold, OfRequest, Default
<1> QED
  BY <1>1, <1>2, <1>3, <1>4, <1>5, <1>6, <1>7, PointConstants DEF PointsNext

\* The invariant is inductive.
LEMMA PointStep ==
    ASSUME PointInv, PointsNext
    PROVE  PointInv'
<1>1. Effects
  BY StepEffects DEF PointInv
<1>2. /\ \A t \in Terminals : /\ point'[t].active => point'[t].exists
                              /\ ~crossed' /\ point'[t].isDefault => point'[t].active
      /\ OneActiveDefault' /\ DefaultIsOpen'
  <2>1. CASE LeavesPoints
    BY <1>1, <2>1, LeavingKeeps DEF Effects
  <2>2. ASSUME NEW t \in Terminals, IsActivated(t) \/ IsClosed(t) \/ BecomesDefault(t)
        PROVE  /\ \A u \in Terminals : /\ point'[u].active => point'[u].exists
                                       /\ ~crossed' /\ point'[u].isDefault => point'[u].active
               /\ OneActiveDefault' /\ DefaultIsOpen'
    BY <1>1, <2>2, ActivatingKeeps, ClosingKeeps, SelectingKeeps DEF Effects
  <2> QED
    BY <1>1, <2>1, <2>2 DEF Effects
<1>3. ChecksHold'
  BY ChecksStep
<1> QED
  BY <1>1, <1>2, <1>3 DEF PointInv, FlagsAreRight, Effects

\* At most one default point, of an open terminal of an open branch while no check was
\* overtaken (getDefaultIssuancePoint and its partial unique index).
THEOREM PointsCorrect ==
    ASSUME Legacy \subseteq Terminals
    PROVE  PointsSpec => []PointInv
<1>1. PointsInit => PointInv
  <2> SUFFICES ASSUME PointsInit PROVE PointInv
    OBVIOUS
  <2>1. NoPoint \in [exists : BOOLEAN, active : BOOLEAN, isDefault : BOOLEAN]
    BY DEF NoPoint
  <2>2. PointsTypeOK
    BY <2>1 DEF PointsInit, PointsTypeOK, NoRequest
  <2>3. \A t \in Terminals : ~point[t].active /\ ~point[t].isDefault
    BY DEF PointsInit, NoPoint
  <2> QED
    BY <2>2, <2>3 DEF PointsInit, PointInv, FlagsAreRight, OneActiveDefault, DefaultIsOpen,
                      ChecksHold, Default
<1>2. PointInv /\ [PointsNext]_pointVars => PointInv'
  <2>1. CASE PointsNext
    BY <2>1, PointStep
  <2>2. CASE UNCHANGED pointVars
    BY <2>2 DEF pointVars, PointInv, PointsTypeOK, FlagsAreRight, OneActiveDefault, DefaultIsOpen,
                ChecksHold, OfRequest, Default, BranchActive
  <2> QED
    BY <2>1, <2>2
<1> QED
  BY <1>1, <1>2, PTL DEF PointsSpec

\* A terminal that is the active default stays it in every step, except when another one
\* is selected and takes its place, or a deactivation whose check was overtaken by a write
\* of points closes it.
THEOREM SelectedDefaultIsKept ==
    ASSUME Legacy \subseteq Terminals
    PROVE  PointsSpec => DefaultIsKept
<1> DEFINE Kept ==
      \A t \in Terminals : Default(t) =>
          \/ Default(t)'
          \/ \E m \in Managers, u \in Terminals \ {t} : Ends(m, "select", u) /\ Default(u)'
          \/ \E m \in stale : Ends(m, "deactivateTerminal", t)
<1>1. ASSUME PointInv, PointsNext PROVE Kept
  <2>1. SUFFICES ASSUME NEW t \in Terminals, Default(t)
                 PROVE  \/ Default(t)'
                        \/ \E m \in Managers, u \in Terminals \ {t} :
                              Ends(m, "select", u) /\ Default(u)'
                        \/ \E m \in stale : Ends(m, "deactivateTerminal", t)
    OBVIOUS
  <2>2. CASE point' = point
    BY <2>1, <2>2 DEF Default
  <2>3. ASSUME NEW m \in Managers, CreatePoint(m), point' # point
        PROVE  Default(t)'
    <3>1. point' = [point EXCEPT ![OfRequest(m)] =
                       [exists |-> TRUE, active |-> TRUE,
                        isDefault |-> point[OfRequest(m)].isDefault]]
      BY <2>3 DEF CreatePoint
    <3> QED
      BY <1>1, <2>1, <3>1 DEF Default, PointInv, PointsTypeOK
  <2>4. ASSUME NEW m \in Managers, NEW u \in Terminals, ActivateTerminal(m, u)
        PROVE  Default(t)'
    <3>1. point' = [point EXCEPT ![u].active = point[u].exists]
      BY <2>4 DEF ActivateTerminal
    <3>2. point[t].exists /\ point[t].active /\ point[t].isDefault
      BY <1>1, <2>1 DEF PointInv, FlagsAreRight, Default
    <3> QED
      BY <1>1, <3>1, <3>2 DEF Default, PointInv, PointsTypeOK
  <2>5. ASSUME NEW m \in Managers, NEW u \in Terminals, EnsureDefault(m, u)
        PROVE  Default(t)'
    <3>1. point' = [point EXCEPT ![u] = [exists |-> TRUE, active |-> TRUE, isDefault |-> TRUE]]
      BY <2>5 DEF EnsureDefault
    <3> QED
      BY <1>1, <2>1, <3>1 DEF Default, PointInv, PointsTypeOK
  <2>6. ASSUME NEW m \in Managers, SelectDefault(m), OfRequest(m) # t
        PROVE  \E u \in Terminals \ {t} : Ends(m, "select", u) /\ Default(u)'
    <3>1. /\ managePc[m] = "write" /\ request[m].operation = "select"
          /\ point' = Selected(OfRequest(m))
      BY <2>6 DEF SelectDefault, Write
    <3>2. OfRequest(m) \in Terminals /\ managePc'[m] = "idle"
      BY <1>1, <2>6, <3>1
         DEF SelectDefault, Write, PointInv, PointsTypeOK, FlagsAreRight, OfRequest
    <3>3. request[m] = [operation |-> "select", terminal |-> OfRequest(m)]
      BY <1>1, <3>1 DEF PointInv, PointsTypeOK, OfRequest
    <3>4. point'[OfRequest(m)].active /\ point'[OfRequest(m)].isDefault
      BY <3>1, <3>2 DEF Selected
    <3> DEFINE u == OfRequest(m)
    <3>5. u \in Terminals \ {t} /\ point'[u].active /\ point'[u].isDefault
      BY <2>6, <3>2, <3>4
    <3>6. Ends(m, "select", u)
      BY <3>1, <3>2, <3>3 DEF Ends
    <3> HIDE DEF u
    <3> QED
      BY <3>5, <3>6 DEF Default
  <2>7. ASSUME NEW m \in Managers, SelectDefault(m), OfRequest(m) = t
        PROVE  Default(t)'
    BY <2>7 DEF SelectDefault, Selected, Default
  <2>8. ASSUME NEW m \in Managers, DeactivateTerminal(m), OfRequest(m) = t
        PROVE  m \in stale /\ Ends(m, "deactivateTerminal", t)
    <3>1. /\ managePc[m] = "write" /\ request[m].operation = "deactivateTerminal"
          /\ managePc'[m] = "idle"
      BY <1>1, <2>8 DEF DeactivateTerminal, Write, PointInv, PointsTypeOK
    <3>2. request[m] = [operation |-> "deactivateTerminal", terminal |-> t]
      BY <1>1, <2>8, <3>1 DEF PointInv, PointsTypeOK, OfRequest
    <3>3. m \in stale
      BY <1>1, <2>1, <2>8, <3>1 DEF PointInv, ChecksHold
    <3> QED
      BY <3>1, <3>2, <3>3 DEF Ends
  <2>9. ASSUME NEW m \in Managers, DeactivateTerminal(m), OfRequest(m) # t
        PROVE  Default(t)'
    BY <1>1, <2>1, <2>9 DEF DeactivateTerminal, Default, PointInv, PointsTypeOK
  <2>10. \/ point' = point
         \/ \E m \in Managers :
               \/ CreatePoint(m) \/ SelectDefault(m) \/ DeactivateTerminal(m)
               \/ \E u \in Terminals : ActivateTerminal(m, u) \/ EnsureDefault(m, u)
    BY <1>1, PointConstants
       DEF PointsNext, Check, CreateTerminal, DeactivateBranch, SelectConflicts, ActivateBranch
  <2> QED
    BY <2>2, <2>3, <2>4, <2>5, <2>6, <2>7, <2>8, <2>9, <2>10
<1>2. PointsSpec => []PointInv
  BY PointsCorrect
<1>3. PointInv /\ [PointsNext]_pointVars => [Kept]_pointVars
  BY <1>1
<1> QED
  BY <1>2, <1>3, PTL DEF PointsSpec, DefaultIsKept

-----------------------------------------------------------------------------
(* TaxpayerActivities: a company is created once, and verified as Hacienda says *)

\* Activities as an answer leaves them: returned ones as returned, all others inactive.
AsAnswered(rows_, reply) ==
    \A c \in CodesOfCompany :
        /\ rows_[c].status \in 
            {reply.status[c], IF rows_[c].status # "NONE" THEN "I" ELSE "NONE"}
        /\ rows_[c].status = "A" => reply.status[c] = "A"

\* Who saves has a status to save; nobody verifies before the company exists.
CreationInOrder ==
    /\ company = "NONE" => /\ \A c \in Creators : createPc[c] # "created"
                           /\ \A v \in Verifications : verifyPc[v] = "ask"
    /\ \A c \in Creators : createPc[c] = "save" => createMem[c] # "NONE"

\* A verification that nothing disturbed still sees the rows it wrote, and the default it
\* read.
VerificationInOrder ==
    /\ \A v \in Verifications : verifyPc[v] \in {"ask", "done"} => ~verifyMem[v].answer.found
    /\ \A v \in Verifications \ disturbed :
          /\ verifyPc[v] \in {"profile", "default"} =>
                /\ activities = verifyMem[v].rows
                /\ AsAnswered(activities, verifyMem[v].answer)
          /\ verifyPc[v] = "default" => profile.default = verifyMem[v].profile.default
    /\ profile.exists \/ profile.default = "NONE"
    /\ \A v \in Verifications : verifyPc[v] = "default" => profile.exists
    /\ \A d \in Choosers : choosePc[d] = "write" => profile.exists

\* A choice that is about to be written is an activity.
ChoiceInOrder == \A d \in Choosers : choosePc[d] = "write" => chooseMem[d] \in CodesOfCompany

TaxpayerOrder ==
    /\ Taxpayer!TypeOK
    /\ Taxpayer!CreatedOnce
    /\ Taxpayer!DefaultIsOwn
    /\ ChoiceInOrder
    /\ CreationInOrder
    /\ VerificationInOrder

\* What a call writes and reads is well typed.
LEMMA UpdatedType ==
    ASSUME Taxpayer!TypeOK, NEW reply \in Taxpayer!Registry
    PROVE  Taxpayer!Updated(reply) \in [CodesOfCompany -> Taxpayer!Activity]
<1>1. \A c \in CodesOfCompany :
         /\ activities[c].status \in Taxpayer!HaciendaStatus \cup {Taxpayer!None}
         /\ activities[c].enabled \in BOOLEAN
         /\ activities[c] \in Taxpayer!Activity
         /\ reply.status[c] \in Taxpayer!HaciendaStatus \cup {Taxpayer!None}
  BY DEF Taxpayer!TypeOK, Taxpayer!Activity, Taxpayer!Registry
<1>2. ASSUME NEW c \in CodesOfCompany
      PROVE  Taxpayer!Updated(reply)[c] \in Taxpayer!Activity
  <2>1. CASE reply.status[c] # Taxpayer!None
    BY <1>1, <2>1 DEF Taxpayer!Updated, Taxpayer!Activity
  <2>2. CASE reply.status[c] = Taxpayer!None /\ activities[c].status = "A"
    BY <1>1, <2>2 DEF Taxpayer!Updated, Taxpayer!Activity, Taxpayer!HaciendaStatus
  <2>3. CASE reply.status[c] = Taxpayer!None /\ activities[c].status # "A"
    BY <1>1, <2>3 DEF Taxpayer!Updated
  <2> QED
    BY <2>1, <2>2, <2>3
<1> QED
  BY <1>2 DEF Taxpayer!Updated

\* PersistActivities writes what Hacienda answered.
LEMMA UpdatedAsAnswered ==
    ASSUME Taxpayer!TypeOK, NEW reply \in Taxpayer!Registry
    PROVE  AsAnswered(Taxpayer!Updated(reply), reply)
<1>1. \A c \in CodesOfCompany :
         /\ activities[c] \in Taxpayer!Activity
         /\ activities[c].status \in {"A", "I", "NONE"}
         /\ reply.status[c] \in {"A", "I", "NONE"}
  BY DEF Taxpayer!TypeOK, Taxpayer!Activity, Taxpayer!Registry, Taxpayer!HaciendaStatus,
     Taxpayer!None
<1>2. ASSUME NEW c \in CodesOfCompany
      PROVE  Taxpayer!Updated(reply)[c].status =
                IF reply.status[c] # "NONE" THEN reply.status[c]
                ELSE IF activities[c].status = "A" THEN "I" ELSE activities[c].status
  BY <1>1 DEF Taxpayer!Updated, Taxpayer!None, Taxpayer!Activity
<1> QED
  BY <1>1, <1>2 DEF AsAnswered

\* Every step keeps the types.
LEMMA TaxpayerType ==
    ASSUME Taxpayer!TypeOK, [Taxpayer!Next]_taxpayerVars
    PROVE  Taxpayer!TypeOK'
<1>0. /\ registry \in Taxpayer!Registry /\ profile \in Taxpayer!Profile
      /\ company \in Taxpayer!Verified \cup {Taxpayer!None}
      /\ createPc \in [Creators -> {"check", "lookup", "save", "created", "refused"}]
      /\ createMem \in [Creators -> Taxpayer!Verified \cup {Taxpayer!None}]
      /\ activities \in [CodesOfCompany -> Taxpayer!Activity]
      /\ verifyPc \in [Verifications -> {"ask", "persist", "profile", "default", "done"}]
      /\ verifyMem \in [Verifications ->
            [answer : Taxpayer!Registry, rows : [CodesOfCompany -> Taxpayer!Activity],
             profile : Taxpayer!Profile]]
      /\ choosePc \in [Choosers -> {"read", "write", "done"}]
      /\ chooseMem \in [Choosers -> CodesOfCompany \cup {Taxpayer!None}]
      /\ disturbed \subseteq Verifications
      /\ changes \in 0..MaxChanges
  BY DEF Taxpayer!TypeOK
<1>1. CASE UNCHANGED taxpayerVars
  BY <1>1 DEF taxpayerVars, Taxpayer!TypeOK
<1>2. ASSUME NEW c \in Creators,
             Taxpayer!CheckUniqueness(c) \/ Taxpayer!Lookup(c) \/ Taxpayer!SaveCompany(c)
      PROVE  Taxpayer!TypeOK'
  <2>1. createPc' \in [Creators -> {"check", "lookup", "save", "created", "refused"}]
    BY <1>0, <1>2 DEF Taxpayer!CheckUniqueness, Taxpayer!Lookup, Taxpayer!SaveCompany,
       Taxpayer!CreateAt
  <2>2. createMem' \in [Creators -> Taxpayer!Verified \cup {Taxpayer!None}]
    BY <1>0, <1>2 DEF Taxpayer!CheckUniqueness, Taxpayer!Lookup, Taxpayer!SaveCompany,
       Taxpayer!Verified
  <2>3. company' \in Taxpayer!Verified \cup {Taxpayer!None}
    BY <1>0, <1>2 DEF Taxpayer!CheckUniqueness, Taxpayer!Lookup, Taxpayer!SaveCompany
  <2>4. UNCHANGED <<registry, activities, profile, verifyPc, verifyMem, choosePc, chooseMem,
                    disturbed, changes>>
    BY <1>2 DEF Taxpayer!CheckUniqueness, Taxpayer!Lookup, Taxpayer!SaveCompany,
       Taxpayer!CreateUnchanged
  <2> QED
    BY <1>0, <2>1, <2>2, <2>3, <2>4 DEF Taxpayer!TypeOK
<1>3. Taxpayer!Forgotten \in [answer : Taxpayer!Registry,
                              rows : [CodesOfCompany -> Taxpayer!Activity],
                              profile : Taxpayer!Profile]
  BY DEF Taxpayer!Forgotten, Taxpayer!NoAnswer, Taxpayer!NoActivities, Taxpayer!NoProfile,
     Taxpayer!Registry, Taxpayer!Activity, Taxpayer!Profile
<1>4. ASSUME NEW v \in Verifications,
             \/ Taxpayer!Ask(v) \/ Taxpayer!AskFails(v) \/ Taxpayer!PersistNotFound(v)
             \/ Taxpayer!PersistActivities(v) \/ Taxpayer!ReadProfile(v)
             \/ Taxpayer!ReadNoProfile(v) \/ Taxpayer!SetDefault(v)
      PROVE  Taxpayer!TypeOK'
  <2>1. verifyPc' \in [Verifications -> {"ask", "persist", "profile", "default", "done"}]
    BY <1>0, <1>4, ZenonT(60) DEF Taxpayer!Ask, Taxpayer!AskFails, Taxpayer!PersistNotFound,
       Taxpayer!PersistActivities, Taxpayer!ReadProfile, Taxpayer!ReadNoProfile,
       Taxpayer!SetDefault, Taxpayer!VerifyAt
  <2>2. Taxpayer!Updated(verifyMem[v].answer) \in [CodesOfCompany -> Taxpayer!Activity]
    BY <1>0, UpdatedType
  <2>3. activities' \in [CodesOfCompany -> Taxpayer!Activity]
    BY <1>0, <1>4, <2>2 DEF Taxpayer!Ask, Taxpayer!AskFails, Taxpayer!PersistNotFound,
       Taxpayer!PersistActivities, Taxpayer!ReadProfile, Taxpayer!ReadNoProfile,
       Taxpayer!SetDefault
  <2>4. verifyMem' \in [Verifications ->
            [answer : Taxpayer!Registry, rows : [CodesOfCompany -> Taxpayer!Activity],
             profile : Taxpayer!Profile]]
    <3>1. CASE verifyMem' = [verifyMem EXCEPT ![v].answer = registry]
      BY <1>0, <3>1
    <3>2. CASE verifyMem' =
                  [verifyMem EXCEPT ![v].rows = Taxpayer!Updated(verifyMem[v].answer)]
      BY <1>0, <2>2, <3>2
    <3>3. CASE verifyMem' = [verifyMem EXCEPT ![v].profile = profile]
      BY <1>0, <3>3
    <3>4. CASE verifyMem' = [verifyMem EXCEPT ![v] = Taxpayer!Forgotten]
      BY <1>0, <1>3, <3>4
    <3>5. CASE UNCHANGED verifyMem
      BY <1>0, <3>5
    <3> QED
      BY <1>4, <3>1, <3>2, <3>3, <3>4, <3>5 DEF Taxpayer!Ask, Taxpayer!AskFails,
         Taxpayer!PersistNotFound, Taxpayer!PersistActivities, Taxpayer!ReadProfile,
         Taxpayer!ReadNoProfile, Taxpayer!SetDefault, Taxpayer!Forget
  <2>5. company' \in Taxpayer!Verified \cup {Taxpayer!None}
    BY <1>0, <1>4 DEF Taxpayer!Ask, Taxpayer!AskFails, Taxpayer!PersistNotFound,
       Taxpayer!PersistActivities, Taxpayer!ReadProfile, Taxpayer!ReadNoProfile,
       Taxpayer!SetDefault, Taxpayer!Verified
  <2>6. profile' \in Taxpayer!Profile
    <3>1. CASE Taxpayer!SetDefault(v)
      <4>1. PICK after \in Taxpayer!DefaultOf(verifyMem[v].rows, verifyMem[v].profile) :
               profile' = [profile EXCEPT
                  !.default = IF after.default = verifyMem[v].profile.default THEN @
                              ELSE after.default,
                  !.code = IF after.default \in {verifyMem[v].profile.default, Taxpayer!None}
                           THEN @ ELSE after.code]
        BY <3>1 DEF Taxpayer!SetDefault
      <4>2. /\ after.default \in CodesOfCompany \cup {Taxpayer!None}
            /\ after.code \in CodesOfCompany \cup {Taxpayer!None}
        <5> DEFINE before == verifyMem[v].profile
        <5>1. before \in Taxpayer!Profile
          BY <1>0
        <5>2. CASE after = before
          BY <5>1, <5>2 DEF Taxpayer!Profile
        <5>3. CASE \E c \in CodesOfCompany : after = [before EXCEPT !.default = c, !.code = c]
          BY <5>1, <5>3 DEF Taxpayer!Profile
        <5>4. CASE after = [before EXCEPT !.default = Taxpayer!None]
          BY <5>1, <5>4 DEF Taxpayer!Profile
        <5> QED
          BY <4>1, <5>2, <5>3, <5>4 DEF Taxpayer!DefaultOf, Taxpayer!ValidActive
      <4> QED
        BY <1>0, <4>1, <4>2 DEF Taxpayer!Profile
    <3>2. CASE ~Taxpayer!SetDefault(v)
      BY <1>0, <1>4, <3>2 DEF Taxpayer!Ask, Taxpayer!AskFails, Taxpayer!PersistNotFound,
         Taxpayer!PersistActivities, Taxpayer!ReadProfile, Taxpayer!ReadNoProfile
    <3> QED
      BY <3>1, <3>2
  <2>7. disturbed' \subseteq Verifications
    BY <1>0, <1>4 DEF Taxpayer!Ask, Taxpayer!AskFails, Taxpayer!PersistNotFound,
       Taxpayer!PersistActivities, Taxpayer!ReadProfile, Taxpayer!ReadNoProfile,
       Taxpayer!SetDefault, Taxpayer!Deciding, Taxpayer!ProfileRead
  <2>8. UNCHANGED <<registry, createPc, createMem, choosePc, chooseMem, changes>>
    BY <1>4 DEF Taxpayer!Ask, Taxpayer!AskFails, Taxpayer!PersistNotFound,
       Taxpayer!PersistActivities, Taxpayer!ReadProfile, Taxpayer!ReadNoProfile,
       Taxpayer!SetDefault, Taxpayer!VerifyUnchanged
  <2> QED
    BY <1>0, <2>1, <2>3, <2>4, <2>5, <2>6, <2>7, <2>8 DEF Taxpayer!TypeOK
<1>5. ASSUME NEW d \in Choosers, Taxpayer!ChooseRead(d) \/ Taxpayer!ChooseWrite(d)
      PROVE  Taxpayer!TypeOK'
  <2>1. /\ choosePc' \in [Choosers -> {"read", "write", "done"}]
        /\ chooseMem' \in [Choosers -> CodesOfCompany \cup {Taxpayer!None}]
    BY <1>0, <1>5 DEF Taxpayer!ChooseRead, Taxpayer!ChooseWrite
  <2>3. profile' \in Taxpayer!Profile
    <3>1. CASE Taxpayer!ChooseWrite(d)
      <4>1. chooseMem[d] \in CodesOfCompany \cup {Taxpayer!None}
        BY <1>0
      <4> QED
        BY <1>0, <3>1, <4>1 DEF Taxpayer!ChooseWrite, Taxpayer!Profile
    <3> QED
      BY <1>0, <1>5, <3>1 DEF Taxpayer!ChooseRead
  <2>4. disturbed' \subseteq Verifications
    BY <1>0, <1>5 DEF Taxpayer!ChooseRead, Taxpayer!ChooseWrite, Taxpayer!ProfileRead
  <2>2. UNCHANGED <<registry, company, createPc, createMem, activities, verifyPc, verifyMem,
                    changes>>
    BY <1>5 DEF Taxpayer!ChooseRead, Taxpayer!ChooseWrite, Taxpayer!OperatorUnchanged
  <2> QED
    BY <1>0, <2>1, <2>2, <2>3, <2>4 DEF Taxpayer!TypeOK
<1>6. ASSUME NEW c \in CodesOfCompany, Taxpayer!SetEnabled(c) \/ Taxpayer!UpsertProfile(c)
      PROVE  Taxpayer!TypeOK'
  <2>1. changes' \in 0..MaxChanges
    BY <1>0, <1>6, CompanyConstants DEF Taxpayer!SetEnabled, Taxpayer!UpsertProfile,
       Taxpayer!Change
  <2>2. /\ activities' \in [CodesOfCompany -> Taxpayer!Activity]
        /\ profile' \in Taxpayer!Profile
        /\ disturbed' \subseteq Verifications
    <3>1. CASE Taxpayer!SetEnabled(c)
      <4>1. activities[c] \in Taxpayer!Activity
        BY <1>0
      <4>2. [activities[c] EXCEPT !.enabled = ~@] \in Taxpayer!Activity
        BY <4>1 DEF Taxpayer!Activity
      <4>3. activities' = [activities EXCEPT ![c] = [activities[c] EXCEPT !.enabled = ~@]]
        BY <3>1 DEF Taxpayer!SetEnabled
      <4> QED
        BY <1>0, <3>1, <4>2, <4>3 DEF Taxpayer!SetEnabled, Taxpayer!Deciding
    <3>2. CASE Taxpayer!UpsertProfile(c)
      BY <1>0, <3>2 DEF Taxpayer!UpsertProfile, Taxpayer!Profile
    <3> QED
      BY <1>6, <3>1, <3>2
  <2>3. UNCHANGED <<registry, company, createPc, createMem, verifyPc, verifyMem, choosePc,
                    chooseMem>>
    BY <1>6 DEF Taxpayer!SetEnabled, Taxpayer!UpsertProfile, Taxpayer!OperatorUnchanged
  <2> QED
    BY <1>0, <2>1, <2>2, <2>3 DEF Taxpayer!TypeOK
<1>7. CASE Taxpayer!RegistryChanges
  <2>1. changes' \in 0..MaxChanges
    BY <1>0, <1>7, CompanyConstants DEF Taxpayer!RegistryChanges, Taxpayer!Change
  <2>2. registry' \in Taxpayer!Registry
    <3>1. registry' \in {[registry EXCEPT !.found = ~@]} \cup
             {[registry EXCEPT !.status[c] = s] :
                c \in CodesOfCompany, s \in Taxpayer!HaciendaStatus \cup {Taxpayer!None}}
      BY <1>7 DEF Taxpayer!RegistryChanges
    <3>2. CASE registry' = [registry EXCEPT !.found = ~@]
      BY <1>0, <3>2 DEF Taxpayer!Registry
    <3>3. CASE \E c \in CodesOfCompany, s \in Taxpayer!HaciendaStatus \cup {Taxpayer!None} :
                  registry' = [registry EXCEPT !.status[c] = s]
      BY <1>0, <3>3, SMTT(30) DEF Taxpayer!Registry
    <3> QED
      BY <3>1, <3>2, <3>3
  <2>3. UNCHANGED <<company, createPc, createMem, activities, profile, verifyPc, verifyMem,
                    choosePc, chooseMem, disturbed>>
    BY <1>7 DEF Taxpayer!RegistryChanges, Taxpayer!OperatorUnchanged
  <2> QED
    BY <1>0, <2>1, <2>2, <2>3 DEF Taxpayer!TypeOK
<1> QED
  BY <1>1, <1>2, <1>4, <1>5, <1>6, <1>7 DEF Taxpayer!Next

\* Who creates the company finds that nobody has; whoever verifies it finds it there.
LEMMA CreationStep ==
    ASSUME Taxpayer!TypeOK, Taxpayer!CreatedOnce, CreationInOrder, Taxpayer!Next
    PROVE  Taxpayer!CreatedOnce' /\ CreationInOrder'
<1>0. /\ createPc \in [Creators -> {"check", "lookup", "save", "created", "refused"}]
      /\ createMem \in [Creators -> Taxpayer!Verified \cup {Taxpayer!None}]
      /\ verifyPc \in [Verifications -> {"ask", "persist", "profile", "default", "done"}]
  BY DEF Taxpayer!TypeOK
<1>1. ASSUME NEW c \in Creators, Taxpayer!CheckUniqueness(c) \/ Taxpayer!Lookup(c)
      PROVE  Taxpayer!CreatedOnce' /\ CreationInOrder'
  <2>1. /\ company' = company /\ verifyPc' = verifyPc
        /\ \A d \in Creators : createPc'[d] = "created" <=> createPc[d] = "created"
    BY <1>0, <1>1 DEF Taxpayer!CheckUniqueness, Taxpayer!Lookup, Taxpayer!CreateAt,
       Taxpayer!CreateUnchanged
  <2>2. \A d \in Creators : createPc'[d] = "save" => createMem'[d] # "NONE"
    BY <1>0, <1>1 DEF Taxpayer!CheckUniqueness, Taxpayer!Lookup, Taxpayer!CreateAt,
       CreationInOrder
  <2> QED
    BY <2>1, <2>2 DEF Taxpayer!CreatedOnce, CreationInOrder
<1>2. ASSUME NEW c \in Creators, Taxpayer!SaveCompany(c)
      PROVE  Taxpayer!CreatedOnce' /\ CreationInOrder'
  <2>1. /\ \A d \in Creators :
              d # c => createPc'[d] = createPc[d] /\ createMem'[d] = createMem[d]
        /\ createPc[c] = "save" /\ createMem[c] # "NONE" /\ verifyPc' = verifyPc
    BY <1>0, <1>2 DEF Taxpayer!SaveCompany, Taxpayer!CreateAt, Taxpayer!CreateUnchanged,
       CreationInOrder
  <2>2. CASE company = "NONE"
    <3>1. createPc'[c] = "created" /\ company' # "NONE"
      BY <1>0, <1>2, <2>1, <2>2 DEF Taxpayer!SaveCompany, Taxpayer!CreateAt, Taxpayer!None
    <3> QED
      BY <2>1, <2>2, <3>1 DEF Taxpayer!CreatedOnce, CreationInOrder, Taxpayer!None
  <2>3. CASE company # "NONE"
    <3>1. createPc'[c] = "refused" /\ company' = company
      BY <1>0, <1>2, <2>1, <2>3 DEF Taxpayer!SaveCompany, Taxpayer!CreateAt, Taxpayer!None
    <3> QED
      BY <2>1, <2>3, <3>1 DEF Taxpayer!CreatedOnce, CreationInOrder, Taxpayer!None
  <2> QED
    BY <2>2, <2>3
<1>3. ASSUME UNCHANGED <<createPc, createMem>>, company' = company \/ company' # "NONE",
             company = "NONE" => company' = company /\ verifyPc' = verifyPc
      PROVE  Taxpayer!CreatedOnce' /\ CreationInOrder'
  BY <1>3 DEF Taxpayer!CreatedOnce, CreationInOrder, Taxpayer!None
<1>4. ASSUME NEW v \in Verifications,
             \/ Taxpayer!Ask(v) \/ Taxpayer!AskFails(v) \/ Taxpayer!PersistNotFound(v)
             \/ Taxpayer!PersistActivities(v) \/ Taxpayer!ReadProfile(v)
             \/ Taxpayer!ReadNoProfile(v) \/ Taxpayer!SetDefault(v)
      PROVE  Taxpayer!CreatedOnce' /\ CreationInOrder'
  <2>1. company # "NONE"
    BY <1>4 DEF Taxpayer!Ask, Taxpayer!AskFails, Taxpayer!PersistNotFound,
       Taxpayer!PersistActivities, Taxpayer!ReadProfile, Taxpayer!ReadNoProfile,
       Taxpayer!SetDefault, Taxpayer!VerifyAt, CreationInOrder, Taxpayer!None
  <2>2. company' \in {company, "VERIFIED", "NOT_FOUND"} /\ UNCHANGED <<createPc, createMem>>
    BY <1>4 DEF Taxpayer!Ask, Taxpayer!AskFails, Taxpayer!PersistNotFound,
       Taxpayer!PersistActivities, Taxpayer!ReadProfile, Taxpayer!ReadNoProfile,
       Taxpayer!SetDefault, Taxpayer!VerifyUnchanged
  <2> QED
    BY <1>3, <2>1, <2>2
<1>5. ASSUME NEW d \in Choosers, Taxpayer!ChooseRead(d) \/ Taxpayer!ChooseWrite(d)
      PROVE  Taxpayer!CreatedOnce' /\ CreationInOrder'
  BY <1>3, <1>5 DEF Taxpayer!ChooseRead, Taxpayer!ChooseWrite, Taxpayer!OperatorUnchanged
<1>6. ASSUME NEW c \in CodesOfCompany, Taxpayer!SetEnabled(c) \/ Taxpayer!UpsertProfile(c)
      PROVE  Taxpayer!CreatedOnce' /\ CreationInOrder'
  BY <1>3, <1>6 DEF Taxpayer!SetEnabled, Taxpayer!UpsertProfile, Taxpayer!OperatorUnchanged
<1>7. CASE Taxpayer!RegistryChanges
  BY <1>3, <1>7 DEF Taxpayer!RegistryChanges, Taxpayer!OperatorUnchanged
<1> QED
  BY <1>1, <1>2, <1>4, <1>5, <1>6, <1>7 DEF Taxpayer!Next

\* What a verification still sees: it is disturbed by a step that changes the activities
\* once it has written them, or the default once it has read it.
LEMMA VerificationStep ==
    ASSUME Taxpayer!TypeOK, VerificationInOrder, Taxpayer!Next
    PROVE  VerificationInOrder'
<1>0. /\ verifyPc \in [Verifications -> {"ask", "persist", "profile", "default", "done"}]
      /\ verifyMem \in [Verifications ->
            [answer : Taxpayer!Registry, rows : [CodesOfCompany -> Taxpayer!Activity],
             profile : Taxpayer!Profile]]
      /\ profile \in Taxpayer!Profile
      /\ choosePc \in [Choosers -> {"read", "write", "done"}]
      /\ chooseMem \in [Choosers -> CodesOfCompany \cup {Taxpayer!None}]
  BY DEF Taxpayer!TypeOK
<1>1. ASSUME UNCHANGED <<activities, profile, verifyPc, verifyMem, disturbed>>,
             \A d \in Choosers :
                choosePc'[d] = "write" => choosePc[d] = "write" \/ profile.exists
      PROVE  VerificationInOrder'
  BY <1>1 DEF VerificationInOrder, AsAnswered
\* A step of one verification, which disturbs the others as far as it writes.
<1>2. ASSUME NEW v \in Verifications, UNCHANGED choosePc,
             profile'.exists = profile.exists,
             profile'.exists \/ profile'.default = "NONE",
             \A w \in Verifications \ {v} :
                verifyPc'[w] = verifyPc[w] /\ verifyMem'[w] = verifyMem[w],
             disturbed \ {v} \subseteq disturbed',
             UNCHANGED activities \/ Taxpayer!Deciding \ {v} \subseteq disturbed',
             UNCHANGED profile \/ Taxpayer!ProfileRead \ {v} \subseteq disturbed',
             verifyPc'[v] \in {"ask", "done"} => ~verifyMem'[v].answer.found,
             verifyPc'[v] = "default" => profile.exists,
             v \notin disturbed' /\ verifyPc'[v] \in {"profile", "default"} =>
                activities' = verifyMem'[v].rows
                /\ AsAnswered(activities', verifyMem'[v].answer),
             v \notin disturbed' /\ verifyPc'[v] = "default"
                => profile'.default = verifyMem'[v].profile.default
      PROVE  VerificationInOrder'
  <2>1. ASSUME NEW w \in Verifications \ {v}, w \notin disturbed',
               verifyPc[w] \in {"profile", "default"}
        PROVE  /\ w \notin disturbed /\ UNCHANGED activities
               /\ verifyPc[w] = "default" => UNCHANGED profile
    BY <1>2, <2>1 DEF Taxpayer!Deciding, Taxpayer!ProfileRead
  <2>2. ASSUME NEW w \in Verifications, w \notin disturbed'
        PROVE  /\ verifyPc'[w] \in {"profile", "default"} =>
                    /\ activities' = verifyMem'[w].rows
                    /\ AsAnswered(activities', verifyMem'[w].answer)
               /\ verifyPc'[w] = "default"
                    => profile'.default = verifyMem'[w].profile.default
    <3>1. CASE w = v
      BY <1>2, <2>2, <3>1
    <3>2. CASE w # v
      BY <1>2, <2>1, <2>2, <3>2 DEF VerificationInOrder
    <3> QED
      BY <3>1, <3>2
  <2>3. \A w \in Verifications :
           /\ verifyPc'[w] \in {"ask", "done"} => ~verifyMem'[w].answer.found
           /\ verifyPc'[w] = "default" => profile'.exists
    BY <1>2 DEF VerificationInOrder
  <2>4. \A d \in Choosers : choosePc'[d] = "write" => profile'.exists
    BY <1>2 DEF VerificationInOrder
  <2> QED
    BY <1>2, <2>2, <2>3, <2>4 DEF VerificationInOrder
\* A write of the operator disturbs the verifications that count on what it writes.
<1>3. ASSUME UNCHANGED <<verifyPc, verifyMem>>, disturbed \subseteq disturbed',
             UNCHANGED activities \/ Taxpayer!Deciding \subseteq disturbed',
             profile'.default = profile.default \/ Taxpayer!ProfileRead \subseteq disturbed',
             profile.exists => profile'.exists,
             profile'.exists \/ profile'.default = "NONE",
             \A d \in Choosers : choosePc'[d] = "write" => choosePc[d] = "write"
      PROVE  VerificationInOrder'
  <2>1. ASSUME NEW w \in Verifications, w \notin disturbed'
        PROVE  /\ verifyPc[w] \in {"profile", "default"} => UNCHANGED activities
               /\ verifyPc[w] = "default" => profile'.default = profile.default
    BY <1>3, <2>1 DEF Taxpayer!Deciding, Taxpayer!ProfileRead
  <2>2. ASSUME NEW w \in Verifications, w \notin disturbed'
        PROVE  /\ verifyPc'[w] \in {"profile", "default"} =>
                    /\ activities' = verifyMem'[w].rows
                    /\ AsAnswered(activities', verifyMem'[w].answer)
               /\ verifyPc'[w] = "default"
                    => profile'.default = verifyMem'[w].profile.default
    BY <1>3, <2>1, <2>2 DEF VerificationInOrder
  <2> QED
    BY <1>3, <2>2 DEF VerificationInOrder
<1>4. ASSUME NEW c \in Creators,
             Taxpayer!CheckUniqueness(c) \/ Taxpayer!Lookup(c) \/ Taxpayer!SaveCompany(c)
      PROVE  VerificationInOrder'
  <2>1. UNCHANGED <<activities, profile, verifyPc, verifyMem, disturbed, choosePc>>
    BY <1>4 DEF Taxpayer!CheckUniqueness, Taxpayer!Lookup, Taxpayer!SaveCompany,
       Taxpayer!CreateUnchanged
  <2> QED
    BY <1>1, <2>1
<1>5. ASSUME NEW v \in Verifications,
             \/ Taxpayer!Ask(v) \/ Taxpayer!AskFails(v) \/ Taxpayer!PersistNotFound(v)
             \/ Taxpayer!PersistActivities(v) \/ Taxpayer!ReadProfile(v)
             \/ Taxpayer!ReadNoProfile(v) \/ Taxpayer!SetDefault(v)
      PROVE  VerificationInOrder'
  <2>0. /\ UNCHANGED choosePc
        /\ \A w \in Verifications \ {v} :
              verifyPc'[w] = verifyPc[w] /\ verifyMem'[w] = verifyMem[w]
    BY <1>0, <1>5 DEF Taxpayer!Ask, Taxpayer!AskFails, Taxpayer!PersistNotFound,
       Taxpayer!PersistActivities, Taxpayer!ReadProfile, Taxpayer!ReadNoProfile,
       Taxpayer!SetDefault, Taxpayer!VerifyAt, Taxpayer!VerifyUnchanged, Taxpayer!Forget
  <2>1. ASSUME Taxpayer!Forget(v) PROVE ~verifyMem'[v].answer.found
    BY <1>0, <2>1 DEF Taxpayer!Forget, Taxpayer!Forgotten, Taxpayer!NoAnswer
  <2>2. profile.exists \/ profile.default = "NONE"
    BY DEF VerificationInOrder
  <2>3. CASE Taxpayer!Ask(v)
    <3>1. verifyPc'[v] = "persist" /\ UNCHANGED <<activities, profile, disturbed>>
      BY <1>0, <2>3 DEF Taxpayer!Ask, Taxpayer!VerifyAt
    <3> QED
      BY <1>2, <2>0, <2>2, <3>1
  <2>4. CASE Taxpayer!AskFails(v)
    <3>1. /\ verifyPc[v] = "ask" /\ verifyPc'[v] = "done"
          /\ UNCHANGED <<activities, profile, disturbed, verifyMem>>
      BY <1>0, <2>4 DEF Taxpayer!AskFails, Taxpayer!VerifyAt
    <3>2. ~verifyMem[v].answer.found
      BY <3>1 DEF VerificationInOrder
    <3> QED
      BY <1>2, <2>0, <2>2, <3>1, <3>2
  <2>5. CASE Taxpayer!PersistNotFound(v)
    <3>1. /\ verifyPc'[v] = "done" /\ Taxpayer!Forget(v)
          /\ UNCHANGED <<activities, profile, disturbed>>
      BY <1>0, <2>5 DEF Taxpayer!PersistNotFound, Taxpayer!VerifyAt
    <3> QED
      BY <1>2, <2>0, <2>1, <2>2, <3>1
  <2>6. CASE Taxpayer!PersistActivities(v)
    <3>1. /\ verifyPc'[v] = "profile" /\ UNCHANGED profile
          /\ disturbed' = disturbed \cup Taxpayer!Deciding
          /\ activities' = Taxpayer!Updated(verifyMem[v].answer)
      BY <1>0, <2>6 DEF Taxpayer!PersistActivities, Taxpayer!VerifyAt
    <3>2. verifyMem'[v].rows = activities' /\ verifyMem'[v].answer = verifyMem[v].answer
      BY <1>0, <2>6 DEF Taxpayer!PersistActivities
    <3>3. AsAnswered(Taxpayer!Updated(verifyMem[v].answer), verifyMem[v].answer)
      BY <1>0, UpdatedAsAnswered
    <3>4. AsAnswered(activities', verifyMem'[v].answer)
      BY <3>1, <3>2, <3>3
    <3> QED
      BY <1>2, <2>0, <2>2, <3>1, <3>2, <3>4
  <2>7. CASE Taxpayer!ReadProfile(v)
    <3>1. /\ verifyPc[v] = "profile" /\ verifyPc'[v] = "default"
          /\ UNCHANGED <<activities, profile, disturbed>> /\ profile.exists
      BY <1>0, <2>7 DEF Taxpayer!ReadProfile, Taxpayer!VerifyAt
    <3>2. /\ verifyMem'[v].rows = verifyMem[v].rows
          /\ verifyMem'[v].answer = verifyMem[v].answer
          /\ verifyMem'[v].profile = profile
      BY <1>0, <2>7 DEF Taxpayer!ReadProfile
    <3>3. v \notin disturbed' =>
            activities' = verifyMem'[v].rows /\ AsAnswered(activities', verifyMem'[v].answer)
      BY <3>1, <3>2 DEF VerificationInOrder
    <3> QED
      BY <1>2, <2>0, <2>2, <3>1, <3>2, <3>3
  <2>8. CASE Taxpayer!ReadNoProfile(v)
    <3>1. /\ verifyPc'[v] = "done" /\ Taxpayer!Forget(v) /\ UNCHANGED <<activities, profile>>
          /\ disturbed' = disturbed \ {v}
      BY <1>0, <2>8 DEF Taxpayer!ReadNoProfile, Taxpayer!VerifyAt
    <3> QED
      BY <1>2, <2>0, <2>1, <2>2, <3>1
  <2>9. CASE Taxpayer!SetDefault(v)
    <3>1. /\ verifyPc[v] = "default" /\ verifyPc'[v] = "done" /\ Taxpayer!Forget(v)
          /\ UNCHANGED activities
          /\ disturbed' = (disturbed \cup (IF profile' = profile THEN {}
                                           ELSE Taxpayer!ProfileRead)) \ {v}
      BY <1>0, <2>9 DEF Taxpayer!SetDefault, Taxpayer!VerifyAt
    <3>2. profile'.exists = profile.exists
      BY <1>0, <2>9 DEF Taxpayer!SetDefault, Taxpayer!Profile
    <3>3. profile.exists
      BY <3>1 DEF VerificationInOrder
    <3>4. ~verifyMem'[v].answer.found
      BY <2>1, <3>1
    <3>5. /\ disturbed \ {v} \subseteq disturbed'
          /\ UNCHANGED profile \/ Taxpayer!ProfileRead \ {v} \subseteq disturbed'
      BY <3>1
    <3> QED
      BY <1>2, <2>0, <3>1, <3>2, <3>3, <3>4, <3>5
  <2> QED
    BY <1>5, <2>3, <2>4, <2>5, <2>6, <2>7, <2>8, <2>9
<1>6. ASSUME NEW d \in Choosers, Taxpayer!ChooseRead(d) PROVE VerificationInOrder'
  <2>1. UNCHANGED <<activities, profile, verifyPc, verifyMem, disturbed>>
    BY <1>6 DEF Taxpayer!ChooseRead, Taxpayer!OperatorUnchanged
  <2>2. \A e \in Choosers : choosePc'[e] = "write" => choosePc[e] = "write" \/ profile.exists
    BY <1>0, <1>6 DEF Taxpayer!ChooseRead
  <2> QED
    BY <1>1, <2>1, <2>2
<1>7. ASSUME NEW d \in Choosers, Taxpayer!ChooseWrite(d) PROVE VerificationInOrder'
  <2>1. /\ UNCHANGED <<verifyPc, verifyMem, activities>>
        /\ disturbed' = disturbed \cup Taxpayer!ProfileRead
    BY <1>7 DEF Taxpayer!ChooseWrite, Taxpayer!OperatorUnchanged
  <2>2. profile'.exists /\ \A e \in Choosers : choosePc'[e] = "write" => choosePc[e] = "write"
    BY <1>0, <1>7 DEF Taxpayer!ChooseWrite, Taxpayer!Profile, VerificationInOrder
  <2> QED
    BY <1>3, <2>1, <2>2
<1>8. ASSUME NEW c \in CodesOfCompany, Taxpayer!SetEnabled(c) PROVE VerificationInOrder'
  <2>1. /\ UNCHANGED <<verifyPc, verifyMem, choosePc, profile>>
        /\ disturbed' = disturbed \cup Taxpayer!Deciding
    BY <1>8 DEF Taxpayer!SetEnabled, Taxpayer!OperatorUnchanged
  <2> QED
    BY <1>3, <2>1 DEF VerificationInOrder
<1>10. ASSUME NEW c \in CodesOfCompany, Taxpayer!UpsertProfile(c) PROVE VerificationInOrder'
  <2>1. UNCHANGED <<verifyPc, verifyMem, choosePc, activities, disturbed>>
    BY <1>10 DEF Taxpayer!UpsertProfile, Taxpayer!OperatorUnchanged
  <2>2. profile'.default = profile.default /\ profile'.exists
    BY <1>0, <1>10 DEF Taxpayer!UpsertProfile, Taxpayer!Profile
  <2> QED
    BY <1>3, <2>1, <2>2
<1>9. CASE Taxpayer!RegistryChanges
  <2>1. UNCHANGED <<activities, profile, verifyPc, verifyMem, disturbed, choosePc>>
    BY <1>9 DEF Taxpayer!RegistryChanges, Taxpayer!OperatorUnchanged
  <2> QED
    BY <1>1, <2>1
<1> QED
  BY <1>4, <1>5, <1>6, <1>7, <1>8, <1>9, <1>10 DEF Taxpayer!Next

\* A default that is chosen is valid, or none where the operator has to choose.
LEMMA DefaultIsValid ==
    ASSUME NEW rows_, NEW before \in Taxpayer!Profile,
           NEW after \in Taxpayer!DefaultOf(rows_, before)
    PROVE  /\ after.default \in Taxpayer!ValidActive(rows_) \cup {"NONE"}
           /\ after.default = "NONE" =>
                 ~\E c \in CodesOfCompany : Taxpayer!ValidActive(rows_) = {c}
<1>0. "NONE" \notin CodesOfCompany
  BY CompanyConstants DEF None
<1>1. CASE Taxpayer!Valid(rows_, before.default)
  <2>1. after = before /\ before.default \in CodesOfCompany
    BY <1>1 DEF Taxpayer!DefaultOf, Taxpayer!Profile, Taxpayer!Valid
  <2> QED
    BY <1>0, <1>1, <2>1 DEF Taxpayer!ValidActive, Taxpayer!None
<1>2. CASE /\ ~Taxpayer!Valid(rows_, before.default)
           /\ \E c \in CodesOfCompany : Taxpayer!ValidActive(rows_) = {c}
  <2>1. PICK c \in Taxpayer!ValidActive(rows_) :
           after = [before EXCEPT !.default = c, !.code = c]
    BY <1>2 DEF Taxpayer!DefaultOf
  <2>2. after.default = c /\ c \in CodesOfCompany
    BY <2>1 DEF Taxpayer!Profile, Taxpayer!ValidActive
  <2> QED
    BY <1>0, <2>1, <2>2
<1>3. CASE /\ ~Taxpayer!Valid(rows_, before.default)
           /\ ~\E c \in CodesOfCompany : Taxpayer!ValidActive(rows_) = {c}
  <2>1. after = [before EXCEPT !.default = Taxpayer!None]
    BY <1>3 DEF Taxpayer!DefaultOf
  <2>2. after.default = "NONE"
    BY <2>1 DEF Taxpayer!Profile, Taxpayer!None
  <2> QED
    BY <1>3, <2>2
<1> QED
  BY <1>1, <1>2, <1>3

\* What the end of an undisturbed verification leaves.
EndsComplete(v) ==
    \/ verifyPc[v] = "done" \/ verifyPc'[v] # "done"
    \/ v \in disturbed \/ ~verifyMem[v].answer.found
    \/ /\ AsAnswered(activities, verifyMem[v].answer)
       /\ (profile.default)' \in Taxpayer!ValidActive(activities) \cup {"NONE"}
       /\ (profile.default)' = "NONE" /\ profile.exists => ~Taxpayer!ActivitiesReady'

\* A verification that ends undisturbed leaves the rows and the default it should.
LEMMA VerificationEnds ==
    ASSUME TaxpayerOrder, Taxpayer!Next, NEW v \in Verifications
    PROVE  EndsComplete(v)
<1>0. /\ verifyPc \in [Verifications -> {"ask", "persist", "profile", "default", "done"}]
      /\ verifyMem \in [Verifications ->
            [answer : Taxpayer!Registry, rows : [CodesOfCompany -> Taxpayer!Activity],
             profile : Taxpayer!Profile]]
      /\ profile \in Taxpayer!Profile /\ VerificationInOrder
  BY DEF TaxpayerOrder, Taxpayer!TypeOK
<1>1. SUFFICES ASSUME verifyPc[v] # "done", verifyPc'[v] = "done", v \notin disturbed,
                      verifyMem[v].answer.found
               PROVE  EndsComplete(v)
  BY DEF EndsComplete
<1>2. verifyPc[v] # "ask"
  BY <1>1 DEF VerificationInOrder, TaxpayerOrder
<1>3. Taxpayer!ReadNoProfile(v) \/ Taxpayer!SetDefault(v)
  <2>1. CASE verifyPc' = verifyPc
    BY <1>1, <2>1
  <2>3. ASSUME NEW w \in Verifications,
               \/ Taxpayer!Ask(w) \/ Taxpayer!AskFails(w) \/ Taxpayer!PersistNotFound(w)
               \/ Taxpayer!PersistActivities(w) \/ Taxpayer!ReadProfile(w)
               \/ Taxpayer!ReadNoProfile(w) \/ Taxpayer!SetDefault(w)
        PROVE  w = v
    BY <1>0, <1>1, <2>3 DEF Taxpayer!Ask, Taxpayer!AskFails, Taxpayer!PersistNotFound,
       Taxpayer!PersistActivities, Taxpayer!ReadProfile, Taxpayer!ReadNoProfile,
       Taxpayer!SetDefault, Taxpayer!VerifyAt
  <2>4. ~(\/ Taxpayer!Ask(v) \/ Taxpayer!AskFails(v) \/ Taxpayer!PersistNotFound(v)
          \/ Taxpayer!PersistActivities(v) \/ Taxpayer!ReadProfile(v))
    BY <1>0, <1>1, <1>2 DEF Taxpayer!Ask, Taxpayer!AskFails, Taxpayer!PersistNotFound,
       Taxpayer!PersistActivities, Taxpayer!ReadProfile, Taxpayer!VerifyAt
  <2>5. ASSUME NEW c \in Creators,
               Taxpayer!CheckUniqueness(c) \/ Taxpayer!Lookup(c) \/ Taxpayer!SaveCompany(c)
        PROVE  verifyPc' = verifyPc
    BY <2>5 DEF Taxpayer!CheckUniqueness, Taxpayer!Lookup, Taxpayer!SaveCompany,
       Taxpayer!CreateUnchanged
  <2>6. ASSUME NEW d \in Choosers, Taxpayer!ChooseRead(d) PROVE verifyPc' = verifyPc
    BY <2>6 DEF Taxpayer!ChooseRead, Taxpayer!OperatorUnchanged
  <2>7. ASSUME NEW d \in Choosers, Taxpayer!ChooseWrite(d) PROVE verifyPc' = verifyPc
    BY <2>7 DEF Taxpayer!ChooseWrite, Taxpayer!OperatorUnchanged
  <2>8. ASSUME NEW c \in CodesOfCompany, Taxpayer!SetEnabled(c) \/ Taxpayer!UpsertProfile(c)
        PROVE  verifyPc' = verifyPc
    BY <2>8 DEF Taxpayer!SetEnabled, Taxpayer!UpsertProfile, Taxpayer!OperatorUnchanged
  <2>9. ASSUME Taxpayer!RegistryChanges PROVE verifyPc' = verifyPc
    BY <2>9 DEF Taxpayer!RegistryChanges, Taxpayer!OperatorUnchanged
  <2> QED
    BY <2>1, <2>3, <2>4, <2>5, <2>6, <2>7, <2>8, <2>9 DEF Taxpayer!Next
<1>4. /\ activities = verifyMem[v].rows
      /\ AsAnswered(activities, verifyMem[v].answer)
      /\ verifyPc[v] = "default" => profile.default = verifyMem[v].profile.default
  BY <1>0, <1>1, <1>3 DEF VerificationInOrder, Taxpayer!ReadNoProfile, Taxpayer!SetDefault,
     Taxpayer!VerifyAt
<1>5. CASE Taxpayer!ReadNoProfile(v)
  <2>1. ~profile.exists /\ profile' = profile /\ profile.default = "NONE"
    BY <1>0, <1>5 DEF Taxpayer!ReadNoProfile, VerificationInOrder
  <2> QED
    BY <1>4, <2>1 DEF EndsComplete
<1>6. CASE Taxpayer!SetDefault(v)
  <2> DEFINE before == verifyMem[v].profile
  <2>0. profile.default = before.default /\ before \in Taxpayer!Profile
        /\ activities' = activities
    BY <1>0, <1>4, <1>6 DEF Taxpayer!SetDefault, Taxpayer!VerifyAt
  <2>1. PICK after \in Taxpayer!DefaultOf(activities, before) :
           profile' = [profile EXCEPT
                  !.default = IF after.default = before.default THEN @ ELSE after.default,
                  !.code = IF after.default \in {before.default, Taxpayer!None}
                           THEN @ ELSE after.code]
    BY <1>4, <1>6 DEF Taxpayer!SetDefault
  <2>2. profile'.default = after.default
    BY <1>0, <2>0, <2>1 DEF Taxpayer!Profile
  <2>3. /\ after.default \in Taxpayer!ValidActive(activities) \cup {"NONE"}
        /\ after.default = "NONE" =>
              ~\E c \in CodesOfCompany : Taxpayer!ValidActive(activities) = {c}
    BY <1>0, <2>0, <2>1, DefaultIsValid
  <2>4. profile'.default = "NONE" => ~Taxpayer!ActivitiesReady'
    BY <2>0, <2>2, <2>3 DEF Taxpayer!ActivitiesReady, Taxpayer!None, Taxpayer!ValidActive,
       Taxpayer!Valid
  <2> QED
    BY <1>4, <2>2, <2>3, <2>4 DEF EndsComplete
<1> QED
  BY <1>3, <1>5, <1>6

\* Only SetActivityBillingEnabledHandler enables an activity that was known.
LEMMA EnablingIsCounted ==
    ASSUME Taxpayer!TypeOK, Taxpayer!Next, NEW c \in CodesOfCompany,
           activities[c].status # "NONE", ~activities[c].enabled, (activities[c].enabled)'
    PROVE  changes' = changes + 1
<1>0. /\ activities \in [CodesOfCompany -> Taxpayer!Activity]
      /\ activities[c] \in Taxpayer!Activity
  BY DEF Taxpayer!TypeOK
<1>1. activities' # activities
  OBVIOUS
<1>2. ASSUME NEW v \in Verifications, Taxpayer!PersistActivities(v) PROVE FALSE
  <2>1. activities'[c] = Taxpayer!Updated(verifyMem[v].answer)[c]
    BY <1>2 DEF Taxpayer!PersistActivities
  <2>2. activities'[c].enabled <=> activities[c].enabled
    BY <1>0, <2>1 DEF Taxpayer!Updated, Taxpayer!Activity, Taxpayer!None
  <2> QED
    BY <2>2
<1>3. ASSUME NEW d \in CodesOfCompany, Taxpayer!SetEnabled(d) PROVE changes' = changes + 1
  BY <1>3 DEF Taxpayer!SetEnabled, Taxpayer!Change
<1>4. ASSUME \/ \E d \in Creators :
                   Taxpayer!CheckUniqueness(d) \/ Taxpayer!Lookup(d) \/ Taxpayer!SaveCompany(d)
             \/ \E v \in Verifications :
                   \/ Taxpayer!Ask(v) \/ Taxpayer!AskFails(v) \/ Taxpayer!PersistNotFound(v)
                   \/ Taxpayer!ReadProfile(v) \/ Taxpayer!ReadNoProfile(v)
                   \/ Taxpayer!SetDefault(v)
      PROVE  activities' = activities
  BY <1>4 DEF Taxpayer!CheckUniqueness, Taxpayer!Lookup, Taxpayer!SaveCompany,
     Taxpayer!CreateUnchanged, Taxpayer!Ask, Taxpayer!AskFails, Taxpayer!PersistNotFound,
     Taxpayer!ReadProfile, Taxpayer!ReadNoProfile, Taxpayer!SetDefault
<1>5. ASSUME NEW d \in Choosers, Taxpayer!ChooseRead(d) PROVE activities' = activities
  BY <1>5 DEF Taxpayer!ChooseRead
<1>6. ASSUME NEW d \in Choosers, Taxpayer!ChooseWrite(d) PROVE activities' = activities
  BY <1>6 DEF Taxpayer!ChooseWrite
<1>7. ASSUME NEW d \in CodesOfCompany, Taxpayer!UpsertProfile(d) PROVE activities' = activities
  BY <1>7 DEF Taxpayer!UpsertProfile
<1>8. ASSUME Taxpayer!RegistryChanges PROVE activities' = activities
  BY <1>8 DEF Taxpayer!RegistryChanges
<1> QED
  BY <1>1, <1>2, <1>3, <1>4, <1>5, <1>6, <1>7, <1>8 DEF Taxpayer!Next

\* What a company has it keeps: no step deletes an activity.
LEMMA ActivitiesStay ==
    ASSUME Taxpayer!TypeOK, Taxpayer!Next, NEW c \in CodesOfCompany, Taxpayer!Exists(c)
    PROVE  Taxpayer!Exists(c)'
<1>0. /\ activities \in [CodesOfCompany -> Taxpayer!Activity]
      /\ activities[c] \in Taxpayer!Activity
  BY DEF Taxpayer!TypeOK
<1>1. CASE UNCHANGED activities
  BY <1>1 DEF Taxpayer!Exists
<1>2. ASSUME NEW v \in Verifications, Taxpayer!PersistActivities(v)
      PROVE  Taxpayer!Exists(c)'
  <2>1. activities'[c] = Taxpayer!Updated(verifyMem[v].answer)[c]
    BY <1>2 DEF Taxpayer!PersistActivities
  <2>2. activities'[c].status # Taxpayer!None
    BY <1>0, <2>1 DEF Taxpayer!Updated, Taxpayer!Activity, Taxpayer!None, Taxpayer!Exists
  <2> QED
    BY <2>2 DEF Taxpayer!Exists
<1>3. ASSUME NEW d \in CodesOfCompany, Taxpayer!SetEnabled(d) PROVE Taxpayer!Exists(c)'
  <2>1. activities' = [activities EXCEPT ![d].enabled = ~@]
    BY <1>3 DEF Taxpayer!SetEnabled
  <2>2. activities'[c].status = activities[c].status
    BY <1>0, <2>1 DEF Taxpayer!Activity
  <2> QED
    BY <2>2 DEF Taxpayer!Exists
<1>4. ASSUME \/ \E d \in Creators :
                   Taxpayer!CheckUniqueness(d) \/ Taxpayer!Lookup(d) \/ Taxpayer!SaveCompany(d)
             \/ \E v \in Verifications :
                   \/ Taxpayer!Ask(v) \/ Taxpayer!AskFails(v) \/ Taxpayer!PersistNotFound(v)
                   \/ Taxpayer!ReadProfile(v) \/ Taxpayer!ReadNoProfile(v)
                   \/ Taxpayer!SetDefault(v)
      PROVE  UNCHANGED activities
  BY <1>4 DEF Taxpayer!CheckUniqueness, Taxpayer!Lookup, Taxpayer!SaveCompany,
     Taxpayer!CreateUnchanged, Taxpayer!Ask, Taxpayer!AskFails, Taxpayer!PersistNotFound,
     Taxpayer!ReadProfile, Taxpayer!ReadNoProfile, Taxpayer!SetDefault
<1>5. ASSUME NEW d \in Choosers, Taxpayer!ChooseRead(d) PROVE UNCHANGED activities
  BY <1>5 DEF Taxpayer!ChooseRead
<1>6. ASSUME NEW d \in Choosers, Taxpayer!ChooseWrite(d) PROVE UNCHANGED activities
  BY <1>6 DEF Taxpayer!ChooseWrite
<1>7. ASSUME NEW d \in CodesOfCompany, Taxpayer!UpsertProfile(d) PROVE UNCHANGED activities
  BY <1>7 DEF Taxpayer!UpsertProfile
<1>8. ASSUME Taxpayer!RegistryChanges PROVE UNCHANGED activities
  BY <1>8 DEF Taxpayer!RegistryChanges
<1> QED
  BY <1>1, <1>2, <1>3, <1>4, <1>5, <1>6, <1>7, <1>8 DEF Taxpayer!Next

\* Whoever verifies in between, what becomes the default is an activity of the company.
LEMMA OwnStep ==
    ASSUME Taxpayer!TypeOK, VerificationInOrder, ChoiceInOrder, Taxpayer!DefaultIsOwn,
           Taxpayer!Next
    PROVE  Taxpayer!DefaultIsOwn' /\ ChoiceInOrder'
<1>0. /\ verifyPc \in [Verifications -> {"ask", "persist", "profile", "default", "done"}]
      /\ verifyMem \in [Verifications ->
            [answer : Taxpayer!Registry, rows : [CodesOfCompany -> Taxpayer!Activity],
             profile : Taxpayer!Profile]]
      /\ profile \in Taxpayer!Profile
      /\ choosePc \in [Choosers -> {"read", "write", "done"}]
      /\ chooseMem \in [Choosers -> CodesOfCompany \cup {Taxpayer!None}]
      /\ activities \in [CodesOfCompany -> Taxpayer!Activity]
  BY DEF Taxpayer!TypeOK
<1>s. \A c \in CodesOfCompany : Taxpayer!Exists(c) => Taxpayer!Exists(c)'
  BY ActivitiesStay
\* Each part survives a step that leaves what it speaks of.
<1>p. ASSUME UNCHANGED profile
      PROVE  profile'.default # Taxpayer!None
                => profile'.exists /\ Taxpayer!Exists(profile.default)'
  <2>1. profile.default # Taxpayer!None =>
           /\ profile.default \in CodesOfCompany /\ profile.exists
           /\ Taxpayer!Exists(profile.default)
    BY <1>0 DEF Taxpayer!Profile, Taxpayer!DefaultIsOwn
  <2> QED
    BY <1>p, <1>s, <2>1
<1>c. ASSUME UNCHANGED <<choosePc, chooseMem>>
      PROVE  \A d \in Choosers : choosePc'[d] = "write" =>
                chooseMem'[d] \in CodesOfCompany /\ Taxpayer!Exists(chooseMem[d])'
  BY <1>c, <1>s DEF Taxpayer!DefaultIsOwn, ChoiceInOrder
<1>v. ASSUME NEW v \in Verifications,
             verifyPc'[v] = verifyPc[v], verifyMem'[v] = verifyMem[v],
             v \in Taxpayer!Deciding', NEW c \in CodesOfCompany,
             verifyMem'[v].rows[c].status # Taxpayer!None
      PROVE  Taxpayer!Exists(c)'
  <2>1. v \in Taxpayer!Deciding /\ verifyMem[v].rows[c].status # Taxpayer!None
    BY <1>v DEF Taxpayer!Deciding
  <2> QED
    BY <1>s, <2>1 DEF Taxpayer!DefaultIsOwn
<1>1. ASSUME NEW v \in Verifications,
             \/ Taxpayer!Ask(v) \/ Taxpayer!AskFails(v) \/ Taxpayer!PersistNotFound(v)
             \/ Taxpayer!PersistActivities(v) \/ Taxpayer!ReadProfile(v)
             \/ Taxpayer!ReadNoProfile(v) \/ Taxpayer!SetDefault(v)
      PROVE  Taxpayer!DefaultIsOwn' /\ ChoiceInOrder'
  <2>1. /\ UNCHANGED <<choosePc, chooseMem>>
        /\ \A w \in Verifications \ {v} :
              verifyPc'[w] = verifyPc[w] /\ verifyMem'[w] = verifyMem[w]
    BY <1>0, <1>1 DEF Taxpayer!Ask, Taxpayer!AskFails, Taxpayer!PersistNotFound,
       Taxpayer!PersistActivities, Taxpayer!ReadProfile, Taxpayer!ReadNoProfile,
       Taxpayer!SetDefault, Taxpayer!VerifyAt, Taxpayer!VerifyUnchanged, Taxpayer!Forget
  <2>2. ASSUME v \in Taxpayer!Deciding', NEW c \in CodesOfCompany,
               verifyMem'[v].rows[c].status # Taxpayer!None
        PROVE  Taxpayer!Exists(c)'
    <3>1. CASE Taxpayer!PersistActivities(v)
      <4>1. verifyMem'[v].rows = activities'
        BY <1>0, <3>1 DEF Taxpayer!PersistActivities
      <4> QED
        BY <2>2, <4>1 DEF Taxpayer!Exists
    <3>2. CASE Taxpayer!ReadProfile(v)
      <4>1. v \in Taxpayer!Deciding /\ verifyMem'[v].rows = verifyMem[v].rows
        BY <1>0, <3>2 DEF Taxpayer!ReadProfile, Taxpayer!VerifyAt, Taxpayer!Deciding
      <4> QED
        BY <1>s, <2>2, <4>1 DEF Taxpayer!DefaultIsOwn
    <3>3. CASE \/ Taxpayer!Ask(v) \/ Taxpayer!AskFails(v) \/ Taxpayer!PersistNotFound(v)
               \/ Taxpayer!ReadNoProfile(v) \/ Taxpayer!SetDefault(v)
      <4>1. v \notin Taxpayer!Deciding'
        BY <1>0, <3>3 DEF Taxpayer!Ask, Taxpayer!AskFails, Taxpayer!PersistNotFound,
           Taxpayer!ReadNoProfile, Taxpayer!SetDefault, Taxpayer!VerifyAt, Taxpayer!Deciding
      <4> QED
        BY <2>2, <4>1
    <3> QED
      BY <1>1, <3>1, <3>2, <3>3
  <2>3. profile'.default # Taxpayer!None
          => profile'.exists /\ Taxpayer!Exists(profile.default)'
    <3>1. CASE Taxpayer!SetDefault(v)
      <4> DEFINE before == verifyMem[v].profile
      <4>1. PICK after \in Taxpayer!DefaultOf(verifyMem[v].rows, before) :
               profile' = [profile EXCEPT
                  !.default = IF after.default = before.default THEN @ ELSE after.default,
                  !.code = IF after.default \in {before.default, Taxpayer!None}
                           THEN @ ELSE after.code]
        BY <3>1 DEF Taxpayer!SetDefault
      <4>2. /\ profile'.exists = profile.exists /\ profile.exists /\ v \in Taxpayer!Deciding
            /\ profile'.default = IF after.default = before.default THEN profile.default
                                  ELSE after.default
            /\ before \in Taxpayer!Profile
        BY <1>0, <3>1, <4>1 DEF Taxpayer!Profile, VerificationInOrder, Taxpayer!SetDefault,
           Taxpayer!VerifyAt, Taxpayer!Deciding
      <4>3. CASE after.default = before.default
        <5>1. profile'.default = profile.default
          BY <4>2, <4>3
        <5>2. profile.default # Taxpayer!None =>
                 profile.default \in CodesOfCompany /\ Taxpayer!Exists(profile.default)
          BY <1>0 DEF Taxpayer!Profile, Taxpayer!DefaultIsOwn
        <5> QED
          BY <1>s, <4>2, <5>1, <5>2
      <4>4. CASE \E c \in CodesOfCompany :
                    /\ after = [before EXCEPT !.default = c, !.code = c]
                    /\ verifyMem[v].rows[c].status = "A"
        <5>1. PICK c \in CodesOfCompany :
                 after.default = c /\ verifyMem[v].rows[c].status = "A"
          BY <4>2, <4>4 DEF Taxpayer!Profile
        <5>2. Taxpayer!Exists(c)'
          BY <1>s, <4>2, <5>1 DEF Taxpayer!DefaultIsOwn, Taxpayer!None
        <5>3. CASE after.default # before.default
          BY <4>2, <5>1, <5>2, <5>3
        <5> QED
          BY <4>3, <5>3
      <4>5. CASE after = [before EXCEPT !.default = Taxpayer!None]
        <5>1. after.default = Taxpayer!None
          BY <4>2, <4>5 DEF Taxpayer!Profile
        <5> QED
          BY <4>2, <4>3, <5>1
      <4>6. after = before \/ (\E c \in CodesOfCompany :
                    /\ after = [before EXCEPT !.default = c, !.code = c]
                    /\ verifyMem[v].rows[c].status = "A")
            \/ after = [before EXCEPT !.default = Taxpayer!None]
        BY <4>1 DEF Taxpayer!DefaultOf, Taxpayer!ValidActive, Taxpayer!Valid
      <4> QED
        BY <4>3, <4>4, <4>5, <4>6
    <3>2. CASE ~Taxpayer!SetDefault(v)
      <4>1. UNCHANGED profile
        BY <1>1, <3>2 DEF Taxpayer!Ask, Taxpayer!AskFails, Taxpayer!PersistNotFound,
           Taxpayer!PersistActivities, Taxpayer!ReadProfile, Taxpayer!ReadNoProfile
      <4> QED
        BY <1>p, <4>1
    <3> QED
      BY <3>1, <3>2
  <2>4. \A w \in Taxpayer!Deciding', c \in CodesOfCompany :
           verifyMem'[w].rows[c].status # Taxpayer!None => Taxpayer!Exists(c)'
    BY <1>v, <2>1, <2>2 DEF Taxpayer!Deciding
  <2> QED
    BY <1>c, <2>1, <2>3, <2>4 DEF Taxpayer!DefaultIsOwn, ChoiceInOrder
<1>2. ASSUME UNCHANGED <<verifyPc, verifyMem>>,
             profile'.default # Taxpayer!None
                => profile'.exists /\ Taxpayer!Exists(profile.default)',
             \A d \in Choosers : choosePc'[d] = "write" =>
                chooseMem'[d] \in CodesOfCompany /\ Taxpayer!Exists(chooseMem[d])'
      PROVE  Taxpayer!DefaultIsOwn' /\ ChoiceInOrder'
  <2>1. \A w \in Taxpayer!Deciding', c \in CodesOfCompany :
           verifyMem'[w].rows[c].status # Taxpayer!None => Taxpayer!Exists(c)'
    BY <1>2, <1>v DEF Taxpayer!Deciding
  <2> QED
    BY <1>2, <2>1 DEF Taxpayer!DefaultIsOwn, ChoiceInOrder
<1>3. ASSUME NEW c \in Creators,
             Taxpayer!CheckUniqueness(c) \/ Taxpayer!Lookup(c) \/ Taxpayer!SaveCompany(c)
      PROVE  Taxpayer!DefaultIsOwn' /\ ChoiceInOrder'
  <2>1. UNCHANGED <<profile, verifyPc, verifyMem, choosePc, chooseMem>>
    BY <1>3 DEF Taxpayer!CheckUniqueness, Taxpayer!Lookup, Taxpayer!SaveCompany,
       Taxpayer!CreateUnchanged
  <2> QED
    BY <1>2, <1>c, <1>p, <2>1
<1>4. ASSUME NEW d \in Choosers, Taxpayer!ChooseRead(d)
      PROVE  Taxpayer!DefaultIsOwn' /\ ChoiceInOrder'
  <2>1. UNCHANGED <<profile, verifyPc, verifyMem, activities>>
    BY <1>4 DEF Taxpayer!ChooseRead, Taxpayer!OperatorUnchanged
  <2>2. PICK c \in CodesOfCompany :
           /\ chooseMem' = [chooseMem EXCEPT ![d] =
                 IF Taxpayer!Valid(activities, c) /\ profile.exists THEN c ELSE Taxpayer!None]
           /\ choosePc' = [choosePc EXCEPT ![d] =
                 IF Taxpayer!Valid(activities, c) /\ profile.exists THEN "write" ELSE "done"]
    BY <1>4 DEF Taxpayer!ChooseRead
  <2>3. ASSUME NEW e \in Choosers, choosePc'[e] = "write"
        PROVE  chooseMem'[e] \in CodesOfCompany /\ Taxpayer!Exists(chooseMem[e])'
    <3>1. CASE e = d
      <4>1. Taxpayer!Valid(activities, c) /\ chooseMem'[e] = c
        BY <1>0, <2>2, <2>3, <3>1
      <4>2. Taxpayer!Exists(c)
        BY <4>1 DEF Taxpayer!Valid, Taxpayer!Exists, Taxpayer!None
      <4> QED
        BY <1>s, <4>1, <4>2
    <3>2. CASE e # d
      BY <1>0, <1>s, <2>2, <2>3, <3>2 DEF Taxpayer!DefaultIsOwn, ChoiceInOrder
    <3> QED
      BY <3>1, <3>2
  <2> QED
    BY <1>2, <1>p, <2>1, <2>3
<1>5. ASSUME NEW d \in Choosers, Taxpayer!ChooseWrite(d)
      PROVE  Taxpayer!DefaultIsOwn' /\ ChoiceInOrder'
  <2>1. UNCHANGED <<verifyPc, verifyMem>> /\ choosePc[d] = "write"
    BY <1>5 DEF Taxpayer!ChooseWrite, Taxpayer!OperatorUnchanged
  <2>2. /\ profile'.default = chooseMem[d] /\ profile'.exists
        /\ chooseMem[d] \in CodesOfCompany /\ Taxpayer!Exists(chooseMem[d])
    BY <1>0, <1>5, <2>1 DEF Taxpayer!ChooseWrite, Taxpayer!Profile, VerificationInOrder,
       ChoiceInOrder, Taxpayer!DefaultIsOwn
  <2>3. Taxpayer!Exists(profile.default)'
    BY <1>s, <2>2
  <2>4. ASSUME NEW e \in Choosers, choosePc'[e] = "write"
        PROVE  chooseMem'[e] \in CodesOfCompany /\ Taxpayer!Exists(chooseMem[e])'
    <3>1. e # d /\ choosePc[e] = "write" /\ chooseMem'[e] = chooseMem[e]
      BY <1>0, <1>5, <2>4 DEF Taxpayer!ChooseWrite
    <3> QED
      BY <1>s, <3>1 DEF Taxpayer!DefaultIsOwn, ChoiceInOrder
  <2> QED
    BY <1>2, <2>1, <2>2, <2>3, <2>4
<1>6. ASSUME NEW c \in CodesOfCompany, Taxpayer!SetEnabled(c)
      PROVE  Taxpayer!DefaultIsOwn' /\ ChoiceInOrder'
  <2>1. UNCHANGED <<profile, verifyPc, verifyMem, choosePc, chooseMem>>
    BY <1>6 DEF Taxpayer!SetEnabled, Taxpayer!OperatorUnchanged
  <2> QED
    BY <1>2, <1>c, <1>p, <2>1
<1>7. ASSUME NEW c \in CodesOfCompany, Taxpayer!UpsertProfile(c)
      PROVE  Taxpayer!DefaultIsOwn' /\ ChoiceInOrder'
  <2>1. UNCHANGED <<verifyPc, verifyMem, choosePc, chooseMem>>
    BY <1>7 DEF Taxpayer!UpsertProfile, Taxpayer!OperatorUnchanged
  <2>2. profile'.default = profile.default /\ profile'.exists
    BY <1>0, <1>7 DEF Taxpayer!UpsertProfile, Taxpayer!Profile
  <2>3. profile.default # Taxpayer!None =>
           profile.default \in CodesOfCompany /\ Taxpayer!Exists(profile.default)
    BY <1>0 DEF Taxpayer!Profile, Taxpayer!DefaultIsOwn
  <2>4. profile'.default # Taxpayer!None
          => profile'.exists /\ Taxpayer!Exists(profile.default)'
    BY <1>s, <2>2, <2>3
  <2> QED
    BY <1>2, <1>c, <2>1, <2>4
<1>8. ASSUME Taxpayer!RegistryChanges PROVE Taxpayer!DefaultIsOwn' /\ ChoiceInOrder'
  <2>1. UNCHANGED <<profile, verifyPc, verifyMem, choosePc, chooseMem>>
    BY <1>8 DEF Taxpayer!RegistryChanges, Taxpayer!OperatorUnchanged
  <2> QED
    BY <1>2, <1>c, <1>p, <2>1
<1> QED
  BY <1>1, <1>3, <1>4, <1>5, <1>6, <1>7, <1>8 DEF Taxpayer!Next

\* The inductive invariant of the taxpayer component.
LEMMA TaxpayerInOrder == CompanySpec => []TaxpayerOrder
<1>1. CompanyInit => TaxpayerOrder
  <2> SUFFICES ASSUME Taxpayer!Init PROVE TaxpayerOrder
    BY DEF CompanyInit
  <2>1. /\ Taxpayer!Forgotten \in [answer : Taxpayer!Registry,
                                   rows : [CodesOfCompany -> Taxpayer!Activity],
                                   profile : Taxpayer!Profile]
        /\ ~Taxpayer!Forgotten.answer.found
        /\ Taxpayer!NoActivities \in [CodesOfCompany -> Taxpayer!Activity]
        /\ Taxpayer!NoProfile \in Taxpayer!Profile /\ Taxpayer!NoProfile.default = "NONE"
    BY DEF Taxpayer!Forgotten, Taxpayer!NoAnswer, Taxpayer!NoActivities, Taxpayer!NoProfile,
       Taxpayer!Registry, Taxpayer!Activity, Taxpayer!Profile, Taxpayer!None
  <2>2. registry \in Taxpayer!Registry
    BY DEF Taxpayer!Init, Taxpayer!Registry
  <2>6. changes \in 0..MaxChanges
    BY CompanyConstants DEF Taxpayer!Init
  <2>3. Taxpayer!TypeOK
    BY <2>1, <2>2, <2>6 DEF Taxpayer!Init, Taxpayer!TypeOK
  <2>4. Taxpayer!CreatedOnce /\ CreationInOrder
    BY DEF Taxpayer!Init, Taxpayer!CreatedOnce, CreationInOrder, Taxpayer!None
  <2>5. VerificationInOrder
    BY <2>1 DEF Taxpayer!Init, VerificationInOrder
  <2>7. Taxpayer!DefaultIsOwn /\ ChoiceInOrder
    BY <2>1 DEF Taxpayer!Init, Taxpayer!DefaultIsOwn, Taxpayer!Deciding, ChoiceInOrder,
       Taxpayer!None
  <2> QED
    BY <2>3, <2>4, <2>5, <2>7 DEF TaxpayerOrder
<1>2. TaxpayerOrder /\ [CompanyNext]_companyVars => TaxpayerOrder'
  <2> SUFFICES ASSUME TaxpayerOrder, [CompanyNext]_companyVars PROVE TaxpayerOrder'
    OBVIOUS
  <2>1. CASE UNCHANGED taxpayerVars
    BY <2>1 DEF taxpayerVars, TaxpayerOrder, Taxpayer!TypeOK, Taxpayer!CreatedOnce,
       CreationInOrder, VerificationInOrder, AsAnswered, Taxpayer!DefaultIsOwn,
       ChoiceInOrder, Taxpayer!Exists, Taxpayer!Deciding
  <2>2. CASE Taxpayer!Next
    BY <2>2, TaxpayerType, CreationStep, VerificationStep, OwnStep DEF TaxpayerOrder
  <2> QED
    BY <2>1, <2>2 DEF CompanyNext, companyVars, MoveCertificates, MoveTaxpayer,
       MoveAssociation, MovePoints, MoveInvoice
<1> QED
  BY <1>1, <1>2, PTL DEF CompanySpec

\* However many requests create it at once, one company is created, by one of them.  Its
\* default is an activity recorded for it, and so is what any verification or choice has
\* read and may yet write, whatever overlaps: no verification deletes an activity.
THEOREM TaxpayerCorrect == CompanySpec => []TaxpayerInv
<1>1. TaxpayerOrder => TaxpayerInv
  BY DEF TaxpayerOrder, TaxpayerInv, Taxpayer!TaxpayerInv
<1> QED
  BY <1>1, TaxpayerInOrder, PTL

\* A verification ends with the activities Hacienda returned and a valid default or none,
\* for any number of verifications and choices, unless one of two overlaps occurs: the
\* activities change after it has written its own, or the default after it has read the
\* profile.  None, overlapped or not, enables what the operator disabled.
THEOREM VerificationsAreFaithful == CompanySpec => VerificationIsFaithful
<1>1. TaxpayerOrder /\ [CompanyNext]_companyVars
         => [\A v \in Verifications : EndsComplete(v)]_taxpayerVars
  <2>1. [CompanyNext]_companyVars => [Taxpayer!Next]_taxpayerVars
    BY DEF CompanyNext, companyVars, MoveCertificates, MoveTaxpayer, MoveAssociation,
       MovePoints, MoveInvoice
  <2> QED
    BY <2>1, VerificationEnds
<1>2. TaxpayerOrder /\ [CompanyNext]_companyVars
         => [\A c \in CodesOfCompany :
                (activities[c].status # Taxpayer!None /\ ~activities[c].enabled
                    /\ (activities[c].enabled)')
                 => changes' = changes + 1]_Taxpayer!taxpayerVars
  <2>1. [CompanyNext]_companyVars => [Taxpayer!Next]_taxpayerVars
    BY DEF CompanyNext, companyVars, MoveCertificates, MoveTaxpayer, MoveAssociation,
       MovePoints, MoveInvoice
  <2> QED
    BY <2>1, EnablingIsCounted DEF TaxpayerOrder, Taxpayer!None, taxpayerVars,
       Taxpayer!taxpayerVars
<1>3. TaxpayerOrder /\ [CompanyNext]_companyVars
         => [\A v \in Verifications :
                \/ verifyPc[v] = "done" \/ verifyPc'[v] # "done"
                \/ v \in disturbed \/ ~verifyMem[v].answer.found
                \/ /\ \A c \in CodesOfCompany :
                         activities[c].status \in
                             {verifyMem[v].answer.status[c],
                              IF Taxpayer!Exists(c) THEN "I" ELSE Taxpayer!None}
                   /\ \A c \in CodesOfCompany :
                         activities[c].status = "A" => verifyMem[v].answer.status[c] = "A"
                   /\ (profile.default)'
                         \in Taxpayer!ValidActive(activities) \cup {Taxpayer!None}
                   /\ (profile.default)' = Taxpayer!None /\ profile.exists
                         => ~Taxpayer!ActivitiesReady']_Taxpayer!taxpayerVars
  <2>1. ASSUME \A v \in Verifications : EndsComplete(v),
               NEW v \in Verifications,
               verifyPc[v] # "done", verifyPc'[v] = "done",
               v \notin disturbed, verifyMem[v].answer.found
        PROVE  /\ \A c \in CodesOfCompany :
                     activities[c].status \in
                         {verifyMem[v].answer.status[c],
                          IF Taxpayer!Exists(c) THEN "I" ELSE Taxpayer!None}
               /\ \A c \in CodesOfCompany :
                     activities[c].status = "A" => verifyMem[v].answer.status[c] = "A"
               /\ (profile.default)'
                     \in Taxpayer!ValidActive(activities) \cup {Taxpayer!None}
               /\ (profile.default)' = Taxpayer!None /\ profile.exists
                     => ~Taxpayer!ActivitiesReady'
    BY <2>1 DEF EndsComplete, AsAnswered, Taxpayer!Exists, Taxpayer!None
  <2> QED
    BY <1>1, <2>1 DEF taxpayerVars, Taxpayer!taxpayerVars
<1> QED
  BY <1>2, <1>3, TaxpayerInOrder, PTL DEF CompanySpec, VerificationIsFaithful,
     Taxpayer!VerificationIsFaithful, Taxpayer!VerificationIsComplete,
     Taxpayer!OperatorDecides


-----------------------------------------------------------------------------
(* TestInvoice: a repeated request prepares and submits once *)

\* A document past READY_FOR_XML is submitted, or about to be by one who is past it, unless
\* that one stopped; an answered document is past it.  No lock is needed for that.
SubmissionFollows ==
    /\ document = "XML_GENERATED" => abandoned \/ \E r \in Requests : invoicePc[r] = "finish"
    /\ document = "READY_TO_SUBMIT" =>
          abandoned \/ sent # {} \/ \E r \in Requests : invoicePc[r] \in {"finish", "submit"}
    /\ document = "DECIDED" => sent # {}
    /\ answered # {} => document \notin {"NONE", "READY_FOR_XML"}
    /\ \A r \in Requests :
          invoicePc[r] = "answer" => document \notin {"NONE", "READY_FOR_XML"}
    /\ \A r \in Requests : invoicePc[r] \in {"prepare", "generate"} => document # "NONE"

\* A request in its transaction holds the lock, so only one is, and each finds what the
\* one before left: who prepares finds nothing prepared, who submits has prepared.
OneAtATime ==
    /\ \A r \in Requests : invoicePc[r] \in Invoice!Underway => holder = r
    /\ \A r \in Requests : invoicePc[r] \in {"prepare", "generate"} => document = "READY_FOR_XML"
    /\ \A r \in Requests : invoicePc[r] = "finish" => document = "XML_GENERATED"
    /\ \A r \in Requests : invoicePc[r] = "submit" => r \in prepared /\ sent = {}
    /\ prepared # {} => document \in {"READY_TO_SUBMIT", "DECIDED"}
    /\ sent \subseteq prepared
    /\ \A r, s \in prepared : r = s

InvoiceOrder ==
    /\ Invoice!TypeOK
    /\ SubmissionFollows
    /\ ~lockExpired => OneAtATime

\* Every step keeps the types.
LEMMA InvoiceType ==
    ASSUME Invoice!TypeOK, [Invoice!Next]_invoiceVars
    PROVE  Invoice!TypeOK'
<1>1. CASE UNCHANGED invoiceVars
  BY <1>1 DEF invoiceVars, Invoice!TypeOK
<1>2. ASSUME NEW r \in Requests,
             \/ Invoice!TakeLock(r) \/ Invoice!CheckReadiness(r) \/ Invoice!CreateDocument(r)
             \/ Invoice!ReadForXml(r)
      PROVE  Invoice!TypeOK'
  BY <1>2 DEF Invoice!TypeOK, Invoice!TakeLock, Invoice!CheckReadiness, Invoice!At,
     Invoice!CreateDocument, Invoice!ReadForXml, Invoice!Release, Invoice!HistoryUnchanged,
     Invoice!Status
<1>6. ASSUME NEW r \in Requests,
             \/ Invoice!GenerateXml(r) \/ Invoice!FinishXml(r) \/ Invoice!PrepareConflicts(r)
             \/ Invoice!Submit(r) \/ Invoice!SubmitConflicts(r) \/ Invoice!Answer(r)
      PROVE  Invoice!TypeOK'
  BY <1>6 DEF Invoice!TypeOK, Invoice!GenerateXml, Invoice!FinishXml, Invoice!At,
     Invoice!PrepareConflicts, Invoice!Submit, Invoice!SubmitConflicts, Invoice!Answer,
     Invoice!Release, Invoice!HistoryUnchanged, Invoice!Status
<1>3. ASSUME NEW r \in Requests, Invoice!Interrupt(r) PROVE Invoice!TypeOK'
  BY <1>3, CompanyConstants DEF Invoice!TypeOK, Invoice!Interrupt, Invoice!Mishap,
     Invoice!Release
<1>4. CASE Invoice!Decide
  BY <1>4 DEF Invoice!TypeOK, Invoice!Decide, Invoice!HistoryUnchanged, Invoice!Status
<1>5. CASE Invoice!LockExpires
  BY <1>5, CompanyConstants DEF Invoice!TypeOK, Invoice!LockExpires, Invoice!Mishap
<1> QED
  BY <1>1, <1>2, <1>3, <1>4, <1>5, <1>6 DEF Invoice!Next

\* Locked or not, whoever takes the document past READY_FOR_XML goes on to submit it.
LEMMA SubmissionStep ==
    ASSUME Invoice!TypeOK, SubmissionFollows, Invoice!Next
    PROVE  SubmissionFollows'
<1>0. /\ invoicePc \in [Requests -> {"lock", "ready", "create", "prepare", "generate", "finish",
                                     "submit", "answer", "done", "refused"}]
      /\ document \in {"NONE", "READY_FOR_XML", "XML_GENERATED", "READY_TO_SUBMIT", "DECIDED"}
      /\ abandoned \in BOOLEAN
  BY DEF Invoice!TypeOK, Invoice!Status, Invoice!None
<1>1. ASSUME NEW r \in Requests, Invoice!TakeLock(r) PROVE SubmissionFollows'
  BY <1>0, <1>1 DEF Invoice!TakeLock, Invoice!At, Invoice!HistoryUnchanged, SubmissionFollows
<1>2. ASSUME NEW r \in Requests, Invoice!CheckReadiness(r) PROVE SubmissionFollows'
  BY <1>0, <1>2 DEF Invoice!CheckReadiness, Invoice!At, Invoice!HistoryUnchanged,
     SubmissionFollows
<1>3. ASSUME NEW r \in Requests, Invoice!CreateDocument(r) PROVE SubmissionFollows'
  BY <1>0, <1>3 DEF Invoice!CreateDocument, Invoice!At, Invoice!HistoryUnchanged,
     SubmissionFollows, Invoice!None
<1>4. ASSUME NEW r \in Requests, Invoice!ReadForXml(r) PROVE SubmissionFollows'
  BY <1>0, <1>4 DEF Invoice!ReadForXml, Invoice!At, Invoice!HistoryUnchanged,
     SubmissionFollows
<1>5. ASSUME NEW r \in Requests, Invoice!GenerateXml(r) \/ Invoice!FinishXml(r)
      PROVE  SubmissionFollows'
  BY <1>0, <1>5 DEF Invoice!GenerateXml, Invoice!FinishXml, Invoice!At,
     Invoice!HistoryUnchanged, SubmissionFollows
<1>6. ASSUME NEW r \in Requests, Invoice!PrepareConflicts(r) \/ Invoice!SubmitConflicts(r)
      PROVE  SubmissionFollows'
  BY <1>0, <1>6 DEF Invoice!PrepareConflicts, Invoice!SubmitConflicts, Invoice!At,
     Invoice!HistoryUnchanged, SubmissionFollows
<1>7. ASSUME NEW r \in Requests, Invoice!Submit(r) \/ Invoice!Answer(r)
      PROVE  SubmissionFollows'
  BY <1>0, <1>7 DEF Invoice!Submit, Invoice!Answer, Invoice!At, Invoice!HistoryUnchanged,
     SubmissionFollows
<1>8. ASSUME NEW r \in Requests, Invoice!Interrupt(r) PROVE SubmissionFollows'
  BY <1>0, <1>8 DEF Invoice!Interrupt, SubmissionFollows
<1>9. CASE Invoice!Decide
  BY <1>0, <1>9 DEF Invoice!Decide, Invoice!HistoryUnchanged, SubmissionFollows
<1>10. CASE Invoice!LockExpires
  BY <1>0, <1>10 DEF Invoice!LockExpires, SubmissionFollows
<1> QED
  BY <1>1, <1>2, <1>3, <1>4, <1>5, <1>6, <1>7, <1>8, <1>9, <1>10 DEF Invoice!Next

\* While no lock expires each step finds itself alone, whoever stopped before it.
LEMMA AloneStep ==
    ASSUME Invoice!TypeOK, SubmissionFollows, OneAtATime, Invoice!Next, ~lockExpired'
    PROVE  OneAtATime'
<1>0. /\ invoicePc \in [Requests -> {"lock", "ready", "create", "prepare", "generate", "finish",
                                     "submit", "answer", "done", "refused"}]
      /\ document \in {"NONE", "READY_FOR_XML", "XML_GENERATED", "READY_TO_SUBMIT", "DECIDED"}
      /\ prepared \subseteq Requests /\ sent \subseteq Requests
      /\ holder \in Requests \cup {"NONE"} /\ "NONE" \notin Requests
  BY CompanyConstants DEF Invoice!TypeOK, Invoice!Status, Invoice!None, None
\* The others are outside their transactions while one is inside.
<1>a. ASSUME NEW r \in Requests, invoicePc[r] \in Invoice!Underway,
             NEW s \in Requests, s # r
      PROVE  invoicePc[s] \in {"lock", "done", "refused"}
  BY <1>0, <1>a DEF OneAtATime, Invoice!Underway
<1>1. ASSUME NEW r \in Requests, Invoice!TakeLock(r) PROVE OneAtATime'
  <2>1. \A s \in Requests : invoicePc[s] \in {"lock", "done", "refused"}
    BY <1>0, <1>1 DEF OneAtATime, Invoice!TakeLock, Invoice!LockFree, Invoice!None,
       Invoice!Underway
  <2> QED
    BY <1>0, <1>1, <2>1 DEF Invoice!TakeLock, Invoice!At, OneAtATime, Invoice!Underway
<1>2. ASSUME NEW r \in Requests, Invoice!CheckReadiness(r) PROVE OneAtATime'
  <2>1. \A s \in Requests : s # r => invoicePc[s] \in {"lock", "done", "refused"}
    BY <1>a, <1>2 DEF Invoice!CheckReadiness, Invoice!At, Invoice!Underway
  <2> QED
    BY <1>0, <1>2, <2>1 DEF Invoice!CheckReadiness, Invoice!At, Invoice!Release, OneAtATime,
       Invoice!Underway
<1>3. ASSUME NEW r \in Requests, Invoice!CreateDocument(r) PROVE OneAtATime'
  <2>1. \A s \in Requests : s # r => invoicePc[s] \in {"lock", "done", "refused"}
    BY <1>a, <1>3 DEF Invoice!CreateDocument, Invoice!At, Invoice!Underway
  <2>2. /\ prepared # {} => document' = document
        /\ document' = "READY_FOR_XML" \/ invoicePc'[r] = "answer"
        /\ invoicePc'[r] \in {"prepare", "answer"}
    BY <1>0, <1>3 DEF Invoice!CreateDocument, Invoice!At, OneAtATime, Invoice!None
  <2> QED
    BY <1>0, <1>3, <2>1, <2>2 DEF Invoice!CreateDocument, Invoice!At, OneAtATime,
       Invoice!Underway
<1>4. ASSUME NEW r \in Requests, Invoice!ReadForXml(r) PROVE OneAtATime'
  <2>1. \A s \in Requests : s # r => invoicePc[s] \in {"lock", "done", "refused"}
    BY <1>a, <1>4 DEF Invoice!ReadForXml, Invoice!At, Invoice!Underway
  <2>2. document = "READY_FOR_XML" /\ invoicePc'[r] = "generate" /\ holder' = holder
    BY <1>0, <1>4 DEF Invoice!ReadForXml, Invoice!At, OneAtATime
  <2> QED
    BY <1>0, <1>4, <2>1, <2>2 DEF Invoice!ReadForXml, Invoice!At, OneAtATime,
       Invoice!Underway
<1>5. ASSUME NEW r \in Requests, Invoice!GenerateXml(r) \/ Invoice!FinishXml(r)
      PROVE  OneAtATime'
  <2>1. \A s \in Requests : s # r => invoicePc[s] \in {"lock", "done", "refused"}
    BY <1>a, <1>5 DEF Invoice!GenerateXml, Invoice!FinishXml, Invoice!At, Invoice!Underway
  <2>2. prepared = {} /\ sent = {}
    BY <1>0, <1>5 DEF Invoice!GenerateXml, Invoice!FinishXml, Invoice!At, OneAtATime
  <2> QED
    BY <1>0, <1>5, <2>1, <2>2 DEF Invoice!GenerateXml, Invoice!FinishXml, Invoice!At,
       OneAtATime, Invoice!Underway
<1>6. ASSUME NEW r \in Requests, Invoice!PrepareConflicts(r) \/ Invoice!SubmitConflicts(r)
      PROVE  OneAtATime'
  <2>1. \A s \in Requests : s # r => invoicePc[s] \in {"lock", "done", "refused"}
    BY <1>a, <1>6 DEF Invoice!PrepareConflicts, Invoice!SubmitConflicts, Invoice!At,
       Invoice!Underway
  <2> QED
    BY <1>0, <1>6, <2>1 DEF Invoice!PrepareConflicts, Invoice!SubmitConflicts, Invoice!At,
       OneAtATime, Invoice!Underway
<1>7. ASSUME NEW r \in Requests, Invoice!Submit(r) PROVE OneAtATime'
  <2>1. \A s \in Requests : s # r => invoicePc[s] \in {"lock", "done", "refused"}
    BY <1>a, <1>7 DEF Invoice!Submit, Invoice!At, Invoice!Underway
  <2> QED
    BY <1>0, <1>7, <2>1 DEF Invoice!Submit, Invoice!At, OneAtATime, Invoice!Underway
<1>8. ASSUME NEW r \in Requests, Invoice!Answer(r) \/ Invoice!Interrupt(r)
      PROVE  OneAtATime'
  <2>1. \A s \in Requests : s # r => invoicePc[s] \in {"lock", "done", "refused"}
    BY <1>a, <1>8 DEF Invoice!Answer, Invoice!Interrupt, Invoice!At, Invoice!Underway
  <2>2. /\ UNCHANGED <<document, prepared, sent>>
        /\ \A s \in Requests : invoicePc'[s] \in {"lock", "done", "refused"}
    BY <1>0, <1>8, <2>1 DEF Invoice!Answer, Invoice!Interrupt, Invoice!At
  <2> QED
    BY <2>2 DEF OneAtATime, Invoice!Underway
<1>9. CASE Invoice!Decide
  <2>1. /\ sent # {} /\ document' = "DECIDED"
        /\ UNCHANGED <<holder, invoicePc, prepared, sent>>
    BY <1>9 DEF Invoice!Decide
  <2>2. document \in {"READY_TO_SUBMIT", "DECIDED"}
    BY <2>1 DEF OneAtATime
  <2> QED
    BY <2>1, <2>2 DEF OneAtATime
<1>10. CASE Invoice!LockExpires
  BY <1>10 DEF Invoice!LockExpires
<1> QED
  BY <1>1, <1>2, <1>3, <1>4, <1>5, <1>6, <1>7, <1>8, <1>9, <1>10 DEF Invoice!Next

\* A lock that has expired stays expired, so each step was alone before it is.
LEMMA InvoiceStep ==
    ASSUME InvoiceOrder, [Invoice!Next]_invoiceVars
    PROVE  InvoiceOrder'
<1>1. CASE UNCHANGED invoiceVars
  BY <1>1 DEF invoiceVars, InvoiceOrder, Invoice!TypeOK, SubmissionFollows, OneAtATime
<1>2. CASE Invoice!Next
  <2>1. lockExpired => lockExpired'
    BY <1>2 DEF Invoice!Next, Invoice!TakeLock, Invoice!CheckReadiness,
       Invoice!CreateDocument, Invoice!ReadForXml, Invoice!GenerateXml, Invoice!FinishXml,
       Invoice!PrepareConflicts, Invoice!Submit, Invoice!SubmitConflicts, Invoice!Answer,
       Invoice!Interrupt, Invoice!Decide, Invoice!LockExpires, Invoice!HistoryUnchanged
  <2> QED
    BY <1>2, <2>1, InvoiceType, SubmissionStep, AloneStep DEF InvoiceOrder
<1> QED
  BY <1>1, <1>2

\* For any number of requests that repeat it: while no lock expires, a test invoice is
\* prepared by one and submitted by one, wherever requests stop.  When a request is answered
\* it is submitted or about to be, also when locks expire, unless a request stopped between
\* generating the XML and submitting.
THEOREM InvoiceIsCarriedOutOnce == CompanySpec => []InvoiceInv
<1>1. CompanyInit => InvoiceOrder
  <2>1. Invoice!Init => Invoice!TypeOK
    <3> SUFFICES ASSUME Invoice!Init PROVE Invoice!TypeOK
      OBVIOUS
    <3>1. invoiceMishaps \in 0..MaxMishaps
      BY CompanyConstants DEF Invoice!Init
    <3> QED
      BY <3>1 DEF Invoice!Init, Invoice!TypeOK, Invoice!Status
  <2>2. Invoice!Init => SubmissionFollows /\ OneAtATime
    BY DEF Invoice!Init, SubmissionFollows, OneAtATime, Invoice!None, Invoice!Underway
  <2> QED
    BY <2>1, <2>2 DEF CompanyInit, InvoiceOrder
<1>2. InvoiceOrder /\ [CompanyNext]_companyVars => InvoiceOrder'
  <2>1. [CompanyNext]_companyVars => [Invoice!Next]_invoiceVars
    BY DEF CompanyNext, companyVars, MoveCertificates, MoveTaxpayer, MoveAssociation,
       MovePoints, MoveInvoice
  <2> QED
    BY <2>1, InvoiceStep
<1>3. InvoiceOrder => InvoiceInv
  <2> SUFFICES ASSUME InvoiceOrder PROVE InvoiceInv
    OBVIOUS
  <2>1. Invoice!CarriedOutOnce
    BY DEF InvoiceOrder, OneAtATime, Invoice!CarriedOutOnce
  <2>2. document \in {"NONE", "READY_FOR_XML", "XML_GENERATED", "READY_TO_SUBMIT", "DECIDED"}
    BY DEF InvoiceOrder, Invoice!TypeOK, Invoice!Status, Invoice!None
  <2>3. Invoice!AnsweredIsSubmitted
    BY <2>2 DEF InvoiceOrder, SubmissionFollows, Invoice!AnsweredIsSubmitted
  <2> QED
    BY <2>1, <2>3 DEF InvoiceOrder, InvoiceInv, Invoice!InvoiceInv
<1> QED
  BY <1>1, <1>2, <1>3, PTL DEF CompanySpec
=============================================================================
