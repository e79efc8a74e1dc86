--------------------------- MODULE EvidenceProofs ---------------------------
(***************************************************************************)
(* Proofs about the components behind the fiscal evidence: LocalStorage,   *)
(* MissedResponses, XmlPreparation, PdfArtifacts and DeliveryPackage, for  *)
(* any number of uploads, preparations, generations and mails.             *)
(***************************************************************************)
EXTENDS MCEvidence, Integers, Sequences, WellFoundedInduction, FiniteSetTheorems, TLAPS

-----------------------------------------------------------------------------
(* LocalStorage: an object is written once and whole *)

\* The write of a file takes the upload one label on and touches its own inode only.
LEMMA WriteFileType ==
    ASSUME TypeOK, NEW u \in Uploads, NEW from \in UploadLabels, NEW to \in UploadLabels,
           NEW content \in Contents \cup {None, Partial}, NEW synced \in BOOLEAN,
           At(u, from, to), WriteFile(u, content, synced)
    PROVE  TypeOK'
BY DEF TypeOK, At, WriteFile, Inode

\* A comparison ends in one of its two results.
LEMMA CompareType ==
    ASSUME TypeOK, NEW u \in Uploads, CompareWithNamed(u)
    PROVE  /\ result' \in [Uploads -> {None, "stored", "same", "conflict", "error"}]
           /\ accepted' \in [Uploads -> Request \cup {Unseen}]
BY DEF TypeOK, CompareWithNamed, Accepting

\* One upload's step keeps the types.
LEMMA UploadType ==
    ASSUME TypeOK, NEW u \in Uploads,
           \/ FindExisting(u) \/ FindNothing(u)
           \/ OpenTemporary(u) \/ WriteTemporary(u) \/ SyncTemporary(u)
           \/ Link(u) \/ LinkExists(u) \/ SyncDirectory(u) \/ Compare(u) \/ Unlink(u)
           \/ IoError(u)
    PROVE  TypeOK'
<1>0. /\ requests[u] \in Request /\ requests[u].content \in Contents
      /\ requests[u].key \in Keys /\ Named(u) \in Uploads \cup {None}
  BY DEF TypeOK, Request, Named
<1>1. CASE FindExisting(u)
  BY <1>1, CompareType DEF TypeOK, FindExisting, At, UploadLabels
<1>2. CASE FindNothing(u) \/ LinkExists(u) \/ Unlink(u)
  BY <1>2 DEF TypeOK, FindNothing, LinkExists, Unlink, At, UploadLabels
<1>3. CASE OpenTemporary(u)
  BY <1>3, WriteFileType DEF OpenTemporary, UploadLabels
<1>4. CASE WriteTemporary(u)
  BY <1>0, <1>4, WriteFileType DEF WriteTemporary, UploadLabels
<1>5. CASE SyncTemporary(u)
  BY <1>0, <1>5, WriteFileType DEF SyncTemporary, UploadLabels
<1>6. CASE Link(u)
  BY <1>0, <1>6 DEF TypeOK, Link, At, Accepting, UploadLabels
<1>7. CASE SyncDirectory(u)
  BY <1>0, <1>7 DEF TypeOK, SyncDirectory, At, UploadLabels
<1>8. CASE Compare(u)
  <2>1. CASE Named(u) = None
    BY <1>8, <2>1 DEF TypeOK, Compare, At, UploadLabels
  <2>2. CASE Named(u) # None
    BY <1>8, <2>2, CompareType DEF TypeOK, Compare, At, UploadLabels
  <2> QED
    BY <2>1, <2>2
<1>9. CASE IoError(u)
  BY <1>9, FaultsAreNat DEF TypeOK, IoError, UploadLabels
<1> QED
  BY <1>1, <1>2, <1>3, <1>4, <1>5, <1>6, <1>7, <1>8, <1>9

\* A crash, a power loss and a deletion keep the types.
LEMMA FaultType ==
    ASSUME TypeOK, Crash \/ PowerLoss \/ (\E k \in Keys : Delete(k))
    PROVE  TypeOK'
<1>1. ASSUME Die
      PROVE  faults' \in 0..MaxFaults /\ uploadPc' \in [Uploads -> UploadLabels]
  BY <1>1, FaultsAreNat DEF TypeOK, Die, UploadLabels
<1>2. CASE Crash
  BY <1>1, <1>2 DEF TypeOK, Crash
<1>3. CASE PowerLoss
  <2>1. visible' \in [Keys -> Uploads \cup {None}]
    BY <1>3 DEF TypeOK, PowerLoss
  <2>2. inodes' \in [Uploads -> Inode]
    BY <1>3 DEF TypeOK, PowerLoss, Inode
  <2> QED
    BY <1>1, <1>3, <2>1, <2>2 DEF TypeOK, PowerLoss
<1>4. CASE \E k \in Keys : Delete(k)
  BY <1>4, DeletableAreKeys DEF TypeOK, Delete
<1> QED
  BY <1>2, <1>3, <1>4

\* What the invariant adds to the types: everything the properties follow from.
Written == NamesAreWritten /\ LinksAreWritten /\ LinksStay /\ AcceptedAtTheLink /\ SuccessIsTrue

\* The two properties about contents follow from the rest of the invariant.
LEMMA WrittenIsWhole ==
    ASSUME TypeOK, Written
    PROVE  ObjectsAreWhole /\ StoredIsDurable
<1>1. ObjectsAreWhole
  BY DEF TypeOK, Written, NamesAreWritten, IsOf, ObjectsAreWhole, ContentOf
<1>2. StoredIsDurable
  <2> SUFFICES ASSUME NEW u \in Uploads, result[u] = "stored", requests[u].key \notin deleted
               PROVE  ContentOf(Named(u)) = requests[u].content
    BY DEF StoredIsDurable
  <2>1. requests[u].key \in Keys /\ Named(u) = u
    BY DEF TypeOK, Request, Written, LinksStay
  <2>2. IsOf(u, requests[u].key) /\ u # None
    BY <2>1, UploadsAreNames DEF Written, NamesAreWritten, Named
  <2> QED
    BY <2>1, <2>2 DEF IsOf, ContentOf
<1> QED
  BY <1>1, <1>2

\* A step that changes no file and no name, and takes no upload to the link, keeps
\* the invariant if what it says of results and of what was accepted is kept.
LEMMA QuietWritten ==
    ASSUME TypeOK, Written, NEW u \in Uploads, NEW label \in UploadLabels,
           UNCHANGED <<requests, inodes, visible, onDisk, deleted>>,
           uploadPc' = [uploadPc EXCEPT ![u] = label],
           label \in {"check", "open", "write", "sync"}
              => uploadPc[u] \in {"check", "open", "write", "sync"},
           label \notin {"link", "syncDirectory"},
           result'[u] # "stored" \/ result'[u] = result[u],
           label \in {"check", "open", "write", "sync", "compare"}
              => accepted'[u] = Unseen /\ result'[u] = None,
           result'[u] \in {"stored", "same"} => accepted'[u] = requests[u],
           \A v \in Uploads \ {u} : accepted'[v] = accepted[v] /\ result'[v] = result[v]
    PROVE  Written'
<1>1. NamesAreWritten'
  BY DEF TypeOK, Written, NamesAreWritten, IsOf
<1>2. LinksAreWritten'
  BY DEF TypeOK, Written, LinksAreWritten
<1>3. LinksStay'
  BY DEF TypeOK, Written, LinksStay, Named
<1>4. AcceptedAtTheLink'
  BY DEF TypeOK, Written, AcceptedAtTheLink
<1>5. SuccessIsTrue'
  BY DEF TypeOK, Written, SuccessIsTrue
<1> QED
  BY <1>1, <1>2, <1>3, <1>4, <1>5 DEF Written

\* An upload that writes its own file is named nowhere yet.
LEMMA WriteWritten ==
    ASSUME TypeOK, Written, NEW u \in Uploads, NEW content, NEW synced,
           WriteFile(u, content, synced),
           \/ At(u, "open", "write")
           \/ At(u, "write", "sync")
           \/ At(u, "sync", "link") /\ content = requests[u].content /\ synced = TRUE
    PROVE  Written'
<1>1. NamesAreWritten'
  <2> SUFFICES ASSUME NEW k \in Keys, NEW v \in Uploads, v \in {visible[k], onDisk[k]}
               PROVE  IsOf(v, k)'
    BY DEF NamesAreWritten, WriteFile
  <2>1. IsOf(v, k)
    BY DEF Written, NamesAreWritten
  <2>2. v # u
    BY <2>1 DEF IsOf, At
  <2>3. inodes'[v] = inodes[v] /\ uploadPc'[v] = uploadPc[v]
    BY <2>2 DEF TypeOK, WriteFile, At
  <2> QED
    BY <2>1, <2>3 DEF IsOf, WriteFile
<1>2. LinksAreWritten'
  BY DEF TypeOK, Written, LinksAreWritten, WriteFile, At
<1>3. LinksStay'
  BY DEF TypeOK, Written, LinksStay, Named, WriteFile, At
<1>4. AcceptedAtTheLink' /\ SuccessIsTrue'
  BY DEF TypeOK, Written, AcceptedAtTheLink, SuccessIsTrue, WriteFile, At
<1> QED
  BY <1>1, <1>2, <1>3, <1>4 DEF Written

\* The link publishes a whole file under a free key, which is free on disk too.
LEMMA LinkWritten ==
    ASSUME TypeOK, Written, NEW u \in Uploads, Link(u)
    PROVE  Written'
<1> DEFINE key == requests[u].key
<1>0. key \in Keys /\ visible[key] = None /\ u # None /\ uploadPc[u] = "link"
  BY UploadsAreNames DEF TypeOK, Request, Link, At, Named
<1>1. NamesAreWritten'
  <2> SUFFICES ASSUME NEW k \in Keys, NEW v \in Uploads, v \in {visible'[k], onDisk'[k]}
               PROVE  IsOf(v, k)'
    BY DEF NamesAreWritten
  <2>1. CASE v = u /\ k = key
    BY <1>0, <2>1 DEF TypeOK, Written, LinksAreWritten, IsOf, Link, At
  <2>2. CASE v # u \/ k # key
    <3>1. v \in {visible[k], onDisk[k]}
      BY <1>0, <2>2 DEF TypeOK, Link
    <3> QED
      BY <3>1 DEF TypeOK, Written, NamesAreWritten, IsOf, Link, At
  <2> QED
    BY <2>1, <2>2
<1>2. LinksAreWritten'
  BY DEF TypeOK, Written, LinksAreWritten, Link, At
<1>3. LinksStay'
  <2>1. \A k \in Keys \ deleted : onDisk'[k] \in {None, visible'[k]}
    BY <1>0 DEF TypeOK, Written, LinksStay, Link
  <2>2. ASSUME NEW v \in Uploads, requests[v].key \notin deleted
        PROVE  /\ uploadPc'[v] = "syncDirectory" => visible'[requests[v].key] = v
               /\ result[v] = "stored" =>
                    visible'[requests[v].key] = v /\ onDisk[requests[v].key] = v
    <3>1. CASE v = u
      BY <1>0, <3>1 DEF TypeOK, Written, LinksStay, Link, At, AcceptedAtTheLink, None
    <3>2. CASE v # u
      <4>1. v # None /\ uploadPc'[v] = uploadPc[v]
        BY <3>2, UploadsAreNames DEF TypeOK, Link, At
      <4>2. /\ uploadPc[v] = "syncDirectory" => visible[requests[v].key] = v
            /\ result[v] = "stored" =>
                 visible[requests[v].key] = v /\ onDisk[requests[v].key] = v
        BY <2>2 DEF Written, LinksStay, Named
      <4>3. visible[requests[v].key] = v => visible'[requests[v].key] = v
        BY <1>0, <4>1 DEF TypeOK, Link
      <4> QED
        BY <4>1, <4>2, <4>3
    <3> QED
      BY <3>1, <3>2
  <2> QED
    BY <2>1, <2>2 DEF Written, LinksStay, Named, Link
<1>4. \A v \in Uploads \ {u} : accepted'[v] = accepted[v] /\ uploadPc'[v] = uploadPc[v]
  BY DEF TypeOK, Link, At, Accepting
<1>5. accepted'[u] = requests[u] /\ uploadPc'[u] = "syncDirectory"
  BY DEF TypeOK, Link, At, Accepting
<1>6. AcceptedAtTheLink' /\ SuccessIsTrue'
  BY <1>4, <1>5 DEF Written, AcceptedAtTheLink, SuccessIsTrue, Link
<1> QED
  BY <1>1, <1>2, <1>3, <1>6 DEF Written

\* The sync brings to disk what the key names: the upload's own file, unless deleted.
LEMMA SyncWritten ==
    ASSUME TypeOK, Written, NEW u \in Uploads, SyncDirectory(u)
    PROVE  Written'
<1>0. requests[u].key \in Keys /\ uploadPc[u] = "syncDirectory"
  BY DEF TypeOK, Request, SyncDirectory, At
<1>1. NamesAreWritten'
  BY <1>0 DEF TypeOK, Written, NamesAreWritten, IsOf, SyncDirectory, At, Named
<1>2. LinksAreWritten'
  BY DEF TypeOK, Written, LinksAreWritten, SyncDirectory, At
<1>3. LinksStay'
  BY <1>0 DEF TypeOK, Written, LinksStay, SyncDirectory, At, Named
<1>4. AcceptedAtTheLink' /\ SuccessIsTrue'
  BY <1>0 DEF TypeOK, Written, AcceptedAtTheLink, SuccessIsTrue, SyncDirectory, At
<1> QED
  BY <1>1, <1>2, <1>3, <1>4 DEF Written

\* Whatever an upload does keeps the invariant.
LEMMA UploadWritten ==
    ASSUME TypeOK, Written, NEW u \in Uploads,
           \/ FindExisting(u) \/ FindNothing(u)
           \/ OpenTemporary(u) \/ WriteTemporary(u) \/ SyncTemporary(u)
           \/ Link(u) \/ LinkExists(u) \/ SyncDirectory(u) \/ Compare(u) \/ Unlink(u)
           \/ IoError(u)
    PROVE  Written'
<1>0. ASSUME CompareWithNamed(u)
      PROVE  /\ result'[u] \in {"same", "conflict"}
             /\ result'[u] = "same" => accepted'[u] = requests[u]
             /\ \A v \in Uploads \ {u} : accepted'[v] = accepted[v] /\ result'[v] = result[v]
  BY <1>0 DEF TypeOK, CompareWithNamed, Accepting
<1>1. CASE FindExisting(u)
  BY <1>0, <1>1, QuietWritten DEF FindExisting, At, UploadLabels
<1>2. CASE FindNothing(u)
  BY <1>2, QuietWritten DEF FindNothing, At, UploadLabels, Written, AcceptedAtTheLink, None
<1>3. CASE OpenTemporary(u) \/ WriteTemporary(u) \/ SyncTemporary(u)
  <2>1. CASE OpenTemporary(u)
    BY <2>1, WriteWritten DEF OpenTemporary
  <2>2. CASE WriteTemporary(u)
    BY <2>2, WriteWritten DEF WriteTemporary
  <2>3. CASE SyncTemporary(u)
    BY <2>3, WriteWritten DEF SyncTemporary
  <2> QED
    BY <1>3, <2>1, <2>2, <2>3
<1>4. CASE Link(u)
  BY <1>4, LinkWritten
<1>5. CASE LinkExists(u)
  BY <1>5, QuietWritten DEF LinkExists, At, UploadLabels, Written, AcceptedAtTheLink, None
<1>6. CASE SyncDirectory(u)
  BY <1>6, SyncWritten
<1>7. CASE Compare(u)
  <2>1. CASE Named(u) = None
    <3>1. /\ result'[u] = "error"
          /\ \A v \in Uploads \ {u} : accepted'[v] = accepted[v] /\ result'[v] = result[v]
      BY <1>7, <2>1 DEF TypeOK, Compare
    <3> QED
      BY <1>7, <3>1, QuietWritten DEF Compare, At, UploadLabels
  <2>2. CASE Named(u) # None
    BY <1>0, <1>7, <2>2, QuietWritten DEF Compare, At, UploadLabels
  <2> QED
    BY <2>1, <2>2
<1>8. CASE Unlink(u)
  BY <1>8, QuietWritten DEF Unlink, At, UploadLabels, Written, SuccessIsTrue
<1>9. CASE IoError(u)
  <2>1. /\ result'[u] = "error"
        /\ \A v \in Uploads \ {u} : accepted'[v] = accepted[v] /\ result'[v] = result[v]
    BY <1>9 DEF TypeOK, IoError
  <2> QED
    BY <1>9, <2>1, QuietWritten DEF IoError, UploadLabels
<1> QED
  BY <1>1, <1>2, <1>3, <1>4, <1>5, <1>6, <1>7, <1>8, <1>9

\* So do a deletion, a crash, and the loss of everything that was not synced.
LEMMA FaultWritten ==
    ASSUME TypeOK, Written, Crash \/ PowerLoss \/ (\E k \in Keys : Delete(k))
    PROVE  Written'
<1>1. ASSUME Die
      PROVE  \A u \in Uploads : uploadPc'[u] \in {"done", "dead"}
  BY <1>1 DEF Die
<1>2. CASE Crash
  <2>1. NamesAreWritten' /\ LinksAreWritten'
    BY <1>1, <1>2 DEF TypeOK, Written, NamesAreWritten, LinksAreWritten, IsOf, Crash
  <2>2. LinksStay'
    BY <1>1, <1>2 DEF TypeOK, Written, LinksStay, Named, Crash
  <2>3. AcceptedAtTheLink' /\ SuccessIsTrue'
    BY <1>1, <1>2 DEF TypeOK, Written, AcceptedAtTheLink, SuccessIsTrue, Crash
  <2> QED
    BY <2>1, <2>2, <2>3 DEF Written
<1>3. CASE PowerLoss
  <2>1. PICK back \in SUBSET Keys :
           visible' = [k \in Keys |-> IF k \in back THEN onDisk[k] ELSE visible[k]]
    BY <1>3 DEF PowerLoss
  <2>2. \A u \in Uploads : inodes[u].synced => inodes'[u] = inodes[u]
    BY <1>3 DEF PowerLoss
  <2>3. Die /\ onDisk' = visible' /\ UNCHANGED <<requests, result, accepted, deleted>>
    BY <1>3 DEF PowerLoss
  <2>4. NamesAreWritten'
    BY <1>1, <2>1, <2>2, <2>3 DEF Written, NamesAreWritten, IsOf
  <2>5. LinksAreWritten'
    BY <1>1, <2>3 DEF LinksAreWritten
  <2>6. LinksStay'
    BY <1>1, <2>1, <2>3 DEF TypeOK, Request, Written, LinksStay, Named
  <2>7. AcceptedAtTheLink' /\ SuccessIsTrue'
    BY <1>1, <2>3 DEF Written, AcceptedAtTheLink, SuccessIsTrue
  <2> QED
    BY <2>4, <2>5, <2>6, <2>7 DEF Written
<1>4. ASSUME NEW k \in Keys, Delete(k)
      PROVE  Written'
  <2>1. NamesAreWritten' /\ LinksAreWritten'
    BY <1>4, UploadsAreNames
    DEF TypeOK, Written, NamesAreWritten, LinksAreWritten, IsOf, Delete
  <2>2. LinksStay'
    BY <1>4 DEF TypeOK, Written, LinksStay, Named, Delete
  <2>3. AcceptedAtTheLink' /\ SuccessIsTrue'
    BY <1>4 DEF Written, AcceptedAtTheLink, SuccessIsTrue, Delete
  <2> QED
    BY <2>1, <2>2, <2>3 DEF Written
<1> QED
  BY <1>2, <1>3, <1>4

\* A stuttering step changes nothing.
LEMMA StutterWritten ==
    ASSUME TypeOK, Written, UNCHANGED filesVars
    PROVE  TypeOK' /\ Written'
BY DEF filesVars, TypeOK, Written, NamesAreWritten, LinksAreWritten, LinksStay,
       AcceptedAtTheLink, SuccessIsTrue, IsOf, Named

\* Crashes, power losses, races and deletions notwithstanding, a key names a whole file
\* or none, an object whose upload returned is still there, and success is true: the
\* temporary file, its sync, the hard link and the sync of the directory, in that order.
THEOREM StorageCorrect == Spec => []StorageInv
<1>1. Init => TypeOK /\ Written
  <2> SUFFICES ASSUME Init PROVE TypeOK /\ Written
    OBVIOUS
  <2>1. TypeOK
    BY FaultsAreNat DEF Init, TypeOK, Inode, UploadLabels
  <2>2. NamesAreWritten
    BY UploadsAreNames DEF Init, NamesAreWritten
  <2>3. LinksAreWritten /\ LinksStay /\ AcceptedAtTheLink /\ SuccessIsTrue
    BY DEF Init, LinksAreWritten, LinksStay, AcceptedAtTheLink, SuccessIsTrue, None
  <2> QED
    BY <2>1, <2>2, <2>3 DEF Written
<1>2. TypeOK /\ Written /\ [Next]_filesVars => TypeOK' /\ Written'
  BY UploadType, UploadWritten, FaultType, FaultWritten, StutterWritten DEF Next
<1>3. TypeOK /\ Written => StorageInv
  BY WrittenIsWhole DEF Written, StorageInv
<1> QED
  BY <1>1, <1>2, <1>3, PTL DEF Spec

-----------------------------------------------------------------------------
(* The refinement of WriteOnceStore, for the keys nobody deletes. *)

EvidenceContent == [k \in Evidence |-> ContentOf(visible[k])]
EvidenceAccepted == [u \in Uploads |-> IF requests[u].key \in Evidence THEN accepted[u] ELSE Unseen]

\* A step that changes neither the requests, nor what is accepted, nor the names of
\* evidence, nor a named file, changes nothing of the store.
LEMMA StoreQuiet ==
    ASSUME TypeOK, UNCHANGED <<requests, accepted>>,
           \A k \in Evidence : visible'[k] = visible[k],
           \A k \in Evidence : visible[k] # None => inodes'[visible[k]] = inodes[visible[k]]
    PROVE  UNCHANGED <<EvidenceContent, EvidenceAccepted>>
BY DEF EvidenceContent, EvidenceAccepted, ContentOf

\* A put of the abstract store, in terms of what is stored and accepted.
LEMMA StorePuts ==
    ASSUME NEW u \in Uploads, NEW k \in Evidence, NEW b \in Contents,
           EvidenceContent[k] \in {None, b},
           EvidenceContent' = [EvidenceContent EXCEPT ![k] = b],
           EvidenceAccepted[u] = Unseen,
           EvidenceAccepted' = [EvidenceAccepted EXCEPT ![u] = [key |-> k, content |-> b]]
    PROVE  Store!Next
<1>1. Store!Put(k, b)
  BY DEF Store!Put, EvidenceContent
<1>2. Store!Accept(u, k, b)
  BY DEF Store!Accept, EvidenceAccepted, Store!Unseen, Unseen
<1> QED
  BY <1>1, <1>2 DEF Store!Next

\* An upload that sees its own bytes under an evidence key, found or put there, takes
\* the step of the abstract store.
LEMMA StoreAccepts ==
    ASSUME TypeOK, NEW u \in Uploads, UNCHANGED requests, Accepting(u), accepted[u] = Unseen,
           EvidenceContent' = [EvidenceContent EXCEPT ![requests[u].key] = requests[u].content],
           requests[u].key \in Evidence
               => EvidenceContent[requests[u].key] \in {None, requests[u].content}
    PROVE  Store!Next \/ UNCHANGED <<EvidenceContent, EvidenceAccepted>>
<1> DEFINE key == requests[u].key
           content == requests[u].content
<1>0. requests[u] \in Request /\ key \in Keys /\ content \in Contents
      /\ requests[u] = [key |-> key, content |-> content]
  BY DEF TypeOK, Request
<1>1. CASE key \in Evidence
  <2>1. EvidenceAccepted[u] = Unseen
    BY <1>1 DEF EvidenceAccepted
  <2>2. EvidenceAccepted' = [EvidenceAccepted EXCEPT ![u] = [key |-> key, content |-> content]]
    BY <1>0, <1>1 DEF TypeOK, EvidenceAccepted, Accepting
  <2> QED
    BY <1>0, <1>1, <2>1, <2>2, StorePuts
<1>2. CASE key \notin Evidence
  BY <1>2 DEF TypeOK, EvidenceContent, EvidenceAccepted, Accepting
<1> QED
  BY <1>1, <1>2

\* A comparison is an acceptance or nothing.
LEMMA StoreCompares ==
    ASSUME TypeOK, Written, NEW u \in Uploads, CompareWithNamed(u),
           uploadPc[u] \in {"check", "compare"},
           UNCHANGED <<requests, inodes, visible>>
    PROVE  Store!Next \/ UNCHANGED <<EvidenceContent, EvidenceAccepted>>
<1>1. UNCHANGED EvidenceContent
  BY DEF EvidenceContent, ContentOf
<1>2. CASE ContentOf(Named(u)) = requests[u].content
  <2>1. Accepting(u) /\ accepted[u] = Unseen
    BY <1>2 DEF CompareWithNamed, Written, AcceptedAtTheLink
  <2>2. requests[u].key \in Evidence
           => EvidenceContent[requests[u].key] = requests[u].content
    BY <1>2 DEF EvidenceContent, Named
  <2>3. EvidenceContent' = [EvidenceContent EXCEPT ![requests[u].key] = requests[u].content]
    BY <1>1, <2>2 DEF EvidenceContent
  <2> QED
    BY <2>1, <2>2, <2>3, StoreAccepts
<1>3. CASE ContentOf(Named(u)) # requests[u].content
  BY <1>1, <1>3 DEF CompareWithNamed, EvidenceAccepted
<1> QED
  BY <1>2, <1>3

\* A link is an acceptance of bytes put under a free key.
LEMMA StoreLinks ==
    ASSUME TypeOK, Written, NEW u \in Uploads, Link(u)
    PROVE  Store!Next \/ UNCHANGED <<EvidenceContent, EvidenceAccepted>>
<1> DEFINE key == requests[u].key
<1>0. /\ key \in Keys /\ visible[key] = None /\ u # None /\ uploadPc[u] = "link"
      /\ visible' = [visible EXCEPT ![key] = u]
      /\ Accepting(u) /\ UNCHANGED <<requests, inodes>>
  BY UploadsAreNames DEF TypeOK, Request, Link, At, Named
<1>1. accepted[u] = Unseen
  BY <1>0 DEF Written, AcceptedAtTheLink
<1>4. inodes[u].content = requests[u].content
  <2>1. inodes[u] = [content |-> requests[u].content, synced |-> TRUE]
    BY <1>0 DEF Written, LinksAreWritten
  <2> QED
    BY <2>1
<1>2. EvidenceContent' = [EvidenceContent EXCEPT ![key] = requests[u].content]
  <2>1. ASSUME NEW k \in Evidence
        PROVE  EvidenceContent'[k] = IF k = key THEN requests[u].content ELSE EvidenceContent[k]
    <3>1. visible'[k] = IF k = key THEN u ELSE visible[k]
      BY <1>0 DEF TypeOK, Evidence
    <3> QED
      BY <1>0, <1>4, <3>1 DEF EvidenceContent, ContentOf
  <2> QED
    BY <2>1 DEF EvidenceContent
<1>3. key \in Evidence => EvidenceContent[key] = None
  BY <1>0 DEF EvidenceContent, ContentOf
<1> QED
  BY <1>0, <1>1, <1>2, <1>3, StoreAccepts

\* The loss of power loses objects and replaces none.
LEMMA StoreLoses ==
    ASSUME TypeOK, Written, PowerLoss
    PROVE  Store!Next
<1>1. PICK back \in SUBSET Keys :
         visible' = [k \in Keys |-> IF k \in back THEN onDisk[k] ELSE visible[k]]
  BY DEF PowerLoss
<1>2. \A u \in Uploads : inodes[u].synced => inodes'[u] = inodes[u]
  BY DEF PowerLoss
<1> DEFINE lost == {k \in Evidence : visible'[k] = None}
<1>3. ASSUME NEW k \in Evidence
      PROVE  EvidenceContent'[k] = IF k \in lost THEN None ELSE EvidenceContent[k]
  <2>1. k \in Keys \ deleted
    BY DEF Evidence, Written, LinksStay
  <2>2. visible'[k] \in {None, visible[k]}
    BY <1>1, <2>1 DEF Written, LinksStay
  <2>3. CASE visible'[k] = None
    BY <2>3 DEF EvidenceContent, ContentOf
  <2>4. CASE visible'[k] # None
    <3>1. visible'[k] = visible[k] /\ visible[k] \in Uploads
      BY <2>1, <2>2, <2>4 DEF TypeOK
    <3>2. IsOf(visible[k], k)
      BY <2>1, <3>1 DEF Written, NamesAreWritten
    <3>3. inodes[visible[k]].synced
      BY <3>2 DEF IsOf
    <3> QED
      BY <1>2, <2>4, <3>1, <3>3 DEF EvidenceContent, ContentOf
  <2> QED
    BY <2>3, <2>4
<1>4. UNCHANGED EvidenceAccepted
  BY DEF PowerLoss, EvidenceAccepted
<1>5. EvidenceContent' = [k \in Evidence |-> IF k \in lost THEN None ELSE EvidenceContent[k]]
  BY <1>3 DEF EvidenceContent
<1>6. Store!Lose(lost)
  BY <1>4, <1>5 DEF Store!Lose, EvidenceContent, EvidenceAccepted
<1> QED
  BY <1>6 DEF Store!Next

\* Every step of the adapter is one of the store, or leaves it as it is.
LEMMA StoreStep ==
    ASSUME TypeOK, Written, [Next]_filesVars
    PROVE  Store!Next \/ UNCHANGED <<EvidenceContent, EvidenceAccepted>>
<1>0. \A k \in Evidence : k \in Keys /\ visible[k] \in Uploads \cup {None}
  BY DEF Evidence, TypeOK
<1>1. ASSUME NEW u \in Uploads,
             FindNothing(u) \/ LinkExists(u) \/ SyncDirectory(u) \/ Unlink(u) \/ IoError(u)
      PROVE  UNCHANGED <<EvidenceContent, EvidenceAccepted>>
  BY <1>1, StoreQuiet DEF FindNothing, LinkExists, SyncDirectory, Unlink, IoError
<1>2. ASSUME NEW u \in Uploads, OpenTemporary(u) \/ WriteTemporary(u) \/ SyncTemporary(u)
      PROVE  UNCHANGED <<EvidenceContent, EvidenceAccepted>>
  <2>1. uploadPc[u] \in {"open", "write", "sync"}
    BY <1>2 DEF OpenTemporary, WriteTemporary, SyncTemporary, At
  <2>2. /\ UNCHANGED <<requests, accepted, visible>>
        /\ \A v \in Uploads \ {u} : inodes'[v] = inodes[v]
    BY <1>2 DEF TypeOK, OpenTemporary, WriteTemporary, SyncTemporary, WriteFile
  <2>3. ASSUME NEW k \in Keys, visible[k] = u
        PROVE  FALSE
    <3>1. IsOf(u, k)
      BY <2>3 DEF Written, NamesAreWritten
    <3> QED
      BY <2>1, <3>1 DEF IsOf
  <2> QED
    BY <1>0, <2>2, <2>3, StoreQuiet
<1>3. ASSUME NEW u \in Uploads, FindExisting(u)
      PROVE  Store!Next \/ UNCHANGED <<EvidenceContent, EvidenceAccepted>>
  BY <1>3, StoreCompares DEF FindExisting, At
<1>4. ASSUME NEW u \in Uploads, Compare(u)
      PROVE  Store!Next \/ UNCHANGED <<EvidenceContent, EvidenceAccepted>>
  <2>1. CASE Named(u) = None
    BY <1>4, <2>1, StoreQuiet DEF Compare
  <2>2. CASE Named(u) # None
    BY <1>4, <2>2, StoreCompares DEF Compare, At
  <2> QED
    BY <2>1, <2>2
<1>5. ASSUME NEW k \in Keys, Delete(k)
      PROVE  UNCHANGED <<EvidenceContent, EvidenceAccepted>>
  <2>1. \A e \in Evidence : visible'[e] = visible[e]
    BY <1>5 DEF TypeOK, Delete, Evidence
  <2> QED
    BY <1>5, <2>1, StoreQuiet DEF Delete
<1>6. CASE Crash
  BY <1>6, StoreQuiet DEF Crash
<1>7. CASE UNCHANGED filesVars
  BY <1>7, StoreQuiet DEF filesVars
<1> QED
  BY <1>1, <1>2, <1>3, <1>4, <1>5, <1>6, <1>7, StoreLinks, StoreLoses DEF Next

\* For the keys nobody deletes, the adapter is a write-once store: an object is put whole,
\* never replaced, and whoever is told of success has seen its own bytes there.
THEOREM StoreImplemented == Spec => StoreIsWriteOnce
<1>1. Init => Store!Init
  <2> SUFFICES ASSUME Init PROVE Store!Init
    OBVIOUS
  <2>1. EvidenceContent = [k \in Evidence |-> None]
    BY DEF Init, EvidenceContent, ContentOf, Evidence
  <2>2. EvidenceAccepted = [u \in Uploads |-> Unseen]
    BY DEF Init, EvidenceAccepted
  <2> QED
    BY <2>1, <2>2 DEF Store!Init, Store!Unseen, Unseen, EvidenceContent, EvidenceAccepted
<1>2. StorageInv /\ [Next]_filesVars => [Store!Next]_<<EvidenceContent, EvidenceAccepted>>
  BY StoreStep DEF StorageInv, Written
<1> QED
  BY <1>1, <1>2, StorageCorrect, PTL
  DEF Spec, StoreIsWriteOnce, Store!Spec, EvidenceContent, EvidenceAccepted

-----------------------------------------------------------------------------
(* MissedResponses: every response is mailed or accounted for *)

\* A finite set has an element that none of it precedes.
LEMMA SomeFirst ==
    ASSUME NEW S, IsFiniteSet(S), S # {}, NEW R,
           \A x \in S : <<x, x>> \notin R,
           \A x, y, z \in S : <<x, y>> \in R /\ <<y, z>> \in R => <<x, z>> \in R
    PROVE  \E x \in S : \A y \in S : <<y, x>> \notin R
<1> DEFINE Before(x) == {y \in S : <<y, x>> \in R}
           Initials == {Before(x) : x \in S}
<1>1. Initials \subseteq FiniteSubsetsOf(S) /\ Initials # {}
  <2>1. \A x \in S : Before(x) \in SUBSET S /\ IsFiniteSet(Before(x))
    BY FS_Subset
  <2>2. \A x \in S : Before(x) \in FiniteSubsetsOf(S)
    BY <2>1 DEF FiniteSubsetsOf
  <2>3. PICK x \in S : TRUE
    OBVIOUS
  <2>4. Before(x) \in Initials
    OBVIOUS
  <2> HIDE DEF Before
  <2> QED
    BY <2>2, <2>4
<1>2. PICK A \in Initials : \A B \in Initials : <<B, A>> \notin StrictSubsetOrdering(S)
  <2> HIDE DEF Initials
  <2> QED
    BY <1>1, FS_StrictSubsetOrderingWellFounded, WFMin
<1>3. PICK x \in S : A = Before(x)
  BY <1>2
<1>4. ASSUME NEW y \in S, <<y, x>> \in R
      PROVE  FALSE
  <2>1. \A z \in Before(y) : z \in A
    BY <1>3, <1>4
  <2>2. y \in A /\ y \notin Before(y)
    BY <1>3, <1>4
  <2>3. <<Before(y), A>> \in StrictSubsetOrdering(S)
    BY <2>1, <2>2, <1>3 DEF StrictSubsetOrdering
  <2> QED
    BY <2>3, <1>2
<1> QED
  BY <1>4

\* A finite set of integers has a least element ...
LEMMA MinIsLeast ==
    ASSUME NEW S \in SUBSET Int, IsFiniteSet(S), S # {}
    PROVE  Min(S) \in S /\ \A y \in S : Min(S) <= y
<1> DEFINE Less == {p \in Int \X Int : p[1] < p[2]}
<1>1. \A x, y \in Int : <<x, y>> \in Less <=> x < y
  OBVIOUS
<1> HIDE DEF Less
<1>2. \A x \in S : <<x, x>> \notin Less
  BY <1>1
<1>3. \A x, y, z \in S : <<x, y>> \in Less /\ <<y, z>> \in Less => <<x, z>> \in Less
  BY <1>1
<1>4. PICK x \in S : \A y \in S : <<y, x>> \notin Less
  BY <1>2, <1>3, SomeFirst
<1>5. \A y \in S : x <= y
  <2> TAKE y \in S
  <2>1. x \in Int /\ y \in Int /\ ~(y < x)
    BY <1>1, <1>4
  <2> QED
    BY <2>1
<1> QED
  BY <1>5 DEF Min

\* ... and a greatest.
LEMMA MaxIsGreatest ==
    ASSUME NEW S \in SUBSET Int, IsFiniteSet(S), S # {}
    PROVE  Max(S) \in S /\ \A y \in S : y <= Max(S)
<1> DEFINE More == {p \in Int \X Int : p[1] > p[2]}
<1>1. \A x, y \in Int : <<x, y>> \in More <=> x > y
  OBVIOUS
<1> HIDE DEF More
<1>2. \A x \in S : <<x, x>> \notin More
  BY <1>1
<1>3. \A x, y, z \in S : <<x, y>> \in More /\ <<y, z>> \in More => <<x, z>> \in More
  BY <1>1
<1>4. PICK x \in S : \A y \in S : <<y, x>> \notin More
  BY <1>2, <1>3, SomeFirst
<1>5. \A y \in S : x >= y
  <2> TAKE y \in S
  <2>1. x \in Int /\ y \in Int /\ ~(y > x)
    BY <1>1, <1>4
  <2> QED
    BY <2>1
<1>6. Max(S) \in S /\ \A y \in S : Max(S) >= y
  BY <1>5 DEF Max
<1>7. \A y \in S : y <= Max(S)
  <2> TAKE y \in S
  <2>1. y \in Int /\ Max(S) \in Int /\ Max(S) >= y
    BY <1>6
  <2> QED
    BY <2>1
<1> QED
  BY <1>6, <1>7

\* The first n of a set of numbers: at most n, all of them or n, and before the others.
LEMMA FirstOnes ==
    ASSUME NEW F \in SUBSET Int, IsFiniteSet(F), NEW n \in Nat \ {0},
           NEW B, B = {d \in F : Cardinality({x \in F : x < d}) < n}
    PROVE  /\ B \in SUBSET F /\ IsFiniteSet(B)
           /\ Cardinality(B) \in 0..n
           /\ B = F \/ Cardinality(B) = n
           /\ \A d \in F \ B, b \in B : b < d
<1> DEFINE Below(d) == {x \in F : x < d}
<1>1. B \in SUBSET F /\ IsFiniteSet(B) /\ Cardinality(B) \in Nat
  BY FS_Subset, FS_CardinalityType
<1>2. \A d \in Int : IsFiniteSet(Below(d)) /\ Cardinality(Below(d)) \in Nat
  BY FS_Subset, FS_CardinalityType
<1>3. \A d \in F : d \in B <=> Cardinality(Below(d)) < n
  OBVIOUS
<1>4. ASSUME NEW d \in F \ B, NEW b \in B
      PROVE  b < d
  <2> SUFFICES ASSUME d <= b
               PROVE  FALSE
    BY <1>1
  <2>1. Below(d) \in SUBSET Below(b)
    <3> SUFFICES ASSUME NEW x \in F, x < d
                 PROVE  x < b
      OBVIOUS
    <3> QED
      BY <1>1
  <2>2. Cardinality(Below(d)) <= Cardinality(Below(b))
    BY <2>1, <1>1, <1>2, FS_Subset
  <2> HIDE DEF Below
  <2> QED
    BY <2>2, <1>1, <1>2, <1>3
<1>5. Cardinality(B) <= n
  <2>1. CASE B = {}
    <3>1. Cardinality(B) = 0
      BY <2>1, FS_EmptySet
    <3> QED
      BY <3>1
  <2>2. CASE B # {}
    <3>1. PICK m \in B : \A y \in B : y <= m
      BY <2>2, <1>1, MaxIsGreatest
    <3>2. \A y \in B : y \in Below(m) \cup {m}
      <4> TAKE y \in B
      <4>1. y \in F /\ y \in Int /\ m \in Int /\ y <= m
        BY <3>1, <1>1
      <4> QED
        BY <4>1
    <3>3. m \in Int /\ m \notin Below(m)
      BY <1>1
    <3> HIDE DEF Below
    <3>4. /\ IsFiniteSet(Below(m) \cup {m})
          /\ Cardinality(Below(m) \cup {m}) = Cardinality(Below(m)) + 1
      BY <3>3, <1>2, FS_AddElement
    <3>5. B \in SUBSET (Below(m) \cup {m})
      BY <3>2
    <3>6. Cardinality(B) <= Cardinality(Below(m) \cup {m})
      BY <3>4, <3>5, FS_Subset
    <3>7. Cardinality(Below(m)) < n /\ Cardinality(Below(m)) \in Nat
      BY <3>3, <1>1, <1>2, <1>3
    <3> QED
      BY <3>4, <3>6, <3>7, <1>1
  <2> QED
    BY <2>1, <2>2
<1>6. ASSUME B # F
      PROVE  n <= Cardinality(B)
  <2> DEFINE Rest == F \ B
  <2>1. Rest \in SUBSET Int /\ IsFiniteSet(Rest) /\ Rest # {}
    BY <1>1, <1>6, FS_Subset
  <2> HIDE DEF Rest
  <2>2. PICK m \in Rest : \A y \in Rest : m <= y
    BY <2>1, MinIsLeast
  <2> USE DEF Rest
  <2>3. \A y \in Below(m) : y \in B
    <3> TAKE y \in Below(m)
    <3>1. y \in F /\ y \in Int /\ m \in Int /\ y < m
      OBVIOUS
    <3>2. y \notin Rest
      BY <3>1, <2>2
    <3> QED
      BY <3>1, <3>2
  <2>4. m \in F /\ m \notin B /\ m \in Int
    OBVIOUS
  <2> HIDE DEF Below
  <2>5. Cardinality(Below(m)) <= Cardinality(B)
    BY <2>3, <1>1, FS_Subset
  <2>6. ~(Cardinality(Below(m)) < n) /\ Cardinality(Below(m)) \in Nat
    BY <2>4, <1>2, <1>3
  <2> QED
    BY <2>5, <2>6, <1>1
<1> QED
  BY <1>1, <1>4, <1>5, <1>6

-----------------------------------------------------------------------------
(* The inductive invariant *)

\* The batch a query returns, and what is behind it.
LEMMA QueriedBatch ==
    ASSUME MissedTypeOK
    PROVE  /\ FirstBatch \in SUBSET Following /\ FirstBatch \in SUBSET Ids
           /\ Cardinality(FirstBatch) \in 0..BatchSize
           /\ FirstBatch = {} => Following = {}
           /\ FirstBatch # {} => /\ Max(FirstBatch) \in FirstBatch
                                 /\ \A d \in Following \ FirstBatch :
                                        d > Max(FirstBatch) /\ Cardinality(FirstBatch) = BatchSize
<1>1. Following \in SUBSET Ids /\ Ids \in SUBSET Int /\ IsFiniteSet(Following)
  <2>1. IsFiniteSet(Ids)
    BY MissedConstants, FS_Interval DEF Ids
  <2> QED
    BY <2>1, MissedConstants, FS_Subset DEF Following, Ids
<1>2. BatchSize \in Nat \ {0}
  BY MissedConstants
<1>3. /\ FirstBatch \in SUBSET Following /\ IsFiniteSet(FirstBatch)
      /\ Cardinality(FirstBatch) \in 0..BatchSize
      /\ FirstBatch = Following \/ Cardinality(FirstBatch) = BatchSize
      /\ \A d \in Following \ FirstBatch, b \in FirstBatch : b < d
  <2> DEFINE Batch == FirstBatch
  <2>1. Batch = {d \in Following : Cardinality({x \in Following : x < d}) < BatchSize}
    BY DEF FirstBatch
  <2>2. Following \in SUBSET Int
    BY <1>1
  <2> HIDE DEF Batch
  <2>3. /\ Batch \in SUBSET Following /\ IsFiniteSet(Batch)
        /\ Cardinality(Batch) \in 0..BatchSize
        /\ Batch = Following \/ Cardinality(Batch) = BatchSize
        /\ \A d \in Following \ Batch, b \in Batch : b < d
    BY <2>1, <2>2, <1>1, <1>2, FirstOnes
  <2> QED
    BY <2>3 DEF Batch
<1>4. CASE FirstBatch = {}
  <2>1. Cardinality(FirstBatch) = 0
    BY <1>4, FS_EmptySet
  <2> QED
    BY <2>1, <1>1, <1>2, <1>3, <1>4
<1>5. CASE FirstBatch # {}
  <2>1. Max(FirstBatch) \in FirstBatch
    BY <1>1, <1>3, <1>5, MaxIsGreatest
  <2>2. ASSUME NEW d \in Following \ FirstBatch
        PROVE  d > Max(FirstBatch) /\ Cardinality(FirstBatch) = BatchSize
    <3>1. Max(FirstBatch) < d /\ Max(FirstBatch) \in Int /\ d \in Int
      BY <1>1, <1>3, <2>1
    <3> QED
      BY <3>1, <1>3
  <2> QED
    BY <1>1, <1>3, <1>5, <2>1, <2>2
<1> QED
  BY <1>4, <1>5

\* The scan takes its batch from the front.
LEMMA FrontOfBatch ==
    ASSUME MissedTypeOK, scan.batch # {}
    PROVE  Min(scan.batch) \in scan.batch /\ Min(scan.batch) \in Ids
<1>1. scan.batch \in SUBSET Ids /\ Ids \in SUBSET Int /\ IsFiniteSet(Ids)
  BY MissedConstants, FS_Interval DEF MissedTypeOK, Ids
<1>2. scan.batch \in SUBSET Int /\ IsFiniteSet(scan.batch)
  BY <1>1, FS_Subset
<1> QED
  BY <1>1, <1>2, MinIsLeast

\* A step of the hooks.
HookStep(d) ==
    Commit(d) \/ Schedule(d) \/ HookEnsures(d) \/ HookCreates(d) \/ HookFails(d)

\* A step of the scan.
ScanStep == StartScan \/ QueryBatch \/ Visit \/ ScanCreates \/ EndBatch \/ ScanFails

\* Every step keeps the types.
LEMMA MissedType ==
    ASSUME MissedTypeOK, ScanMissesNothing, MissedNext
    PROVE  MissedTypeOK'
<1> USE MissedConstants
<1>1. ASSUME NEW d \in Ids, HookStep(d)
      PROVE  MissedTypeOK'
  BY <1>1 DEF HookStep, Commit, Schedule, HookEnsures, HookCreates, HookFails, HookAt, MissedTypeOK
<1>2. CASE StartScan
  BY <1>2 DEF StartScan, NoScan, MissedTypeOK
<1>3. CASE QueryBatch
  <2>1. /\ FirstBatch \in SUBSET Ids /\ Cardinality(FirstBatch) \in 0..BatchSize
        /\ FirstBatch # {} => Max(FirstBatch) \in Ids
    BY QueriedBatch
  <2>2. (IF FirstBatch = {} THEN scan.cursor ELSE Max(FirstBatch)) \in 0..LastId
    BY <2>1 DEF MissedTypeOK, Ids
  <2>3. FirstBatch \cap responseRows \in SUBSET Ids
    BY <2>1
  <2> QED
    BY <1>3, <2>1, <2>2, <2>3 DEF QueryBatch, MissedTypeOK
<1>4. CASE Visit
  BY <1>4 DEF Visit, MissedTypeOK
<1>5. CASE ScanCreates \/ EndBatch \/ ScanFails
  <2>1. CASE ScanCreates
    <3>1. Min(scan.batch) \in Ids
      BY <2>1, FrontOfBatch DEF ScanCreates, ScanMissesNothing
    <3>2. responseRows' \in SUBSET Ids
      BY <2>1, <3>1 DEF ScanCreates, MissedTypeOK
    <3> QED
      BY <2>1, <3>2 DEF ScanCreates, MissedTypeOK
  <2>2. CASE EndBatch
    BY <2>2 DEF EndBatch, MissedTypeOK
  <2>3. CASE ScanFails
    BY <2>3 DEF ScanFails, MissedTypeOK
  <2> QED
    BY <1>5, <2>1, <2>2, <2>3
<1>6. CASE Restart
  BY <1>6 DEF Restart, NoScan, MissedTypeOK
<1> QED
  BY <1>1, <1>2, <1>3, <1>4, <1>5, <1>6 DEF MissedNext, HookStep

\* What can be mailed stays so, and rows and verdicts stay.
LEMMA RowsAndVerdictsStay ==
    ASSUME MissedTypeOK, MissedNext
    PROVE  /\ outcome' = outcome
           /\ verdict \subseteq verdict' /\ responseRows \subseteq responseRows'
           /\ \A d \in Ids : /\ Mailable(d) => Mailable(d)'
                             /\ Recoverable(d) => Recoverable(d)'
<1>1. outcome' = outcome /\ verdict \subseteq verdict' /\ responseRows \subseteq responseRows'
  <2>1. ASSUME NEW d \in Ids, HookStep(d)
        PROVE  /\ outcome' = outcome
               /\ verdict \subseteq verdict' /\ responseRows \subseteq responseRows'
    BY <2>1 DEF HookStep, Commit, Schedule, HookEnsures, HookCreates, HookFails, HookAt
  <2>2. CASE ScanStep \/ Restart
    BY <2>2 DEF ScanStep, StartScan, QueryBatch, Visit, ScanCreates, EndBatch, ScanFails, Restart
  <2> QED
    BY <2>1, <2>2 DEF MissedNext, HookStep, ScanStep
<1> QED
  BY <1>1 DEF Mailable, HasResponse, Recoverable

\* A scan leaves hooks and verdicts alone, and its rows are of verdicts that can be mailed.
LEMMA ScanLeavesHooks ==
    ASSUME ScanStep
    PROVE  /\ UNCHANGED <<outcome, verdict, hook>>
           /\ responseRows' = responseRows \/ ScanCreates
BY DEF ScanStep, StartScan, QueryBatch, Visit, ScanCreates, EndBatch, ScanFails

\* Where a hook stands says what it has seen, and rows are for what can be mailed.
LEMMA HooksStep ==
    ASSUME MissedTypeOK, HooksFollowVerdicts, OnlyAnswersAreMailed, ScanMissesNothing, MissedNext
    PROVE  HooksFollowVerdicts' /\ OnlyAnswersAreMailed'
<1> USE DEF Mailable, HasResponse
<1>1. ASSUME NEW d \in Ids, HookStep(d)
      PROVE  HooksFollowVerdicts' /\ OnlyAnswersAreMailed'
  <2> USE <1>1 DEF HookAt, MissedTypeOK, HooksFollowVerdicts, OnlyAnswersAreMailed
  <2>1. CASE Commit(d)
    BY <2>1 DEF Commit
  <2>2. CASE Schedule(d)
    BY <2>2 DEF Schedule
  <2>3. CASE HookEnsures(d)
    BY <2>3 DEF HookEnsures
  <2>4. CASE HookCreates(d)
    BY <2>4 DEF HookCreates
  <2>5. CASE HookFails(d)
    BY <2>5 DEF HookFails
  <2> QED
    BY <1>1, <2>1, <2>2, <2>3, <2>4, <2>5 DEF HookStep
<1>2. CASE ScanStep
  <2>1. UNCHANGED <<outcome, verdict, hook>> /\ responseRows \subseteq responseRows'
    BY <1>2, ScanLeavesHooks, RowsAndVerdictsStay
  <2>2. HooksFollowVerdicts'
    BY <2>1 DEF HooksFollowVerdicts
  <2>3. \A d \in responseRows' : d \in responseRows \/ Mailable(d)
    BY <1>2, ScanLeavesHooks DEF ScanCreates, ScanMissesNothing
  <2> QED
    BY <2>1, <2>2, <2>3 DEF OnlyAnswersAreMailed
<1>3. CASE Restart
  BY <1>3 DEF Restart, MissedTypeOK, HooksFollowVerdicts, OnlyAnswersAreMailed
<1> QED
  BY <1>1, <1>2, <1>3 DEF MissedNext, HookStep, ScanStep

\* The scan keeps before it what it found owing.
LEMMA ScanKeepsDue ==
    ASSUME MissedTypeOK, OnlyAnswersAreMailed, ScanMissesNothing, MissedNext
    PROVE  ScanMissesNothing'
<1>1. \A d \in due : d \in Ids /\ Recoverable(d) /\ Mailable(d)
  BY DEF ScanMissesNothing
<1>2. \A d \in Ids : (Mailable(d) => Mailable(d)') /\ (Recoverable(d) => Recoverable(d)')
  BY RowsAndVerdictsStay
<1>3. responseRows \subseteq responseRows'
  BY RowsAndVerdictsStay
<1>4. ASSUME UNCHANGED <<scan, due>>
      PROVE  ScanMissesNothing'
  <2>1. scan.label = "create" => Min(scan.batch) \in Ids
    BY FrontOfBatch DEF ScanMissesNothing
  <2>2. scan.label = "create" => Mailable(Min(scan.batch))'
    BY <2>1, <1>2, <1>4 DEF ScanMissesNothing
  <2>3. due' \subseteq {d \in Ids : Recoverable(d)' /\ Mailable(d)'}
    BY <1>1, <1>2, <1>4
  <2> QED
    BY <1>3, <1>4, <2>2, <2>3 DEF ScanMissesNothing, WillVisit
<1>5. CASE StartScan
  <2>1. scan' = [label |-> "query", cursor |-> 0, size |-> 0, batch |-> {}, had |-> {}]
    BY <1>5 DEF StartScan, NoScan
  <2>2. /\ due' = {d \in Ids : Recoverable(d) /\ Mailable(d)}
        /\ due' = {d \in Ids : Recoverable(d)' /\ Mailable(d)'}
    BY <1>5 DEF StartScan, Recoverable, Mailable, HasResponse
  <2>3. \A d \in Ids : d > 0
    BY MissedConstants DEF Ids
  <2> QED
    BY <2>1, <2>2, <2>3 DEF ScanMissesNothing, WillVisit
<1>6. CASE QueryBatch
  <2>1. /\ scan.label = "query" /\ scan.batch = {} /\ scan'.label = "visit"
        /\ scan'.batch = FirstBatch /\ scan'.size = Cardinality(FirstBatch)
        /\ scan'.had = FirstBatch \cap responseRows
        /\ FirstBatch # {} => scan'.cursor = Max(FirstBatch)
        /\ UNCHANGED <<outcome, verdict, responseRows, due>>
    BY <1>6 DEF QueryBatch, ScanMissesNothing
  <2>2. \A d \in due \ responseRows : d \in Following
    BY <2>1, <1>1 DEF ScanMissesNothing, WillVisit, Following
  <2>3. \A d \in due \ responseRows : WillVisit(d)'
    <3> TAKE d \in due \ responseRows
    <3>1. CASE d \in FirstBatch
      BY <2>1, <3>1 DEF WillVisit
    <3>2. CASE d \notin FirstBatch
      <4>1. /\ FirstBatch # {} /\ d > Max(FirstBatch)
            /\ Cardinality(FirstBatch) = BatchSize
        BY <3>2, <2>2, QueriedBatch
      <4> QED
        BY <4>1, <2>1 DEF WillVisit
    <3> QED
      BY <3>1, <3>2
  <2>4. due' \subseteq {d \in Ids : Recoverable(d)' /\ Mailable(d)'}
    BY <2>1, <1>1, <1>2
  <2> QED
    BY <2>1, <2>3, <2>4 DEF ScanMissesNothing
<1>7. CASE Visit
  <2> DEFINE first == Min(scan.batch)
  <2>1. scan.label = "visit" /\ first \in scan.batch /\ first \in Ids
    BY <1>7, FrontOfBatch DEF Visit
  <2> HIDE DEF first
  <2>2. UNCHANGED <<outcome, verdict, responseRows, due>>
    BY <1>7 DEF Visit
  <2>3. due' \subseteq {d \in Ids : Recoverable(d)' /\ Mailable(d)'}
    BY <2>2, <1>1, <1>2
  <2>4. CASE first \notin scan.had /\ Mailable(first) /\ first \notin responseRows
    <3>1. scan' = [scan EXCEPT !.label = "create"]
      BY <1>7, <2>4 DEF Visit, first
    <3>2. /\ scan'.label = "create" /\ scan'.batch = scan.batch /\ scan'.had = scan.had
          /\ scan'.cursor = scan.cursor /\ scan'.size = scan.size
      BY <3>1 DEF MissedTypeOK
    <3>3. Mailable(Min(scan.batch))'
      BY <2>2, <2>4, <3>2 DEF first, Mailable, HasResponse
    <3>4. \A d \in due \ responseRows : WillVisit(d)'
      BY <3>2, <2>1 DEF ScanMissesNothing, WillVisit
    <3> QED
      BY <2>1, <2>2, <2>3, <3>2, <3>3, <3>4 DEF ScanMissesNothing
  <2>5. CASE ~(first \notin scan.had /\ Mailable(first) /\ first \notin responseRows)
    <3>1. scan' = [scan EXCEPT !.batch = @ \ {first}]
      BY <1>7, <2>5 DEF Visit, first
    <3>2. /\ scan'.label = "visit" /\ scan'.batch = scan.batch \ {first}
          /\ scan'.had = scan.had /\ scan'.cursor = scan.cursor /\ scan'.size = scan.size
      BY <3>1, <2>1 DEF MissedTypeOK
    <3>3. first \notin due \ responseRows
      BY <2>5, <1>1 DEF ScanMissesNothing
    <3>4. \A d \in due \ responseRows : WillVisit(d)'
      BY <3>2, <3>3, <2>1 DEF ScanMissesNothing, WillVisit
    <3> QED
      BY <2>2, <2>3, <3>2, <3>4 DEF ScanMissesNothing
  <2> QED
    BY <2>4, <2>5
<1>8. CASE ScanCreates
  <2> DEFINE first == Min(scan.batch)
  <2>1. /\ scan.label = "create"
        /\ scan' = [scan EXCEPT !.label = "visit", !.batch = @ \ {first}]
        /\ responseRows' = responseRows \cup {first}
        /\ UNCHANGED <<outcome, verdict, due>>
    BY <1>8 DEF ScanCreates
  <2> HIDE DEF first
  <2>2. /\ scan'.label = "visit" /\ scan'.batch = scan.batch \ {first}
        /\ scan'.had = scan.had /\ scan'.cursor = scan.cursor /\ scan'.size = scan.size
    BY <2>1 DEF MissedTypeOK
  <2>3. due' \subseteq {d \in Ids : Recoverable(d)' /\ Mailable(d)'}
    BY <2>1, <1>1, <1>2
  <2>4. \A d \in due \ responseRows' : WillVisit(d)'
    BY <2>1, <2>2 DEF ScanMissesNothing, WillVisit
  <2> QED
    BY <2>1, <2>2, <2>3, <2>4 DEF ScanMissesNothing
<1>9. CASE EndBatch
  <2>1. /\ scan.label = "visit" /\ scan.batch = {}
        /\ scan' = [scan EXCEPT !.label = IF BatchIsLast THEN "ended" ELSE "query"]
        /\ UNCHANGED <<outcome, verdict, responseRows, due>>
    BY <1>9 DEF EndBatch
  <2>2. /\ scan'.label = IF scan.size < BatchSize THEN "ended" ELSE "query"
        /\ scan'.batch = scan.batch /\ scan'.had = scan.had
        /\ scan'.cursor = scan.cursor /\ scan'.size = scan.size
    BY <2>1 DEF MissedTypeOK, BatchIsLast
  <2>3. \A d \in due \ responseRows : WillVisit(d)'
    <3> TAKE d \in due \ responseRows
    <3>1. d > scan.cursor /\ scan.size = BatchSize /\ ~(scan.size < BatchSize)
      BY <2>1, MissedConstants DEF ScanMissesNothing, WillVisit
    <3> QED
      BY <3>1, <2>2 DEF WillVisit
  <2>4. due' \subseteq {d \in Ids : Recoverable(d)' /\ Mailable(d)'}
    BY <2>1, <1>1, <1>2
  <2> QED
    BY <2>1, <2>2, <2>3, <2>4 DEF ScanMissesNothing
<1>10. CASE ScanFails \/ Restart
  <2>1. /\ scan'.label \in {"off", "failed"} /\ scan'.had \subseteq responseRows
        /\ UNCHANGED <<outcome, verdict, responseRows, due>>
    BY <1>10 DEF ScanFails, Restart, NoScan, ScanMissesNothing, MissedTypeOK
  <2>2. due' \subseteq {d \in Ids : Recoverable(d)' /\ Mailable(d)'}
    BY <2>1, <1>1, <1>2
  <2> QED
    BY <2>1, <2>2 DEF ScanMissesNothing
<1>11. ASSUME NEW d \in Ids, HookStep(d)
       PROVE  UNCHANGED <<scan, due>>
  BY <1>11 DEF HookStep, Commit, Schedule, HookEnsures, HookCreates, HookFails
<1> QED
  BY <1>4, <1>5, <1>6, <1>7, <1>8, <1>9, <1>10, <1>11 DEF MissedNext, HookStep

\* However many documents are decided while processes die and hooks fail, each verdict
\* that can be mailed has its delivery or a hook on the way, or its hook was lost; a
\* startup scan that ends, in batches of any size, leaves none of those it found; and
\* nothing else is mailed.
THEOREM ResponsesAccountedFor ==
    MissedSpec => []MissedInv
<1> DEFINE Inv == /\ MissedTypeOK /\ OnlyAnswersAreMailed
                  /\ HooksFollowVerdicts /\ ScanMissesNothing
<1>1. MissedInit => Inv
  <2> SUFFICES ASSUME MissedInit PROVE Inv
    OBVIOUS
  <2>1. MissedTypeOK
    BY MissedConstants DEF MissedInit, MissedTypeOK, NoScan
  <2>2. OnlyAnswersAreMailed /\ HooksFollowVerdicts
    BY DEF MissedInit, OnlyAnswersAreMailed, HooksFollowVerdicts
  <2>3. ScanMissesNothing
    BY DEF MissedInit, ScanMissesNothing, NoScan
  <2> QED
    BY <2>1, <2>2, <2>3
<1>2. Inv /\ [MissedNext]_missedVars => Inv'
  <2>1. Inv /\ MissedNext => Inv'
    BY MissedType, HooksStep, ScanKeepsDue
  <2>2. Inv /\ UNCHANGED missedVars => Inv'
    BY DEF missedVars, MissedTypeOK, OnlyAnswersAreMailed, HooksFollowVerdicts,
           ScanMissesNothing, WillVisit, Mailable, Recoverable, HasResponse
  <2> QED
    BY <2>1, <2>2
<1>3. Inv => MissedInv
  <2> SUFFICES ASSUME Inv PROVE EveryVerdictIsAccountedFor
    BY DEF MissedInv
  <2>1. \A d \in Ids \ responseRows : Mailable(d) =>
            hook[d] \in {"index", "scheduled", "create", "lost"}
    BY DEF MissedTypeOK, HooksFollowVerdicts, Mailable, HasResponse
  <2>2. scan.label = "ended" => \A d \in due : d \in responseRows
    BY DEF ScanMissesNothing, WillVisit
  <2> QED
    BY <2>1, <2>2 DEF EveryVerdictIsAccountedFor
<1> QED
  BY <1>1, <1>2, <1>3, PTL DEF MissedSpec
-----------------------------------------------------------------------------
(* XmlPreparation: one signed XML stands behind a document *)

\* What a preparation has behind it at each of its awaits.
PreparationInOrder(p) ==
    /\ prepPc[p] \notin {"read", "attempt", "done"} => artifact.exists
    /\ adapter = "local" /\ prepPc[p] = "complete" => signedFile = p
    /\ prepPc[p] \in {"findIndex", "createIndex", "hook"} => artifact.signed # "NONE"
    /\ prepPc[p] = "createIndex" =>
          /\ prepMem[p].source # "NONE"
          /\ adapter = "local" => prepMem[p].source = artifact.signed
    /\ prepPc[p] = "hook" => index # "NONE"

\* What the document's rows say of each other, whoever wrote them.
RowsInOrder ==
    /\ artifact.signed # "NONE" => artifact.exists
    /\ submission.signed # "NONE" => artifact.signed # "NONE"
    /\ adapter = "local" => submission.signed \in {"NONE", artifact.signed}
    /\ index # "NONE" => artifact.signed # "NONE"
    /\ "NONE" \notin servedXml

XmlOrder ==
    /\ Xml!SignedXmlInv
    /\ RowsInOrder
    /\ \A p \in Preparations : PreparationInOrder(p)

\* The reads of a call change nothing but where it is and what it remembers.
LEMMA XmlReads ==
    ASSUME XmlOrder, NEW p \in Preparations,
           Xml!ReadFinished(p) \/ Xml!ReadDocument(p) \/ Xml!Conflict(p) \/ Xml!FindIndex(p)
    PROVE  XmlOrder'
<1>1. /\ UNCHANGED <<adapter, status, artifact, unsignedFile, signedFile, index, submission,
                     servedXml, initialDelivery, mishaps>>
      /\ Xml!TypeOK
  BY DEF XmlOrder, Xml!SignedXmlInv, Xml!ReadFinished, Xml!ReadDocument, Xml!Conflict,
     Xml!FindIndex
<1>2. /\ prepPc' \in [Preparations -> Xml!Labels] /\ prepMem' \in [Preparations -> Xml!Memory]
  BY <1>1 DEF Xml!TypeOK, Xml!ReadFinished, Xml!ReadDocument, Xml!Conflict, Xml!FindIndex,
     Xml!At, Xml!Remember, Xml!Labels, Xml!Memory, Xml!Artifact, Xml!Signature
<1>3. \A q \in Preparations : PreparationInOrder(q)'
  <2>1. TAKE q \in Preparations
  <2>2. CASE q # p
    BY <1>1, <2>2 DEF XmlOrder, PreparationInOrder, Xml!TypeOK, Xml!ReadFinished,
       Xml!ReadDocument, Xml!Conflict, Xml!FindIndex, Xml!At, Xml!Remember
  <2>3. CASE q = p /\ ~Xml!FindIndex(p)
    BY <1>1, <2>3 DEF XmlOrder, PreparationInOrder, Xml!TypeOK, Xml!ReadFinished,
       Xml!ReadDocument, Xml!Conflict, Xml!At, Xml!Remember
  <2>4. CASE q = p /\ Xml!FindIndex(p)
    BY <1>1, <2>4 DEF XmlOrder, PreparationInOrder, Xml!TypeOK, Xml!FindIndex, Xml!At,
       Xml!Remember, Xml!Memory, Xml!None
  <2> QED
    BY <2>2, <2>3, <2>4
<1> QED
  BY <1>1, <1>2, <1>3 DEF XmlOrder, RowsInOrder, Xml!SignedXmlInv, Xml!TypeOK,
     Xml!ReadyIsSigned, Xml!EvidenceIsStored, Xml!OneSignedXml, Xml!PostedAsRecorded,
     Xml!DeliveryIsPrepared

\* A write before the last one records no signature: the artifact's row begins, the document
\* advances, and the unsigned object is there.
LEMMA XmlAdvances ==
    ASSUME XmlOrder, NEW p \in Preparations,
           \/ Xml!RecordAttempt(p) \/ Xml!UploadUnsigned(p) \/ Xml!RecordGenerated(p)
           \/ Xml!Sign(p) \/ Xml!MarkFailure(p)
    PROVE  XmlOrder'
<1>1. /\ UNCHANGED <<adapter, signedFile, index, submission, prepMem, servedXml,
                     initialDelivery, mishaps>>
      /\ Xml!TypeOK
  BY DEF XmlOrder, Xml!SignedXmlInv, Xml!RecordAttempt, Xml!UploadUnsigned,
     Xml!RecordGenerated, Xml!Sign, Xml!MarkFailure
<1>2. /\ artifact' \in Xml!Artifact /\ artifact'.signed = artifact.signed
      /\ artifact.exists => artifact'.exists
  BY <1>1 DEF Xml!TypeOK, Xml!Artifact, Xml!RecordAttempt, Xml!UploadUnsigned,
     Xml!RecordGenerated, Xml!Sign, Xml!MarkFailure
<1>3. /\ status' \in Xml!Statuses
      /\ status' = status \/ status' \in {"XML_GENERATED", "SIGNED"}
  BY <1>1 DEF Xml!TypeOK, Xml!RecordAttempt, Xml!UploadUnsigned, Xml!RecordGenerated,
     Xml!Sign, Xml!MarkFailure, Xml!Statuses, Xml!PreReady
<1>4. \E to \in {"generate", "generated", "sign", "upload", "done"} :
          /\ prepPc' = [prepPc EXCEPT ![p] = to]
          /\ to # "done" => artifact'.exists
  BY <1>1, <1>2 DEF XmlOrder, PreparationInOrder, Xml!TypeOK, Xml!RecordAttempt,
     Xml!UploadUnsigned, Xml!RecordGenerated, Xml!Sign, Xml!MarkFailure, Xml!At, Xml!Artifact
<1>5. prepPc' \in [Preparations -> Xml!Labels] /\ unsignedFile' \in BOOLEAN
  BY <1>1, <1>4 DEF Xml!TypeOK, Xml!Labels, Xml!RecordAttempt, Xml!UploadUnsigned,
     Xml!RecordGenerated, Xml!Sign, Xml!MarkFailure
<1>6. \A q \in Preparations : PreparationInOrder(q)'
  <2>1. TAKE q \in Preparations
  <2>2. CASE q # p
    BY <1>1, <1>2, <1>4, <2>2 DEF XmlOrder, PreparationInOrder, Xml!TypeOK
  <2>3. CASE q = p
    BY <1>1, <1>2, <1>4, <2>3 DEF XmlOrder, PreparationInOrder, Xml!TypeOK
  <2> QED
    BY <2>2, <2>3
<1>7. Xml!TypeOK'
  BY <1>1, <1>2, <1>3, <1>5 DEF Xml!TypeOK
<1> QED
  BY <1>1, <1>2, <1>3, <1>6, <1>7 DEF XmlOrder, RowsInOrder, Xml!SignedXmlInv,
     Xml!ReadyIsSigned, Xml!EvidenceIsStored, Xml!OneSignedXml, Xml!PostedAsRecorded,
     Xml!DeliveryIsPrepared, Xml!Terminal

\* The local adapter takes the first signed XML and refuses every later one.
LEMMA XmlUpload ==
    ASSUME XmlOrder, NEW p \in Preparations, Xml!UploadSigned(p)
    PROVE  XmlOrder'
<1>1. /\ UNCHANGED <<adapter, status, artifact, unsignedFile, index, submission, prepMem,
                     servedXml, initialDelivery, mishaps>>
      /\ Xml!TypeOK /\ artifact.exists
  BY DEF XmlOrder, PreparationInOrder, Xml!SignedXmlInv, Xml!UploadSigned, Xml!At
<1>2. \E to \in {"failing", "complete"} :
          /\ prepPc' = [prepPc EXCEPT ![p] = to]
          /\ to = "complete" => signedFile' = p
          /\ signedFile' = signedFile \/ signedFile' = p
  BY <1>1 DEF Xml!UploadSigned, Xml!At
<1>3. adapter = "local" /\ signedFile # "NONE" => signedFile' = signedFile
  BY DEF Xml!UploadSigned, Xml!None
<1>4. /\ prepPc' \in [Preparations -> Xml!Labels] /\ signedFile' \in Xml!Signature
  BY <1>1, <1>2 DEF Xml!TypeOK, Xml!Labels, Xml!Signature
<1>5. \A q \in Preparations : PreparationInOrder(q)'
  <2>1. TAKE q \in Preparations
  <2>2. CASE q # p
    BY <1>1, <1>2, <1>3, <2>2, EvidenceConstants DEF XmlOrder, PreparationInOrder, Xml!TypeOK
  <2>3. CASE q = p
    BY <1>1, <1>2, <2>3 DEF XmlOrder, PreparationInOrder, Xml!TypeOK
  <2> QED
    BY <2>2, <2>3
<1>6. Xml!EvidenceIsStored'
  BY <1>1, <1>3 DEF XmlOrder, Xml!SignedXmlInv, Xml!EvidenceIsStored, Xml!None
<1> QED
  BY <1>1, <1>4, <1>5, <1>6 DEF XmlOrder, RowsInOrder, Xml!SignedXmlInv, Xml!TypeOK,
     Xml!ReadyIsSigned, Xml!OneSignedXml, Xml!PostedAsRecorded, Xml!DeliveryIsPrepared

\* The last transaction of a call records the signature it stored: with write-once storage
\* the one on record, when there is one.
LEMMA XmlComplete ==
    ASSUME XmlOrder, NEW p \in Preparations, Xml!Complete(p)
    PROVE  XmlOrder'
<1>1. /\ UNCHANGED <<adapter, unsignedFile, signedFile, index, submission, prepMem,
                     servedXml, initialDelivery, mishaps>>
      /\ Xml!TypeOK /\ artifact.exists /\ prepPc' = [prepPc EXCEPT ![p] = "findIndex"]
      /\ status' = "READY_TO_SUBMIT"
      /\ adapter = "local" => signedFile = p
  BY DEF XmlOrder, PreparationInOrder, Xml!SignedXmlInv, Xml!Complete, Xml!At
<1>2. /\ artifact' \in Xml!Artifact /\ artifact'.signed = p /\ artifact'.exists
      /\ p # "NONE"
  BY <1>1, EvidenceConstants DEF Xml!TypeOK, Xml!Artifact, Xml!Signature, Xml!Complete
<1>3. adapter = "local" /\ artifact.signed # "NONE" => artifact'.signed = artifact.signed
  BY <1>1, <1>2 DEF XmlOrder, Xml!SignedXmlInv, Xml!EvidenceIsStored, Xml!None
<1>4. \A q \in Preparations : PreparationInOrder(q)'
  <2>1. TAKE q \in Preparations
  <2>2. CASE q # p
    BY <1>1, <1>2, <1>3, <2>2 DEF XmlOrder, PreparationInOrder, Xml!TypeOK
  <2>3. CASE q = p
    BY <1>1, <1>2, <2>3 DEF XmlOrder, PreparationInOrder, Xml!TypeOK
  <2> QED
    BY <2>2, <2>3
<1>5. Xml!TypeOK'
  BY <1>1, <1>2 DEF Xml!TypeOK, Xml!Labels, Xml!Statuses
<1>6. RowsInOrder' /\ Xml!OneSignedXml'
  BY <1>1, <1>2, <1>3 DEF XmlOrder, RowsInOrder, Xml!SignedXmlInv, Xml!OneSignedXml,
     Xml!PostedAsRecorded, Xml!None
<1> QED
  BY <1>1, <1>2, <1>4, <1>5, <1>6 DEF XmlOrder, Xml!SignedXmlInv, Xml!ReadyIsSigned,
     Xml!EvidenceIsStored, Xml!PostedAsRecorded, Xml!DeliveryIsPrepared, Xml!None

\* The index takes the hash the artifact recorded, once; the delivery is scheduled after it;
\* a failure or a crash only ends the call.
LEMMA XmlEnds ==
    ASSUME XmlOrder, NEW p \in Preparations,
           \/ Xml!CreateIndex(p) \/ Xml!ScheduleDelivery(p) \/ Xml!ServiceFails(p)
           \/ Xml!Crash(p)
    PROVE  XmlOrder'
<1>1. /\ UNCHANGED <<adapter, status, artifact, unsignedFile, signedFile, submission, prepMem,
                     servedXml>>
      /\ Xml!TypeOK
  BY DEF XmlOrder, Xml!SignedXmlInv, Xml!CreateIndex, Xml!ScheduleDelivery,
     Xml!ServiceFails, Xml!Crash
<1>2. /\ index' \in {index, prepMem[p].source}
      /\ index # "NONE" => index' = index
      /\ index' # index => prepPc[p] = "createIndex"
  BY DEF Xml!CreateIndex, Xml!ScheduleDelivery, Xml!ServiceFails, Xml!Crash, Xml!At, Xml!None
<1>3. PICK to \in {"hook", "failing", "done"} :
          /\ prepPc' = [prepPc EXCEPT ![p] = to]
          /\ to = "hook" => index' # "NONE" /\ artifact.signed # "NONE"
          /\ to = "failing" => artifact.exists
  BY <1>1 DEF XmlOrder, PreparationInOrder, Xml!CreateIndex, Xml!ScheduleDelivery,
     Xml!ServiceFails, Xml!Crash, Xml!At, Xml!None, RowsInOrder
<1>4. /\ initialDelivery' \in BOOLEAN
      /\ initialDelivery' => initialDelivery \/ (index # "NONE" /\ artifact.signed # "NONE")
  <2>1. CASE Xml!ScheduleDelivery(p)
    BY <2>1 DEF XmlOrder, PreparationInOrder, Xml!ScheduleDelivery, Xml!At
  <2>2. CASE ~Xml!ScheduleDelivery(p)
    BY <1>1, <2>2 DEF Xml!TypeOK, Xml!CreateIndex, Xml!ServiceFails, Xml!Crash
  <2> QED
    BY <2>1, <2>2
<1>5. Xml!TypeOK'
  <2>1. mishaps' \in 0..MaxMishaps
    BY <1>1, EvidenceConstants DEF Xml!TypeOK, Xml!CreateIndex, Xml!ScheduleDelivery,
       Xml!ServiceFails, Xml!Crash
  <2>2. index' \in Xml!Signature
    BY <1>1, <1>2 DEF Xml!TypeOK, Xml!Memory
  <2>3. prepPc' \in [Preparations -> Xml!Labels]
    BY <1>1, <1>3 DEF Xml!TypeOK, Xml!Labels
  <2> QED
    BY <1>1, <1>4, <2>1, <2>2, <2>3 DEF Xml!TypeOK
<1>6. \A q \in Preparations : PreparationInOrder(q)'
  <2>1. TAKE q \in Preparations
  <2>2. CASE q # p
    BY <1>1, <1>2, <1>3, <2>2 DEF XmlOrder, PreparationInOrder, Xml!TypeOK
  <2>3. CASE q = p
    BY <1>1, <1>2, <1>3, <2>3 DEF XmlOrder, PreparationInOrder, RowsInOrder, Xml!TypeOK
  <2> QED
    BY <2>2, <2>3
<1>7. RowsInOrder' /\ Xml!OneSignedXml' /\ Xml!DeliveryIsPrepared'
  BY <1>1, <1>2, <1>4 DEF XmlOrder, PreparationInOrder, RowsInOrder, Xml!SignedXmlInv,
     Xml!OneSignedXml, Xml!DeliveryIsPrepared, Xml!None
<1> QED
  BY <1>1, <1>5, <1>6, <1>7 DEF XmlOrder, Xml!SignedXmlInv, Xml!ReadyIsSigned,
     Xml!EvidenceIsStored, Xml!PostedAsRecorded

\* The submission takes and posts what is on record and stored; a download hands it out.
LEMMA XmlUsed ==
    ASSUME XmlOrder,
           \/ Xml!TakeForSubmission \/ Xml!Post \/ Xml!Decide
           \/ Xml!ResolveSignedXmlBytes \/ Xml!DownloadArtifact
    PROVE  XmlOrder'
<1>1. /\ UNCHANGED <<adapter, artifact, unsignedFile, signedFile, index, prepPc, prepMem,
                     initialDelivery, mishaps>>
      /\ Xml!TypeOK
  BY DEF XmlOrder, Xml!SignedXmlInv, Xml!TakeForSubmission, Xml!Post, Xml!Decide,
     Xml!ResolveSignedXmlBytes, Xml!DownloadArtifact, Xml!Serve
<1>2. /\ submission' \in Xml!Submission
      /\ submission'.signed \in {submission.signed, artifact.signed}
      /\ submission.signed # "NONE" => submission'.signed = submission.signed
      /\ submission'.posted \in {"NONE", submission'.signed}
  BY <1>1 DEF XmlOrder, Xml!SignedXmlInv, Xml!PostedAsRecorded, Xml!TypeOK, Xml!Submission,
     Xml!Artifact, Xml!TakeForSubmission, Xml!Post, Xml!Decide, Xml!ResolveSignedXmlBytes,
     Xml!DownloadArtifact, Xml!Serve, Xml!None
<1>3. /\ status' \in Xml!Statuses
      /\ status' # status => artifact.signed # "NONE"
  BY <1>1 DEF XmlOrder, RowsInOrder, Xml!SignedXmlInv, Xml!PostedAsRecorded, Xml!TypeOK,
     Xml!TakeForSubmission, Xml!Post, Xml!Decide, Xml!ResolveSignedXmlBytes,
     Xml!DownloadArtifact, Xml!Serve, Xml!Statuses, Xml!None
<1>4. /\ servedXml' \subseteq Xml!Signature
      /\ servedXml' \subseteq servedXml \cup {signedFile}
      /\ servedXml' # servedXml => signedFile \in {artifact.signed, index} /\ signedFile # "NONE"
  BY <1>1 DEF Xml!TypeOK, Xml!TakeForSubmission, Xml!Post, Xml!Decide,
     Xml!ResolveSignedXmlBytes, Xml!DownloadArtifact, Xml!Serve, Xml!None
<1>5. \A q \in Preparations : PreparationInOrder(q)'
  BY <1>1 DEF XmlOrder, PreparationInOrder
<1>6. Xml!TypeOK'
  BY <1>1, <1>2, <1>3, <1>4 DEF Xml!TypeOK
<1>7. RowsInOrder' /\ Xml!ReadyIsSigned'
  BY <1>1, <1>2, <1>3, <1>4 DEF XmlOrder, RowsInOrder, Xml!SignedXmlInv, Xml!ReadyIsSigned, Xml!None
<1>8. Xml!OneSignedXml' /\ Xml!PostedAsRecorded'
  BY <1>1, <1>2, <1>4, <1>7 DEF XmlOrder, RowsInOrder, Xml!SignedXmlInv, Xml!OneSignedXml,
     Xml!PostedAsRecorded, Xml!None
<1> QED
  BY <1>1, <1>5, <1>6, <1>7, <1>8 DEF XmlOrder, Xml!SignedXmlInv, Xml!EvidenceIsStored,
     Xml!DeliveryIsPrepared

LEMMA XmlInOrder == EvidenceSpec => []XmlOrder
<1>1. EvidenceInit => XmlOrder
  <2> SUFFICES ASSUME Xml!Init PROVE XmlOrder
    BY DEF EvidenceInit
  <2>1. Xml!TypeOK
    <3>1. artifact \in Xml!Artifact /\ submission \in Xml!Submission
      BY DEF Xml!Init, Xml!Artifact, Xml!Signature, Xml!Submission
    <3>2. /\ prepPc \in [Preparations -> Xml!Labels]
          /\ prepMem \in [Preparations -> Xml!Memory]
      BY DEF Xml!Init, Xml!Labels, Xml!Memory, Xml!Signature
    <3>3. mishaps \in 0..MaxMishaps
      BY EvidenceConstants DEF Xml!Init
    <3> QED
      BY <3>1, <3>2, <3>3 DEF Xml!Init, Xml!TypeOK, Xml!Statuses, Xml!PreReady, Xml!Signature
  <2> QED
    BY <2>1 DEF Xml!Init, XmlOrder, RowsInOrder, PreparationInOrder, Xml!SignedXmlInv,
       Xml!ReadyIsSigned, Xml!EvidenceIsStored, Xml!OneSignedXml, Xml!PostedAsRecorded,
       Xml!DeliveryIsPrepared, Xml!None, Xml!Terminal
<1>2. XmlOrder /\ [EvidenceNext]_evidenceVars => XmlOrder'
  <2> SUFFICES ASSUME XmlOrder, [EvidenceNext]_evidenceVars PROVE XmlOrder'
    OBVIOUS
  <2>1. CASE UNCHANGED xmlVars
    <3>1. \A p \in Preparations : PreparationInOrder(p)'
      BY <2>1 DEF xmlVars, XmlOrder, PreparationInOrder
    <3> QED
      BY <2>1, <3>1 DEF xmlVars, XmlOrder, RowsInOrder, Xml!SignedXmlInv, Xml!TypeOK,
         Xml!ReadyIsSigned, Xml!EvidenceIsStored, Xml!OneSignedXml, Xml!PostedAsRecorded,
         Xml!DeliveryIsPrepared
  <2>2. CASE Xml!Next
    BY <2>2, XmlReads, XmlAdvances, XmlUpload, XmlComplete, XmlEnds, XmlUsed
       DEF Xml!Next, Xml!Step
  <2> QED
    BY <2>1, <2>2 DEF EvidenceNext, evidenceVars, MoveFiles, MoveXml, MovePdf, MovePackages,
       MoveMissed
<1> QED
  BY <1>1, <1>2, PTL DEF EvidenceSpec

\* One signed XML stands behind a document that can be submitted, recorded, stored, indexed,
\* posted and handed out, however many preparations race, fail and die.
THEOREM SignedXmlCorrect == EvidenceSpec => []Xml!SignedXmlInv
<1>1. XmlOrder => Xml!SignedXmlInv
  BY DEF XmlOrder
<1> QED
  BY <1>1, XmlInOrder, PTL

\* No late preparation takes a decided document back, however many there are.
THEOREM DecisionIsKeptHolds == EvidenceSpec => DecisionIsKept
<1>1. XmlOrder /\ [EvidenceNext]_evidenceVars
        => [status \notin Xml!Terminal \/ UNCHANGED status]_Xml!xmlVars
  <2> SUFFICES ASSUME [EvidenceNext]_evidenceVars, status \in Xml!Terminal
               PROVE  UNCHANGED status
    BY DEF Xml!xmlVars
  <2>1. CASE UNCHANGED xmlVars
    BY <2>1 DEF xmlVars
  <2>2. CASE Xml!Next
    BY <2>2 DEF Xml!Next, Xml!Step, Xml!ReadFinished, Xml!ReadDocument, Xml!RecordAttempt,
       Xml!UploadUnsigned, Xml!Conflict, Xml!RecordGenerated, Xml!Sign, Xml!UploadSigned,
       Xml!Complete, Xml!FindIndex, Xml!CreateIndex, Xml!ScheduleDelivery, Xml!MarkFailure,
       Xml!ServiceFails, Xml!Crash, Xml!TakeForSubmission, Xml!Post, Xml!Decide,
       Xml!ResolveSignedXmlBytes, Xml!DownloadArtifact, Xml!Serve, Xml!Advanceable
  <2> QED
    BY <2>1, <2>2 DEF EvidenceNext, evidenceVars, MoveFiles, MoveXml, MovePdf, MovePackages,
       MoveMissed
<1> QED
  BY <1>1, XmlInOrder, PTL DEF EvidenceSpec, DecisionIsKept, Xml!DecisionIsKept
-----------------------------------------------------------------------------
(* PdfArtifacts: one PDF stands behind a document, with its file *)

\* What a generation has behind it at each of its awaits: no row but current ones past the
\* lookups; a rendering from the upload on; a file for it until there is a row, unless a call
\* that was misled deleted the same rendering; and a row of other bytes before it deletes
\* its own, unless it was misled.
GenerationInOrder(g) ==
    /\ pdfPc[g] \notin {"find", "assess", "findAny", "done"} => rows = Pdf!Current
    /\ pdfPc[g] \in {"upload", "insert", "collision", "compensate"} =>
          pdfMem[g].content \in Pdf!Content
    /\ pdfPc[g] = "insert" /\ files[pdfMem[g].content] = "absent" =>
          rows # {} \/ \E h \in misled : pdfMem[h].content = pdfMem[g].content
    /\ pdfPc[g] = "compensate" /\ g \notin misled =>
          \E row \in rows : row.content # pdfMem[g].content
    /\ g \in misled => pdfPc[g] \in {"compensate", "done"}

\* A logo is stored before it is saved, and deleted only if its save failed.
LogoInOrder(l) ==
    /\ logoPc[l] = "store" => logo # l
    /\ logoPc[l] = "save" => logo # l /\ l \in logoFiles
    /\ logoPc[l] = "compensate" /\ logo = l => l \in unanswered

\* While nothing fails, whoever stored a file still has to insert its row or to delete it.
FilesAreOwned ==
    pdfMishaps = 0 =>
        \A c \in Pdf!AnyContent : files[c] # "absent" =>
            \/ \E row \in rows : row.content = c
            \/ \E g \in Generations : /\ pdfPc[g] \in {"insert", "collision", "compensate"}
                                      /\ pdfMem[g].content = c

RowsAreOne == \A r, s \in rows : r = s

PdfOrder ==
    /\ Pdf!TypeOK /\ Pdf!OnePdf /\ Pdf!RowHasFile /\ Pdf!HistoryIsKept /\ Pdf!LogoIsStored
    /\ RowsAreOne /\ FilesAreOwned
    /\ \A g \in Generations : GenerationInOrder(g)
    /\ \A l \in Logos : LogoInOrder(l)

\* Only an intact file of the current renderer is reused.
LEMMA ReusableIsIntact ==
    ASSUME Pdf!TypeOK, NEW row \in rows
    PROVE  /\ row.content \in Pdf!AnyContent /\ row.version \in Pdf!Versions
           /\ Pdf!Reusable(row) => row.version = "VALID_REAL_CURRENT"
           /\ Pdf!Downloadable(row) =>
                  row.version \in {"VALID_REAL_CURRENT", "VALID_REAL_OLDER_VERSION"}
<1>1. row.content \in Pdf!AnyContent /\ row.version \in Pdf!Versions
  BY DEF Pdf!TypeOK, Pdf!Row, Pdf!AnyContent
<1>2. Pdf!Assess(row) \in {"MISSING", "HASH_MISMATCH", row.version}
  BY DEF Pdf!Assess
<1> QED
  BY <1>1, <1>2 DEF Pdf!Reusable, Pdf!Downloadable

\* A row of these contents and the current version is this record.
LEMMA CurrentRowIs ==
    ASSUME Pdf!TypeOK, NEW row \in rows, row.version = "VALID_REAL_CURRENT"
    PROVE  row = Pdf!CurrentRow(row.content)
BY DEF Pdf!TypeOK, Pdf!Row, Pdf!CurrentRow

\* A step of one generation that stores and deletes nothing and writes no row: the answer it
\* may give is the row's, and it goes on with what its next await needs.
GenerationGoesOn(g) ==
    /\ UNCHANGED <<second, rows, files, servedPdf, misled, logoFiles, logo, logoPc, unanswered>>
    /\ pdfMishaps' \in 0..MaxPdfMishaps /\ (pdfMishaps' = 0 => pdfMishaps = 0)
    /\ \E to \in Pdf!Labels :
          /\ pdfPc' = [pdfPc EXCEPT ![g] = to]
          /\ to \notin {"insert", "compensate"}
          /\ pdfPc[g] \in {"compensate", "done"} => to = "done"
          /\ pdfPc[g] \in {"insert", "collision", "compensate"} /\ pdfMishaps' = 0 =>
                \/ to = "collision"
                \/ \E row \in rows : row.content = pdfMem[g].content
          /\ to \notin {"find", "assess", "findAny", "done"} => rows = Pdf!Current
          /\ to \in {"upload", "collision"} => pdfMem'[g].content \in Pdf!Content
    /\ \/ pdfMem' = pdfMem
       \/ /\ pdfPc[g] \in {"branding", "render"}
          /\ \E m \in [logo : Logos \cup {Pdf!None}, content : Pdf!AnyContent] :
                pdfMem' = [pdfMem EXCEPT ![g] = m]
    /\ \/ answer' = answer
       \/ \E row \in Pdf!Current : answer' = [answer EXCEPT ![g] = row.content]

LEMMA GoesOnKeeps ==
    ASSUME PdfOrder, NEW g \in Generations, GenerationGoesOn(g)
    PROVE  PdfOrder'
<1>1. /\ UNCHANGED <<second, rows, files, servedPdf, misled, logoFiles, logo, logoPc, unanswered>>
      /\ pdfMishaps' \in 0..MaxPdfMishaps
      /\ pdfMishaps' = 0 => pdfMishaps = 0
      /\ Pdf!TypeOK /\ Pdf!Current' = Pdf!Current
  BY DEF GenerationGoesOn, PdfOrder, Pdf!Current
<1>2. PICK to \in Pdf!Labels :
          /\ pdfPc' = [pdfPc EXCEPT ![g] = to]
          /\ to \notin {"insert", "compensate"}
          /\ pdfPc[g] \in {"compensate", "done"} => to = "done"
          /\ pdfPc[g] \in {"insert", "collision", "compensate"} /\ pdfMishaps' = 0 =>
                \/ to = "collision"
                \/ \E row \in rows : row.content = pdfMem[g].content
          /\ to \notin {"find", "assess", "findAny", "done"} => rows = Pdf!Current
          /\ to \in {"upload", "collision"} => pdfMem'[g].content \in Pdf!Content
  BY DEF GenerationGoesOn
<1>3. /\ pdfMem' \in [Generations -> [logo : Logos \cup {Pdf!None}, content : Pdf!AnyContent]]
      /\ \A h \in Generations : h # g => pdfMem'[h] = pdfMem[h]
      /\ pdfPc[g] \notin {"branding", "render"} => pdfMem'[g] = pdfMem[g]
  BY <1>1 DEF GenerationGoesOn, Pdf!TypeOK
<1>4. /\ pdfPc' \in [Generations -> Pdf!Labels] /\ pdfPc'[g] = to
      /\ \A h \in Generations : h # g => pdfPc'[h] = pdfPc[h]
  BY <1>1, <1>2 DEF Pdf!TypeOK
<1>5. /\ answer' \in [Generations -> Pdf!AnyContent]
      /\ \A h \in Generations :
            answer'[h] = answer[h] \/ Pdf!CurrentRow(answer'[h]) \in rows
  <2>1. CASE answer' = answer
    BY <1>1, <2>1 DEF Pdf!TypeOK
  <2>2. ASSUME NEW row \in Pdf!Current, answer' = [answer EXCEPT ![g] = row.content]
        PROVE  /\ answer' \in [Generations -> Pdf!AnyContent]
               /\ \A h \in Generations :
                     answer'[h] = answer[h] \/ Pdf!CurrentRow(answer'[h]) \in rows
    <3>1. row \in rows /\ row.content \in Pdf!AnyContent /\ row = Pdf!CurrentRow(row.content)
      BY <1>1, ReusableIsIntact, CurrentRowIs DEF Pdf!Current
    <3> QED
      BY <1>1, <2>2, <3>1 DEF Pdf!TypeOK
  <2> QED
    BY <2>1, <2>2 DEF GenerationGoesOn
<1>6. misled \subseteq Generations /\ \A h \in misled : pdfMem'[h] = pdfMem[h]
  BY <1>1, <1>3 DEF PdfOrder, GenerationInOrder, Pdf!TypeOK
<1>7. \A h \in Generations : GenerationInOrder(h)'
  <2>1. TAKE h \in Generations
  <2>2. CASE h # g
    BY <1>1, <1>3, <1>4, <1>6, <2>2 DEF PdfOrder, GenerationInOrder
  <2>3. CASE h = g
    BY <1>1, <1>2, <1>4, <2>3 DEF PdfOrder, GenerationInOrder, Pdf!Labels
  <2> QED
    BY <2>2, <2>3
<1>8. FilesAreOwned'
  <2> SUFFICES ASSUME pdfMishaps' = 0, NEW c \in Pdf!AnyContent, files[c] # "absent",
                      \A row \in rows : row.content # c
               PROVE  \E h \in Generations :
                          /\ pdfPc'[h] \in {"insert", "collision", "compensate"}
                          /\ pdfMem'[h].content = c
    BY <1>1 DEF FilesAreOwned
  <2>1. PICK h \in Generations : /\ pdfPc[h] \in {"insert", "collision", "compensate"}
                                 /\ pdfMem[h].content = c
    BY <1>1 DEF PdfOrder, FilesAreOwned
  <2>2. CASE h # g
    BY <1>3, <1>4, <2>1, <2>2
  <2>3. CASE h = g
    BY <1>2, <1>3, <1>4, <2>1, <2>3
  <2> QED
    BY <2>2, <2>3
<1>9. Pdf!TypeOK'
  BY <1>1, <1>3, <1>4, <1>5 DEF Pdf!TypeOK
<1>10. Pdf!OnePdf'
  BY <1>1, <1>5 DEF PdfOrder, Pdf!OnePdf, Pdf!CurrentRow
<1>11. Pdf!RowHasFile'
  BY <1>1, <1>6 DEF PdfOrder, Pdf!RowHasFile
<1>12. Pdf!HistoryIsKept' /\ Pdf!LogoIsStored' /\ RowsAreOne'
  BY <1>1 DEF PdfOrder, Pdf!HistoryIsKept, Pdf!LogoIsStored, RowsAreOne
<1>13. \A l \in Logos : LogoInOrder(l)'
  BY <1>1 DEF PdfOrder, LogoInOrder
<1> QED
  BY <1>7, <1>8, <1>9, <1>10, <1>11, <1>12, <1>13 DEF PdfOrder

\* The lookups, the rendering, the answers and the losses of a call go on like this.
LEMMA PdfReads ==
    ASSUME PdfOrder, NEW g \in Generations,
           \/ Pdf!FindCurrent(g) \/ Pdf!FindAny(g) \/ Pdf!ReadBranding(g) \/ Pdf!Render(g)
           \/ Pdf!ReuseCurrent(g) \/ Pdf!InsertCollides(g) \/ Pdf!FindWinner(g)
           \/ Pdf!Abandon(g)
    PROVE  GenerationGoesOn(g)
<1>1. /\ Pdf!TypeOK /\ GenerationInOrder(g) /\ pdfMishaps \in 0..MaxPdfMishaps
      /\ pdfMem[g] \in [logo : Logos \cup {Pdf!None}, content : Pdf!AnyContent]
  BY DEF PdfOrder, Pdf!TypeOK
<1>2. CASE Pdf!FindCurrent(g)
  BY <1>1, <1>2 DEF Pdf!FindCurrent, Pdf!At, Pdf!LogosUnchanged, GenerationGoesOn, Pdf!Labels
<1>3. CASE Pdf!FindAny(g)
  BY <1>1, <1>3 DEF Pdf!FindAny, Pdf!At, Pdf!LogosUnchanged, GenerationGoesOn, Pdf!Labels,
     Pdf!Current
<1>4. CASE Pdf!ReadBranding(g)
  <2>1. [pdfMem[g] EXCEPT !.logo = IF logo \in logoFiles THEN logo ELSE Pdf!None]
            \in [logo : Logos \cup {Pdf!None}, content : Pdf!AnyContent]
    BY <1>1 DEF Pdf!TypeOK
  <2>2. pdfMem' = [pdfMem EXCEPT ![g] =
                      [pdfMem[g] EXCEPT !.logo = IF logo \in logoFiles THEN logo ELSE Pdf!None]]
    BY <1>4 DEF Pdf!ReadBranding
  <2> QED
    BY <1>1, <1>4, <2>1, <2>2 DEF Pdf!ReadBranding, Pdf!At, Pdf!LogosUnchanged,
       GenerationGoesOn, Pdf!Labels, GenerationInOrder
<1>5. CASE Pdf!Render(g)
  <2> DEFINE made == [second |-> second, logo |-> pdfMem[g].logo]
             m == [pdfMem[g] EXCEPT !.content = made]
  <2>1. made \in Pdf!Content
    BY <1>1 DEF Pdf!TypeOK, Pdf!Content
  <2>2. /\ m \in [logo : Logos \cup {Pdf!None}, content : Pdf!AnyContent]
        /\ m.content = made
    BY <1>1, <2>1 DEF Pdf!AnyContent
  <2>3. pdfMem' = [pdfMem EXCEPT ![g] = m] /\ pdfMem'[g] = m
    BY <1>1, <1>5 DEF Pdf!Render, Pdf!TypeOK
  <2> HIDE DEF m, made
  <2> QED
    BY <1>1, <1>5, <2>1, <2>2, <2>3 DEF Pdf!Render, Pdf!At, Pdf!LogosUnchanged,
       GenerationGoesOn, Pdf!Labels, GenerationInOrder
<1>6. CASE Pdf!ReuseCurrent(g)
  BY <1>1, <1>6 DEF Pdf!ReuseCurrent, Pdf!At, Pdf!LogosUnchanged, GenerationGoesOn, Pdf!Labels
<1>7. CASE Pdf!InsertCollides(g)
  BY <1>1, <1>7 DEF Pdf!InsertCollides, Pdf!At, Pdf!LogosUnchanged, GenerationGoesOn,
     Pdf!Labels, GenerationInOrder
<1>8. CASE Pdf!FindWinner(g)
  <2>1. PICK row \in Pdf!Current : row.content = pdfMem[g].content
    BY <1>8 DEF Pdf!FindWinner, Pdf!MatchingWinners
  <2> QED
    BY <1>1, <1>8, <2>1 DEF Pdf!FindWinner, Pdf!At, Pdf!LogosUnchanged, GenerationGoesOn,
       Pdf!Labels, Pdf!Current
<1>9. CASE Pdf!Abandon(g)
  BY <1>1, <1>9, EvidenceConstants DEF Pdf!Abandon, Pdf!At, Pdf!LogosUnchanged,
     GenerationGoesOn, Pdf!Labels
<1> QED
  BY <1>2, <1>3, <1>4, <1>5, <1>6, <1>7, <1>8, <1>9

\* The upload leaves an intact file of this rendering, or refuses bytes over damaged ones.
LEMMA PdfUpload ==
    ASSUME PdfOrder, NEW g \in Generations, Pdf!Upload(g)
    PROVE  PdfOrder'
<1>1. /\ UNCHANGED <<second, rows, pdfMem, answer, servedPdf, misled, logoFiles, logo, logoPc,
                     unanswered, pdfMishaps>>
      /\ Pdf!TypeOK /\ Pdf!Current' = Pdf!Current
  BY DEF Pdf!Upload, Pdf!LogosUnchanged, PdfOrder, Pdf!Current
<1>2. pdfPc[g] = "upload" /\ pdfMem[g].content \in Pdf!Content
  BY DEF Pdf!Upload, Pdf!At, PdfOrder, GenerationInOrder
<1>3. /\ pdfPc' \in [Generations -> Pdf!Labels]
      /\ \A h \in Generations : h # g => pdfPc'[h] = pdfPc[h]
      /\ pdfPc'[g] \in {"done", "insert"}
      /\ files[pdfMem[g].content] # "damaged" => pdfPc'[g] = "insert"
      /\ pdfPc'[g] = "insert" => files'[pdfMem[g].content] = "intact"
  BY <1>1, <1>2 DEF Pdf!Upload, Pdf!At, Pdf!TypeOK, Pdf!Labels, Pdf!AnyContent
<1>4. /\ files' \in [Pdf!AnyContent -> {"absent", "intact", "damaged"}]
      /\ \A c \in Pdf!AnyContent : files'[c] = files[c]
                                   \/ (files'[c] = "intact" /\ c = pdfMem[g].content
                                       /\ pdfPc'[g] = "insert")
  BY <1>1, <1>2, <1>3 DEF Pdf!Upload, Pdf!TypeOK, Pdf!AnyContent
<1>5. \A h \in Generations : pdfMem[h].content \in Pdf!AnyContent
  BY <1>1 DEF Pdf!TypeOK
<1>6. \A h \in Generations : GenerationInOrder(h)'
  <2>1. TAKE h \in Generations
  <2>2. CASE h # g
    BY <1>1, <1>3, <1>4, <1>5, <2>2 DEF PdfOrder, GenerationInOrder
  <2>3. CASE h = g
    BY <1>1, <1>2, <1>3, <2>3 DEF PdfOrder, GenerationInOrder
  <2> QED
    BY <2>2, <2>3
<1>7. FilesAreOwned'
  <2> SUFFICES ASSUME pdfMishaps = 0, NEW c \in Pdf!AnyContent, files'[c] # "absent",
                      \A row \in rows : row.content # c
               PROVE  \E h \in Generations :
                          /\ pdfPc'[h] \in {"insert", "collision", "compensate"}
                          /\ pdfMem[h].content = c
    BY <1>1 DEF FilesAreOwned
  <2>1. CASE files'[c] = files[c]
    <3>1. PICK h \in Generations : /\ pdfPc[h] \in {"insert", "collision", "compensate"}
                                   /\ pdfMem[h].content = c
      BY <2>1 DEF PdfOrder, FilesAreOwned
    <3> QED
      BY <1>2, <1>3, <3>1
  <2>2. CASE files'[c] # files[c]
    BY <1>4, <2>2
  <2> QED
    BY <2>1, <2>2
<1>8. Pdf!RowHasFile' /\ Pdf!HistoryIsKept'
  <2>1. \A row \in rows : row.content \in Pdf!AnyContent
    BY <1>1, ReusableIsIntact
  <2>2. Pdf!Historical \in Pdf!AnyContent
    BY DEF Pdf!AnyContent
  <2> QED
    BY <1>1, <1>4, <2>1, <2>2 DEF PdfOrder, Pdf!RowHasFile, Pdf!HistoryIsKept, Pdf!Current
<1>9. Pdf!TypeOK'
  BY <1>1, <1>3, <1>4 DEF Pdf!TypeOK
<1>10. /\ Pdf!OnePdf' /\ Pdf!LogoIsStored' /\ RowsAreOne'
       /\ \A l \in Logos : LogoInOrder(l)'
  BY <1>1 DEF PdfOrder, Pdf!OnePdf, Pdf!LogoIsStored, RowsAreOne, LogoInOrder
<1> QED
  BY <1>6, <1>7, <1>8, <1>9, <1>10 DEF PdfOrder

\* A call inserts a row only where there is none, and then it is the one row.
LEMMA PdfInsert ==
    ASSUME PdfOrder, NEW g \in Generations, Pdf!Insert(g) \/ Pdf!InsertFails(g)
    PROVE  PdfOrder'
<1> DEFINE content == pdfMem[g].content
           made == Pdf!CurrentRow(content)
<1>1. /\ UNCHANGED <<second, files, pdfMem, servedPdf, misled, logoFiles, logo, logoPc,
                     unanswered>>
      /\ Pdf!TypeOK
      /\ pdfMishaps' \in 0..MaxPdfMishaps
      /\ pdfMishaps' = 0 => pdfMishaps = 0 /\ Pdf!Insert(g)
  BY EvidenceConstants DEF Pdf!Insert, Pdf!InsertFails, Pdf!LogosUnchanged, PdfOrder, Pdf!TypeOK
<1>2. pdfPc[g] = "insert" /\ content \in Pdf!Content /\ rows = {}
  BY DEF Pdf!Insert, Pdf!InsertFails, Pdf!At, PdfOrder, GenerationInOrder
<1>3. /\ pdfPc' \in [Generations -> Pdf!Labels]
      /\ \A h \in Generations : h # g => pdfPc'[h] = pdfPc[h]
      /\ pdfPc'[g] \in {"done", "collision"}
  BY <1>1 DEF Pdf!Insert, Pdf!InsertFails, Pdf!At, Pdf!TypeOK, Pdf!Labels
<1>4. /\ rows' = {} \/ rows' = {made}
      /\ Pdf!Insert(g) => rows' = {made}
      /\ made \in Pdf!Row /\ made.version = "VALID_REAL_CURRENT" /\ made.content = content
  BY <1>2 DEF Pdf!Insert, Pdf!InsertFails, Pdf!CurrentRow, Pdf!Row, Pdf!Versions
<1>5. /\ answer' \in [Generations -> Pdf!AnyContent]
      /\ \A h \in Generations :
            \/ answer'[h] = answer[h]
            \/ answer'[h] = content /\ rows' = {made}
  BY <1>1, <1>2, <1>4 DEF Pdf!Insert, Pdf!InsertFails, Pdf!TypeOK, Pdf!AnyContent
<1> HIDE DEF made, content
<1>6. Pdf!Current' = rows'
  BY <1>4 DEF Pdf!Current
<1>7. \A h \in Generations : GenerationInOrder(h)'
  <2>1. TAKE h \in Generations
  <2>2. CASE h # g
    BY <1>1, <1>2, <1>3, <1>6, <2>2 DEF PdfOrder, GenerationInOrder
  <2>3. CASE h = g
    BY <1>1, <1>2, <1>3, <1>6, <2>3 DEF PdfOrder, GenerationInOrder, content
  <2> QED
    BY <2>2, <2>3
<1>8. FilesAreOwned'
  <2> SUFFICES ASSUME pdfMishaps' = 0, NEW c \in Pdf!AnyContent, files[c] # "absent",
                      c # content
               PROVE  \E h \in Generations :
                          /\ pdfPc'[h] \in {"insert", "collision", "compensate"}
                          /\ pdfMem[h].content = c
    BY <1>1, <1>4 DEF FilesAreOwned
  <2>1. PICK h \in Generations : /\ pdfPc[h] \in {"insert", "collision", "compensate"}
                                 /\ pdfMem[h].content = c
    BY <1>1, <1>2 DEF PdfOrder, FilesAreOwned
  <2> QED
    BY <1>3, <2>1 DEF content
<1>9. Pdf!RowHasFile'
  <2> SUFFICES ASSUME rows' = {made}, files[content] = "absent"
               PROVE  \E h \in misled : pdfMem[h].content = content
    BY <1>1, <1>4, <1>6 DEF Pdf!RowHasFile
  <2> QED
    BY <1>2 DEF PdfOrder, GenerationInOrder, content
<1>10. Pdf!OnePdf'
  <2>1. servedPdf = {}
    BY <1>2 DEF PdfOrder, Pdf!OnePdf
  <2>2. \A h \in Generations : answer[h] = Pdf!NoContent
    BY <1>2 DEF PdfOrder, Pdf!OnePdf
  <2> QED
    BY <1>1, <1>5, <2>1, <2>2 DEF Pdf!OnePdf, made, Pdf!CurrentRow
<1>11. Pdf!HistoryIsKept' /\ RowsAreOne'
  BY <1>4 DEF Pdf!HistoryIsKept, RowsAreOne
<1>12. Pdf!LogoIsStored' /\ \A l \in Logos : LogoInOrder(l)'
  BY <1>1 DEF PdfOrder, Pdf!LogoIsStored, LogoInOrder
<1>13. Pdf!TypeOK'
  BY <1>1, <1>3, <1>4, <1>5 DEF Pdf!TypeOK
<1> QED
  BY <1>7, <1>8, <1>9, <1>10, <1>11, <1>12, <1>13 DEF PdfOrder

\* A loser that sees no row of other bytes is misled; it remembers that.
LEMMA PdfLoses ==
    ASSUME PdfOrder, NEW g \in Generations, Pdf!FindNoWinner(g) \/ Pdf!WinnerUnreadable(g)
    PROVE  PdfOrder'
<1>1. /\ UNCHANGED <<second, rows, files, pdfMem, answer, servedPdf, logoFiles, logo, logoPc,
                     unanswered>>
      /\ Pdf!TypeOK /\ Pdf!Current' = Pdf!Current
      /\ pdfMishaps' \in 0..MaxPdfMishaps
      /\ pdfMishaps' = 0 => pdfMishaps = 0
  BY EvidenceConstants DEF Pdf!FindNoWinner, Pdf!WinnerUnreadable, Pdf!LogosUnchanged, PdfOrder,
     Pdf!TypeOK, Pdf!Current
<1>2. pdfPc[g] = "collision" /\ pdfMem[g].content \in Pdf!Content /\ rows = Pdf!Current
  BY DEF Pdf!FindNoWinner, Pdf!WinnerUnreadable, Pdf!At, PdfOrder, GenerationInOrder
<1>3. /\ pdfPc' \in [Generations -> Pdf!Labels]
      /\ \A h \in Generations : h # g => pdfPc'[h] = pdfPc[h]
      /\ pdfPc'[g] = "compensate"
  BY <1>1 DEF Pdf!FindNoWinner, Pdf!WinnerUnreadable, Pdf!At, Pdf!TypeOK, Pdf!Labels
<1>4. /\ misled' = misled \/ misled' = misled \cup {g}
      /\ g \notin misled' => \E row \in rows : row.content # pdfMem[g].content
  BY <1>2 DEF Pdf!FindNoWinner, Pdf!WinnerUnreadable, Pdf!NoteIfMisled
<1>5. \A h \in Generations : GenerationInOrder(h)'
  <2>1. TAKE h \in Generations
  <2>2. CASE h # g
    BY <1>1, <1>3, <1>4, <2>2 DEF PdfOrder, GenerationInOrder
  <2>3. CASE h = g
    BY <1>1, <1>2, <1>3, <1>4, <2>3 DEF PdfOrder, GenerationInOrder
  <2> QED
    BY <2>2, <2>3
<1>6. FilesAreOwned'
  <2> SUFFICES ASSUME pdfMishaps' = 0, NEW c \in Pdf!AnyContent, files[c] # "absent",
                      \A row \in rows : row.content # c
               PROVE  \E h \in Generations :
                          /\ pdfPc'[h] \in {"insert", "collision", "compensate"}
                          /\ pdfMem[h].content = c
    BY <1>1 DEF FilesAreOwned
  <2>1. PICK h \in Generations : /\ pdfPc[h] \in {"insert", "collision", "compensate"}
                                 /\ pdfMem[h].content = c
    BY <1>1 DEF PdfOrder, FilesAreOwned
  <2> QED
    BY <1>3, <2>1
<1>7. Pdf!TypeOK'
  BY <1>1, <1>3, <1>4 DEF Pdf!TypeOK
<1>8. Pdf!RowHasFile'
  BY <1>1, <1>4 DEF PdfOrder, Pdf!RowHasFile
<1>9. Pdf!OnePdf' /\ Pdf!HistoryIsKept' /\ Pdf!LogoIsStored' /\ RowsAreOne'
  BY <1>1 DEF PdfOrder, Pdf!OnePdf, Pdf!HistoryIsKept, Pdf!LogoIsStored, RowsAreOne
<1>10. \A l \in Logos : LogoInOrder(l)'
  BY <1>1 DEF PdfOrder, LogoInOrder
<1> QED
  BY <1>5, <1>6, <1>7, <1>8, <1>9, <1>10 DEF PdfOrder

\* A loser deletes its own rendering: the row's only if it was misled.
LEMMA PdfCompensates ==
    ASSUME PdfOrder, NEW g \in Generations, Pdf!Compensate(g)
    PROVE  PdfOrder'
<1>1. /\ UNCHANGED <<second, rows, pdfMem, answer, servedPdf, misled, logoFiles, logo, logoPc,
                     unanswered, pdfMishaps>>
      /\ Pdf!TypeOK /\ Pdf!Current' = Pdf!Current
  BY DEF Pdf!Compensate, Pdf!LogosUnchanged, PdfOrder, Pdf!Current
<1>2. /\ pdfPc[g] = "compensate" /\ pdfMem[g].content \in Pdf!Content /\ rows = Pdf!Current
      /\ g \notin misled => \E row \in rows : row.content # pdfMem[g].content
  BY DEF Pdf!Compensate, Pdf!At, PdfOrder, GenerationInOrder
<1>3. /\ pdfPc' \in [Generations -> Pdf!Labels]
      /\ \A h \in Generations : h # g => pdfPc'[h] = pdfPc[h]
      /\ pdfPc'[g] = "done"
  BY <1>1 DEF Pdf!Compensate, Pdf!At, Pdf!TypeOK, Pdf!Labels
<1>4. /\ files' \in [Pdf!AnyContent -> {"absent", "intact", "damaged"}]
      /\ \A c \in Pdf!AnyContent : c # pdfMem[g].content => files'[c] = files[c]
      /\ files'[pdfMem[g].content] = "absent"
  BY <1>1, <1>2 DEF Pdf!Compensate, Pdf!TypeOK, Pdf!AnyContent
<1>5. \A h \in Generations : pdfMem[h].content \in Pdf!AnyContent
  BY <1>1 DEF Pdf!TypeOK
<1>6. \A h \in Generations : GenerationInOrder(h)'
  <2>1. TAKE h \in Generations
  <2>2. CASE h # g
    BY <1>1, <1>2, <1>3, <1>4, <1>5, <2>2 DEF PdfOrder, GenerationInOrder
  <2>3. CASE h = g
    BY <1>1, <1>2, <1>3, <2>3 DEF PdfOrder, GenerationInOrder
  <2> QED
    BY <2>2, <2>3
<1>7. FilesAreOwned'
  <2> SUFFICES ASSUME pdfMishaps = 0, NEW c \in Pdf!AnyContent, files'[c] # "absent",
                      \A row \in rows : row.content # c
               PROVE  \E h \in Generations :
                          /\ pdfPc'[h] \in {"insert", "collision", "compensate"}
                          /\ pdfMem[h].content = c
    BY <1>1 DEF FilesAreOwned
  <2>1. c # pdfMem[g].content /\ files[c] # "absent"
    BY <1>4
  <2>2. PICK h \in Generations : /\ pdfPc[h] \in {"insert", "collision", "compensate"}
                                 /\ pdfMem[h].content = c
    BY <2>1 DEF PdfOrder, FilesAreOwned
  <2> QED
    BY <1>3, <2>1, <2>2
<1>8. Pdf!RowHasFile'
  <2> SUFFICES ASSUME NEW row \in rows, files'[row.content] = "absent"
               PROVE  \E h \in misled : pdfMem[h].content = row.content
    BY <1>1, <1>2 DEF Pdf!RowHasFile
  <2>1. row.content \in Pdf!AnyContent
    BY <1>1, ReusableIsIntact
  <2>2. CASE row.content = pdfMem[g].content
    BY <1>2, <2>2 DEF PdfOrder, RowsAreOne
  <2>3. CASE row.content # pdfMem[g].content
    BY <1>2, <1>4, <2>1, <2>3 DEF PdfOrder, Pdf!RowHasFile
  <2> QED
    BY <2>2, <2>3
<1>9. Pdf!HistoryIsKept'
  BY <1>1, <1>2 DEF Pdf!HistoryIsKept, Pdf!Current
<1>10. Pdf!TypeOK'
  BY <1>1, <1>3, <1>4 DEF Pdf!TypeOK
<1>11. Pdf!OnePdf' /\ Pdf!LogoIsStored' /\ RowsAreOne' /\ \A l \in Logos : LogoInOrder(l)'
  BY <1>1 DEF PdfOrder, Pdf!OnePdf, Pdf!LogoIsStored, RowsAreOne, LogoInOrder
<1> QED
  BY <1>6, <1>7, <1>8, <1>9, <1>10, <1>11 DEF PdfOrder

\* Downloads, damage and time write no row and delete nothing.
LEMMA PdfMeanwhile ==
    ASSUME PdfOrder,
           \/ \E row \in rows : Pdf!Download(row)
           \/ \E c \in Pdf!AnyContent : Pdf!Damage(c)
           \/ Pdf!Tick
    PROVE  PdfOrder'
<1>1. /\ UNCHANGED <<rows, pdfPc, pdfMem, answer, misled, logoFiles, logo, logoPc, unanswered>>
      /\ Pdf!TypeOK /\ Pdf!Current' = Pdf!Current
  BY DEF Pdf!Download, Pdf!Damage, Pdf!Tick, Pdf!LogosUnchanged, PdfOrder, Pdf!Current
<1>2. /\ second' \in 0..LastSecond /\ pdfMishaps' \in 0..MaxPdfMishaps
      /\ pdfMishaps' = 0 => pdfMishaps = 0 /\ files' = files
  BY <1>1, EvidenceConstants DEF Pdf!Download, Pdf!Damage, Pdf!Tick, Pdf!TypeOK
<1>3. /\ files' \in [Pdf!AnyContent -> {"absent", "intact", "damaged"}]
      /\ \A c \in Pdf!AnyContent : files'[c] = "absent" <=> files[c] = "absent"
  BY <1>1 DEF Pdf!Download, Pdf!Damage, Pdf!Tick, Pdf!TypeOK
<1>4. \/ servedPdf' = servedPdf
      \/ \E row \in rows : Pdf!Downloadable(row) /\ servedPdf' = servedPdf \cup {row.content}
  BY DEF Pdf!Download, Pdf!Damage, Pdf!Tick
<1>5. \A row \in rows : row.content \in Pdf!AnyContent
  BY <1>1, ReusableIsIntact
<1>6. \A g \in Generations : GenerationInOrder(g)'
  BY <1>1, <1>3 DEF PdfOrder, GenerationInOrder, Pdf!TypeOK
<1>7. Pdf!RowHasFile' /\ FilesAreOwned'
  BY <1>1, <1>2, <1>3, <1>5 DEF PdfOrder, Pdf!RowHasFile, FilesAreOwned, Pdf!Current
<1>8. Pdf!OnePdf'
  BY <1>1, <1>4 DEF PdfOrder, Pdf!OnePdf, RowsAreOne
<1>9. Pdf!HistoryIsKept'
  <2>1. \A row \in rows : row.version # "VALID_REAL_CURRENT"
                          /\ row.version # "VALID_REAL_OLDER_VERSION" => servedPdf' = servedPdf
    BY <1>1, <1>4, ReusableIsIntact DEF PdfOrder, RowsAreOne
  <2>2. Pdf!Historical \in Pdf!AnyContent
    BY DEF Pdf!AnyContent
  <2> QED
    BY <1>1, <1>3, <2>1, <2>2 DEF PdfOrder, Pdf!HistoryIsKept
<1>10. Pdf!TypeOK'
  BY <1>1, <1>2, <1>3, <1>4, <1>5 DEF Pdf!TypeOK
<1>11. Pdf!LogoIsStored' /\ RowsAreOne' /\ \A l \in Logos : LogoInOrder(l)'
  BY <1>1 DEF PdfOrder, Pdf!LogoIsStored, RowsAreOne, LogoInOrder
<1> QED
  BY <1>6, <1>7, <1>8, <1>9, <1>10, <1>11 DEF PdfOrder

\* A logo is named once its file is there, and its file goes only if nobody answered for it.
LEMMA LogoUploads ==
    ASSUME PdfOrder, NEW l \in Logos,
           Pdf!StoreLogo(l) \/ Pdf!SaveLogo(l) \/ Pdf!SaveLogoFails(l) \/ Pdf!DeleteLogo(l)
    PROVE  PdfOrder'
<1>1. /\ UNCHANGED <<second, rows, files, pdfPc, pdfMem, answer, servedPdf, misled>>
      /\ Pdf!TypeOK /\ Pdf!Current' = Pdf!Current
      /\ pdfMishaps' \in 0..MaxPdfMishaps
      /\ pdfMishaps' = 0 => pdfMishaps = 0
  BY EvidenceConstants DEF Pdf!StoreLogo, Pdf!SaveLogo, Pdf!SaveLogoFails, Pdf!DeleteLogo,
     Pdf!PdfUnchanged, PdfOrder, Pdf!TypeOK, Pdf!Current
<1>2. /\ logoFiles' \subseteq Logos /\ logo' \in Logos \cup {Pdf!None}
      /\ logoPc' \in [Logos -> {"store", "save", "compensate", "done"}]
      /\ unanswered' \subseteq Logos
      /\ \A k \in Logos : k # l => logoPc'[k] = logoPc[k]
  BY <1>1 DEF Pdf!StoreLogo, Pdf!SaveLogo, Pdf!SaveLogoFails, Pdf!DeleteLogo, Pdf!LogoAt,
     Pdf!TypeOK
<1>3. LogoInOrder(l)
  BY DEF PdfOrder
<1>4. /\ \A k \in Logos : k # l /\ k \in logoFiles => k \in logoFiles'
      /\ unanswered \subseteq unanswered'
      /\ logo' \in {logo, l}
  BY DEF Pdf!StoreLogo, Pdf!SaveLogo, Pdf!SaveLogoFails, Pdf!DeleteLogo
<1>5. LogoInOrder(l)'
  BY <1>1, <1>3 DEF LogoInOrder, Pdf!StoreLogo, Pdf!SaveLogo, Pdf!SaveLogoFails,
     Pdf!DeleteLogo, Pdf!LogoAt, Pdf!TypeOK
<1>6. \A k \in Logos : LogoInOrder(k)'
  BY <1>2, <1>4, <1>5 DEF PdfOrder, LogoInOrder
<1>7. Pdf!LogoIsStored'
  BY <1>1, <1>3 DEF PdfOrder, LogoInOrder, Pdf!LogoIsStored, Pdf!StoreLogo, Pdf!SaveLogo,
     Pdf!SaveLogoFails, Pdf!DeleteLogo, Pdf!LogoAt, Pdf!TypeOK
<1>8. Pdf!TypeOK'
  BY <1>1, <1>2 DEF Pdf!TypeOK
<1>9. \A g \in Generations : GenerationInOrder(g)'
  BY <1>1 DEF PdfOrder, GenerationInOrder
<1>10. Pdf!OnePdf' /\ Pdf!RowHasFile' /\ Pdf!HistoryIsKept' /\ RowsAreOne' /\ FilesAreOwned'
  BY <1>1 DEF PdfOrder, Pdf!OnePdf, Pdf!RowHasFile, Pdf!HistoryIsKept, RowsAreOne,
     FilesAreOwned
<1> QED
  BY <1>6, <1>7, <1>8, <1>9, <1>10 DEF PdfOrder

LEMMA PdfInOrder == EvidenceSpec => []PdfOrder
<1>1. EvidenceInit => PdfOrder
  <2> SUFFICES ASSUME Pdf!Init PROVE PdfOrder
    BY DEF EvidenceInit
  <2>1. \A row \in rows : /\ row \in Pdf!Row /\ row.content = Pdf!Historical
                          /\ row.version # "VALID_REAL_CURRENT" /\ rows = {row}
    BY DEF Pdf!Init, Pdf!HistoricalRows, Pdf!Row
  <2>2. Pdf!NoContent \in Pdf!AnyContent /\ Pdf!Historical \in Pdf!AnyContent
    BY DEF Pdf!AnyContent
  <2>3. Pdf!TypeOK
    <3>1. /\ pdfMem \in [Generations -> [logo : Logos \cup {Pdf!None}, content : Pdf!AnyContent]]
          /\ answer \in [Generations -> Pdf!AnyContent]
      BY <2>2 DEF Pdf!Init
    <3>2. /\ files \in [Pdf!AnyContent -> {"absent", "intact", "damaged"}]
          /\ pdfPc \in [Generations -> Pdf!Labels]
          /\ logoPc \in [Logos -> {"store", "save", "compensate", "done"}]
      BY DEF Pdf!Init, Pdf!Labels
    <3>3. second \in 0..LastSecond /\ pdfMishaps \in 0..MaxPdfMishaps
      BY EvidenceConstants DEF Pdf!Init
    <3> QED
      BY <2>1, <3>1, <3>2, <3>3 DEF Pdf!Init, Pdf!TypeOK
  <2>4. /\ files[Pdf!Historical] = "intact" \/ rows = {}
        /\ \A c \in Pdf!AnyContent : files[c] # "absent" => c = Pdf!Historical /\ rows # {}
    BY <2>2 DEF Pdf!Init
  <2>5. Pdf!HistoryIsKept /\ Pdf!RowHasFile /\ RowsAreOne
    BY <2>1, <2>4 DEF Pdf!Init, Pdf!HistoryIsKept, Pdf!RowHasFile, RowsAreOne, Pdf!Current
  <2>6. FilesAreOwned
    BY <2>1, <2>4 DEF FilesAreOwned
  <2>7. Pdf!OnePdf /\ Pdf!LogoIsStored
    BY DEF Pdf!Init, Pdf!OnePdf, Pdf!LogoIsStored
  <2>8. /\ \A g \in Generations : GenerationInOrder(g)
        /\ \A l \in Logos : LogoInOrder(l)
    BY EvidenceConstants DEF Pdf!Init, GenerationInOrder, LogoInOrder, Pdf!None
  <2> QED
    BY <2>3, <2>5, <2>6, <2>7, <2>8 DEF PdfOrder
<1>2. PdfOrder /\ [EvidenceNext]_evidenceVars => PdfOrder'
  <2> SUFFICES ASSUME PdfOrder, [EvidenceNext]_evidenceVars PROVE PdfOrder'
    OBVIOUS
  <2>1. CASE UNCHANGED pdfVars
    <3>1. /\ \A g \in Generations : GenerationInOrder(g)'
          /\ \A l \in Logos : LogoInOrder(l)'
      BY <2>1 DEF pdfVars, PdfOrder, GenerationInOrder, LogoInOrder, Pdf!Current
    <3>2. Pdf!TypeOK'
      BY <2>1 DEF pdfVars, PdfOrder, Pdf!TypeOK
    <3> QED
      BY <2>1, <3>1, <3>2 DEF pdfVars, PdfOrder, RowsAreOne, FilesAreOwned, Pdf!OnePdf,
         Pdf!RowHasFile, Pdf!HistoryIsKept, Pdf!LogoIsStored, Pdf!Current
  <2>2. CASE Pdf!Next
    BY <2>2, PdfReads, GoesOnKeeps, PdfUpload, PdfInsert, PdfLoses, PdfCompensates,
       PdfMeanwhile, LogoUploads DEF Pdf!Next, Pdf!Step
  <2> QED
    BY <2>1, <2>2 DEF EvidenceNext, evidenceVars, MoveFiles, MoveXml, MovePdf, MovePackages,
       MoveMissed
<1> QED
  BY <1>1, <1>2, PTL DEF EvidenceSpec

\* One PDF stands behind a document, with its file, and its history is untouched, however
\* many generations race and fail; the logo it is made from is stored.
THEOREM PdfCorrect == EvidenceSpec => []Pdf!PdfInv
<1>1. PdfOrder => Pdf!PdfInv
  <2> SUFFICES ASSUME PdfOrder PROVE Pdf!NoOrphanFile
    BY DEF PdfOrder, Pdf!PdfInv
  <2> QED
    BY DEF PdfOrder, FilesAreOwned, Pdf!NoOrphanFile
<1> QED
  BY <1>1, PdfInOrder, PTL
-----------------------------------------------------------------------------
(* DeliveryPackage: a mail is whole, accepted, truly told and addressed *)

Intact(file) == <<file, "intact">>

PackageParts == <<"document", "pdf", "signed", "response">>

\* What is left to read of each kind of mail, and what has been read by then.
Progress(kind, todo, parts) ==
    \/ /\ kind = "INITIAL_DOCUMENT"
       /\ \/ todo = <<"signed", "pdf">> /\ parts = {}
          \/ todo = <<"pdf">> /\ parts = {Intact("signed")}
          \/ todo = <<>> /\ parts = {Intact("signed"), Intact("pdf")}
    \/ /\ kind = "HACIENDA_RESPONSE"
       /\ \/ todo = <<"response">> /\ parts = {}
          \/ todo = <<>> /\ parts = {Intact("response")}
    \/ /\ kind = "ACCEPTED_FISCAL_PACKAGE"
       /\ \/ todo = PackageParts /\ parts = {}
          \/ todo = <<"pdf", "signed", "response">> /\ parts = {}
          \/ todo = <<"signed", "response">> /\ parts = {Intact("pdf")}
          \/ todo = <<"response">> /\ parts = {Intact("pdf"), Intact("signed")}
          \/ todo = <<>> /\ parts = {Intact("pdf"), Intact("signed"), Intact("response")}

AcceptedInvoice ==
    /\ fiscal.type = "INVOICE" /\ fiscal.status = "ACCEPTED"
    /\ Packages!ResolveDeliveryRecipient # "none"

\* A reader reads for a delivery that was admitted, or for an accepted package; what it has
\* read is intact, and what it was told of the document still holds.
ReaderInOrder(r, m) ==
    m # Packages!NotReading =>
        /\ m = [kind |-> m.kind, todo |-> m.todo, parts |-> m.parts, says |-> m.says]
        /\ r = "worker" => m.kind \in deliveries
        /\ r = "request" => m.kind = "ACCEPTED_FISCAL_PACKAGE"
        /\ Progress(m.kind, m.todo, m.parts)
        /\ m.kind = "HACIENDA_RESPONSE" => m.says = fiscal.status
        /\ m.kind = "ACCEPTED_FISCAL_PACKAGE" =>
              /\ m.todo # PackageParts => AcceptedInvoice
              /\ m.todo = <<>> => mensaje = "1"

ResponseComesWithVerdict ==
    (stored["response"] # "unmade" \/ "HACIENDA_RESPONSE" \in deliveries) =>
        fiscal.status \in Packages!Verdicts

PackageOrder ==
    /\ Packages!PackageInv
    /\ ResponseComesWithVerdict
    /\ deliveries # {} => Packages!ResolveDeliveryRecipient # "none"
    /\ mail # Packages!NoMail => mail.kind \in deliveries
    /\ reading = [r \in Packages!Readers |-> reading[r]]
    /\ \A r \in Packages!Readers : ReaderInOrder(r, reading[r])

LEMMA KindsAre ==
    Packages!Kinds = {"INITIAL_DOCUMENT", "HACIENDA_RESPONSE", "ACCEPTED_FISCAL_PACKAGE"}
BY DEF Packages!Kinds, Packages!Parts

\* The next file of a mail, once it was read.
LEMMA ReadsOn ==
    ASSUME NEW kind, NEW todo, NEW parts, Progress(kind, todo, parts), todo # <<>>
    PROVE  /\ Head(todo) = "document" => Progress(kind, Tail(todo), parts)
           /\ Head(todo) # "document" =>
                 Progress(kind, Tail(todo), parts \cup {Intact(Head(todo))})
           /\ kind = "ACCEPTED_FISCAL_PACKAGE" =>
                 /\ Tail(todo) # PackageParts
                 /\ todo = PackageParts <=> Head(todo) = "document"
                 /\ Tail(todo) = <<>> => Head(todo) = "response"
<1>1. CASE kind = "INITIAL_DOCUMENT"
  <2>1. CASE todo = <<"signed", "pdf">>
    BY <1>1, <2>1 DEF Progress
  <2>2. CASE todo = <<"pdf">>
    BY <1>1, <2>2 DEF Progress
  <2> QED
    BY <1>1, <2>1, <2>2 DEF Progress
<1>2. CASE kind = "HACIENDA_RESPONSE"
  <2>1. todo = <<"response">> /\ parts = {}
    BY <1>2 DEF Progress
  <2> QED
    BY <1>2, <2>1 DEF Progress
<1>3. CASE kind = "ACCEPTED_FISCAL_PACKAGE"
  <2>1. CASE todo = PackageParts
    BY <1>3, <2>1 DEF Progress, PackageParts
  <2>2. CASE todo = <<"pdf", "signed", "response">>
    BY <1>3, <2>2 DEF Progress, PackageParts
  <2>3. CASE todo = <<"signed", "response">>
    BY <1>3, <2>3 DEF Progress, PackageParts
  <2>4. CASE todo = <<"response">>
    BY <1>3, <2>4 DEF Progress, PackageParts
  <2> QED
    BY <1>3, <2>1, <2>2, <2>3, <2>4 DEF Progress
<1> QED
  BY <1>1, <1>2, <1>3 DEF Progress

\* The recipient is one of the two addresses, and both fields write that one or nothing.
LEMMA RecipientIs ==
    ASSUME Packages!PackageTypeOK, Packages!ResolveDeliveryRecipient # "none"
    PROVE  /\ Packages!ResolveDeliveryRecipient \in {"a", "b"}
           /\ {fiscal.correoElectronico, fiscal.email} \subseteq
                 {"none", "blank"} \cup (IF Packages!ResolveDeliveryRecipient = "a"
                                          THEN {"a", "A"} ELSE {"b"})
<1> DEFINE supplied == {Packages!NormalizeSnapshotEmail(fiscal.correoElectronico),
                        Packages!NormalizeSnapshotEmail(fiscal.email)} \ {"none"}
<1>1. /\ fiscal.correoElectronico \in Packages!Written /\ fiscal.email \in Packages!Written
  BY DEF Packages!PackageTypeOK
<1>2. PICK a \in supplied \ {"malformed"} : supplied = {a}
  BY DEF Packages!ResolveDeliveryRecipient, Packages!None
<1>3. Packages!ResolveDeliveryRecipient = a
  BY <1>2 DEF Packages!ResolveDeliveryRecipient, Packages!None
<1>4. /\ Packages!NormalizeSnapshotEmail(fiscal.correoElectronico) \in {"none", a}
      /\ Packages!NormalizeSnapshotEmail(fiscal.email) \in {"none", a}
      /\ a \notin {"none", "malformed"}
      /\ a \in {Packages!NormalizeSnapshotEmail(fiscal.correoElectronico),
                Packages!NormalizeSnapshotEmail(fiscal.email)}
  BY <1>2
<1>5. ASSUME NEW written \in Packages!Written,
             Packages!NormalizeSnapshotEmail(written) \in {"none", a}
      PROVE  /\ written \in {"none", "blank"} \cup (IF a = "a" THEN {"a", "A"} ELSE {"b"})
             /\ Packages!NormalizeSnapshotEmail(written) \in {"none", "a", "b"}
  BY <1>4, <1>5 DEF Packages!NormalizeSnapshotEmail, Packages!Written, Packages!None
<1> QED
  BY <1>1, <1>3, <1>4, <1>5

\* A step that leaves the document, the verdict's XML and the last mail alone.
LEMMA PackageKeeps ==
    ASSUME PackageOrder, UNCHANGED <<fiscal, mensaje, mail>>,
           stored' \in [Packages!Files -> {"unmade", "absent", "intact", "other", "older"}],
           stored'["response"] # "unmade" => stored["response"] # "unmade",
           damaged' \in 0..MaxDamage,
           deliveries \subseteq deliveries', deliveries' \subseteq Packages!Kinds,
           "HACIENDA_RESPONSE" \in deliveries' /\ "HACIENDA_RESPONSE" \notin deliveries
               => stored["response"] # "unmade",
           deliveries' # deliveries => Packages!ResolveDeliveryRecipient # "none",
           reading' = [r \in Packages!Readers |-> reading'[r]],
           \A r \in Packages!Readers : ReaderInOrder(r, reading'[r])
    PROVE  PackageOrder'
<1>1. Packages!ResolveDeliveryRecipient' = Packages!ResolveDeliveryRecipient
  BY DEF Packages!ResolveDeliveryRecipient, Packages!NormalizeSnapshotEmail
<1>2. \A r \in Packages!Readers : ReaderInOrder(r, reading[r])'
  BY <1>1 DEF ReaderInOrder, AcceptedInvoice
<1>3. Packages!PackageTypeOK'
  BY DEF PackageOrder, Packages!PackageInv, Packages!PackageTypeOK
<1>4. Packages!PackageInv'
  BY <1>3 DEF PackageOrder, Packages!PackageInv, Packages!MailIsWhole,
     Packages!PackageIsAccepted, Packages!MailTellsVerdict, Packages!MailIsAddressed
<1>5. ResponseComesWithVerdict'
  BY DEF PackageOrder, ResponseComesWithVerdict
<1> QED
  BY <1>1, <1>2, <1>4, <1>5 DEF PackageOrder

\* Who admits a delivery knows its one recipient, and of a response that it is recorded.
LEMMA PackageAdmits ==
    ASSUME PackageOrder,
           \/ Packages!EnsureInitialPackage \/ Packages!EnsureHaciendaResponse
           \/ Packages!AdmitAcceptedPackage \/ \E file \in Packages!Files : Packages!Damage(file)
    PROVE  PackageOrder'
<1>1. /\ Packages!PackageTypeOK
      /\ reading = [r \in Packages!Readers |-> reading[r]]
      /\ \A r \in Packages!Readers : ReaderInOrder(r, reading[r])
      /\ deliveries \subseteq Packages!Kinds
  BY DEF PackageOrder, Packages!PackageInv, Packages!PackageTypeOK
<1>2. /\ stored' \in [Packages!Files -> {"unmade", "absent", "intact", "other", "older"}]
      /\ stored'["response"] # "unmade" => stored["response"] # "unmade"
  BY <1>1 DEF Packages!PackageTypeOK, Packages!EnsureInitialPackage,
     Packages!EnsureHaciendaResponse, Packages!AdmitAcceptedPackage, Packages!Damage,
     Packages!EnsuredPdfs, Packages!Files
<1>3. damaged' \in 0..MaxDamage /\ UNCHANGED <<fiscal, mensaje, mail>>
  BY <1>1, EvidenceConstants DEF Packages!PackageTypeOK, Packages!EnsureInitialPackage,
     Packages!EnsureHaciendaResponse, Packages!AdmitAcceptedPackage, Packages!Damage
<1>4. /\ deliveries' = deliveries
         \/ /\ Packages!ResolveDeliveryRecipient # "none"
            /\ \E kind \in Packages!Kinds :
                  /\ deliveries' = deliveries \cup {kind}
                  /\ kind = "HACIENDA_RESPONSE" => stored["response"] # "unmade"
  <2>1. CASE Packages!EnsureInitialPackage
    BY <2>1, KindsAre DEF Packages!EnsureInitialPackage, Packages!Admit, Packages!None
  <2>2. CASE Packages!EnsureHaciendaResponse
    BY <2>2, KindsAre DEF Packages!EnsureHaciendaResponse, Packages!Admit, Packages!None,
       Packages!ResponseIsRecorded
  <2>3. CASE Packages!AdmitAcceptedPackage
    <3>1. /\ reading["request"] # Packages!NotReading /\ reading["request"].todo = <<>>
          /\ "request" \in Packages!Readers
      BY <2>3 DEF Packages!AdmitAcceptedPackage, Packages!HasRead, Packages!NotReading,
         Packages!Readers
    <3>2. AcceptedInvoice
      BY <1>1, <3>1 DEF ReaderInOrder, PackageParts
    <3> QED
      BY <2>3, <3>2, KindsAre DEF Packages!AdmitAcceptedPackage, AcceptedInvoice
  <2>4. CASE \E file \in Packages!Files : Packages!Damage(file)
    BY <2>4 DEF Packages!Damage
  <2> QED
    BY <2>1, <2>2, <2>3, <2>4
<1>5. /\ reading' = [r \in Packages!Readers |-> reading'[r]]
      /\ \A r \in Packages!Readers : reading'[r] = reading[r] \/ reading'[r] = Packages!NotReading
  BY <1>1 DEF Packages!EnsureInitialPackage, Packages!EnsureHaciendaResponse,
     Packages!AdmitAcceptedPackage, Packages!Damage
<1>6. \A r \in Packages!Readers : ReaderInOrder(r, reading'[r])
  BY <1>1, <1>5 DEF ReaderInOrder
<1> QED
  BY <1>1, <1>2, <1>3, <1>4, <1>5, <1>6, PackageKeeps

\* A reader begins with nothing read, and says what the document's status says then: for a
\* response, its verdict.
LEMMA PackageBegins ==
    ASSUME PackageOrder, Packages!TakeJob \/ Packages!RequestAcceptedPackage
    PROVE  PackageOrder'
<1>1. PICK r \in Packages!Readers, kind \in Packages!Kinds :
          /\ Packages!Begin(r, kind)
          /\ r = "worker" => kind \in deliveries
          /\ r # "worker" => kind = "ACCEPTED_FISCAL_PACKAGE"
  BY KindsAre DEF PackageOrder, Packages!PackageInv, Packages!PackageTypeOK, Packages!TakeJob,
     Packages!RequestAcceptedPackage, Packages!Readers
<1> DEFINE m == [kind |-> kind, todo |-> Packages!Parts[kind], parts |-> {},
                 says |-> Packages!Told(fiscal.status)]
<1>2. /\ UNCHANGED <<fiscal, mensaje, stored, deliveries, mail, damaged>>
      /\ reading' = [reading EXCEPT ![r] = m]
      /\ Packages!PackageTypeOK
  BY <1>1 DEF Packages!Begin, PackageOrder, Packages!PackageInv
<1>3. Progress(kind, Packages!Parts[kind], {})
  BY KindsAre DEF Packages!Parts, Progress, PackageParts
<1>4. kind = "HACIENDA_RESPONSE" => Packages!Told(fiscal.status) = fiscal.status
  BY <1>1 DEF PackageOrder, ResponseComesWithVerdict, Packages!Told, Packages!Verdicts,
     Packages!Readers
<1>5. kind = "ACCEPTED_FISCAL_PACKAGE" => Packages!Parts[kind] = PackageParts
  BY DEF Packages!Parts, PackageParts
<1>6. /\ m = [kind |-> m.kind, todo |-> m.todo, parts |-> m.parts, says |-> m.says]
      /\ m.kind = kind /\ m.todo = Packages!Parts[kind] /\ m.parts = {}
      /\ m.says = Packages!Told(fiscal.status)
  OBVIOUS
<1>7. PackageParts # <<>>
  BY DEF PackageParts
<1> HIDE DEF m
<1>8. ReaderInOrder(r, m)
  BY <1>1, <1>3, <1>4, <1>5, <1>6, <1>7 DEF ReaderInOrder, Packages!Readers
<1>9. /\ reading' = [q \in Packages!Readers |-> reading'[q]]
      /\ \A q \in Packages!Readers : ReaderInOrder(q, reading'[q])
  BY <1>2, <1>8 DEF PackageOrder
<1> QED
  BY <1>2, <1>9, PackageKeeps DEF Packages!PackageTypeOK

\* A reader goes on to its next file with this one intact, or its call ends.
LEMMA PackageContinues ==
    ASSUME PackageOrder, NEW r \in Packages!Readers, NEW bytes, NEW ok \in BOOLEAN,
           reading[r].todo # <<>>, Packages!Continue(r, bytes, ok),
           ok => IF Head(reading[r].todo) = "document" THEN bytes = {} /\ AcceptedInvoice
                 ELSE bytes = {Intact(Head(reading[r].todo))},
           ok /\ Head(reading[r].todo) = "response"
              /\ reading[r].kind = "ACCEPTED_FISCAL_PACKAGE" => mensaje = "1"
    PROVE  PackageOrder'
<1> DEFINE m == reading[r]
           next == [kind |-> m.kind, todo |-> Tail(m.todo), parts |-> m.parts \cup bytes,
                    says |-> m.says]
<1>1. ReaderInOrder(r, m) /\ m # Packages!NotReading /\ Packages!PackageTypeOK
  BY DEF PackageOrder, Packages!PackageInv, Packages!NotReading
<1>2. /\ m = [kind |-> m.kind, todo |-> m.todo, parts |-> m.parts, says |-> m.says]
      /\ Progress(m.kind, m.todo, m.parts)
  BY <1>1 DEF ReaderInOrder
<1>3. /\ UNCHANGED <<fiscal, mensaje, stored, deliveries, mail, damaged>>
      /\ reading' = [reading EXCEPT ![r] = IF ok THEN next ELSE Packages!NotReading]
  BY DEF Packages!Continue
<1>4. ASSUME ok PROVE ReaderInOrder(r, next)
  <2>1. m.parts \cup {} = m.parts
    OBVIOUS
  <2>2. Progress(m.kind, Tail(m.todo), m.parts \cup bytes)
    BY <1>2, <1>4, <2>1, ReadsOn
  <2>3. m.kind = "ACCEPTED_FISCAL_PACKAGE" =>
            AcceptedInvoice /\ (Tail(m.todo) = <<>> => mensaje = "1")
    BY <1>1, <1>2, <1>4, ReadsOn DEF ReaderInOrder
  <2>4. /\ next.kind = m.kind /\ next.todo = Tail(m.todo)
        /\ next.parts = m.parts \cup bytes /\ next.says = m.says
    OBVIOUS
  <2> HIDE DEF next
  <2>5. next = [kind |-> next.kind, todo |-> next.todo, parts |-> next.parts,
                says |-> next.says]
    BY <2>4 DEF next
  <2> QED
    BY <1>1, <2>2, <2>3, <2>4, <2>5 DEF ReaderInOrder
<1> HIDE DEF next
<1>5. ReaderInOrder(r, Packages!NotReading)
  BY DEF ReaderInOrder
<1>6. /\ reading' = [q \in Packages!Readers |-> reading'[q]]
      /\ \A q \in Packages!Readers : ReaderInOrder(q, reading'[q])
  BY <1>3, <1>4, <1>5 DEF PackageOrder
<1> QED
  BY <1>1, <1>3, <1>6, PackageKeeps DEF Packages!PackageTypeOK

LEMMA PackageReads ==
    ASSUME PackageOrder, NEW r \in Packages!Readers,
           \/ Packages!ReadDocument(r) \/ Packages!ReadPdf(r) \/ Packages!ReadSigned(r)
           \/ Packages!ReadResponse(r)
    PROVE  PackageOrder'
<1>1. CASE Packages!ReadDocument(r)
  <2> DEFINE ok == /\ fiscal.type = "INVOICE" /\ fiscal.status = "ACCEPTED"
                   /\ Packages!ResolveDeliveryRecipient # Packages!None
  <2>1. /\ reading[r].todo # <<>> /\ Head(reading[r].todo) = "document"
        /\ Packages!Continue(r, {}, ok) /\ ok \in BOOLEAN
    BY <1>1 DEF Packages!ReadDocument, Packages!Reads
  <2>2. ok => AcceptedInvoice
    BY DEF AcceptedInvoice, Packages!None
  <2> HIDE DEF ok
  <2> QED
    BY <2>1, <2>2, PackageContinues
<1>2. ASSUME NEW file \in {"pdf", "signed", "response"}, NEW ok \in BOOLEAN,
             Packages!Reads(r, file),
             Packages!Continue(r, {<<file, stored[file]>>}, ok),
             ok => stored[file] = "intact",
             ok /\ file = "response" /\ reading[r].kind = "ACCEPTED_FISCAL_PACKAGE"
                => mensaje = "1"
      PROVE  PackageOrder'
  <2>1. reading[r].todo # <<>> /\ Head(reading[r].todo) = file
    BY <1>2 DEF Packages!Reads
  <2>2. ok => {<<file, stored[file]>>} = {Intact(file)}
    BY <1>2 DEF Intact
  <2> QED
    BY <1>2, <2>1, <2>2, PackageContinues
<1>3. CASE Packages!ReadPdf(r)
  BY <1>2, <1>3 DEF Packages!ReadPdf
<1>4. CASE Packages!ReadSigned(r)
  BY <1>2, <1>4 DEF Packages!ReadSigned, Packages!Verified
<1>5. CASE Packages!ReadResponse(r)
  <2> DEFINE ok == /\ Packages!Verified("response")
                   /\ reading[r].kind = "ACCEPTED_FISCAL_PACKAGE" => Packages!IsAcceptance
  <2>1. /\ Packages!Reads(r, "response") /\ ok \in BOOLEAN
        /\ Packages!Continue(r, {<<"response", stored["response"]>>}, ok)
    BY <1>5 DEF Packages!ReadResponse
  <2>2. /\ ok => stored["response"] = "intact"
        /\ ok /\ reading[r].kind = "ACCEPTED_FISCAL_PACKAGE" => mensaje = "1"
    BY DEF Packages!Verified, Packages!IsAcceptance
  <2> HIDE DEF ok
  <2> QED
    BY <1>2, <2>1, <2>2
<1> QED
  BY <1>1, <1>3, <1>4, <1>5

\* The mail is what was read, all of it intact.
LEMMA PackageSends ==
    ASSUME PackageOrder, Packages!Send
    PROVE  PackageOrder'
<1> DEFINE m == reading["worker"]
<1>1. /\ "worker" \in Packages!Readers /\ ReaderInOrder("worker", m)
      /\ m # Packages!NotReading /\ m.todo = <<>>
  BY DEF PackageOrder, Packages!Send, Packages!HasRead, Packages!NotReading, Packages!Readers
<1>2. /\ m.kind \in deliveries /\ m.kind \in Packages!Kinds
      /\ Progress(m.kind, m.todo, m.parts)
  BY <1>1, KindsAre DEF ReaderInOrder, Progress
<1>3. /\ UNCHANGED <<fiscal, mensaje, stored, deliveries, damaged>>
      /\ mail' = [kind |-> m.kind, parts |-> m.parts, says |-> m.says,
                  to |-> Packages!ResolveDeliveryRecipient]
      /\ reading' = [reading EXCEPT !["worker"] = Packages!NotReading]
      /\ Packages!PackageTypeOK
  BY DEF PackageOrder, Packages!PackageInv, Packages!Send
<1>4. Packages!ResolveDeliveryRecipient' = Packages!ResolveDeliveryRecipient
  BY <1>3 DEF Packages!ResolveDeliveryRecipient, Packages!NormalizeSnapshotEmail
<1>5. Packages!ResolveDeliveryRecipient # "none"
  BY <1>2 DEF PackageOrder
<1>6. Packages!MailIsWhole'
  <2>1. m.parts = {Intact(file) : file \in Packages!Attachments[m.kind]}
    <3>1. CASE m.kind = "INITIAL_DOCUMENT"
      BY <1>1, <1>2, <3>1 DEF Progress, PackageParts, Packages!Attachments
    <3>2. CASE m.kind = "HACIENDA_RESPONSE"
      BY <1>1, <1>2, <3>2 DEF Progress, PackageParts, Packages!Attachments
    <3>3. CASE m.kind = "ACCEPTED_FISCAL_PACKAGE"
      BY <1>1, <1>2, <3>3 DEF Progress, PackageParts, Packages!Attachments
    <3> QED
      BY <1>2, <3>1, <3>2, <3>3, KindsAre
  <2> QED
    BY <1>3, <2>1 DEF Packages!MailIsWhole, Intact
<1>7. Packages!PackageIsAccepted' /\ Packages!MailTellsVerdict'
  <2>1. PackageParts # <<>>
    BY DEF PackageParts
  <2> QED
    BY <1>1, <1>3, <2>1 DEF ReaderInOrder, AcceptedInvoice, Packages!PackageIsAccepted,
       Packages!MailTellsVerdict
<1>8. Packages!MailIsAddressed'
  BY <1>3, <1>5, RecipientIs DEF Packages!MailIsAddressed, Packages!None
<1>9. \A r \in Packages!Readers : ReaderInOrder(r, reading[r])'
  BY <1>3, <1>4 DEF PackageOrder, ReaderInOrder, AcceptedInvoice
<1>10. Packages!PackageTypeOK'
  BY <1>3 DEF Packages!PackageTypeOK
<1> QED
  BY <1>2, <1>3, <1>4, <1>6, <1>7, <1>8, <1>9, <1>10 DEF PackageOrder, Packages!PackageInv,
     ResponseComesWithVerdict

\* The verdict changes a document that had none: nothing said of one before it was said of a
\* response.
LEMMA PackageDecided ==
    ASSUME PackageOrder, NEW decision \in Packages!Verdicts, Packages!Decide(decision)
    PROVE  PackageOrder'
<1>1. /\ UNCHANGED <<mensaje, deliveries, reading, mail, damaged>>
      /\ fiscal.status = "READY_TO_SUBMIT"
      /\ fiscal' = [fiscal EXCEPT !.status = decision]
      /\ Packages!PackageTypeOK
  BY DEF Packages!Decide, PackageOrder, Packages!PackageInv
<1>2. /\ fiscal'.correoElectronico = fiscal.correoElectronico
      /\ fiscal'.email = fiscal.email /\ fiscal'.type = fiscal.type
      /\ fiscal'.status = decision
  BY <1>1 DEF Packages!PackageTypeOK
<1>3. Packages!ResolveDeliveryRecipient' = Packages!ResolveDeliveryRecipient
  BY <1>2 DEF Packages!ResolveDeliveryRecipient, Packages!NormalizeSnapshotEmail
<1>4. "HACIENDA_RESPONSE" \notin deliveries /\ ~AcceptedInvoice
  BY <1>1 DEF PackageOrder, ResponseComesWithVerdict, AcceptedInvoice, Packages!Verdicts
<1>5. \A r \in Packages!Readers : ReaderInOrder(r, reading[r])'
  <2> SUFFICES ASSUME NEW r \in Packages!Readers, reading[r] # Packages!NotReading
               PROVE  ReaderInOrder(r, reading[r])'
    BY <1>1 DEF ReaderInOrder
  <2>1. ReaderInOrder(r, reading[r]) /\ reading[r].kind # "HACIENDA_RESPONSE"
    BY <1>4 DEF PackageOrder, ReaderInOrder, Packages!Readers
  <2> QED
    BY <1>1, <1>4, <2>1 DEF ReaderInOrder
<1>6. Packages!PackageTypeOK'
  <2>1. fiscal' \in [type : {"INVOICE", "TICKET"},
                     status : {"READY_TO_SUBMIT"} \cup Packages!Verdicts,
                     correoElectronico : Packages!Written, email : Packages!Written]
    BY <1>1 DEF Packages!PackageTypeOK
  <2>2. stored' \in [Packages!Files -> {"unmade", "absent", "intact", "other", "older"}]
    BY <1>1 DEF Packages!PackageTypeOK, Packages!Decide
  <2> QED
    BY <1>1, <2>1, <2>2 DEF Packages!PackageTypeOK
<1>7. /\ Packages!MailIsWhole' /\ Packages!PackageIsAccepted' /\ Packages!MailTellsVerdict'
      /\ Packages!MailIsAddressed'
  <2>1. mail.kind # "HACIENDA_RESPONSE" /\ mail.kind # "ACCEPTED_FISCAL_PACKAGE"
    BY <1>1, <1>4 DEF PackageOrder, Packages!PackageInv, Packages!PackageIsAccepted,
       Packages!NoMail, Packages!None
  <2> QED
    BY <1>1, <1>2, <2>1 DEF PackageOrder, Packages!PackageInv, Packages!MailIsWhole,
       Packages!PackageIsAccepted, Packages!MailTellsVerdict, Packages!MailIsAddressed
<1>8. ResponseComesWithVerdict'
  BY <1>2 DEF ResponseComesWithVerdict
<1> QED
  BY <1>1, <1>3, <1>5, <1>6, <1>7, <1>8 DEF PackageOrder, Packages!PackageInv

\* Every mail is whole, accepted where it says so, truly told and sent to the one address the
\* receiver gave, whatever is damaged while its parts are read.
THEOREM PackageCorrect == EvidenceSpec => []Packages!PackageInv
<1>1. EvidenceInit => PackageOrder
  <2> SUFFICES ASSUME Packages!PackageInit PROVE PackageOrder
    BY DEF EvidenceInit
  <2>1. Packages!PackageTypeOK
    BY EvidenceConstants DEF Packages!PackageInit, Packages!PackageTypeOK, Packages!Files,
       Packages!None
  <2>2. stored["response"] = "unmade"
    BY DEF Packages!PackageInit
  <2>3. \A r \in Packages!Readers : ReaderInOrder(r, reading[r])
    BY DEF Packages!PackageInit, ReaderInOrder
  <2> QED
    BY <2>1, <2>2, <2>3 DEF Packages!PackageInit, PackageOrder, Packages!PackageInv,
       ResponseComesWithVerdict, Packages!MailIsWhole, Packages!PackageIsAccepted,
       Packages!MailTellsVerdict, Packages!MailIsAddressed, Packages!NoMail, Packages!None
<1>2. PackageOrder /\ [EvidenceNext]_evidenceVars => PackageOrder'
  <2> SUFFICES ASSUME PackageOrder, [EvidenceNext]_evidenceVars PROVE PackageOrder'
    OBVIOUS
  <2>1. CASE UNCHANGED packageVars
    BY <2>1, PackageKeeps DEF packageVars, PackageOrder, Packages!PackageInv,
       Packages!PackageTypeOK
  <2>2. CASE Packages!PackageNext
    BY <2>2, PackageAdmits, PackageBegins, PackageReads, PackageSends, PackageDecided
       DEF Packages!PackageNext
  <2> QED
    BY <2>1, <2>2 DEF EvidenceNext, evidenceVars, mailVars, MoveFiles, MoveXml, MovePdf,
       MovePackages, MoveMissed
<1>3. PackageOrder => Packages!PackageInv
  BY DEF PackageOrder
<1> QED
  BY <1>1, <1>2, <1>3, PTL DEF EvidenceSpec

\* ArtifactsInv: whoever fails, one signed XML and one PDF stand behind a document, and a
\* mail with them is whole (FiscalXmlSigningService, FiscalPdfArtifactService,
\* DeliveryMessageService).
THEOREM ArtifactsCorrect == EvidenceSpec => []ArtifactsInv
BY SignedXmlCorrect, PdfCorrect, PackageCorrect, PTL DEF ArtifactsInv
=============================================================================
