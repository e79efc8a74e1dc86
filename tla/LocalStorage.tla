----------------------------- MODULE LocalStorage -----------------------------
(***************************************************************************)
(* The local storage adapter over a POSIX file system.  An upload writes   *)
(* and syncs a private temporary file and publishes it with a hard link,   *)
(* so a key names an inode, here the upload that wrote it.  The directory  *)
(* on disk lags behind the one processes see until it is synced, and a     *)
(* power loss goes back to it.                                             *)
(***************************************************************************)
EXTENDS Naturals

CONSTANTS
    Keys, Contents,
    Uploads,      \* calls of upload
    Deletable,    \* the keys some caller deletes: PDF files and logos
    MaxFaults     \* bound: I/O errors, crashes and power losses

None == "NONE"
Partial == "PARTIAL"   \* the content of a file whose write is not complete

ASSUME UploadsAreNames == None \notin Uploads /\ None \notin Contents
ASSUME PartialIsNoContent == Partial \notin Contents
ASSUME DeletableAreKeys == Deletable \subseteq Keys
ASSUME FaultsAreNat == MaxFaults \in Nat

VARIABLES
    requests,   \* what each upload asks for
    inodes,     \* the file each upload has written, and whether it is synced
    visible,    \* the inode each key names
    onDisk,     \* the inode each key names after a power loss
    uploadPc, result,
    accepted,   \* history: the request of an upload that found or put its object
    deleted,    \* the keys some call has deleted
    faults

filesVars == <<requests, inodes, visible, onDisk, uploadPc, result, accepted,
                 deleted, faults>>

Request == [key : Keys, content : Contents]
Unseen == [key |-> None, content |-> None]
Inode == [content : Contents \cup {None, Partial}, synced : BOOLEAN]
UploadLabels == {"check", "open", "write", "sync", "link", "syncDirectory", "compare",
                 "unlink", "done", "dead"}

TypeOK ==
    /\ requests \in [Uploads -> Request]
    /\ inodes \in [Uploads -> Inode]
    /\ visible \in [Keys -> Uploads \cup {None}]
    /\ onDisk \in [Keys -> Uploads \cup {None}]
    /\ uploadPc \in [Uploads -> UploadLabels]
    /\ result \in [Uploads -> {None, "stored", "same", "conflict", "error"}]
    /\ accepted \in [Uploads -> Request \cup {Unseen}]
    /\ deleted \subseteq Keys
    /\ faults \in 0..MaxFaults

Init ==
    /\ requests \in [Uploads -> Request]
    /\ inodes = [u \in Uploads |-> [content |-> None, synced |-> FALSE]]
    /\ visible = [k \in Keys |-> None]
    /\ onDisk = [k \in Keys |-> None]
    /\ uploadPc = [u \in Uploads |-> "check"]
    /\ result = [u \in Uploads |-> None]
    /\ accepted = [u \in Uploads |-> Unseen]
    /\ deleted = {}
    /\ faults = 0

ContentOf(inode) == IF inode = None THEN None ELSE inodes[inode].content
Named(u) == visible[requests[u].key]
Accepting(u) == accepted' = [accepted EXCEPT ![u] = requests[u]]

At(u, from, to) ==
    /\ uploadPc[u] = from
    /\ uploadPc' = [uploadPc EXCEPT ![u] = to]

\* assertSameObject against the file the key names now.
CompareWithNamed(u) ==
    IF ContentOf(Named(u)) = requests[u].content
    THEN /\ result' = [result EXCEPT ![u] = "same"]
         /\ Accepting(u)
    ELSE /\ result' = [result EXCEPT ![u] = "conflict"]
         /\ UNCHANGED accepted

\* readIfPresent: the key is taken, and the upload ends with the comparison.
FindExisting(u) ==
    /\ At(u, "check", "done")
    /\ Named(u) # None
    /\ CompareWithNamed(u)
    /\ UNCHANGED <<requests, inodes, visible, onDisk, deleted, faults>>

FindNothing(u) ==
    /\ At(u, "check", "open")
    /\ Named(u) = None
    /\ UNCHANGED <<requests, inodes, visible, onDisk, result, accepted, deleted, faults>>

WriteFile(u, content, synced) ==
    /\ inodes' = [inodes EXCEPT ![u] = [content |-> content, synced |-> synced]]
    /\ UNCHANGED <<requests, visible, onDisk, result, accepted, deleted, faults>>

OpenTemporary(u) == At(u, "open", "write") /\ WriteFile(u, Partial, FALSE)
WriteTemporary(u) == At(u, "write", "sync") /\ WriteFile(u, requests[u].content, FALSE)
\* Variant of SyncTemporary: the file is linked while its data are in the page cache.
SkipSyncTemporary(u) == At(u, "sync", "link") /\ WriteFile(u, requests[u].content, FALSE)
SyncTemporary(u) == At(u, "sync", "link") /\ WriteFile(u, requests[u].content, TRUE)

\* Variant of Link: a rename, which replaces the file that holds the key.
RenameOver(u) ==
    /\ At(u, "link", "syncDirectory")
    /\ visible' = [visible EXCEPT ![requests[u].key] = u]
    /\ Accepting(u)
    /\ UNCHANGED <<requests, inodes, onDisk, result, deleted, faults>>

\* link is atomic: it publishes the file ...
Link(u) ==
    /\ At(u, "link", "syncDirectory")
    /\ Named(u) = None
    /\ visible' = [visible EXCEPT ![requests[u].key] = u]
    /\ Accepting(u)
    /\ UNCHANGED <<requests, inodes, onDisk, result, deleted, faults>>

\* ... or fails with EEXIST.
LinkExists(u) ==
    /\ At(u, "link", "compare")
    /\ Named(u) # None
    /\ UNCHANGED <<requests, inodes, visible, onDisk, result, accepted, deleted, faults>>

\* Variant of SyncDirectory: the directory is not synced.
SkipSyncDirectory(u) ==
    /\ At(u, "syncDirectory", "unlink")
    /\ result' = [result EXCEPT ![u] = "stored"]
    /\ UNCHANGED <<requests, inodes, visible, onDisk, accepted, deleted, faults>>

\* syncDirectory.  The link is published even if another call deletes it before this.
SyncDirectory(u) ==
    /\ At(u, "syncDirectory", "unlink")
    /\ onDisk' = [onDisk EXCEPT ![requests[u].key] = Named(u)]
    /\ result' = [result EXCEPT ![u] = "stored"]
    /\ UNCHANGED <<requests, inodes, visible, accepted, deleted, faults>>

\* Variant of Compare: the error of link is passed on as it is.
CompareRaw(u) ==
    /\ At(u, "compare", "unlink")
    /\ result' = [result EXCEPT ![u] = "EEXIST"]
    /\ UNCHANGED <<requests, inodes, visible, onDisk, accepted, deleted, faults>>

\* Variant of Compare: whatever holds the key is taken for the upload's own object.
CompareNothing(u) ==
    /\ At(u, "compare", "unlink")
    /\ result' = [result EXCEPT ![u] = "same"]
    /\ UNCHANGED <<requests, inodes, visible, onDisk, accepted, deleted, faults>>

\* EEXIST: the winner is read, unless it has been deleted meanwhile.
Compare(u) ==
    /\ At(u, "compare", "unlink")
    /\ IF Named(u) = None
       THEN result' = [result EXCEPT ![u] = "error"] /\ UNCHANGED accepted
       ELSE CompareWithNamed(u)
    /\ UNCHANGED <<requests, inodes, visible, onDisk, deleted, faults>>

\* The finally block: the temporary name goes, the inode stays while a key names it.
Unlink(u) ==
    /\ At(u, "unlink", "done")
    /\ UNCHANGED <<requests, inodes, visible, onDisk, result, accepted, deleted, faults>>

IoError(u) ==
    /\ faults < MaxFaults
    /\ uploadPc[u] \in {"open", "write", "sync", "link", "syncDirectory"}
    /\ uploadPc' = [uploadPc EXCEPT ![u] = "unlink"]
    /\ result' = [result EXCEPT ![u] = "error"]
    /\ faults' = faults + 1
    /\ UNCHANGED <<requests, inodes, visible, onDisk, accepted, deleted>>

Delete(k) ==
    /\ k \in Deletable \ deleted
    /\ visible[k] # None
    /\ visible' = [visible EXCEPT ![k] = None]
    /\ deleted' = deleted \cup {k}
    /\ UNCHANGED <<requests, inodes, onDisk, uploadPc, result, accepted, faults>>

Die ==
    /\ faults < MaxFaults
    /\ faults' = faults + 1
    /\ uploadPc' = [u \in Uploads |-> IF uploadPc[u] = "done" THEN "done" ELSE "dead"]

\* The process dies; the file system keeps what it has.
Crash ==
    /\ Die
    /\ UNCHANGED <<requests, inodes, visible, onDisk, result, accepted, deleted>>

\* The machine dies: each directory entry may go back to what is on disk, and
\* a file that was not synced may be incomplete.
PowerLoss ==
    /\ Die
    /\ \E back \in SUBSET Keys :
          visible' = [k \in Keys |-> IF k \in back THEN onDisk[k] ELSE visible[k]]
    /\ onDisk' = visible'
    /\ inodes' = [u \in Uploads |->
                    IF inodes[u].synced \/ inodes[u].content = None THEN inodes[u]
                    ELSE [inodes[u] EXCEPT !.content = Partial]]
    /\ UNCHANGED <<requests, result, accepted, deleted>>

Next ==
    \/ \E u \in Uploads :
          \/ FindExisting(u) \/ FindNothing(u)
          \/ OpenTemporary(u) \/ WriteTemporary(u) \/ SyncTemporary(u)
          \/ Link(u) \/ LinkExists(u) \/ SyncDirectory(u) \/ Compare(u) \/ Unlink(u) \/ IoError(u)
    \/ \E k \in Keys : Delete(k)
    \/ Crash
    \/ PowerLoss

Spec == Init /\ [][Next]_filesVars
-----------------------------------------------------------------------------
(* Properties *)

\* What a key names is always a complete file, whatever crashes: a partially
\* written object is never visible (the hard link after the fsync).
ObjectsAreWhole ==
    \A k \in Keys : visible[k] # None => ContentOf(visible[k]) = requests[visible[k]].content

\* An upload that linked its file and returned survives crashes and power
\* losses until some call deletes the key.
StoredIsDurable ==
    \A u \in Uploads :
        result[u] = "stored" /\ requests[u].key \notin deleted =>
            ContentOf(Named(u)) = requests[u].content

\* An upload that succeeds has found or put its own bytes under its key.
SuccessIsTrue ==
    \A u \in Uploads : result[u] \in {"stored", "same"} => accepted[u] = requests[u]

\* For the keys nobody deletes, the fiscal evidence, the adapter implements the
\* write-once store, through crashes and power losses.
Evidence == Keys \ Deletable
Store == INSTANCE WriteOnceStore WITH
            Keys <- Evidence,
            Nothing <- None,
            stored <- [k \in Evidence |-> ContentOf(visible[k])],
            accepted <- [u \in Uploads |->
                           IF requests[u].key \in Evidence THEN accepted[u] ELSE Unseen]
StoreIsWriteOnce == Store!Spec

\* Every named file is the work of an upload of that key, past its sync, visible or on disk.
IsOf(u, k) ==
    /\ requests[u].key = k
    /\ inodes[u] = [content |-> requests[u].content, synced |-> TRUE]
    /\ uploadPc[u] \notin {"check", "open", "write", "sync"}
NamesAreWritten ==
    \A k \in Keys, u \in Uploads : u \in {visible[k], onDisk[k]} => IsOf(u, k)

\* An upload that reaches the link has its whole file in place.
LinksAreWritten ==
    \A u \in Uploads : uploadPc[u] = "link" =>
        inodes[u] = [content |-> requests[u].content, synced |-> TRUE]

\* A link stays until a deletion, and what has been synced is on disk too; the
\* directory on disk never knows another object than the visible one.
LinksStay ==
    /\ deleted \subseteq Deletable
    /\ \A u \in Uploads : requests[u].key \notin deleted =>
          /\ uploadPc[u] = "syncDirectory" => Named(u) = u
          /\ result[u] = "stored" => Named(u) = u /\ onDisk[requests[u].key] = u
    /\ \A k \in Keys \ deleted : onDisk[k] \in {None, visible[k]}

\* Nobody has seen an object before the link or the comparison shows it, and a
\* linked upload has.
AcceptedAtTheLink ==
    \A u \in Uploads :
        /\ uploadPc[u] \in {"check", "open", "write", "sync", "link", "compare"} =>
              accepted[u] = Unseen /\ result[u] = None
        /\ uploadPc[u] = "syncDirectory" => accepted[u] = requests[u]

\* Whatever crashes, objects are whole, acknowledged ones survive, and success is true;
\* with what makes these inductive.
StorageInv ==
    /\ TypeOK
    /\ NamesAreWritten
    /\ LinksAreWritten
    /\ LinksStay
    /\ AcceptedAtTheLink
    /\ ObjectsAreWhole
    /\ StoredIsDurable
    /\ SuccessIsTrue
=============================================================================
