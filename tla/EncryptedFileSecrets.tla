------------------------- MODULE EncryptedFileSecrets -------------------------
(***************************************************************************)
(* One secret reference of the encrypted file store, written by several     *)
(* processes and read by others (encrypted-file-secret-provider.adapter.ts).*)
(* The directory of a reference holds immutable version files, metadata.json*)
(* naming the versions and the current one, and .write.lock.  A write takes *)
(* the lock file, links its version, then renames metadata over; a reader   *)
(* takes no lock.  A lock older than 30 seconds is removed by whoever waits *)
(* for it, whether or not its writer is alive.                              *)
(***************************************************************************)
EXTENDS Integers, Sequences, FiniteSetsExt

CONSTANTS
    Writers,          \* processes that store or delete the secret
    Readers,          \* processes that read it
    Keys,             \* master keys that may be put in the key file
    StoreKey,         \* the key the store was initialised with
    MaxVersion,       \* bound: versions written
    MaxFaults         \* bound: crashes, failed calls, stale locks, replaced keys

VARIABLES
    masterKey,        \* the key file
    directory,        \* the directory of the reference exists
    records,          \* [1..MaxVersion -> the version file, or Absent]
    metadata,         \* metadata.json: the entries, the last is current; <<>>: no file
    lock,             \* .write.lock
    writerPc, writer, \* where a writer is, and what it has read
    readerPc, reader, \* where a reader is, and what it has read
    acknowledged,     \* versions storeSecret or deleteSecret returned for
    recent,           \* what was current since a reader began
    overlapped,       \* a lock was removed from under a live writer
    collided,         \* a writer found its version file there already
    secretFaults

secretVars == <<masterKey, directory, records, metadata, lock, writerPc, writer, readerPc,
                reader, acknowledged, recent, overlapped, collided, secretFaults>>

Operations == {"WRITE", "DELETE"}
Nobody == "nobody"
Free == [held |-> FALSE, by |-> Nobody, stale |-> FALSE]
Absent == [version |-> 0, operation |-> "NONE", value |-> Nobody, key |-> StoreKey]
NoMemory ==
    [metadata |-> <<>>, next |-> 0, operation |-> "NONE", key |-> StoreKey, failed |-> FALSE]

\* encryptRecord: what a version file holds.  The record binds its version and operation.
Encrypted(w) == [version |-> writer[w].next, operation |-> writer[w].operation,
                 value |-> w, key |-> writer[w].key]

\* What metadata keeps of a version: the hash stands for the whole record.
Entry(r) == [version |-> r.version, operation |-> r.operation, recordSha256 |-> r]

Current(m) == m[Len(m)]
Deleted(m) == m = <<>> \/ Current(m).operation = "DELETE"

\* assertMetadata: at least one version, increasing.  That the last one is current, and
\* that "deleted" repeats its operation, is how metadata is written here.
MetadataIsValid(m) ==
    /\ Len(m) >= 1
    /\ \A i \in 1..Len(m) :
          /\ m[i].version >= 1 /\ m[i].operation \in Operations
          /\ i > 1 => m[i].version > m[i-1].version

\* The hash, and what assertRecord compares.
RecordMatches(r, entry) ==
    /\ r = entry.recordSha256
    /\ r.version = entry.version /\ r.operation = entry.operation

\* Variant of KeyCheck: the marker is read and not compared.
KeyUnchecked(key) == key \in Keys

\* assertKeyCheck: the marker's key check was made with StoreKey.
KeyCheck(key) == key = StoreKey

MaximumVersionOnDisk == Max({v \in 1..MaxVersion : records[v] # Absent} \cup {0})

\* Variant of NextVersion: the directory is not listed.
NextOfMetadata(m) == (IF m = <<>> THEN 0 ELSE Current(m).version) + 1

\* The version a writer takes: above metadata's and above every file's.
NextVersion(m) ==
    Max({MaximumVersionOnDisk, IF m = <<>> THEN 0 ELSE Current(m).version}) + 1

(* Writing: writeVersion and withLock. *)

Goto(w, place) == writerPc' = [writerPc EXCEPT ![w] = place]
Fault == secretFaults < MaxFaults /\ secretFaults' = secretFaults + 1

\* A writer comes: mkdir, then the lock.
Begin(w) ==
    /\ writerPc[w] \in {"idle", "stored", "failed", "busy"}
    /\ MaximumVersionOnDisk < MaxVersion
    /\ directory' = TRUE
    /\ \E o \in Operations : writer' = [writer EXCEPT ![w] = [NoMemory EXCEPT !.operation = o]]
    /\ Goto(w, "locking")
    /\ UNCHANGED <<masterKey, records, metadata, lock, readerPc, reader, acknowledged, recent,
                   overlapped, collided, secretFaults>>

\* Variant of LockFree: the lock file is opened without O_EXCL.
NotExclusive == TRUE

\* open(lock, 'wx') succeeds only when nobody holds it.
LockFree == ~lock.held

TakeLock(w) ==
    /\ writerPc[w] = "locking" /\ LockFree
    /\ lock' = [held |-> TRUE, by |-> w, stale |-> FALSE]
    /\ Goto(w, "loading")
    /\ UNCHANGED <<masterKey, directory, records, metadata, writer, readerPc, reader,
                   acknowledged, recent, overlapped, collided, secretFaults>>

\* Five seconds of waiting: SECRET_STORE_BUSY.
GiveUp(w) ==
    /\ writerPc[w] = "locking" /\ lock.held
    /\ Goto(w, "busy")
    /\ UNCHANGED <<masterKey, directory, records, metadata, lock, writer, readerPc, reader,
                   acknowledged, recent, overlapped, collided, secretFaults>>

\* stat finds the lock file older than STALE_LOCK_MS; the unlink is a later call.
SeeStale(w) ==
    /\ writerPc[w] = "locking" /\ lock.held /\ lock.stale
    /\ Goto(w, "stealing")
    /\ UNCHANGED <<masterKey, directory, records, metadata, lock, writer, readerPc, reader,
                   acknowledged, recent, overlapped, collided, secretFaults>>

\* unlink removes whatever lock file is there by now, here and when a writer leaves.
Unlinked(w) ==
    /\ lock' = Free
    /\ overlapped' = (overlapped \/ lock.by \in Writers \ {w})

Steal(w) ==
    /\ writerPc[w] = "stealing"
    /\ Unlinked(w)
    /\ Goto(w, "locking")
    /\ UNCHANGED <<masterKey, directory, records, metadata, writer, readerPc, reader,
                   acknowledged, recent, collided, secretFaults>>

\* Key, marker and metadata are read, the directory is listed.
Load(w) ==
    /\ writerPc[w] = "loading" /\ KeyCheck(masterKey)
    /\ NextVersion(metadata) <= MaxVersion
    /\ writer' = [writer EXCEPT ![w] =
                     [metadata |-> metadata, next |-> NextVersion(metadata),
                      operation |-> @.operation, key |-> masterKey, failed |-> @.failed]]
    /\ Goto(w, "linking")
    /\ UNCHANGED <<masterKey, directory, records, metadata, lock, readerPc, reader,
                   acknowledged, recent, overlapped, collided, secretFaults>>

KeyRefused(w) ==
    /\ writerPc[w] = "loading" /\ ~KeyCheck(masterKey)
    /\ writer' = [writer EXCEPT ![w].failed = TRUE]
    /\ Goto(w, "unlocking")
    /\ UNCHANGED <<masterKey, directory, records, metadata, lock, readerPc, reader,
                   acknowledged, recent, overlapped, collided, secretFaults>>

\* writeAtomic without replace: link(2) refuses a name that exists.
LinkVersion(w) ==
    /\ writerPc[w] = "linking"
    /\ LET v == writer[w].next  taken == records[v] # Absent IN
       /\ records' = IF taken THEN records
                     ELSE [records EXCEPT ![v] = Encrypted(w)]
       /\ collided' = (collided \/ taken)
       /\ writer' = [writer EXCEPT ![w].failed = taken]
       /\ Goto(w, IF taken THEN "unlocking" ELSE "renaming")
    /\ UNCHANGED <<masterKey, directory, metadata, lock, readerPc, reader, acknowledged, recent,
                   overlapped, secretFaults>>

\* writeAtomic with replace: the metadata this writer read, and its version at the end.
RenameMetadata(w) ==
    /\ writerPc[w] = "renaming"
    /\ metadata' = Append(writer[w].metadata, Entry(records[writer[w].next]))
    /\ recent' = [r \in Readers |-> recent[r] \cup {Current(metadata').recordSha256}]
    /\ Goto(w, "unlocking")
    /\ UNCHANGED <<masterKey, directory, records, lock, writer, readerPc, reader, acknowledged,
                   overlapped, collided, secretFaults>>

\* A write, a sync or the directory's sync fails: before the file has its name or after.
CallFails(w) ==
    /\ writerPc[w] \in {"linking", "renaming"} /\ Fault
    /\ writer' = [writer EXCEPT ![w].failed = TRUE]
    /\ Goto(w, "unlocking")
    /\ UNCHANGED <<masterKey, directory, records, metadata, lock, readerPc, reader,
                   acknowledged, recent, overlapped, collided>>

SyncFails(w) ==
    /\ writerPc[w] = "unlocking" /\ writer[w].next > 0 /\ ~writer[w].failed /\ Fault
    /\ writer' = [writer EXCEPT ![w].failed = TRUE]
    /\ UNCHANGED <<masterKey, directory, records, metadata, lock, writerPc, readerPc, reader,
                   acknowledged, recent, overlapped, collided>>

\* The finally block, then the answer.
Unlock(w) ==
    /\ writerPc[w] = "unlocking"
    /\ Unlinked(w)
    /\ Goto(w, IF writer[w].failed THEN "failed" ELSE "stored")
    /\ acknowledged' = IF writer[w].failed THEN acknowledged
                       ELSE acknowledged \cup {writer[w].next}
    /\ writer' = [writer EXCEPT ![w] = NoMemory]
    /\ UNCHANGED <<masterKey, directory, records, metadata, readerPc, reader, recent, collided,
                   secretFaults>>

\* The process dies; its lock file stays.
Crash(w) ==
    /\ writerPc[w] \notin {"idle", "stored", "failed", "busy"} /\ Fault
    /\ lock' = IF lock.by = w THEN [lock EXCEPT !.by = Nobody] ELSE lock
    /\ writer' = [writer EXCEPT ![w] = NoMemory]
    /\ Goto(w, "idle")
    /\ UNCHANGED <<masterKey, directory, records, metadata, readerPc, reader, acknowledged,
                   recent, overlapped, collided>>

\* Thirty seconds pass over a lock file: its writer died, or is slow, which counts as a fault.
Age ==
    /\ lock.held /\ ~lock.stale
    /\ IF lock.by = Nobody THEN UNCHANGED secretFaults ELSE Fault
    /\ lock' = [lock EXCEPT !.stale = TRUE]
    /\ UNCHANGED <<masterKey, directory, records, metadata, writerPc, writer, readerPc, reader,
                   acknowledged, recent, overlapped, collided>>

\* Somebody puts another key in the key file.
ReplaceKey ==
    /\ \E k \in Keys \ {masterKey} : masterKey' = k
    /\ Fault
    /\ UNCHANGED <<directory, records, metadata, lock, writerPc, writer, readerPc, reader,
                   acknowledged, recent, overlapped, collided>>

(* Reading: getSecret. *)

ReadMetadata(r) ==
    /\ readerPc[r] = "reading"
    /\ recent' = [recent EXCEPT ![r] =
                     IF metadata = <<>> THEN {} ELSE {Current(metadata).recordSha256}]
    /\ reader' = [reader EXCEPT ![r] = IF Deleted(metadata) THEN Absent
                                       ELSE Current(metadata).recordSha256]
    /\ readerPc' = [readerPc EXCEPT ![r] = IF Deleted(metadata) THEN "NOT_FOUND" ELSE "opening"]
    /\ UNCHANGED <<masterKey, directory, records, metadata, lock, writerPc, writer,
                   acknowledged, overlapped, collided, secretFaults>>

\* Variant of Opened: the newest version file of the directory.
NewestFile(r) == records[MaximumVersionOnDisk]

\* The version file metadata named, checked against the entry it was named by.
Opened(r) == records[reader[r].version]

ReadRecord(r) ==
    /\ readerPc[r] = "opening"
    /\ reader' = [reader EXCEPT ![r] = Opened(r)]
    /\ readerPc' = [readerPc EXCEPT ![r] =
                       IF Opened(r).key # masterKey THEN "KEY_MISMATCH" ELSE "read"]
    /\ UNCHANGED <<masterKey, directory, records, metadata, lock, writerPc, writer,
                   acknowledged, recent, overlapped, collided, secretFaults>>

Init ==
    /\ masterKey \in Keys /\ directory = FALSE
    /\ records = [v \in 1..MaxVersion |-> Absent] /\ metadata = <<>> /\ lock = Free
    /\ writerPc = [w \in Writers |-> "idle"] /\ writer = [w \in Writers |-> NoMemory]
    /\ readerPc = [r \in Readers |-> "reading"] /\ reader = [r \in Readers |-> Absent]
    /\ acknowledged = {} /\ recent = [r \in Readers |-> {}]
    /\ overlapped = FALSE /\ collided = FALSE /\ secretFaults = 0

Next ==
    \/ \E w \in Writers :
          \/ Begin(w) \/ TakeLock(w) \/ GiveUp(w) \/ SeeStale(w) \/ Steal(w)
          \/ Load(w) \/ KeyRefused(w) \/ LinkVersion(w) \/ RenameMetadata(w)
          \/ CallFails(w) \/ SyncFails(w) \/ Unlock(w) \/ Crash(w)
    \/ Age \/ ReplaceKey
    \/ \E r \in Readers : ReadMetadata(r) \/ ReadRecord(r)

(* Startup: ensureReady and verifyAllSecrets. *)

EnsureReady ==
    IF ~KeyCheck(masterKey) THEN "SECRET_MASTER_KEY_MISMATCH"
    ELSE IF directory /\ metadata = <<>> THEN "ENOENT"
    ELSE IF metadata = <<>> THEN "READY"
    ELSE IF /\ MetadataIsValid(metadata)
            /\ \A i \in 1..Len(metadata) :
                  LET r == records[metadata[i].version] IN
                  RecordMatches(r, metadata[i]) /\ r.key = masterKey
         THEN "READY" ELSE "SECRET_INTEGRITY_FAILED"

TypeOK ==
    /\ masterKey \in Keys /\ directory \in BOOLEAN
    /\ \A v \in 1..MaxVersion : records[v].operation \in Operations \cup {"NONE"}
    /\ lock.by \in Writers \cup {Nobody} /\ lock.held \in BOOLEAN /\ lock.stale \in BOOLEAN
    /\ acknowledged \subseteq 1..MaxVersion
    /\ overlapped \in BOOLEAN /\ collided \in BOOLEAN /\ secretFaults \in 0..MaxFaults

\* Whatever overlaps, dies or fails, metadata names whole versions, in order, of one key:
\* startup never finds the store damaged.
NeverDamaged ==
    /\ EnsureReady # "SECRET_INTEGRITY_FAILED"
    /\ \A v \in 1..MaxVersion : records[v] # Absent => records[v].key = StoreKey

\* While no lock was taken from a live writer, what was acknowledged is not lost, and no
\* writer finds its version taken, whatever files died writers left.
AcknowledgedIsKept ==
    ~overlapped =>
        /\ ~collided
        /\ \A v \in acknowledged : \E i \in 1..Len(metadata) : metadata[i].version = v

\* A reader gets what was current at some moment of its reading: never a version whose
\* write was not completed, nor a deleted one.
ReadIsRecent ==
    \A r \in Readers : readerPc[r] = "read" =>
        reader[r] \in recent[r] /\ reader[r].operation = "WRITE"

\* The store under concurrent writers, failures and replaced keys.
SecretsInv == TypeOK /\ NeverDamaged /\ AcknowledgedIsKept /\ ReadIsRecent
=============================================================================
