------------------------ MODULE SecretStoreOperations ------------------------
(***************************************************************************)
(* What operators do to an encrypted secret store: initialise it, migrate   *)
(* recovered values into it, back it up while services write, restore the   *)
(* backup (encrypted-file-secret-provider.adapter.ts, local-secret-store-   *)
(* backup.ts, scripts/migrate-local-hacienda-secrets.ts).                   *)
(***************************************************************************)
EXTENDS Naturals, FiniteSets

CONSTANTS
    Initialisers,     \* initialisations, each of its own root, of one key path
    References,       \* references a migration fills
    MaxWrites         \* bound: versions the services write while a backup runs

VARIABLES
    keyFile,          \* who made the key file: an initialiser, "operator" or "none"
    root,             \* [Initialisers -> "none", "directory" or "marked"]
    initPc,           \* where each initialisation is
    versions, named,  \* version files linked, and the last one metadata names
    backupPc, listed, \* the backup, and the version files its listing saw
    copied, copiedAll,\* metadata as copied; the versions copied
    quiet,            \* no write began or ended since the backup began
    manifest, damaged,\* the backup has its manifest; a file of it was changed since
    restorePc,
    value,            \* [References -> "none", "recovered" or "other"]
    before,           \* value when the migration began
    migratePc, missing, raced

storeVars == <<keyFile, root, initPc>>
backupVars == <<versions, named, backupPc, listed, copied, copiedAll, quiet, manifest, damaged,
                restorePc>>
migrationVars == <<value, before, migratePc, missing, raced>>
operationVars == <<storeVars, backupVars, migrationVars>>

(* initializeEncryptedFileSecretStore *)

\* mkdir of a root that is there fails, and nothing is cleaned up for it.
MakeRoot(i) ==
    /\ initPc[i] = "begin"
    /\ root' = [root EXCEPT ![i] = "directory"]
    /\ initPc' = [initPc EXCEPT ![i] = "key"]
    /\ UNCHANGED <<keyFile, backupVars, migrationVars>>

\* The key file is written with 'wx'.
WriteKey(i) ==
    /\ initPc[i] = "key"
    /\ keyFile' = IF keyFile = "none" THEN i ELSE keyFile
    /\ initPc' = [initPc EXCEPT ![i] = IF keyFile = "none" THEN "marker" ELSE "cleanup"]
    /\ UNCHANGED <<root, backupVars, migrationVars>>

WriteMarker(i) ==
    /\ initPc[i] = "marker"
    /\ \/ /\ root' = [root EXCEPT ![i] = "marked"]
          /\ initPc' = [initPc EXCEPT ![i] = "ready"]
       \/ /\ initPc' = [initPc EXCEPT ![i] = "cleanupKey"]
          /\ UNCHANGED root
    /\ UNCHANGED <<keyFile, backupVars, migrationVars>>

\* Variant of KeyAfterCleanup: the key file is removed whoever made it.
KeyAlwaysRemoved(i) == "none"

\* What a failed initialisation removes: a key only when this call made it.
KeyAfterCleanup(i) == IF initPc[i] = "cleanupKey" THEN "none" ELSE keyFile

CleanUp(i) ==
    /\ initPc[i] \in {"cleanup", "cleanupKey"}
    /\ keyFile' = KeyAfterCleanup(i)
    /\ root' = [root EXCEPT ![i] = "none"]
    /\ initPc' = [initPc EXCEPT ![i] = "failed"]
    /\ UNCHANGED <<backupVars, migrationVars>>

(* The services write: a version is linked, then metadata names it. *)

LinkVersion ==
    /\ versions = named /\ versions < MaxWrites
    /\ versions' = versions + 1 /\ quiet' = FALSE
    /\ UNCHANGED <<named, backupPc, listed, copied, copiedAll, manifest, damaged, restorePc,
                   storeVars, migrationVars>>

NameVersion ==
    /\ named < versions
    /\ named' = versions /\ quiet' = FALSE
    /\ UNCHANGED <<versions, backupPc, listed, copied, copiedAll, manifest, damaged, restorePc,
                   storeVars, migrationVars>>

(* backupEncryptedSecretStore *)

\* listStoreFiles: the whole tree is listed before anything is copied.
ListFiles ==
    /\ backupPc = "begin"
    /\ backupPc' = "metadata" /\ listed' = versions /\ quiet' = (versions = named)
    /\ UNCHANGED <<versions, named, copied, copiedAll, manifest, damaged, restorePc, storeVars,
                   migrationVars>>

\* "metadata.json" sorts before its version files.
CopyMetadata ==
    /\ backupPc = "metadata"
    /\ copied' = named /\ backupPc' = "compare"
    /\ UNCHANGED <<versions, named, listed, copiedAll, quiet, manifest, damaged, restorePc,
                   storeVars, migrationVars>>

\* The source is read again and compared with the copy.
CompareMetadata ==
    /\ backupPc = "compare"
    /\ backupPc' = IF copied = named THEN "versions" ELSE "failed"
    /\ UNCHANGED <<versions, named, listed, copied, copiedAll, quiet, manifest, damaged,
                   restorePc, storeVars, migrationVars>>

\* Variant of CopiedVersions: the last file of the listing is missed.
CopiedButLast == 1..(IF listed = 0 THEN 0 ELSE listed - 1)

\* The versions a backup takes: those of the listing; version files never change.
CopiedVersions == 1..listed

CopyVersions ==
    /\ backupPc = "versions"
    /\ copiedAll' = CopiedVersions
    /\ backupPc' = "manifest"
    /\ UNCHANGED <<versions, named, listed, copied, quiet, manifest, damaged, restorePc,
                   storeVars, migrationVars>>

WriteManifest ==
    /\ backupPc = "manifest"
    /\ manifest' = TRUE /\ backupPc' = "done"
    /\ UNCHANGED <<versions, named, listed, copied, copiedAll, quiet, damaged, restorePc,
                   storeVars, migrationVars>>

\* A copy fails, the disk is full, the process dies: no manifest.
BackupDies ==
    /\ backupPc \in {"metadata", "compare", "versions", "manifest"}
    /\ backupPc' = "failed"
    /\ UNCHANGED <<versions, named, listed, copied, copiedAll, quiet, manifest, damaged,
                   restorePc, storeVars, migrationVars>>

\* A file of the backup is changed, lost or added where it is kept.
Damage ==
    /\ manifest /\ ~damaged /\ restorePc = "begin"
    /\ damaged' = TRUE
    /\ UNCHANGED <<versions, named, backupPc, listed, copied, copiedAll, quiet, manifest,
                   restorePc, storeVars, migrationVars>>

(* restoreEncryptedSecretStore *)

\* Variant of BackupVerifies: the files are not hashed again.
ManifestIsEnough == manifest

\* The manifest, the number of files, and the size and hash of each.
BackupVerifies == manifest /\ ~damaged

CheckBackup ==
    /\ restorePc = "begin" /\ backupPc \in {"done", "failed"}
    /\ restorePc' = IF BackupVerifies THEN "copying" ELSE "refused"
    /\ UNCHANGED <<versions, named, backupPc, listed, copied, copiedAll, quiet, manifest,
                   damaged, storeVars, migrationVars>>

\* After the copy verifyAllSecrets opens every version metadata names; with a directory and
\* no metadata it finds nothing to open and fails too.
VerifyRestored ==
    /\ restorePc = "copying"
    /\ restorePc' = IF /\ \A v \in 1..copied : v \in copiedAll
                       /\ copied = 0 => copiedAll = {}
                    THEN "restored" ELSE "ENOENT"
    /\ UNCHANGED <<versions, named, backupPc, listed, copied, copiedAll, quiet, manifest,
                   damaged, storeVars, migrationVars>>

(* migrate-local-hacienda-secrets *)

\* Variant of Differs: whatever is not there as recovered is written.
DiffersNever(r) == FALSE

\* A reference that holds another value refuses the migration.
Differs(r) == value[r] = "other"

CheckReferences ==
    /\ migratePc \in {"begin", "died"}
    /\ before' = value
    /\ missing' = {r \in References : value[r] # "recovered"}
    /\ migratePc' = IF \E r \in References : Differs(r) THEN "refused" ELSE "storing"
    /\ raced' = FALSE
    /\ UNCHANGED <<value, storeVars, backupVars>>

StoreMissing ==
    /\ migratePc = "storing" /\ missing # {}
    /\ \E r \in missing : /\ value' = [value EXCEPT ![r] = "recovered"]
                          /\ missing' = missing \ {r}
    /\ UNCHANGED <<before, migratePc, raced, storeVars, backupVars>>

VerifyMigrated ==
    /\ migratePc = "storing" /\ missing = {}
    /\ migratePc' = IF \A r \in References : value[r] = "recovered" THEN "passed" ELSE "failed"
    /\ UNCHANGED <<value, before, missing, raced, storeVars, backupVars>>

\* It dies with some references written; it is run again.
MigrationDies ==
    /\ migratePc = "storing" /\ migratePc' = "died"
    /\ UNCHANGED <<value, before, missing, raced, storeVars, backupVars>>

\* put-local-secret found nothing there and stores another value: at a reference a
\* migration that is storing may have filled in between.
PutOther ==
    /\ \E r \in References : /\ \/ value[r] = "none"
                                \/ value[r] = "recovered" /\ migratePc = "storing"
                             /\ value' = [value EXCEPT ![r] = "other"]
    /\ migratePc \in {"begin", "storing", "died"} /\ ~raced
    /\ raced' = (migratePc = "storing")
    /\ UNCHANGED <<before, migratePc, missing, storeVars, backupVars>>

Init ==
    /\ keyFile \in {"none", "operator"}
    /\ root = [i \in Initialisers |-> "none"] /\ initPc = [i \in Initialisers |-> "begin"]
    /\ versions \in 0..1 /\ named = versions /\ backupPc = "begin" /\ listed = 0
    /\ copied = 0 /\ copiedAll = {} /\ quiet = TRUE /\ manifest = FALSE /\ damaged = FALSE
    /\ restorePc = "begin"
    /\ value \in [References -> {"none", "recovered"}] /\ before = value
    /\ migratePc = "begin" /\ missing = {} /\ raced = FALSE

Initialise == \E i \in Initialisers : MakeRoot(i) \/ WriteKey(i) \/ WriteMarker(i) \/ CleanUp(i)
Backup == ListFiles \/ CopyMetadata \/ CompareMetadata \/ CopyVersions \/ WriteManifest
          \/ BackupDies
Migrate == CheckReferences \/ StoreMissing \/ VerifyMigrated \/ MigrationDies \/ PutOther
BackUpAndRestore == LinkVersion \/ NameVersion \/ Backup \/ Damage \/ CheckBackup \/ VerifyRestored
Next == Initialise \/ BackUpAndRestore \/ Migrate

\* An initialised store keeps its key, and a key another made outlives a failed attempt.
KeyIsKept ==
    \A i \in Initialisers : root[i] = "marked" => keyFile = i

\* What was restored is whole and unchanged; and a backup of a store nobody was writing,
\* unchanged since, restores.
RestoreIsFaithful ==
    /\ restorePc = "restored" => ~damaged /\ copied <= named
    /\ restorePc = "ENOENT" => ~quiet

\* A value that was there when the migration began is not overwritten by it, and it passes
\* only with every reference recovered.
MigrationKeepsValues ==
    /\ ~raced => \A r \in References :
          before[r] = "other" => migratePc \notin {"storing", "passed", "failed"}
    /\ migratePc = "passed" => \A r \in References : value[r] = "recovered"

\* What operators do to a store loses nothing.
OperationsInv == KeyIsKept /\ RestoreIsFaithful /\ MigrationKeepsValues
=============================================================================
