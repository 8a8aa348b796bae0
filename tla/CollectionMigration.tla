------------------------ MODULE CollectionMigration ------------------------
(* Opening the Chroma collection (storage/chroma_init.py). When the vectors  *)
(* on disk do not have the dimension the embedding provider reports, the     *)
(* collection is backed up, deleted, created again and filled by embedding   *)
(* every document anew, a batch at a time. The first backup is a dictionary  *)
(* of the process: a crash loses it.                                         *)
EXTENDS Naturals, FiniteSets

CONSTANTS
    Memories,   \* documents the collection may hold
    Dims,       \* vector dimensions
    BatchSize,  \* documents re-imported per collection.add (50 in the code)
    MaxCrashes, \* bound on process crashes
    MaxBoots    \* bound on starts: each may find another embedding model

VARIABLES
    disk,       \* the collection: present, dimension, documents
    files,      \* documents saved in a backup collection or a JSON file
    backup,     \* documents in the in-memory backup of this start
    stage,      \* where ChromaInitializer.initialize is
    settings,   \* of this start: provider dimension, embedding up, reimport enabled
    todo,       \* documents still to re-import
    failed,     \* failed_ids of the re-imports
    crashes, boots,
    written,    \* history: every document ever stored
    dropped     \* history: backup in memory that a crash or a disabled re-import threw away

vars == <<disk, files, backup, stage, settings, todo, failed, crashes, boots, written, dropped>>

Settings == [dim: Dims, up: BOOLEAN, reimport: BOOLEAN]
Absent == [present |-> FALSE, dim |-> CHOOSE d \in Dims : TRUE, docs |-> {}]

Init ==
    /\ disk = Absent
    /\ files = {} /\ backup = {} /\ todo = {} /\ failed = {}
    /\ stage = "down"
    /\ settings = CHOOSE s \in Settings : s.up
    /\ crashes = 0 /\ boots = 0
    /\ written = {} /\ dropped = {}

-----------------------------------------------------------------------------
(* initialize(): the embedding provider is started and reports a dimension   *)
(* (a provider whose probe fails reports its default); the dimension of the  *)
(* stored vectors is read from a vector or from the collection's metadata.   *)
Start ==
    /\ stage = "down" /\ boots < MaxBoots
    /\ \E s \in Settings : settings' = s
    /\ boots' = boots + 1
    /\ \E readable \in BOOLEAN :
         stage' = IF disk.present /\ readable /\ disk.dim # settings'.dim
                  THEN "conflict" ELSE "create"
    /\ backup' = {} /\ todo' = {} /\ failed' = {}
    /\ UNCHANGED <<disk, files, crashes, written, dropped>>

\* _handle_dimension_conflict: in memory, or else in a file, or else the old
\* collection stays as it is.
TakeBackup ==
    /\ stage = "conflict"
    /\ \/ backup' = disk.docs /\ UNCHANGED files /\ stage' = "delete"
       \/ /\ disk.docs # {}
          /\ \/ files' = files \cup disk.docs /\ stage' = "delete"
             \/ stage' = "create" /\ UNCHANGED files
          /\ UNCHANGED backup
    /\ UNCHANGED <<disk, settings, todo, failed, crashes, boots, written, dropped>>

DeleteCollection ==
    /\ stage = "delete"
    /\ disk' = Absent
    /\ stage' = "create"
    /\ UNCHANGED <<files, backup, settings, todo, failed, crashes, boots, written, dropped>>

OpenedDim == IF disk.present THEN disk.dim ELSE settings.dim

\* _create_or_use_collection; a backup is imported unless the configuration
\* disables it, and is then only mentioned in the log.
OpenCollection ==
    /\ stage = "create"
    /\ disk' = [disk EXCEPT !.present = TRUE, !.dim = OpenedDim]
    /\ IF backup # {} /\ settings.reimport
       THEN stage' = "reimport" /\ todo' = backup /\ UNCHANGED <<backup, dropped>>
       ELSE stage' = "ready" /\ dropped' = dropped \cup backup /\ backup' = {} /\ UNCHANGED todo
    /\ UNCHANGED <<files, settings, failed, crashes, boots, written>>

Batches == {b \in SUBSET todo : Cardinality(b) = IF Cardinality(todo) < BatchSize THEN Cardinality(todo) ELSE BatchSize}

\* Mutant: documents whose embedding failed are not recorded.
Unembedded_Silent(b, valid) == {}

Unembedded(b, valid) == b \ valid

\* One batch of _reimport_memories: each document is embedded or fails, and the
\* embedded ones are added together or fail together.
ReimportBatch ==
    /\ stage = "reimport" /\ todo # {}
    /\ \E b \in Batches : \E valid \in SUBSET b :
         /\ ~settings.up => valid = {}
         /\ todo' = todo \ b
         /\ \/ /\ disk' = [disk EXCEPT !.docs = @ \cup valid]
               /\ failed' = failed \cup Unembedded(b, valid)
            \/ /\ valid # {}
               /\ failed' = failed \cup Unembedded(b, valid) \cup valid
               /\ UNCHANGED disk
    /\ UNCHANGED <<files, backup, stage, settings, crashes, boots, written, dropped>>

ReimportDone ==
    /\ stage = "reimport" /\ todo = {}
    /\ stage' = "ready" /\ backup' = {}
    /\ UNCHANGED <<disk, files, settings, todo, failed, crashes, boots, written, dropped>>

(* The running plugin stores documents; a row whose vector has another       *)
(* dimension than the collection is refused by Chroma.                       *)
Store(m) ==
    /\ stage = "ready" /\ settings.up /\ m \notin written
    /\ disk.dim = settings.dim
    /\ disk' = [disk EXCEPT !.docs = @ \cup {m}]
    /\ written' = written \cup {m}
    /\ UNCHANGED <<files, backup, stage, settings, todo, failed, crashes, boots, dropped>>

Stop ==
    /\ stage = "ready" /\ stage' = "down"
    /\ UNCHANGED <<disk, files, backup, settings, todo, failed, crashes, boots, written, dropped>>

Crash ==
    /\ stage # "down" /\ crashes < MaxCrashes
    /\ crashes' = crashes + 1
    /\ stage' = "down"
    /\ dropped' = dropped \cup (backup \ (disk.docs \cup failed))
    /\ backup' = {} /\ todo' = {}
    /\ UNCHANGED <<disk, files, settings, failed, boots, written>>

Next ==
    \/ Start \/ TakeBackup \/ DeleteCollection \/ OpenCollection
    \/ ReimportBatch \/ ReimportDone \/ Stop \/ Crash
    \/ \E m \in Memories : Store(m)

Spec == Init /\ [][Next]_vars

-----------------------------------------------------------------------------
Reported == disk.docs \cup files \cup failed \cup dropped

\* Every document ever stored is, whatever the order of conflicts, failed
\* backups, failed batches and crashes, still in the collection, in a backup,
\* in the failed_ids of this start, or known to have been thrown away by a
\* crash or by the disabled re-import; earlier failures are only in that log.
LossAccounted == [][(written \ (Reported \cup backup))' \subseteq (written \ (Reported \cup backup)) \cup failed]_vars

\* The vectors of the collection are of one dimension: it changes only when the
\* collection is created, and never while it holds documents.
DimensionFixed == [][disk.docs # {} /\ disk'.docs # {} => disk'.dim = disk.dim]_vars

\* The collection is deleted only with all its documents in the backup of this
\* start or in a file (chroma_init.py aborts the deletion when all backups failed).
BackupBeforeDelete == stage = "delete" => disk.docs \subseteq backup \cup files

\* Changing the embedding model deletes a collection only after its backup, loses
\* no memory unaccounted for, and never mixes dimensions.
MigrationSound == []BackupBeforeDelete /\ LossAccounted /\ DimensionFixed

(* What chroma_init.py:80 tells the user when the re-import is disabled.     *)
\* Every document thrown away by a start that does not re-import can be found
\* in a backup collection.
BackupFindable == crashes = 0 => dropped \subseteq files \cup disk.docs
=============================================================================
