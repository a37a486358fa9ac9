----------------------------- MODULE BackupStore -----------------------------
(***************************************************************************)
(* The dataset backup of internal/backup/store.go: one snapshot of a       *)
(* Thread operational dataset, held in memory (Store.snap) and in a JSON   *)
(* file (Store.path).  Save writes the file first, without Store.mu, and   *)
(* only then takes the lock to replace the pointer, so a Save is two steps *)
(* here.  The file is replaced by a rename, so every state of it is a      *)
(* complete snapshot; the temporary file has a unique name, is private to  *)
(* its Save and is not modelled.  The steps are taken by the handlers of   *)
(* NetworkControl, which instantiates this module.                         *)
(***************************************************************************)
CONSTANTS
  Savers,    \* the callers of Save: concurrent HTTP handlers
  Datasets,  \* the operational datasets (a TLV, or the name read with it)
  NoBackup,  \* no snapshot: a nil pointer, a missing file, an idle saver
  Faults     \* the failures the environment may cause: "load", "crash"

Snapshot == [tlv : Datasets, name : Datasets]

VARIABLES
  running,   \* is the process up?
  file,      \* the content of dataset-backup.json
  snap,      \* Store.snap
  saving     \* the snapshot a Save has written to the file but not published

backupVars == <<running, file, snap, saving>>

TypeOK ==
  /\ running \in BOOLEAN
  /\ file \in Snapshot \cup {NoBackup}
  /\ snap \in Snapshot \cup {NoBackup}
  /\ saving \in [Savers -> Snapshot \cup {NoBackup}]

Idle == [c \in Savers |-> NoBackup]

(* Before the process starts the file is missing, or holds the snapshot of *)
(* an earlier process: a dataset with its own name.                        *)
Init ==
  /\ running = FALSE
  /\ file \in {NoBackup} \cup {[tlv |-> d, name |-> d] : d \in Datasets}
  /\ snap = NoBackup
  /\ saving = Idle

(* Load, called once by main.  A file that cannot be read or decoded is    *)
(* only a warning there: the process carries on without a snapshot.        *)
Load ==
  /\ ~running
  /\ running' = TRUE
  /\ \/ snap' = file
     \/ "load" \in Faults /\ snap' = NoBackup
  /\ UNCHANGED <<file, saving>>

(* Defect: Save publishes a snapshot it never wrote to the file.           *)
PersistMemoryOnly(c, s) ==
  /\ running
  /\ saving[c] = NoBackup
  /\ saving' = [saving EXCEPT ![c] = s]
  /\ UNCHANGED <<running, file, snap>>

(* The first half of Save: persist succeeds, outside Store.mu.             *)
Persist(c, s) ==
  /\ running
  /\ saving[c] = NoBackup
  /\ file' = s
  /\ saving' = [saving EXCEPT ![c] = s]
  /\ UNCHANGED <<running, snap>>

(* The second half of Save: the pointer is replaced under Store.mu.        *)
Publish(c) ==
  /\ saving[c] # NoBackup
  /\ snap' = saving[c]
  /\ saving' = [saving EXCEPT ![c] = NoBackup]
  /\ UNCHANGED <<running, file>>

(* The process stops at any point; only the file survives it.              *)
Crash ==
  /\ "crash" \in Faults
  /\ running
  /\ running' = FALSE
  /\ snap' = NoBackup
  /\ saving' = Idle
  /\ UNCHANGED file

-----------------------------------------------------------------------------

(* What the process would offer to restore is not what the next process    *)
(* would load, and no Save is half done.                                   *)
Apart == running /\ saving = Idle /\ snap # file

=============================================================================
