--------------------------- MODULE NetworkControl ---------------------------
(***************************************************************************)
(* The network control handlers of internal/api/server.go on top of the    *)
(* writes of internal/otbr/network.go and the backup of                    *)
(* internal/backup/store.go.  Requests run concurrently, each in its own   *)
(* goroutine.  A handler takes a best-effort backup of the active dataset  *)
(* (two reads of OTBR, then a Save), and only then, inside the OTBR        *)
(* client, takes controlMu for the sequence of writes that makes the       *)
(* change.  OTBR is external: it applies what it is sent, and any call to  *)
(* it can fail, with or without its effect.                                *)
(***************************************************************************)
CONSTANTS
  Requests,    \* the slots of concurrent control requests
  Nobody,      \* no request: controlMu is free
  Datasets,    \* the valid operational datasets
  NoDataset,   \* no active dataset, or nothing read
  Invalid,     \* a dataset the request cannot ask for: validation rejects it
  NoBackup,    \* no snapshot
  Faults       \* a subset of {"load", "crash", "read", "persist", "write"}

ASSUME DistinctValues ==
  /\ Nobody \notin Requests
  /\ NoDataset \notin Datasets
  /\ Invalid \notin Datasets \cup {NoDataset}
  /\ NoBackup \notin [tlv : Datasets, name : Datasets]

VARIABLES
  running, file, snap, saving,   \* see BackupStore
  pc,      \* pc[r]: where request r is; "idle" when the slot is free
  op,      \* op[r]: what r asks for
  target,  \* target[r]: the dataset r asks for
  creds,   \* creds[r]: the dataset r has read for its backup
  mutex,   \* the request that holds controlMu
  otbr,    \* OTBR: the active dataset and whether the interface is up
  base,    \* history: what OTBR held when controlMu was last free
  marred   \* history: marred[r] is why r's backup may not be what it should

vars == <<running, file, snap, saving, pc, op, target, creds, mutex,
          otbr, base, marred>>

Backup == INSTANCE BackupStore WITH Savers <- Requests

Network == [dataset : Datasets \cup {NoDataset}, enabled : BOOLEAN]
Blank == [tlv |-> NoDataset, name |-> NoDataset]

(* The places where a handler can be while it holds controlMu.             *)
Locked == {"state", "disable", "put", "enable", "delete"}

TypeOK ==
  /\ Backup!TypeOK
  /\ pc \in [Requests -> Locked \cup {"idle", "dataset", "tlv", "save",
                                      "publish", "control", "refresh"}]
  /\ op \in [Requests -> {"none", "apply", "restore", "leave", "up", "down"}]
  /\ target \in [Requests -> Datasets \cup {NoDataset, Invalid}]
  /\ creds \in [Requests -> [tlv : Datasets \cup {NoDataset},
                             name : Datasets \cup {NoDataset}]]
  /\ mutex \in Requests \cup {Nobody}
  /\ otbr \in Network
  /\ base \in Network
  /\ marred \in [Requests -> SUBSET {"network", "backup", "failed"}]

Init ==
  /\ Backup!Init
  /\ pc = [r \in Requests |-> "idle"]
  /\ op = [r \in Requests |-> "none"]
  /\ target = [r \in Requests |-> NoDataset]
  /\ creds = [r \in Requests |-> Blank]
  /\ mutex = Nobody
  /\ otbr \in Network
  /\ base = otbr
  /\ marred = [r \in Requests |-> {}]

backupVars == <<running, file, snap, saving>>
requestVars == <<op, target>>
networkVars == <<mutex, otbr, base>>

Goto(r, place) == pc' = [pc EXCEPT ![r] = place]

-----------------------------------------------------------------------------
(* History: what has come between a request and its backup.  "network":    *)
(* another request has changed the active dataset since the backup's first *)
(* read of it.  "backup": another has replaced the file or the restore     *)
(* point since the backup was written.  "failed": there was a dataset, and *)
(* it could not be read or written.                                        *)

BackingUp == {"dataset", "tlv", "save"}
HasBegun(q) == pc[q] \notin {"idle", "dataset", "refresh"} /\ op[q] \notin {"up", "down"}

(* What r's own step starts afresh, and what it adds.                      *)
Own(r) ==
  IF pc[r] \in {"idle", "dataset"} \/ pc'[r] \in {"idle", "refresh"} THEN {}
  ELSE IF pc[r] = "save" THEN marred[r] \ {"backup"}
  ELSE marred[r]

Failure(r) ==
  IF pc[r] \in BackingUp /\ pc'[r] = "control" /\ otbr.dataset # NoDataset
  THEN {"failed"} ELSE {}

(* What r's step does to another request.                                  *)
Mars(q) ==
  (IF HasBegun(q) /\ otbr'.dataset # otbr.dataset THEN {"network"} ELSE {}) \cup
  (IF HasBegun(q) /\ <<file, snap>>' # <<file, snap>> THEN {"backup"} ELSE {})

Track(r) ==
  marred' = [q \in Requests |-> IF q = r THEN Own(r) \cup Failure(r)
                                         ELSE marred[q] \cup Mars(q)]

-----------------------------------------------------------------------------
(* Arrival: the handler decodes the body and starts.                       *)

Receive(r, o, d, place) ==
  /\ running
  /\ pc[r] = "idle"
  /\ Goto(r, place)
  /\ op' = [op EXCEPT ![r] = o]
  /\ target' = [target EXCEPT ![r] = d]
  /\ UNCHANGED <<backupVars, creds, networkVars>>
  /\ Track(r)

(* POST form: the rest of the dataset is generated.                        *)
Form(r, d) == Receive(r, "apply", d, "dataset")

(* POST join: the dataset is built from the credentials supplied.          *)
Join(r, d) == Receive(r, "apply", d, "dataset")

(* POST join/tlv: the dataset is supplied whole.                           *)
JoinTLV(r, d) == Receive(r, "apply", d, "dataset")

(* Defect: leaving is not taken for a destructive change.                  *)
LeaveWithoutBackup(r) == Receive(r, "leave", NoDataset, "control")

(* DELETE network.                                                         *)
Leave(r) == Receive(r, "leave", NoDataset, "dataset")

(* PUT state takes no backup.                                              *)
SetEnabled(r, up) ==
  Receive(r, IF up THEN "up" ELSE "down", NoDataset, "control")

(* Defect: a restore does not back up the network it replaces.             *)
RestoreWithoutBackup(r) ==
  /\ snap # NoBackup
  /\ Receive(r, "restore", snap.tlv, "control")

(* POST restore reads the restore point before it backs up the network it  *)
(* is about to replace.  With nothing saved it answers 404 and does        *)
(* nothing.                                                                *)
Restore(r) ==
  /\ snap # NoBackup
  /\ Receive(r, "restore", snap.tlv, "dataset")

-----------------------------------------------------------------------------
(* The backup before a change: best effort, so whatever goes wrong here    *)
(* the handler goes on to the change.                                      *)

GiveUpBackup(r) ==
  /\ Goto(r, "control")
  /\ creds' = [creds EXCEPT ![r] = Blank]

(* DatasetCredentials, first read: the dataset as JSON.                    *)
ReadDataset(r) ==
  /\ pc[r] = "dataset"
  /\ \/ /\ otbr.dataset # NoDataset
        /\ creds' = [creds EXCEPT ![r].name = otbr.dataset]
        /\ Goto(r, "tlv")
     \/ /\ otbr.dataset = NoDataset \/ "read" \in Faults
        /\ GiveUpBackup(r)
  /\ UNCHANGED <<backupVars, requestVars, networkVars>>
  /\ Track(r)

(* DatasetCredentials, second read: the dataset as TLV.                    *)
ReadTLV(r) ==
  /\ pc[r] = "tlv"
  /\ \/ /\ otbr.dataset # NoDataset
        /\ creds' = [creds EXCEPT ![r].tlv = otbr.dataset]
        /\ Goto(r, "save")
     \/ /\ otbr.dataset = NoDataset \/ "read" \in Faults
        /\ GiveUpBackup(r)
  /\ UNCHANGED <<backupVars, requestVars, networkVars>>
  /\ Track(r)

(* Defect: the name saved is the one the request asks for.                 *)
SaveFileUnderNewName(r) ==
  /\ pc[r] = "save"
  /\ Backup!Persist(r, [creds[r] EXCEPT !.name = target[r]])
  /\ Goto(r, "publish")
  /\ UNCHANGED <<requestVars, creds, networkVars>>
  /\ Track(r)

(* Save, first half: the file.                                             *)
SaveFile(r) ==
  /\ pc[r] = "save"
  /\ Backup!Persist(r, creds[r])
  /\ Goto(r, "publish")
  /\ UNCHANGED <<requestVars, creds, networkVars>>
  /\ Track(r)

SaveFails(r) ==
  /\ pc[r] = "save"
  /\ "persist" \in Faults
  /\ GiveUpBackup(r)
  /\ UNCHANGED <<backupVars, requestVars, networkVars>>
  /\ Track(r)

(* Save, second half: the pointer.                                         *)
SavePointer(r) ==
  /\ pc[r] = "publish"
  /\ Backup!Publish(r)
  /\ GiveUpBackup(r)
  /\ UNCHANGED <<requestVars, networkVars>>
  /\ Track(r)

-----------------------------------------------------------------------------
(* The change itself.                                                      *)

(* The handler answers and returns: its locals are gone.                   *)
Answer(r) ==
  /\ Goto(r, "idle")
  /\ op' = [op EXCEPT ![r] = "none"]
  /\ target' = [target EXCEPT ![r] = NoDataset]

(* What the validation of names, keys, channels and TLVs lets through.     *)
Valid(d) == d # Invalid

(* Validation rejects the request, after the backup was taken.             *)
Reject(r) ==
  /\ pc[r] = "control"
  /\ ~Valid(target[r])
  /\ Answer(r)
  /\ UNCHANGED <<backupVars, creds, networkVars>>
  /\ Track(r)

(* Defect: the sequence of writes does not wait for controlMu.             *)
LockWithoutWaiting(r) ==
  /\ pc[r] = "control"
  /\ Valid(target[r])
  /\ mutex' = r
  /\ Goto(r, IF op[r] \in {"up", "down"} THEN "state" ELSE "disable")
  /\ UNCHANGED <<backupVars, requestVars, creds, otbr, base>>
  /\ Track(r)

(* Defect: nothing is validated.                                           *)
LockUnvalidated(r) ==
  /\ pc[r] = "control"
  /\ mutex = Nobody
  /\ mutex' = r
  /\ Goto(r, IF op[r] \in {"up", "down"} THEN "state" ELSE "disable")
  /\ UNCHANGED <<backupVars, requestVars, creds, otbr, base>>
  /\ Track(r)

(* controlMu is taken once the input has been validated.                   *)
Lock(r) ==
  /\ pc[r] = "control"
  /\ Valid(target[r])
  /\ mutex = Nobody
  /\ mutex' = r
  /\ Goto(r, IF op[r] \in {"up", "down"} THEN "state" ELSE "disable")
  /\ UNCHANGED <<backupVars, requestVars, creds, otbr, base>>
  /\ Track(r)

Unlock ==
  /\ mutex' = Nobody
  /\ base' = otbr'

(* One write to OTBR that would make it n.  It is answered with success,   *)
(* and the handler goes on to next; after the last write of a change it    *)
(* unlocks and goes on to refresh the overview.                            *)
WriteSucceeds(r, n, next) ==
  /\ otbr' = n
  /\ IF next = "refresh" THEN Unlock ELSE UNCHANGED <<mutex, base>>
  /\ Goto(r, next)
  /\ UNCHANGED requestVars

(* Defect: an error return without the unlock.                             *)
WriteFailsLocked(r, n) ==
  /\ "write" \in Faults
  /\ otbr' \in {otbr, n}
  /\ Answer(r)
  /\ UNCHANGED <<mutex, base>>

(* Or it fails: refused, not sent, or applied with the answer lost to the  *)
(* timeout.  The handler unlocks and reports the error; nothing is undone. *)
WriteFails(r, n) ==
  /\ "write" \in Faults
  /\ otbr' \in {otbr, n}
  /\ Unlock
  /\ Answer(r)

Write(r, n, next) ==
  /\ WriteSucceeds(r, n, next) \/ WriteFails(r, n)
  /\ UNCHANGED <<backupVars, creds>>
  /\ Track(r)

(* Enable or disable alone: one write, under the lock.                     *)
SetState(r) ==
  /\ pc[r] = "state"
  /\ Write(r, [otbr EXCEPT !.enabled = (op[r] = "up")], "refresh")

(* Defect: the change goes on although the interface may still be up.      *)
DisableIgnoringErrors(r) ==
  /\ pc[r] = "disable"
  /\ \/ otbr' = [otbr EXCEPT !.enabled = FALSE]
     \/ "write" \in Faults /\ UNCHANGED otbr
  /\ Goto(r, IF op[r] = "leave" THEN "delete" ELSE "put")
  /\ UNCHANGED <<backupVars, requestVars, creds, mutex, base>>
  /\ Track(r)

(* The first write of a change of dataset; an error ends the change.       *)
Disable(r) ==
  /\ pc[r] = "disable"
  /\ Write(r, [otbr EXCEPT !.enabled = FALSE],
           IF op[r] = "leave" THEN "delete" ELSE "put")

PutDataset(r) ==
  /\ pc[r] = "put"
  /\ Write(r, [otbr EXCEPT !.dataset = target[r]], "enable")

(* Defect: the change is reported as done although it has not been made.   *)
EnableIgnoringErrors(r) ==
  /\ pc[r] = "enable"
  /\ \/ otbr' = [otbr EXCEPT !.enabled = TRUE]
     \/ "write" \in Faults /\ UNCHANGED otbr
  /\ Unlock
  /\ Goto(r, "refresh")
  /\ UNCHANGED <<backupVars, requestVars, creds>>
  /\ Track(r)

Enable(r) ==
  /\ pc[r] = "enable"
  /\ Write(r, [otbr EXCEPT !.enabled = TRUE], "refresh")

DeleteDataset(r) ==
  /\ pc[r] = "delete"
  /\ Write(r, [otbr EXCEPT !.dataset = NoDataset], "refresh")

(* RefreshNow (see Monitor), then the response.                            *)
Finish(r) ==
  /\ pc[r] = "refresh"
  /\ Answer(r)
  /\ UNCHANGED <<backupVars, creds, networkVars>>
  /\ Track(r)

-----------------------------------------------------------------------------
(* main loads the backup before it serves any request.                     *)
Start ==
  /\ Backup!Load
  /\ UNCHANGED <<pc, requestVars, creds, networkVars, marred>>

(* The process stops.  OTBR stays as the last write left it.               *)
Crash ==
  /\ Backup!Crash
  /\ pc' = [r \in Requests |-> "idle"]
  /\ op' = [r \in Requests |-> "none"]
  /\ target' = [r \in Requests |-> NoDataset]
  /\ creds' = [r \in Requests |-> Blank]
  /\ marred' = [r \in Requests |-> {}]
  /\ UNCHANGED otbr
  /\ Unlock

Arrive(r) ==
  \/ \E d \in Datasets \cup {Invalid} : Form(r, d) \/ Join(r, d) \/ JoinTLV(r, d)
  \/ Leave(r)
  \/ \E up \in BOOLEAN : SetEnabled(r, up)
  \/ Restore(r)

(* The steps of a handler between its arrival and its answer.              *)
Handle(r) ==
  \/ ReadDataset(r) \/ ReadTLV(r)
  \/ SaveFile(r) \/ SaveFails(r) \/ SavePointer(r)
  \/ Reject(r) \/ Lock(r)
  \/ SetState(r) \/ Disable(r) \/ PutDataset(r) \/ Enable(r) \/ DeleteDataset(r)
  \/ Finish(r)

Next ==
  \/ Start
  \/ Crash
  \/ \E r \in Requests : Arrive(r) \/ Handle(r)

Spec == Init /\ [][Next]_vars

(* Every call a handler makes returns: the OTBR client has timeouts, and   *)
(* the file system answers.  Go's mutex hands itself to a waiter it has    *)
(* starved, hence strong fairness for Lock.                                *)
FairSpec ==
  /\ Spec
  /\ \A r \in Requests : WF_vars(Handle(r)) /\ SF_vars(Lock(r))

-----------------------------------------------------------------------------
(* Properties.                                                             *)

(* The change that holds controlMu is the only one under way: what it has  *)
(* sent so far is exactly what OTBR holds (client.go:57-60, network.go     *)
(* 355-368).                                                               *)
WritesSerialized ==
  /\ mutex = Nobody => otbr = base
  /\ \A r \in Requests :
       /\ pc[r] \in Locked <=> mutex = r
       /\ pc[r] \in {"state", "disable"} => otbr = base
       /\ pc[r] \in {"put", "delete"} => otbr = [base EXCEPT !.enabled = FALSE]
       /\ pc[r] = "enable" => otbr = [dataset |-> target[r], enabled |-> FALSE]

(* The active dataset is never replaced or deleted while the interface is  *)
(* up, whatever fails and however the requests interleave (network.go:348).*)
DatasetReplacedOnlyWhileDown ==
  [][otbr'.dataset # otbr.dataset => ~otbr.enabled]_vars

(* What holds of a handler by where it is: the locals that its next steps  *)
(* rely on.  With TypeOK and WritesSerialized it is inductive.             *)
HandlerInvariant ==
  \A r \in Requests :
    /\ pc[r] = "tlv" => creds[r].name \in Datasets
    /\ pc[r] = "save" => creds[r] \in Backup!Snapshot
    /\ op[r] = "none" => pc[r] = "idle"
    /\ op[r] = "restore" => target[r] \in Datasets
    /\ op[r] = "apply" => target[r] # NoDataset
    /\ op[r] \in {"none", "leave", "up", "down"} => target[r] = NoDataset
    /\ pc[r] \in Locked \cup {"refresh"} => target[r] # Invalid
    /\ pc[r] = "state" => op[r] \in {"up", "down"}
    /\ pc[r] = "disable" => op[r] \in {"apply", "restore", "leave"}
    /\ pc[r] \in {"put", "enable"} => op[r] \in {"apply", "restore"}
    /\ pc[r] = "delete" => op[r] = "leave"

Waiting(r) ==
  pc[r] \notin {"idle", "refresh"} /\ target[r] # Invalid

Want ==
  [r \in Requests |->
     IF Waiting(r)
       THEN [kind |-> IF op[r] \in {"apply", "restore"} THEN "move" ELSE op[r],
             to   |-> target[r]]
       ELSE [kind |-> "none", to |-> NoDataset]]

Status ==
  [r \in Requests |-> IF Waiting(r) THEN "waiting"
                      ELSE IF pc[r] = "refresh" THEN "done" ELSE "over"]

Atomic == INSTANCE AtomicNetworkChange WITH
  net <- base, want <- Want, status <- Status

(* The API's promise: changes are atomic and isolated, "done" means done   *)
(* in full, and a failure leaves one of the named partial results.         *)
ImplementsAtomicChange == Atomic!Spec

(* What a backup saves is the network that is active, under its own name   *)
(* (server.go:366, store.go:21), unless another request has changed the    *)
(* network since the first of the two reads (network.go:146-160).          *)
BackupNamedAfterItsDataset ==
  [][\A r \in Requests :
       pc[r] = "save" /\ pc'[r] = "publish" /\ "network" \notin marred[r] =>
         file' = [tlv |-> otbr.dataset, name |-> otbr.dataset]]_vars

(* The restore point that is shown is the one a restart would load: the    *)
(* two come to differ, with no Save half done, only through a file that    *)
(* could not be loaded or a Save that another one overlapped               *)
(* (store.go:83-97).                                                       *)
RestorePointDurable ==
  [][Backup!Apart' => \/ Backup!Apart
                      \/ ~running /\ "load" \in Faults
                      \/ \E r \in Requests : pc[r] = "publish" /\ "backup" \in marred[r]]_vars

(* What a change replaces has been backed up (README 66, 228), by the      *)
(* request that makes the change: the dataset that goes is the one in the  *)
(* backup file, unless that request's backup failed, or another request    *)
(* has changed the network or saved a backup of its own since.             *)
BackedUpBeforeChange ==
  [][\A r \in Requests :
       /\ pc[r] \in {"put", "delete"} /\ otbr'.dataset # otbr.dataset
       /\ otbr.dataset # NoDataset /\ marred[r] = {}
       => file # NoBackup /\ file.tlv = otbr.dataset]_vars

(* A restore can itself be undone: when it has succeeded the network is on *)
(* the restored dataset, and the one it was on before is the new restore   *)
(* point, in memory and on disk, with the same reservations                *)
(* (server.go:371-385).                                                    *)
RestoreUndoable ==
  [][\A r \in Requests : op[r] = "restore" /\ pc'[r] = "refresh" /\ pc[r] # "refresh" =>
       /\ otbr' = [dataset |-> target[r], enabled |-> TRUE]
       /\ base.dataset # NoDataset /\ marred[r] = {} =>
            snap # NoBackup /\ snap.tlv = base.dataset /\ file = snap]_vars

(* Every network change is preceded by a dataset backup (README 228): the  *)
(* network that goes is the one the backup file holds.  Two changes at a   *)
(* time break it (server.go:338-348).                                      *)
EveryChangeBackedUp ==
  [][otbr'.dataset # otbr.dataset /\ otbr.dataset # NoDataset
       => file # NoBackup /\ file.tlv = otbr.dataset]_vars

(* Every request that was received is answered: no handler waits for       *)
(* controlMu for ever, however the others fail.                            *)
EveryRequestAnswered ==
  \A r \in Requests : pc[r] # "idle" ~> pc[r] = "idle"

(* A restore that failed can be retried: the network it was to bring back  *)
(* is the active one, or is still the restore point.  The code breaks it   *)
(* (server.go:377).                                                        *)
FailedRestoreCanBeRetried ==
  [][\A r \in Requests :
       op[r] = "restore" /\ pc[r] \in Locked /\ pc'[r] = "idle" /\ running' =>
         otbr'.dataset = target[r] \/ (snap # NoBackup /\ snap.tlv = target[r])]_vars
=============================================================================
