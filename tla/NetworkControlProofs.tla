------------------------ MODULE NetworkControlProofs ------------------------
(***************************************************************************)
(* Proofs about NetworkControl, for any number of concurrent requests and  *)
(* datasets and whatever fails.                                            *)
(***************************************************************************)
EXTENDS NetworkControl, TLAPS

(* The inductive invariant.  TypeOK needs HandlerInvariant (what a handler *)
(* writes was validated, what it saves was read), and WritesSerialized     *)
(* needs the kinds of change that HandlerInvariant fixes to each place.    *)
Inv == TypeOK /\ HandlerInvariant /\ WritesSerialized

LEMMA BackupUnchanged ==
  ASSUME Backup!TypeOK, UNCHANGED backupVars PROVE Backup!TypeOK'
  BY DEF Backup!TypeOK, backupVars

LEMMA InitInv == Init => Inv
<1> SUFFICES ASSUME Init PROVE Inv
  OBVIOUS
<1>1. ASSUME NEW d \in Datasets PROVE [tlv |-> d, name |-> d] \in Backup!Snapshot
  BY DEF Backup!Snapshot
<1>2. Backup!TypeOK
  BY <1>1 DEF Init, Backup!Init, Backup!TypeOK, Backup!Idle
<1>3. TypeOK
  BY <1>2 DEF Init, TypeOK, Blank
<1>4. HandlerInvariant
  BY DistinctValues DEF Init, HandlerInvariant, Locked
<1>5. WritesSerialized
  BY DistinctValues DEF Init, WritesSerialized, Locked
<1>. QED BY <1>3, <1>4, <1>5 DEF Inv

(* The history is kept by every step of a request.                         *)
LEMMA HandleTracks == ASSUME NEW r \in Requests, Handle(r) PROVE Track(r)
  BY DEF Handle, ReadDataset, ReadTLV, SaveFile, SaveFails, SavePointer, Reject, Lock, SetState,
         Disable, PutDataset, Enable, DeleteDataset, Finish, Write

LEMMA TrackTypeOK ==
  ASSUME Inv, NEW r \in Requests, Track(r)
  PROVE  marred' \in [Requests -> SUBSET {"network", "backup", "failed"}]
<1>1. Own(r) \cup Failure(r) \subseteq {"network", "backup", "failed"}
  BY DEF Own, Failure, Inv, TypeOK
<1>2. ASSUME NEW q \in Requests
      PROVE  marred[q] \cup Mars(q) \subseteq {"network", "backup", "failed"}
  BY DEF Mars, Inv, TypeOK
<1>. QED BY <1>1, <1>2 DEF Track

(* A request arrives: it holds nothing yet.                                *)
LEMMA ReceiveInv ==
  ASSUME Inv, NEW r \in Requests, NEW o \in {"apply", "restore", "leave", "up", "down"},
         NEW d \in Datasets \cup {NoDataset, Invalid}, NEW place \in {"dataset", "control"},
         Receive(r, o, d, place),
         o = "apply" => d # NoDataset,
         o = "restore" => d \in Datasets,
         o \notin {"apply", "restore"} => d = NoDataset
  PROVE  Inv'
<1>1. Backup!TypeOK'
  BY BackupUnchanged DEF Inv, TypeOK, Receive
<1>2. TypeOK'
  BY <1>1, TrackTypeOK DEF Inv, TypeOK, Receive, Goto, networkVars
<1>3. HandlerInvariant'
  BY DEF Inv, TypeOK, HandlerInvariant, Receive, Goto, Locked
<1>4. WritesSerialized'
  BY DEF Inv, TypeOK, WritesSerialized, Receive, Goto, Locked, networkVars
<1>. QED BY <1>2, <1>3, <1>4 DEF Inv

LEMMA ArriveInv == ASSUME Inv, NEW r \in Requests, Arrive(r) PROVE Inv'
<1>1. ASSUME NEW d \in Datasets \cup {Invalid}, Form(r, d) \/ Join(r, d) \/ JoinTLV(r, d)
      PROVE  Inv'
  BY <1>1, ReceiveInv, DistinctValues DEF Form, Join, JoinTLV
<1>2. CASE Leave(r)
  BY <1>2, ReceiveInv DEF Leave
<1>3. ASSUME NEW up \in BOOLEAN, SetEnabled(r, up) PROVE Inv'
  BY <1>3, ReceiveInv DEF SetEnabled
<1>4. CASE Restore(r)
  <2>1. snap.tlv \in Datasets
    BY <1>4 DEF Inv, TypeOK, Backup!TypeOK, Backup!Snapshot, Restore
  <2>. QED BY <1>4, <2>1, ReceiveInv, DistinctValues DEF Restore
<1>. QED BY <1>1, <1>2, <1>3, <1>4 DEF Arrive

-----------------------------------------------------------------------------
(* The steps of a handler preserve the three parts of the invariant.       *)

LEMMA HandleTypeOK == ASSUME Inv, NEW r \in Requests, Handle(r) PROVE TypeOK'
<1>1. Backup!TypeOK'
  <2>1. CASE SaveFile(r)
    BY <2>1 DEF SaveFile, Backup!Persist, Backup!TypeOK, Inv, TypeOK, HandlerInvariant
  <2>2. CASE SavePointer(r)
    BY <2>2 DEF SavePointer, Backup!Publish, Backup!TypeOK, Inv, TypeOK
  <2>3. CASE UNCHANGED backupVars
    BY <2>3, BackupUnchanged DEF Inv, TypeOK
  <2>. QED
    BY <2>1, <2>2, <2>3
    DEF Handle, ReadDataset, ReadTLV, SaveFails, Reject, Valid, Lock, SetState, Disable,
        PutDataset, Enable, DeleteDataset, Finish, Write
<1>2. otbr' \in Network /\ base' \in Network /\ mutex' \in Requests \cup {Nobody}
  <2>1. ASSUME NEW n \in Network, NEW next, Write(r, n, next)
        PROVE  otbr' \in Network /\ base' \in Network /\ mutex' \in Requests \cup {Nobody}
    BY <2>1 DEF Write, WriteSucceeds, WriteFails, Unlock, Inv, TypeOK
  <2>2. CASE SetState(r)
    BY <2>1, <2>2 DEF SetState, Network, Inv, TypeOK
  <2>3. CASE Disable(r)
    BY <2>1, <2>3 DEF Disable, Network, Inv, TypeOK
  <2>4. CASE PutDataset(r)
    <3>1. target[r] \in Datasets \cup {NoDataset}
      BY <2>4 DEF PutDataset, Inv, TypeOK, HandlerInvariant, Locked
    <3>. QED BY <2>1, <2>4, <3>1 DEF PutDataset, Network, Inv, TypeOK
  <2>5. CASE Enable(r)
    BY <2>1, <2>5 DEF Enable, Network, Inv, TypeOK
  <2>6. CASE DeleteDataset(r)
    BY <2>1, <2>6 DEF DeleteDataset, Network, Inv, TypeOK
  <2>7. CASE Lock(r)
    BY <2>7 DEF Lock, Valid, Inv, TypeOK
  <2>8. CASE UNCHANGED networkVars
    BY <2>8 DEF networkVars, Inv, TypeOK
  <2>. QED
    BY <2>2, <2>3, <2>4, <2>5, <2>6, <2>7, <2>8
    DEF Handle, ReadDataset, ReadTLV, SaveFile, SaveFails, SavePointer, Reject, Finish
<1>3. creds' \in [Requests -> [tlv : Datasets \cup {NoDataset}, name : Datasets \cup {NoDataset}]]
  <2>1. CASE ReadDataset(r)
    BY <2>1 DEF ReadDataset, GiveUpBackup, Blank, Network, Inv, TypeOK
  <2>2. CASE ReadTLV(r)
    BY <2>2 DEF ReadTLV, GiveUpBackup, Blank, Network, Inv, TypeOK
  <2>3. CASE GiveUpBackup(r)
    BY <2>3 DEF GiveUpBackup, Blank, Inv, TypeOK
  <2>4. CASE UNCHANGED creds
    BY <2>4 DEF Inv, TypeOK
  <2>. QED
    BY <2>1, <2>2, <2>3, <2>4
    DEF Handle, SaveFile, SaveFails, SavePointer, Reject, Valid, Lock, SetState, Disable, PutDataset,
        Enable, DeleteDataset, Finish, Write
<1>4. /\ pc' \in [Requests -> Locked \cup {"idle", "dataset", "tlv", "save",
                                           "publish", "control", "refresh"}]
      /\ op' \in [Requests -> {"none", "apply", "restore", "leave", "up", "down"}]
      /\ target' \in [Requests -> Datasets \cup {NoDataset, Invalid}]
  BY DEF Handle, ReadDataset, ReadTLV, SaveFile, SaveFails, SavePointer, Reject, Valid, Lock, SetState,
      Disable, PutDataset, Enable, DeleteDataset, Finish, Write, WriteSucceeds, WriteFails,
      GiveUpBackup, Answer, Goto, requestVars, Locked, Inv, TypeOK
<1>5. marred' \in [Requests -> SUBSET {"network", "backup", "failed"}]
  BY HandleTracks, TrackTypeOK
<1>. QED BY <1>1, <1>2, <1>3, <1>4, <1>5 DEF TypeOK

LEMMA HandleHandlerInvariant == ASSUME Inv, NEW r \in Requests, Handle(r) PROVE HandlerInvariant'
<1> USE DistinctValues
    DEF Inv, TypeOK, HandlerInvariant, Locked, Goto, requestVars, Network, Blank, Backup!Snapshot
<1>1. CASE ReadDataset(r)
  BY <1>1 DEF ReadDataset, GiveUpBackup
<1>2. CASE ReadTLV(r)
  BY <1>2 DEF ReadTLV, GiveUpBackup
<1>3. CASE SaveFile(r)
  BY <1>3 DEF SaveFile, Backup!Persist
<1>4. CASE SaveFails(r)
  BY <1>4 DEF SaveFails, GiveUpBackup
<1>5. CASE SavePointer(r)
  BY <1>5 DEF SavePointer, Backup!Publish, GiveUpBackup
<1>6. CASE Reject(r)
  BY <1>6 DEF Reject, Valid, Answer
<1>7. CASE Lock(r)
  BY <1>7 DEF Lock, Valid
<1>8. CASE SetState(r)
  BY <1>8 DEF SetState, Write, WriteSucceeds, WriteFails, Unlock, Answer
<1>9. CASE Disable(r)
  BY <1>9 DEF Disable, Write, WriteSucceeds, WriteFails, Unlock, Answer
<1>10. CASE PutDataset(r)
  BY <1>10 DEF PutDataset, Write, WriteSucceeds, WriteFails, Unlock, Answer
<1>11. CASE Enable(r)
  BY <1>11 DEF Enable, Write, WriteSucceeds, WriteFails, Unlock, Answer
<1>12. CASE DeleteDataset(r)
  BY <1>12 DEF DeleteDataset, Write, WriteSucceeds, WriteFails, Unlock, Answer
<1>13. CASE Finish(r)
  BY <1>13 DEF Finish, Answer
<1>. QED
  BY <1>1, <1>2, <1>3, <1>4, <1>5, <1>6, <1>7, <1>8, <1>9, <1>10, <1>11, <1>12, <1>13
  DEF Handle

LEMMA HandleSerialized == ASSUME Inv, NEW r \in Requests, Handle(r) PROVE WritesSerialized'
<1> USE DistinctValues
    DEF Inv, TypeOK, HandlerInvariant, WritesSerialized, Locked, Goto, requestVars,
        networkVars, Network
<1>1. CASE ReadDataset(r)
  BY <1>1 DEF ReadDataset, GiveUpBackup
<1>2. CASE ReadTLV(r)
  BY <1>2 DEF ReadTLV, GiveUpBackup
<1>3. CASE SaveFile(r)
  BY <1>3 DEF SaveFile, Backup!Persist
<1>4. CASE SaveFails(r)
  BY <1>4 DEF SaveFails, GiveUpBackup
<1>5. CASE SavePointer(r)
  BY <1>5 DEF SavePointer, Backup!Publish, GiveUpBackup
<1>6. CASE Reject(r)
  BY <1>6 DEF Reject, Valid, Answer
<1>7. CASE Lock(r)
  BY <1>7 DEF Lock, Valid
<1>8. CASE SetState(r)
  BY <1>8 DEF SetState, Write, WriteSucceeds, WriteFails, Unlock, Answer
<1>9. CASE Disable(r)
  BY <1>9 DEF Disable, Write, WriteSucceeds, WriteFails, Unlock, Answer
<1>10. CASE PutDataset(r)
  BY <1>10 DEF PutDataset, Write, WriteSucceeds, WriteFails, Unlock, Answer
<1>11. CASE Enable(r)
  BY <1>11 DEF Enable, Write, WriteSucceeds, WriteFails, Unlock, Answer
<1>12. CASE DeleteDataset(r)
  BY <1>12 DEF DeleteDataset, Write, WriteSucceeds, WriteFails, Unlock, Answer
<1>13. CASE Finish(r)
  BY <1>13 DEF Finish, Answer
<1>. QED
  BY <1>1, <1>2, <1>3, <1>4, <1>5, <1>6, <1>7, <1>8, <1>9, <1>10, <1>11, <1>12, <1>13
  DEF Handle

LEMMA NextInv == Inv /\ [Next]_vars => Inv'
<1> SUFFICES ASSUME Inv, [Next]_vars PROVE Inv'
  OBVIOUS
<1>1. CASE Start
  <2>1. Backup!TypeOK'
    BY <1>1 DEF Start, Backup!Load, Backup!TypeOK, Inv, TypeOK
  <2>. QED
    BY <1>1, <2>1
    DEF Start, Inv, TypeOK, HandlerInvariant, WritesSerialized, requestVars, networkVars
<1>2. CASE Crash
  <2>1. Backup!TypeOK'
    BY <1>2 DEF Crash, Backup!Crash, Backup!Idle, Backup!TypeOK, Inv, TypeOK
  <2>2. TypeOK'
    BY <1>2, <2>1 DEF Crash, Unlock, Blank, Inv, TypeOK
  <2>3. HandlerInvariant'
    BY <1>2, DistinctValues DEF Crash, HandlerInvariant, Locked
  <2>4. WritesSerialized'
    BY <1>2, DistinctValues DEF Crash, Unlock, WritesSerialized, Locked
  <2>. QED BY <2>2, <2>3, <2>4 DEF Inv
<1>3. CASE UNCHANGED vars
  <2>1. Backup!TypeOK'
    BY <1>3, BackupUnchanged DEF vars, backupVars, Inv, TypeOK
  <2>. QED
    BY <1>3, <2>1 DEF vars, Inv, TypeOK, HandlerInvariant, WritesSerialized
<1>4. ASSUME NEW r \in Requests, Handle(r) PROVE Inv'
  BY <1>4, HandleTypeOK, HandleHandlerInvariant, HandleSerialized DEF Inv
<1>. QED BY <1>1, <1>2, <1>3, <1>4, ArriveInv DEF Next

-----------------------------------------------------------------------------
(* Every value the model holds is of its type; in particular OTBR is only  *)
(* ever sent a dataset that passed validation.                             *)
THEOREM TypeCorrect == Spec => []TypeOK
<1>1. Inv => TypeOK
  BY DEF Inv
<1>. QED BY InitInv, NextInv, <1>1, PTL DEF Spec

(* controlMu makes the writes of one change a unit: nothing another        *)
(* request sends comes between them.                                       *)
THEOREM Serialized == Spec => []WritesSerialized
<1>1. Inv => WritesSerialized
  BY DEF Inv
<1>. QED BY InitInv, NextInv, <1>1, PTL DEF Spec

(* Only two writes of a change touch the active dataset.                   *)
LEMMA OnlyPutOrDelete ==
  ASSUME Inv, [Next]_vars, otbr'.dataset # otbr.dataset
  PROVE  \E r \in Requests : PutDataset(r) \/ DeleteDataset(r)
<1>1. ASSUME NEW r \in Requests, NEW b \in BOOLEAN, NEW next,
             Write(r, [otbr EXCEPT !.enabled = b], next)
      PROVE  FALSE
  BY <1>1 DEF Write, WriteSucceeds, WriteFails, Inv, TypeOK, Network
<1>2. ASSUME NEW r \in Requests, Handle(r) PROVE PutDataset(r) \/ DeleteDataset(r)
  <2>1. ~SetState(r) /\ ~Disable(r) /\ ~Enable(r)
    BY <1>1 DEF SetState, Disable, Enable
  <2>. QED
    BY <1>2, <2>1
    DEF Handle, ReadDataset, ReadTLV, SaveFile, SaveFails, SavePointer, Reject, Valid, Lock,
        Finish, networkVars
<1>3. ASSUME NEW r \in Requests, Arrive(r) PROVE FALSE
  BY <1>3
  DEF Arrive, Form, Join, JoinTLV, Leave, SetEnabled, Restore, Receive, networkVars
<1>. QED
  BY <1>2, <1>3 DEF Next, Start, Crash, networkVars, vars

(* No step of any request, and no crash, changes the active dataset while  *)
(* the interface is up.                                                    *)
THEOREM ReplacedOnlyWhileDown == Spec => DatasetReplacedOnlyWhileDown
<1>1. ASSUME Inv, [Next]_vars, otbr'.dataset # otbr.dataset PROVE ~otbr.enabled
  <2>1. PICK r \in Requests : PutDataset(r) \/ DeleteDataset(r)
    BY <1>1, OnlyPutOrDelete
  <2>. QED
    BY <1>1, <2>1 DEF Inv, TypeOK, WritesSerialized, PutDataset, DeleteDataset, Network
<1>. QED BY InitInv, NextInv, <1>1, PTL DEF Spec, DatasetReplacedOnlyWhileDown

-----------------------------------------------------------------------------
(* The refinement.  The network that AtomicNetworkChange sees is base, the *)
(* one OTBR held when controlMu was last free; a handler's writes are      *)
(* invisible until it unlocks.                                             *)

LEMMA InitRefines == Init => Atomic!Init
  BY DistinctValues
  DEF Init, Atomic!Init, Atomic!Network, Atomic!Nothing, Network, Want, Status, Waiting

(* A step of r that keeps it waiting, or that keeps it from waiting, and   *)
(* does not unlock, is invisible.                                          *)
LEMMA Invisible ==
  ASSUME Inv, NEW r \in Requests, NEW place, Goto(r, place), UNCHANGED <<requestVars, base>>,
         pc[r] \notin {"idle", "refresh"}, place \notin {"idle", "refresh"}
  PROVE  UNCHANGED Atomic!vars
<1>1. \A q \in Requests : Waiting(q)' = Waiting(q)
  BY DEF Waiting, Goto, requestVars, Inv, TypeOK
<1>2. Want' = Want
  BY <1>1 DEF Want, requestVars
<1>3. Status' = Status
  BY <1>1 DEF Status, Goto, Inv, TypeOK
<1>. QED BY <1>2, <1>3 DEF Atomic!vars

LEMMA ReceiveRefines ==
  ASSUME Inv, NEW r \in Requests, NEW o \in {"apply", "restore", "leave", "up", "down"},
         NEW d \in Datasets \cup {NoDataset, Invalid}, NEW place \in {"dataset", "control"},
         Receive(r, o, d, place)
  PROVE  Atomic!Next \/ UNCHANGED Atomic!vars
<1>1. UNCHANGED base
  BY DEF Receive, networkVars
<1>2. ~Waiting(r) /\ Status[r] = "over"
  BY DEF Receive, Waiting, Status
<1>3. \A q \in Requests \ {r} : /\ Waiting(q)' = Waiting(q)
                                /\ Want'[q] = Want[q]
                                /\ Status'[q] = Status[q]
  BY DEF Receive, Goto, Waiting, Want, Status, Inv, TypeOK
<1>4. CASE d = Invalid
  <2>1. ~Waiting(r)'
    BY <1>4 DEF Waiting, Receive, Inv, TypeOK
  <2>2. Want'[r] = Want[r] /\ Status'[r] = Status[r]
    BY <1>2, <2>1 DEF Want, Status, Receive, Goto, Inv, TypeOK
  <2>3. Want' = Want /\ Status' = Status
    BY <1>3, <2>2 DEF Want, Status
  <2>. QED BY <1>1, <2>3 DEF Atomic!vars
<1>5. CASE d # Invalid
  <2>1. Waiting(r)'
    BY <1>5 DEF Waiting, Receive, Goto, Inv, TypeOK
  <2>2. Want'[r] \in Atomic!Change
    BY <1>5, <2>1 DEF Want, Receive, Inv, TypeOK, Atomic!Change
  <2>3. Status'[r] = "waiting"
    BY <2>1 DEF Status
  <2>4. Want' = [Want EXCEPT ![r] = Want'[r]] /\ Status' = [Status EXCEPT ![r] = "waiting"]
    BY <1>3, <2>3 DEF Want, Status
  <2>. QED
    BY <1>1, <1>2, <2>2, <2>4 DEF Atomic!Ask, Atomic!Next
<1>. QED BY <1>4, <1>5

LEMMA ArriveRefines ==
  ASSUME Inv, NEW r \in Requests, Arrive(r)
  PROVE  Atomic!Next \/ UNCHANGED Atomic!vars
<1>1. CASE Restore(r)
  <2>1. snap.tlv \in Datasets
    BY <1>1 DEF Inv, TypeOK, Backup!TypeOK, Backup!Snapshot, Restore
  <2>. QED BY <1>1, <2>1, ReceiveRefines DEF Restore
<1>2. ASSUME NEW up \in BOOLEAN, SetEnabled(r, up)
      PROVE  Atomic!Next \/ UNCHANGED Atomic!vars
  BY <1>2, ReceiveRefines DEF SetEnabled
<1>. QED
  BY <1>1, <1>2, ReceiveRefines DEF Arrive, Form, Join, JoinTLV, Leave

(* A request that stops waiting leaves nothing wanted.                     *)
LEMMA Over ==
  ASSUME Inv, NEW r \in Requests, NEW place \in {"idle", "refresh"},
         pc' = [pc EXCEPT ![r] = place],
         \A q \in Requests \ {r} : op'[q] = op[q] /\ target'[q] = target[q]
  PROVE  /\ Want' = [Want EXCEPT ![r] = Atomic!Nothing]
         /\ Status' = [Status EXCEPT ![r] = IF place = "refresh" THEN "done" ELSE "over"]
<1>1. ~Waiting(r)' /\ pc'[r] = place
  BY DEF Waiting, Inv, TypeOK
<1>2. \A q \in Requests \ {r} : /\ Waiting(q)' = Waiting(q)
                                /\ Want'[q] = Want[q]
                                /\ Status'[q] = Status[q]
  <2> SUFFICES ASSUME NEW q \in Requests \ {r}
               PROVE  Waiting(q)' = Waiting(q) /\ Want'[q] = Want[q] /\ Status'[q] = Status[q]
    OBVIOUS
  <2>1. pc'[q] = pc[q] /\ op'[q] = op[q] /\ target'[q] = target[q]
    BY DEF Inv, TypeOK
  <2>2. Waiting(q)' = Waiting(q)
    BY <2>1 DEF Waiting
  <2>3. Want'[q] = Want[q]
    BY <2>1, <2>2 DEF Want
  <2>4. Status'[q] = Status[q]
    BY <2>1, <2>2 DEF Status
  <2>. QED BY <2>2, <2>3, <2>4
<1>3. Want'[r] = Atomic!Nothing
  BY <1>1 DEF Want, Atomic!Nothing
<1>4. Status'[r] = IF place = "refresh" THEN "done" ELSE "over"
  BY <1>1 DEF Status
<1>5. Want' = [Want EXCEPT ![r] = Atomic!Nothing]
  BY <1>2, <1>3 DEF Want
<1>6. Status' = [Status EXCEPT ![r] = IF place = "refresh" THEN "done" ELSE "over"]
  <2> DEFINE now == IF place = "refresh" THEN "done" ELSE "over"
  <2>1. Status = [q \in Requests |-> Status[q]] /\ Status' = [q \in Requests |-> Status'[q]]
    BY DEF Status
  <2>2. Status'[r] = now
    BY <1>4
  <2> HIDE DEF now
  <2>3. \A q \in Requests : Status'[q] = IF q = r THEN now ELSE Status[q]
    BY <1>2, <2>2
  <2>4. Status' = [Status EXCEPT ![r] = now]
    BY <2>1, <2>3
  <2>. QED BY <2>4 DEF now
<1>. QED BY <1>5, <1>6

(* The writes: the last one of a change completes it, an earlier one is    *)
(* invisible, and where any of them stops is a partial result.             *)
LEMMA WriteRefines ==
  ASSUME Inv, NEW r \in Requests, NEW n, NEW next, Write(r, n, next),
         pc[r] \in Locked, next # "idle",
         next = "refresh" => n = Atomic!Made(Want[r], base),
         {otbr, n} \subseteq Atomic!Partial(Want[r], base)
  PROVE  Atomic!Next \/ UNCHANGED Atomic!vars
<1>1. Waiting(r) /\ Status[r] = "waiting"
  BY DEF Waiting, Status, Locked, Inv, HandlerInvariant
<1>2. CASE WriteSucceeds(r, n, next) /\ next # "refresh"
  BY <1>2, Invisible DEF WriteSucceeds, requestVars, Locked
<1>3. CASE WriteSucceeds(r, n, next) /\ next = "refresh"
  <2>1. /\ Want' = [Want EXCEPT ![r] = Atomic!Nothing]
        /\ Status' = [Status EXCEPT ![r] = "done"]
    BY <1>3, Over DEF WriteSucceeds, Goto, requestVars
  <2>2. base' = Atomic!Made(Want[r], base)
    BY <1>3 DEF WriteSucceeds, Unlock
  <2>. QED BY <1>1, <2>1, <2>2 DEF Atomic!Next, Atomic!Succeed
<1>4. CASE WriteFails(r, n)
  <2>1. /\ Want' = [Want EXCEPT ![r] = Atomic!Nothing]
        /\ Status' = [Status EXCEPT ![r] = "over"]
    BY <1>4, Over DEF WriteFails, Answer, Goto, Inv, TypeOK
  <2>2. base' \in Atomic!Partial(Want[r], base)
    BY <1>4 DEF WriteFails, Unlock
  <2>. QED BY <1>1, <2>1, <2>2 DEF Atomic!Next, Atomic!Fail
<1>. QED BY <1>2, <1>3, <1>4 DEF Write

LEMMA MadeKinds ==
  ASSUME NEW w, NEW n
  PROVE  /\ w.kind = "move" => Atomic!Made(w, n) = [dataset |-> w.to, enabled |-> TRUE]
         /\ w.kind = "leave" => Atomic!Made(w, n) = [dataset |-> NoDataset, enabled |-> FALSE]
  BY DEF Atomic!Made

(* What a write makes of the network, as a record.                         *)
LEMMA EnabledWritten ==
  ASSUME NEW n \in Network, NEW b \in BOOLEAN
  PROVE  [n EXCEPT !.enabled = b] = [dataset |-> n.dataset, enabled |-> b]
<1> DEFINE m == [n EXCEPT !.enabled = b]
<1>1. m \in Network /\ m.enabled = b /\ m.dataset = n.dataset
  BY DEF Network
<1> HIDE DEF m
<1>2. m = [dataset |-> n.dataset, enabled |-> b]
  BY <1>1 DEF Network
<1>. QED BY <1>2 DEF m

LEMMA DatasetWritten ==
  ASSUME NEW n \in Network, NEW d \in Datasets \cup {NoDataset}
  PROVE  [n EXCEPT !.dataset = d] = [dataset |-> d, enabled |-> n.enabled]
<1> DEFINE m == [n EXCEPT !.dataset = d]
<1>1. m \in Network /\ m.dataset = d /\ m.enabled = n.enabled
  BY DEF Network
<1> HIDE DEF m
<1>2. m = [dataset |-> d, enabled |-> n.enabled]
  BY <1>1 DEF Network
<1>. QED BY <1>2 DEF m

LEMMA HandleRefines ==
  ASSUME Inv, NEW r \in Requests, Handle(r)
  PROVE  Atomic!Next \/ UNCHANGED Atomic!vars
<1> DEFINE w == Want[r]
<1>1. pc[r] \in Locked =>
        /\ w.kind = IF op[r] \in {"apply", "restore"} THEN "move" ELSE op[r]
        /\ w.to = target[r]
  BY DEF Want, Waiting, Locked, Inv, HandlerInvariant
<1>2. CASE SetState(r)
  <2>1. otbr = base /\ w.kind = op[r] /\ op[r] \in {"up", "down"}
    BY <1>1, <1>2 DEF SetState, Inv, WritesSerialized, HandlerInvariant, Locked
  <2>2. [otbr EXCEPT !.enabled = (op[r] = "up")] = Atomic!Made(w, base)
    BY <2>1 DEF Atomic!Made
  <2>3. {otbr, Atomic!Made(w, base)} \subseteq Atomic!Partial(w, base)
    BY <2>1 DEF Atomic!Partial
  <2>. QED
    BY <1>2, <2>2, <2>3, WriteRefines DEF SetState, Locked
<1>3. CASE Disable(r)
  <2>1. otbr = base /\ w.kind \in {"move", "leave"}
    BY <1>1, <1>3 DEF Disable, Inv, WritesSerialized, HandlerInvariant, Locked
  <2>2. {otbr, [otbr EXCEPT !.enabled = FALSE]} \subseteq Atomic!Partial(w, base)
    BY <2>1 DEF Atomic!Partial
  <2>. QED
    BY <1>3, <2>2, WriteRefines DEF Disable, Locked
<1>4. CASE PutDataset(r)
  <2>1. otbr = [base EXCEPT !.enabled = FALSE] /\ w.kind = "move" /\ w.to = target[r]
    BY <1>1, <1>4 DEF PutDataset, Inv, WritesSerialized, HandlerInvariant, Locked
  <2>2. Atomic!Made(w, base).dataset = target[r]
    BY <2>1, MadeKinds
  <2>3. otbr \in Network /\ otbr.enabled = FALSE /\ target[r] \in Datasets \cup {NoDataset}
    BY <1>4, <2>1 DEF PutDataset, Inv, TypeOK, Network, HandlerInvariant, Locked
  <2>4. [otbr EXCEPT !.dataset = target[r]] = [dataset |-> target[r], enabled |-> FALSE]
    BY <2>3, DatasetWritten
  <2>5. {otbr, [otbr EXCEPT !.dataset = target[r]]} \subseteq Atomic!Partial(w, base)
    BY <2>1, <2>2, <2>4 DEF Atomic!Partial
  <2>. QED
    BY <1>4, <2>5, WriteRefines DEF PutDataset, Locked
<1>5. CASE Enable(r)
  <2>1. otbr = [dataset |-> target[r], enabled |-> FALSE] /\ w.kind = "move" /\ w.to = target[r]
    BY <1>1, <1>5 DEF Enable, Inv, WritesSerialized, HandlerInvariant, Locked
  <2>2. [otbr EXCEPT !.enabled = TRUE] = [dataset |-> target[r], enabled |-> TRUE]
    BY <2>1, EnabledWritten DEF Inv, TypeOK
  <2>3. Atomic!Made(w, base) = [dataset |-> target[r], enabled |-> TRUE]
    BY <2>1, MadeKinds
  <2>4. {otbr, Atomic!Made(w, base)} \subseteq Atomic!Partial(w, base)
    BY <2>1, <2>3 DEF Atomic!Partial
  <2>. QED
    BY <1>5, <2>2, <2>3, <2>4, WriteRefines DEF Enable, Locked
<1>6. CASE DeleteDataset(r)
  <2>1. otbr = [base EXCEPT !.enabled = FALSE] /\ w.kind = "leave"
    BY <1>1, <1>6 DEF DeleteDataset, Inv, WritesSerialized, HandlerInvariant, Locked
  <2>2. otbr \in Network /\ otbr.enabled = FALSE
    BY <2>1 DEF Inv, TypeOK, Network
  <2>3. [otbr EXCEPT !.dataset = NoDataset] = [dataset |-> NoDataset, enabled |-> FALSE]
    BY <2>2, DatasetWritten
  <2>4. Atomic!Made(w, base) = [dataset |-> NoDataset, enabled |-> FALSE]
    BY <2>1, MadeKinds
  <2>5. {otbr, Atomic!Made(w, base)} \subseteq Atomic!Partial(w, base)
    BY <2>1 DEF Atomic!Partial
  <2>. QED
    BY <1>6, <2>3, <2>4, <2>5, WriteRefines DEF DeleteDataset, Locked
<1>7. CASE Finish(r)
  <2>1. ~Waiting(r) /\ Want[r] = Atomic!Nothing /\ Status[r] = "done"
    BY <1>7 DEF Finish, Waiting, Want, Status, Atomic!Nothing
  <2>2. /\ Want' = [Want EXCEPT ![r] = Atomic!Nothing]
        /\ Status' = [Status EXCEPT ![r] = "over"]
    BY <1>7, Over DEF Finish, Answer, Goto, Inv, TypeOK
  <2>3. Want' = Want
    BY <2>1, <2>2 DEF Want
  <2>4. UNCHANGED base
    BY <1>7 DEF Finish, networkVars
  <2>. QED BY <2>1, <2>2, <2>3, <2>4 DEF Atomic!Next, Atomic!Report
<1>8. CASE Reject(r)
  <2>1. ~Waiting(r) /\ Want[r] = Atomic!Nothing /\ Status[r] = "over"
    BY <1>8 DEF Reject, Valid, Waiting, Want, Status, Atomic!Nothing
  <2>2. /\ Want' = [Want EXCEPT ![r] = Atomic!Nothing]
        /\ Status' = [Status EXCEPT ![r] = "over"]
    BY <1>8, Over DEF Reject, Valid, Answer, Goto, Inv, TypeOK
  <2>3. Want' = Want /\ Status' = Status
    BY <2>1, <2>2 DEF Want, Status
  <2>. QED BY <1>8, <2>3 DEF Reject, Valid, networkVars, Atomic!vars
<1>9. CASE ReadDataset(r)
  BY <1>9, Invisible DEF ReadDataset, GiveUpBackup, networkVars
<1>10. CASE ReadTLV(r)
  BY <1>10, Invisible DEF ReadTLV, GiveUpBackup, networkVars
<1>11. CASE SaveFile(r)
  BY <1>11, Invisible DEF SaveFile, networkVars
<1>12. CASE SaveFails(r)
  BY <1>12, Invisible DEF SaveFails, GiveUpBackup, networkVars
<1>13. CASE SavePointer(r)
  BY <1>13, Invisible DEF SavePointer, GiveUpBackup, networkVars
<1>14. CASE Lock(r)
  BY <1>14, Invisible DEF Lock, Valid
<1>. QED
  BY <1>2, <1>3, <1>4, <1>5, <1>6, <1>7, <1>8, <1>9, <1>10, <1>11, <1>12, <1>13, <1>14
  DEF Handle

(* A crash shows what the change that held controlMu had made of OTBR.     *)
LEMMA CrashRefines == ASSUME Inv, Crash PROVE Atomic!Crash
<1>1. \A r \in Requests : ~Waiting(r)' /\ pc'[r] = "idle"
  BY DEF Crash, Waiting
<1>2. /\ Want' = [r \in Requests |-> Atomic!Nothing]
      /\ Status' = [r \in Requests |-> "over"]
  BY <1>1 DEF Want, Status, Atomic!Nothing
<1>3. base' = otbr
  BY DEF Crash, Unlock
<1>4. CASE mutex = Nobody
  BY <1>2, <1>3, <1>4 DEF Atomic!Crash, Inv, WritesSerialized
<1>5. CASE mutex # Nobody
  <2>1. PICK r \in Requests : mutex = r /\ pc[r] \in Locked
    BY <1>5 DEF Inv, TypeOK, WritesSerialized
  <2>2. Waiting(r) /\ Status[r] = "waiting"
    BY <2>1 DEF Waiting, Status, Locked, Inv, HandlerInvariant
  <2>3. /\ Want[r].kind = IF op[r] \in {"apply", "restore"} THEN "move" ELSE op[r]
        /\ Want[r].to = target[r]
    BY <2>2 DEF Want
  <2>4. otbr \in Atomic!Partial(Want[r], base)
    <3>1. CASE pc[r] \in {"state", "disable"}
      BY <3>1 DEF Atomic!Partial, Inv, WritesSerialized
    <3>2. CASE pc[r] \in {"put", "delete"}
      <4>1. Want[r].kind \in {"move", "leave"} /\ otbr = [base EXCEPT !.enabled = FALSE]
        BY <2>3, <3>2 DEF Inv, HandlerInvariant, WritesSerialized
      <4>. QED BY <4>1 DEF Atomic!Partial
    <3>3. CASE pc[r] = "enable"
      <4>1. Want[r].kind = "move" /\ otbr = [dataset |-> target[r], enabled |-> FALSE]
        BY <2>3, <3>3 DEF Inv, HandlerInvariant, WritesSerialized
      <4>. QED BY <2>3, <4>1 DEF Atomic!Partial, Atomic!Made
    <3>. QED BY <2>1, <3>1, <3>2, <3>3 DEF Locked
  <2>. QED BY <1>2, <1>3, <2>2, <2>4 DEF Atomic!Crash
<1>. QED BY <1>4, <1>5

(* The network control API is atomic and isolated.                         *)
THEOREM Refines == Spec => ImplementsAtomicChange
<1>1. ASSUME Inv, [Next]_vars PROVE Atomic!Next \/ UNCHANGED Atomic!vars
  <2>1. CASE Start
    <3>1. UNCHANGED <<pc, op, target, base>>
      BY <2>1 DEF Start, requestVars, networkVars
    <3>2. Want' = Want /\ Status' = Status
      BY <3>1 DEF Want, Status, Waiting
    <3>. QED BY <3>1, <3>2 DEF Atomic!vars
  <2>2. CASE Crash
    BY <1>1, <2>2, CrashRefines DEF Atomic!Next
  <2>3. CASE UNCHANGED vars
    <3>1. UNCHANGED <<pc, op, target, base>>
      BY <2>3 DEF vars
    <3>2. Want' = Want /\ Status' = Status
      BY <3>1 DEF Want, Status, Waiting
    <3>. QED BY <3>1, <3>2 DEF Atomic!vars
  <2>. QED
    BY <1>1, <2>1, <2>2, <2>3, ArriveRefines, HandleRefines DEF Next
<1>. QED
  BY InitInv, NextInv, InitRefines, <1>1, PTL DEF Spec, ImplementsAtomicChange, Atomic!Spec

-----------------------------------------------------------------------------
(* What a backup is good for, with any number of requests at a time.  The  *)
(* backup is taken outside controlMu, so what a handler knows of it holds  *)
(* until another request comes between, which the history records.         *)

Changes(r) == op[r] \in {"apply", "restore", "leave"}

(* The file and the restore point hold d, if there is a d to hold.         *)
Held(d) == d # NoDataset => file # NoBackup /\ file.tlv = d /\ snap = file

(* What a request knows, by where it is.                                   *)
Knows(r) ==
  /\ pc[r] = "tlv" /\ "network" \notin marred[r] => creds[r].name = otbr.dataset
  /\ pc[r] = "save" /\ "network" \notin marred[r] =>
       creds[r].name = otbr.dataset /\ creds[r].tlv = otbr.dataset
  /\ pc[r] = "publish" /\ "backup" \notin marred[r] => saving[r] = file
  /\ pc[r] = "publish" /\ "network" \notin marred[r] => saving[r].tlv = otbr.dataset
  /\ pc[r] = "control" /\ Changes(r) /\ marred[r] = {} => Held(otbr.dataset)
  /\ pc[r] \in Locked /\ Changes(r) /\ marred[r] = {} => Held(base.dataset)
  /\ saving[r] # NoBackup <=> pc[r] = "publish"
  /\ pc[r] \in BackingUp \cup {"publish"} => Changes(r)
  /\ ~running => pc[r] = "idle"

Known == \A r \in Requests : Knows(r)

LEMMA SnapshotNotNone ==
  ASSUME NEW s \in Backup!Snapshot PROVE s # NoBackup
  BY DistinctValues DEF Backup!Snapshot

LEMMA KnownInit == Init => Known
<1>1. ASSUME Init, NEW r \in Requests PROVE pc[r] = "idle" /\ saving[r] = NoBackup
  BY <1>1 DEF Init, Backup!Init, Backup!Idle
<1>. QED BY <1>1 DEF Known, Knows, Locked, BackingUp

(* What another request's step leaves a request, and what it records.      *)
Bystander(q) ==
  /\ pc'[q] = pc[q] /\ op'[q] = op[q] /\ creds'[q] = creds[q] /\ saving'[q] = saving[q]
  /\ running' = running
  /\ marred[q] \subseteq marred'[q]
  /\ HasBegun(q) /\ otbr'.dataset # otbr.dataset => "network" \in marred'[q]
  /\ HasBegun(q) /\ (file' # file \/ snap' # snap) => "backup" \in marred'[q]
  /\ pc[q] \in Locked => base' = base

LEMMA BystanderKnows ==
  ASSUME Inv, NEW q \in Requests, Knows(q), Bystander(q) PROVE Knows(q)'
<1> USE DEF Knows, Bystander, HasBegun, Changes, BackingUp
<1>1. pc[q] \in BackingUp \cup {"publish"} => Changes(q)
  OBVIOUS
<1>2. pc[q] = "tlv" /\ "network" \notin marred'[q] => creds[q].name = otbr'.dataset
  BY <1>1
<1>3. pc[q] = "save" /\ "network" \notin marred'[q] =>
        creds[q].name = otbr'.dataset /\ creds[q].tlv = otbr'.dataset
  BY <1>1
<1>4. pc[q] = "publish" /\ "backup" \notin marred'[q] => saving[q] = file'
  BY <1>1
<1>5. pc[q] = "publish" /\ "network" \notin marred'[q] => saving[q].tlv = otbr'.dataset
  BY <1>1
<1>6. marred'[q] = {} => marred[q] = {}
  OBVIOUS
<1>7. ASSUME pc[q] \in Locked \cup {"control"}, Changes(q), marred'[q] = {}
      PROVE  file' = file /\ snap' = snap /\ otbr'.dataset = otbr.dataset
  BY <1>7 DEF Locked
<1>8. pc[q] = "control" /\ Changes(q) /\ marred'[q] = {} => Held(otbr.dataset)'
  BY <1>6, <1>7 DEF Held
<1>9. pc[q] \in Locked /\ Changes(q) /\ marred'[q] = {} => Held(base.dataset)'
  BY <1>6, <1>7 DEF Held
<1>. QED BY <1>1, <1>2, <1>3, <1>4, <1>5, <1>8, <1>9

(* What Track records of the others.                                       *)
LEMMA TrackOthers ==
  ASSUME Inv, NEW r \in Requests, NEW q \in Requests, q # r, Track(r)
  PROVE  /\ marred[q] \subseteq marred'[q]
         /\ HasBegun(q) /\ otbr'.dataset # otbr.dataset => "network" \in marred'[q]
         /\ HasBegun(q) /\ (file' # file \/ snap' # snap) => "backup" \in marred'[q]
<1>1. marred'[q] = marred[q] \cup Mars(q)
  BY DEF Track
<1>. QED BY <1>1 DEF Mars

LEMMA TrackOwn ==
  ASSUME NEW r \in Requests, Track(r) PROVE marred'[r] = Own(r) \cup Failure(r)
  BY DEF Track

(* The steps of one request leave the others' locals alone, and what the   *)
(* holder of controlMu changes is its own.                                 *)
LEMMA HandleBystander ==
  ASSUME Inv, NEW r \in Requests, NEW q \in Requests, q # r, Handle(r) PROVE Bystander(q)
<1>1. Track(r)
  BY HandleTracks
<1>2. pc'[q] = pc[q] /\ op'[q] = op[q] /\ creds'[q] = creds[q]
  BY DEF Inv, TypeOK, Handle, ReadDataset, ReadTLV, SaveFile, SaveFails, SavePointer,
         GiveUpBackup, Reject, Lock, SetState, Disable, PutDataset, Enable, DeleteDataset,
         Finish, Write, WriteSucceeds, WriteFails, Answer, Goto, requestVars
<1>3. saving'[q] = saving[q] /\ running' = running
  BY DEF Inv, TypeOK, Backup!TypeOK, Handle, ReadDataset, ReadTLV, SaveFile, SaveFails,
         SavePointer, Backup!Persist, Backup!Publish, Reject, Lock, SetState, Disable,
         PutDataset, Enable, DeleteDataset, Finish, Write, backupVars
<1>4. ASSUME pc[q] \in Locked PROVE base' = base
  <2>1. pc[r] \notin Locked
    BY <1>4 DEF Inv, WritesSerialized
  <2>. QED
    BY <2>1
    DEF Locked, Handle, ReadDataset, ReadTLV, SaveFile, SaveFails, SavePointer, Reject, Lock,
        SetState, Disable, PutDataset, Enable, DeleteDataset, Finish, networkVars
<1>. QED BY <1>1, <1>2, <1>3, <1>4, TrackOthers DEF Bystander

LEMMA ReceiveBystander ==
  ASSUME Inv, NEW r \in Requests, NEW q \in Requests, q # r, NEW o, NEW d, NEW place,
         Receive(r, o, d, place)
  PROVE  Bystander(q)
<1>1. Track(r)
  BY DEF Receive
<1>2. /\ pc'[q] = pc[q] /\ op'[q] = op[q] /\ creds'[q] = creds[q] /\ saving'[q] = saving[q]
      /\ running' = running /\ base' = base
  BY DEF Inv, TypeOK, Receive, Goto, backupVars, networkVars
<1>. QED BY <1>1, <1>2, TrackOthers DEF Bystander

(* The same for a request's own step.                                      *)
LEMMA OwnKnows ==
  ASSUME Inv, NEW r \in Requests, Knows(r), Handle(r) PROVE Knows(r)'
<1>1. Track(r)
  BY HandleTracks
<1>2. marred'[r] = Own(r) \cup Failure(r)
  BY <1>1, TrackOwn
<1> USE DEF Inv, TypeOK, HandlerInvariant, Knows, Changes, Locked, BackingUp, Goto, backupVars,
            requestVars, networkVars, Blank, Backup!TypeOK, Held
<1>3. CASE ReadDataset(r)
  BY <1>2, <1>3 DEF ReadDataset, GiveUpBackup, Own, Failure
<1>4. CASE ReadTLV(r)
  BY <1>2, <1>4 DEF ReadTLV, GiveUpBackup, Own, Failure
<1>5. CASE SaveFile(r)
  BY <1>2, <1>5, SnapshotNotNone DEF SaveFile, Backup!Persist, Own, Failure
<1>6. CASE SaveFails(r)
  BY <1>2, <1>6 DEF SaveFails, GiveUpBackup, Own, Failure
<1>7. CASE SavePointer(r)
  BY <1>2, <1>7 DEF SavePointer, Backup!Publish, GiveUpBackup, Own, Failure
<1>8. CASE Reject(r)
  BY <1>8 DEF Reject, Valid, Answer
<1>9. CASE Lock(r)
  BY <1>2, <1>9 DEF Lock, Valid, Own, Failure, WritesSerialized
<1>10. ASSUME NEW n, NEW next \in Locked \cup {"refresh"}, Write(r, n, next), pc[r] \in Locked
       PROVE  Knows(r)'
  BY <1>2, <1>10 DEF Write, WriteSucceeds, WriteFails, Answer, Own, Failure
<1>11. CASE SetState(r) \/ Disable(r) \/ PutDataset(r) \/ Enable(r) \/ DeleteDataset(r)
  BY <1>10, <1>11 DEF SetState, Disable, PutDataset, Enable, DeleteDataset
<1>12. CASE Finish(r)
  BY <1>12 DEF Finish, Answer
<1>. QED
  BY <1>3, <1>4, <1>5, <1>6, <1>7, <1>8, <1>9, <1>11, <1>12 DEF Handle

LEMMA ReceiveKnows ==
  ASSUME Inv, NEW r \in Requests, Knows(r), NEW o, NEW d, NEW place,
         Receive(r, o, d, place),
         \/ place = "dataset" /\ o \in {"apply", "restore", "leave"}
         \/ place = "control" /\ o \in {"up", "down"}
  PROVE  Knows(r)'
  BY DEF Inv, TypeOK, Knows, Changes, Receive, Goto, backupVars, networkVars, Locked, BackingUp

LEMMA ArriveReceives ==
  ASSUME NEW r \in Requests, Arrive(r)
  PROVE  \E o, d, place :
           /\ Receive(r, o, d, place)
           /\ \/ place = "dataset" /\ o \in {"apply", "restore", "leave"}
              \/ place = "control" /\ o \in {"up", "down"}
  BY DEF Arrive, Form, Join, JoinTLV, Leave, SetEnabled, Restore

LEMMA KnownNext == ASSUME Inv, Known, [Next]_vars PROVE Known'
<1>1. CASE Start
  BY <1>1 DEF Start, Backup!Load, Known, Knows, networkVars, requestVars, Changes, Locked,
              BackingUp
<1>2. CASE Crash
  BY <1>2 DEF Crash, Backup!Crash, Backup!Idle, Known, Knows, Locked, BackingUp
<1>3. CASE UNCHANGED vars
  BY <1>3 DEF vars, Known, Knows, Changes, Held
<1>4. ASSUME NEW r \in Requests, Arrive(r), NEW q \in Requests PROVE Knows(q)'
  BY <1>4, ArriveReceives, ReceiveKnows, ReceiveBystander, BystanderKnows DEF Known
<1>5. ASSUME NEW r \in Requests, Handle(r), NEW q \in Requests PROVE Knows(q)'
  BY <1>5, OwnKnows, HandleBystander, BystanderKnows DEF Known
<1>. QED BY <1>1, <1>2, <1>3, <1>4, <1>5 DEF Next, Known

LEMMA KnownAlways == Spec => [](Inv /\ Known)
  BY InitInv, NextInv, KnownInit, KnownNext, PTL DEF Spec

-----------------------------------------------------------------------------
(* A step that moves a request on from where it is with its backup is that *)
(* request's own.                                                          *)
LEMMA OwnStep ==
  ASSUME Inv, Known, [Next]_vars, NEW r \in Requests, pc'[r] # pc[r], pc[r] # "idle",
         pc'[r] # "idle"
  PROVE  Handle(r)
<1>1. ASSUME NEW q \in Requests, Arrive(q) \/ Handle(q) PROVE q = r
  BY <1>1, HandleBystander, ReceiveBystander, ArriveReceives DEF Bystander
<1>2. ~Arrive(r)
  BY ArriveReceives DEF Receive
<1>. QED
  BY <1>1, <1>2 DEF Next, Start, Crash, vars, Inv, TypeOK

(* What a backup saves is the network that is active, under its own name   *)
(* (server.go:366, store.go:21), whatever fails and however many requests  *)
(* there are, unless another request has changed the network since the     *)
(* first of the backup's two reads.                                        *)
THEOREM NamedAfterItsDataset == Spec => BackupNamedAfterItsDataset
<1>1. ASSUME Inv, Known, [Next]_vars, NEW r \in Requests,
             pc[r] = "save", pc'[r] = "publish", "network" \notin marred[r]
      PROVE  file' = [tlv |-> otbr.dataset, name |-> otbr.dataset]
  <2>1. Handle(r)
    BY <1>1, OwnStep
  <2>2. SaveFile(r)
    BY <1>1, <2>1
    DEF Handle, ReadDataset, ReadTLV, SaveFails, GiveUpBackup, SavePointer, Reject, Lock,
        SetState, Disable, PutDataset, Enable, DeleteDataset, Finish, Goto, Inv, TypeOK
  <2>3. file' = creds[r]
    BY <2>2 DEF SaveFile, Backup!Persist
  <2>4. creds[r].name = otbr.dataset /\ creds[r].tlv = otbr.dataset
    BY <1>1 DEF Known, Knows
  <2>5. creds[r] = [tlv |-> creds[r].tlv, name |-> creds[r].name]
    <3>1. creds[r] \in [tlv : Datasets \cup {NoDataset}, name : Datasets \cup {NoDataset}]
      BY <1>1 DEF Inv, TypeOK
    <3>. QED BY <3>1
  <2>. QED BY <2>3, <2>4, <2>5
<1>2. ASSUME Inv, Known, [Next]_vars
      PROVE  \A r \in Requests :
               pc[r] = "save" /\ pc'[r] = "publish" /\ "network" \notin marred[r] =>
                 file' = [tlv |-> otbr.dataset, name |-> otbr.dataset]
  BY <1>1, <1>2
<1>. QED BY KnownAlways, <1>2, PTL DEF Spec, BackupNamedAfterItsDataset

(* The restore point survives a restart (store.go:83-97), whatever fails   *)
(* and however many requests there are: what the process would restore     *)
(* comes to differ from what the next one would load only through a file   *)
(* that could not be loaded or two overlapping Saves.                      *)
THEOREM RestorePointSurvives == Spec => RestorePointDurable
<1>1. ASSUME Inv, Known, [Next]_vars, Backup!Apart', ~Backup!Apart
      PROVE  \/ ~running /\ "load" \in Faults
             \/ \E r \in Requests : pc[r] = "publish" /\ "backup" \in marred[r]
  <2>1. CASE Start
    BY <1>1, <2>1 DEF Start, Backup!Load, Backup!Apart
  <2>2. ~Crash /\ ~UNCHANGED backupVars
    BY <1>1 DEF Crash, Backup!Crash, Backup!Apart, backupVars
  <2>3. ASSUME NEW r \in Requests, Handle(r) PROVE SavePointer(r)
    <3>1. ~SaveFile(r)
      BY <1>1, SnapshotNotNone
      DEF SaveFile, Backup!Persist, Backup!Apart, Backup!Idle, Inv, TypeOK, Backup!TypeOK,
          HandlerInvariant
    <3>. QED
      BY <2>2, <2>3, <3>1
      DEF Handle, ReadDataset, ReadTLV, SaveFails, Reject, Lock, SetState, Disable, PutDataset,
          Enable, DeleteDataset, Finish, Write
  <2>4. ASSUME NEW r \in Requests, SavePointer(r)
        PROVE  pc[r] = "publish" /\ "backup" \in marred[r]
    BY <1>1, <2>4 DEF SavePointer, Backup!Publish, Backup!Apart, Known, Knows
  <2>5. ASSUME NEW r \in Requests PROVE ~Arrive(r)
    BY <2>2, ArriveReceives DEF Receive
  <2>. QED BY <1>1, <2>1, <2>2, <2>3, <2>4, <2>5 DEF Next, vars, backupVars
<1>2. ASSUME Inv, Known, [Next]_vars
      PROVE  Backup!Apart' => \/ Backup!Apart
                              \/ ~running /\ "load" \in Faults
                              \/ \E r \in Requests : pc[r] = "publish" /\ "backup" \in marred[r]
  BY <1>1, <1>2
<1>. QED BY KnownAlways, <1>2, PTL DEF Spec, RestorePointDurable

(* What a change replaces has been backed up (README 66, 228) by the       *)
(* request that makes the change, whatever fails and however many requests *)
(* there are, unless its backup failed or another request came between.    *)
THEOREM ChangesAreBackedUp == Spec => BackedUpBeforeChange
<1>1. ASSUME Inv, Known, [Next]_vars, NEW r \in Requests, pc[r] \in {"put", "delete"},
             otbr.dataset # NoDataset, marred[r] = {}
      PROVE  file # NoBackup /\ file.tlv = otbr.dataset
  <2>1. otbr.dataset = base.dataset
    BY <1>1 DEF Inv, TypeOK, Network, WritesSerialized
  <2>2. Changes(r)
    BY <1>1 DEF Inv, HandlerInvariant, Changes
  <2>. QED BY <1>1, <2>1, <2>2 DEF Known, Knows, Held, Locked
<1>2. ASSUME Inv, Known, [Next]_vars
      PROVE  \A r \in Requests :
               /\ pc[r] \in {"put", "delete"} /\ otbr'.dataset # otbr.dataset
               /\ otbr.dataset # NoDataset /\ marred[r] = {}
               => file # NoBackup /\ file.tlv = otbr.dataset
  BY <1>1, <1>2
<1>. QED BY KnownAlways, <1>2, PTL DEF Spec, BackedUpBeforeChange

(* A restore can itself be undone (server.go:371-385), whatever fails and  *)
(* however many requests there are: when it has succeeded the network is   *)
(* on the restored dataset, and the one it was on before is the new        *)
(* restore point, in memory and on disk, unless the restore's own backup   *)
(* failed or another request came between.                                 *)
THEOREM RestoresCanBeUndone == Spec => RestoreUndoable
<1>1. ASSUME Inv, Known, [Next]_vars, NEW r \in Requests,
             op[r] = "restore", pc'[r] = "refresh", pc[r] # "refresh"
      PROVE  /\ otbr' = [dataset |-> target[r], enabled |-> TRUE]
             /\ base.dataset # NoDataset /\ marred[r] = {} =>
                  snap # NoBackup /\ snap.tlv = base.dataset /\ file = snap
  <2>1. pc[r] # "idle"
    <3>1. ASSUME pc[r] = "idle", NEW q \in Requests, Arrive(q) PROVE FALSE
      <4>1. CASE q = r
        BY <1>1, <3>1, <4>1, ArriveReceives DEF Receive, Goto, Inv, TypeOK
      <4>2. CASE q # r
        BY <1>1, <3>1, <4>2, ArriveReceives, ReceiveBystander DEF Bystander
      <4>. QED BY <4>1, <4>2
    <3>2. ASSUME pc[r] = "idle", NEW q \in Requests, Handle(q) PROVE FALSE
      <4>1. CASE q = r
        BY <3>2, <4>1
        DEF Handle, ReadDataset, ReadTLV, SaveFile, SaveFails, SavePointer, Reject, Lock,
            SetState, Disable, PutDataset, Enable, DeleteDataset, Finish
      <4>2. CASE q # r
        BY <1>1, <3>2, <4>2, HandleBystander DEF Bystander
      <4>. QED BY <4>1, <4>2
    <3>. QED BY <1>1, <3>1, <3>2 DEF Next, Start, Crash, vars
  <2>2. Handle(r)
    BY <1>1, <2>1, OwnStep
  <2>3. Enable(r)
    BY <1>1, <2>2
    DEF Handle, ReadDataset, ReadTLV, SaveFile, SaveFails, SavePointer, GiveUpBackup, Reject,
        Lock, SetState, Disable, PutDataset, Enable, DeleteDataset, Finish, Write,
        WriteSucceeds, WriteFails, Answer, Inv, TypeOK, HandlerInvariant, Goto
  <2>4. otbr' = [otbr EXCEPT !.enabled = TRUE]
    BY <1>1, <2>3 DEF Enable, Write, WriteSucceeds, WriteFails, Answer, Goto, Inv, TypeOK
  <2>5. otbr = [dataset |-> target[r], enabled |-> FALSE]
    BY <1>1, <2>3 DEF Enable, Inv, WritesSerialized
  <2>6. otbr' = [dataset |-> target[r], enabled |-> TRUE]
    BY <2>4, <2>5, EnabledWritten
  <2>7. pc[r] \in Locked /\ Changes(r)
    BY <1>1, <2>3 DEF Enable, Locked, Changes
  <2>. QED BY <1>1, <2>6, <2>7 DEF Known, Knows, Held
<1>2. ASSUME Inv, Known, [Next]_vars
      PROVE  \A r \in Requests : op[r] = "restore" /\ pc'[r] = "refresh" /\ pc[r] # "refresh" =>
               /\ otbr' = [dataset |-> target[r], enabled |-> TRUE]
               /\ base.dataset # NoDataset /\ marred[r] = {} =>
                    snap # NoBackup /\ snap.tlv = base.dataset /\ file = snap
  BY <1>1, <1>2
<1>. QED BY KnownAlways, <1>2, PTL DEF Spec, RestoreUndoable
=============================================================================
