--------------------------- MODULE MonitorProofs ---------------------------
(***************************************************************************)
(* Proofs about Monitor, for any number of handlers and of changes,        *)
(* whatever fails.                                                         *)
(***************************************************************************)
EXTENDS Monitor, TLAPS

(* What is stored was read by the refresh that stores it, so a reading is  *)
(* there whenever a refresh is about to store one.                         *)
ReadBeforeStored ==
  \A c \in Clients :
    pc[c] \in {"store overview", "store devices", "store topology", "store capabilities"}
      => got[c] \in Versions \cup {Failed}

Inv == TypeOK /\ ReadBeforeStored

LEMMA Distinct ==
  /\ Run \notin Handlers
  /\ NoData \notin Versions /\ Failed \notin Versions /\ Failed # NoData
  /\ 0 \in Versions
  /\ \A s \in Setups : s.live \in BOOLEAN /\ s.discovery \in BOOLEAN /\ s.actions \in BOOLEAN
  BY MonitorConstants DEF Versions

LEMMA NextVersion == ASSUME NEW v \in Versions, v < MaxChanges PROVE v + 1 \in Versions
  BY MonitorConstants DEF Versions

LEMMA SnapshotsUnchanged == ASSUME SnapshotsOK, UNCHANGED snapshots PROVE SnapshotsOK'
  BY DEF SnapshotsOK, snapshots

LEMMA OtbrUnchanged == ASSUME OtbrOK, UNCHANGED otbr PROVE OtbrOK'
  BY DEF OtbrOK, otbr

LEMMA InitInv == Init => Inv
<1> SUFFICES ASSUME Init PROVE Inv
  OBVIOUS
<1>1. SnapshotsOK /\ OtbrOK
  BY Distinct DEF Init, SnapshotsOK, OtbrOK
<1>2. TypeOK
  BY Distinct, <1>1 DEF Init, TypeOK, Clients, Places
<1>3. ReadBeforeStored
  BY DEF Init, ReadBeforeStored
<1>. QED BY <1>2, <1>3 DEF Inv

(* A reading: the snapshots and OTBR stay as they are.                     *)
LEMMA ReadInv ==
  ASSUME Inv, NEW c \in Clients, NEW v \in Versions \cup {Failed}, NEW place \in Places,
         got' = [got EXCEPT ![c] = v], Goto(c, place),
         UNCHANGED <<snapshots, discoveryOff, started, otbr>>
  PROVE  Inv'
<1>1. SnapshotsOK' /\ OtbrOK'
  BY SnapshotsUnchanged, OtbrUnchanged DEF Inv, TypeOK
<1>2. TypeOK'
  BY <1>1 DEF Inv, TypeOK, Goto
<1>3. ReadBeforeStored'
  BY DEF Inv, TypeOK, ReadBeforeStored, Goto
<1>. QED BY <1>2, <1>3 DEF Inv

(* A reading is stored: the refresh is over.                               *)
LEMMA StoreInv ==
  ASSUME Inv, NEW c \in Clients, SnapshotsOK', started' \in BOOLEAN,
         NEW place \in Places \ {"store overview", "store devices", "store topology",
                                 "store capabilities"},
         got' = [got EXCEPT ![c] = NoData], Goto(c, place), UNCHANGED <<discoveryOff, otbr>>
  PROVE  Inv'
<1>1. OtbrOK'
  BY OtbrUnchanged DEF Inv, TypeOK
<1>2. TypeOK'
  BY <1>1 DEF Inv, TypeOK, Goto
<1>3. ReadBeforeStored'
  BY DEF Inv, TypeOK, ReadBeforeStored, Goto
<1>. QED BY <1>2, <1>3 DEF Inv

(* Nothing is read and nothing is stored.                                  *)
LEMMA MoveInv ==
  ASSUME Inv, NEW c \in Clients,
         NEW place \in Places \ {"store overview", "store devices", "store topology",
                                 "store capabilities"},
         Goto(c, place), OtbrOK', discoveryOff' \in BOOLEAN, UNCHANGED <<snapshots, got, started>>
  PROVE  Inv'
<1>1. SnapshotsOK'
  BY SnapshotsUnchanged DEF Inv, TypeOK
<1>2. TypeOK'
  BY <1>1 DEF Inv, TypeOK, Goto
<1>3. ReadBeforeStored'
  BY DEF Inv, TypeOK, ReadBeforeStored, Goto
<1>. QED BY <1>2, <1>3 DEF Inv

LEMMA RefreshInv ==
  ASSUME Inv, NEW c \in Clients, Refresh(c) \/ ReadCancelled(c) PROVE Inv'
<1>1. CASE ReadOverview(c)
  <2>1. (IF reachable THEN version ELSE Failed) \in Versions \cup {Failed}
    BY DEF Inv, TypeOK, OtbrOK
  <2>. QED BY <1>1, <2>1, ReadInv DEF ReadOverview, Read, Places
<1>2. CASE ReadCancelled(c)
  BY <1>2, ReadInv DEF ReadCancelled, Places
<1>3. CASE StoreOverview(c)
  <2>1. overview' \in [status : {"connecting", "online", "offline"}, stale : BOOLEAN,
                       hasData : BOOLEAN, shows : Versions \cup {NoData}]
    <3>1. CASE got[c] = Failed
      BY <1>3, <3>1 DEF StoreOverview, OverviewFailed, Inv, TypeOK, SnapshotsOK
    <3>2. CASE got[c] # Failed
      BY <1>3, <3>2 DEF StoreOverview, OverviewRead, Inv, TypeOK, ReadBeforeStored
    <3>. QED BY <3>1, <3>2
  <2>2. lastOnline' \in BOOLEAN
    BY <1>3 DEF StoreOverview
  <2>6. UNCHANGED <<devices, topology, capabilities>>
    BY <1>3 DEF StoreOverview
  <2>3. SnapshotsOK'
    BY <2>1, <2>2, <2>6 DEF Inv, TypeOK, SnapshotsOK
  <2>4. AfterOverview(c) \in Places \ {"store overview", "store devices", "store topology",
                                       "store capabilities"}
    BY DEF AfterOverview, Places
  <2>5. started' \in BOOLEAN
    BY <1>3 DEF StoreOverview, Inv, TypeOK
  <2>. QED BY <1>3, <2>3, <2>4, <2>5, StoreInv DEF StoreOverview
<1>. QED BY <1>1, <1>2, <1>3 DEF Refresh

LEMMA SweepInv == ASSUME Inv, Sweep PROVE Inv'
<1>1. (IF started THEN "select" ELSE "devices")
        \in Places \ {"store overview", "store devices", "store topology", "store capabilities"}
  BY DEF Places
<1>2. Run \in Clients
  BY DEF Clients
<1>3. OtbrOK' /\ discoveryOff' \in BOOLEAN
  <2>1. CASE PostSweep
    BY <2>1 DEF PostSweep, Inv, TypeOK, OtbrOK
  <2>2. CASE UNCHANGED otbr
    BY <2>2, OtbrUnchanged DEF Inv, TypeOK, Sweep, SkipSweep, PostSweep, SweepUnsupported, SweepFails
  <2>. QED BY <2>1, <2>2 DEF Sweep, SkipSweep, SweepUnsupported, SweepFails
<1>. QED
  BY <1>1, <1>2, <1>3, MoveInv
  DEF Sweep, SkipSweep, PostSweep, SweepUnsupported, SweepFails, AfterSweep

LEMMA MeshInv ==
  ASSUME Inv, ReadDevices \/ StoreDevices \/ ReadTopology \/ StoreTopology PROVE Inv'
<1>1. Run \in Clients
  BY DEF Clients
<1>2. \A v \in MeshReadings : (IF reachable THEN v ELSE Failed) \in Versions \cup {Failed}
  BY DEF MeshReadings, Inv, TypeOK, OtbrOK
<1>3. CASE ReadDevices
  BY <1>1, <1>2, <1>3, ReadInv DEF ReadDevices, Read, Places
<1>4. CASE ReadTopology
  BY <1>1, <1>2, <1>4, ReadInv DEF ReadTopology, Read, Places
<1>5. CASE StoreDevices
  <2>1. devices' \in [status : {"connecting", "available", "unavailable"}, stale : BOOLEAN,
                      shows : Versions \cup {NoData}, mismatch : BOOLEAN]
    <3>1. CASE got[Run] = Failed
      BY <1>5, <3>1 DEF StoreDevices, Unavailable, Inv, TypeOK, SnapshotsOK
    <3>2. CASE got[Run] # Failed
      <4>1. got[Run] \in Versions
        BY <1>1, <1>5, <3>2 DEF StoreDevices, Inv, ReadBeforeStored
      <4>2. (overview.hasData /\ overview.shows # got[Run]) \in BOOLEAN
        OBVIOUS
      <4>. QED BY <1>5, <3>2, <4>1, <4>2 DEF StoreDevices, DevicesRead
    <3>. QED BY <3>1, <3>2
  <2>2. UNCHANGED <<overview, lastOnline, topology, capabilities, started>>
    BY <1>5 DEF StoreDevices
  <2>3. SnapshotsOK'
    BY <2>1, <2>2 DEF Inv, TypeOK, SnapshotsOK
  <2>4. started' \in BOOLEAN
    BY <2>2 DEF Inv, TypeOK
  <2>. QED BY <1>1, <1>5, <2>3, <2>4, StoreInv DEF StoreDevices, Places
<1>6. CASE StoreTopology
  <2>1. topology' \in [status : {"connecting", "available", "unavailable"}, stale : BOOLEAN,
                       shows : Versions \cup {NoData}, names : Versions \cup {NoData}]
    <3>1. CASE got[Run] = Failed
      BY <1>6, <3>1 DEF StoreTopology, Unavailable, Inv, TypeOK, SnapshotsOK
    <3>2. CASE got[Run] # Failed
      <4>1. got[Run] \in Versions /\ devices.shows \in Versions \cup {NoData}
        BY <1>1, <1>6, <3>2 DEF StoreTopology, Inv, TypeOK, SnapshotsOK, ReadBeforeStored
      <4>. QED BY <1>6, <3>2, <4>1 DEF StoreTopology
    <3>. QED BY <3>1, <3>2
  <2>2. UNCHANGED <<overview, lastOnline, devices, capabilities, started>>
    BY <1>6 DEF StoreTopology
  <2>3. SnapshotsOK'
    BY <2>1, <2>2 DEF Inv, TypeOK, SnapshotsOK
  <2>4. started' \in BOOLEAN
    BY <2>2 DEF Inv, TypeOK
  <2>. QED BY <1>1, <1>6, <2>3, <2>4, StoreInv DEF StoreTopology, Places
<1>. QED BY <1>3, <1>4, <1>5, <1>6

LEMMA CapabilitiesInv == ASSUME Inv, ReadCapabilities \/ StoreCapabilities PROVE Inv'
<1>1. Run \in Clients
  BY DEF Clients
<1>2. CASE ReadCapabilities
  <2>1. (IF reachable THEN version ELSE Failed) \in Versions \cup {Failed}
    BY DEF Inv, TypeOK, OtbrOK
  <2>. QED BY <1>1, <1>2, <2>1, ReadInv DEF ReadCapabilities, Read, Places
<1>3. CASE StoreCapabilities
  <2>1. capabilities' \in {"none", "known"}
    BY <1>3 DEF StoreCapabilities, Inv, TypeOK, SnapshotsOK
  <2>2. UNCHANGED <<overview, lastOnline, devices, topology>> /\ started' = TRUE
    BY <1>3 DEF StoreCapabilities
  <2>3. SnapshotsOK'
    BY <2>1, <2>2 DEF Inv, TypeOK, SnapshotsOK
  <2>. QED BY <1>1, <1>3, <2>2, <2>3, StoreInv DEF StoreCapabilities, Places
<1>. QED BY <1>2, <1>3

LEMMA ChooseInv == ASSUME Inv, NEW t \in Timers, Choose(t) PROVE Inv'
<1>1. Run \in Clients
      /\ t \in Places \ {"store overview", "store devices", "store topology",
                         "store capabilities"}
  BY DEF Clients, Places, Timers
<1>2. OtbrOK' /\ discoveryOff' \in BOOLEAN
  BY OtbrUnchanged DEF Choose, Inv, TypeOK
<1>. QED BY <1>1, <1>2, MoveInv DEF Choose

LEMMA ChangeInv == ASSUME Inv, NEW h \in Handlers, Change(h) PROVE Inv'
<1>1. OtbrOK'
  BY NextVersion DEF Change, Inv, TypeOK, OtbrOK
<1>2. discoveryOff' \in BOOLEAN
  BY DEF Change, Inv, TypeOK
<1>. QED BY <1>1, <1>2, MoveInv DEF Change, Clients, Places

LEMMA NextInv == Inv /\ [Next]_vars => Inv'
<1> SUFFICES ASSUME Inv, [Next]_vars PROVE Inv'
  OBVIOUS
<1>1. CASE Poll
  BY <1>1, RefreshInv, SweepInv, MeshInv, CapabilitiesInv DEF Poll, Clients
<1>2. CASE Drift \/ ComeAndGo \/ SweepLands
  <2>1. OtbrOK'
    BY <1>2, NextVersion DEF Drift, ComeAndGo, SweepLands, Inv, TypeOK, OtbrOK
  <2>2. SnapshotsOK'
    BY <1>2, SnapshotsUnchanged DEF Drift, ComeAndGo, SweepLands, Inv, TypeOK
  <2>3. UNCHANGED <<discoveryOff, pc, got, started>>
    BY <1>2 DEF Drift, ComeAndGo, SweepLands
  <2>. QED BY <2>1, <2>2, <2>3 DEF Inv, TypeOK, ReadBeforeStored
<1>3. CASE UNCHANGED vars
  <2>1. SnapshotsOK' /\ OtbrOK'
    BY <1>3, SnapshotsUnchanged, OtbrUnchanged DEF vars, Inv, TypeOK
  <2>. QED BY <1>3, <2>1 DEF vars, Inv, TypeOK, ReadBeforeStored
<1>4. ASSUME NEW h \in Handlers, Change(h) \/ Refresh(h) \/ ReadCancelled(h) PROVE Inv'
  BY <1>4, ChangeInv, RefreshInv DEF Clients
<1>. QED BY <1>1, <1>2, <1>3, <1>4, ChooseInv DEF Next

(* Every value the monitor holds and shows is of its type: no failed       *)
(* reading is ever stored as data.                                         *)
THEOREM TypeCorrect == Spec => []TypeOK
<1>1. Inv => TypeOK
  BY DEF Inv
<1>. QED BY InitInv, NextInv, <1>1, PTL DEF Spec

-----------------------------------------------------------------------------
(* What is shown.                                                          *)

(* Which steps touch the overview, and where Run was before.               *)
LEMMA OverviewSteps ==
  ASSUME [Next]_vars
  PROVE  \/ \E c \in Clients : StoreOverview(c)
         \/ UNCHANGED <<overview, lastOnline>>
  BY DEF Next, Poll, Refresh, Sweep, ReadOverview, ReadCancelled, SkipSweep, PostSweep,
     SweepUnsupported, SweepFails, ReadDevices, StoreDevices, ReadTopology, StoreTopology,
     ReadCapabilities, StoreCapabilities, Choose, Change, Drift, ComeAndGo, SweepLands,
     snapshots, vars, Clients

LEMMA HonestPreserved == Inv /\ OverviewHonest /\ [Next]_vars => OverviewHonest'
<1> SUFFICES ASSUME Inv, OverviewHonest, [Next]_vars PROVE OverviewHonest'
  OBVIOUS
<1>1. ASSUME NEW c \in Clients, StoreOverview(c) PROVE OverviewHonest'
  <2>1. CASE got[c] = Failed
    <3>1. /\ overview'.status = "offline"
          /\ overview'.stale = overview.hasData
          /\ overview'.hasData = overview.hasData
          /\ overview'.shows = overview.shows
      BY <1>1, <2>1 DEF StoreOverview, OverviewFailed, Inv, TypeOK, SnapshotsOK
    <3>2. lastOnline' = FALSE
      BY <1>1, <2>1 DEF StoreOverview
    <3>. QED BY <3>1, <3>2 DEF OverviewHonest
  <2>2. CASE got[c] # Failed
    <3>1. overview' = OverviewRead(got[c]) /\ lastOnline' = TRUE
      BY <1>1, <2>2 DEF StoreOverview
    <3>2. got[c] \in Versions
      BY <1>1, <2>2 DEF StoreOverview, Inv, ReadBeforeStored
    <3>. QED BY <3>1, <3>2, Distinct DEF OverviewHonest, OverviewRead
  <2>. QED BY <2>1, <2>2
<1>2. CASE UNCHANGED <<overview, lastOnline>>
  BY <1>2 DEF OverviewHonest
<1>. QED BY <1>1, <1>2, OverviewSteps

(* Whoever refreshed the overview last, poller or request, what it says of *)
(* itself is true.                                                         *)
THEOREM Honest == Spec => []OverviewHonest
<1>1. Init => OverviewHonest
  BY DEF Init, OverviewHonest
<1>. QED BY InitInv, NextInv, HonestPreserved, <1>1, PTL DEF Spec

(* Run asks for the overview before anything else, and never sweeps until  *)
(* it has been stored.                                                     *)
StartsWithOverview ==
  overview.status = "connecting" => pc[Run] \in {"overview", "store overview"}

LEMMA StartPreserved == Inv /\ StartsWithOverview /\ [Next]_vars => StartsWithOverview'
<1> SUFFICES ASSUME Inv, StartsWithOverview, [Next]_vars, overview'.status = "connecting"
             PROVE  pc'[Run] \in {"overview", "store overview"}
  BY DEF StartsWithOverview
<1>1. ASSUME NEW c \in Clients, StoreOverview(c) PROVE FALSE
  <2>1. CASE got[c] = Failed
    BY <1>1, <2>1 DEF StoreOverview, OverviewFailed, Inv, TypeOK, SnapshotsOK
  <2>2. CASE got[c] # Failed
    BY <1>1, <2>2 DEF StoreOverview, OverviewRead
  <2>. QED BY <2>1, <2>2
<1>2. UNCHANGED overview
  BY <1>1, OverviewSteps
<1>3. pc[Run] \in {"overview", "store overview"}
  BY <1>2 DEF StartsWithOverview
<1>4. ASSUME NEW h \in Handlers, Change(h) \/ Refresh(h) \/ ReadCancelled(h)
      PROVE  pc'[Run] = pc[Run]
  BY <1>4, Distinct
  DEF Change, Refresh, ReadOverview, StoreOverview, ReadCancelled, Goto, Inv, TypeOK, Clients
<1>5. CASE Poll
  <2>1. ReadOverview(Run)
    BY <1>1, <1>3, <1>5
    DEF Poll, Refresh, Sweep, SkipSweep, PostSweep, SweepUnsupported, SweepFails, ReadDevices,
        StoreDevices, ReadTopology, StoreTopology, ReadCapabilities, StoreCapabilities, Clients
  <2>. QED BY <2>1 DEF ReadOverview, Goto, Inv, TypeOK, Clients
<1>6. ASSUME NEW t \in Timers, Choose(t) PROVE FALSE
  BY <1>3, <1>6 DEF Choose
<1>7. CASE Drift \/ ComeAndGo \/ SweepLands \/ UNCHANGED vars
  BY <1>3, <1>7 DEF Drift, ComeAndGo, SweepLands, vars
<1>. QED BY <1>3, <1>4, <1>5, <1>6, <1>7 DEF Next

(* A sweep goes out without the border router's own childTable only when   *)
(* the overview that would have named it could not be read.                *)
THEOREM SweepsInformed == Spec => SweepKnowsTheRouter
<1>1. Init => OverviewHonest /\ StartsWithOverview
  BY DEF Init, OverviewHonest, StartsWithOverview, Clients
<1>2. ASSUME Inv, OverviewHonest, StartsWithOverview, [Next]_vars,
             sweep' = "blind", sweep # "blind"
      PROVE  overview.status = "offline"
  <2>1. PostSweep
    BY <1>2
    DEF Next, Poll, Refresh, Sweep, ReadOverview, StoreOverview, ReadCancelled, SkipSweep,
        SweepUnsupported, SweepFails, ReadDevices, StoreDevices, ReadTopology, StoreTopology,
        ReadCapabilities, StoreCapabilities, Choose, Change, Drift, ComeAndGo, SweepLands,
        otbr, vars
  <2>2. ~overview.hasData /\ pc[Run] = "sweep"
    BY <1>2, <2>1 DEF PostSweep
  <2>3. overview.status # "connecting" /\ overview.status # "online"
    BY <1>2, <2>2 DEF StartsWithOverview, OverviewHonest
  <2>. QED BY <1>2, <2>3 DEF Inv, TypeOK, SnapshotsOK
<1>. QED
  BY InitInv, NextInv, HonestPreserved, StartPreserved, <1>1, <1>2, PTL
  DEF Spec, SweepKnowsTheRouter

(* The names of an available topology are those of the inventory shown,    *)
(* except while Run is between the two.                                    *)
NamedOutsideTurn ==
  pc[Run] \notin {"topology", "store topology"} /\ topology.status = "available"
    => topology.names = devices.shows

LEMMA NamedPreserved == Inv /\ NamedOutsideTurn /\ [Next]_vars => NamedOutsideTurn'
<1> SUFFICES ASSUME Inv, NamedOutsideTurn, [Next]_vars,
                    pc'[Run] \notin {"topology", "store topology"},
                    topology'.status = "available"
             PROVE  topology'.names = devices'.shows
  BY DEF NamedOutsideTurn
<1>1. CASE StoreTopology
  <2>1. CASE got[Run] = Failed
    BY <1>1, <2>1 DEF StoreTopology, Unavailable, Inv, TypeOK, SnapshotsOK
  <2>2. CASE got[Run] # Failed
    BY <1>1, <2>2 DEF StoreTopology
  <2>. QED BY <2>1, <2>2
<1>2. ~StoreDevices /\ ~ReadTopology
  <2>1. pc \in [Clients -> Places] /\ Run \in Clients
    BY DEF Inv, TypeOK, Clients
  <2>. QED BY <2>1 DEF StoreDevices, ReadTopology, Goto
<1>3. CASE ~StoreTopology
  <2>1. UNCHANGED <<devices, topology>>
    BY <1>2, <1>3
    DEF Next, Poll, Refresh, Sweep, ReadOverview, StoreOverview, ReadCancelled, SkipSweep,
        PostSweep, SweepUnsupported, SweepFails, ReadDevices, ReadCapabilities,
        StoreCapabilities, Choose, Change, Drift, ComeAndGo, SweepLands, snapshots, vars
  <2>2. pc[Run] \notin {"topology", "store topology"}
    <3>1. ASSUME NEW h \in Handlers, Change(h) \/ Refresh(h) \/ ReadCancelled(h)
          PROVE  pc'[Run] = pc[Run]
      BY <3>1, Distinct
      DEF Change, Refresh, ReadOverview, StoreOverview, ReadCancelled, Goto, Inv, TypeOK, Clients
    <3>. QED
      BY <1>2, <1>3, <3>1
      DEF Next, Poll, Refresh, Sweep, ReadOverview, StoreOverview, SkipSweep, PostSweep,
          SweepUnsupported, SweepFails, ReadDevices, ReadCapabilities, StoreCapabilities,
          Choose, Drift, ComeAndGo, SweepLands, vars
  <2>. QED BY <2>1, <2>2 DEF NamedOutsideTurn
<1>. QED BY <1>1, <1>3

(* The map and the device list, read between two turns of the loop, agree  *)
(* on what a device is called.                                             *)
THEOREM NamedAlike == Spec => []TopologyNamedFromInventory
<1>1. Init => NamedOutsideTurn
  <2>1. Init => topology.status = "connecting"
    BY DEF Init
  <2>. QED BY <2>1 DEF NamedOutsideTurn
<1>2. NamedOutsideTurn => TopologyNamedFromInventory
  BY DEF NamedOutsideTurn, TopologyNamedFromInventory
<1>. QED BY InitInv, NextInv, NamedPreserved, <1>1, <1>2, PTL DEF Spec
=============================================================================
