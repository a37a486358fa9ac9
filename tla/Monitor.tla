------------------------------ MODULE Monitor ------------------------------
(***************************************************************************)
(* The poller of internal/service/monitor.go.  One goroutine, Run, reads   *)
(* the overview, the device inventory, the topology and the capabilities   *)
(* of OTBR on timers and keeps the last reading of each; control requests  *)
(* refresh the overview from their own goroutines (RefreshNow).  A refresh *)
(* reads OTBR first and takes Monitor.mu afterwards, only to store what it *)
(* has read, so it is two steps here.                                      *)
(*                                                                         *)
(* OTBR is external.  Its network is a version that only grows: a reading  *)
(* is the version it saw, and two readings agree when they saw the same.   *)
(* Its device and diagnostics collections are caches that a sweep fills.   *)
(***************************************************************************)
EXTENDS Naturals

CONSTANTS
  Run,         \* the polling goroutine
  Handlers,    \* control requests that refresh the overview
  MaxChanges,  \* bound: how often the network changes
  NoData,      \* nothing read yet
  Failed,      \* a reading that failed
  Setups,      \* the deployments: is OTBR's daemon socket there (live), does it
               \* fail at times (flaky), is the discovery interval positive,
               \* does OTBR have /api/actions?
  Faults       \* a subset of {"outage", "cancel"}

Versions == 0..MaxChanges

ASSUME MonitorConstants ==
  /\ Run \notin Handlers
  /\ MaxChanges \in Nat
  /\ NoData \notin Nat
  /\ Failed \notin Nat \cup {NoData}
  /\ Setups \subseteq [live : BOOLEAN, flaky : BOOLEAN, discovery : BOOLEAN, actions : BOOLEAN]

VARIABLES
  overview,      \* Monitor.overview
  lastOnline,    \* Monitor.lastOnline
  devices,       \* Monitor.devices
  topology,      \* Monitor.topology
  capabilities,  \* Monitor.capabilities: have they been probed?
  discoveryOff,  \* Monitor.discoveryOff
  pc,            \* pc[c]: where a goroutine is; handlers are "idle" between requests
  got,           \* got[c]: what the refresh under way in c has read
  started,       \* has Run reached its loop?
  version,       \* OTBR: the network
  reachable,     \* OTBR: does it answer?
  collection,    \* OTBR: the version its REST collections show
  sweep,         \* OTBR: the sweep under way, "blind" without the router's own childTable
  setup          \* the deployment; it does not change

snapshots == <<overview, lastOnline, devices, topology, capabilities>>
otbr == <<version, reachable, collection, sweep, setup>>
vars == <<snapshots, discoveryOff, pc, got, started, otbr>>

Clients == Handlers \cup {Run}
Timers == {"overview", "devices", "capabilities", "sweep"}

Places == {"idle", "select", "overview", "store overview", "sweep",
           "devices", "store devices", "topology", "store topology",
           "capabilities", "store capabilities"}

SnapshotsOK ==
  /\ overview \in [status : {"connecting", "online", "offline"}, stale : BOOLEAN,
                   hasData : BOOLEAN, shows : Versions \cup {NoData}]
  /\ lastOnline \in BOOLEAN
  /\ devices \in [status : {"connecting", "available", "unavailable"}, stale : BOOLEAN,
                  shows : Versions \cup {NoData}, mismatch : BOOLEAN]
  /\ topology \in [status : {"connecting", "available", "unavailable"}, stale : BOOLEAN,
                   shows : Versions \cup {NoData}, names : Versions \cup {NoData}]
  /\ capabilities \in {"none", "known"}

OtbrOK ==
  /\ version \in Versions
  /\ reachable \in BOOLEAN
  /\ collection \in Versions
  /\ sweep \in {"none", "blind", "full"}
  /\ setup \in Setups

TypeOK ==
  /\ SnapshotsOK
  /\ discoveryOff \in BOOLEAN
  /\ pc \in [Clients -> Places]
  /\ got \in [Clients -> Versions \cup {NoData, Failed}]
  /\ started \in BOOLEAN
  /\ OtbrOK

(* Defect: the first thing asked of OTBR is the sweep.                     *)
InitSweepsFirst ==
  /\ setup \in Setups
  /\ overview = [status |-> "connecting", stale |-> TRUE, hasData |-> FALSE, shows |-> NoData]
  /\ lastOnline = FALSE
  /\ devices = [status |-> "connecting", stale |-> FALSE, shows |-> NoData, mismatch |-> FALSE]
  /\ topology = [status |-> "connecting", stale |-> FALSE, shows |-> NoData, names |-> NoData]
  /\ capabilities = "none"
  /\ discoveryOff = ~setup.discovery
  /\ pc = [c \in Clients |-> IF c = Run THEN "sweep" ELSE "idle"]
  /\ got = [c \in Clients |-> NoData]
  /\ started = FALSE
  /\ version = 0
  /\ reachable \in BOOLEAN
  /\ collection = 0
  /\ sweep = "none"

Init ==
  /\ setup \in Setups
  /\ overview = [status |-> "connecting", stale |-> TRUE, hasData |-> FALSE, shows |-> NoData]
  /\ lastOnline = FALSE
  /\ devices = [status |-> "connecting", stale |-> FALSE, shows |-> NoData, mismatch |-> FALSE]
  /\ topology = [status |-> "connecting", stale |-> FALSE, shows |-> NoData, names |-> NoData]
  /\ capabilities = "none"
  /\ discoveryOff = ~setup.discovery
  /\ pc = [c \in Clients |-> IF c = Run THEN "overview" ELSE "idle"]
  /\ got = [c \in Clients |-> NoData]
  /\ started = FALSE
  /\ version = 0
  /\ reachable \in BOOLEAN
  /\ collection = 0
  /\ sweep = "none"

Goto(c, place) == pc' = [pc EXCEPT ![c] = place]

(* A request to OTBR fails when OTBR does not answer it.                   *)
Read(c, v) == got' = [got EXCEPT ![c] = IF reachable THEN v ELSE Failed]

-----------------------------------------------------------------------------
(* refreshOverview, in Run and in RefreshNow.                              *)

ReadOverview(c) ==
  /\ pc[c] = "overview"
  /\ Read(c, version)
  /\ Goto(c, "store overview")
  /\ UNCHANGED <<snapshots, discoveryOff, started, otbr>>

(* The caller of a control request has gone away: its context is cancelled *)
(* and the reading fails whatever OTBR does.                               *)
ReadCancelled(h) ==
  /\ "cancel" \in Faults
  /\ pc[h] = "overview"
  /\ got' = [got EXCEPT ![h] = Failed]
  /\ Goto(h, "store overview")
  /\ UNCHANGED <<snapshots, discoveryOff, started, otbr>>

OverviewRead(v) == [status |-> "online", stale |-> FALSE, hasData |-> TRUE, shows |-> v]

OverviewFailed == [overview EXCEPT !.status = "offline", !.stale = overview.hasData]

(* A handler then answers its request; Run goes on, at startup to a sweep. *)
AfterOverview(c) ==
  IF c \in Handlers THEN "idle" ELSE IF started THEN "select" ELSE "sweep"

(* Defect: a failure blanks the overview.                                  *)
StoreOverviewBlank(c) ==
  /\ pc[c] = "store overview"
  /\ overview' = IF got[c] = Failed
                   THEN [OverviewRead(NoData) EXCEPT !.status = "offline", !.stale = TRUE]
                   ELSE OverviewRead(got[c])
  /\ lastOnline' = (got[c] # Failed)
  /\ got' = [got EXCEPT ![c] = NoData]
  /\ Goto(c, AfterOverview(c))
  /\ UNCHANGED <<devices, topology, capabilities, discoveryOff, started, otbr>>

(* Defect: the error is not looked at.                                     *)
StoreOverviewUnchecked(c) ==
  /\ pc[c] = "store overview"
  /\ overview' = OverviewRead(got[c])
  /\ lastOnline' = TRUE
  /\ got' = [got EXCEPT ![c] = NoData]
  /\ Goto(c, AfterOverview(c))
  /\ UNCHANGED <<devices, topology, capabilities, discoveryOff, started, otbr>>

StoreOverview(c) ==
  /\ pc[c] = "store overview"
  /\ overview' = IF got[c] = Failed THEN OverviewFailed ELSE OverviewRead(got[c])
  /\ lastOnline' = (got[c] # Failed)
  /\ got' = [got EXCEPT ![c] = NoData]
  /\ Goto(c, AfterOverview(c))
  /\ UNCHANGED <<devices, topology, capabilities, discoveryOff, started, otbr>>

-----------------------------------------------------------------------------
(* refreshDeviceCollection: ask OTBR to sweep the mesh, unless that was    *)
(* found useless.  The sweep queries the routers known so far; the local   *)
(* one is known from the overview.                                         *)
AfterSweep == Goto(Run, IF started THEN "select" ELSE "devices")

(* With discovery off, or the live mesh to read, nothing is sent.          *)
SkipSweep ==
  /\ pc[Run] = "sweep"
  /\ discoveryOff \/ setup.live
  /\ AfterSweep
  /\ UNCHANGED <<snapshots, discoveryOff, got, started, otbr>>

PostSweep ==
  /\ pc[Run] = "sweep"
  /\ ~discoveryOff /\ ~setup.live /\ setup.actions /\ reachable
  /\ sweep' = IF overview.hasData THEN "full" ELSE "blind"
  /\ AfterSweep
  /\ UNCHANGED <<snapshots, discoveryOff, got, started, version, reachable, collection, setup>>

(* An OTBR without the endpoint is never asked again.                      *)
SweepUnsupported ==
  /\ pc[Run] = "sweep"
  /\ ~discoveryOff /\ ~setup.live /\ ~setup.actions /\ reachable
  /\ discoveryOff' = TRUE
  /\ AfterSweep
  /\ UNCHANGED <<snapshots, got, started, otbr>>

(* Any other failure is only logged: the next tick tries again.            *)
SweepFails ==
  /\ pc[Run] = "sweep"
  /\ ~discoveryOff /\ ~setup.live /\ ~reachable
  /\ AfterSweep
  /\ UNCHANGED <<snapshots, discoveryOff, got, started, otbr>>

-----------------------------------------------------------------------------
(* The mesh as the client reads it: from the socket or, without one or     *)
(* when it fails, from the collections.                                    *)
MeshReadings ==
  IF ~setup.live THEN {collection}
  ELSE IF setup.flaky THEN {version, collection} ELSE {version}

ReadDevices ==
  /\ pc[Run] = "devices"
  /\ \E v \in MeshReadings : Read(Run, v)
  /\ Goto(Run, "store devices")
  /\ UNCHANGED <<snapshots, discoveryOff, started, otbr>>

(* After a failure the last good reading stays, marked stale.              *)
Unavailable(reading) ==
  [reading EXCEPT !.status = "unavailable", !.stale = reading.shows # NoData]

(* The inventory is compared with the overview as it is by then; readings  *)
(* of different versions are taken to count different routers.             *)
DevicesRead(v) ==
  [status |-> "available", stale |-> FALSE, shows |-> v,
   mismatch |-> overview.hasData /\ overview.shows # v]

(* Defect: the topology waits for another turn of the loop.                *)
StoreDevicesAlone ==
  /\ pc[Run] = "store devices"
  /\ devices' = IF got[Run] = Failed
                  THEN Unavailable(devices)
                  ELSE DevicesRead(got[Run])
  /\ got' = [got EXCEPT ![Run] = NoData]
  /\ Goto(Run, IF started THEN "select" ELSE "topology")
  /\ UNCHANGED <<overview, lastOnline, topology, capabilities, discoveryOff, started, otbr>>

(* The topology is read next, in the same turn of the loop.                *)
StoreDevices ==
  /\ pc[Run] = "store devices"
  /\ devices' = IF got[Run] = Failed
                  THEN Unavailable(devices)
                  ELSE DevicesRead(got[Run])
  /\ got' = [got EXCEPT ![Run] = NoData]
  /\ Goto(Run, "topology")
  /\ UNCHANGED <<overview, lastOnline, topology, capabilities, discoveryOff, started, otbr>>

ReadTopology ==
  /\ pc[Run] = "topology"
  /\ \E v \in MeshReadings : Read(Run, v)
  /\ Goto(Run, "store topology")
  /\ UNCHANGED <<snapshots, discoveryOff, started, otbr>>

(* The nodes take their names from the inventory.                          *)
StoreTopology ==
  /\ pc[Run] = "store topology"
  /\ topology' = IF got[Run] = Failed
                   THEN Unavailable(topology)
                   ELSE [status |-> "available", stale |-> FALSE, shows |-> got[Run],
                         names |-> devices.shows]
  /\ got' = [got EXCEPT ![Run] = NoData]
  /\ Goto(Run, IF started THEN "select" ELSE "capabilities")
  /\ UNCHANGED <<overview, lastOnline, devices, capabilities, discoveryOff, started, otbr>>

ReadCapabilities ==
  /\ pc[Run] = "capabilities"
  /\ Read(Run, version)
  /\ Goto(Run, "store capabilities")
  /\ UNCHANGED <<snapshots, discoveryOff, started, otbr>>

(* A failure keeps the previous ones.  The loop starts after the first.    *)
StoreCapabilities ==
  /\ pc[Run] = "store capabilities"
  /\ capabilities' = IF got[Run] = Failed THEN capabilities ELSE "known"
  /\ got' = [got EXCEPT ![Run] = NoData]
  /\ started' = TRUE
  /\ Goto(Run, "select")
  /\ UNCHANGED <<overview, lastOnline, devices, topology, discoveryOff, otbr>>

-----------------------------------------------------------------------------
(* Defect: the loop leaves the overview to RefreshNow.                     *)
ChooseMeshOnly(t) ==
  /\ pc[Run] = "select"
  /\ t # "overview"
  /\ Goto(Run, t)
  /\ UNCHANGED <<snapshots, discoveryOff, got, started, otbr>>

(* Defect: the inventory is read only before the loop.                     *)
ChooseAllButMesh(t) ==
  /\ pc[Run] = "select"
  /\ t # "devices"
  /\ Goto(Run, t)
  /\ UNCHANGED <<snapshots, discoveryOff, got, started, otbr>>

(* The loop: a ticker that is due is chosen.  Time is not modelled, so any *)
(* may be due.  The inventory and the topology have one ticker.            *)
Choose(t) ==
  /\ pc[Run] = "select"
  /\ Goto(Run, t)
  /\ UNCHANGED <<snapshots, discoveryOff, got, started, otbr>>

-----------------------------------------------------------------------------
(* A control request has changed the network and calls RefreshNow.         *)
Change(h) ==
  /\ pc[h] = "idle"
  /\ reachable
  /\ version < MaxChanges
  /\ version' = version + 1
  /\ Goto(h, "overview")
  /\ UNCHANGED <<snapshots, discoveryOff, got, started, reachable, collection, sweep, setup>>

(* OTBR: the mesh changes by itself, the host goes away and comes back, a  *)
(* sweep lands in the collections.                                         *)
Drift ==
  /\ version < MaxChanges
  /\ version' = version + 1
  /\ UNCHANGED <<snapshots, discoveryOff, pc, got, started, reachable, collection, sweep, setup>>

ComeAndGo ==
  /\ "outage" \in Faults
  /\ reachable' = ~reachable
  /\ UNCHANGED <<snapshots, discoveryOff, pc, got, started, version, collection, sweep, setup>>

SweepLands ==
  /\ sweep # "none"
  /\ sweep' = "none"
  /\ collection' = version
  /\ UNCHANGED <<snapshots, discoveryOff, pc, got, started, version, reachable, setup>>

Sweep == SkipSweep \/ PostSweep \/ SweepUnsupported \/ SweepFails

Refresh(c) == ReadOverview(c) \/ StoreOverview(c)

Poll ==
  \/ Refresh(Run) \/ Sweep
  \/ ReadDevices \/ StoreDevices \/ ReadTopology \/ StoreTopology
  \/ ReadCapabilities \/ StoreCapabilities

Next ==
  \/ Poll
  \/ \E t \in Timers : Choose(t)
  \/ \E h \in Handlers : Change(h) \/ Refresh(h) \/ ReadCancelled(h)
  \/ Drift \/ ComeAndGo \/ SweepLands

Spec == Init /\ [][Next]_vars

(* Requests to OTBR time out, so every refresh ends; every ticker fires    *)
(* again and again, and select picks at random among the ready cases, so   *)
(* none is passed over for ever; a sweep that was posted lands.            *)
FairSpec ==
  /\ Spec
  /\ WF_vars(Poll)
  /\ \A h \in Handlers : WF_vars(Refresh(h))
  /\ \A t \in Timers : SF_vars(Choose(t))
  /\ WF_vars(SweepLands)

-----------------------------------------------------------------------------
(* Properties.                                                             *)

(* The overview is honest about itself whoever refreshed it last: "online" *)
(* is a reading that succeeded, "offline" with data is marked stale, and   *)
(* the log's idea of the connection agrees (README.md:36,                  *)
(* monitor_test.go:34-66).                                                 *)
OverviewHonest ==
  /\ lastOnline <=> overview.status = "online"
  /\ overview.status = "online" => overview.hasData /\ ~overview.stale
  /\ overview.status = "offline" => overview.stale = overview.hasData
  /\ overview.hasData <=> overview.shows # NoData

(* No sweep is posted without the border router's own childTable, unless   *)
(* the overview that would have named it was tried first and failed        *)
(* (monitor.go:149-152).                                                   *)
SweepKnowsTheRouter ==
  [][sweep' = "blind" /\ sweep # "blind" => overview.status = "offline"]_vars

(* Between two turns of the loop the nodes of an available topology carry  *)
(* the names of the inventory that is shown with it (monitor.go:343-352).  *)
TopologyNamedFromInventory ==
  pc[Run] = "select" /\ topology.status = "available" => topology.names = devices.shows

(* Once OTBR stays reachable and its network no longer changes, the        *)
(* overview becomes and stays current, whatever refreshes were under way.  *)
OverviewCatchesUp ==
  <>[]reachable => <>[](overview.status = "online" /\ overview.shows = version)

(* So does the inventory, from the socket or, where OTBR can do them, by   *)
(* sweeps, and it is no longer flagged as another network's (monitor.go    *)
(* 361-365).  Not with a socket that is there but fails: no sweep is then  *)
(* posted, and the collections read instead may be old for ever            *)
(* (otbr/client.go:863).                                                   *)
InventoryCatchesUp ==
  (IF setup.live THEN ~setup.flaky ELSE setup.discovery /\ setup.actions)
    /\ <>[]reachable
    => <>[](devices.shows = version /\ ~devices.stale /\ ~devices.mismatch)
=============================================================================
