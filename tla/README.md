# otbr-insight in TLA+

otbr-insight is a dashboard and control panel for an OpenThread border router
(OTBR). One Go process polls OTBR over REST, and over the daemon's socket where
that is available; it keeps the last readings, serves them over HTTP and MCP,
stores names for devices, and can form, join, restore and leave Thread
networks. These modules model the parts of it whose correctness depends on the
order of things: concurrent requests, a poller, failing calls, a restart.

Paths below are relative to `src/`; `internal/` holds all Go packages named.

## Inventory

| Component | State it keeps | Operations that change it | What is hard | What makes it correct |
|---|---|---|---|---|
| Network control: `internal/api/server.go` 330-480, `internal/otbr/network.go` | none of its own; OTBR's dataset and interface, `Client.controlMu` | form, join, join/tlv, restore, leave, state | concurrent requests, three writes per change that can each fail or be cut short, a backup taken outside the lock | a change is a unit; the dataset changes only while the interface is down; what a change replaces was backed up, unless another change came between; every request is answered |
| Dataset backup: `internal/backup/store.go` | one snapshot, in memory and in a file | Load, Save | file and pointer are two steps; crash between them | the restore point survives a restart and carries its own network's name |
| Monitor: `internal/service/monitor.go` | overview, devices, topology, capabilities, `lastOnline`, `discoveryOff` | poll, `RefreshNow` | OTBR is read before `Monitor.mu` is taken; a poll and a request's refresh overlap; callers that cancel | snapshots say truly whether they are current; they catch up; names on the map are the inventory's |
| Signal history: `internal/service/signal.go` | one trail of minute buckets per device | Record | gaps, the window's edge, a limit on trails, a clock set back | the trail is the log of the last window |
| Names: `internal/names/store.go` | map of labels, in memory and in a file | Load, Set, Delete | a crash or failed write between map and file; retries | an acknowledged label survives; readers see what the next process loads |
| OTBR client, overview and status: `internal/otbr/client.go`, `internal/otctl/status.go` | properties and status, each kept for 60 s; the lock of the status cache | Overview | five sources read one after the other, two caches, several callers, a change of network in between | a field is not older than the caches' lifetime; a new network is shown in the end |
| OTBR client, mesh and collections: `internal/otbr/client.go`, `internal/otctl/mesh.go` | the live mesh for 2 s, its structure for 30 s | Devices, Topology, RefreshMesh | routers that do not answer, devices that roam between two queries, old parents that still list them with an age of their own, queries that take their time, two sources | links join nodes that are there; a device is placed once; an age is not the one of a table that is gone; the mesh is caught up with |
| Daemon socket: `internal/otctl` | a mutex, no connection between commands | Execute | a lock taken without a deadline, a socket that is gone or denied | one command at a time; each caller gets its reply, or an error in time |
| Scans: `internal/otbr/energy.go`, `internal/otctl/scan.go`, `internal/otctl/energy.go` | none beyond one request | discovery passes, energy sweeps, REST action polling | cancelled or failing in the middle; two scans share the radio | what was heard is answered once; a fault is not hidden; measurements of two sources are not mixed; what is said of the noise follows from them |
| mDNS and Matter fabrics: `internal/mdns`, `internal/matter/fabrics.go` | goroutines and a channel for one browse | Browse | ending a browse with readers still running | every reader ends |
| Matter diagnostics: `internal/matter` (TLV) | none | decode | lengths at the end of the input | never reads past the end |
| MCP server: `internal/mcpserver` | none | reads; labels through the names store | finding a device by an ambiguous name, labels that change meanwhile | a name in an answer is of the request's time; a shown name stands for its device |
| HTTP read-only routes: `internal/api/server.go` | none | reads, overlays labels on snapshots | services shared with the monitor's snapshots and written without a lock | an overlay shows no other request's labels, and leaves nothing wrong behind |
| Startup, shutdown: `cmd/otbr-insight/main.go` | none | loads the stores, serves, stops within 8 s | a request cut short | stores are loaded before anything is served |
| Configuration, SRP parser, web interface | none that others rely on | - | - | - |

How they interact: a control handler calls the OTBR client (reads, then
`controlMu` and the writes), the backup store before it, and `Monitor.RefreshNow`
after it. The monitor calls the OTBR client from its one goroutine and records
the inventory in the signal history. HTTP and MCP handlers copy snapshots
under `Monitor.mu` and overlay labels from the names store. OTBR itself, the
mesh and the socket's daemon are outside the program and are modelled only by
what the code sees of them.

`PROJECT.json` lists every component with its status, and under `hazards` each
place that is hard to test with the properties that watch it.

## Modules

### Network control

`NetworkControl` has a slot for each concurrent request. `pc[r]` says where the
handler is; its locals are `op`, `target` and `creds`.

| Actions | Code |
|---|---|
| `Form`, `Join`, `JoinTLV`, `Leave`, `SetEnabled`, `Restore` | the routes of `registerControlRoutes`; `Restore` reads its TLV on arrival, before the backup |
| `ReadDataset`, `ReadTLV` | `Client.DatasetCredentials`: two separate GETs |
| `SaveFile`, `SavePointer`, `SaveFails` | `Store.Save`, in its two halves |
| `Reject` | validation in `FormNetwork` and its siblings, *after* the backup, as in the code |
| `Lock`, `Disable`, `PutDataset`, `Enable`, `DeleteDataset`, `SetState` | `applyDatasetRaw`, `LeaveNetwork`, `SetEnabled` under `controlMu` |
| `Finish` | `RefreshNow`, then the answer; the refresh itself is in `Monitor` |
| `Start`, `Crash` | `main`; a stop between any two steps |

A write succeeds, fails without effect, or takes effect with its answer lost;
the last two look the same to the handler, also when the cause is a client that
went away and cancelled the request's context. The history variable `base` is
what OTBR held when `controlMu` was last free.

The backup is taken outside `controlMu`, so another request may come between at
any step. The history variable `marred[r]` says what has happened to the backup of r:
"network", another request has changed the active dataset since its first read; "backup",
another has replaced the file or the restore point since it was written; "failed", there was a
dataset and it could not be read or written. The properties of backups hold for any number of
concurrent requests and any faults, and name with `marred` what they do not hold of.

`BackupStore` is the store; `NetworkControl` instantiates it and its handlers
take its steps. It has no specification of its own.

`AtomicNetworkChange` is what the API promises: a change happens in one step; it
is "done" only if it was made in full, and a failure leaves one of a few named
partial results (unchanged, interface down, new dataset with the interface
down, all made but not acknowledged). `NetworkControl` implements it with `net <- base`: nobody
else's change can be observed half way.

### Monitor

`Monitor` is the poller `Run` and the goroutines of control requests that call
`RefreshNow`. A refresh is two steps: the reading of OTBR, kept in `got[c]`, and
the storing under `Monitor.mu`. The network is abstracted to a version number; a
reading is the version it saw. `setup` is the deployment: with the daemon's
socket or not, with sweeps or not, with an OTBR that has `/api/actions` or not, with a socket
that is there but sometimes fails (`flaky`).
`collection` and `sweep` are OTBR's REST collections and the action that fills
them. The four tickers are `Choose(t)`.

### Names

`NamesStore`: `Set` and `Delete` change the map and take `Store.mu`; `Persist` or
`PersistFails` writes the file and releases it. `told[k]` is history: what the last
change of `k` was acknowledged to be, or `Unknown` when its caller got an error.
`LoadFails` is the unreadable file for which `main` only logs a warning; what
earlier processes acknowledged is then given up (`told` becomes `Unknown`), since
the first write replaces the file.

### Signal history

`SignalTrail.Record` is one action, like the critical section it models.
`Admissions` is the order in which new devices of one inventory take the slots
that are left, as the set of its outcomes. `SignalWindow` is the promise: for each device that has a
slot, one summary for each of the last `Window` minutes that heard it.
`SignalTrail` implements it.

### Mesh

`MeshDecoding` is pure: what the network diagnostics and the device collection
become (`decodeTopology`, `decodeDevices`), and what the answers of meshdiag
become. An extended address is a member of `Devices`, an RLOC16 the pair of its
router and child numbers. `MeshViews` is what the assistant's tools make of it: the parent
of a child, the routers with their children.

`MeshReading` is how the monitor comes by them. With the socket it asks the mesh:
`QueryRouters` is one query that brings the routers that answer in time and, of each, the numbers of
its peers (a peer that kept silent is a number without a router, which `MeshLinks` leaves out);
`QueryChildren` asks each router for its children; the structure is kept, and `ReadLocal`
reads the neighbour table on each call. A query that fails costs that router's children, or
falls back to the collections (`QueryRoutersFails`), which another client of OTBR may have
filled. Without the socket (`ReadCollections`) those two collections are read, which change only
after a `Sweep` of the routers `KnownRouters` knows of.

Meanwhile devices roam, join, leave and are promoted. `listed[r]`, the table of router r, still has
a child that left it until it expires, and `age[r][d]` is what that table says of d: a
router that is no longer the parent does not hear the child, and its age grows. Time
passes (`Tick`) at any step with the socket, during the queries too, since
`structureAge` starts only when the last one is over; `spent` is how long they have taken.

### Overview

`OverviewSources`: each caller (the poll, the refresh after a control request,
the energy scan) goes through `ReadApiNode`, `ReadNode`, the properties and the
commands of `status`, with `statusMu` held over its three commands, and `ReadDataset`. The
border router changes its network between any two steps. A field is represented by
the network it was true of: the channel, PAN ID and prefix (`Radio`), the name, which both
representations of the node tell, and the OMR address and border agent state, which `/node` leaves out; `gone[n]` is how long ago network n was left, up to
`TTL + 1`. `FetchProperties` is apart from `AttemptProperties` because the
code notes the attempt before it makes it: another caller then takes what is there.

### Scans

`Scans`: network and energy requests take the mutex of the socket for one
command at a time. A network scan makes its passes over the channels the daemon can be told
of, or asks for all of them at once where the firmware does not take a channel; it
merges, and falls back to the web service. An energy scan sweeps until its time is
over, or posts a REST action, polls it and reads its report. Clients cancel, the socket
goes and comes back or cannot be opened, commands and requests fail. A pause between
channels is only the request's own (`Resume`): another request may have the mutex in it.
`ChannelNoise` is pure: levels, median, ranking, grades and advice.

### Answers

`DeviceNames` is pure: the name shown for a device, and the device a text stands
for. `Answers` has a goroutine for each request of `GET /api/devices`,
`/api/topology`, `list_devices`, `get_topology`, `get_history` and
`set_device_name`: where it takes the inventory and where it takes the labels are
two steps, in the order of each handler. The inventories in use have a slot
each; a copy shares the services of its items, so `WriteWord` (the device route
writing the fabrics' names) changes what the monitor and other requests hold. A Go string is
two words, written one after the other without a lock: a name is the pair of
what each word was stored for.

MC modules hold the values TLC needs. `*Proofs` modules hold the theorems.
Definitions marked `Defect:` are wrong variants of the definition that follows
them; each property is shown to fail when its variant replaces the definition.

## What the runs check

| Run | Instance | Shows |
|---|---|---|
| `ControlPair` | 2 requests, 2 datasets, every fault and crash; 382 261 states | `WritesSerialized`, `DatasetReplacedOnlyWhileDown`, that the handlers implement `AtomicNetworkChange`, and of the backups `BackedUpBeforeChange`, `RestoreUndoable`, `BackupNamedAfterItsDataset`, `RestorePointDurable` |
| `ControlAnswered` | 2 requests, `FairSpec`, failing reads and writes | `EveryRequestAnswered` |
| `MonitorPoll` | the poller, 1 handler, 1 change, 4 deployments, outages and cancelled callers, `FairSpec`; 322 776 states | `OverviewHonest`, `SweepKnowsTheRouter`, `TopologyNamedFromInventory`, `OverviewCatchesUp`, `InventoryCatchesUp` |
| `MeshReading` | 3 devices, both sources, filled collections, with and without TLV 30, 1 move, 1 failure, 1 slow step, `FairSpec`; 277 577 states | `TopologyJoined`, `SteadyChildOnce`, `PlacedOnce`, `AgesFollow`, `TopologyCatchesUp` |
| `Overview` | 2 callers, 1 change of network, 1 failing read, caches of 2 ticks, `FairSpec`; 914 184 states | `OldOnlyWhileFetched`, `OverviewCatchesUp` |
| `Scans` | a network and an energy request, 2 channels, 2 networks, 2 readings, up to 3 sweeps, 1 outage, 1 fault, `FairSpec`; 719 445 states | `HeardOnce`, `NoiseSound`, `FaultsNotHidden`, `MeasuredOneWay`, `EveryScanAnswered` |
| `Answers` | a request of any kind and a `GET devices`, 3 devices, 1 fabric, 2 inventories, 1 change of a label, `FairSpec`; 106 194 states | `NamesOfTheRequest`, `ShownNameResolves`, `ServicesSettle` |
| `NamesDurable` | 2 writers, 3 keys, 2 labels, every fault | `LabelSurvives`, `DurableWhileDiskWorks` |
| `SignalHistory` | 2 devices, 1 slot, window 3, 8 minutes | `TrailShape`, `ImplementsWindow` |

Each run checks `TypeOK` of its module as well, but for `ControlAnswered`, which shares
its module with `ControlPair`.

Bounds. Two requests are enough for every pairwise overlap of handlers, and
the lock leaves nothing for a third to add; they change the network between each other's
two reads, and end their Saves in opposite orders. Two datasets and none tell the old network
from the new one and from the one of the restore point. One
change of the network lets a reading be older than it, and outages and
cancellation can come any number of times, as `reachable` is not counted. Three
keys tell the key being changed, the one whose write failed and a bystander
apart. A window of 3 in 8 minutes has gaps of 0, 1, the window, and more; two
devices for one slot make a device wait, be refused, and follow one that left.

Three devices are a border router, a second router and a child that may roam from
one to the other, or be promoted while the first still lists it; `FirstRoles`
are the two ways in which the second router can stand to the child by number, which decides whose
table is looked at first; `Swept` says that the collections are filled when the socket is
there. `MaxMoves` and `MaxFailures` bound the moves and the queries that fail or leave out
routers, and one of each can fall between any two steps of a reading; `MaxSlow` bounds the time that passes
during one reading of the structure, here to half of its life. Ages and the life of the structure are counted
to 2, so that a kept structure is young, at its limit and too old. The same is true of
`TTL` in `Overview`, where two callers are what it takes for one to read a
cache that the other is filling. Two channels, one of them in use and one reading that
misses a channel, give even, odd and missing samples; `MaxOutages` and `MaxFaults` let
the socket go once at any step and one thing fail. Two requests in `Answers` are one
that writes into the shared services and one of any kind that is disturbed by it;
`MaxInventories` is 2, so that a request may hold an inventory that the monitor
has replaced. Every poll finds the same mesh, in which a child has become a router, since names
do not depend on it; the theorem is about any readings. "Kitchen" is part of one
device's name at first and of two after a label has changed, so that a text may stand for a device
when one looks and for none a moment later. `MaxChanges`, `MaxMoves`, `MaxTime`, `MaxAge`, `MaxFailures`, `MaxFaults` and `MaxOutages`
are the bounds on things that grow.

The backup is best effort by design, and taken outside the lock: `BackedUpBeforeChange`,
`RestoreUndoable` and `BackupNamedAfterItsDataset` except a request whose backup failed or that another
one came between, as `marred` has it, and nothing else. `RestorePointDurable` excepts a Save that
publishes after another one has overtaken it, and a file that could not be loaded. What the
exceptions cost is in `ControlTwoChanges` below.

Fairness. `NetworkControl`: a handler that can step does (calls to OTBR have a
timeout, file calls return), and `Lock` is strongly fair because Go's mutex
switches to hand-off for a waiter that starves. A handler whose process has
stopped is gone. `Monitor`: a refresh that has started ends (same timeouts); each
ticker is strongly fair, since `select` picks among ready cases at random and a
ticker's channel keeps a tick until it is taken; a sweep OTBR accepted lands.
`MeshReading`: the goroutine goes on with the call it is in; its tickers for the poll and the
sweep are served as in `Monitor`; time passes; OTBR asks the routers of a sweep, and
parents drop the children that left them. Nothing is assumed of when a device polls its parent. `OverviewSources`: an overview that was begun
ends, time passes, and one caller, the poll, asks again and again. `Scans`: a
request that can step does, since commands and calls have deadlines and the
mutex is free after each; nothing makes OTBR complete an action.
`Answers`: the monitor polls, and a request that began is served. Nothing is
assumed of outages, of who asks, of devices or of the network. Liveness is
stated for an OTBR that stays reachable, and a mesh that rests, from some time on.

### Where the code does otherwise

Each of these runs checks one property, taken from the repository's own words, that the code
breaks.

| Run | What happens |
|---|---|
| `ControlTwoChanges` | the README says that every network change is preceded by a backup; of two changes at a time, with nothing failing, both may save the network of before, and the second replaces the first one's, which no backup holds (`internal/api/server.go:348`) |
| `ControlFailedRestore` | a restore first saves the current network over the restore point, then writes; if a write fails, the network to go back to is in neither place (`internal/api/server.go:377`) |
| `RenameRetried` | `set_device_name` is declared idempotent and takes a part of a name; sent again, the part may stand for one other device only, which is then renamed too (`internal/mcpserver/server.go:227`) |

Some behaviours that the models have, and that no document rules out clearly enough to
be called wrong:

- A poll that read before a change may store after the change's own refresh
  (`internal/service/monitor.go:246`): `OverviewCatchesUp` says that it does not
  last.
- A browser that goes away during a control request cancels the refresh, which
  is stored as "OTBR offline" until the next poll (`monitor.go:249`).
- With a socket file that exists but cannot be used no sweep is posted, and
  the collections that are read instead never change
  (`internal/otbr/client.go:863`): `InventoryCatchesUp` names this deployment as an exception.
- A Delete whose write failed is acknowledged when tried again, and the label is
  still on disk (`internal/names/store.go:126`).
- An overview that takes the properties while another caller fetches them may
  show older ones (`client.go:306-313`): `OldOnlyWhileFetched` names it.
- A child that leaves the border router for another parent may still be in its neighbour table,
  which is preferred for every child: the child is then said to have been silent since it
  moved (`internal/otctl/mesh.go:149-153`), until the entry expires. `AgesFollow` is about the other
  direction: no table makes a child look heard later than it was by more than the structure's life.
- The pause between two channels is made outside the mutex
  (`internal/otctl/scan.go:83-90`): when two scans are asked for together, one may use the radio in the
  pause of the other, and the absences that the README bounds add up. `Scans` has these
  steps and no property excludes them.
- The border agent's state comes from `/api/node` alone and may stay as old as that is
  (`client.go:241-257`): `OverviewCatchesUp` says of it only that it follows `/api/node`.
- `get_history` gives an event of a device without a label the name of the
  device that was asked for: `NamesOfTheRequest` names it.

## What is proved

TLAPS checks the following for every value of the constants, from the assumptions
named in the modules (`DistinctValues`, `MonitorConstants`, `NamesConstants`,
`SignalConstants`, `SourcesAssumption`, `NumberAssumption`, `ReadingAssumption`,
`BorderRouterAssumption`, `NamesAssumption`, `AnswersAssumption`, `ScansAssumption`:
the special values are no ordinary ones, sets that are counted are finite, the window
is not empty, no two devices have the same number, a reading gives some channels an
integer). Every safety property that a passing run checks is a theorem.

- `NetworkControlProofs`. The inductive invariant is `TypeOK`,
  `WritesSerialized` and `HandlerInvariant`. `WritesSerialized` alone is not inductive: that
  the dataset a handler puts is a valid one, and that only a leave reaches
  `delete`, are facts about its locals, which `HandlerInvariant` ties to `pc`. From it:
  `TypeCorrect`, `Serialized`, `ReplacedOnlyWhileDown` (a dataset changes only in
  `put` and `delete`, where the interface is down), and `Refines`: every step of a
  handler is a step of `AtomicNetworkChange` or leaves `base` and the requests'
  status alone.
  The second part is about backups, for any number of concurrent requests and any faults.
  `Knows(r)` says, at each place of a handler, what it has that `marred[r]` does not except: the
  dataset it read is still the active one, or the file still holds it and is the restore
  point. A step of a handler keeps what it knows itself, and what another one knows unless it mars
  it (`Bystander`). From it follow `NamedAfterItsDataset`, `RestorePointSurvives`,
  `ChangesAreBackedUp` and `RestoresCanBeUndone`, which differ from their runs only in the number of
  requests, datasets and faults.
- `MonitorProofs`. `TypeCorrect` rests on what `got` holds at each place: a failed
  reading never becomes data. `Honest` is inductive with it. `SweepsInformed`: before the loop
  starts, the goroutine reaches the sweep only after storing an
  overview. `NamedAlike`: from storing the inventory to storing the topology the
  goroutine does not return to its loop.
- `NamesStoreProofs`. `LabelsSurvive`: `LabelSurvives` with `LabelServed` (memory has the
  label too, unless it is the one being changed) is inductive under failing
  loads and writes and crashes. `ChangesSurvive`: while nothing has failed, memory and file
  differ at most in the key under change (`ChangeUnderWay`).
- `SignalTrailProofs`. `TypeCorrect` and `TrailsKeepTheirShape`: the invariant is that every
  trail is a window of consecutive minutes that heard its device; the lemmas say
  what `Advance` and `Add` do to such a trail, whatever the clock does.
  The second part proves `Refines`: `SignalTrail` implements `SignalWindow`, while the clock is
  not set back. Minutes are counted from the first bucket of a trail, so that a bucket's
  minute is a closed form of its place and no induction over the sequence is needed;
  `UpToDate` (every trail ends at the newest inventory) is the rest of the
  invariant. A step advances each trail, which forgets exactly what is out of the window,
  then admits devices, then adds what was heard.
- `MeshReadingProofs`. `Good` is what a topology satisfies whichever source it was read
  from; that both sources yield it is a pair of lemmas about `MeshDecoding`
  (`MeshIsGood`, `LocalIs`), whatever the records and answers say. The invariant keeps
  it of every topology that is held or shown (`Kept` for OTBR's collections), and adds what the
  mesh does meanwhile: `Attached` ties devices, parents and the tables that list them, and
  `Current` relates what is being read, and what is kept, to the mesh: which children
  must be in it by where the reader is, and by how much an age, of whichever table, can fall
  short of a child's silence. That `spent` is part of that bound is why it is in the property: the
  structure is as young as its last query, and its first answer is older. From it:
  `AlwaysJoined`, `EachPlacedOnce`, `SteadyChildIsThere`, `AgesAreFollowed`, for any number of
  devices that move, of routers that keep silent, of queries that fail and of ticks.
  `AlwaysJoined` rests on the peers being looked up among the routers that answered.
- `OverviewProofs`. `TypeCorrect` includes that the lock of the status cache is held
  exactly while its holder runs commands. `FieldsAreYoung`: the invariant bounds the age of
  each value by where it is (a cache that counts, what a caller has so
  far, what the holder of the lock was told), so that what a caller hands
  on is within the caches' lifetime.
- `AnswersProofs`. `TypeCorrect` and `NamesAreOfTheRequest`. Each request that is under way
  has the labels of the store among those of its time, and so are those it has
  taken (`OfItsTime`); names come from nowhere else, since the fabrics' names are read from the
  labels and not from the shared services. That a device is found rests on lemmas
  about `MeshDecoding` and `MeshViews`: an RLOC16 and a role identify a node, so a set of
  nodes that is not empty has a first one (`FirstIsOne`), and a text stands for a device or for
  none (`ResolvedIsDevice`). `ShownNamesResolve`: a text that is exactly the name or the address
  of one device is looked at first (`ExactIsFound`), and an RLOC16 is the
  address of one (`RlocOfOne`), so other names that contain it do not matter.
- `ScansProofs`. The invariant has, for each request, what is true where it is (`At`), that
  the lists of a pass and of the passes before it have no entry twice and hold between them all
  the daemon told of (`Listed`), that nothing is measured before the first command
  (`Unmeasured`), and that only a request that is done has an answer (`Answered`).
  `HeardIsAnswered`, `WebIsTheLastResort` and `MeasurementsAreKept` follow. For `NoiseIsSound` the invariant is that an answer is
  `Combine` of the sweeps (`NoiseOf`); the rest is about the operators of
  `ChannelNoise`. A sorted sequence puts each member at the place of its rank, the number
  of members before it. In a finite set with a strict order all ranks are different, and so are
  all the numbers below the size of the set (`RankIs`), hence the sequence is
  ascending and has all of them (`PlacesAre`), without induction. The median lies between the two
  levels in the middle (`MedianIs`), and an injection from places counts the
  levels on either side (`AtLeast`).

Only model-checked: everything that needs fairness (`EveryRequestAnswered`,
`InventoryCatchesUp`, both `OverviewCatchesUp`, `TopologyCatchesUp`,
`EveryScanAnswered`, `ServicesSettle`), which with ENABLED is outside what this prover
decides. No module here declares a recursive operator.

## Not modelled, and why

- A write that OTBR applies after its timeout, when the lock has been released: the
  code cannot know of it, and nothing could be promised then.
- The server's own deadlines (`cmd/otbr-insight/main.go:101`): a caller whose answer
  cannot be sent is the lost answer of `NetworkControl`.
- Normalisation of keys, labels and datasets; a bucket's mean, count and link
  quality; addresses, signal and the other attributes of a device; logging, wording and rendering.
- The framing of replies on the socket and the parsing of its tables: text, without
  other state than one connection.
- The mDNS browser: its goroutines live for one call, and what can happen is decided
  by the standard library's sockets. Grouping nodes into fabrics is a function of
  text.
- The Matter decoder and the SRP parser: pure functions of bytes and text without state,
  where tests over inputs say more than a model.
- The MCP tools and HTTP routes that render one snapshot or pass a call on, configuration
  and the web interface: they keep no state that changes.

## Plan

Done: backup store and network control with its atomic specification; monitor;
names; signal history with its window; mesh decoding and reading; overview;
scans; answers; the proofs above.

Left, in this order:

1. `Browse`: the readers of one mDNS browse, their channel and its end.
2. A delayed effect of a timed-out write in `NetworkControl`.
3. `Overview` composed with `Monitor`: the overview as fields, not as one version.
