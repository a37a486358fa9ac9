---------------------------- MODULE MeshReading -----------------------------
(***************************************************************************)
(* How the monitor comes by its inventory and topology.  With the daemon   *)
(* socket it asks the mesh itself: one query for the routers, one for each *)
(* router's children, kept for a while, and a read of the local neighbour  *)
(* table on every call.  Without it, it reads two collections of OTBR,     *)
(* which change only when a sweep was posted to the routers it knows.      *)
(* Devices roam, join, leave and are promoted while it reads, and a parent *)
(* goes on listing a child that left it.                                   *)
(***************************************************************************)
EXTENDS MeshViews

CONSTANTS
  StructureTTL,  \* how long the answers of the routers are kept
  MaxAge,        \* bound: ages are not told apart beyond it
  FirstRoles,    \* which devices are routers and which children at first
  Swept,         \* whether another client's sweep has filled the collections
  MaxSlow,       \* bound: how long readings take, since the routers were asked
  MaxMoves,      \* bound on the changes of the mesh
  MaxFailures    \* bound on the commands and sweeps that fail

ASSUME ReadingAssumption ==
  /\ StructureTTL \in Nat \ {0}
  /\ MaxAge \in Nat /\ MaxAge >= StructureTTL
  /\ FirstRoles \subseteq {f \in [Devices -> {"router", "child"}] :
                      f[BorderRouter] = "router"}
  /\ Swept \subseteq BOOLEAN
  /\ MaxSlow \in Nat /\ MaxMoves \in Nat /\ MaxFailures \in Nat

VARIABLES
  role, parent,  \* the mesh: what each device is, and a child's parent
  listed,        \* listed[r]: the children in the table of router r
  age,           \* age[r][d]: how long ago r heard its child d, up to MaxAge
  moves, failures,
  socket,        \* whether the daemon socket is there
  tlv30,         \* whether the firmware answers TLV 30
  asked, records, entries,  \* OTBR: routers a sweep still has to ask, the
                            \* diagnostics and the device collection
  pc, call, todo, reading,  \* the reader: its step, the call it serves, the
                            \* routers still to be asked, what it has so far
  structure, structureAge,  \* the answers kept, and for how long
  live,                     \* the reading shared by both calls, or none: its
                            \* nodes and links, and how old each child is
  inventory, topology,      \* what the monitor serves
  steady,        \* history: devices that did not move since the last reading
                 \* of the structure began
  spent          \* history: the time that readings have taken since then

world == <<role, parent, listed, age, moves, steady>>
rest == <<asked, records, entries>>
cache == <<structure, structureAge>>
reader == <<pc, call, todo, reading, spent>>
served == <<inventory, topology>>
setup == <<socket, tlv30>>
vars == <<world, failures, setup, rest, cache, reader, live, served>>

None == [routers |-> {}, links |-> [d \in Devices |-> {}], children |-> << >>]
NoMesh == [nodes |-> {}, links |-> {}]
NoReading == [mesh |-> NoMesh, heard |-> {}]
Routers == {d \in Devices : role[d] = "router"}
Structures ==
  [routers : SUBSET Devices,
   links : [Devices -> SUBSET {Number[d] : d \in Devices}],
   children : UNION {[R -> UNION {[C -> 0..MaxAge] : C \in SUBSET Devices}] :
                     R \in SUBSET Devices}]
IsMesh(m) == \A n \in m.nodes : /\ n.role \in {"router", "child"}
                                /\ n.parent \in Devices \cup Rloc \cup {NoAddress}
                                /\ n.ext \in Devices \cup {NoAddress}

TypeOK ==
  /\ role \in [Devices -> {"router", "child", "away"}]
  /\ parent \in [Devices -> Devices \cup {NoAddress}]
  /\ listed \in [Devices -> SUBSET Devices]
  /\ age \in [Devices -> [Devices -> 0..MaxAge]]
  /\ moves \in 0..MaxMoves
  /\ failures \in 0..MaxFailures
  /\ socket \in BOOLEAN /\ tlv30 \in BOOLEAN
  /\ asked \subseteq Devices
  /\ pc \in {"idle", "call", "routers", "children", "local"}
  /\ call \in {"devices", "topology"}
  /\ todo \subseteq Devices /\ steady \subseteq Devices
  /\ reading \in Structures /\ structure \in Structures
  /\ structureAge \in 0..StructureTTL /\ spent \in 0..MaxSlow
  /\ IsMesh(topology)
  /\ IsMesh(live.mesh) /\ live.heard \subseteq [ext : Devices, age : 0..MaxAge]

(* OTBR: what router r answers to a diagnostic, its n-th record.            *)
Tables(r, n) ==
  [ext |-> r, rloc |-> RlocOf(Number[r]), number |-> Number[r], created |-> n,
   neighbors |-> Routers \ {r}, routes |-> {Number[s] : s \in Routers},
   childTable |-> {Number[d] : d \in listed[r]},
   children |-> IF tlv30 THEN {[number |-> Number[d], ext |-> d] : d \in listed[r]}
                ELSE {}]

(* OTBR: the devices that are there.                                       *)
Present ==
  {[id |-> d, ext |-> d, role |-> role[d],
    rloc |-> IF role[d] = "router" THEN RlocOf(Number[d])
             ELSE ChildRloc(RlocOf(Number[parent[d]]), Number[d])] :
   d \in {d \in Devices : role[d] # "away"}}

(* The border router is up; the others are routers, or its children.  With *)
(* the socket this process does not sweep, but another client may have.    *)
Init ==
  /\ role \in FirstRoles
  /\ parent = [d \in Devices |->
                 IF role[d] = "child" THEN BorderRouter ELSE NoAddress]
  /\ listed = [r \in Devices |-> {d \in Devices : parent[d] = r}]
  /\ age = [r \in Devices |-> [d \in Devices |-> 0]]
  /\ moves = 0 /\ failures = 0
  /\ socket \in BOOLEAN /\ tlv30 \in (IF socket THEN {TRUE} ELSE BOOLEAN)
  /\ asked = {}
  /\ \E swept \in IF socket THEN Swept ELSE {FALSE} :
       /\ records = IF swept THEN {Tables(r, 0) : r \in Routers} ELSE {}
       /\ entries = IF swept THEN Present ELSE {}
  /\ pc = "idle" /\ call = "devices" /\ todo = {} /\ reading = None
  /\ structure = None /\ structureAge = StructureTTL
  /\ live = NoReading
  /\ inventory = {} /\ topology = NoMesh
  /\ steady = {} /\ spent = 0

-----------------------------------------------------------------------------
(* The mesh, external to the program.                                      *)

Move(d) ==
  /\ moves < MaxMoves
  /\ moves' = moves + 1
  /\ steady' = steady \ {d}
  /\ UNCHANGED <<failures, setup, rest, cache, reader, live, served>>

(* A child that is new or roams attaches to a router; the table of its     *)
(* previous parent may keep it for a while.                                *)
Attach(d, r) ==
  /\ d # BorderRouter /\ role[d] # "router" /\ r \in Routers /\ parent[d] # r
  /\ Move(d)
  /\ role' = [role EXCEPT ![d] = "child"]
  /\ parent' = [parent EXCEPT ![d] = r]
  /\ \E kept \in SUBSET {d} :
       /\ listed' = [s \in Devices |-> IF s = r THEN listed[s] \cup {d}
                                       ELSE listed[s] \ ({d} \ kept)]
       /\ age' = [s \in Devices |-> IF s = r \/ kept = {}
                                    THEN [age[s] EXCEPT ![d] = 0] ELSE age[s]]

Depart(d) ==
  /\ role[d] = "child"
  /\ Move(d)
  /\ role' = [role EXCEPT ![d] = "away"]
  /\ parent' = [parent EXCEPT ![d] = NoAddress]
  /\ UNCHANGED <<listed, age>>

Promote(d) ==
  /\ role[d] = "child"
  /\ Move(d)
  /\ role' = [role EXCEPT ![d] = "router"]
  /\ parent' = [parent EXCEPT ![d] = NoAddress]
  /\ UNCHANGED <<listed, age>>

(* A parent drops a child that is no longer its own.                       *)
Expire(r, d) ==
  /\ d \in listed[r] /\ parent[d] # r
  /\ listed' = [listed EXCEPT ![r] = @ \ {d}]
  /\ age' = [age EXCEPT ![r][d] = 0]
  /\ UNCHANGED <<role, parent, moves, steady, failures, setup, rest, cache,
                 reader, live, served>>

(* A device polls its parent.  A router it has left does not hear it.      *)
Hear(d) ==
  /\ role[d] = "child" /\ age[parent[d]][d] > 0
  /\ age' = [age EXCEPT ![parent[d]][d] = 0]
  /\ UNCHANGED <<role, parent, listed, moves, steady, failures, setup,
                 rest, cache, reader, live, served>>

Older(n, bound) == IF n < bound THEN n + 1 ELSE n

InReading == pc \in {"routers", "children", "local"}

(* Some ten seconds pass, after which the reading is no longer shared, also*)
(* while a query waits for its answer or for the socket.  Only readings of *)
(* the mesh tell ages apart.                                               *)
Tick ==
  /\ socket
  /\ InReading => spent < MaxSlow
  /\ age' = [r \in Devices |-> [d \in Devices |->
               IF d \in listed[r] THEN Older(age[r][d], MaxAge) ELSE 0]]
  /\ structureAge' = Older(structureAge, StructureTTL)
  /\ spent' = IF InReading THEN spent + 1 ELSE spent
  /\ live' = NoReading
  /\ UNCHANGED <<role, parent, listed, moves, steady, failures, setup,
                 rest, structure, pc, call, todo, reading, served>>

-----------------------------------------------------------------------------
(* The sweep.                                                              *)

(* Defect: only the border router is asked for its children.               *)
BorderRouterOnly == {BorderRouter}

(* The border router and the routers of the last inventory.                *)
KnownRouters ==
  {BorderRouter} \cup
  ({d.ext : d \in {d \in inventory : d.role = "router"}} \ {NoAddress})

(* RefreshMesh posts nothing when the socket is there.                     *)
Sweep ==
  /\ pc = "idle" /\ ~socket /\ asked = {}
  /\ asked' = KnownRouters
  /\ UNCHANGED <<world, failures, setup, records, entries, cache, reader, live,
                 served>>

Records(r) == {x \in records : x.ext = r}

(* OTBR: a router answers the diagnostic, and the record is added.  One    *)
(* that says what the newest one of the router says stands for both.       *)
Answer(r) ==
  /\ r \in asked
  /\ asked' = asked \ {r}
  /\ LET n == Cardinality(Records(r))
     IN  records' = IF Tables(r, n - 1) \in records THEN records
                    ELSE records \cup {Tables(r, n)}
  /\ UNCHANGED <<world, failures, setup, entries, cache, reader, live, served>>

(* OTBR: the query gives up and writes no record.                          *)
Lose(r) ==
  /\ r \in asked /\ failures < MaxFailures
  /\ failures' = failures + 1
  /\ asked' = asked \ {r}
  /\ UNCHANGED <<world, setup, records, entries, cache, reader, live, served>>

(* OTBR: the device collection is brought up to date; it keeps the entries *)
(* of devices that departed.                                               *)
Collect ==
  /\ asked # {}
  /\ entries' = {e \in entries : role[e.ext] = "away"} \cup Present
  /\ UNCHANGED <<world, failures, setup, asked, records, cache, reader, live,
                 served>>

-----------------------------------------------------------------------------
(* The poll: the devices, then the topology.                               *)

(* The border router is in every inventory, listed or not.                 *)
MergeBorderRouter(devices) ==
  IF \E d \in devices : d.id = BorderRouter \/ d.ext = BorderRouter
  THEN devices
  ELSE devices \cup {[id |-> BorderRouter, role |-> "router", parent |-> NoAddress,
                      rloc |-> RlocOf(Number[BorderRouter]), ext |-> BorderRouter]}

(* The call returns, and the monitor stores what it was given.             *)
Return(devices, mesh) ==
  \/ /\ call = "devices"
     /\ inventory' = MergeBorderRouter(devices)
     /\ call' = "topology" /\ pc' = "call"
     /\ UNCHANGED topology
  \/ /\ call = "topology"
     /\ topology' = mesh
     /\ call' = "devices" /\ pc' = "idle"
     /\ UNCHANGED inventory

FromCollections == Return(DecodeDevices(entries), DecodeTopology(records))

Poll ==
  /\ pc = "idle"
  /\ pc' = "call"
  /\ UNCHANGED <<world, failures, setup, rest, cache, call, todo, reading, spent,
                 live, served>>

(* No socket: the collections are read as they are.                        *)
ReadCollections ==
  /\ pc = "call" /\ ~socket
  /\ FromCollections
  /\ UNCHANGED <<world, failures, setup, rest, cache, todo, reading, spent, live>>

(* The other call has just been answered: its reading is used again.       *)
ShareReading ==
  /\ pc = "call" /\ socket /\ live # NoReading
  /\ Return(live.mesh.nodes, live.mesh)
  /\ UNCHANGED <<world, failures, setup, rest, cache, todo, reading, spent, live>>

(* Defect: the structure is kept as long as there is one.                  *)
ReuseAnyStructure ==
  /\ pc = "call" /\ socket /\ live = NoReading
  /\ structure.routers # {}
  /\ pc' = "local"
  /\ UNCHANGED <<world, failures, setup, rest, cache, call, todo, reading, spent,
                 live, served>>

(* meshStructure: the answers kept are young enough.                       *)
ReuseStructure ==
  /\ pc = "call" /\ socket /\ live = NoReading
  /\ structure.routers # {} /\ structureAge < StructureTTL
  /\ pc' = "local"
  /\ UNCHANGED <<world, failures, setup, rest, cache, call, todo, reading, spent,
                 live, served>>

(* meshStructure: they are not, and the routers are asked.                 *)
ReadStructure ==
  /\ pc = "call" /\ socket /\ live = NoReading
  /\ structure.routers = {} \/ structureAge = StructureTTL
  /\ pc' = "routers"
  /\ steady' = Devices /\ spent' = 0
  /\ UNCHANGED <<role, parent, listed, age, moves, failures, setup, rest,
                 cache, call, todo, reading, live, served>>

(* One query asks every router who it is and which routers it has links    *)
(* to; those that do not answer in time are not in what it brings.         *)
QueryRouters ==
  /\ pc = "routers"
  /\ \E silent \in SUBSET (Routers \ {BorderRouter}) :
       /\ silent = {} \/ failures < MaxFailures
       /\ failures' = failures + (IF silent = {} THEN 0 ELSE 1)
       /\ reading' = [routers |-> Routers \ silent,
                      links |-> [r \in Devices |-> IF r \in Routers \ silent
                                 THEN {Number[s] : s \in Routers \ {r}} ELSE {}],
                      children |-> << >>]
       /\ todo' = Routers \ silent
  /\ pc' = "children"
  /\ UNCHANGED <<world, setup, rest, cache, call, spent, live, served>>

(* The query fails: nothing is kept, and the collections are read instead. *)
QueryRoutersFails ==
  /\ pc = "routers" /\ failures < MaxFailures
  /\ failures' = failures + 1
  /\ live' = NoReading
  /\ steady' = {}
  /\ FromCollections
  /\ UNCHANGED <<role, parent, listed, age, moves, setup, rest, cache,
                 todo, reading, spent>>

Asking(r) ==
  /\ pc = "children"
  /\ r \in todo /\ \A s \in todo : Number[r] <= Number[s]
  /\ todo' = todo \ {r}

(* The last router has answered or not: what there is is kept.             *)
Keep(sofar) ==
  IF todo' = {}
  THEN structure' = sofar /\ structureAge' = 0 /\ reading' = None /\ pc' = "local"
  ELSE reading' = sofar /\ UNCHANGED <<cache, pc>>

QueryChildren(r) ==
  /\ Asking(r)
  /\ Keep([reading EXCEPT !.children =
             [s \in DOMAIN @ \cup {r} |->
                IF s = r THEN [d \in listed[r] |-> age[r][d]] ELSE @[s]]])
  /\ UNCHANGED <<world, failures, setup, rest, call, spent, live, served>>

(* A router that does not answer costs its own children.                   *)
QueryChildrenFails(r) ==
  /\ Asking(r) /\ failures < MaxFailures
  /\ failures' = failures + 1
  /\ Keep(reading)
  /\ UNCHANGED <<world, setup, rest, call, spent, live, served>>

Neighbours == listed[BorderRouter] \cup (Routers \ {BorderRouter})

(* The local tables are read, and the reading is put together and shared;  *)
(* each of these reads is best effort.                                     *)
ReadLocal ==
  /\ pc = "local"
  /\ \E known \in {Neighbours} \cup (IF failures < MaxFailures THEN {{}} ELSE {}) :
       /\ failures' = failures + (IF known = {} /\ Neighbours # {} THEN 1 ELSE 0)
       /\ LET fresh == [d \in Devices |->
                         IF d \in known THEN age[BorderRouter][d] ELSE -1]
              mesh == MeshTopology(structure)
          IN  /\ live' = [mesh |-> mesh, heard |-> Heard(structure, fresh)]
              /\ Return(mesh.nodes, mesh)
  /\ UNCHANGED <<world, setup, rest, cache, todo, reading, spent>>

-----------------------------------------------------------------------------
Mesh ==
  \/ \E d, r \in Devices : Attach(d, r)
  \/ \E d \in Devices : Depart(d)
  \/ \E d \in Devices : Promote(d)
  \/ \E r, d \in Devices : Expire(r, d)
  \/ \E d \in Devices : Hear(d)
  \/ Tick

Otbr ==
  \/ \E r \in Devices : Answer(r)
  \/ \E r \in Devices : Lose(r)
  \/ Collect

Reader ==
  \/ ReadCollections
  \/ ShareReading
  \/ ReuseStructure
  \/ ReadStructure
  \/ QueryRouters
  \/ QueryRoutersFails
  \/ \E r \in Devices : QueryChildren(r)
  \/ \E r \in Devices : QueryChildrenFails(r)
  \/ ReadLocal

Next == Mesh \/ Otbr \/ Sweep \/ Poll \/ Reader

Spec == Init /\ [][Next]_vars

(* The goroutine goes on with the call it is in, its tickers are served,   *)
(* time passes, parents drop the children that left them, and OTBR answers *)
(* what it is asked.                                                       *)
FairSpec ==
  /\ Spec
  /\ WF_vars(Reader) /\ WF_vars(Poll) /\ SF_vars(Sweep) /\ SF_vars(Tick)
  /\ SF_vars(Collect)
  /\ WF_vars(\E r \in Devices : Answer(r))
  /\ WF_vars(\E r, d \in Devices : Expire(r, d))

-----------------------------------------------------------------------------
(* Properties.                                                             *)

Ids(nodes) == {n.id : n \in nodes}

(* Whichever source it was read from, the topology holds together: a link  *)
(* joins two nodes, a child's parent is a router of the same topology, and *)
(* a router is in it once (client.go:1014-1075, mesh.go:103-140).          *)
TopologyJoined ==
  /\ \A link \in topology.links : link \subseteq Ids(topology.nodes)
  /\ \A n \in topology.nodes :
       n.role = "child" => \E r \in topology.nodes : r.role = "router" /\ r.id = n.parent
  /\ \A m, n \in topology.nodes : m.role = "router" /\ n.role = "router" /\ m.id = n.id
                                  => m = n

(* What get_topology makes of it: every node is a router or a child of     *)
(* one router or, never, of none, and with the socket none is shown twice, *)
(* although a promoted router or a child that roamed may still be listed   *)
(* by its previous parent (mcpserver/server.go:557-617, mesh.go:144-165).  *)
PlacedOnce ==
  LET places == Clusters(topology.nodes)
  IN  /\ Unattached(topology.nodes) = {}
      /\ socket => \A id \in Ids(topology.nodes) :
           Cardinality({r \in DOMAIN places : r.id = id})
           + Cardinality({p \in (DOMAIN places) \X topology.nodes :
                            p[2].id = id /\ p[2] \in places[p[1]]}) = 1

(* A child that has not moved since the reading began, and whose parent    *)
(* answered, is in the reading, and once, even while another router still  *)
(* lists it (mesh.go:144-165).                                             *)
SteadyChildOnce ==
  \A d \in steady :
    /\ pc \notin {"routers", "children"}
    /\ role[d] = "child" /\ parent[d] \in DOMAIN structure.children
    => Cardinality({n \in MeshChildren(structure) : n.id = d}) = 1

(* How long ago a device was heard: by its parent, as a child.             *)
Silence(d) == IF role[d] = "child" THEN age[parent[d]][d] ELSE 0

(* What the monitor is given never says that a device was heard more than  *)
(* the life of the structure, and what the readings took, after it was,    *)
(* whichever table the age is from; of the border router's own children it *)
(* says exactly when, if the neighbour table could be read (mesh.go:32-34, *)
(* 146-153, 180-190, 219-228).                                             *)
AgesFollow ==
  [][live' # live =>
       \A h \in live'.heard :
         /\ Silence(h.ext) < h.age + StructureTTL + spent
         /\ failures' = failures /\ parent[h.ext] = BorderRouter
            => h.age = Silence(h.ext)]_vars

NodeOf(d) ==
  CASE role[d] = "router" -> [id |-> d, parent |-> NoAddress]
    [] role[d] = "child" -> [id |-> IF socket \/ tlv30 THEN d
                                    ELSE <<parent[d], Number[d]>>,
                             parent |-> parent[d]]

TopologyIsTheMesh ==
  {[id |-> n.id, parent |-> n.parent] : n \in topology.nodes} =
  {NodeOf(d) : d \in {d \in Devices : role[d] # "away"}}

(* Once the mesh has come to rest and nothing fails any more (both are     *)
(* bounded), the topology is the mesh and stays so: departed and roamed    *)
(* children are gone, new routers are found and asked, and a router that   *)
(* once did not answer has its children back (monitor.go:89-113,           *)
(* client.go:839-851, mesh.go:208).                                        *)
TopologyCatchesUp == <>[]TopologyIsTheMesh
=============================================================================
