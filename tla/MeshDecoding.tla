---------------------------- MODULE MeshDecoding ----------------------------
(***************************************************************************)
(* How otbr-insight turns what a Thread mesh reports into the inventory    *)
(* and the topology it serves: the network diagnostics and the device      *)
(* collection of the REST API (internal/otbr/client.go), and the tables of *)
(* meshdiag on the daemon socket (internal/otctl/mesh.go).                 *)
(*                                                                         *)
(* An extended address is a member of Devices.  An RLOC16 is the pair of   *)
(* the router number (its upper six bits) and the child number (the lower  *)
(* ten, zero for a router).                                                *)
(***************************************************************************)
EXTENDS Integers, FiniteSets

CONSTANTS
  Devices,    \* the extended addresses
  NoAddress,  \* an absent address
  Number      \* Number[d]: the router number of d as a router, its child
              \* number as a child; router numbers order the tables

ASSUME NumberAssumption ==
  /\ NoAddress \notin Devices
  /\ Number \in [Devices -> Nat \ {0}]
  /\ \A d, e \in Devices : Number[d] = Number[e] => d = e

Rloc == (Nat \X Nat)
RlocOf(number) == <<number, 0>>
ChildRloc(rloc, number) == <<rloc[1], number>>

-----------------------------------------------------------------------------
(* Network diagnostics.  A record is one router's answer to a sweep:       *)
(*   [ext, rloc, number, created, neighbors, routes, childTable, children] *)
(* neighbors are extended addresses, routes router numbers, childTable     *)
(* child numbers, children the pairs [number, ext] of TLV 30, which older  *)
(* firmware does not answer.                                               *)

Key(record) == IF record.ext # NoAddress THEN record.ext ELSE record.rloc

(* OTBR keeps a record for every answer: the newest of each router counts. *)
Latest(records) ==
  {r \in records : \A s \in records : Key(s) = Key(r) => s.created <= r.created}

RouterNode(record) ==
  [id |-> Key(record), role |-> "router", parent |-> NoAddress,
   rloc |-> record.rloc, ext |-> record.ext]

(* The router that a neighbour's address or a route's number stands for;   *)
(* either may name a router no record describes.                           *)
NamedBy(records, record) ==
  {Key(s) : s \in {s \in records : \/ s.ext \in record.neighbors \ {NoAddress}
                                   \/ s.number \in record.routes}}

(* Both ends report a link; it is listed once.                             *)
RouterLinks(records) ==
  UNION {{{Key(r), id} : id \in NamedBy(records, r) \ {Key(r)}} : r \in records}

(* childTable and children are two descriptions of the same children.      *)
ChildNumbers(record) == record.childTable \cup {c.number : c \in record.children}

(* A child is known by its extended address when TLV 30 brings it, and     *)
(* otherwise by its parent and its number.                                 *)
ChildNode(record, number) ==
  LET named == {c \in record.children : c.number = number /\ c.ext # NoAddress}
      ext == IF named = {} THEN NoAddress ELSE (CHOOSE c \in named : TRUE).ext
  IN  [id |-> IF ext # NoAddress THEN ext ELSE <<Key(record), number>>,
       role |-> "child", parent |-> Key(record),
       rloc |-> ChildRloc(record.rloc, number), ext |-> ext]

ChildNodes(records) ==
  UNION {{ChildNode(r, n) : n \in ChildNumbers(r)} : r \in records}

ChildLinks(children) == {{c.parent, c.id} : c \in children}

(* decodeTopology                                                          *)
DecodeTopology(collection) ==
  LET records == Latest(collection)
      children == ChildNodes(records)
  IN  [nodes |-> {RouterNode(r) : r \in records} \cup children,
       links |-> RouterLinks(records) \cup ChildLinks(children)]

(* decodeDevices: an entry without an id is known by its address, one with *)
(* neither is skipped.                                                     *)
DecodeDevices(entries) ==
  {[id |-> IF e.id # NoAddress THEN e.id ELSE e.ext,
    role |-> e.role, parent |-> NoAddress, rloc |-> e.rloc, ext |-> e.ext] :
   e \in {e \in entries : e.id # NoAddress \/ e.ext # NoAddress}}

-----------------------------------------------------------------------------
(* meshdiag.  structure.routers are the routers that answered "meshdiag    *)
(* topology", structure.links[r] the numbers of those that r says it has a *)
(* link to, structure.children[r] the children in the table of a router    *)
(* that answered, with how long ago each was heard; fresh[d] is the age of *)
(* d in the border router's own neighbour table, -1 when d is not in it.   *)

Listing(structure, d) ==
  {r \in DOMAIN structure.children : d \in DOMAIN structure.children[r]}

(* Defect: every router that still lists a child is its parent.            *)
EverySighting(structure, d) == Listing(structure, d)

(* A child that roamed is listed by its previous parent too: the first     *)
(* sighting counts.                                                        *)
FirstSighting(structure, d) ==
  {r \in Listing(structure, d) :
     \A s \in Listing(structure, d) : Number[r] <= Number[s]}

(* Defect: the neighbour table is used for children it does not hold.      *)
AgeWithoutTable(structure, fresh, r, d) == fresh[d]

(* The neighbour table is read on every call, and is preferred.            *)
AgeOf(structure, fresh, r, d) ==
  IF fresh[d] >= 0 THEN fresh[d] ELSE structure.children[r][d]

MeshRouters(structure) ==
  {[id |-> r, role |-> "router", parent |-> NoAddress,
    rloc |-> RlocOf(Number[r]), ext |-> r] : r \in structure.routers}

Sightings(structure) ==
  {s \in structure.routers \X Devices : s[1] \in FirstSighting(structure, s[2])}

MeshChildren(structure) ==
  {[id |-> s[2], role |-> "child", parent |-> s[1],
    rloc |-> ChildRloc(RlocOf(Number[s[1]]), Number[s[2]]), ext |-> s[2]] :
   s \in Sightings(structure)}

Peers(structure, r) == {s \in Devices \ {r} : Number[s] \in structure.links[r]}

(* Defect: a peer is linked to whether it answered or not.                 *)
LinksToAnyPeer(structure) ==
  UNION {{{r, s} : s \in Peers(structure, r)} : r \in structure.routers}

(* The adjacency, listed once however many of the ends report it.  A peer  *)
(* that did not answer itself is known by its number only, and left out.   *)
MeshLinks(structure) ==
  UNION {{{r, s} : s \in Peers(structure, r) \cap structure.routers} :
         r \in structure.routers}

(* Mesh: the same nodes for the topology and, as devices, the inventory.   *)
MeshTopology(structure) ==
  LET children == MeshChildren(structure)
  IN  [nodes |-> MeshRouters(structure) \cup children,
       links |-> MeshLinks(structure) \cup ChildLinks(children)]

Heard(structure, fresh) ==
  {[ext |-> s[2], age |-> AgeOf(structure, fresh, s[1], s[2])] :
   s \in Sightings(structure)}
=============================================================================
