-------------------------- MODULE MeshReadingProofs --------------------------
(***************************************************************************)
(* Proofs about the readings of the mesh, for any devices and numbers,     *)
(* however much they move and whatever fails.                              *)
(***************************************************************************)
EXTENDS MeshReading, WellFoundedInduction, FiniteSetTheorems, TLAPS

-----------------------------------------------------------------------------
(* What the sources hold, and what is made of it.                          *)

(* A record is the answer of a router.                                     *)
IsRecord(x) ==
  /\ x.ext \in Devices /\ x.rloc = RlocOf(Number[x.ext])
  /\ \A c \in x.children : c.ext \in Devices

(* A child is not taken for a router, and is there once.                   *)
Apart(m) ==
  /\ \A a, b \in m.nodes : a.role = "child" /\ b.role = "child" /\ a.id = b.id => a = b
  /\ \A n \in m.nodes : n.role = "child" => ~IsRouter(n)

(* What OTBR keeps; with the socket that is what one sweep has found.      *)
Kept ==
  /\ \A x \in records : IsRecord(x)
  /\ \A e \in entries : e.ext \in Devices
  /\ \A n \in inventory : n.ext \in Devices \cup {NoAddress}
  /\ socket => Apart(DecodeTopology(records)) /\ asked = {}

(* TopologyJoined, of any mesh.                                            *)
Joined(m) ==
  /\ \A link \in m.links : link \subseteq Ids(m.nodes)
  /\ \A n \in m.nodes :
       n.role = "child" => \E r \in m.nodes : r.role = "router" /\ r.id = n.parent
  /\ \A a, b \in m.nodes : a.role = "router" /\ b.role = "router" /\ a.id = b.id => a = b

(* What is kept is such a mesh when there is a socket.                     *)
Good(m, direct) == IsMesh(m) /\ Joined(m) /\ (direct => Apart(m))

LEMMA NoMeshIsGood == \A direct \in BOOLEAN : Good(NoMesh, direct)
  BY DEF Good, NoMesh, IsMesh, Joined, Apart, Ids

LEMMA RecordsAreNodes ==
  ASSUME NEW collection, \A x \in collection : IsRecord(x)
  PROVE  LET m == DecodeTopology(collection) IN IsMesh(m) /\ Joined(m)
<1> DEFINE R == Latest(collection)
           m == DecodeTopology(collection)
<1>1. \A r \in R : IsRecord(r) /\ Key(r) = r.ext /\ r.ext \in Devices
  BY NumberAssumption DEF Latest, Key, IsRecord
<1> HIDE DEF R
<1>2. /\ m.nodes = {RouterNode(r) : r \in R} \cup ChildNodes(R)
      /\ m.links = RouterLinks(R) \cup ChildLinks(ChildNodes(R))
  BY DEF DecodeTopology, R
<1> HIDE DEF m
<1>3. ASSUME NEW r \in R
      PROVE  /\ RouterNode(r) \in m.nodes /\ RouterNode(r).id = r.ext
             /\ RouterNode(r).role = "router" /\ RouterNode(r).parent = NoAddress
             /\ RouterNode(r).ext = r.ext
             /\ RouterNode(r).rloc = RlocOf(Number[r.ext])
  BY <1>1, <1>2 DEF RouterNode, IsRecord
<1>4. ASSUME NEW c \in ChildNodes(R)
      PROVE  /\ c.role = "child" /\ c.ext \in Devices \cup {NoAddress}
             /\ \E r \in R : c.parent = r.ext
  <2>1. PICK r \in R : \E n \in ChildNumbers(r) : c = ChildNode(r, n)
    BY DEF ChildNodes
  <2> PICK n \in ChildNumbers(r) : c = ChildNode(r, n)
    BY <2>1
  <2>2. c.role = "child" /\ c.parent = r.ext
    BY <1>1 DEF ChildNode
  <2>3. c.ext \in Devices \cup {NoAddress}
    <3> DEFINE named == {x \in r.children : x.number = n /\ x.ext # NoAddress}
    <3>1. c.ext = IF named = {} THEN NoAddress ELSE (CHOOSE x \in named : TRUE).ext
      BY DEF ChildNode
    <3>2. named # {} => (CHOOSE x \in named : TRUE) \in named
      OBVIOUS
    <3>3. named \subseteq r.children
      OBVIOUS
    <3> HIDE DEF named
    <3> QED BY <1>1, <3>1, <3>2, <3>3 DEF IsRecord
  <2> QED BY <2>2, <2>3
<1>5. ASSUME NEW r \in R PROVE r.ext \in Ids(m.nodes)
  BY <1>3 DEF Ids
<1>6. IsMesh(m)
  BY <1>1, <1>2, <1>3, <1>4 DEF IsMesh
<1>7. ASSUME NEW link \in m.links PROVE link \subseteq Ids(m.nodes)
  <2>1. CASE link \in RouterLinks(R)
    <3>1. PICK r \in R : \E id \in NamedBy(R, r) : link = {Key(r), id}
      BY <2>1 DEF RouterLinks
    <3> PICK id \in NamedBy(R, r) : link = {Key(r), id}
      BY <3>1
    <3>2. PICK s \in R : id = Key(s)
      BY DEF NamedBy
    <3> QED BY <1>1, <1>5, <3>2
  <2>2. CASE link \in ChildLinks(ChildNodes(R))
    <3>1. PICK c \in ChildNodes(R) : link = {c.parent, c.id}
      BY <2>2 DEF ChildLinks
    <3>2. PICK r \in R : c.parent = r.ext
      BY <1>4
    <3>3. c.id \in Ids(m.nodes)
      BY <1>2 DEF Ids
    <3> QED BY <1>5, <3>1, <3>2, <3>3
  <2> QED BY <1>2, <2>1, <2>2
<1>8. ASSUME NEW n \in m.nodes, n.role = "child"
      PROVE  \E r \in m.nodes : r.role = "router" /\ r.id = n.parent
  <2>1. n \in ChildNodes(R)
    BY <1>2, <1>3, <1>8
  <2>2. PICK r \in R : n.parent = r.ext
    BY <1>4, <2>1
  <2> QED BY <1>3, <2>2
<1>9. ASSUME NEW a \in m.nodes, NEW b \in m.nodes,
             a.role = "router", b.role = "router", a.id = b.id
      PROVE  a = b
  <2>1. PICK r \in R : a = RouterNode(r)
    BY <1>2, <1>4, <1>9
  <2>2. PICK s \in R : b = RouterNode(s)
    BY <1>2, <1>4, <1>9
  <2>3. r.ext = s.ext
    BY <1>3, <1>9, <2>1, <2>2
  <2>4. r.rloc = s.rloc /\ Key(r) = Key(s)
    BY <1>1, <2>3 DEF IsRecord
  <2> QED BY <2>1, <2>2, <2>3, <2>4 DEF RouterNode
<1> QED BY <1>6, <1>7, <1>8, <1>9 DEF Joined, m

-----------------------------------------------------------------------------
(* The tables of the routers.                                              *)

(* A table is asked of a router, and never lists the border router.        *)
OfRouters(s) ==
  /\ DOMAIN s.children \subseteq s.routers
  /\ \A r \in DOMAIN s.children : BorderRouter \notin DOMAIN s.children[r]

LEMMA StructureIs ==
  ASSUME NEW s \in Structures
  PROVE  /\ s.routers \subseteq Devices /\ DOMAIN s.children \subseteq Devices
         /\ \A r \in DOMAIN s.children :
              /\ DOMAIN s.children[r] \subseteq Devices
              /\ \A d \in DOMAIN s.children[r] : s.children[r][d] \in 0..MaxAge
<1>1. s.routers \subseteq Devices
  BY DEF Structures
<1>2. PICK R \in SUBSET Devices :
        s.children \in [R -> UNION {[C -> 0..MaxAge] : C \in SUBSET Devices}]
  BY DEF Structures
<1>3. ASSUME NEW r \in R
      PROVE  /\ DOMAIN s.children[r] \subseteq Devices
             /\ \A d \in DOMAIN s.children[r] : s.children[r][d] \in 0..MaxAge
  <2> DEFINE AllTables == UNION {[C -> 0..MaxAge] : C \in SUBSET Devices}
  <2>1. \A t \in AllTables : \E C \in SUBSET Devices : t \in [C -> 0..MaxAge]
    OBVIOUS
  <2> HIDE DEF AllTables
  <2>2. s.children[r] \in AllTables
    BY <1>2, <1>3 DEF AllTables
  <2>3. PICK C \in SUBSET Devices : s.children[r] \in [C -> 0..MaxAge]
    BY <2>1, <2>2
  <2> QED BY <2>3
<1> QED BY <1>1, <1>2, <1>3

(* A set of numbers has a smallest one.                                    *)
LEMMA Smallest ==
  ASSUME NEW T \in SUBSET Nat, T # {}
  PROVE  \E x \in T : \A y \in T : x <= y
<1> DEFINE Below == {p \in Nat \X Nat : p[1] < p[2]}
<1>1. IsWellFoundedOn(Below, Nat)
  BY NatLessThanWellFounded DEF OpToRel
<1> HIDE DEF Below
<1>2. PICK x \in T : \A y \in T : ~(<<y, x>> \in Below)
  BY <1>1, WFMin
<1>3. ASSUME NEW y \in T PROVE x <= y
  <2>1. x \in Nat /\ y \in Nat /\ ~(y < x)
    BY <1>2 DEF Below
  <2> QED BY <2>1
<1> QED BY <1>3

(* No two routers sight a child first, and one does if any lists it.       *)
LEMMA FirstSightingIsOne ==
  ASSUME NEW s \in Structures, NEW d \in Devices
  PROVE  /\ FirstSighting(s, d) \subseteq Listing(s, d)
         /\ Listing(s, d) \subseteq DOMAIN s.children
         /\ \A a, b \in FirstSighting(s, d) : a = b
         /\ Listing(s, d) # {} => FirstSighting(s, d) # {}
<1> DEFINE L == Listing(s, d)
<1>1. L \subseteq DOMAIN s.children /\ \A r \in L : r \in Devices /\ Number[r] \in Nat
  BY StructureIs, NumberAssumption DEF Listing
<1> HIDE DEF L
<1>2. FirstSighting(s, d) = {r \in L : \A q \in L : Number[r] <= Number[q]}
  BY DEF FirstSighting, L
<1>3. ASSUME NEW a \in FirstSighting(s, d), NEW b \in FirstSighting(s, d) PROVE a = b
  <2>1. a \in Devices /\ b \in Devices /\ Number[a] = Number[b]
    BY <1>1, <1>2
  <2> QED BY <2>1, NumberAssumption
<1>4. ASSUME L # {} PROVE FirstSighting(s, d) # {}
  <2> DEFINE T == {Number[r] : r \in L}
  <2>1. T \in SUBSET Nat /\ T # {}
    BY <1>1, <1>4
  <2>2. PICK x \in T : \A y \in T : x <= y
    BY <2>1, Smallest
  <2>3. PICK r \in L : x = Number[r]
    OBVIOUS
  <2>4. \A q \in L : Number[r] <= Number[q]
    BY <2>2, <2>3
  <2> QED BY <1>2, <2>4
<1> QED BY <1>1, <1>2, <1>3, <1>4 DEF L

LEMMA ChildrenAre ==
  ASSUME NEW s \in Structures, OfRouters(s)
  PROVE  /\ \A n \in MeshChildren(s) :
              /\ n.role = "child" /\ n.id = n.ext /\ n.ext \in Devices \ {BorderRouter}
              /\ n.parent \in FirstSighting(s, n.ext) /\ n.parent \in s.routers
              /\ n.rloc = <<Number[n.parent], Number[n.ext]>>
         /\ \A m, n \in MeshChildren(s) : m.id = n.id => m = n
         /\ \A d \in Devices : \A r \in FirstSighting(s, d) :
              r \in s.routers => \E n \in MeshChildren(s) : n.id = d
<1>1. \A p \in Sightings(s) :
        /\ p[1] \in s.routers /\ p[2] \in Devices /\ p[1] \in FirstSighting(s, p[2])
        /\ p[2] # BorderRouter /\ p = <<p[1], p[2]>>
  <2> TAKE p \in Sightings(s)
  <2>1. p[1] \in s.routers /\ p[2] \in Devices /\ p = <<p[1], p[2]>>
        /\ p[1] \in FirstSighting(s, p[2])
    BY DEF Sightings
  <2>2. p[1] \in DOMAIN s.children /\ p[2] \in DOMAIN s.children[p[1]]
    BY <2>1 DEF FirstSighting, Listing
  <2> QED BY <2>1, <2>2 DEF OfRouters
<1>2. ASSUME NEW n \in MeshChildren(s)
      PROVE  \E p \in Sightings(s) :
               n = [id |-> p[2], role |-> "child", parent |-> p[1],
                    rloc |-> <<Number[p[1]], Number[p[2]]>>, ext |-> p[2]]
  BY DEF MeshChildren, ChildRloc, RlocOf
<1>3. ASSUME NEW n \in MeshChildren(s)
      PROVE  /\ n.role = "child" /\ n.id = n.ext /\ n.ext \in Devices \ {BorderRouter}
             /\ n.parent \in FirstSighting(s, n.ext) /\ n.parent \in s.routers
             /\ n.rloc = <<Number[n.parent], Number[n.ext]>>
  <2>1. PICK p \in Sightings(s) :
               n = [id |-> p[2], role |-> "child", parent |-> p[1],
                    rloc |-> <<Number[p[1]], Number[p[2]]>>, ext |-> p[2]]
    BY <1>2
  <2> QED BY <1>1, <2>1
<1>4. ASSUME NEW m \in MeshChildren(s), NEW n \in MeshChildren(s), m.id = n.id
      PROVE  m = n
  <2>1. PICK p \in Sightings(s) :
               m = [id |-> p[2], role |-> "child", parent |-> p[1],
                    rloc |-> <<Number[p[1]], Number[p[2]]>>, ext |-> p[2]]
    BY <1>2
  <2>2. PICK q \in Sightings(s) :
               n = [id |-> q[2], role |-> "child", parent |-> q[1],
                    rloc |-> <<Number[q[1]], Number[q[2]]>>, ext |-> q[2]]
    BY <1>2
  <2>3. p[2] = q[2]
    BY <1>4, <2>1, <2>2
  <2>4. p[1] = q[1]
    BY <1>1, <2>3, FirstSightingIsOne
  <2> QED BY <2>1, <2>2, <2>3, <2>4
<1>5. ASSUME NEW d \in Devices, NEW r \in FirstSighting(s, d), r \in s.routers
      PROVE  \E n \in MeshChildren(s) : n.id = d
  <2>1. <<r, d>> \in Sightings(s)
    BY <1>5 DEF Sightings
  <2> DEFINE n == [id |-> d, role |-> "child", parent |-> r,
                   rloc |-> ChildRloc(RlocOf(Number[r]), Number[d]), ext |-> d]
  <2>2. <<r, d>>[1] = r /\ <<r, d>>[2] = d
    OBVIOUS
  <2>3. n \in MeshChildren(s) /\ n.id = d
    BY <2>1, <2>2 DEF MeshChildren
  <2> QED BY <2>3
<1> QED BY <1>3, <1>4, <1>5

LEMMA MeshIsGood ==
  ASSUME NEW s \in Structures, OfRouters(s)
  PROVE  LET m == MeshTopology(s)
         IN  /\ IsMesh(m) /\ Joined(m) /\ Apart(m)
             /\ \A n \in m.nodes : n.ext \in Devices
<1> DEFINE m == MeshTopology(s)
<1>1. /\ m.nodes = MeshRouters(s) \cup MeshChildren(s)
      /\ m.links = MeshLinks(s) \cup ChildLinks(MeshChildren(s))
  BY DEF MeshTopology
<1> HIDE DEF m
<1>2. \A n \in MeshRouters(s) :
        /\ n.role = "router" /\ n.id \in s.routers /\ n.ext = n.id
        /\ n = [id |-> n.id, role |-> "router", parent |-> NoAddress,
                rloc |-> RlocOf(Number[n.id]), ext |-> n.id]
  BY DEF MeshRouters
<1>3. s.routers \subseteq Devices
  BY StructureIs
<1>4. ASSUME NEW r \in s.routers PROVE \E n \in MeshRouters(s) : n.id = r
  <2> DEFINE n == [id |-> r, role |-> "router", parent |-> NoAddress,
                   rloc |-> RlocOf(Number[r]), ext |-> r]
  <2>1. n \in MeshRouters(s) /\ n.id = r
    BY DEF MeshRouters
  <2> QED BY <2>1
<1>5. \A r \in s.routers : r \in Ids(m.nodes)
  BY <1>1, <1>4 DEF Ids
<1>6. \A n \in MeshChildren(s) :
        /\ n.role = "child" /\ n.id = n.ext /\ n.ext \in Devices \ {BorderRouter}
        /\ n.parent \in s.routers /\ n.rloc = <<Number[n.parent], Number[n.ext]>>
  BY ChildrenAre
<1>7. IsMesh(m)
  BY <1>1, <1>2, <1>3, <1>6 DEF IsMesh
<1>8. ASSUME NEW link \in m.links PROVE link \subseteq Ids(m.nodes)
  <2>1. CASE link \in MeshLinks(s)
    BY <1>5, <2>1 DEF MeshLinks
  <2>2. CASE link \in ChildLinks(MeshChildren(s))
    <3>1. PICK c \in MeshChildren(s) : link = {c.parent, c.id}
      BY <2>2 DEF ChildLinks
    <3>2. c.id \in Ids(m.nodes)
      BY <1>1 DEF Ids
    <3> QED BY <1>5, <1>6, <3>1, <3>2
  <2> QED BY <1>1, <2>1, <2>2
<1>9. ASSUME NEW n \in m.nodes, n.role = "child"
      PROVE  \E r \in m.nodes : r.role = "router" /\ r.id = n.parent
  <2>1. n \in MeshChildren(s)
    BY <1>1, <1>2, <1>9
  <2> QED BY <1>1, <1>2, <1>4, <1>6, <2>1
<1>10. ASSUME NEW a \in m.nodes, NEW b \in m.nodes,
              a.role = "router", b.role = "router", a.id = b.id
       PROVE  a = b
  <2>1. a \in MeshRouters(s) /\ b \in MeshRouters(s)
    BY <1>1, <1>6, <1>10
  <2> QED BY <1>2, <1>10, <2>1
<1>11. ASSUME NEW a \in m.nodes, NEW b \in m.nodes,
              a.role = "child", b.role = "child", a.id = b.id
       PROVE  a = b
  <2>1. a \in MeshChildren(s) /\ b \in MeshChildren(s)
    BY <1>1, <1>2, <1>11
  <2> QED BY <1>11, <2>1, ChildrenAre
<1>12. ASSUME NEW n \in m.nodes, n.role = "child" PROVE ~IsRouter(n)
  <2>1. n \in MeshChildren(s)
    BY <1>1, <1>2, <1>12
  <2>2. n.rloc[2] = Number[n.ext] /\ n.ext # BorderRouter /\ n.ext \in Devices
    BY <1>6, <2>1
  <2>3. Number[n.ext] # 0
    BY <2>2, NumberAssumption
  <2> QED BY <1>12, <2>2, <2>3 DEF IsRouter
<1>13. \A n \in m.nodes : n.ext \in Devices
  BY <1>1, <1>2, <1>3, <1>6
<1> QED BY <1>7, <1>8, <1>9, <1>10, <1>11, <1>12, <1>13 DEF Joined, Apart, m

-----------------------------------------------------------------------------
(* The inductive invariant.                                                *)

(* The border router stays a router, and a child is in the table of its    *)
(* parent, whatever tables it may still be in.                             *)
Attached ==
  /\ role[BorderRouter] = "router"
  /\ \A r \in Devices : BorderRouter \notin listed[r]
  /\ \A d \in Devices : IF role[d] = "child"
                         THEN parent[d] \in Devices /\ d \in listed[parent[d]]
                         ELSE parent[d] = NoAddress

(* No table says that a device was heard more recently than its parent's.  *)
Aged ==
  \A r \in Devices : \A d \in listed[r] : Silence(d) <= age[r][d]

Silences == [d \in Devices |-> Silence(d)]

(* The tables of s have every child in S whose parent is in them.          *)
Complete(s, S, roles, parents) ==
  \A d \in S : roles[d] = "child" /\ parents[d] \in DOMAIN s.children
               => d \in DOMAIN s.children[parents[d]]

(* No device has been silent for more than n longer than the tables say.   *)
Young(s, silences, n) ==
  \A r \in DOMAIN s.children : \A d \in DOMAIN s.children[r] :
     silences[d] <= s.children[r][d] + n

(* What is being read and what is kept, by where the reader is.            *)
Current ==
  /\ OfRouters(reading) /\ OfRouters(structure)
  /\ pc = "children" => /\ todo \subseteq reading.routers
                        /\ Complete(reading, steady, role, parent)
                        /\ Young(reading, Silences, spent)
  /\ pc \notin {"routers", "children"} =>
       /\ Complete(structure, steady, role, parent)
       /\ structureAge < StructureTTL => Young(structure, Silences, structureAge + spent)
  /\ pc = "local" => Young(structure, Silences, StructureTTL - 1 + spent)
  /\ pc \in {"routers", "children"} => structureAge = StructureTTL \/ structure.routers = {}

Inv ==
  /\ TypeOK /\ Kept /\ Attached /\ Aged /\ Current
  /\ Good(topology, socket) /\ Good(live.mesh, socket)

LEMMA SilencesAre ==
  ASSUME TypeOK, Attached
  PROVE  /\ Silences \in [Devices -> 0..MaxAge]
         /\ \A d \in Devices : Silences[d] = Silence(d) /\ Silence(d) \in 0..MaxAge
<1>1. \A d \in Devices : Silence(d) \in 0..MaxAge
  BY ReadingAssumption DEF TypeOK, Attached, Silence
<1> QED BY <1>1 DEF Silences

LEMMA YoungFor ==
  ASSUME NEW s \in Structures, NEW silences \in [Devices -> 0..MaxAge], NEW n \in Nat,
         NEW others \in [Devices -> 0..MaxAge], NEW m \in Nat, NEW k \in Nat, n + k <= m,
         \A d \in Devices : others[d] <= silences[d] + k,
         Young(s, silences, n)
  PROVE  Young(s, others, m)
<1> SUFFICES ASSUME NEW r \in DOMAIN s.children, NEW d \in DOMAIN s.children[r]
             PROVE  others[d] <= s.children[r][d] + m
  BY DEF Young
<1>1. d \in Devices /\ s.children[r][d] \in 0..MaxAge
  BY StructureIs
<1>2. silences[d] \in 0..MaxAge /\ others[d] \in 0..MaxAge /\ others[d] <= silences[d] + k
  BY <1>1
<1>3. silences[d] <= s.children[r][d] + n
  BY DEF Young
<1> QED BY <1>1, <1>2, <1>3, ReadingAssumption

LEMMA NoneYoung ==
  ASSUME NEW s, OfRouters(s), s.routers = {}, NEW silences, NEW n
  PROVE  Young(s, silences, n)
BY DEF OfRouters, Young

LEMMA NoneIs ==
  None \in Structures /\ None.routers = {} /\ DOMAIN None.children = {}
<1>1. None.routers = {} /\ None.children = << >> /\ None.links = [d \in Devices |-> {}]
  BY DEF None
<1>2. DOMAIN << >> = {} /\ << >> = [x \in {} |-> 0]
  OBVIOUS
<1>3. << >> \in [{} -> UNION {[C -> 0..MaxAge] : C \in SUBSET Devices}]
  BY <1>2
<1>4. None = [routers |-> {}, links |-> [d \in Devices |-> {}], children |-> << >>]
  BY DEF None
<1>5. [d \in Devices |-> {}] \in [Devices -> SUBSET {Number[d] : d \in Devices}]
  OBVIOUS
<1> HIDE DEF None
<1>6. None \in Structures
  BY <1>3, <1>4, <1>5 DEF Structures
<1> QED BY <1>1, <1>2, <1>6

(* What a sweep has found when nothing had moved: the children of one      *)
(* router, the border router.                                              *)
LEMMA FirstRecords ==
  ASSUME Init
  PROVE  /\ \A x \in records : IsRecord(x)
         /\ socket => Apart(DecodeTopology(records))
<1> USE DEF Init
<1>1. /\ role \in [Devices -> {"router", "child"}] /\ role[BorderRouter] = "router"
      /\ \A d \in Devices : parent[d] = IF role[d] = "child" THEN BorderRouter ELSE NoAddress
      /\ \A r \in Devices : listed[r] = {d \in Devices : parent[d] = r}
  BY ReadingAssumption
<1>2. \A r \in Devices : \A d \in listed[r] :
        d \in Devices /\ r = BorderRouter /\ d # BorderRouter
  BY <1>1, BorderRouterAssumption, NumberAssumption
<1>3. ASSUME NEW x \in records
      PROVE  \E r \in Devices : x = Tables(r, 0)
  BY DEF Routers
<1>4. ASSUME NEW x \in records PROVE IsRecord(x)
  <2>1. PICK r \in Devices : x = Tables(r, 0)
    BY <1>3
  <2>2. x.ext = r /\ x.rloc = RlocOf(Number[r])
    BY <2>1 DEF Tables
  <2>3. x.children \subseteq {[number |-> Number[d], ext |-> d] : d \in listed[r]}
    BY <2>1 DEF Tables
  <2>4. \A c \in x.children : c.ext \in Devices
    BY <1>2, <2>3
  <2> QED BY <2>2, <2>4 DEF IsRecord
<1>5. ASSUME socket PROVE Apart(DecodeTopology(records))
  <2> DEFINE R == Latest(records)
             m == DecodeTopology(records)
  <2>1. R \subseteq records /\ m.nodes = {RouterNode(r) : r \in R} \cup ChildNodes(R)
    BY DEF Latest, DecodeTopology
  <2>2. \A r \in R : RouterNode(r).role = "router"
    BY DEF RouterNode
  <2> HIDE DEF R, m
  <2>3. ASSUME NEW c \in ChildNodes(R)
        PROVE  \E d \in Devices \ {BorderRouter} :
                 c = [id |-> d, role |-> "child", parent |-> BorderRouter,
                      rloc |-> <<Number[BorderRouter], Number[d]>>, ext |-> d]
    <3>1. PICK x \in R : \E n \in ChildNumbers(x) : c = ChildNode(x, n)
      BY DEF ChildNodes
    <3>2. PICK n \in ChildNumbers(x) : c = ChildNode(x, n)
      BY <3>1
    <3>3. PICK r \in Devices : x = Tables(r, 0)
      BY <1>3, <2>1
    <3>4. tlv30 = TRUE
      BY <1>5
    <3>5. /\ x.ext = r /\ x.rloc = <<Number[r], 0>>
          /\ x.childTable = {Number[d] : d \in listed[r]}
          /\ x.children = {[number |-> Number[d], ext |-> d] : d \in listed[r]}
      BY <3>3, <3>4 DEF Tables, RlocOf
    <3>6. PICK d \in listed[r] : n = Number[d]
      <4>1. n \in x.childTable \cup {y.number : y \in x.children}
        BY <3>2 DEF ChildNumbers
      <4>2. ASSUME NEW y \in x.children PROVE \E d \in listed[r] : y.number = Number[d]
        <5>1. PICK d \in listed[r] : y = [number |-> Number[d], ext |-> d]
          BY <3>5
        <5> QED BY <5>1
      <4>3. \A k \in x.childTable : \E d \in listed[r] : k = Number[d]
        BY <3>5
      <4> QED BY <4>1, <4>2, <4>3
    <3>7. d \in Devices /\ r = BorderRouter /\ d # BorderRouter /\ d # NoAddress
          /\ listed[r] \subseteq Devices
      BY <1>2, NumberAssumption
    <3> DEFINE named == {y \in x.children : y.number = n /\ y.ext # NoAddress}
    <3>8. named # {} /\ \A y \in named : y.ext = d
      <4>1. [number |-> Number[d], ext |-> d] \in named
        BY <3>5, <3>6, <3>7
      <4>2. ASSUME NEW y \in named PROVE y.ext = d
        <5>1. PICK e \in listed[r] : y = [number |-> Number[e], ext |-> e]
          BY <3>5
        <5>2. Number[e] = Number[d] /\ e \in Devices
          BY <3>6, <3>7, <5>1
        <5> QED BY <3>7, <5>1, <5>2, NumberAssumption
      <4> QED BY <4>1, <4>2
    <3>9. (CHOOSE y \in named : TRUE).ext = d
      <4>1. (CHOOSE y \in named : TRUE) \in named
        BY <3>8
      <4> QED BY <3>8, <4>1
    <3>10. Key(x) = r
      BY <3>5, <3>7, NumberAssumption DEF Key
    <3>11. ChildRloc(x.rloc, n) = <<Number[r], Number[d]>>
      BY <3>5, <3>6 DEF ChildRloc
    <3>12. c = [id |-> d, role |-> "child", parent |-> r,
                rloc |-> ChildRloc(x.rloc, n), ext |-> d]
      BY <3>2, <3>7, <3>8, <3>9, <3>10 DEF ChildNode
    <3> QED BY <3>7, <3>11, <3>12
  <2>4. ASSUME NEW a \in m.nodes, NEW b \in m.nodes,
               a.role = "child", b.role = "child", a.id = b.id
        PROVE  a = b
    <3>1. a \in ChildNodes(R) /\ b \in ChildNodes(R)
      BY <2>1, <2>2, <2>4
    <3> QED BY <2>3, <2>4, <3>1
  <2>5. ASSUME NEW n \in m.nodes, n.role = "child" PROVE ~IsRouter(n)
    <3>1. n \in ChildNodes(R)
      BY <2>1, <2>2, <2>5
    <3>2. PICK d \in Devices \ {BorderRouter} :
            n = [id |-> d, role |-> "child", parent |-> BorderRouter,
                 rloc |-> <<Number[BorderRouter], Number[d]>>, ext |-> d]
      BY <2>3, <3>1
    <3>3. n.ext # BorderRouter /\ n.rloc[2] = Number[d] /\ Number[d] # 0
      BY <3>2, NumberAssumption
    <3> QED BY <2>5, <3>3 DEF IsRouter
  <2> QED BY <2>4, <2>5 DEF Apart, m
<1> QED BY <1>4, <1>5

LEMMA InitInv == Init => Inv
<1> SUFFICES ASSUME Init PROVE Inv
  OBVIOUS
<1> USE DEF Init
<1>1. role \in [Devices -> {"router", "child"}] /\ role[BorderRouter] = "router"
  BY ReadingAssumption
<1>2. /\ parent \in [Devices -> Devices \cup {NoAddress}]
      /\ \A d \in Devices : parent[d] = IF role[d] = "child" THEN BorderRouter ELSE NoAddress
  BY BorderRouterAssumption
<1>3. listed \in [Devices -> SUBSET Devices]
  OBVIOUS
<1>4. TypeOK
  <2>1. live.mesh = NoMesh /\ live.heard = {}
    BY DEF NoReading
  <2>2. structureAge \in 0..StructureTTL /\ 0 \in 0..MaxAge /\ 0 \in 0..MaxMoves
        /\ 0 \in 0..MaxFailures /\ 0 \in 0..MaxSlow
    BY ReadingAssumption
  <2>3. IsMesh(NoMesh)
    BY NoMeshIsGood DEF Good
  <2>4. age \in [Devices -> [Devices -> 0..MaxAge]]
    BY <2>2
  <2>5. role \in [Devices -> {"router", "child", "away"}]
    BY <1>1
  <2>6. tlv30 \in BOOLEAN /\ socket \in BOOLEAN
    OBVIOUS
  <2> QED BY <1>2, <1>3, <2>1, <2>2, <2>3, <2>4, <2>5, <2>6, NoneIs DEF TypeOK
<1>5. Kept
  <2>1. \A e \in entries : e.ext \in Devices
    BY DEF Present
  <2>2. (\A x \in records : IsRecord(x)) /\ (socket => Apart(DecodeTopology(records)))
    BY FirstRecords
  <2>3. inventory = {} /\ asked = {}
    OBVIOUS
  <2> QED BY <2>1, <2>2, <2>3 DEF Kept
<1>6. Attached /\ Aged
  <2>1. Attached
    BY <1>1, <1>2, BorderRouterAssumption, NumberAssumption DEF Attached
  <2>2. \A r, d \in Devices : age[r][d] = 0
    OBVIOUS
  <2>3. \A d \in Devices : Silence(d) = 0
    BY <1>2, <2>2, BorderRouterAssumption DEF Silence
  <2>4. \A r \in Devices : listed[r] \subseteq Devices
    BY <1>3
  <2> QED BY <2>1, <2>2, <2>3, <2>4 DEF Aged
<1>7. Current
  <2>1. OfRouters(None)
    BY NoneIs DEF OfRouters
  <2>2. Complete(structure, steady, role, parent)
    BY DEF Complete
  <2>3. ~(structureAge < StructureTTL)
    BY ReadingAssumption
  <2>4. pc = "idle" /\ reading = None /\ structure = None
    OBVIOUS
  <2> QED BY <2>1, <2>2, <2>3, <2>4 DEF Current
<1>8. Good(topology, socket) /\ Good(live.mesh, socket)
  BY NoMeshIsGood DEF NoReading
<1> QED BY <1>4, <1>5, <1>6, <1>7, <1>8 DEF Inv

-----------------------------------------------------------------------------
(* The steps.  What a step leaves of the invariant when it does not touch  *)
(* what a part of it is about.                                             *)

(* No device is silent for longer than it was.                             *)
Sooner == \A d \in Devices : Silence(d)' <= Silence(d)

LEMMA CurrentStays ==
  ASSUME TypeOK, Attached, Current, TypeOK', Attached', Sooner,
         UNCHANGED <<pc, reading, todo, structure, structureAge, spent>>,
         \A d \in steady' : d \in steady /\ role'[d] = role[d] /\ parent'[d] = parent[d]
  PROVE  Current'
<1>1. ASSUME NEW s, Complete(s, steady, role, parent)
      PROVE  Complete(s, steady', role', parent')
  BY <1>1 DEF Complete
<1> DEFINE now == Silences
           next == Silences'
<1>2. /\ now \in [Devices -> 0..MaxAge] /\ next \in [Devices -> 0..MaxAge]
      /\ \A d \in Devices : next[d] <= now[d] + 0
  <2>1. /\ Silences \in [Devices -> 0..MaxAge]
        /\ \A d \in Devices : Silences[d] = Silence(d) /\ Silence(d) \in 0..MaxAge
    BY SilencesAre
  <2>2. \A d \in Devices : Silence(d)' \in 0..MaxAge
    BY ReadingAssumption DEF TypeOK, Attached, Silence
  <2>3. Silences' \in [Devices -> 0..MaxAge] /\ \A d \in Devices : Silences'[d] = Silence(d)'
    BY <2>2 DEF Silences
  <2>4. \A d \in Devices : Silence(d)' <= Silence(d) + 0
    BY <2>1, <2>2, ReadingAssumption DEF Sooner
  <2> QED BY <2>1, <2>3, <2>4
<1> HIDE DEF now, next
<1>3. ASSUME NEW s \in Structures, NEW n \in Nat, Young(s, now, n)
      PROVE  Young(s, next, n)
  <2>1. 0 \in Nat /\ n + 0 <= n
    OBVIOUS
  <2> QED BY <1>2, <1>3, <2>1, YoungFor
<1>4. /\ reading \in Structures /\ structure \in Structures /\ spent \in Nat
      /\ structureAge + spent \in Nat /\ StructureTTL - 1 + spent \in Nat
  BY ReadingAssumption DEF TypeOK
<1>5. OfRouters(reading') /\ OfRouters(structure')
  BY DEF Current
<1>6. pc' = "children" => /\ todo' \subseteq reading'.routers
                          /\ Complete(reading', steady', role', parent')
                          /\ Young(reading', next, spent')
  BY <1>1, <1>3, <1>4 DEF Current, now
<1>7. pc' \notin {"routers", "children"} =>
        /\ Complete(structure', steady', role', parent')
        /\ structureAge' < StructureTTL => Young(structure', next, structureAge' + spent')
  BY <1>1, <1>3, <1>4 DEF Current, now
<1>8. pc' = "local" => Young(structure', next, StructureTTL - 1 + spent')
  BY <1>3, <1>4 DEF Current, now
<1>9. pc' \in {"routers", "children"} => structureAge' = StructureTTL \/ structure'.routers = {}
  BY DEF Current
<1> QED BY <1>5, <1>6, <1>7, <1>8, <1>9 DEF Current, next

LEMMA Moved ==
  ASSUME Inv, NEW d \in Devices, Move(d),
         \E what \in {"child", "router", "away"} : role' = [role EXCEPT ![d] = what],
         \E where \in Devices \cup {NoAddress} : parent' = [parent EXCEPT ![d] = where],
         listed' \in [Devices -> SUBSET Devices],
         age' \in [Devices -> [Devices -> 0..MaxAge]], Attached', Aged', Sooner
  PROVE  Inv'
<1> USE DEF Inv, Move
<1>1. /\ role' \in [Devices -> {"router", "child", "away"}]
      /\ parent' \in [Devices -> Devices \cup {NoAddress}]
      /\ moves' \in 0..MaxMoves /\ steady' \subseteq Devices
  BY ReadingAssumption DEF TypeOK
<1>2. /\ UNCHANGED <<failures, socket, tlv30, asked, records, entries, structure,
                     structureAge, pc, call, todo, reading, spent, live, inventory, topology>>
  BY DEF setup, rest, cache, reader, served
<1>3. TypeOK'
  BY <1>1, <1>2 DEF TypeOK
<1>4. \A e \in steady' : e \in steady /\ role'[e] = role[e] /\ parent'[e] = parent[e]
  BY DEF TypeOK
<1>5. Current'
  BY <1>2, <1>3, <1>4, CurrentStays
<1>6. Kept'
  BY <1>2 DEF Kept
<1> QED BY <1>2, <1>3, <1>5, <1>6

LEMMA AttachInv ==
  ASSUME Inv, NEW d \in Devices, NEW r \in Devices, Attach(d, r) PROVE Inv'
<1>1. /\ Move(d) /\ role' = [role EXCEPT ![d] = "child"]
      /\ parent' = [parent EXCEPT ![d] = r] /\ d # BorderRouter
  BY DEF Attach
<1>2. /\ role \in [Devices -> {"router", "child", "away"}]
      /\ parent \in [Devices -> Devices \cup {NoAddress}]
      /\ listed \in [Devices -> SUBSET Devices]
      /\ age \in [Devices -> [Devices -> 0..MaxAge]] /\ 0 \in 0..MaxAge
  BY ReadingAssumption DEF TypeOK, Inv
<1>3. PICK kept \in SUBSET {d} :
        /\ listed' = [s \in Devices |-> IF s = r THEN listed[s] \cup {d}
                                        ELSE listed[s] \ ({d} \ kept)]
        /\ age' = [s \in Devices |-> IF s = r \/ kept = {}
                                     THEN [age[s] EXCEPT ![d] = 0] ELSE age[s]]
  BY DEF Attach
<1>4. listed' \in [Devices -> SUBSET Devices]
  BY <1>2, <1>3
<1>5. /\ age' \in [Devices -> [Devices -> 0..MaxAge]]
      /\ age'[r][d] = 0
      /\ \A s, e \in Devices : e # d => age'[s][e] = age[s][e]
  <2>1. \A s \in Devices : age'[s] = IF s = r \/ kept = {}
                                      THEN [age[s] EXCEPT ![d] = 0] ELSE age[s]
    BY <1>3
  <2>2. ASSUME NEW s \in Devices PROVE age'[s] \in [Devices -> 0..MaxAge]
    <3>1. age[s] \in [Devices -> 0..MaxAge] /\ 0 \in 0..MaxAge
      BY <1>2
    <3>2. [age[s] EXCEPT ![d] = 0] \in [Devices -> 0..MaxAge]
      BY <3>1
    <3>3. age'[s] = [age[s] EXCEPT ![d] = 0] \/ age'[s] = age[s]
      BY <2>1
    <3> QED BY <3>1, <3>2, <3>3
  <2>3. age' \in [Devices -> [Devices -> 0..MaxAge]]
    BY <1>3, <2>2
  <2> QED BY <1>2, <2>1, <2>3
<1>6. role'[BorderRouter] = "router"
  BY <1>1, <1>2, BorderRouterAssumption DEF Attached, Inv
<1>7. \A s \in Devices : BorderRouter \notin listed'[s]
  BY <1>1, <1>2, <1>3 DEF Attached, Inv
<1>8. ASSUME NEW e \in Devices
      PROVE  IF role'[e] = "child" THEN parent'[e] \in Devices /\ e \in listed'[parent'[e]]
             ELSE parent'[e] = NoAddress
  <2>1. CASE e = d
    BY <1>1, <1>2, <1>3, <2>1
  <2>2. CASE e # d
    BY <1>1, <1>2, <1>3, <2>2 DEF Attached, Inv
  <2> QED BY <2>1, <2>2
<1>9. Attached'
  BY <1>6, <1>7, <1>8 DEF Attached
<1>10. \A e \in Devices : Silence(e)' = IF e = d THEN 0 ELSE Silence(e)
  BY <1>1, <1>2, <1>5 DEF Silence, Attached, Inv
<1>11. \A e \in Devices : Silence(e) \in 0..MaxAge
  BY SilencesAre DEF Inv
<1>12. Sooner
  BY <1>10, <1>11, ReadingAssumption DEF Sooner
<1>13. Aged'
  <2> SUFFICES ASSUME NEW s \in Devices, NEW e \in listed'[s] PROVE Silence(e)' <= age'[s][e]
    BY DEF Aged
  <2>1. e \in Devices /\ age'[s][e] \in 0..MaxAge
    BY <1>4, <1>5
  <2>2. CASE e = d
    BY <1>10, <2>1, <2>2, ReadingAssumption
  <2>3. CASE e # d
    <3>1. e \in listed[s]
      BY <1>3, <2>3
    <3> QED BY <1>5, <1>10, <2>1, <2>3, <3>1 DEF Aged, Inv
  <2> QED BY <2>2, <2>3
<1>14. /\ \E what \in {"child", "router", "away"} : role' = [role EXCEPT ![d] = what]
       /\ \E where \in Devices \cup {NoAddress} : parent' = [parent EXCEPT ![d] = where]
  BY <1>1
<1> QED BY <1>1, <1>4, <1>5, <1>9, <1>12, <1>13, <1>14, Moved

LEMMA LeftInv ==
  ASSUME Inv, NEW d \in Devices, Depart(d) \/ Promote(d) PROVE Inv'
<1> USE DEF Inv, Depart, Promote
<1>1. /\ role \in [Devices -> {"router", "child", "away"}]
      /\ parent \in [Devices -> Devices \cup {NoAddress}]
      /\ listed \in [Devices -> SUBSET Devices]
      /\ age \in [Devices -> [Devices -> 0..MaxAge]] /\ 0 \in 0..MaxAge
  BY ReadingAssumption DEF TypeOK
<1>2. /\ \E what \in {"router", "away"} : role' = [role EXCEPT ![d] = what]
      /\ parent' = [parent EXCEPT ![d] = NoAddress] /\ UNCHANGED <<listed, age>>
  OBVIOUS
<1>3. d # BorderRouter
  BY DEF Attached
<1>4. Attached'
  BY <1>1, <1>2, <1>3 DEF Attached
<1>5. \A e \in Devices : Silence(e)' = IF e = d THEN 0 ELSE Silence(e)
  BY <1>1, <1>2 DEF Silence
<1>6. \A e \in Devices : Silence(e) \in 0..MaxAge
  BY SilencesAre
<1>7. Sooner
  BY <1>5, <1>6, ReadingAssumption DEF Sooner
<1>8. Aged'
  <2> SUFFICES ASSUME NEW s \in Devices, NEW e \in listed[s] PROVE Silence(e)' <= age[s][e]
    BY <1>2 DEF Aged
  <2>1. e \in Devices /\ age[s][e] \in 0..MaxAge /\ Silence(e) <= age[s][e]
    BY <1>1 DEF Aged
  <2> QED BY <1>5, <2>1, ReadingAssumption
<1>9. Move(d)
  OBVIOUS
<1>10. \E what \in {"child", "router", "away"} : role' = [role EXCEPT ![d] = what]
  BY <1>2
<1>11. \E where \in Devices \cup {NoAddress} : parent' = [parent EXCEPT ![d] = where]
  BY <1>2
<1>12. /\ listed' \in [Devices -> SUBSET Devices]
       /\ age' \in [Devices -> [Devices -> 0..MaxAge]]
  BY <1>1, <1>2
<1> HIDE DEF Inv, Depart, Promote
<1> QED BY <1>4, <1>7, <1>8, <1>9, <1>10, <1>11, <1>12, Moved

LEMMA ExpireInv ==
  ASSUME Inv, NEW r \in Devices, NEW d \in Devices, Expire(r, d) PROVE Inv'
<1> USE DEF Inv, Expire
<1>1. /\ UNCHANGED <<role, parent, moves, steady, failures, socket, tlv30, asked,
                     records, entries, structure, structureAge, pc, call, todo, reading,
                     spent, live, inventory, topology>>
  BY DEF setup, rest, cache, reader, served
<1>2. listed' \in [Devices -> SUBSET Devices] /\ listed' = [listed EXCEPT ![r] = @ \ {d}]
      /\ parent[d] # r
  BY DEF TypeOK
<1>3. /\ age \in [Devices -> [Devices -> 0..MaxAge]] /\ 0 \in 0..MaxAge
      /\ age' = [age EXCEPT ![r][d] = 0]
      /\ listed \in [Devices -> SUBSET Devices]
      /\ parent \in [Devices -> Devices \cup {NoAddress}]
  BY ReadingAssumption DEF TypeOK
<1>4. /\ age' \in [Devices -> [Devices -> 0..MaxAge]]
      /\ \A s, e \in Devices : ~(s = r /\ e = d) => age'[s][e] = age[s][e]
  BY <1>3
<1>5. TypeOK'
  BY <1>1, <1>2, <1>4 DEF TypeOK
<1>6. Attached'
  BY <1>1, <1>2, <1>3 DEF Attached
<1>7. \A e \in Devices : Silence(e)' = Silence(e)
  BY <1>1, <1>2, <1>4 DEF Silence, Attached
<1>8. \A e \in Devices : Silence(e) \in 0..MaxAge
  BY SilencesAre
<1>9. Sooner
  BY <1>7, <1>8, ReadingAssumption DEF Sooner
<1>10. Aged'
  <2> SUFFICES ASSUME NEW s \in Devices, NEW e \in listed'[s] PROVE Silence(e)' <= age'[s][e]
    BY DEF Aged
  <2>1. e \in listed[s] /\ e \in Devices /\ ~(s = r /\ e = d)
    BY <1>2, <1>3
  <2> QED BY <1>4, <1>7, <2>1 DEF Aged
<1>11. Current'
  BY <1>1, <1>5, <1>6, <1>9, CurrentStays DEF TypeOK
<1>12. Kept'
  BY <1>1 DEF Kept
<1> QED BY <1>1, <1>5, <1>6, <1>10, <1>11, <1>12

LEMMA HearInv ==
  ASSUME Inv, NEW d \in Devices, Hear(d) PROVE Inv'
<1> USE DEF Inv, Hear
<1>1. /\ UNCHANGED <<role, parent, listed, moves, steady, failures, socket, tlv30, asked,
                     records, entries, structure, structureAge, pc, call, todo, reading,
                     spent, live, inventory, topology>>
  BY DEF setup, rest, cache, reader, served
<1>2. /\ age \in [Devices -> [Devices -> 0..MaxAge]] /\ 0 \in 0..MaxAge
      /\ age' = [age EXCEPT ![parent[d]][d] = 0]
      /\ listed \in [Devices -> SUBSET Devices] /\ role[d] = "child"
      /\ parent[d] \in Devices
  BY ReadingAssumption DEF TypeOK, Attached
<1>3. /\ age' \in [Devices -> [Devices -> 0..MaxAge]] /\ age'[parent[d]][d] = 0
      /\ \A s, e \in Devices : e # d => age'[s][e] = age[s][e]
  BY <1>2
<1>4. TypeOK'
  BY <1>1, <1>3 DEF TypeOK
<1>5. Attached' /\ Kept'
  BY <1>1 DEF Attached, Kept
<1>6. \A e \in Devices : Silence(e)' = IF e = d THEN 0 ELSE Silence(e)
  BY <1>1, <1>2, <1>3 DEF Silence, Attached
<1>7. \A e \in Devices : Silence(e) \in 0..MaxAge
  BY SilencesAre
<1>8. Sooner
  BY <1>6, <1>7, ReadingAssumption DEF Sooner
<1>9. Aged'
  <2> SUFFICES ASSUME NEW s \in Devices, NEW e \in listed[s] PROVE Silence(e)' <= age'[s][e]
    BY <1>1 DEF Aged
  <2>1. e \in Devices /\ age'[s][e] \in 0..MaxAge /\ Silence(e) <= age[s][e]
    BY <1>2, <1>3 DEF Aged
  <2> QED BY <1>3, <1>6, <2>1, ReadingAssumption
<1>10. Current'
  BY <1>1, <1>4, <1>5, <1>8, CurrentStays DEF TypeOK
<1> QED BY <1>1, <1>4, <1>5, <1>9, <1>10

LEMMA TickInv == ASSUME Inv, Tick PROVE Inv'
<1> USE DEF Inv, Tick
<1>1. /\ UNCHANGED <<role, parent, listed, moves, steady, failures, socket, tlv30, asked,
                     records, entries, structure, pc, call, todo, reading,
                     inventory, topology>>
  BY DEF setup, rest, served
<1>2. MaxAge \in Nat /\ StructureTTL \in Nat /\ MaxSlow \in Nat
      /\ age \in [Devices -> [Devices -> 0..MaxAge]]
      /\ structureAge \in 0..StructureTTL /\ spent \in 0..MaxSlow
      /\ listed \in [Devices -> SUBSET Devices]
  BY ReadingAssumption DEF TypeOK
<1>3. /\ \A n \in 0..MaxAge : Older(n, MaxAge) \in 0..MaxAge /\ Older(n, MaxAge) <= n + 1
      /\ \A n, m \in 0..MaxAge : n <= m => Older(n, MaxAge) <= Older(m, MaxAge)
  BY <1>2 DEF Older
<1>4. /\ \A r, d \in Devices :
           age'[r][d] = IF d \in listed[r] THEN Older(age[r][d], MaxAge) ELSE 0
      /\ age' \in [Devices -> [Devices -> 0..MaxAge]]
  <2>1. \A r, d \in Devices :
          (IF d \in listed[r] THEN Older(age[r][d], MaxAge) ELSE 0) \in 0..MaxAge
    BY <1>2, <1>3
  <2> QED BY <2>1
<1>5. \A d \in Devices : Silence(d) \in 0..MaxAge /\ Silences[d] = Silence(d)
  BY SilencesAre
<1>6. \A d \in Devices :
        Silence(d)' = IF role[d] = "child" THEN Older(Silence(d), MaxAge) ELSE 0
  BY <1>1, <1>4 DEF Silence, Attached
<1>7. \A d \in Devices : Silence(d)' \in 0..MaxAge /\ Silence(d)' <= Silence(d) + 1
  <2> TAKE d \in Devices
  <2>1. Silence(d) \in 0..MaxAge
    BY <1>5
  <2>2. Older(Silence(d), MaxAge) \in 0..MaxAge /\ Older(Silence(d), MaxAge) <= Silence(d) + 1
    BY <1>3, <2>1
  <2>3. CASE role[d] = "child"
    BY <1>6, <2>2, <2>3
  <2>4. CASE role[d] # "child"
    BY <1>2, <1>6, <2>1, <2>4
  <2> QED BY <2>3, <2>4
<1>8. Aged'
  <2> SUFFICES ASSUME NEW r \in Devices, NEW d \in listed[r] PROVE Silence(d)' <= age'[r][d]
    BY <1>1 DEF Aged
  <2>1. d \in Devices /\ Silence(d) <= age[r][d] /\ age[r][d] \in 0..MaxAge
        /\ Silence(d) \in 0..MaxAge
    BY <1>2, <1>5 DEF Aged
  <2>2. age'[r][d] = Older(age[r][d], MaxAge) /\ age'[r][d] \in 0..MaxAge
    BY <1>4, <2>1
  <2>3. CASE role[d] = "child"
    BY <1>3, <1>6, <2>1, <2>2, <2>3
  <2>4. CASE role[d] # "child"
    BY <1>2, <1>6, <2>1, <2>2, <2>4
  <2> QED BY <2>3, <2>4
<1>9. /\ structureAge' \in 0..StructureTTL
      /\ structureAge' < StructureTTL
         => structureAge < StructureTTL /\ structureAge' = structureAge + 1
      /\ structureAge = StructureTTL => structureAge' = StructureTTL
  BY <1>2 DEF Older
<1>10. /\ spent' \in 0..MaxSlow /\ spent <= spent' /\ spent' <= spent + 1
       /\ InReading => spent' = spent + 1
  <2>1. CASE InReading
    BY <1>2, <2>1
  <2>2. CASE ~InReading
    BY <1>2, <2>2
  <2> QED BY <2>1, <2>2
<1>11. live'.mesh = NoMesh /\ live'.heard = {}
  BY DEF NoReading
<1>12. Good(live'.mesh, socket')
  BY <1>1, <1>11, NoMeshIsGood DEF TypeOK
<1>13. TypeOK'
  BY <1>1, <1>4, <1>9, <1>10, <1>11, <1>12 DEF TypeOK, Good
<1>14. Attached' /\ Kept'
  BY <1>1 DEF Attached, Kept
<1>15. /\ Silences \in [Devices -> 0..MaxAge] /\ Silences' \in [Devices -> 0..MaxAge]
       /\ \A d \in Devices : Silences'[d] <= Silences[d] + 1
  BY <1>5, <1>7 DEF Silences
<1> DEFINE now == Silences
           next == Silences'
<1>16. ASSUME NEW s \in Structures, NEW n \in Nat, NEW m \in Nat, n + 1 <= m, Young(s, now, n)
       PROVE  Young(s, next, m)
  <2>1. 1 \in Nat /\ now \in [Devices -> 0..MaxAge] /\ next \in [Devices -> 0..MaxAge]
        /\ \A d \in Devices : next[d] <= now[d] + 1
    BY <1>15
  <2> HIDE DEF now, next
  <2> QED BY <1>16, <2>1, YoungFor
<1> HIDE DEF now, next
<1>17. reading \in Structures /\ structure \in Structures
  BY DEF TypeOK
<1>18. ASSUME pc = "children" PROVE Young(reading, next, spent')
  <2>1. Young(reading, now, spent) /\ spent \in Nat /\ spent' \in Nat /\ spent + 1 <= spent'
    BY <1>2, <1>10, <1>18 DEF Current, InReading, now
  <2> QED BY <1>16, <1>17, <2>1
<1>19. ASSUME pc \notin {"routers", "children"}, structureAge' < StructureTTL
       PROVE  Young(structure, next, structureAge' + spent')
  <2>1. Young(structure, now, structureAge + spent)
    BY <1>9, <1>19 DEF Current, now
  <2>2. /\ structureAge + spent \in Nat /\ structureAge' + spent' \in Nat
        /\ structureAge + spent + 1 <= structureAge' + spent'
    BY <1>2, <1>9, <1>10, <1>19
  <2> QED BY <1>16, <1>17, <2>1, <2>2
<1>20. ASSUME pc = "local" PROVE Young(structure, next, StructureTTL - 1 + spent')
  <2>1. Young(structure, now, StructureTTL - 1 + spent)
    BY <1>20 DEF Current, now
  <2>2. spent' = spent + 1
    BY <1>10, <1>20 DEF InReading
  <2>3. /\ StructureTTL - 1 + spent \in Nat /\ StructureTTL - 1 + spent' \in Nat
        /\ StructureTTL - 1 + spent + 1 <= StructureTTL - 1 + spent'
    BY <1>2, <2>2, ReadingAssumption
  <2> QED BY <1>16, <1>17, <2>1, <2>3
<1>21. Current'
  BY <1>1, <1>9, <1>18, <1>19, <1>20 DEF Current, next
<1> QED BY <1>1, <1>8, <1>12, <1>13, <1>14, <1>21

(* OTBR and the sweep touch the collections only.                          *)
LEMMA Aside ==
  ASSUME Inv, UNCHANGED <<world, setup, cache, reader, live, served>>,
         failures' \in 0..MaxFailures, asked' \subseteq Devices, Kept'
  PROVE  Inv'
<1> USE DEF Inv
<1>1. UNCHANGED <<role, parent, listed, age, moves, steady, socket, tlv30, structure,
                  structureAge, pc, call, todo, reading, spent, live, inventory, topology>>
  BY DEF world, setup, cache, reader, served
<1>2. TypeOK'
  BY <1>1 DEF TypeOK
<1>3. Attached'
  BY <1>1 DEF Attached
<1>4. \A d \in Devices : Silence(d)' = Silence(d) /\ Silence(d) \in 0..MaxAge
  BY <1>1, SilencesAre DEF Silence
<1>5. Sooner /\ Aged'
  <2>1. Sooner
    BY <1>4, ReadingAssumption DEF Sooner
  <2>2. \A r \in Devices : listed[r] \subseteq Devices
    BY DEF TypeOK
  <2> QED BY <1>1, <1>4, <2>1, <2>2 DEF Aged
<1>6. Current'
  BY <1>1, <1>2, <1>3, <1>5, CurrentStays DEF TypeOK
<1> QED BY <1>1, <1>2, <1>3, <1>5, <1>6

LEMMA SweepInv == ASSUME Inv, Sweep PROVE Inv'
<1>1. KnownRouters \subseteq Devices
  BY BorderRouterAssumption DEF KnownRouters, Inv, Kept
<1>2. UNCHANGED <<world, setup, cache, reader, live, served, failures>>
  BY DEF Sweep
<1>3. Kept'
  BY DEF Sweep, Inv, Kept, setup, served
<1> QED BY <1>1, <1>2, <1>3, Aside DEF Sweep, Inv, TypeOK

LEMMA AnswerInv == ASSUME Inv, NEW r \in Devices, Answer(r) PROVE Inv'
<1>1. \A n : IsRecord(Tables(r, n))
  BY DEF Inv, TypeOK, IsRecord, Tables
<1>2. \A x \in records' : IsRecord(x)
  BY <1>1 DEF Answer, Inv, Kept
<1>3. ~socket
  BY DEF Answer, Inv, Kept
<1>4. UNCHANGED <<socket, entries, inventory>>
  BY DEF Answer, setup, served
<1>5. Kept'
  BY <1>2, <1>3, <1>4 DEF Inv, Kept
<1>6. UNCHANGED <<world, setup, cache, reader, live, served, failures>>
  BY DEF Answer
<1>7. asked' \subseteq Devices /\ failures' \in 0..MaxFailures
  BY <1>6 DEF Answer, Inv, TypeOK
<1> QED BY <1>5, <1>6, <1>7, Aside

LEMMA LoseInv == ASSUME Inv, NEW r \in Devices, Lose(r) PROVE Inv'
<1>1. UNCHANGED <<socket, records, entries, inventory>> /\ asked' \subseteq asked
  BY DEF Lose, setup, served
<1>2. Kept'
  BY <1>1 DEF Inv, Kept
<1>3. UNCHANGED <<world, setup, cache, reader, live, served>>
  BY DEF Lose
<1>4. asked' \subseteq Devices /\ failures' \in 0..MaxFailures
  BY <1>1, ReadingAssumption DEF Lose, Inv, TypeOK
<1> QED BY <1>2, <1>3, <1>4, Aside

LEMMA CollectInv == ASSUME Inv, Collect PROVE Inv'
<1>1. \A e \in entries' : e.ext \in Devices
  BY DEF Collect, Present, Inv, Kept
<1>2. UNCHANGED <<socket, asked, records, inventory>>
  BY DEF Collect, setup, served
<1>3. Kept'
  BY <1>1, <1>2 DEF Inv, Kept
<1>4. UNCHANGED <<world, setup, cache, reader, live, served, failures>>
  BY DEF Collect
<1>5. asked' \subseteq Devices /\ failures' \in 0..MaxFailures
  BY <1>2, <1>4 DEF Inv, TypeOK
<1> QED BY <1>3, <1>4, <1>5, Aside

-----------------------------------------------------------------------------
(* A call returns what was read, from whichever source.                    *)

IsListed(devices) == \A n \in devices : n.ext \in Devices \cup {NoAddress}

LEMMA Returned ==
  ASSUME Inv, NEW devices, NEW mesh, Return(devices, mesh), IsListed(devices),
         Good(mesh, socket),
         UNCHANGED <<role, parent, listed, age, moves, setup, rest, cache, todo, reading,
                     spent>>,
         steady' = {} \/ (UNCHANGED steady /\ pc \notin {"routers", "children"}),
         failures' \in 0..MaxFailures,
         Good(live'.mesh, socket), live'.heard \subseteq [ext : Devices, age : 0..MaxAge]
  PROVE  Inv'
<1> USE DEF Inv
<1>1. UNCHANGED <<role, parent, listed, age, moves, socket, tlv30, asked, records, entries,
                  structure, structureAge, todo, reading, spent>>
  BY DEF setup, rest, cache
<1>2. pc' \in {"call", "idle"} /\ call' \in {"devices", "topology"}
  BY DEF Return
<1>3. Good(topology', socket')
  BY <1>1 DEF Return
<1>4. \A n \in inventory' : n.ext \in Devices \cup {NoAddress}
  BY BorderRouterAssumption DEF Return, MergeBorderRouter, IsListed, Kept
<1>5. TypeOK'
  BY <1>1, <1>2, <1>3 DEF TypeOK, Good
<1>6. Kept' /\ Attached' /\ Aged'
  BY <1>1, <1>4 DEF Kept, Attached, Aged, Silence
<1>7. Complete(structure', steady', role', parent')
  BY <1>1 DEF Current, Complete
<1>8. ASSUME structureAge < StructureTTL
      PROVE  Young(structure, Silences, structureAge + spent)
  <2>1. CASE pc \in {"routers", "children"}
    <3>1. structure.routers = {} /\ OfRouters(structure)
      BY <1>8, <2>1, ReadingAssumption DEF Current, TypeOK
    <3> QED BY <3>1, NoneYoung
  <2>2. CASE pc \notin {"routers", "children"}
    BY <1>8, <2>2 DEF Current
  <2> QED BY <2>1, <2>2
<1>9. Silences' = Silences
  BY <1>1 DEF Silences, Silence
<1>10. Current'
  BY <1>1, <1>2, <1>7, <1>8, <1>9 DEF Current
<1> QED BY <1>1, <1>3, <1>5, <1>6, <1>10

LEMMA CollectionsAre ==
  ASSUME Inv
  PROVE  Good(DecodeTopology(records), socket) /\ IsListed(DecodeDevices(entries))
<1>1. IsMesh(DecodeTopology(records)) /\ Joined(DecodeTopology(records))
  BY RecordsAreNodes DEF Inv, Kept
<1>2. socket => Apart(DecodeTopology(records))
  BY DEF Inv, Kept
<1>3. IsListed(DecodeDevices(entries))
  BY DEF Inv, Kept, IsListed, DecodeDevices
<1> QED BY <1>1, <1>2, <1>3 DEF Good

LEMMA ReadCollectionsInv == ASSUME Inv, ReadCollections PROVE Inv'
<1>1. UNCHANGED <<role, parent, listed, age, moves, setup, rest, cache, todo, reading,
                  spent, steady, failures, live>>
  BY DEF ReadCollections, world
<1>2. /\ Return(DecodeDevices(entries), DecodeTopology(records))
      /\ pc \notin {"routers", "children"}
  BY DEF ReadCollections, FromCollections
<1> QED BY <1>1, <1>2, CollectionsAre, Returned DEF Inv, TypeOK

LEMMA ShareReadingInv == ASSUME Inv, ShareReading PROVE Inv'
<1>1. UNCHANGED <<role, parent, listed, age, moves, setup, rest, cache, todo, reading,
                  spent, steady, failures, live>>
  BY DEF ShareReading, world
<1>2. Return(live.mesh.nodes, live.mesh) /\ pc \notin {"routers", "children"}
  BY DEF ShareReading
<1>3. IsListed(live.mesh.nodes) /\ Good(live.mesh, socket)
  BY DEF Inv, Good, IsMesh, IsListed
<1> QED BY <1>1, <1>2, <1>3, Returned DEF Inv, TypeOK

LEMMA QueryRoutersFailsInv == ASSUME Inv, QueryRoutersFails PROVE Inv'
<1>1. UNCHANGED <<role, parent, listed, age, moves, setup, rest, cache, todo, reading, spent>>
  BY DEF QueryRoutersFails
<1>2. /\ Return(DecodeDevices(entries), DecodeTopology(records)) /\ steady' = {}
      /\ live'.mesh = NoMesh /\ live'.heard = {}
  BY DEF QueryRoutersFails, FromCollections, NoReading
<1>3. failures' \in 0..MaxFailures
  BY ReadingAssumption DEF QueryRoutersFails, Inv, TypeOK
<1>4. Good(live'.mesh, socket)
  BY <1>2, NoMeshIsGood DEF Inv, TypeOK
<1>5. /\ live'.heard \subseteq [ext : Devices, age : 0..MaxAge]
      /\ steady' = {} \/ (UNCHANGED steady /\ pc \notin {"routers", "children"})
  BY <1>2
<1>6. Good(DecodeTopology(records), socket) /\ IsListed(DecodeDevices(entries))
  BY CollectionsAre
<1>7. Return(DecodeDevices(entries), DecodeTopology(records))
  BY <1>2
<1> QED BY <1>1, <1>3, <1>4, <1>5, <1>6, <1>7, Returned

-----------------------------------------------------------------------------
(* The reading of the mesh.                                                *)

(* The reader goes on to its next step with what it has.                   *)
LEMMA GoesOn ==
  ASSUME Inv, UNCHANGED <<role, parent, listed, age, moves, failures, setup, rest, cache, call,
                          todo, reading, live, served>>,
         \/ UNCHANGED <<steady, spent>> /\ pc \in {"idle", "call"} /\ pc' \in {"call", "local"}
            /\ (pc' = "local" => structureAge < StructureTTL)
         \/ /\ steady' = Devices /\ spent' = 0 /\ pc' = "routers"
            /\ structureAge = StructureTTL \/ structure.routers = {}
  PROVE  Inv'
<1> USE DEF Inv
<1>1. UNCHANGED <<role, parent, listed, age, moves, socket, tlv30, asked, records, entries,
                  structure, structureAge, todo, reading, inventory, topology>>
  BY DEF setup, rest, cache, served
<1>2. TypeOK'
  <2>1. spent' \in 0..MaxSlow
    BY ReadingAssumption DEF TypeOK
  <2> QED BY <1>1, <2>1 DEF TypeOK
<1>3. Kept' /\ Attached' /\ Aged' /\ Silences' = Silences
  BY <1>1 DEF Kept, Attached, Aged, Silences, Silence
<1>4. CASE pc' = "routers"
  <2>1. structureAge = StructureTTL \/ structure.routers = {}
    BY <1>4
  <2>2. Current'
    BY <1>1, <1>4, <2>1 DEF Current
  <2> QED BY <1>1, <1>2, <1>3, <2>2
<1>5. CASE pc' # "routers"
  <2>1. /\ UNCHANGED <<steady, spent>> /\ pc' \in {"call", "local"} /\ pc \in {"idle", "call"}
    BY <1>5
  <2>2. ASSUME structureAge < StructureTTL
        PROVE  /\ Young(structure, Silences, structureAge + spent)
               /\ Young(structure, Silences, StructureTTL - 1 + spent)
    <3> DEFINE now == Silences
    <3>1. Young(structure, now, structureAge + spent)
      BY <2>1, <2>2 DEF Current
    <3>2. now \in [Devices -> 0..MaxAge]
      BY SilencesAre
    <3>3. /\ structureAge + spent \in Nat /\ StructureTTL - 1 + spent \in Nat /\ 0 \in Nat
          /\ structureAge + spent + 0 <= StructureTTL - 1 + spent
      BY <2>2, ReadingAssumption DEF TypeOK
    <3> HIDE DEF now
    <3>4. \A d \in Devices : now[d] <= now[d] + 0
      BY <3>2, ReadingAssumption
    <3>5. structure \in Structures
      BY DEF TypeOK
    <3>6. Young(structure, now, StructureTTL - 1 + spent)
      BY <3>1, <3>2, <3>3, <3>4, <3>5, YoungFor
    <3> QED BY <3>1, <3>6 DEF now
  <2>3. Current'
    BY <1>1, <1>3, <2>1, <2>2 DEF Current
  <2> QED BY <1>1, <1>2, <1>3, <2>3
<1>6. CASE Current'
  BY <1>1, <1>2, <1>3, <1>6
<1> QED BY <1>1, <1>2, <1>3, <1>4, <1>5, <1>6

LEMMA GoesOnInv ==
  ASSUME Inv, Poll \/ ReuseStructure \/ ReadStructure PROVE Inv'
<1>1. UNCHANGED <<role, parent, listed, age, moves, failures, setup, rest, cache, call,
                  todo, reading, live, served>>
  BY DEF Poll, ReuseStructure, ReadStructure, world, reader
<1>2. \/ UNCHANGED <<steady, spent>> /\ pc \in {"idle", "call"} /\ pc' \in {"call", "local"}
         /\ (pc' = "local" => structureAge < StructureTTL)
      \/ /\ steady' = Devices /\ spent' = 0 /\ pc' = "routers"
         /\ structureAge = StructureTTL \/ structure.routers = {}
  BY DEF Poll, ReuseStructure, ReadStructure, world
<1> QED BY <1>1, <1>2, GoesOn

LEMMA QueryRoutersInv == ASSUME Inv, QueryRouters PROVE Inv'
<1> USE DEF Inv
<1>1. UNCHANGED <<role, parent, listed, age, moves, steady, socket, tlv30, asked, spent,
                  records, entries, structure, structureAge, call, live, inventory, topology>>
      /\ pc = "routers" /\ pc' = "children"
  BY DEF QueryRouters, world, setup, rest, cache, served
<1>2. PICK silent \in SUBSET (Routers \ {BorderRouter}) :
        /\ silent = {} \/ failures < MaxFailures
        /\ failures' = failures + (IF silent = {} THEN 0 ELSE 1)
        /\ reading' = [routers |-> Routers \ silent,
                       links |-> [r \in Devices |-> IF r \in Routers \ silent
                                  THEN {Number[s] : s \in Routers \ {r}} ELSE {}],
                       children |-> << >>]
        /\ todo' = Routers \ silent
  BY DEF QueryRouters
<1> DEFINE links == [r \in Devices |-> IF r \in Routers \ silent
                                      THEN {Number[s] : s \in Routers \ {r}} ELSE {}]
<1>3. Routers \subseteq Devices
  BY DEF Routers
<1>4. links \in [Devices -> SUBSET {Number[d] : d \in Devices}]
  BY <1>3
<1>5. reading' = [routers |-> Routers \ silent, links |-> links, children |-> None.children]
  BY <1>2 DEF None
<1> HIDE DEF links
<1>6. reading'.children = None.children /\ reading'.routers = Routers \ silent
  BY <1>5
<1>7. reading' \in Structures /\ DOMAIN reading'.children = {}
  <2>1. None.children \in UNION {[R -> UNION {[C -> 0..MaxAge] : C \in SUBSET Devices}] :
                                 R \in SUBSET Devices}
    BY NoneIs DEF Structures
  <2>2. Routers \ silent \in SUBSET Devices
    BY <1>3
  <2> QED BY <1>4, <1>5, <1>6, <2>1, <2>2, NoneIs DEF Structures
<1>8. failures' \in 0..MaxFailures
  <2>1. CASE silent = {}
    BY <1>2, <2>1, ReadingAssumption DEF TypeOK
  <2>2. CASE silent # {}
    <3>1. failures' = failures + 1 /\ failures < MaxFailures
      BY <1>2, <2>2
    <3> QED BY <3>1, ReadingAssumption DEF TypeOK
  <2> QED BY <2>1, <2>2
<1>9. TypeOK'
  <2>1. todo' \subseteq Devices
    BY <1>2, <1>3
  <2> QED BY <1>1, <1>7, <1>8, <2>1 DEF TypeOK
<1>10. Kept' /\ Attached' /\ Aged'
  BY <1>1 DEF Kept, Attached, Aged, Silence
<1>11. /\ OfRouters(reading') /\ Complete(reading', steady', role', parent')
       /\ Young(reading', Silences', spent')
  BY <1>7 DEF OfRouters, Complete, Young
<1>12. todo' \subseteq reading'.routers
  BY <1>2, <1>6
<1>13. Current'
  BY <1>1, <1>11, <1>12 DEF Current
<1> QED BY <1>1, <1>9, <1>10, <1>13

LEMMA KeepInv ==
  ASSUME Inv, pc = "children", NEW sofar \in Structures, OfRouters(sofar),
         sofar.routers = reading.routers, Complete(sofar, steady, role, parent),
         Young(sofar, Silences, spent), todo' \subseteq todo, Keep(sofar),
         UNCHANGED <<world, setup, rest, call, spent, live, served>>, failures' \in 0..MaxFailures
  PROVE  Inv'
<1> USE DEF Inv
<1>1. UNCHANGED <<role, parent, listed, age, moves, steady, socket, tlv30, asked, records,
                  entries, inventory, topology>>
  BY DEF world, setup, rest, served
<1>2. Kept' /\ Attached' /\ Aged' /\ Silences' = Silences
  BY <1>1 DEF Kept, Attached, Aged, Silences, Silence
<1>3. CASE todo' = {}
  <2>1. structure' = sofar /\ structureAge' = 0 /\ reading' = None /\ pc' = "local"
    BY <1>3 DEF Keep
  <2>2. 0 \in 0..StructureTTL /\ 0 < StructureTTL
    BY ReadingAssumption
  <2>3. TypeOK'
    BY <1>1, <1>3, <2>1, <2>2, NoneIs DEF TypeOK
  <2>4. OfRouters(None)
    BY NoneIs DEF OfRouters
  <2>5. Young(sofar, Silences, 0 + spent) /\ Young(sofar, Silences, StructureTTL - 1 + spent)
    <3> DEFINE now == Silences
    <3>1. now \in [Devices -> 0..MaxAge]
      BY SilencesAre
    <3>2. /\ spent \in Nat /\ StructureTTL - 1 + spent \in Nat /\ 0 \in Nat
          /\ spent + 0 <= StructureTTL - 1 + spent /\ 0 + spent = spent
      BY ReadingAssumption DEF TypeOK
    <3>3. Young(sofar, now, spent)
      OBVIOUS
    <3> HIDE DEF now
    <3>4. \A d \in Devices : now[d] <= now[d] + 0
      BY <3>1, ReadingAssumption
    <3>5. Young(sofar, now, StructureTTL - 1 + spent)
      BY <3>1, <3>2, <3>3, <3>4, YoungFor
    <3> QED BY <3>2, <3>3, <3>5 DEF now
  <2>6. Current'
    BY <1>1, <1>2, <2>1, <2>2, <2>4, <2>5 DEF Current
  <2> QED BY <1>1, <1>2, <2>3, <2>6
<1>4. CASE todo' # {}
  <2>1. reading' = sofar /\ UNCHANGED <<structure, structureAge, pc>>
    BY <1>4 DEF Keep, cache
  <2>2. TypeOK'
    BY <1>1, <2>1 DEF TypeOK
  <2>3. Current'
    BY <1>1, <1>2, <2>1 DEF Current
  <2> QED BY <1>1, <1>2, <2>2, <2>3
<1> QED BY <1>3, <1>4

LEMMA QueryChildrenFailsInv ==
  ASSUME Inv, NEW r \in Devices, QueryChildrenFails(r) PROVE Inv'
<1>1. pc = "children" /\ todo' \subseteq todo
  BY DEF QueryChildrenFails, Asking
<1>2. failures' \in 0..MaxFailures
  BY ReadingAssumption DEF QueryChildrenFails, Inv, TypeOK
<1>3. Keep(reading) /\ UNCHANGED <<world, setup, rest, call, spent, live, served>>
  BY DEF QueryChildrenFails
<1>4. /\ reading \in Structures /\ OfRouters(reading) /\ Young(reading, Silences, spent)
      /\ Complete(reading, steady, role, parent)
  BY <1>1 DEF Inv, TypeOK, Current
<1> QED BY <1>1, <1>2, <1>3, <1>4, KeepInv

LEMMA QueryChildrenInv ==
  ASSUME Inv, NEW r \in Devices, QueryChildren(r) PROVE Inv'
<1> DEFINE table == [d \in listed[r] |-> age[r][d]]
           tables == [s \in DOMAIN reading.children \cup {r} |->
                        IF s = r THEN table ELSE reading.children[s]]
           sofar == [reading EXCEPT !.children = tables]
<1>1. pc = "children" /\ todo' \subseteq todo /\ r \in todo
  BY DEF QueryChildren, Asking
<1>2. Keep(sofar) /\ UNCHANGED <<world, failures, setup, rest, call, spent, live, served>>
  BY DEF QueryChildren
<1>3. /\ reading \in Structures /\ listed[r] \subseteq Devices
      /\ age[r] \in [Devices -> 0..MaxAge]
      /\ BorderRouter \notin listed[r] /\ OfRouters(reading) /\ r \in reading.routers
  BY <1>1 DEF Inv, TypeOK, Attached, Current
<1>4. table \in [listed[r] -> 0..MaxAge] /\ \A d \in listed[r] : table[d] = age[r][d]
  BY <1>3
<1> HIDE DEF table
<1>5. DOMAIN tables = DOMAIN reading.children \cup {r} /\ tables[r] = table
      /\ \A s \in DOMAIN reading.children : s # r => tables[s] = reading.children[s]
  OBVIOUS
<1>6. sofar.routers = reading.routers /\ sofar.children = tables
      /\ sofar = [routers |-> reading.routers, links |-> reading.links, children |-> tables]
  BY <1>3 DEF Structures
<1>7. sofar \in Structures
  <2> DEFINE AllTables == UNION {[C -> 0..MaxAge] : C \in SUBSET Devices}
  <2>1. PICK R \in SUBSET Devices : reading.children \in [R -> AllTables]
    BY <1>3 DEF Structures
  <2>2. table \in AllTables
    BY <1>3, <1>4
  <2> HIDE DEF AllTables
  <2>3. tables \in [R \cup {r} -> AllTables]
    BY <2>1, <2>2
  <2>4. R \cup {r} \in SUBSET Devices /\ reading.routers \in SUBSET Devices
        /\ reading.links \in [Devices -> SUBSET {Number[d] : d \in Devices}]
    BY <1>3 DEF Structures
  <2>5. tables \in UNION {[Q -> AllTables] : Q \in SUBSET Devices}
    BY <2>3, <2>4
  <2>6. Structures = [routers : SUBSET Devices,
                      links : [Devices -> SUBSET {Number[d] : d \in Devices}],
                      children : UNION {[Q -> AllTables] : Q \in SUBSET Devices}]
    BY DEF Structures, AllTables
  <2> DEFINE Kids == UNION {[Q -> AllTables] : Q \in SUBSET Devices}
             Numbers == SUBSET {Number[d] : d \in Devices}
  <2> HIDE DEF tables, sofar, Kids, Numbers
  <2>7. /\ tables \in Kids /\ reading.links \in [Devices -> Numbers]
        /\ Structures = [routers : SUBSET Devices, links : [Devices -> Numbers], children : Kids]
    BY <2>4, <2>5, <2>6 DEF Kids, Numbers
  <2> QED BY <1>6, <2>4, <2>7
<1> HIDE DEF tables, sofar
<1>8. OfRouters(sofar)
  BY <1>3, <1>4, <1>5, <1>6 DEF OfRouters
<1>9. Complete(sofar, steady, role, parent)
  <2> SUFFICES ASSUME NEW d \in steady, role[d] = "child",
                      parent[d] \in DOMAIN sofar.children
               PROVE  d \in DOMAIN sofar.children[parent[d]]
    BY DEF Complete
  <2>1. CASE parent[d] = r
    BY <1>4, <1>5, <1>6, <2>1 DEF Inv, TypeOK, Attached
  <2>2. CASE parent[d] # r
    BY <1>1, <1>5, <1>6, <2>2 DEF Inv, Current, Complete
  <2> QED BY <2>1, <2>2
<1>10. Young(sofar, Silences, spent)
  <2> SUFFICES ASSUME NEW s \in DOMAIN sofar.children, NEW d \in DOMAIN sofar.children[s]
               PROVE  Silences[d] <= sofar.children[s][d] + spent
    BY DEF Young
  <2>1. CASE s = r
    <3>1. d \in listed[r] /\ sofar.children[s][d] = age[r][d] /\ age[r][d] \in 0..MaxAge
      BY <1>3, <1>4, <1>5, <1>6, <2>1
    <3>2. Silences[d] = Silence(d) /\ Silence(d) \in 0..MaxAge /\ Silence(d) <= age[r][d]
      BY <1>3, <3>1, SilencesAre DEF Inv, Aged
    <3>3. spent \in Nat
      BY ReadingAssumption DEF Inv, TypeOK
    <3> QED BY <3>1, <3>2, <3>3, ReadingAssumption
  <2>2. CASE s # r
    <3>1. s \in DOMAIN reading.children /\ sofar.children[s] = reading.children[s]
      BY <1>5, <1>6, <2>2
    <3>2. Young(reading, Silences, spent)
      BY <1>1 DEF Inv, Current
    <3> QED BY <3>1, <3>2 DEF Young
  <2> QED BY <2>1, <2>2
<1>11. failures' \in 0..MaxFailures
  BY <1>2 DEF Inv, TypeOK
<1> QED BY <1>1, <1>2, <1>6, <1>7, <1>8, <1>9, <1>10, <1>11, KeepInv

(* A child that is heard is in a table, and its age is the one in the      *)
(* neighbour table or else the one in that table.                          *)
LEMMA HeardAre ==
  ASSUME NEW s \in Structures, NEW fresh \in [Devices -> Int], NEW h \in Heard(s, fresh)
  PROVE  /\ h.ext \in Devices /\ h = [ext |-> h.ext, age |-> h.age]
         /\ \E r \in DOMAIN s.children :
              /\ h.ext \in DOMAIN s.children[r] /\ s.children[r][h.ext] \in 0..MaxAge
              /\ h.age = IF fresh[h.ext] >= 0 THEN fresh[h.ext] ELSE s.children[r][h.ext]
<1>1. PICK p \in Sightings(s) : h = [ext |-> p[2], age |-> AgeOf(s, fresh, p[1], p[2])]
  BY DEF Heard
<1>2. p[2] \in Devices /\ p[1] \in FirstSighting(s, p[2])
  BY DEF Sightings
<1>3. p[1] \in DOMAIN s.children /\ p[2] \in DOMAIN s.children[p[1]]
  BY <1>2 DEF FirstSighting, Listing
<1>4. h.ext = p[2] /\ h = [ext |-> h.ext, age |-> h.age]
      /\ h.age = IF fresh[p[2]] >= 0 THEN fresh[p[2]] ELSE s.children[p[1]][p[2]]
  BY <1>1 DEF AgeOf
<1> QED BY <1>2, <1>3, <1>4, StructureIs

(* What a reading of the local tables says.                                *)
LEMMA LocalIs ==
  ASSUME Inv, ReadLocal
  PROVE  /\ Return(MeshTopology(structure).nodes, MeshTopology(structure))
         /\ live'.mesh = MeshTopology(structure)
         /\ failures' \in 0..MaxFailures
         /\ live'.heard \subseteq [ext : Devices, age : 0..MaxAge]
         /\ \A h \in live'.heard :
              /\ Silence(h.ext) < h.age + StructureTTL + spent
              /\ failures' = failures /\ parent[h.ext] = BorderRouter => h.age = Silence(h.ext)
<1> USE DEF Inv
<1>1. PICK known \in {Neighbours} \cup (IF failures < MaxFailures THEN {{}} ELSE {}) :
        /\ failures' = failures + (IF known = {} /\ Neighbours # {} THEN 1 ELSE 0)
        /\ LET fresh == [d \in Devices |->
                          IF d \in known THEN age[BorderRouter][d] ELSE -1]
               mesh == MeshTopology(structure)
           IN  /\ live' = [mesh |-> mesh, heard |-> Heard(structure, fresh)]
               /\ Return(mesh.nodes, mesh)
  BY DEF ReadLocal
<1> DEFINE fresh == [d \in Devices |-> IF d \in known THEN age[BorderRouter][d] ELSE -1]
<1>2. /\ live' = [mesh |-> MeshTopology(structure), heard |-> Heard(structure, fresh)]
      /\ Return(MeshTopology(structure).nodes, MeshTopology(structure))
  BY <1>1
<1>3. failures' \in 0..MaxFailures
  <2>1. CASE known = {} /\ Neighbours # {}
    <3>1. failures < MaxFailures
      BY <2>1
    <3>2. failures' = failures + 1
      BY <1>1, <2>1
    <3> QED BY <3>1, <3>2, ReadingAssumption DEF TypeOK
  <2>2. CASE ~(known = {} /\ Neighbours # {})
    <3>1. failures' = failures + 0
      BY <1>1, <2>2
    <3> QED BY <3>1, ReadingAssumption DEF TypeOK
  <2> QED BY <2>1, <2>2
<1>4. failures' = failures => known = Neighbours
  <2>1. failures \in Int
    BY ReadingAssumption DEF TypeOK
  <2>2. ~(known = {} /\ Neighbours # {}) => known = Neighbours
    OBVIOUS
  <2> QED BY <1>1, <2>1, <2>2
<1>5. /\ MaxAge \in Nat /\ StructureTTL \in Nat \ {0} /\ spent \in Nat
      /\ age[BorderRouter] \in [Devices -> 0..MaxAge]
      /\ structure \in Structures
  BY ReadingAssumption, BorderRouterAssumption DEF TypeOK
<1>6. \A d \in Devices : fresh[d] = IF d \in known THEN age[BorderRouter][d] ELSE -1
  OBVIOUS
<1>7. fresh \in [Devices -> Int]
  BY <1>5
<1> HIDE DEF fresh
<1>8. Young(structure, Silences, StructureTTL - 1 + spent)
  BY DEF ReadLocal, Current
<1>9. \A d \in Devices : Silences[d] = Silence(d) /\ Silence(d) \in 0..MaxAge
  BY SilencesAre
<1>10. ASSUME NEW h \in Heard(structure, fresh)
       PROVE  /\ h \in [ext : Devices, age : 0..MaxAge]
              /\ Silence(h.ext) < h.age + StructureTTL + spent
              /\ failures' = failures /\ parent[h.ext] = BorderRouter => h.age = Silence(h.ext)
  <2>1. /\ h.ext \in Devices /\ h = [ext |-> h.ext, age |-> h.age]
        /\ \E r \in DOMAIN structure.children :
              /\ h.ext \in DOMAIN structure.children[r]
              /\ structure.children[r][h.ext] \in 0..MaxAge
              /\ h.age = IF fresh[h.ext] >= 0 THEN fresh[h.ext] ELSE structure.children[r][h.ext]
    BY <1>5, <1>7, HeardAre
  <2>2. PICK r \in DOMAIN structure.children :
              /\ h.ext \in DOMAIN structure.children[r]
              /\ structure.children[r][h.ext] \in 0..MaxAge
              /\ h.age = IF fresh[h.ext] >= 0 THEN fresh[h.ext] ELSE structure.children[r][h.ext]
    BY <2>1
  <2>3. Silence(h.ext) \in 0..MaxAge
        /\ Silence(h.ext) <= structure.children[r][h.ext] + (StructureTTL - 1 + spent)
    BY <1>8, <1>9, <2>1, <2>2 DEF Young
  <2>4. parent[h.ext] = BorderRouter =>
          h.ext \in listed[BorderRouter] /\ Silence(h.ext) = age[BorderRouter][h.ext]
    BY <2>1, BorderRouterAssumption, NumberAssumption DEF Attached, Silence
  <2>5. CASE h.ext \in known
    <3>1. h.age = age[BorderRouter][h.ext] /\ h.age \in 0..MaxAge
      <4>1. fresh[h.ext] = age[BorderRouter][h.ext] /\ age[BorderRouter][h.ext] \in 0..MaxAge
        BY <1>5, <1>6, <2>1, <2>5
      <4> QED BY <1>5, <2>2, <4>1
    <3>2. Silence(h.ext) <= h.age
      <4>1. CASE h.ext \in listed[BorderRouter]
        BY <3>1, <4>1, BorderRouterAssumption DEF Aged
      <4>2. CASE h.ext \notin listed[BorderRouter]
        <5>1. h.ext \in Routers
          BY <1>1, <2>5, <4>2 DEF Neighbours
        <5>2. Silence(h.ext) = 0
          BY <5>1 DEF Routers, Silence
        <5> QED BY <1>5, <3>1, <5>2
      <4> QED BY <4>1, <4>2
    <3>3. Silence(h.ext) < h.age + StructureTTL + spent
      BY <1>5, <2>3, <3>1, <3>2
    <3>4. h \in [ext : Devices, age : 0..MaxAge]
      BY <2>1, <3>1
    <3> QED BY <2>4, <3>1, <3>3, <3>4
  <2>6. CASE h.ext \notin known
    <3>1. h.age = structure.children[r][h.ext] /\ h.age \in 0..MaxAge
      <4>1. fresh[h.ext] = -1
        BY <1>6, <2>1, <2>6
      <4> QED BY <2>2, <4>1
    <3>2. Silence(h.ext) < h.age + StructureTTL + spent
      BY <1>5, <2>3, <3>1
    <3>3. ~(failures' = failures /\ parent[h.ext] = BorderRouter)
      BY <1>4, <2>4, <2>6 DEF Neighbours
    <3>4. h \in [ext : Devices, age : 0..MaxAge]
      BY <2>1, <3>1
    <3> QED BY <3>2, <3>3, <3>4
  <2> QED BY <2>5, <2>6
<1> QED BY <1>2, <1>3, <1>10

LEMMA ReadLocalInv == ASSUME Inv, ReadLocal PROVE Inv'
<1> DEFINE mesh == MeshTopology(structure)
<1>1. UNCHANGED <<role, parent, listed, age, moves, setup, rest, cache, todo, reading, spent,
                  steady>>
      /\ pc \notin {"routers", "children"}
  BY DEF ReadLocal, world
<1>2. structure \in Structures /\ OfRouters(structure)
  BY DEF Inv, TypeOK, Current
<1>3. Good(mesh, socket) /\ IsListed(mesh.nodes)
  BY <1>2, MeshIsGood DEF Good, IsListed
<1>4. /\ Return(mesh.nodes, mesh) /\ live'.mesh = mesh /\ failures' \in 0..MaxFailures
      /\ live'.heard \subseteq [ext : Devices, age : 0..MaxAge]
  BY LocalIs
<1> HIDE DEF mesh
<1> QED BY <1>1, <1>3, <1>4, Returned

LEMMA NextInv == ASSUME Inv, [Next]_vars PROVE Inv'
<1>1. CASE Mesh
  BY <1>1, AttachInv, LeftInv, ExpireInv, HearInv, TickInv DEF Mesh
<1>2. CASE Otbr
  BY <1>2, AnswerInv, LoseInv, CollectInv DEF Otbr
<1>3. CASE Sweep \/ Poll
  BY <1>3, SweepInv, GoesOnInv
<1>4. CASE Reader
  BY <1>4, ReadCollectionsInv, ShareReadingInv, GoesOnInv, QueryRoutersInv,
     QueryRoutersFailsInv, QueryChildrenInv, QueryChildrenFailsInv, ReadLocalInv DEF Reader
<1>5. CASE UNCHANGED vars
  <2>1. UNCHANGED <<world, setup, cache, reader, live, served, failures, asked, socket, records,
                    entries, inventory>>
    BY <1>5 DEF vars, rest, setup, served
  <2>2. Kept'
    BY <2>1 DEF Inv, Kept
  <2> QED BY <2>1, <2>2, Aside DEF Inv, TypeOK
<1> QED BY <1>1, <1>2, <1>3, <1>4, <1>5 DEF Next

LEMMA AlwaysInv == Spec => []Inv
<1>1. Inv /\ [Next]_vars => Inv'
  BY NextInv
<1> QED BY <1>1, InitInv, PTL DEF Spec

-----------------------------------------------------------------------------
(* The mesh, what OTBR has collected and what is read of them keep their   *)
(* types (mesh.go:103-210, client.go:839-1075).                            *)
THEOREM TypeCorrect == Spec => []TypeOK
<1>1. Inv => TypeOK
  BY DEF Inv
<1> QED BY <1>1, AlwaysInv, PTL

(* A topology holds together, whichever source it was read from: a link    *)
(* joins two nodes, a child's parent is a router in it, and no router is   *)
(* in it twice (client.go:1014-1075, mesh.go:103-140).                     *)
THEOREM AlwaysJoined == Spec => []TopologyJoined
<1>1. Inv => TopologyJoined
  BY DEF Inv, Good, Joined, TopologyJoined
<1> QED BY <1>1, AlwaysInv, PTL

(* With the socket or without it, get_topology places every node, and with *)
(* it no device twice (mcpserver/server.go:557-617, mesh.go:144-165).      *)
THEOREM EachPlacedOnce == Spec => []PlacedOnce
<1> DEFINE nodes == topology.nodes
           places == Clusters(nodes)
<1>1. ASSUME Inv PROVE Unattached(nodes) = {}
  <2> SUFFICES ASSUME NEW c \in ChildrenOf(nodes)
               PROVE  \E r \in nodes : IsRouter(r) /\ r.id = c.parent
    BY DEF Unattached
  <2>1. c \in nodes /\ ~IsRouter(c)
    BY DEF ChildrenOf
  <2>2. c.role = "child"
    BY <1>1, <2>1 DEF Inv, TypeOK, IsMesh, IsRouter
  <2>3. PICK r \in nodes : r.role = "router" /\ r.id = c.parent
    BY <1>1, <2>1, <2>2 DEF Inv, Good, Joined
  <2> QED BY <2>3 DEF IsRouter
<1>2. ASSUME Inv, socket, NEW id \in Ids(nodes)
      PROVE  Cardinality({r \in DOMAIN places : r.id = id})
             + Cardinality({p \in (DOMAIN places) \X nodes :
                              p[2].id = id /\ p[2] \in places[p[1]]}) = 1
  <2> DEFINE asRouter == {r \in DOMAIN places : r.id = id}
             asChild == {p \in (DOMAIN places) \X nodes : p[2].id = id /\ p[2] \in places[p[1]]}
  <2>1. /\ DOMAIN places = {n \in nodes : IsRouter(n)}
        /\ \A r \in DOMAIN places : places[r] = {c \in ChildrenOf(nodes) : c.parent = r.id}
    BY DEF Clusters
  <2> HIDE DEF places
  <2>2. \A n \in nodes : n.role \in {"router", "child"} /\ (IsRouter(n) <=> n.role = "router")
    BY <1>2 DEF Inv, TypeOK, IsMesh, Good, Apart, IsRouter
  <2>3. \A a, b \in nodes : IsRouter(a) /\ IsRouter(b) /\ a.id = b.id => a = b
    BY <1>2, <2>2 DEF Inv, Good, Joined
  <2>4. \A a, b \in nodes : ~IsRouter(a) /\ ~IsRouter(b) /\ a.id = b.id => a = b
    BY <1>2, <2>2 DEF Inv, Good, Apart
  <2>5. \A c \in ChildrenOf(nodes) :
          c \in nodes /\ ~IsRouter(c) /\ \A r \in nodes : IsRouter(r) => r.id # c.id
    BY DEF ChildrenOf
  <2>6. Cardinality({}) = 0
    BY FS_EmptySet
  <2>7. ASSUME \E r \in nodes : IsRouter(r) /\ r.id = id
        PROVE  Cardinality(asRouter) + Cardinality(asChild) = 1
    <3>1. PICK r \in nodes : IsRouter(r) /\ r.id = id
      BY <2>7
    <3>2. asRouter = {r}
      BY <2>1, <2>3, <3>1
    <3>3. asChild = {}
      BY <2>1, <2>5, <3>1
    <3> HIDE DEF asRouter, asChild
    <3>4. Cardinality({r}) = 1
      BY FS_Singleton
    <3>5. Cardinality(asRouter) = 1 /\ Cardinality(asChild) = 0
      BY <2>6, <3>2, <3>3, <3>4
    <3> QED BY <3>5
  <2>8. ASSUME ~\E r \in nodes : IsRouter(r) /\ r.id = id
        PROVE  Cardinality(asRouter) + Cardinality(asChild) = 1
    <3>1. PICK n \in nodes : n.id = id
      BY <1>2 DEF Ids
    <3>2. ~IsRouter(n) /\ n.role = "child" /\ n \in ChildrenOf(nodes)
      BY <2>2, <2>8, <3>1 DEF ChildrenOf
    <3>3. PICK r \in nodes : IsRouter(r) /\ r.id = n.parent
      BY <1>2, <2>2, <3>2 DEF Inv, Good, Joined
    <3>4. asRouter = {}
      BY <2>1, <2>8
    <3>5. \A p \in asChild : p = <<r, n>>
      <4> TAKE p \in asChild
      <4>1. p = <<p[1], p[2]>> /\ p[1] \in DOMAIN places /\ p[2] \in nodes
            /\ p[2].id = id /\ p[2] \in places[p[1]]
        OBVIOUS
      <4>2. p[2] = n
        BY <2>1, <2>4, <2>5, <3>1, <3>2, <4>1
      <4>3. p[1] = r
        BY <2>1, <2>3, <3>3, <4>1, <4>2
      <4> QED BY <4>1, <4>2, <4>3
    <3>6. <<r, n>> \in asChild
      <4>1. r \in DOMAIN places /\ n \in places[r]
        BY <2>1, <3>2, <3>3
      <4> QED BY <3>1, <4>1
    <3> HIDE DEF asRouter, asChild
    <3>7. asChild = {<<r, n>>}
      BY <3>5, <3>6
    <3>8. Cardinality({<<r, n>>}) = 1
      BY FS_Singleton
    <3>9. Cardinality(asRouter) = 0 /\ Cardinality(asChild) = 1
      BY <2>6, <3>4, <3>7, <3>8
    <3> QED BY <3>9
  <2>9. Cardinality(asRouter) + Cardinality(asChild) = 1
    BY <2>7, <2>8
  <2> QED BY <2>9
<1>3. Inv => PlacedOnce
  BY <1>1, <1>2 DEF PlacedOnce
<1> QED BY <1>3, AlwaysInv, PTL

(* A child that stayed with a parent that answered is in what was read,    *)
(* once, however many routers list it (mesh.go:144-165).                   *)
THEOREM SteadyChildIsThere == Spec => []SteadyChildOnce
<1>1. ASSUME Inv, NEW d \in steady, pc \notin {"routers", "children"},
             role[d] = "child", parent[d] \in DOMAIN structure.children
      PROVE  Cardinality({n \in MeshChildren(structure) : n.id = d}) = 1
  <2>1. structure \in Structures /\ OfRouters(structure) /\ d \in Devices
    BY <1>1 DEF Inv, TypeOK, Current
  <2>2. parent[d] \in Listing(structure, d)
    BY <1>1 DEF Inv, Current, Complete, Listing
  <2>3. PICK r \in FirstSighting(structure, d) : r \in DOMAIN structure.children
    BY <2>1, <2>2, FirstSightingIsOne
  <2>4. r \in structure.routers
    BY <2>1, <2>3 DEF OfRouters
  <2>5. PICK n \in MeshChildren(structure) : n.id = d
    BY <2>1, <2>3, <2>4, ChildrenAre
  <2>6. \A m \in MeshChildren(structure) : m.id = d => m = n
    BY <2>1, <2>5, ChildrenAre
  <2>7. {m \in MeshChildren(structure) : m.id = d} = {n}
    BY <2>5, <2>6
  <2> QED BY <2>7, FS_Singleton
<1>2. Inv => SteadyChildOnce
  BY <1>1 DEF SteadyChildOnce
<1> QED BY <1>2, AlwaysInv, PTL

(* No device is said to have been heard longer after it was than a kept    *)
(* structure lives and the readings took, and of the border router's own   *)
(* children the truth is told if its table could be read (mesh.go:32-34,   *)
(* 146-153, 180-190, 219-228).                                             *)
THEOREM AgesAreFollowed == Spec => AgesFollow
<1> DEFINE Follow == live' # live =>
             \A h \in live'.heard :
               /\ Silence(h.ext) < h.age + StructureTTL + spent
               /\ failures' = failures /\ parent[h.ext] = BorderRouter => h.age = Silence(h.ext)
<1>1. ASSUME Inv, [Next]_vars PROVE [Follow]_vars
  <2>1. CASE ReadLocal
    BY <1>1, <2>1, LocalIs
  <2>2. CASE Tick \/ QueryRoutersFails
    BY <2>2 DEF Tick, QueryRoutersFails, NoReading
  <2>3. CASE Mesh /\ ~Tick
    BY <2>3 DEF Mesh, Attach, Depart, Promote, Expire, Hear, Move
  <2>4. CASE Otbr \/ Sweep \/ Poll
    BY <2>4 DEF Otbr, Sweep, Poll, Answer, Lose, Collect
  <2>5. CASE Reader /\ ~ReadLocal /\ ~QueryRoutersFails
    BY <2>5 DEF Reader, ReadCollections, ShareReading, ReuseStructure, ReadStructure,
         QueryRouters, QueryChildren, QueryChildrenFails
  <2>6. CASE UNCHANGED vars
    BY <2>6 DEF vars
  <2> QED BY <1>1, <2>1, <2>2, <2>3, <2>4, <2>5, <2>6 DEF Next, Mesh, Reader
<1>2. Inv /\ [Next]_vars => [Follow]_vars
  BY <1>1
<1> QED BY <1>2, AlwaysInv, PTL DEF Spec, AgesFollow
=============================================================================
