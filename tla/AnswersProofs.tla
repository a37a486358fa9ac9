---------------------------- MODULE AnswersProofs ----------------------------
(***************************************************************************)
(* Proofs about the answers, for any number of requests, readings and      *)
(* changes of labels.                                                      *)
(***************************************************************************)
EXTENDS Answers, WellFoundedInduction, FiniteSetTheorems, TLAPS

(* The order of the tables: every set of nodes has a first one.            *)

LEMMA Smallest ==
  ASSUME NEW T \in SUBSET Nat, T # {}
  PROVE  \E x \in T : \A y \in T : x <= y
<1> DEFINE Less == {ss \in Nat \X Nat : ss[1] < ss[2]}
<1>1. IsWellFoundedOn(Less, Nat)
  BY NatLessThanWellFounded DEF OpToRel
<1> HIDE DEF Less
<1>2. PICK x \in T : \A y \in T : ~(<<y, x>> \in Less)
  BY <1>1, WFMin
<1>3. ASSUME NEW y \in T PROVE x <= y
  <2>1. x \in Nat /\ y \in Nat /\ ~(y < x)
    BY <1>2 DEF Less
  <2> QED BY <2>1
<1> QED BY <1>3

LEMMA NodesAre ==
  ASSUME NEW reading \in Readings
  PROVE  /\ \A n \in Nodes[reading] :
              n.ext \in Devices /\ n.role \in {"router", "child"} /\ n.rloc \in Nat \X Nat
         /\ \A n, m \in Nodes[reading] : n.role = m.role /\ n.rloc = m.rloc => n = m
<1> DEFINE R == MeshRouters(reading)
           C == MeshChildren(reading)
<1>1. Nodes[reading] = R \cup C
  BY DEF Nodes, MeshTopology
<1>2. reading.routers \subseteq Devices
  BY AnswersAssumption
<1>3. ASSUME NEW n \in R
      PROVE  /\ n.ext \in Devices /\ n.role = "router" /\ n.rloc = <<Number[n.ext], 0>>
             /\ n = [id |-> n.ext, role |-> "router", parent |-> NoAddress,
                     rloc |-> RlocOf(Number[n.ext]), ext |-> n.ext]
  BY <1>2 DEF MeshRouters, RlocOf
<1>4. ASSUME NEW n \in C
      PROVE  /\ n.ext \in Devices /\ n.parent \in Devices /\ n.role = "child"
             /\ n.rloc = <<Number[n.parent], Number[n.ext]>>
             /\ n = [id |-> n.ext, role |-> "child", parent |-> n.parent,
                     rloc |-> n.rloc, ext |-> n.ext]
  <2>1. PICK s \in reading.routers \X Devices :
          n = [id |-> s[2], role |-> "child", parent |-> s[1],
               rloc |-> ChildRloc(RlocOf(Number[s[1]]), Number[s[2]]), ext |-> s[2]]
    BY DEF MeshChildren, Sightings
  <2>2. ChildRloc(RlocOf(Number[s[1]]), Number[s[2]]) = <<Number[s[1]], Number[s[2]]>>
    BY DEF ChildRloc, RlocOf
  <2> QED BY <1>2, <2>1, <2>2
<1>5. \A d \in Devices : Number[d] \in Nat
  BY NumberAssumption
<1> HIDE DEF R, C
<1>6. ASSUME NEW n \in R, NEW m \in R, n.rloc = m.rloc PROVE n = m
  <2>1. n.ext = m.ext
    BY <1>3, <1>6, NumberAssumption
  <2> QED BY <1>3, <2>1
<1>7. ASSUME NEW n \in C, NEW m \in C, n.rloc = m.rloc PROVE n = m
  <2>1. n.ext = m.ext /\ n.parent = m.parent
    BY <1>4, <1>7, NumberAssumption
  <2> QED BY <1>4, <1>7, <2>1
<1>8. \A n \in R \cup C :
        n.ext \in Devices /\ n.role \in {"router", "child"} /\ n.rloc \in Nat \X Nat
  BY <1>3, <1>4, <1>5
<1>9. \A n, m \in R \cup C : n.role = m.role /\ n.rloc = m.rloc => n = m
  BY <1>3, <1>4, <1>6, <1>7
<1> QED BY <1>1, <1>8, <1>9

LEMMA FirstIsOne ==
  ASSUME NEW reading \in Readings, NEW items \in SUBSET Nodes[reading], items # {}
  PROVE  FirstOf(items) \in items
<1> DEFINE Ahead(n) == {m \in items : m.role = n.role}
<1>1. PICK n \in items :
        \A m \in items : n.role = m.role \/ (n.role = "router" /\ m.role = "child")
  <2>1. \A m \in items : m.role \in {"router", "child"}
    BY NodesAre
  <2>2. CASE \E n \in items : n.role = "router"
    BY <2>1, <2>2
  <2>3. CASE \A n \in items : n.role # "router"
    BY <2>1, <2>3
  <2> QED BY <2>2, <2>3
<1>2. PICK x \in {m.rloc[1] : m \in Ahead(n)} : \A y \in {m.rloc[1] : m \in Ahead(n)} : x <= y
  <2>1. {m.rloc[1] : m \in Ahead(n)} \in SUBSET Nat
    BY NodesAre
  <2>2. n.rloc[1] \in {m.rloc[1] : m \in Ahead(n)}
    BY <1>1
  <2>3. {m.rloc[1] : m \in Ahead(n)} # {}
    BY <2>2
  <2> HIDE DEF Ahead
  <2> QED BY <2>1, <2>3, Smallest
<1> DEFINE Closest == {m \in Ahead(n) : m.rloc[1] = x}
<1>3. PICK z \in {m.rloc[2] : m \in Closest} : \A y \in {m.rloc[2] : m \in Closest} : z <= y
  <2>1. {m.rloc[2] : m \in Closest} \in SUBSET Nat
    BY NodesAre
  <2>2. PICK m \in Closest : TRUE
    BY <1>2
  <2>3. m.rloc[2] \in {k.rloc[2] : k \in Closest}
    OBVIOUS
  <2>4. {k.rloc[2] : k \in Closest} # {}
    BY <2>3
  <2> HIDE DEF Closest
  <2> QED BY <2>1, <2>4, Smallest
<1>4. PICK a \in Closest : a.rloc[2] = z
  BY <1>3
<1>5. ASSUME NEW b \in items \ {a} PROVE Before(a, b)
  <2>1. /\ a \in Nodes[reading] /\ b \in Nodes[reading]
        /\ a.rloc \in Nat \X Nat /\ b.rloc \in Nat \X Nat
        /\ a.role = n.role /\ b.role \in {"router", "child"} /\ a.role \in {"router", "child"}
    BY <1>4, NodesAre
  <2>2. CASE b.role # n.role
    BY <1>1, <2>1, <2>2 DEF Before
  <2>3. CASE b.role = n.role /\ b.rloc[1] # x
    <3>1. x <= b.rloc[1] /\ a.rloc[1] = x
      BY <1>2, <2>3
    <3>2. a.rloc[1] < b.rloc[1]
      BY <2>1, <2>3, <3>1
    <3> QED BY <2>1, <2>3, <3>2 DEF Before
  <2>4. CASE b.role = n.role /\ b.rloc[1] = x
    <3>1. z <= b.rloc[2] /\ a.rloc[2] = z /\ a.rloc[1] = x
      BY <1>3, <1>4, <2>4
    <3>2. a.rloc # b.rloc
      BY <2>1, <2>4, NodesAre
    <3>3. a.rloc[2] # b.rloc[2]
      BY <2>1, <2>4, <3>1, <3>2
    <3>4. a.rloc[2] < b.rloc[2]
      BY <2>1, <3>1, <3>3
    <3> QED BY <2>1, <2>4, <3>1, <3>4 DEF Before
  <2> QED BY <2>2, <2>3, <2>4
<1>6. a \in items
  BY <1>4
<1> QED BY <1>5, <1>6 DEF FirstOf

LEMMA FirstIsDevice ==
  ASSUME NEW reading \in Readings, NEW items \in SUBSET Nodes[reading], items # {}
  PROVE  FirstOf(items).ext \in Devices
  BY FirstIsOne, NodesAre

LEMMA ParentIsDevice ==
  ASSUME NEW reading \in Readings, NEW items \in SUBSET Nodes[reading], NEW child
  PROVE  FindParent(child, items) \in Devices \cup {NoAddress}
<1> DEFINE reported == {i \in items : IsRouter(i) /\ child.parent \in {i.id, i.ext, i.rloc}}
           byNumber == {i \in items : IsRouter(i) /\ i.rloc[1] = child.rloc[1]}
<1>1. reported # {} => FirstOf(reported).ext \in Devices
  BY FirstIsDevice
<1>2. byNumber # {} => FirstOf(byNumber).ext \in Devices
  BY FirstIsDevice
<1>3. FindParent(child, items) =
        IF reported # {} THEN FirstOf(reported).ext
        ELSE IF byNumber # {} THEN FirstOf(byNumber).ext ELSE NoAddress
  BY DEF FindParent
<1> HIDE DEF reported, byNumber
<1> QED BY <1>1, <1>2, <1>3

LEMMA ResolvedIsDevice ==
  ASSUME NEW reading \in Readings, NEW items \in SUBSET Nodes[reading], NEW taken, NEW text
  PROVE  Resolve(items, taken, text) \in Devices \cup {NoAddress}
<1> DEFINE exact == Exact(items, taken, text)
           partial == Partial(items, taken, text)
<1>1. exact \in SUBSET Nodes[reading] /\ partial \in SUBSET Nodes[reading]
  BY DEF Exact, Partial
<1>2. Resolve(items, taken, text) =
        IF exact # {} THEN FirstOf(exact).ext
        ELSE IF Cardinality(partial) = 1 THEN FirstOf(partial).ext ELSE NoAddress
  BY DEF Resolve
<1> HIDE DEF exact, partial
<1>3. exact # {} => FirstOf(exact).ext \in Devices
  BY <1>1, FirstIsDevice
<1>4. Cardinality(partial) = 1 => partial # {}
  BY FS_EmptySet
<1>5. Cardinality(partial) = 1 => FirstOf(partial).ext \in Devices
  BY <1>1, <1>4, FirstIsDevice
<1> QED BY <1>2, <1>3, <1>5

(* Whatever is listed is a device under the name it has.                   *)
LEMMA ListedAre ==
  ASSUME NEW reading \in Readings, NEW entry \in ListDevices(Nodes[reading], labels)
  PROVE  entry.of \in Devices /\ entry.name = DisplayName(labels, entry.of)
<1>1. \A i \in Nodes[reading] : FindParent(i, Nodes[reading]) \in Devices \cup {NoAddress}
  BY ParentIsDevice
<1> QED BY <1>1, NodesAre DEF ListDevices

-----------------------------------------------------------------------------
(* The inductive invariant.                                                *)

AllNodes == UNION {Nodes[reading] : reading \in Readings}

Request ==
  [kind : Kinds \cup {"none"}, text : Texts \cup {NoName}, name : Labelled,
   pc : {"idle", "items", "labels", "write", "encode", "resolve", "store", "done"},
   slot : Slots \cup {NoSlot}, taken : [Keys -> Labelled], nodes : SUBSET AllNodes,
   todo : SUBSET (Fabrics \X {1, 2}), target : Devices \cup {NoAddress}]

Inventory == [mesh : Readings, services : [Fabrics -> Labelled \X Labelled]]

Shape ==
  /\ labels \in [Keys -> Labelled]
  /\ changes \in 0..MaxChanges
  /\ inventory \in [Slots -> Inventory]
  /\ current \in Slots
  /\ topology \in SUBSET AllNodes
  /\ due \in BOOLEAN
  /\ call \in [Calls -> Request]
  /\ since \in [Calls -> [Keys -> SUBSET Labelled]]

(* A request that is about to use an inventory or a device has it.         *)
Ready(q) ==
  /\ q.pc = "labels" /\ q.kind \in {"GET devices", "list_devices"} => q.slot \in Slots
  /\ q.pc \in {"write", "encode"} => q.slot \in Slots
  /\ q.pc = "store" => q.target \in Devices

(* The labels a request has taken are of its own time, and so are those    *)
(* that it would take now.                                                 *)
OfItsTime(q, had, now) ==
  /\ q.pc \notin {"idle", "done"} => \A k \in Keys : now[k] \in had[k]
  /\ q.pc \in {"write", "encode", "resolve"} => \A k \in Keys : q.taken[k] \in had[k]

Sound == \A c \in Calls : Ready(call[c]) /\ OfItsTime(call[c], since[c], labels)

Answered ==
  /\ \A entry \in answer.entries : entry.of \in Keys /\ entry.name \in Labelled \cup Devices
  /\ NamesOfTheRequest

LEMMA NodesOfDevices == \A n \in AllNodes : n.ext \in Devices
  BY NodesAre DEF AllNodes

LEMMA ItemsOf ==
  ASSUME Shape, NEW s \in Slots
  PROVE  inventory[s].mesh \in Readings /\ Items(s) \in SUBSET AllNodes
         /\ \A i \in Items(s) : i.ext \in Devices
<1>1. inventory[s].mesh \in Readings
  BY DEF Shape, Inventory
<1>2. Items(s) \in SUBSET AllNodes
  BY <1>1 DEF Items, AllNodes
<1> QED BY <1>1, <1>2, NodesOfDevices

LEMMA FreeIsInventory == Free \in Inventory
<1>1. AnyReading \in Readings
  BY AnswersAssumption DEF AnyReading
<1>2. Whole(NoName) \in Labelled \X Labelled
  BY DEF Whole, Labelled
<1> QED BY <1>1, <1>2 DEF Free, Inventory, Blank

LEMMA IdleIsRequest == Idle \in Request /\ Ready(Idle)
<1>1. NoLabels \in [Keys -> Labelled] /\ NoName \in Labelled
  BY DEF NoLabels, Labelled
<1> QED BY <1>1 DEF Idle, Request, Ready

LEMMA InitInv == Init => Shape /\ Sound /\ Answered
<1> SUFFICES ASSUME Init PROVE Shape /\ Sound /\ Answered
  OBVIOUS
<1>1. PICK reading \in Readings :
        /\ inventory = [s \in Slots |-> IF s = 1 THEN [Free EXCEPT !.mesh = reading] ELSE Free]
        /\ topology = Nodes[reading]
  BY DEF Init
<1>2. [Free EXCEPT !.mesh = reading] \in Inventory
  BY FreeIsInventory DEF Inventory
<1>3. inventory \in [Slots -> Inventory]
  BY <1>1, <1>2, FreeIsInventory
<1>4. topology \in SUBSET AllNodes
  BY <1>1 DEF AllNodes
<1>5. Never \in [Keys -> SUBSET Labelled]
  BY DEF Never
<1>6. labels \in [Keys -> Labelled] /\ changes \in 0..MaxChanges /\ current \in Slots /\ due \in BOOLEAN
  <2>1. FirstLabels \subseteq [Keys -> Labelled] /\ MaxInventories \in Nat \ {0} /\ MaxChanges \in Nat
    BY AnswersAssumption
  <2>2. labels \in FirstLabels /\ changes = 0 /\ current = 1 /\ due = FALSE
    BY DEF Init
  <2>3. labels \in [Keys -> Labelled]
    BY <2>1, <2>2
  <2>4. changes \in 0..MaxChanges
    BY <2>1, <2>2
  <2>5. current \in Slots
    BY <2>1, <2>2 DEF Slots
  <2>6. due \in BOOLEAN
    BY <2>2
  <2> QED BY <2>3, <2>4, <2>5, <2>6
<1>7. call \in [Calls -> Request] /\ since \in [Calls -> [Keys -> SUBSET Labelled]]
  BY <1>5, IdleIsRequest DEF Init
<1>8. Sound
  BY IdleIsRequest DEF Init, Sound, OfItsTime, Idle
<1>9. Answered
  BY DEF Init, Answered, NamesOfTheRequest, NoAnswer
<1> QED BY <1>3, <1>4, <1>6, <1>7, <1>8, <1>9 DEF Shape

LEMMA NothingAnswered == ASSUME answer' = NoAnswer PROVE Answered'
  BY DEF Answered, NamesOfTheRequest, NoAnswer

(* A request that goes on, with the store and what it has to show kept.    *)
LEMMA GoesOn ==
  ASSUME Shape, Sound, NEW c \in Calls, NEW q \in Request,
         call' = [call EXCEPT ![c] = q], UNCHANGED <<store, monitor, since>>,
         Ready(q), OfItsTime(q, since[c], labels), answer' = NoAnswer
  PROVE  Shape' /\ Sound' /\ Answered'
<1>1. Shape'
  BY DEF Shape, store, monitor
<1>2. Sound'
  BY DEF Shape, Sound, store
<1> QED BY <1>1, <1>2, NothingAnswered

(* An answer: every name in it was taken from the labels of its time.      *)
LEMMA Answers ==
  ASSUME Shape, Sound, NEW c \in Calls, NEW entries, Finish(c, entries),
         call[c].pc \notin {"idle", "done"},
         \A entry \in entries :
           \E label \in since[c][entry.of] :
             /\ entry.of \in Keys
             /\ entry.name \in Labelled \cup Devices
             /\ \/ entry.name = IF entry.of \in Fabrics THEN label ELSE NamedAs(label, entry.of)
                \/ call[c].kind = "get_history" /\ label = NoName
  PROVE  Shape' /\ Sound' /\ Answered'
<1> USE DEF Finish
<1>1. Never \in [Keys -> SUBSET Labelled]
  BY DEF Never
<1>2. inventory' \in [Slots -> Inventory]
  BY FreeIsInventory DEF Release, Shape
<1>3. /\ call' \in [Calls -> Request] /\ since' \in [Calls -> [Keys -> SUBSET Labelled]]
  BY <1>1, IdleIsRequest DEF Shape
<1>4. Shape'
  BY <1>2, <1>3 DEF Shape, store
<1>5. ASSUME NEW d \in Calls PROVE (Ready(call[d]) /\ OfItsTime(call[d], since[d], labels))'
  <2>1. CASE d = c
    <3>1. call'[d] = Idle
      BY <2>1 DEF Shape
    <3>2. Idle.pc = "idle"
      BY DEF Idle
    <3>3. call'[d].pc = "idle"
      BY <3>1, <3>2
    <3> HIDE DEF Finish
    <3> QED BY <3>3 DEF OfItsTime, Ready
  <2>2. CASE d # c
    <3>1. call'[d] = call[d] /\ since'[d] = since[d] /\ labels' = labels
      BY <2>2 DEF Shape, store
    <3> QED BY <3>1 DEF Sound, OfItsTime, Ready
  <2> QED BY <2>1, <2>2
<1>6. Answered'
  <2> SUFFICES ASSUME NEW entry \in entries
               PROVE  /\ entry.of \in Keys /\ entry.name \in Labelled \cup Devices
                      /\ \/ entry.name \in (IF entry.of \in Fabrics THEN since[c][entry.of]
                                     ELSE {NamedAs(label, entry.of) : label \in since[c][entry.of]})
                         \/ call[c].kind = "get_history" /\ NoName \in since[c][entry.of]
    BY DEF Answered, NamesOfTheRequest
  <2>1. PICK label \in since[c][entry.of] :
          /\ entry.of \in Keys
          /\ entry.name \in Labelled \cup Devices
          /\ \/ entry.name = IF entry.of \in Fabrics THEN label ELSE NamedAs(label, entry.of)
             \/ call[c].kind = "get_history" /\ label = NoName
    OBVIOUS
  <2>2. CASE entry.name = IF entry.of \in Fabrics THEN label ELSE NamedAs(label, entry.of)
    BY <2>1, <2>2
  <2>3. CASE call[c].kind = "get_history" /\ label = NoName
    BY <2>1, <2>3
  <2> QED BY <2>1, <2>2, <2>3
<1> QED BY <1>4, <1>5, <1>6 DEF Sound

-----------------------------------------------------------------------------
(* The monitor.                                                            *)

LEMMA PollDevicesInv ==
  ASSUME Shape, Sound, PollDevices PROVE Shape' /\ Sound' /\ Answered'
<1>1. PICK reading \in Readings :
        inventory' = [s \in Slots |->
          IF s = current' THEN [mesh |-> reading, services |-> FreshServices(reading)]
          ELSE IF s \in Held' THEN inventory[s] ELSE Free]
  BY DEF PollDevices
<1>2. [mesh |-> reading, services |-> FreshServices(reading)] \in Inventory
  BY FreeIsInventory DEF Inventory, Free, FreshServices
<1>3. inventory' \in [Slots -> Inventory]
  BY <1>1, <1>2, FreeIsInventory DEF Shape
<1>4. current' \in Slots
  BY DEF PollDevices
<1>5. Shape'
  BY <1>3, <1>4 DEF PollDevices, Shape, store
<1>6. Sound'
  BY DEF PollDevices, Sound, store
<1> QED BY <1>5, <1>6, NothingAnswered DEF PollDevices

LEMMA PollTopologyInv ==
  ASSUME Shape, Sound, PollTopology PROVE Shape' /\ Sound' /\ Answered'
<1>1. Items(current) \in SUBSET AllNodes
  BY ItemsOf DEF Shape
<1>2. Shape'
  BY <1>1 DEF PollTopology, Shape, store
<1>3. Sound'
  BY DEF PollTopology, Sound, store
<1> QED BY <1>2, <1>3, NothingAnswered DEF PollTopology

-----------------------------------------------------------------------------
(* The store.                                                              *)

(* A change is of the time of every request under way.                     *)
LEMMA Stored ==
  ASSUME Shape, Sound, NEW key \in Keys, NEW name \in Labelled, Store(key, name),
         UNCHANGED monitor, answer' = NoAnswer,
         call' \in [Calls -> Request],
         \A c \in Calls : \/ call'[c] = call[c]
                          \/ call'[c].pc = "done"
  PROVE  Shape' /\ Sound' /\ Answered'
<1> USE DEF Store
<1>1. labels' \in [Keys -> Labelled] /\ changes' \in 0..MaxChanges
  BY AnswersAssumption DEF Shape
<1>2. since' \in [Calls -> [Keys -> SUBSET Labelled]]
  BY DEF Shape
<1>3. Shape'
  BY <1>1, <1>2 DEF Shape, monitor
<1>4. ASSUME NEW c \in Calls PROVE (Ready(call[c]) /\ OfItsTime(call[c], since[c], labels))'
  <2>1. CASE call'[c].pc = "done"
    BY <2>1 DEF Ready, OfItsTime
  <2>2. CASE call'[c] = call[c] /\ call[c].pc \notin {"idle", "done"}
    <3>1. \A k \in Keys : since[c][k] \subseteq since'[c][k] /\ (k = key => name \in since'[c][k])
      BY <2>2 DEF Shape
    <3>2. \A k \in Keys : labels'[k] = IF k = key THEN name ELSE labels[k]
      BY DEF Shape
    <3>3. \A k \in Keys : labels[k] \in since[c][k]
      BY <2>2 DEF Sound, OfItsTime
    <3>4. \A k \in Keys : labels'[k] \in since'[c][k]
      BY <3>1, <3>2, <3>3
    <3>5. call[c].pc \in {"write", "encode", "resolve"} =>
            \A k \in Keys : call[c].taken[k] \in since'[c][k]
      BY <3>1 DEF Sound, OfItsTime
    <3> QED BY <2>2, <3>4, <3>5 DEF Sound, Ready, OfItsTime
  <2>3. CASE call'[c] = call[c] /\ call[c].pc = "idle"
    BY <2>3 DEF Ready, OfItsTime
  <2> QED BY <2>1, <2>2, <2>3
<1>5. Sound'
  BY <1>4 DEF Sound
<1> QED BY <1>3, <1>5, NothingAnswered

LEMMA SetLabelInv ==
  ASSUME Shape, Sound, NEW key \in Changing, NEW name \in Given, SetLabel(key, name)
  PROVE  Shape' /\ Sound' /\ Answered'
<1>1. key \in Keys /\ name \in Labelled
  BY AnswersAssumption
<1>2. Store(key, name) /\ UNCHANGED monitor /\ answer' = NoAnswer /\ call' = call
  BY DEF SetLabel
<1>3. call' \in [Calls -> Request]
  BY <1>2 DEF Shape
<1> QED BY <1>1, <1>2, <1>3, Stored

LEMMA RenameInv ==
  ASSUME Shape, Sound, NEW c \in Calls, Rename(c)
  PROVE  Shape' /\ Sound' /\ Answered'
<1>1. call[c].target \in Keys /\ call[c].name \in Labelled /\ call[c] \in Request
  <2>1. call[c].target \in Devices
    BY DEF Rename, At, Sound, Ready
  <2> QED BY <2>1 DEF Shape, Request, Keys
<1>2. /\ Store(call[c].target, call[c].name) /\ UNCHANGED monitor /\ answer' = NoAnswer
      /\ call' = [call EXCEPT ![c].pc = "done"]
  BY DEF Rename
<1>3. call' \in [Calls -> Request]
  BY <1>1, <1>2 DEF Shape, Request
<1>4. \A d \in Calls : call'[d] = call[d] \/ call'[d].pc = "done"
  BY <1>1, <1>2 DEF Shape, Request
<1> QED BY <1>1, <1>2, <1>3, <1>4, Stored

-----------------------------------------------------------------------------
(* The requests.                                                           *)

LEMMA BeginInv ==
  ASSUME Shape, Sound, NEW c \in Calls, NEW kind \in Kinds, NEW text \in Asked \cup {NoName},
         NEW name \in Given, Begin(c, kind, text, name)
  PROVE  Shape' /\ Sound' /\ Answered'
<1> DEFINE first == IF kind \in {"get_history", "set_device_name"} THEN "labels" ELSE "items"
           q == [Idle EXCEPT !.kind = kind, !.text = text, !.name = name, !.pc = first]
<1>1. /\ call' = [call EXCEPT ![c] = q]
      /\ since' = [since EXCEPT ![c] = [k \in Keys |-> {labels[k]}]]
      /\ answer' = NoAnswer /\ UNCHANGED <<store, monitor>>
  BY DEF Begin
<1>2. text \in Texts \cup {NoName} /\ name \in Labelled /\ first \in {"labels", "items"}
  BY AnswersAssumption
<1>3. kind \in {"GET devices", "list_devices"} => first = "items"
  OBVIOUS
<1> HIDE DEF first
<1>4. q \in Request /\ q.pc = first /\ q.kind = kind
  <2>1. Idle \in Request
    BY IdleIsRequest
  <2> QED BY <1>2, <2>1 DEF Request
<1> HIDE DEF q
<1>5. Ready(q)
  BY <1>2, <1>3, <1>4 DEF Ready
<1>6. [k \in Keys |-> {labels[k]}] \in [Keys -> SUBSET Labelled]
  BY DEF Shape
<1>7. Shape'
  BY <1>1, <1>4, <1>6 DEF Shape, store, monitor
<1>8. OfItsTime(q, [k \in Keys |-> {labels[k]}], labels)
  BY <1>2, <1>4 DEF OfItsTime
<1>9. ASSUME NEW d \in Calls PROVE (Ready(call[d]) /\ OfItsTime(call[d], since[d], labels))'
  <2>1. labels' = labels
    BY <1>1 DEF store
  <2>2. CASE d = c
    <3>1. call'[d] = q /\ since'[d] = [k \in Keys |-> {labels[k]}]
      BY <1>1, <2>2 DEF Shape
    <3> QED BY <1>5, <1>8, <2>1, <3>1 DEF Ready, OfItsTime
  <2>3. CASE d # c
    <3>1. call'[d] = call[d] /\ since'[d] = since[d]
      BY <1>1, <2>3 DEF Shape
    <3> QED BY <2>1, <3>1 DEF Sound, Ready, OfItsTime
  <2> QED BY <2>2, <2>3
<1> QED BY <1>1, <1>7, <1>9, NothingAnswered DEF Sound

LEMMA TakeItemsInv ==
  ASSUME Shape, Sound, NEW c \in Calls, TakeItems(c)
  PROVE  Shape' /\ Sound' /\ Answered'
<1> DEFINE ofTopology == [call[c] EXCEPT !.pc = "labels", !.nodes = topology]
           ofDevices == [call[c] EXCEPT !.pc = "labels", !.slot = current]
           q == IF On(c, {"topology"}) THEN ofTopology ELSE ofDevices
<1>1. call' = [call EXCEPT ![c] = q] /\ answer' = NoAnswer /\ UNCHANGED <<store, monitor, since>>
  BY DEF TakeItems, Shape
<1>2. call[c] \in Request /\ topology \in SUBSET AllNodes /\ current \in Slots
  BY DEF Shape
<1>3. ofTopology \in Request /\ ofDevices \in Request
  BY <1>2 DEF Request
<1>4. ofTopology.pc = "labels" /\ ofTopology.kind = call[c].kind
  BY <1>2 DEF Request
<1>5. ofDevices.pc = "labels" /\ ofDevices.slot = current
  BY <1>2 DEF Request
<1> HIDE DEF ofTopology, ofDevices
<1>6. q \in Request /\ q.pc = "labels"
  BY <1>3, <1>4, <1>5
<1>7. Ready(q)
  BY <1>2, <1>4, <1>5 DEF Ready, On
<1>8. OfItsTime(q, since[c], labels)
  BY <1>6 DEF OfItsTime, Sound, TakeItems, At
<1> HIDE DEF q
<1> QED BY <1>1, <1>6, <1>7, <1>8, GoesOn

LEMMA TakeLabelsInv ==
  ASSUME Shape, Sound, NEW c \in Calls, TakeLabels(c)
  PROVE  Shape' /\ Sound' /\ Answered'
<1> DEFINE unnamed == [call[c] EXCEPT !.pc = "encode", !.taken = labels]
           named == [call[c] EXCEPT !.pc = "write", !.taken = labels, !.todo = Fabrics \X {1, 2}]
           q == IF labels = NoLabels THEN unnamed ELSE named
<1>1. call' = [call EXCEPT ![c] = q] /\ answer' = NoAnswer /\ UNCHANGED <<store, monitor, since>>
  BY DEF TakeLabels, Shape
<1>2. call[c] \in Request /\ labels \in [Keys -> Labelled]
  BY DEF Shape
<1>3. unnamed \in Request /\ named \in Request
  BY <1>2 DEF Request
<1>4. unnamed.pc = "encode" /\ unnamed.taken = labels /\ unnamed.slot = call[c].slot
  BY <1>2 DEF Request
<1>5. named.pc = "write" /\ named.taken = labels /\ named.slot = call[c].slot
  BY <1>2 DEF Request
<1> HIDE DEF unnamed, named
<1>6. /\ q \in Request /\ q.pc \in {"write", "encode"}
      /\ q.taken = labels /\ q.slot = call[c].slot
  BY <1>3, <1>4, <1>5
<1> HIDE DEF q
<1>7. Ready(q)
  BY <1>6 DEF Sound, Ready, TakeLabels, At, On
<1>8. OfItsTime(q, since[c], labels)
  BY <1>6 DEF OfItsTime, Sound, TakeLabels, At
<1> QED BY <1>1, <1>6, <1>7, <1>8, GoesOn

LEMMA TakeLabelsFirstInv ==
  ASSUME Shape, Sound, NEW c \in Calls, TakeLabelsFirst(c)
  PROVE  Shape' /\ Sound' /\ Answered'
<1> DEFINE q == [call[c] EXCEPT !.pc = "resolve", !.taken = labels]
<1>1. call' = [call EXCEPT ![c] = q] /\ answer' = NoAnswer /\ UNCHANGED <<store, monitor, since>>
  BY DEF TakeLabelsFirst, Shape
<1>2. call[c] \in Request /\ labels \in [Keys -> Labelled]
  BY DEF Shape
<1>3. q \in Request /\ q.pc = "resolve" /\ q.taken = labels
  BY <1>2 DEF Request
<1> HIDE DEF q
<1>4. Ready(q)
  BY <1>3 DEF Ready
<1>5. OfItsTime(q, since[c], labels)
  BY <1>3 DEF OfItsTime, Sound, TakeLabelsFirst, At
<1> QED BY <1>1, <1>3, <1>4, <1>5, GoesOn

LEMMA FindTargetInv ==
  ASSUME Shape, Sound, NEW c \in Calls, FindTarget(c)
  PROVE  Shape' /\ Sound' /\ Answered'
<1> DEFINE found == Resolve(Items(current), call[c].taken, call[c].text)
           next == IF found = NoAddress THEN "done" ELSE "store"
           q == [call[c] EXCEPT !.target = found, !.taken = NoLabels, !.pc = next]
<1>1. call' = [call EXCEPT ![c] = q] /\ answer' = NoAnswer /\ UNCHANGED <<store, monitor, since>>
  BY DEF FindTarget, Shape
<1>2. found \in Devices \cup {NoAddress}
  <2>1. inventory[current].mesh \in Readings
    BY ItemsOf DEF Shape
  <2> QED BY <2>1, ResolvedIsDevice DEF Items
<1>3. call[c] \in Request /\ NoLabels \in [Keys -> Labelled]
  BY DEF Shape, NoLabels, Labelled
<1>4. next \in {"done", "store"} /\ (next = "store" => found # NoAddress)
  OBVIOUS
<1> HIDE DEF found, next
<1>5. q \in Request /\ q.pc = next /\ q.target = found
  BY <1>2, <1>3, <1>4 DEF Request
<1> HIDE DEF q
<1>6. Ready(q)
  BY <1>2, <1>4, <1>5 DEF Ready
<1>7. OfItsTime(q, since[c], labels)
  BY <1>4, <1>5 DEF OfItsTime, Sound, FindTarget, At
<1> QED BY <1>1, <1>5, <1>6, <1>7, GoesOn

LEMMA ForgetInv ==
  ASSUME Shape, Sound, NEW c \in Calls, Forget(c)
  PROVE  Shape' /\ Sound' /\ Answered'
<1>1. /\ call' = [call EXCEPT ![c] = Idle] /\ since' = [since EXCEPT ![c] = Never]
      /\ answer' = NoAnswer /\ UNCHANGED <<store, monitor>>
  BY DEF Forget
<1>2. Never \in [Keys -> SUBSET Labelled]
  BY DEF Never
<1>3. Shape'
  BY <1>1, <1>2, IdleIsRequest DEF Shape, store, monitor
<1>4. ASSUME NEW d \in Calls PROVE (Ready(call[d]) /\ OfItsTime(call[d], since[d], labels))'
  <2>1. CASE d = c
    <3>1. call'[d] = Idle
      BY <1>1, <2>1 DEF Shape
    <3>2. Idle.pc = "idle"
      BY DEF Idle
    <3> QED BY <3>1, <3>2 DEF OfItsTime, Ready
  <2>2. CASE d # c
    <3>1. call'[d] = call[d] /\ since'[d] = since[d] /\ labels' = labels
      BY <1>1, <2>2 DEF Shape, store
    <3> QED BY <3>1 DEF Sound, OfItsTime, Ready
  <2> QED BY <2>1, <2>2
<1> QED BY <1>1, <1>3, <1>4, NothingAnswered DEF Sound

LEMMA OneWord ==
  ASSUME NEW S, NEW pair \in S \X S, NEW n \in {1, 2}, NEW word \in S
  PROVE  [pair EXCEPT ![n] = word] \in S \X S
<1>1. CASE n = 1  BY <1>1
<1>2. CASE n = 2  BY <1>2
<1> QED BY <1>1, <1>2

(* Each word of a service's name stays one of a label.                     *)
LEMMA WriteWordInv ==
  ASSUME Shape, Sound, NEW c \in Calls, WriteWord(c)
  PROVE  Shape' /\ Sound' /\ Answered'
<1>1. PICK word \in call[c].todo :
        /\ inventory' = [inventory EXCEPT ![call[c].slot].services[word[1]][word[2]] =
                           call[c].taken[word[1]]]
        /\ call' = [call EXCEPT ![c].todo = call[c].todo \ {word},
                                ![c].pc = IF call[c].todo \ {word} = {} THEN "encode" ELSE "write"]
  BY DEF WriteWord
<1>2. call[c].pc = "write" /\ UNCHANGED <<store, current, topology, due, since>> /\ answer' = NoAnswer
  BY DEF WriteWord, At
<1> DEFINE s == call[c].slot
           f == word[1]
           name == call[c].taken[f]
           old == inventory[s].services[f]
           pair == [old EXCEPT ![word[2]] = name]
           left == call[c].todo \ {word}
           next == IF left = {} THEN "encode" ELSE "write"
           q == [call[c] EXCEPT !.todo = left, !.pc = next]
<1>3. call[c] \in Request /\ s \in Slots
  BY <1>2 DEF Shape, Sound, Ready
<1>4. f \in Fabrics /\ word[2] \in {1, 2}
  BY <1>3 DEF Request
<1>5. name \in Labelled /\ inventory[s] \in Inventory
  BY <1>3, <1>4 DEF Request, Shape, Keys
<1>6. old \in Labelled \X Labelled
  BY <1>4, <1>5 DEF Inventory
<1>7. pair \in Labelled \X Labelled
  <2> HIDE DEF old, name
  <2> QED BY <1>4, <1>5, <1>6, OneWord
<1> DEFINE services == [inventory[s].services EXCEPT ![f] = pair]
           item == [inventory[s] EXCEPT !.services = services]
<1>8. inventory' = [inventory EXCEPT ![s] = item]
  BY <1>1
<1>9. services \in [Fabrics -> Labelled \X Labelled]
  <2> HIDE DEF pair
  <2> QED BY <1>4, <1>5, <1>7 DEF Inventory
<1>10. item \in Inventory
  <2> HIDE DEF services
  <2> QED BY <1>5, <1>9 DEF Inventory
<1>11. call' = [call EXCEPT ![c] = q]
  BY <1>1
<1>12. left \in SUBSET (Fabrics \X {1, 2}) /\ next \in {"encode", "write"}
  BY <1>3 DEF Request
<1> HIDE DEF item, left, next
<1>13. /\ q \in Request /\ q.pc \in {"encode", "write"}
       /\ q.slot = call[c].slot /\ q.taken = call[c].taken
  BY <1>3, <1>12 DEF Request
<1> HIDE DEF q
<1>14. Shape'
  BY <1>2, <1>8, <1>10, <1>11, <1>13 DEF Shape, store
<1>15. Ready(q) /\ OfItsTime(q, since[c], labels)
  <2>1. Ready(q)
    BY <1>3, <1>13 DEF Ready
  <2>2. OfItsTime(call[c], since[c], labels)
    BY DEF Sound
  <2> QED BY <1>2, <1>13, <2>1, <2>2 DEF OfItsTime
<1>16. ASSUME NEW d \in Calls PROVE (Ready(call[d]) /\ OfItsTime(call[d], since[d], labels))'
  <2>1. since' = since /\ labels' = labels
    BY <1>2 DEF store
  <2>2. CASE d = c
    <3>1. call'[d] = q
      BY <1>11, <2>2 DEF Shape
    <3> QED BY <1>15, <2>1, <2>2, <3>1 DEF Ready, OfItsTime
  <2>3. CASE d # c
    <3>1. call'[d] = call[d]
      BY <1>11, <2>3 DEF Shape
    <3> QED BY <2>1, <3>1 DEF Sound, Ready, OfItsTime
  <2> QED BY <2>2, <2>3
<1> QED BY <1>2, <1>14, <1>16, NothingAnswered DEF Sound

-----------------------------------------------------------------------------
(* The answers.                                                            *)

LEMMA NamedIs ==
  ASSUME NEW label \in Labelled, NEW ext \in Devices
  PROVE  ext \in Keys /\ ext \notin Fabrics /\ NamedAs(label, ext) \in Labelled \cup Devices
<1>1. ProviderName[ext] \in Labelled
  BY NamesAssumption DEF Labelled
<1> QED BY <1>1, AnswersAssumption DEF NamedAs, Keys

LEMMA AnswerDevicesInv ==
  ASSUME Shape, Sound, NEW c \in Calls, AnswerDevices(c)
  PROVE  Shape' /\ Sound' /\ Answered'
<1> DEFINE listed == ListDevices(Items(call[c].slot), labels)
           fabrics == {[of |-> f, name |-> FabricNamed(labels, call[c].slot, f)] : f \in Fabrics}
<1>1. Finish(c, listed \cup fabrics) /\ call[c].pc = "labels" /\ call[c].kind = "list_devices"
  BY DEF AnswerDevices, At, On
<1>2. call[c].slot \in Slots
  BY <1>1 DEF Sound, Ready
<1>3. inventory[call[c].slot].mesh \in Readings
  BY <1>2, ItemsOf
<1>4. \A k \in Keys : labels[k] \in since[c][k] /\ labels[k] \in Labelled
  BY <1>1 DEF Sound, OfItsTime, Shape
<1>5. ASSUME NEW entry \in listed
      PROVE  /\ entry.of \in Keys /\ entry.of \notin Fabrics
             /\ entry.name = NamedAs(labels[entry.of], entry.of)
             /\ entry.name \in Labelled \cup Devices
  <2>1. entry.of \in Devices /\ entry.name = NamedAs(labels[entry.of], entry.of)
    BY <1>3, ListedAre DEF Items, DisplayName
  <2>2. labels[entry.of] \in Labelled
    BY <1>4, <2>1 DEF Keys
  <2> QED BY <2>1, <2>2, NamedIs
<1>6. ASSUME NEW entry \in fabrics
      PROVE  entry.of \in Fabrics /\ entry.of \in Keys /\ entry.name = labels[entry.of]
  BY DEF FabricNamed, Keys
<1> HIDE DEF listed, fabrics
<1>7. ASSUME NEW entry \in listed \cup fabrics
      PROVE  \E label \in since[c][entry.of] :
               /\ entry.of \in Keys
               /\ entry.name \in Labelled \cup Devices
               /\ \/ entry.name = IF entry.of \in Fabrics THEN label ELSE NamedAs(label, entry.of)
                  \/ call[c].kind = "get_history" /\ label = NoName
  <2>1. CASE entry \in listed
    <3>1. labels[entry.of] \in since[c][entry.of]
      BY <1>4, <1>5, <2>1
    <3> QED BY <1>5, <2>1, <3>1
  <2>2. CASE entry \in fabrics
    <3>1. labels[entry.of] \in since[c][entry.of] /\ labels[entry.of] \in Labelled
      BY <1>4, <1>6, <2>2
    <3> QED BY <1>6, <2>2, <3>1
  <2> QED BY <2>1, <2>2
<1> QED BY <1>1, <1>7, Answers

LEMMA AnswerTopologyInv ==
  ASSUME Shape, Sound, NEW c \in Calls, AnswerTopology(c)
  PROVE  Shape' /\ Sound' /\ Answered'
<1> DEFINE entries == {[of |-> n.ext, name |-> DisplayName(labels, n.ext)] : n \in call[c].nodes}
<1>1. Finish(c, entries) /\ call[c].pc = "labels"
  BY DEF AnswerTopology, At
<1>2. call[c].nodes \in SUBSET AllNodes
  BY DEF Shape, Request
<1>3. \A k \in Keys : labels[k] \in since[c][k] /\ labels[k] \in Labelled
  BY <1>1 DEF Sound, OfItsTime, Shape
<1>4. ASSUME NEW entry \in entries
      PROVE  \E label \in since[c][entry.of] :
               /\ entry.of \in Keys
               /\ entry.name \in Labelled \cup Devices
               /\ \/ entry.name = IF entry.of \in Fabrics THEN label ELSE NamedAs(label, entry.of)
                  \/ call[c].kind = "get_history" /\ label = NoName
  <2>1. entry.of \in Devices /\ entry.name = NamedAs(labels[entry.of], entry.of)
    BY <1>2, NodesOfDevices DEF DisplayName
  <2>2. labels[entry.of] \in since[c][entry.of] /\ labels[entry.of] \in Labelled
    BY <1>3, <2>1 DEF Keys
  <2>3. /\ entry.of \in Keys /\ entry.of \notin Fabrics
        /\ NamedAs(labels[entry.of], entry.of) \in Labelled \cup Devices
    BY <2>1, <2>2, NamedIs
  <2> QED BY <2>1, <2>2, <2>3
<1> HIDE DEF entries
<1> QED BY <1>1, <1>4, Answers

LEMMA EncodeInv ==
  ASSUME Shape, Sound, NEW c \in Calls, Encode(c)
  PROVE  Shape' /\ Sound' /\ Answered'
<1> DEFINE entries == {[of |-> i.ext, name |-> DisplayName(call[c].taken, i.ext)] :
                       i \in Items(call[c].slot)}
<1>1. Finish(c, entries) /\ call[c].pc = "encode"
  BY DEF Encode, At
<1>2. call[c].slot \in Slots
  BY <1>1 DEF Sound, Ready
<1>3. \A k \in Keys : call[c].taken[k] \in since[c][k] /\ call[c].taken[k] \in Labelled
  BY <1>1 DEF Sound, OfItsTime, Shape, Request
<1>4. \A i \in Items(call[c].slot) : i.ext \in Devices
  BY <1>2, ItemsOf
<1>5. ASSUME NEW entry \in entries
      PROVE  \E label \in since[c][entry.of] :
               /\ entry.of \in Keys
               /\ entry.name \in Labelled \cup Devices
               /\ \/ entry.name = IF entry.of \in Fabrics THEN label ELSE NamedAs(label, entry.of)
                  \/ call[c].kind = "get_history" /\ label = NoName
  <2>1. entry.of \in Devices /\ entry.name = NamedAs(call[c].taken[entry.of], entry.of)
    BY <1>4 DEF DisplayName
  <2>2. call[c].taken[entry.of] \in since[c][entry.of] /\ call[c].taken[entry.of] \in Labelled
    BY <1>3, <2>1 DEF Keys
  <2>3. /\ entry.of \in Keys /\ entry.of \notin Fabrics
        /\ NamedAs(call[c].taken[entry.of], entry.of) \in Labelled \cup Devices
    BY <2>1, <2>2, NamedIs
  <2> QED BY <2>1, <2>2, <2>3
<1> HIDE DEF entries
<1> QED BY <1>1, <1>5, Answers

LEMMA AnswerHistoryInv ==
  ASSUME Shape, Sound, NEW c \in Calls, AnswerHistory(c)
  PROVE  Shape' /\ Sound' /\ Answered'
<1> DEFINE text == call[c].text
           items == Items(current)
           taken == call[c].taken
           found == IF text = NoName THEN NoAddress ELSE Resolve(items, taken, text)
           shown == {e \in Events : \/ text \in {NoName, e.ext}
                                    \/ \E i \in items : i.ext = found /\ Matches(e, i)}
           entries == {[of |-> e.ext, name |-> EventName(taken, e.ext, found)] : e \in shown}
<1>1. Finish(c, entries) /\ call[c].pc = "resolve" /\ call[c].kind = "get_history"
  BY DEF AnswerHistory, At, On
<1>2. found \in Devices \cup {NoAddress}
  <2>1. inventory[current].mesh \in Readings
    BY ItemsOf DEF Shape
  <2>2. Resolve(items, taken, text) \in Devices \cup {NoAddress}
    BY <2>1, ResolvedIsDevice DEF Items
  <2> QED BY <2>2
<1>3. \A k \in Keys : taken[k] \in since[c][k] /\ taken[k] \in Labelled
  BY <1>1 DEF Sound, OfItsTime, Shape, Request
<1>4. \A e \in Events : e.ext \in Devices
  BY NodesOfDevices DEF Events, AllNodes
<1> HIDE DEF found, taken
<1>5. ASSUME NEW entry \in entries
      PROVE  \E label \in since[c][entry.of] :
               /\ entry.of \in Keys
               /\ entry.name \in Labelled \cup Devices
               /\ \/ entry.name = IF entry.of \in Fabrics THEN label ELSE NamedAs(label, entry.of)
                  \/ call[c].kind = "get_history" /\ label = NoName
  <2>1. entry.of \in Devices /\ entry.name = EventName(taken, entry.of, found)
    BY <1>4
  <2>2. taken[entry.of] \in since[c][entry.of] /\ taken[entry.of] \in Labelled
    BY <1>3, <2>1 DEF Keys
  <2>3. entry.of \in Keys /\ entry.of \notin Fabrics
    BY <2>1, <2>2, NamedIs
  <2>4. CASE taken[entry.of] # NoName
    <3>1. entry.name = taken[entry.of] /\ entry.name = NamedAs(taken[entry.of], entry.of)
      BY <2>1, <2>4 DEF EventName, NamedAs
    <3> QED BY <2>2, <2>3, <3>1
  <2>5. CASE taken[entry.of] = NoName
    <3>1. entry.name = IF found # NoAddress THEN NamedAs(taken[found], found) ELSE entry.of
      BY <2>1, <2>5 DEF EventName, DisplayName
    <3>2. found # NoAddress => NamedAs(taken[found], found) \in Labelled \cup Devices
      <4>1. found # NoAddress => found \in Devices /\ taken[found] \in Labelled
        BY <1>2, <1>3 DEF Keys
      <4> QED BY <4>1, NamedIs
    <3>3. entry.name \in Labelled \cup Devices
      BY <2>1, <3>1, <3>2
    <3> QED BY <1>1, <2>2, <2>3, <2>5, <3>3
  <2> QED BY <2>4, <2>5
<1> HIDE DEF entries
<1> QED BY <1>1, <1>5, Answers

-----------------------------------------------------------------------------
LEMMA StutterInv ==
  ASSUME Shape, Sound, Answered, UNCHANGED vars PROVE Shape' /\ Sound' /\ Answered'
<1> USE DEF vars, store, monitor
<1>1. Shape'
  BY DEF Shape
<1>2. Sound'
  BY DEF Sound
<1>3. Answered'
  BY DEF Answered, NamesOfTheRequest
<1> QED BY <1>1, <1>2, <1>3

LEMMA HandleInv ==
  ASSUME Shape, Sound, NEW c \in Calls, Handle(c) PROVE Shape' /\ Sound' /\ Answered'
<1>1. CASE TakeItems(c)        BY <1>1, TakeItemsInv
<1>2. CASE AnswerDevices(c)    BY <1>2, AnswerDevicesInv
<1>3. CASE AnswerTopology(c)   BY <1>3, AnswerTopologyInv
<1>4. CASE TakeLabels(c)       BY <1>4, TakeLabelsInv
<1>5. CASE WriteWord(c)        BY <1>5, WriteWordInv
<1>6. CASE Encode(c)           BY <1>6, EncodeInv
<1>7. CASE TakeLabelsFirst(c)  BY <1>7, TakeLabelsFirstInv
<1>8. CASE AnswerHistory(c)    BY <1>8, AnswerHistoryInv
<1>9. CASE FindTarget(c)       BY <1>9, FindTargetInv
<1>10. CASE Rename(c)          BY <1>10, RenameInv
<1>11. CASE Forget(c)          BY <1>11, ForgetInv
<1> QED BY <1>1, <1>2, <1>3, <1>4, <1>5, <1>6, <1>7, <1>8, <1>9, <1>10, <1>11 DEF Handle

LEMMA NextInv ==
  ASSUME Shape, Sound, Answered, [Next]_vars PROVE Shape' /\ Sound' /\ Answered'
<1>1. CASE PollDevices   BY <1>1, PollDevicesInv
<1>2. CASE PollTopology  BY <1>2, PollTopologyInv
<1>3. CASE \E key \in Changing, name \in Given : SetLabel(key, name)
  BY <1>3, SetLabelInv
<1>4. CASE \E c \in Calls, kind \in Kinds, text \in Asked \cup {NoName}, name \in Given :
             Begin(c, kind, text, name)
  BY <1>4, BeginInv
<1>5. CASE \E c \in Calls : Handle(c)
  BY <1>5, HandleInv
<1>6. CASE UNCHANGED vars
  BY <1>6, StutterInv
<1> QED BY <1>1, <1>2, <1>3, <1>4, <1>5, <1>6 DEF Next

LEMMA AlwaysSound == Spec => [](Shape /\ Sound /\ Answered)
<1>1. Init => Shape /\ Sound /\ Answered
  BY InitInv
<1>2. (Shape /\ Sound /\ Answered) /\ [Next]_vars => (Shape /\ Sound /\ Answered)'
  BY NextInv
<1> QED BY <1>1, <1>2, PTL DEF Spec

LEMMA SoundIsTyped == Shape /\ Sound /\ Answered => TypeOK
<1> SUFFICES ASSUME Shape, Sound, Answered PROVE TypeOK
  OBVIOUS
<1>1. ASSUME NEW c \in Calls
      PROVE  /\ call[c].kind \in Kinds \cup {"none"}
             /\ call[c].pc \in {"idle", "items", "labels", "write", "encode", "resolve",
                                "store", "done"}
             /\ call[c].slot \in Slots \cup {NoSlot}
             /\ call[c].pc = "store" => call[c].target \in Devices
  <2>1. call[c] \in Request
    BY DEF Shape
  <2>2. call[c].pc = "store" => call[c].target \in Devices
    BY DEF Sound, Ready
  <2> QED BY <2>1, <2>2 DEF Request
<1> QED BY <1>1 DEF Shape, Inventory, Answered, TypeOK

(* Every variable keeps its type; in particular a request is about to      *)
(* store a label only for a device that its text was found to stand for    *)
(* (mcpserver/server.go:1193-1247).                                        *)
THEOREM TypeCorrect == Spec => []TypeOK
  BY AlwaysSound, SoundIsTyped, PTL

(* Whichever inventories the monitor serves meanwhile, whatever other      *)
(* requests write into the services they share and whoever changes labels, *)
(* the names in an answer are names its devices and fabrics had while it   *)
(* was made, for any number of requests and of readings                    *)
(* (api/server.go:554-577, mcpserver/server.go:425-437, 1090-1105).        *)
THEOREM NamesAreOfTheRequest == Spec => []NamesOfTheRequest
<1>1. Answered => NamesOfTheRequest
  BY DEF Answered
<1> QED BY <1>1, AlwaysSound, PTL

(* An RLOC16 is one device's: a router's has no child number.              *)
LEMMA RlocOfOne ==
  ASSUME NEW reading \in Readings, NEW i \in Nodes[reading], NEW j \in Nodes[reading],
         i.rloc = j.rloc
  PROVE  i.ext = j.ext
<1>1. ASSUME NEW n \in Nodes[reading]
      PROVE  n.rloc[2] = IF n.role = "router" THEN 0 ELSE Number[n.ext]
  <2>1. CASE n \in MeshRouters(reading)
    BY <2>1 DEF MeshRouters, RlocOf
  <2>2. CASE n \in MeshChildren(reading)
    BY <2>2 DEF MeshChildren, ChildRloc, RlocOf
  <2> QED BY <2>1, <2>2 DEF Nodes, MeshTopology
<1>2. /\ i.ext \in Devices /\ i.role \in {"router", "child"}
      /\ j.ext \in Devices /\ j.role \in {"router", "child"}
  BY NodesAre
<1>3. Number[i.ext] # 0 /\ Number[j.ext] # 0
  BY <1>2, NumberAssumption
<1>4. i.role = j.role
  BY <1>1, <1>2, <1>3
<1> QED BY <1>4, NodesAre

(* A text that is exactly one device's stands for it.                      *)
LEMMA ExactIsFound ==
  ASSUME NEW reading \in Readings, NEW i \in Nodes[reading], NEW names, NEW text,
         text \in KeysOf(names, i.ext) \cup {i.rloc},
         \A j \in Nodes[reading] :
           j.ext # i.ext => text \notin KeysOf(names, j.ext) \cup {j.rloc}
  PROVE  Resolve(Nodes[reading], names, text) = i.ext
<1> DEFINE exact == Exact(Nodes[reading], names, text)
<1>1. exact \in SUBSET Nodes[reading] /\ i \in exact
      /\ \A j \in exact : j.ext = i.ext
  BY DEF Exact
<1>2. exact # {} => Resolve(Nodes[reading], names, text) = FirstOf(exact).ext
  BY DEF Resolve
<1> HIDE DEF exact
<1>3. FirstOf(exact) \in exact
  BY <1>1, FirstIsOne
<1> QED BY <1>1, <1>2, <1>3

(* A device can be named as it is shown: its name and its RLOC16 stand for *)
(* it, also when other names contain them, unless they are a name or an    *)
(* address of another one (mcpserver/server.go:1221-1247).                 *)
THEOREM ShownNamesResolve == Spec => []ShownNameResolves
<1>1. ASSUME Shape, NEW i \in Items(current),
             \A j \in {j \in Items(current) : j.ext # i.ext} :
               DisplayName(labels, i.ext) \notin KeysOf(labels, j.ext) \cup {j.rloc}
      PROVE  Resolve(Items(current), labels, DisplayName(labels, i.ext)) = i.ext
  <2>1. inventory[current].mesh \in Readings /\ i.ext \in Devices
    BY <1>1, ItemsOf DEF Shape
  <2>2. DisplayName(labels, i.ext) # NoName
    BY <2>1, NamesAssumption DEF DisplayName, NamedAs
  <2>3. DisplayName(labels, i.ext) \in KeysOf(labels, i.ext)
    BY <2>2 DEF KeysOf
  <2> QED BY <1>1, <2>1, <2>3, ExactIsFound DEF Items
<1>2. ASSUME Shape, NEW i \in Items(current),
             \A j \in {j \in Items(current) : j.ext # i.ext} : i.rloc \notin KeysOf(labels, j.ext)
      PROVE  Resolve(Items(current), labels, i.rloc) = i.ext
  <2>1. inventory[current].mesh \in Readings
    BY <1>2, ItemsOf DEF Shape
  <2>2. \A j \in Items(current) : j.ext # i.ext => i.rloc # j.rloc
    BY <2>1, RlocOfOne DEF Items
  <2> QED BY <1>2, <2>1, <2>2, ExactIsFound DEF Items
<1>3. Shape => ShownNameResolves
  BY <1>1, <1>2 DEF ShownNameResolves
<1> QED BY <1>3, AlwaysSound, PTL
=============================================================================
