------------------------------ MODULE Answers --------------------------------
(***************************************************************************)
(* The requests that are answered from what the monitor serves and from    *)
(* the labels: the device and topology routes of internal/api/server.go    *)
(* and the tools of internal/mcpserver/server.go.  Each runs in its own    *)
(* goroutine and takes the inventory and the labels one after the other,   *)
(* while the monitor replaces the inventory and other requests change      *)
(* labels.                                                                 *)
(*                                                                         *)
(* A copy of the inventory shares the services of its items with the       *)
(* monitor and with every other copy, and the device route writes the      *)
(* fabrics' names into them.  Writing a string stores two words: a name is *)
(* the pair of what the one and the other were stored for.                 *)
(***************************************************************************)
EXTENDS DeviceNames, TLC

CONSTANTS
  Calls,       \* bound: the requests under way at a time
  Fabrics,     \* the Matter fabrics that devices advertise themselves in
  Readings,    \* the structures of the mesh that a poll may find
  FirstLabels, \* the labels the program may start with
  MaxInventories,  \* bound on the inventories in use at a time
  MaxChanges,  \* bound on the changes of labels
  MayBe,       \* bound: the kinds of request that each of Calls may be
  Changing,    \* bound: the devices and fabrics whose labels routes change
  Asked, Given \* bound: the texts and the names that requests give

Keys == Devices \cup Fabrics
Labelled == Names \cup {NoName}
Slots == 1..MaxInventories
NoSlot == 0
Texts == Names \cup Devices
Kinds == {"GET devices", "list_devices", "topology", "get_history",
          "set_device_name"}

ASSUME AnswersAssumption ==
  /\ Fabrics \cap Devices = {}
  /\ Readings # {} /\ \A reading \in Readings : reading.routers \subseteq Devices
  /\ IsFiniteSet(Calls)
  /\ FirstLabels \subseteq [Keys -> Labelled]
  /\ MaxInventories \in Nat \ {0} /\ MaxChanges \in Nat
  /\ MayBe \in [Calls -> SUBSET Kinds]
  /\ Changing \subseteq Keys
  /\ Asked \subseteq Texts /\ Given \subseteq Labelled

VARIABLES
  labels,    \* what the store serves
  changes,   \* how often it changed
  inventory, \* inventory[s]: the reading it was made of, and services[f], the
             \* two words of fabric f's name in its items
  current,   \* the slot of the inventory that the monitor serves
  topology,  \* the nodes of the topology it serves
  due,       \* whether its poll has still to read the topology
  call,      \* call[c]: the request, where it is, and what it has so far
  since,     \* history: since[c][k], the labels k has had since c began
  answer     \* what was answered in the last step, and to which kind of
             \* request, with what had been since it began

monitor == <<inventory, current, topology, due>>
store == <<labels, changes>>
vars == <<store, monitor, call, since, answer>>

Nodes == [reading \in Readings |-> MeshTopology(reading).nodes]
Items(s) == Nodes[inventory[s].mesh]
Whole(name) == <<name, name>>
Blank == [f \in Fabrics |-> Whole(NoName)]
AnyReading == CHOOSE reading \in Readings : TRUE
Free == [mesh |-> AnyReading, services |-> Blank]

NoLabels == [k \in Keys |-> NoName]

Idle == [kind |-> "none", text |-> NoName, name |-> NoName, pc |-> "idle",
         slot |-> NoSlot, taken |-> NoLabels, nodes |-> {}, todo |-> {}, target |-> NoAddress]
Never == [k \in Keys |-> {}]
NoAnswer == [kind |-> "none", entries |-> {}, had |-> Never]

TypeOK ==
  /\ labels \in [Keys -> Labelled]
  /\ changes \in 0..MaxChanges
  /\ inventory \in [Slots -> [mesh : Readings,
                             services : [Fabrics -> Labelled \X Labelled]]]
  /\ current \in Slots
  /\ due \in BOOLEAN
  /\ \A c \in Calls :
       /\ call[c].kind \in Kinds \cup {"none"}
       /\ call[c].pc \in {"idle", "items", "labels", "write", "encode", "resolve",
                          "store", "done"}
       /\ call[c].slot \in Slots \cup {NoSlot}
       /\ call[c].pc = "store" => call[c].target \in Devices
  /\ \A entry \in answer.entries :
       entry.of \in Keys /\ entry.name \in Labelled \cup Devices

Init ==
  /\ labels \in FirstLabels /\ changes = 0
  /\ \E reading \in Readings :
       /\ inventory = [s \in Slots |-> IF s = 1 THEN [Free EXCEPT !.mesh = reading] ELSE Free]
       /\ topology = Nodes[reading]
  /\ current = 1 /\ due = FALSE
  /\ call = [c \in Calls |-> Idle]
  /\ since = [c \in Calls |-> Never]
  /\ answer = NoAnswer

-----------------------------------------------------------------------------
(* The monitor.  A slot that neither it nor a request holds is free.       *)

Held == {current} \cup {call[c].slot : c \in Calls}
Release == inventory' = [s \in Slots |-> IF s \in Held' THEN inventory[s] ELSE Free]

(* Defect: the items of the new inventory keep the services they had.      *)
KeptServices(reading) == inventory[current].services

(* applyRegistration: the services are the registry's own, without names.  *)
FreshServices(reading) == Blank

PollDevices ==
  /\ answer' = NoAnswer
  /\ ~due /\ Slots \ Held # {}
  /\ current' = CHOOSE s \in Slots : s \notin Held
  /\ due' = TRUE
  /\ UNCHANGED <<store, topology, call, since>>
  /\ \E reading \in Readings :
       inventory' = [s \in Slots |->
         IF s = current' THEN [mesh |-> reading, services |-> FreshServices(reading)]
         ELSE IF s \in Held' THEN inventory[s] ELSE Free]

PollTopology ==
  /\ answer' = NoAnswer
  /\ due
  /\ due' = FALSE
  /\ topology' = Items(current)
  /\ UNCHANGED <<store, inventory, current, call, since>>

-----------------------------------------------------------------------------
(* The store: its changes are atomic, whoever asks for them.               *)

Store(key, name) ==
  /\ changes < MaxChanges
  /\ changes' = changes + 1
  /\ labels' = [labels EXCEPT ![key] = name]
  /\ since' = [c \in Calls |-> [since[c] EXCEPT ![key] =
                 IF call[c].pc \in {"idle", "done"} THEN @ ELSE @ \cup {name}]]

(* The name routes and set_fabric_name: an empty name clears a label.      *)
SetLabel(key, name) ==
  /\ answer' = NoAnswer
  /\ name # labels[key]
  /\ Store(key, name)
  /\ UNCHANGED <<monitor, call>>

-----------------------------------------------------------------------------
(* The requests.                                                           *)

At(c, pc) == call[c].pc = pc
On(c, kinds) == call[c].kind \in kinds
Finish(c, entries) ==
  /\ call' = [call EXCEPT ![c] = Idle]
  /\ answer' = [kind |-> call[c].kind, entries |-> entries, had |-> since[c]]
  /\ since' = [since EXCEPT ![c] = Never]
  /\ UNCHANGED <<store, current, topology, due>>
  /\ Release

Begin(c, kind, text, name) ==
  /\ answer' = NoAnswer
  /\ At(c, "idle") /\ kind \in MayBe[c]
  /\ kind \notin {"get_history", "set_device_name"} => text = NoName
  /\ kind = "set_device_name" => text # NoName /\ changes < MaxChanges
  /\ kind # "set_device_name" => name = CHOOSE n \in Given : TRUE
  /\ call' = [call EXCEPT ![c] =
       [Idle EXCEPT !.kind = kind, !.text = text, !.name = name,
                    !.pc = IF kind \in {"get_history", "set_device_name"}
                           THEN "labels" ELSE "items"]]
  /\ since' = [since EXCEPT ![c] = [k \in Keys |-> {labels[k]}]]
  /\ UNCHANGED <<store, monitor>>

(* DeviceSnapshot, TopologySnapshot: the items are copied, what they point *)
(* to is not.                                                              *)
TakeItems(c) ==
  /\ answer' = NoAnswer
  /\ At(c, "items")
  /\ IF On(c, {"topology"})
     THEN call' = [call EXCEPT ![c].pc = "labels", ![c].nodes = topology]
     ELSE call' = [call EXCEPT ![c].pc = "labels", ![c].slot = current]
  /\ UNCHANGED <<store, monitor, since>>

(* Defect: a name that another request has stored already is left.         *)
OverlaidIfBlank(taken, s, f) ==
  LET served == inventory[s].services[f][1]
  IN  IF served # NoName THEN served ELSE taken[f]

(* fabricNamed: a copy of the services, named anew.                        *)
FabricNamed(taken, s, f) == taken[f]

(* list_devices: the rest is made of copies alone.  A role or a query that *)
(* is given selects among these entries.                                   *)
AnswerDevices(c) ==
  /\ At(c, "labels") /\ On(c, {"list_devices"})
  /\ Finish(c, ListDevices(Items(call[c].slot), labels) \cup
               {[of |-> f, name |-> FabricNamed(labels, call[c].slot, f)] : f \in Fabrics})

(* get_topology and the topology route.                                    *)
AnswerTopology(c) ==
  /\ At(c, "labels") /\ On(c, {"topology"})
  /\ Finish(c, {[of |-> n.ext, name |-> DisplayName(labels, n.ext)] : n \in call[c].nodes})

(* applyDeviceNames: without any label it does nothing.                    *)
TakeLabels(c) ==
  /\ answer' = NoAnswer
  /\ At(c, "labels") /\ On(c, {"GET devices"})
  /\ IF labels = NoLabels
     THEN call' = [call EXCEPT ![c].pc = "encode", ![c].taken = labels]
     ELSE call' = [call EXCEPT ![c].pc = "write", ![c].taken = labels,
                               ![c].todo = Fabrics \X {1, 2}]
  /\ UNCHANGED <<store, monitor, since>>

(* ... and a fabric's name is written over the one of its services.        *)
WriteWord(c) ==
  /\ answer' = NoAnswer
  /\ At(c, "write")
  /\ \E word \in call[c].todo :
       LET f == word[1]
           left == call[c].todo \ {word}
       IN  /\ inventory' = [inventory EXCEPT ![call[c].slot].services[f][word[2]] =
                             call[c].taken[f]]
           /\ call' = [call EXCEPT ![c].todo = left,
                                   ![c].pc = IF left = {} THEN "encode" ELSE "write"]
  /\ UNCHANGED <<store, current, topology, due, since>>

(* The items are encoded, with the services as they are by now.            *)
Encode(c) ==
  /\ At(c, "encode")
  /\ Finish(c, {[of |-> i.ext, name |-> DisplayName(call[c].taken, i.ext)] :
                i \in Items(call[c].slot)})

(* A tool that is told a device takes the labels before it looks for it.   *)
TakeLabelsFirst(c) ==
  /\ answer' = NoAnswer
  /\ At(c, "labels") /\ On(c, {"get_history", "set_device_name"})
  /\ call' = [call EXCEPT ![c].pc = "resolve", ![c].taken = labels]
  /\ UNCHANGED <<store, monitor, since>>

(* Any device may have been heard wherever a reading has it.               *)
Events == {[ext |-> n.ext, rloc |-> n.rloc] :
           n \in UNION {Nodes[reading] : reading \in Readings}}

(* get_history: with no text, all events; a text that no device matches is *)
(* compared with the addresses of the events.                              *)
AnswerHistory(c) ==
  /\ At(c, "resolve") /\ On(c, {"get_history"})
  /\ LET text == call[c].text
         items == Items(current)
         found == IF text = NoName THEN NoAddress ELSE Resolve(items, call[c].taken, text)
         shown == {e \in Events : \/ text \in {NoName, e.ext}
                                  \/ \E i \in items : i.ext = found /\ Matches(e, i)}
     IN  Finish(c, {[of |-> e.ext, name |-> EventName(call[c].taken, e.ext, found)] :
                    e \in shown})

(* Defect: the device is taken to be there.                                *)
FindTargetUnchecked(c) ==
  /\ answer' = NoAnswer
  /\ At(c, "resolve") /\ On(c, {"set_device_name"})
  /\ call' = [call EXCEPT ![c].pc = "store",
                ![c].target = Resolve(Items(current), call[c].taken, call[c].text)]
  /\ UNCHANGED <<store, monitor, since>>

FindTarget(c) ==
  /\ answer' = NoAnswer
  /\ At(c, "resolve") /\ On(c, {"set_device_name"})
  /\ LET found == Resolve(Items(current), call[c].taken, call[c].text)
     IN  call' = [call EXCEPT ![c].target = found, ![c].taken = NoLabels,
                              ![c].pc = IF found = NoAddress THEN "done" ELSE "store"]
  /\ UNCHANGED <<store, monitor, since>>

(* writeLabel                                                              *)
Rename(c) ==
  /\ answer' = NoAnswer
  /\ At(c, "store")
  /\ Store(call[c].target, call[c].name)
  /\ call' = [call EXCEPT ![c].pc = "done"]
  /\ UNCHANGED monitor

(* Bound: what changed last is there to be compared with.                 *)
Forget(c) ==
  /\ answer' = NoAnswer
  /\ At(c, "done") \/ (At(c, "store") /\ changes = MaxChanges)
  /\ call' = [call EXCEPT ![c] = Idle]
  /\ since' = [since EXCEPT ![c] = Never]
  /\ UNCHANGED <<store, monitor>>

-----------------------------------------------------------------------------
Handle(c) ==
  \/ TakeItems(c)
  \/ AnswerDevices(c)
  \/ AnswerTopology(c)
  \/ TakeLabels(c)
  \/ WriteWord(c)
  \/ Encode(c)
  \/ TakeLabelsFirst(c)
  \/ AnswerHistory(c)
  \/ FindTarget(c)
  \/ Rename(c)
  \/ Forget(c)

Next ==
  \/ PollDevices
  \/ PollTopology
  \/ \E key \in Changing, name \in Given : SetLabel(key, name)
  \/ \E c \in Calls, kind \in Kinds, text \in Asked \cup {NoName},
        name \in Given : Begin(c, kind, text, name)
  \/ \E c \in Calls : Handle(c)

Spec == Init /\ [][Next]_vars

(* The monitor polls, and requests that began are served.                  *)
FairSpec ==
  /\ Spec
  /\ SF_vars(PollDevices) /\ WF_vars(PollTopology)
  /\ \A c \in Calls : WF_vars(Handle(c))

-----------------------------------------------------------------------------
(* Properties.                                                             *)

(* Every name in an answer is one its device or fabric had at some moment  *)
(* of the request: a label that was changed before the request began is    *)
(* not shown, whatever inventory it is shown with and whatever others      *)
(* wrote into the services.  The fabrics' names of the device route are    *)
(* not among these, and neither is the name that get_history gives an      *)
(* event of a device without a label (api/server.go:554-577,               *)
(* mcpserver/server.go:425-437, 1090-1105).                                *)
NamesOfTheRequest ==
  \A entry \in answer.entries :
    LET had == answer.had[entry.of]
    IN  \/ entry.name \in (IF entry.of \in Fabrics THEN had
                           ELSE {NamedAs(label, entry.of) : label \in had})
        \/ answer.kind = "get_history" /\ NoName \in had

(* A device can be named as it is shown: a text that is shown for one      *)
(* device and is no name, address or RLOC16 of another one stands for it,  *)
(* also when other names contain it, and so does its RLOC16, unless it is  *)
(* a name or an address of another one (mcpserver/server.go:1221-1247,     *)
(* README.md:278).                                                         *)
ShownNameResolves ==
  \A i \in Items(current) :
    LET name == DisplayName(labels, i.ext)
        others == {j \in Items(current) : j.ext # i.ext}
    IN  /\ (\A j \in others : name \notin KeysOf(labels, j.ext) \cup {j.rloc})
           => Resolve(Items(current), labels, name) = i.ext
        /\ (\A j \in others : i.rloc \notin KeysOf(labels, j.ext))
           => Resolve(Items(current), labels, i.rloc) = i.ext

(* Whatever requests write into the services that they share with the      *)
(* monitor, once the labels have come to rest what it serves is made of the*)
(* words of the fabrics' present names, or of none (api/server.go:554-577, *)
(* mesh.go:440-448).                                                       *)
ServicesSettle ==
  <>[](\A f \in Fabrics, word \in {1, 2} :
         inventory[current].services[f][word] \in {NoName, labels[f]})

(* set_device_name is declared idempotent (mcpserver/server.go:227): when  *)
(* the only changes are two answered requests to give the same text the    *)
(* same name, the second changed what the first did.                       *)
RenameRetried ==
  \A c, d \in Calls :
    /\ c # d /\ changes = 2
    /\ At(c, "done") /\ At(d, "done")
    /\ call[c].text = call[d].text /\ call[c].name = call[d].name
    => call[c].target = call[d].target
=============================================================================
