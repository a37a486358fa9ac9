------------------------------ MODULE MeshViews ------------------------------
(***************************************************************************)
(* The mesh as the answers of internal/mcpserver/server.go show it: which  *)
(* nodes are routers, the parent of a child, and each router with its      *)
(* children.  An item of the inventory and a node of the topology are both *)
(* nodes as MeshDecoding makes them.                                       *)
(***************************************************************************)
EXTENDS MeshDecoding

CONSTANT BorderRouter  \* the device otbr-insight runs on, always a router

ASSUME BorderRouterAssumption == BorderRouter \in Devices

(* A role, or an address without a child number.                           *)
IsRouter(item) == item.role = "router" \/ item.rloc[2] = 0 \/ item.ext = BorderRouter

(* The items are in the order of the source: routers by number, then the   *)
(* children by their parents' numbers.                                     *)
Before(a, b) ==
  \/ a.role = "router" /\ b.role = "child"
  \/ a.role = b.role /\ a.rloc[1] < b.rloc[1]
  \/ a.role = b.role /\ a.rloc[1] = b.rloc[1] /\ a.rloc[2] < b.rloc[2]
FirstOf(items) == CHOOSE a \in items : \A b \in items \ {a} : Before(a, b)

(* findParent: what is reported, or the router number in its own address.  *)
FindParent(child, items) ==
  LET reported == {i \in items : IsRouter(i) /\ child.parent \in {i.id, i.ext, i.rloc}}
      byNumber == {i \in items : IsRouter(i) /\ i.rloc[1] = child.rloc[1]}
  IN  IF reported # {} THEN FirstOf(reported).ext
      ELSE IF byNumber # {} THEN FirstOf(byNumber).ext ELSE NoAddress

(* Defect: a router that an old parent still lists is its child too.       *)
ChildrenWithRouters(nodes) == {n \in nodes : n.role = "child"}

(* A node known by a router's address is not a child, whoever lists it.    *)
ChildrenOf(nodes) ==
  {n \in nodes : n.id \notin {m.id : m \in {m \in nodes : IsRouter(m)}}}

(* getTopology                                                             *)
Clusters(nodes) ==
  [r \in {n \in nodes : IsRouter(n)} |->
     {c \in ChildrenOf(nodes) : c.parent = r.id}]
Unattached(nodes) ==
  {c \in ChildrenOf(nodes) :
     c.parent \notin {r.id : r \in {n \in nodes : IsRouter(n)}}}
=============================================================================
