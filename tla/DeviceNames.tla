----------------------------- MODULE DeviceNames -----------------------------
(***************************************************************************)
(* The names of devices (internal/mcpserver/server.go): the one that is    *)
(* shown, and the device a text stands for.  A text is a name, an extended *)
(* address or an RLOC16; upper and lower case are not told apart.          *)
(***************************************************************************)
EXTENDS MeshViews

CONSTANTS
  Names,         \* the names a label may be
  NoName,        \* no label, or no name
  ProviderName,  \* the name the source of an inventory gives a device
  Contains       \* the pairs of names of which the first contains the second

ASSUME NamesAssumption ==
  /\ NoName \notin Names \cup Devices
  /\ ProviderName \in [Devices -> Names \cup {NoName}]
  /\ Contains \subseteq Names \X Names

(* displayName, nodeDisplayName, labelFor: the user's label, the source's  *)
(* name, the address.                                                      *)
NamedAs(label, ext) ==
  IF label # NoName THEN label
  ELSE IF ProviderName[ext] # NoName THEN ProviderName[ext] ELSE ext
DisplayName(labels, ext) == NamedAs(labels[ext], ext)

KeysOf(labels, ext) == {DisplayName(labels, ext), ProviderName[ext], ext} \ {NoName}

Exact(items, labels, text) ==
  {i \in items : text \in KeysOf(labels, i.ext) \cup {i.rloc}}
Partial(items, labels, text) ==
  {i \in items : \E key \in KeysOf(labels, i.ext) :
                   key = text \/ <<key, text>> \in Contains}

(* Defect: a name that contains the text is as good as the text.           *)
ResolveAnyMatch(items, labels, text) ==
  LET found == Exact(items, labels, text) \cup Partial(items, labels, text)
  IN  IF found # {} THEN FirstOf(found).ext ELSE NoAddress

(* resolveDevice: the first exact match, or else the only partial one.     *)
Resolve(items, labels, text) ==
  LET exact == Exact(items, labels, text)
      partial == Partial(items, labels, text)
  IN  IF exact # {} THEN FirstOf(exact).ext
      ELSE IF Cardinality(partial) = 1 THEN FirstOf(partial).ext ELSE NoAddress

(* listDevices: each item under its name, a child with its parent's.       *)
ListDevices(items, labels) ==
  {[of |-> i.ext, name |-> DisplayName(labels, i.ext)] : i \in items} \cup
  {[of |-> p, name |-> DisplayName(labels, p)] :
   p \in {FindParent(i, items) : i \in {i \in items : ~IsRouter(i)}} \ {NoAddress}}

(* getHistory: an event of a device without a label is shown under the     *)
(* name of the device that was asked for.                                  *)
EventName(labels, ext, asked) ==
  IF labels[ext] # NoName THEN labels[ext]
  ELSE IF asked # NoAddress THEN DisplayName(labels, asked) ELSE ext

(* historyMatches: its address, or the RLOC16 the device asked for has now.*)
Matches(event, item) == event.ext = item.ext \/ event.rloc = item.rloc
=============================================================================
