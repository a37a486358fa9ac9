----------------------------- MODULE NamesStore -----------------------------
(***************************************************************************)
(* The labels of internal/names/store.go: a map of device and fabric keys  *)
(* to labels, held in memory (Store.names) and in names.json.  A change is *)
(* made in memory and then written to the file, both under Store.mu, so    *)
(* readers never see it in between but a crash may come there.  The file   *)
(* is replaced by a rename and is always a complete map; a missing file is *)
(* the empty one.  Keys and labels are normalised before anything else,    *)
(* and an input that is refused changes nothing.                           *)
(***************************************************************************)
CONSTANTS
  Writers,   \* the callers of Set and Delete: HTTP handlers and MCP tools
  Nobody,    \* Store.mu is free
  Keys,      \* normalised extended addresses and fabric keys
  Labels,    \* normalised labels
  NoLabel,   \* no label: not in the map, or the empty label
  Unknown,   \* the caller was not told that its change was made
  Faults     \* a subset of {"load", "persist", "crash"}

ASSUME NamesConstants ==
  /\ Nobody \notin Writers
  /\ NoLabel \notin Labels
  /\ Unknown \notin Labels \cup {NoLabel}

VARIABLES
  running,   \* is the process up?
  names,     \* Store.names
  file,      \* the content of names.json
  mu,        \* the writer that holds Store.mu
  changing,  \* the key its holder is changing
  told,      \* history: what the last change of each key was acknowledged to be
  failed     \* history: has a load or a write failed?

vars == <<running, names, file, mu, changing, told, failed>>

Map == [Keys -> Labels \cup {NoLabel}]
Empty == [k \in Keys |-> NoLabel]

TypeOK ==
  /\ running \in BOOLEAN
  /\ names \in Map
  /\ file \in Map
  /\ mu \in Writers \cup {Nobody}
  /\ changing \in Keys
  /\ told \in [Keys -> Labels \cup {NoLabel, Unknown}]
  /\ failed \in BOOLEAN

(* The file is what an earlier process left.                               *)
Init ==
  /\ running = FALSE
  /\ names = Empty
  /\ file \in Map
  /\ mu = Nobody
  /\ changing \in Keys
  /\ told = file
  /\ failed = FALSE

(* Load, once, before anything is served.                                  *)
Load ==
  /\ ~running
  /\ running' = TRUE
  /\ names' = file
  /\ UNCHANGED <<file, mu, changing, told, failed>>

(* A file that cannot be read or decoded is only a warning in main: the    *)
(* process goes on without labels, and the first change that it writes     *)
(* replaces them all.  What earlier processes acknowledged is forfeited.   *)
LoadFails ==
  /\ "load" \in Faults
  /\ ~running
  /\ running' = TRUE
  /\ told' = [k \in Keys |-> Unknown]
  /\ failed' = TRUE
  /\ UNCHANGED <<names, file, mu, changing>>

Lock(w) ==
  /\ running
  /\ mu = Nobody
  /\ mu' = w

(* Defect: the change is acknowledged without having been written.         *)
SetMemoryOnly(w, k, l) ==
  /\ running /\ mu = Nobody
  /\ l # NoLabel
  /\ names' = [names EXCEPT ![k] = l]
  /\ told' = [told EXCEPT ![k] = l]
  /\ UNCHANGED <<running, file, mu, changing, failed>>

(* Set, up to the write.  An empty label is a Delete.                      *)
Set(w, k, l) ==
  /\ l # NoLabel
  /\ Lock(w)
  /\ changing' = k
  /\ names' = [names EXCEPT ![k] = l]
  /\ UNCHANGED <<running, file, told, failed>>

(* Delete of a key with a label, up to the write.                          *)
Delete(w, k) ==
  /\ names[k] # NoLabel
  /\ Lock(w)
  /\ changing' = k
  /\ names' = [names EXCEPT ![k] = NoLabel]
  /\ UNCHANGED <<running, file, told, failed>>

(* Delete of a key without one: there is nothing to do, and no error.      *)
DeleteNothing(k) ==
  /\ running
  /\ mu = Nobody
  /\ names[k] = NoLabel
  /\ told' = [told EXCEPT ![k] = NoLabel]
  /\ UNCHANGED <<running, names, file, mu, changing, failed>>

(* Defect: the file is written from a new map that holds only the change.  *)
PersistChangeOnly(w) ==
  /\ mu = w
  /\ mu' = Nobody
  /\ file' = [Empty EXCEPT ![changing] = names[changing]]
  /\ told' = [told EXCEPT ![changing] = names[changing]]
  /\ UNCHANGED <<running, names, changing, failed>>

(* persistLocked writes the whole map.  The caller is told so.             *)
Persist(w) ==
  /\ mu = w
  /\ mu' = Nobody
  /\ file' = names
  /\ told' = [told EXCEPT ![changing] = names[changing]]
  /\ UNCHANGED <<running, names, changing, failed>>

(* Defect: the file is written in place, and a failure leaves it torn.     *)
PersistFailsTorn(w) ==
  /\ "persist" \in Faults
  /\ mu = w
  /\ mu' = Nobody
  /\ file' = <<>>
  /\ told' = [told EXCEPT ![changing] = Unknown]
  /\ failed' = TRUE
  /\ UNCHANGED <<running, names, changing>>

(* Or it fails, with the file as it was and the change in memory.          *)
PersistFails(w) ==
  /\ "persist" \in Faults
  /\ mu = w
  /\ mu' = Nobody
  /\ told' = [told EXCEPT ![changing] = Unknown]
  /\ failed' = TRUE
  /\ UNCHANGED <<running, names, file, changing>>

(* The process stops; a caller that was waiting is told nothing.           *)
Crash ==
  /\ "crash" \in Faults
  /\ running
  /\ running' = FALSE
  /\ names' = Empty
  /\ mu' = Nobody
  /\ told' = IF mu = Nobody THEN told ELSE [told EXCEPT ![changing] = Unknown]
  /\ UNCHANGED <<file, changing, failed>>

Next ==
  \/ Load \/ LoadFails
  \/ Crash
  \/ \E w \in Writers, k \in Keys :
       Delete(w, k) \/ \E l \in Labels : Set(w, k, l)
  \/ \E k \in Keys : DeleteNothing(k)
  \/ \E w \in Writers : Persist(w) \/ PersistFails(w)

Spec == Init /\ [][Next]_vars

-----------------------------------------------------------------------------

(* A label that was acknowledged stays in the file until its key is        *)
(* changed again, whatever other changes failed or were interrupted in     *)
(* between and whatever was written with them (store.go:92-161).           *)
LabelSurvives ==
  \A k \in Keys : told[k] \in Labels => file[k] = told[k]

(* The strengthening that makes it inductive: memory has the label too,    *)
(* where it is not being changed, so that writing another keeps it.        *)
LabelServed ==
  /\ mu # Nobody => running
  /\ running => \A k \in Keys :
       told[k] \in Labels => names[k] = told[k] \/ (mu # Nobody /\ changing = k)

(* Every change that was acknowledged is in the file, removals too.  The   *)
(* code breaks it: a Delete whose write failed has nothing left to delete  *)
(* in memory, and when it is tried again it is acknowledged and never      *)
(* written (store.go:126-131).                                             *)
AcknowledgedSurvives ==
  \A k \in Keys : told[k] \in {file[k], Unknown}

(* With a disk that works it holds, although the process may stop between  *)
(* the change of the map and the write.                                    *)
DurableWhileDiskWorks ==
  ~failed => AcknowledgedSurvives

(* So does the other direction: outside a change readers are served what   *)
(* the next process will load.                                             *)
ServedIsDurable ==
  ~failed /\ running /\ mu = Nobody => names = file

(* The strengthening: the change under way is all that differs.            *)
ChangeUnderWay ==
  ~failed /\ mu # Nobody => running /\ \A k \in Keys \ {changing} : names[k] = file[k]
=============================================================================
