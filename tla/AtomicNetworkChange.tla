------------------------ MODULE AtomicNetworkChange ------------------------
(***************************************************************************)
(* What the network control API promises its callers: every change of the  *)
(* Thread network is one step, isolated from every other.  A change that   *)
(* is reported as done has happened in full; one that fails has stopped at *)
(* one of the places where its sequence of writes can stop.                *)
(* NetworkControl implements this specification.                           *)
(***************************************************************************)
CONSTANTS
  Requests,   \* the slots of concurrent requests
  Datasets,   \* the operational datasets
  NoDataset   \* no active dataset

VARIABLES
  net,      \* the network: its active dataset and whether the interface is up
  want,     \* want[r]: the change r waits for
  status    \* status[r]: r waits, has been done and will be told so, or is over

vars == <<net, want, status>>

Network == [dataset : Datasets \cup {NoDataset}, enabled : BOOLEAN]

(* Moving to a dataset (form, join, restore), leaving, or only bringing    *)
(* the interface up or down.                                               *)
Change ==
  [kind : {"move", "leave", "up", "down"}, to : Datasets \cup {NoDataset}]

Nothing == [kind |-> "none", to |-> NoDataset]

(* The network n once the whole change w has been made to it.              *)
Made(w, n) ==
  CASE w.kind = "move"  -> [dataset |-> w.to, enabled |-> TRUE]
    [] w.kind = "leave" -> [dataset |-> NoDataset, enabled |-> FALSE]
    [] w.kind = "up"    -> [n EXCEPT !.enabled = TRUE]
    [] w.kind = "down"  -> [n EXCEPT !.enabled = FALSE]

(* What an interrupted change can leave: nothing done, everything done, or *)
(* the interface down with the old or the new dataset.                     *)
Partial(w, n) ==
  {n, Made(w, n)} \cup
    IF w.kind \in {"move", "leave"}
      THEN {[n EXCEPT !.enabled = FALSE],
            [dataset |-> Made(w, n).dataset, enabled |-> FALSE]}
      ELSE {}

Init ==
  /\ net \in Network
  /\ want = [r \in Requests |-> Nothing]
  /\ status = [r \in Requests |-> "over"]

Ask(r) ==
  /\ status[r] = "over"
  /\ status' = [status EXCEPT ![r] = "waiting"]
  /\ want' \in {[want EXCEPT ![r] = w] : w \in Change}
  /\ UNCHANGED net

Succeed(r) ==
  /\ status[r] = "waiting"
  /\ status' = [status EXCEPT ![r] = "done"]
  /\ want' = [want EXCEPT ![r] = Nothing]
  /\ net' = Made(want[r], net)

Report(r) ==
  /\ status[r] = "done"
  /\ status' = [status EXCEPT ![r] = "over"]
  /\ UNCHANGED <<net, want>>

Fail(r) ==
  /\ status[r] = "waiting"
  /\ status' = [status EXCEPT ![r] = "over"]
  /\ want' = [want EXCEPT ![r] = Nothing]
  /\ net' \in Partial(want[r], net)

(* The process stops: nobody hears an answer, and the one change that was  *)
(* under way, if any, stops where it was.                                  *)
Crash ==
  /\ status' = [r \in Requests |-> "over"]
  /\ want' = [r \in Requests |-> Nothing]
  /\ \/ net' = net
     \/ \E r \in Requests : status[r] = "waiting" /\ net' \in Partial(want[r], net)

Next ==
  Crash \/ \E r \in Requests : Ask(r) \/ Succeed(r) \/ Report(r) \/ Fail(r)

Spec == Init /\ [][Next]_vars
=============================================================================
