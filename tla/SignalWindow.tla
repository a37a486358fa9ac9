---------------------------- MODULE SignalWindow ----------------------------
(***************************************************************************)
(* What the signal history promises (README.md:39, 209): for each device   *)
(* that has a slot, what was heard of it in each of the last Window        *)
(* minutes, and nothing older.  SignalTrail implements this specification. *)
(***************************************************************************)
EXTENDS Integers, FiniteSets

CONSTANTS
  Devices,    \* the devices by extended address
  Readings,   \* RSSI values
  NoReading,  \* a device in the inventory without an RSSI
  Window,     \* how many minutes are kept
  MaxTrails,  \* how many devices are kept
  MaxTime     \* bound on the clock, in minutes

VARIABLES
  now,   \* the minute of the newest inventory
  seen   \* seen[d]: one summary for each minute of the window that heard d

vars == <<now, seen>>

Minutes == 0..MaxTime

(* The extremes of the readings of one minute.                             *)
Merge(low, high, r) ==
  [low  |-> IF r = NoReading \/ (low # NoReading /\ low <= r) THEN low ELSE r,
   high |-> IF r = NoReading \/ (high # NoReading /\ high >= r) THEN high ELSE r]

Summary(s, t, r) ==
  LET same == {x \in s : x.at = t}
      old  == IF same = {} THEN [low |-> NoReading, high |-> NoReading]
                           ELSE CHOOSE x \in same : TRUE
      new  == Merge(old.low, old.high, r)
  IN  (s \ same) \cup {[at |-> t, low |-> new.low, high |-> new.high]}

Recent(s, t) == {x \in s : x.at > t - Window}

Kept == {d \in Devices : seen[d] # {}}

Init ==
  /\ now = 0
  /\ seen = [d \in Devices |-> {}]

(* An inventory at minute t.  A device that is not kept yet is refused     *)
(* when every slot is taken, and only then.                                *)
Hear(t, items, accepted) ==
  /\ now' = t
  /\ t >= now
  /\ Kept \cap DOMAIN items \subseteq accepted
  /\ accepted \subseteq DOMAIN items
  /\ Cardinality(Kept \cup accepted) <= MaxTrails
  /\ accepted # DOMAIN items => Cardinality(Kept \cup accepted) = MaxTrails
  /\ seen' = [d \in Devices |->
                IF d \in accepted THEN Summary(Recent(seen[d], t), t, items[d])
                                  ELSE Recent(seen[d], t)]

Inventories ==
  UNION {[S -> Readings \cup {NoReading}] : S \in SUBSET Devices}

Next ==
  \E t \in Minutes, items \in Inventories :
    \E accepted \in SUBSET DOMAIN items : Hear(t, items, accepted)

Spec == Init /\ [][Next]_vars
=============================================================================
