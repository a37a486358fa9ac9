---------------------------- MODULE SignalTrail ----------------------------
(***************************************************************************)
(* The signal history of internal/service/signal.go: for each device a     *)
(* trail of one-minute buckets, oldest first, filled from every inventory  *)
(* that the monitor reads and kept in memory only.  Record is one action,  *)
(* as the code is one critical section.  Of a bucket's statistics the      *)
(* extremes are modelled; the sum, the count and the link quality are not. *)
(***************************************************************************)
EXTENDS Integers, Sequences, FiniteSets

CONSTANTS
  Devices,    \* the devices by extended address
  Readings,   \* RSSI values: negative integers
  NoReading,  \* a device in the inventory without an RSSI, an empty bucket
  Window,     \* signalBuckets
  MaxTrails,  \* signalMaxTrails
  MaxTime,    \* bound on the clock, in minutes
  Faults      \* a subset of {"clock"}: the wall clock is set back

ASSUME SignalConstants ==
  /\ IsFiniteSet(Devices)
  /\ Readings \subseteq Int
  /\ NoReading \notin Int
  /\ Window \in Nat \ {0}
  /\ MaxTrails \in Nat
  /\ MaxTime \in Nat

VARIABLES
  now,     \* the minute of the last inventory
  trails   \* signalTrail.devices, a map from devices to their buckets

vars == <<now, trails>>

Minutes == 0..MaxTime

Bucket == [at : Minutes, present : BOOLEAN,
           low : Readings \cup {NoReading}, high : Readings \cup {NoReading}]

TypeOK ==
  /\ now \in Minutes
  /\ DOMAIN trails \subseteq Devices
  /\ \A d \in DOMAIN trails : trails[d] \in Seq(Bucket)

Init ==
  /\ now = 0
  /\ trails = <<>>

Absent(t) == [at |-> t, present |-> FALSE, low |-> NoReading, high |-> NoReading]

LastOf(s) == s[Len(s)]

(* Defect: one bucket more than the window holds is kept.                  *)
NewestAndOne(s) == SubSeq(s, IF Len(s) > Window THEN Len(s) - Window ELSE 1, Len(s))

(* The newest buckets, as many as the window holds.                        *)
Newest(s) == SubSeq(s, IF Len(s) > Window THEN Len(s) - Window + 1 ELSE 1, Len(s))

(* Defect: a gap is skipped instead of being filled.                       *)
AdvanceWithoutGap(s, t) ==
  IF s # <<>> /\ t <= LastOf(s).at THEN s ELSE Newest(Append(s, Absent(t)))

(* Defect: the minute that is about to begin is added as well.             *)
AdvanceTooFar(s, t) ==
  IF s = <<>> THEN <<Absent(t)>>
  ELSE IF t <= LastOf(s).at THEN s
  ELSE IF t - LastOf(s).at > Window THEN <<Absent(t)>>
  ELSE Newest(s \o [i \in 1..(t - LastOf(s).at + 1) |-> Absent(LastOf(s).at + i)])

(* Buckets up to minute t, those that were skipped marked absent.  After a *)
(* gap longer than the window the trail starts again.                      *)
Advance(s, t) ==
  IF s = <<>> THEN <<Absent(t)>>
  ELSE IF t <= LastOf(s).at THEN s
  ELSE IF t - LastOf(s).at > Window THEN <<Absent(t)>>
  ELSE Newest(s \o [i \in 1..(t - LastOf(s).at) |-> Absent(LastOf(s).at + i)])

(* The device is in the inventory: its last bucket takes the reading.      *)
Add(s, r) ==
  [s EXCEPT ![Len(s)] =
     [at      |-> @.at,
      present |-> TRUE,
      low     |-> IF r # NoReading /\ (@.low = NoReading \/ r < @.low) THEN r ELSE @.low,
      high    |-> IF r # NoReading /\ (@.high = NoReading \/ r > @.high) THEN r ELSE @.high]]

(* A trail whose whole window is absence.                                  *)
Departed(s) == \A i \in 1..Len(s) : ~s[i].present

(* The devices with a trail after the additions of an inventory that names *)
(* the devices named: new ones are added, in its order, while there are    *)
(* slots.                                                                  *)
Admissions(named) ==
  {admitted \in SUBSET Devices :
     /\ DOMAIN trails \subseteq admitted
     /\ admitted \subseteq DOMAIN trails \cup named
     /\ Cardinality(admitted \ DOMAIN trails) <=
          IF Cardinality(DOMAIN trails) < MaxTrails
            THEN MaxTrails - Cardinality(DOMAIN trails) ELSE 0
     /\ named \subseteq admitted \/ Cardinality(admitted) >= MaxTrails}

TrailOf(d) == IF d \in DOMAIN trails THEN trails[d] ELSE <<>>

(* Record: one inventory, items, read at minute t.  Every trail advances;  *)
(* those of devices that are not in it are dropped once they are empty.    *)
Record(t, items) ==
  /\ t >= now \/ "clock" \in Faults
  /\ now' = t
  /\ \E admitted \in Admissions(DOMAIN items) :
       LET dropped == {d \in admitted \ DOMAIN items : Departed(Advance(TrailOf(d), t))}
       IN  trails' = [d \in admitted \ dropped |->
                        IF d \in DOMAIN items THEN Add(Advance(TrailOf(d), t), items[d])
                                              ELSE Advance(TrailOf(d), t)]

Inventories ==
  UNION {[S -> Readings \cup {NoReading}] : S \in SUBSET Devices}

(* An inventory that cannot be read is not recorded; the clock moves on,   *)
(* and the next one finds a gap.                                           *)
Next == \E t \in Minutes, items \in Inventories : Record(t, items)

Spec == Init /\ [][Next]_vars

-----------------------------------------------------------------------------
(* Properties.                                                             *)

(* A trail is a window of consecutive minutes, no longer than Window, and  *)
(* somebody was heard in it: a device that has left for good frees its     *)
(* slot.  It holds whatever the clock does (signal.go:36-38, 97-102).      *)
TrailShape ==
  /\ Cardinality(DOMAIN trails) <= MaxTrails
  /\ \A d \in DOMAIN trails :
       /\ Len(trails[d]) \in 1..Window
       /\ \A i \in 1..(Len(trails[d]) - 1) : trails[d][i+1].at = trails[d][i].at + 1
       /\ ~Departed(trails[d])

Seen ==
  [d \in Devices |->
     {[at |-> b.at, low |-> b.low, high |-> b.high] :
        b \in {TrailOf(d)[i] : i \in {j \in 1..Len(TrailOf(d)) : TrailOf(d)[j].present}}}]

Log == INSTANCE SignalWindow WITH seen <- Seen

(* The buckets that mark a device present, with their extremes, are what a *)
(* full log of the inventories shows for the last Window minutes, no more  *)
(* and no less (README.md:39, 209).                                        *)
ImplementsWindow == Log!Spec
=============================================================================
