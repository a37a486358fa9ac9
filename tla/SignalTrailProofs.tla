------------------------- MODULE SignalTrailProofs -------------------------
(***************************************************************************)
(* Proofs about the signal history, for any devices, readings and window,  *)
(* and with a clock that may be set back.                                  *)
(***************************************************************************)
EXTENDS SignalTrail, FiniteSetTheorems, TLAPS

(* Consecutive minutes, counted from the first: the form that needs no     *)
(* induction.                                                              *)
Consecutive(s) == \A i \in 1..Len(s) : s[i].at = s[1].at + (i - 1)

(* Nothing was read of a device in a minute in which it was absent.        *)
Quiet(s) ==
  \A i \in 1..Len(s) : ~s[i].present => s[i].low = NoReading /\ s[i].high = NoReading

(* A window of consecutive minutes.                                        *)
IsWindow(s) == s \in Seq(Bucket) /\ Len(s) \in 1..Window /\ Consecutive(s) /\ Quiet(s)

LEMMA AbsentBucket == ASSUME NEW t \in Minutes PROVE Absent(t) \in Bucket
  BY DEF Absent, Bucket

(* Consecutive minutes follow each other.                                  *)
LEMMA StepByStep ==
  ASSUME NEW s, IsWindow(s), NEW i \in 1..(Len(s) - 1)
  PROVE  s[i+1].at = s[i].at + 1
<1>1. s \in Seq(Bucket) /\ Len(s) \in Nat /\ i \in 1..Len(s) /\ i + 1 \in 1..Len(s) /\ 1 \in 1..Len(s)
  BY DEF IsWindow
<1>2. s[1] \in Bucket
  BY <1>1
<1>3. s[1].at \in Int
  BY <1>2 DEF Bucket, Minutes
<1>4. s[i].at = s[1].at + (i - 1) /\ s[i+1].at = s[1].at + ((i + 1) - 1)
  BY <1>1 DEF IsWindow, Consecutive
<1> QED BY <1>1, <1>3, <1>4

(* Keeping the newest buckets keeps them consecutive, and no more than the *)
(* window holds.                                                           *)
LEMMA NewestWindow ==
  ASSUME NEW s \in Seq(Bucket), Len(s) >= 1, Consecutive(s), Quiet(s)
  PROVE  /\ IsWindow(Newest(s))
         /\ \E first \in 1..Len(s) :
              /\ first = IF Len(s) > Window THEN Len(s) - Window + 1 ELSE 1
              /\ Len(Newest(s)) = Len(s) - first + 1
              /\ \A i \in 1..Len(Newest(s)) : Newest(s)[i] = s[i + first - 1]
<1> DEFINE first == IF Len(s) > Window THEN Len(s) - Window + 1 ELSE 1
           n == Newest(s)
<1>1. first \in 1..Len(s) /\ Len(s) \in Nat /\ Len(s) - first + 1 \in 1..Window
  BY SignalConstants
<1>2. n = [i \in 1..(Len(s) - first + 1) |-> s[i + first - 1]]
  BY <1>1 DEF Newest
<1>3. Len(n) = Len(s) - first + 1 /\ n \in Seq(Bucket)
  BY <1>1 DEF Newest
<1>4. \A i \in 1..Len(n) : n[i] = s[i + first - 1]
  BY <1>1, <1>2, <1>3
<1>5. n = Newest(s) /\ first = IF Len(s) > Window THEN Len(s) - Window + 1 ELSE 1
  OBVIOUS
<1> HIDE DEF n, first
<1>6. ASSUME NEW i \in 1..Len(n) PROVE i + first - 1 \in 1..Len(s)
  BY <1>1, <1>3
<1>7. Consecutive(n)
  <2>1. ASSUME NEW i \in 1..Len(n) PROVE n[i].at = n[1].at + (i - 1)
    <3>1. 1 \in 1..Len(n) /\ first \in 1..Len(s)
      BY <1>1, <1>3
    <3>2. 1 + first - 1 = first /\ (i + first - 1) - 1 = (first - 1) + (i - 1)
      BY <3>1
    <3>3. n[i] = s[i + first - 1] /\ n[1] = s[first]
      BY <1>4, <3>1, <3>2
    <3>4. s[i + first - 1].at = s[1].at + ((first - 1) + (i - 1)) /\ s[first].at = s[1].at + (first - 1)
      BY <1>6, <3>1, <3>2 DEF Consecutive
    <3>5. s[1] \in Bucket
      BY <3>1
    <3>6. s[1].at \in Int
      BY <3>5 DEF Bucket, Minutes
    <3> QED BY <3>1, <3>3, <3>4, <3>6
  <2> QED BY <2>1 DEF Consecutive
<1>8. Quiet(n)
  BY <1>4, <1>6 DEF Quiet
<1> QED
  BY <1>1, <1>3, <1>4, <1>5, <1>7, <1>8 DEF IsWindow

(* A trail with the minutes of a gap appended.                             *)
LEMMA GapFilled ==
  ASSUME NEW s, IsWindow(s), NEW gap \in Nat \ {0}, LastOf(s).at + gap \in Minutes
  PROVE  LET added == [i \in 1..gap |-> Absent(LastOf(s).at + i)]
             longer == s \o added
         IN  /\ longer \in Seq(Bucket) /\ Len(longer) = Len(s) + gap
             /\ \A i \in 1..Len(longer) :
                  longer[i] = IF i <= Len(s) THEN s[i] ELSE Absent(LastOf(s).at + (i - Len(s)))
             /\ Consecutive(longer) /\ Quiet(longer)
<1> DEFINE added == [i \in 1..gap |-> Absent(LastOf(s).at + i)]
           longer == s \o added
<1>1. s \in Seq(Bucket) /\ Len(s) \in Nat \ {0} /\ 1 \in 1..Len(s) /\ Len(s) \in 1..Len(s)
  BY DEF IsWindow
<1>2. s[1].at \in Nat /\ LastOf(s).at \in Nat /\ LastOf(s).at = s[1].at + (Len(s) - 1)
  <2>1. s[1] \in Bucket /\ LastOf(s) \in Bucket
    BY <1>1 DEF LastOf
  <2> QED BY <1>1, <2>1 DEF Bucket, Minutes, LastOf, IsWindow, Consecutive
<1>3. \A i \in 1..gap : Absent(LastOf(s).at + i) \in Bucket
  <2>1. \A i \in 1..gap : LastOf(s).at + i \in Minutes
    BY <1>2, SignalConstants DEF Minutes
  <2> QED BY <2>1, AbsentBucket
<1>4. added \in Seq(Bucket) /\ Len(added) = gap
  BY <1>3
<1>5. \A i \in 1..gap : added[i] = Absent(LastOf(s).at + i)
  OBVIOUS
<1> HIDE DEF added
<1>6. /\ longer \in Seq(Bucket) /\ Len(longer) = Len(s) + gap
      /\ \A i \in 1..Len(longer) : longer[i] = IF i <= Len(s) THEN s[i] ELSE added[i - Len(s)]
  BY <1>1, <1>4
<1> HIDE DEF longer
<1>7. ASSUME NEW i \in 1..Len(longer)
      PROVE  longer[i] = IF i <= Len(s) THEN s[i] ELSE Absent(LastOf(s).at + (i - Len(s)))
  <2>1. i > Len(s) => i - Len(s) \in 1..gap
    BY <1>1, <1>6
  <2> QED BY <1>1, <1>5, <1>6, <2>1
<1>8. Consecutive(longer)
  <2>1. longer[1] = s[1]
    BY <1>1, <1>6, <1>7
  <2>2. ASSUME NEW i \in 1..Len(longer) PROVE longer[i].at = s[1].at + (i - 1)
    <3>1. CASE i <= Len(s)
      BY <1>1, <1>7, <3>1 DEF IsWindow, Consecutive
    <3>2. CASE ~(i <= Len(s))
      <4>1. longer[i] = Absent(LastOf(s).at + (i - Len(s)))
        BY <1>7, <3>2
      <4>2. longer[i].at = LastOf(s).at + (i - Len(s))
        BY <4>1 DEF Absent
      <4> DEFINE first == s[1].at  last == LastOf(s).at  len == Len(s)
      <4>3. last + (i - len) = first + (i - 1)
        <5>1. i \in Int /\ len \in Int /\ first \in Int /\ last \in Int
          BY <1>1, <1>2, <1>6
        <5>2. last = first + (len - 1)
          BY <1>2
        <5> HIDE DEF first, last, len
        <5> QED BY ONLY <5>1, <5>2
      <4> QED BY <4>2, <4>3
    <3> QED BY <3>1, <3>2
  <2> QED BY <2>1, <2>2 DEF Consecutive
<1>9. Quiet(longer)
  BY <1>1, <1>6, <1>7 DEF Quiet, IsWindow, Absent
<1> QED BY <1>6, <1>7, <1>8, <1>9 DEF longer, added

LEMMA AbsentWindow == ASSUME NEW t \in Minutes PROVE IsWindow(<<Absent(t)>>)
<1>1. <<Absent(t)>> \in Seq(Bucket) /\ Len(<<Absent(t)>>) = 1 /\ <<Absent(t)>>[1] = Absent(t)
  BY AbsentBucket
<1>2. Absent(t).at \in Int
  BY DEF Absent, Minutes
<1> QED BY <1>1, <1>2, SignalConstants DEF IsWindow, Consecutive, Quiet, Absent

(* The four ways to advance.                                               *)
LEMMA AdvanceCases ==
  ASSUME NEW s, s = <<>> \/ IsWindow(s), NEW t \in Minutes
  PROVE  \/ s = <<>> /\ Advance(s, t) = <<Absent(t)>>
         \/ /\ s # <<>> /\ t - LastOf(s).at > Window
            /\ Advance(s, t) = <<Absent(t)>>
         \/ s # <<>> /\ t <= LastOf(s).at /\ Advance(s, t) = s
         \/ /\ s # <<>> /\ t - LastOf(s).at \in 1..Window
            /\ Advance(s, t) =
                 Newest(s \o [i \in 1..(t - LastOf(s).at) |-> Absent(LastOf(s).at + i)])
<1>1. CASE s = <<>>
  BY <1>1 DEF Advance
<1>2. CASE s # <<>>
  <2>1. s \in Seq(Bucket) /\ Len(s) \in 1..Len(s)
    BY <1>2 DEF IsWindow
  <2>2. LastOf(s) \in Bucket
    BY <2>1 DEF LastOf
  <2>3. LastOf(s).at \in Int /\ t \in Int /\ Window \in Int
    BY <2>2, SignalConstants DEF Bucket, Minutes
  <2>4. CASE t <= LastOf(s).at
    BY <1>2, <2>4 DEF Advance
  <2>5. CASE ~(t <= LastOf(s).at) /\ t - LastOf(s).at > Window
    BY <1>2, <2>5 DEF Advance
  <2>6. CASE ~(t <= LastOf(s).at) /\ ~(t - LastOf(s).at > Window)
    <3>1. t - LastOf(s).at \in 1..Window
      BY <2>3, <2>6
    <3> QED BY <1>2, <2>6, <3>1 DEF Advance
  <2> QED BY <2>4, <2>5, <2>6
<1> QED BY <1>1, <1>2

(* A trail that advances is a window again.                                *)
LEMMA AdvanceWindow ==
  ASSUME NEW s, s = <<>> \/ IsWindow(s), NEW t \in Minutes
  PROVE  IsWindow(Advance(s, t))
<1>1. ASSUME s # <<>>, t - LastOf(s).at \in 1..Window
      PROVE  IsWindow(Newest(s \o [i \in 1..(t - LastOf(s).at) |-> Absent(LastOf(s).at + i)]))
  <2> DEFINE gap == t - LastOf(s).at
             longer == s \o [i \in 1..gap |-> Absent(LastOf(s).at + i)]
  <2>1. s \in Seq(Bucket) /\ Len(s) \in Nat \ {0} /\ IsWindow(s)
    BY <1>1 DEF IsWindow
  <2>2. LastOf(s).at \in Int
    <3>1. LastOf(s) \in Bucket
      BY <2>1 DEF LastOf
    <3> QED BY <3>1 DEF Bucket, Minutes
  <2>3. gap \in Nat \ {0} /\ LastOf(s).at + gap \in Minutes
    BY <1>1, <2>2 DEF Minutes
  <2>4. /\ longer \in Seq(Bucket) /\ Len(longer) = Len(s) + gap
        /\ Consecutive(longer) /\ Quiet(longer)
    <3> HIDE DEF gap
    <3> QED BY <2>1, <2>3, GapFilled
  <2> HIDE DEF longer
  <2>5. Len(longer) >= 1
    BY <2>1, <2>3, <2>4
  <2>6. IsWindow(Newest(longer))
    BY <2>4, <2>5, NewestWindow
  <2> QED BY <2>6 DEF longer
<1> QED BY <1>1, AbsentWindow, AdvanceCases

(* The reading of a device goes into its last bucket.                      *)
LEMMA AddWindow ==
  ASSUME NEW s, IsWindow(s), NEW r \in Readings \cup {NoReading}
  PROVE  IsWindow(Add(s, r)) /\ ~Departed(Add(s, r))
<1> DEFINE old == s[Len(s)]
           b == [at      |-> old.at,
                 present |-> TRUE,
                 low     |-> IF r # NoReading /\ (old.low = NoReading \/ r < old.low) THEN r ELSE old.low,
                 high    |-> IF r # NoReading /\ (old.high = NoReading \/ r > old.high) THEN r ELSE old.high]
<1>1. /\ s \in Seq(Bucket) /\ Len(s) \in Nat \ {0} /\ Len(s) \in 1..Window
      /\ Consecutive(s) /\ Quiet(s)
  BY DEF IsWindow
<1>2. old \in Bucket
  BY <1>1
<1>3. b \in Bucket /\ b.at = old.at /\ b.present
  BY <1>2 DEF Bucket
<1>4. Add(s, r) = [s EXCEPT ![Len(s)] = b]
  BY DEF Add
<1> HIDE DEF b
<1>5. /\ Add(s, r) \in Seq(Bucket) /\ Len(Add(s, r)) = Len(s)
      /\ \A i \in 1..Len(s) : Add(s, r)[i] = IF i = Len(s) THEN b ELSE s[i]
  BY <1>1, <1>3, <1>4
<1>6. \A i \in 1..Len(s) : Add(s, r)[i].at = s[i].at
  BY <1>3, <1>5
<1>7. Consecutive(Add(s, r))
  <2>1. 1 \in 1..Len(s)
    BY <1>1
  <2> QED BY <1>1, <1>5, <1>6, <2>1 DEF Consecutive
<1>8. ~Departed(Add(s, r))
  BY <1>1, <1>3, <1>5 DEF Departed
<1>9. Quiet(Add(s, r))
  BY <1>1, <1>3, <1>5 DEF Quiet
<1> QED BY <1>1, <1>5, <1>7, <1>8, <1>9 DEF IsWindow

-----------------------------------------------------------------------------

Trails ==
  /\ DOMAIN trails \subseteq Devices
  /\ Cardinality(DOMAIN trails) <= MaxTrails
  /\ \A d \in DOMAIN trails : IsWindow(trails[d]) /\ ~Departed(trails[d])

(* Admission never takes more slots than there are.                        *)
LEMMA AdmittedFit ==
  ASSUME Trails, NEW named, NEW admitted \in Admissions(named), NEW kept \in SUBSET admitted
  PROVE  kept \subseteq Devices /\ Cardinality(kept) <= MaxTrails
<1> DEFINE D == DOMAIN trails
<1>1. D \subseteq admitted /\ admitted \subseteq Devices
  BY DEF Admissions
<1>2. IsFiniteSet(admitted) /\ IsFiniteSet(D) /\ Cardinality(kept) <= Cardinality(admitted)
      /\ Cardinality(admitted) \in Nat /\ Cardinality(D) \in Nat /\ Cardinality(kept) \in Nat
  <2>1. IsFiniteSet(admitted)
    BY <1>1, FS_Subset, SignalConstants
  <2> QED BY <2>1, <1>1, FS_Subset, FS_CardinalityType
<1>3. Cardinality(admitted \ D) = Cardinality(admitted) - Cardinality(D)
  <2>1. admitted \cap D = D
    BY <1>1
  <2> QED BY <1>2, <2>1, FS_Difference
<1>4. Cardinality(admitted \ D) <= IF Cardinality(D) < MaxTrails
                                      THEN MaxTrails - Cardinality(D) ELSE 0
  BY DEF Admissions
<1>5. Cardinality(D) <= MaxTrails
  BY DEF Trails
<1> HIDE DEF D
<1>6. Cardinality(admitted) <= MaxTrails
  BY <1>2, <1>3, <1>4, <1>5, SignalConstants
<1> QED BY <1>1, <1>2, <1>6, SignalConstants

LEMMA RecordTrails ==
  ASSUME Trails, NEW t \in Minutes, NEW items \in Inventories, Record(t, items)
  PROVE  Trails'
<1>1. PICK admitted \in Admissions(DOMAIN items) :
        LET dropped == {d \in admitted \ DOMAIN items : Departed(Advance(TrailOf(d), t))}
        IN  trails' = [d \in admitted \ dropped |->
                         IF d \in DOMAIN items THEN Add(Advance(TrailOf(d), t), items[d])
                                               ELSE Advance(TrailOf(d), t)]
  BY DEF Record
<1> DEFINE dropped == {d \in admitted \ DOMAIN items : Departed(Advance(TrailOf(d), t))}
           kept == admitted \ dropped
<1>2. DOMAIN trails' = kept
  BY <1>1
<1>3. kept \subseteq Devices /\ Cardinality(kept) <= MaxTrails
  BY AdmittedFit
<1>4. ASSUME NEW d \in kept PROVE IsWindow(trails'[d]) /\ ~Departed(trails'[d])
  <2>1. TrailOf(d) = <<>> \/ IsWindow(TrailOf(d))
    BY DEF Trails, TrailOf
  <2>2. IsWindow(Advance(TrailOf(d), t))
    BY <2>1, AdvanceWindow
  <2>3. CASE d \in DOMAIN items
    <3>1. items[d] \in Readings \cup {NoReading}
      BY <2>3 DEF Inventories
    <3>2. trails'[d] = Add(Advance(TrailOf(d), t), items[d])
      BY <1>1, <2>3
    <3> QED BY <2>2, <3>1, <3>2, AddWindow
  <2>4. CASE d \notin DOMAIN items
    <3>1. trails'[d] = Advance(TrailOf(d), t) /\ ~Departed(Advance(TrailOf(d), t))
      BY <1>1, <2>4
    <3> QED BY <2>2, <3>1
  <2> QED BY <2>3, <2>4
<1> HIDE DEF kept
<1> QED BY <1>2, <1>3, <1>4 DEF Trails

LEMMA TrailsAlways == Spec => [](Trails /\ now \in Minutes)
<1>1. Init => Trails /\ now \in Minutes
  BY FS_EmptySet, SignalConstants DEF Init, Trails, Minutes
<1>2. Trails /\ now \in Minutes /\ [Next]_vars => (Trails /\ now \in Minutes)'
  <2>1. ASSUME Trails, Next PROVE Trails' /\ now' \in Minutes
    BY <2>1, RecordTrails DEF Next, Record
  <2>2. ASSUME Trails, UNCHANGED vars PROVE Trails' /\ now' = now
    BY <2>2 DEF vars, Trails
  <2> QED BY <2>1, <2>2
<1> QED BY <1>1, <1>2, PTL DEF Spec

(* The types of the trails: in particular every bucket's minute is one of  *)
(* the clock's.                                                            *)
THEOREM TypeCorrect == Spec => []TypeOK
<1>1. Trails /\ now \in Minutes => TypeOK
  BY DEF Trails, IsWindow, TypeOK
<1> QED BY TrailsAlways, <1>1, PTL

(* Every trail is a window of consecutive minutes, no longer than it may   *)
(* be, in which its device was heard, and there are never more trails than *)
(* slots: however long the gaps between inventories are, whichever devices *)
(* come and go, and also when the clock is set back.                       *)
THEOREM TrailsKeepTheirShape == Spec => []TrailShape
<1>1. Trails => TrailShape
  <2> SUFFICES ASSUME Trails PROVE TrailShape
    OBVIOUS
  <2>1. ASSUME NEW d \in DOMAIN trails, NEW i \in 1..(Len(trails[d]) - 1)
        PROVE  trails[d][i+1].at = trails[d][i].at + 1
    BY StepByStep DEF Trails
  <2> QED BY <2>1 DEF Trails, TrailShape, IsWindow
<1> QED BY TrailsAlways, <1>1, PTL

-----------------------------------------------------------------------------
(* The signal history implements SignalWindow, for any devices, readings,  *)
(* window and number of slots, while the clock is not set back.            *)

(* What a bucket shows, and what a trail shows.                            *)
Shown(b) == [at |-> b.at, low |-> b.low, high |-> b.high]
Present(s) == {i \in 1..Len(s) : s[i].present}

LEMMA SeenIs ==
  ASSUME NEW d \in Devices
  PROVE  Seen[d] = {Shown(TrailOf(d)[i]) : i \in Present(TrailOf(d))}
  BY DEF Seen, Shown, Present

(* Every trail ends at the minute of the newest inventory.                 *)
UpToDate == \A d \in DOMAIN trails : LastOf(trails[d]).at = now

(* In a window that ends at minute t bucket i is that many minutes back.   *)
LEMMA Minute ==
  ASSUME NEW s, IsWindow(s), NEW i \in 1..Len(s)
  PROVE  /\ s[i] \in Bucket /\ LastOf(s) \in Bucket
         /\ LastOf(s).at \in Int
         /\ s[i].at = LastOf(s).at - (Len(s) - i)
<1>1. s \in Seq(Bucket) /\ Len(s) \in Nat /\ 1 \in 1..Len(s) /\ Len(s) \in 1..Len(s)
  BY DEF IsWindow
<1>2. s[1] \in Bucket /\ s[i] \in Bucket /\ LastOf(s) \in Bucket
  BY <1>1 DEF LastOf
<1>3. s[1].at \in Int /\ LastOf(s).at \in Int
  BY <1>2 DEF Bucket, Minutes
<1>4. s[i].at = s[1].at + (i - 1) /\ LastOf(s).at = s[1].at + (Len(s) - 1)
  BY <1>1 DEF IsWindow, Consecutive, LastOf
<1> QED BY <1>1, <1>2, <1>3, <1>4

(* Advancing to minute t forgets exactly the buckets that are out of the   *)
(* window, and adds none that marks the device present.                    *)
LEMMA AdvanceShows ==
  ASSUME NEW s, s = <<>> \/ IsWindow(s), NEW t \in Minutes,
         s # <<>> => LastOf(s).at <= t
  PROVE  /\ LastOf(Advance(s, t)).at = t
         /\ {Shown(Advance(s, t)[i]) : i \in Present(Advance(s, t))} =
            {x \in {Shown(s[i]) : i \in Present(s)} : x.at > t - Window}
<1> DEFINE A == {Shown(Advance(s, t)[i]) : i \in Present(Advance(s, t))}
           R == {x \in {Shown(s[i]) : i \in Present(s)} : x.at > t - Window}
<1>1. ASSUME Advance(s, t) = <<Absent(t)>> PROVE LastOf(Advance(s, t)).at = t /\ A = {}
  <2>1. Len(<<Absent(t)>>) = 1 /\ <<Absent(t)>>[1] = Absent(t)
    OBVIOUS
  <2>2. Present(<<Absent(t)>>) = {}
    BY <2>1 DEF Present, Absent
  <2>3. Present(Advance(s, t)) = {}
    BY <1>1, <2>2
  <2>4. A = {}
    BY <2>3
  <2>5. LastOf(Advance(s, t)) = Absent(t)
    BY <1>1, <2>1 DEF LastOf
  <2> QED BY <2>4, <2>5 DEF Absent
<1>2. CASE s = <<>> /\ Advance(s, t) = <<Absent(t)>>
  <2>1. Present(s) = {}
    BY <1>2 DEF Present
  <2> QED BY <1>1, <1>2, <2>1
<1>3. CASE s # <<>> /\ t - LastOf(s).at > Window /\ Advance(s, t) = <<Absent(t)>>
  <2>1. ASSUME NEW i \in Present(s) PROVE ~(Shown(s[i]).at > t - Window)
    <3>1. i \in 1..Len(s) /\ IsWindow(s)
      BY <1>3 DEF Present
    <3>2. Len(s) \in Nat /\ t \in Int /\ Window \in Int /\ i \in Int
      BY <3>1, SignalConstants DEF IsWindow, Minutes
    <3>3. LastOf(s).at \in Int /\ s[i].at = LastOf(s).at - (Len(s) - i)
      BY <3>1, Minute
    <3> QED BY <1>3, <3>1, <3>2, <3>3 DEF Shown
  <2>2. R = {}
    BY <2>1
  <2> QED BY <1>1, <1>3, <2>2
<1>4. CASE s # <<>> /\ t <= LastOf(s).at /\ Advance(s, t) = s
  <2>1. Len(s) \in 1..Window /\ t \in Int /\ Window \in Int /\ Len(s) \in 1..Len(s)
    BY <1>4, SignalConstants DEF IsWindow, Minutes
  <2>2. LastOf(s).at = t
    <3>1. LastOf(s).at \in Int
      BY <1>4, <2>1, Minute
    <3> QED BY <1>4, <2>1, <3>1
  <2>3. ASSUME NEW i \in Present(s) PROVE Shown(s[i]).at > t - Window
    <3>1. i \in 1..Len(s)
      BY DEF Present
    <3>2. s[i].at = t - (Len(s) - i)
      BY <1>4, <2>2, <3>1, Minute
    <3> QED BY <2>1, <3>1, <3>2 DEF Shown
  <2> QED BY <1>4, <2>2, <2>3
<1>5. CASE /\ s # <<>> /\ t - LastOf(s).at \in 1..Window
           /\ Advance(s, t) =
                Newest(s \o [i \in 1..(t - LastOf(s).at) |-> Absent(LastOf(s).at + i)])
  <2> DEFINE gap == t - LastOf(s).at
             longer == s \o [i \in 1..gap |-> Absent(LastOf(s).at + i)]
             n == Newest(longer)
  <2>1. s \in Seq(Bucket) /\ Len(s) \in Nat \ {0} /\ IsWindow(s) /\ Len(s) \in 1..Len(s)
    BY <1>5 DEF IsWindow
  <2>2. LastOf(s).at \in Int /\ t \in Int /\ Window \in Nat
    BY <2>1, Minute, SignalConstants DEF Minutes
  <2>3. gap \in Nat \ {0} /\ LastOf(s).at + gap \in Minutes /\ LastOf(s).at + gap = t
    BY <1>5, <2>2 DEF Minutes
  <2>4. /\ longer \in Seq(Bucket) /\ Len(longer) = Len(s) + gap
        /\ \A i \in 1..Len(longer) :
             longer[i] = IF i <= Len(s) THEN s[i] ELSE Absent(LastOf(s).at + (i - Len(s)))
        /\ Consecutive(longer) /\ Quiet(longer)
    <3> HIDE DEF gap
    <3> QED BY <2>1, <2>3, GapFilled
  <2>5. Advance(s, t) = n
    BY <1>5
  <2> HIDE DEF longer, gap
  <2>6. Len(longer) >= 1
    BY <2>1, <2>3, <2>4
  <2>7. PICK first \in 1..Len(longer) :
          /\ first = IF Len(longer) > Window THEN Len(longer) - Window + 1 ELSE 1
          /\ Len(n) = Len(longer) - first + 1
          /\ \A i \in 1..Len(n) : n[i] = longer[i + first - 1]
    BY <2>4, <2>6, NewestWindow
  <2> HIDE DEF n
  <2>15. /\ Len(s) \in Nat \ {0} /\ gap \in Nat \ {0} /\ Window \in Nat /\ first \in Nat
         /\ Len(longer) = Len(s) + gap /\ Len(n) = Len(longer) - first + 1
         /\ first = IF Len(longer) > Window THEN Len(longer) - Window + 1 ELSE 1
    BY <2>1, <2>2, <2>3, <2>4, <2>7
  <2>8. LastOf(n).at = t
    <3>1. Len(n) \in 1..Len(n) /\ Len(n) + first - 1 = Len(longer) /\ Len(longer) \in 1..Len(longer)
      BY <2>15
    <3>2. LastOf(n) = longer[Len(longer)]
      BY <2>7, <3>1 DEF LastOf
    <3>3. ~(Len(longer) <= Len(s)) /\ Len(longer) - Len(s) = gap
      BY <2>1, <2>3, <2>4
    <3>4. LastOf(n) = Absent(LastOf(s).at + gap)
      BY <2>4, <3>1, <3>2, <3>3
    <3> QED BY <2>3, <3>4 DEF Absent
  <2>9. ASSUME NEW i \in 1..Len(s) PROVE s[i].at > t - Window <=> i >= first
    <3>1. s[i].at = LastOf(s).at - (Len(s) - i)
      BY <2>1, Minute
    <3>2. s[i].at = t - gap - (Len(s) - i)
      BY <2>2, <2>3, <3>1
    <3> QED BY <2>2, <2>15, <3>2
  <2>10. ASSUME NEW i \in Present(n)
         PROVE  /\ i + first - 1 \in Present(s) /\ i + first - 1 >= first
                /\ n[i] = s[i + first - 1]
    <3>1. i \in 1..Len(n) /\ n[i].present /\ i + first - 1 \in 1..Len(longer)
      BY <2>4, <2>7 DEF Present
    <3>2. n[i] = longer[i + first - 1]
      BY <2>7, <3>1
    <3>3. i + first - 1 <= Len(s)
      BY <2>4, <3>1, <3>2 DEF Absent
    <3>4. longer[i + first - 1] = s[i + first - 1] /\ i + first - 1 \in 1..Len(s)
      BY <2>1, <2>4, <3>1, <3>3
    <3>5. i + first - 1 >= first
      BY <2>7, <3>1
    <3> QED BY <3>1, <3>2, <3>4, <3>5 DEF Present
  <2>11. ASSUME NEW i \in Present(s), i >= first
         PROVE  i - first + 1 \in Present(n) /\ n[i - first + 1] = s[i]
    <3>1. i \in 1..Len(s) /\ s[i].present
      BY DEF Present
    <3>2. /\ i - first + 1 \in 1..Len(n) /\ (i - first + 1) + first - 1 = i
          /\ i \in 1..Len(longer) /\ i <= Len(s)
      BY <2>11, <2>15, <3>1
    <3>3. n[i - first + 1] = longer[i]
      BY <2>7, <3>2
    <3>4. longer[i] = s[i]
      BY <2>4, <3>2
    <3> QED BY <3>1, <3>2, <3>3, <3>4 DEF Present
  <2>12. ASSUME NEW i \in Present(n) PROVE Shown(n[i]) \in R
    <3>1. PICK j \in Present(s) : j >= first /\ n[i] = s[j]
      BY <2>10
    <3>2. j \in 1..Len(s)
      BY DEF Present
    <3> QED BY <2>9, <3>1, <3>2 DEF Shown
  <2>13. ASSUME NEW x \in R PROVE \E i \in Present(n) : x = Shown(n[i])
    <3>1. PICK j \in Present(s) : x = Shown(s[j]) /\ x.at > t - Window
      OBVIOUS
    <3>2. j \in 1..Len(s) /\ s[j].at > t - Window
      BY <3>1 DEF Present, Shown
    <3>3. j >= first
      BY <2>9, <3>2
    <3> QED BY <2>11, <3>1, <3>3
  <2>14. {Shown(n[i]) : i \in Present(n)} = R
    <3> HIDE DEF R
    <3> QED BY <2>12, <2>13
  <2> QED BY <2>5, <2>8, <2>14
<1> QED BY <1>2, <1>3, <1>4, <1>5, AdvanceCases

(* The extremes of a minute, written either way.                           *)
LEMMA MergeIs ==
  ASSUME NEW low \in Readings \cup {NoReading}, NEW high \in Readings \cup {NoReading},
         NEW r \in Readings \cup {NoReading}
  PROVE  /\ Log!Merge(low, high, r).low =
              (IF r # NoReading /\ (low = NoReading \/ r < low) THEN r ELSE low)
         /\ Log!Merge(low, high, r).high =
              (IF r # NoReading /\ (high = NoReading \/ r > high) THEN r ELSE high)
<1>1. \A a \in Readings \cup {NoReading} : a # NoReading => a \in Int
  BY SignalConstants
<1>2. CASE r = NoReading
  BY <1>2 DEF Log!Merge
<1>3. CASE r # NoReading
  <2>1. low # NoReading => (low <= r <=> ~(r < low))
    BY <1>1, <1>3
  <2>2. high # NoReading => (high >= r <=> ~(r > high))
    BY <1>1, <1>3
  <2> QED BY <1>3, <2>1, <2>2 DEF Log!Merge
<1> QED BY <1>2, <1>3

(* The reading of the minute is merged into what the minute shows.         *)
LEMMA AddShows ==
  ASSUME NEW s, IsWindow(s), NEW r \in Readings \cup {NoReading}
  PROVE  /\ LastOf(Add(s, r)).at = LastOf(s).at
         /\ {Shown(Add(s, r)[i]) : i \in Present(Add(s, r))} =
            Log!Summary({Shown(s[i]) : i \in Present(s)}, LastOf(s).at, r)
<1> DEFINE S == {Shown(s[i]) : i \in Present(s)}
           last == Len(s)
           old == s[last]
           t == LastOf(s).at
           b == [at      |-> old.at,
                 present |-> TRUE,
                 low     |-> IF r # NoReading /\ (old.low = NoReading \/ r < old.low) THEN r ELSE old.low,
                 high    |-> IF r # NoReading /\ (old.high = NoReading \/ r > old.high) THEN r ELSE old.high]
           a == Add(s, r)
           same == {x \in S : x.at = t}
<1>1. /\ s \in Seq(Bucket) /\ last \in Nat \ {0} /\ last \in 1..last
      /\ old \in Bucket /\ old = LastOf(s) /\ old.at = t /\ t \in Int
  BY Minute DEF IsWindow, LastOf
<1>2. b \in Bucket
  BY <1>1 DEF Bucket
<1>3. a = [s EXCEPT ![last] = b]
  BY DEF Add
<1>4. b.at = t /\ b.present
  BY <1>1
<1>5. old.low \in Readings \cup {NoReading} /\ old.high \in Readings \cup {NoReading}
  BY <1>1 DEF Bucket
<1>6. b.low = Log!Merge(old.low, old.high, r).low /\ b.high = Log!Merge(old.low, old.high, r).high
  <2>1. /\ b.low = IF r # NoReading /\ (old.low = NoReading \/ r < old.low) THEN r ELSE old.low
        /\ b.high = IF r # NoReading /\ (old.high = NoReading \/ r > old.high) THEN r ELSE old.high
    OBVIOUS
  <2>2. /\ Log!Merge(old.low, old.high, r).low =
             (IF r # NoReading /\ (old.low = NoReading \/ r < old.low) THEN r ELSE old.low)
        /\ Log!Merge(old.low, old.high, r).high =
             (IF r # NoReading /\ (old.high = NoReading \/ r > old.high) THEN r ELSE old.high)
    <3> HIDE DEF b, old
    <3> QED BY <1>5, MergeIs
  <2> HIDE DEF b
  <2> QED BY <2>1, <2>2
<1> HIDE DEF b
<1>7. /\ Len(a) = last
      /\ \A i \in 1..last : a[i] = IF i = last THEN b ELSE s[i]
  BY <1>1, <1>2, <1>3
<1> HIDE DEF a
<1>8. ASSUME NEW i \in 1..last PROVE s[i].at = t <=> i = last
  <2>1. s[i].at = t - (last - i)
    BY Minute
  <2> QED BY <1>1, <2>1
<1>9. Present(a) = {i \in Present(s) : i # last} \cup {last}
  BY <1>1, <1>4, <1>7 DEF Present
<1>10. {Shown(a[i]) : i \in Present(a)} = (S \ same) \cup {Shown(b)}
  <2>1. ASSUME NEW i \in Present(s) PROVE i \in 1..last /\ (i # last => a[i] = s[i])
    BY <1>7 DEF Present
  <2>2. ASSUME NEW i \in Present(s) PROVE Shown(s[i]) \in same <=> i = last
    BY <1>8, <2>1, <2>2 DEF Shown
  <2>3. a[last] = b
    BY <1>1, <1>7
  <2>4. ASSUME NEW i \in Present(a) PROVE Shown(a[i]) \in (S \ same) \cup {Shown(b)}
    BY <1>9, <2>1, <2>2, <2>3
  <2>5. ASSUME NEW x \in (S \ same) \cup {Shown(b)}
        PROVE  \E i \in Present(a) : x = Shown(a[i])
    <3>1. CASE x = Shown(b)
      BY <1>9, <2>3, <3>1
    <3>2. CASE x \in S \ same
      <4>1. PICK i \in Present(s) : x = Shown(s[i])
        BY <3>2
      <4>2. i # last
        BY <2>2, <3>2, <4>1
      <4> QED BY <1>9, <2>1, <4>1, <4>2
    <3> QED BY <3>1, <3>2
  <2> HIDE DEF same, S
  <2> QED BY <2>4, <2>5
<1>11. same = IF old.present THEN {Shown(old)} ELSE {}
  <2>1. ASSUME NEW x \in same PROVE old.present /\ x = Shown(old)
    <3>1. PICK i \in Present(s) : x = Shown(s[i]) /\ x.at = t
      OBVIOUS
    <3>2. i = last
      BY <1>8, <3>1 DEF Present, Shown
    <3> QED BY <3>1, <3>2 DEF Present
  <2>2. ASSUME old.present PROVE Shown(old) \in same
    BY <1>1, <2>2 DEF Present, Shown
  <2> HIDE DEF same
  <2> QED BY <2>1, <2>2
<1>12. Log!Summary(S, t, r) = (S \ same) \cup {Shown(b)}
  <2> DEFINE was == IF same = {} THEN [low |-> NoReading, high |-> NoReading]
                                 ELSE CHOOSE x \in same : TRUE
             new == Log!Merge(was.low, was.high, r)
  <2>1. Log!Summary(S, t, r) = (S \ same) \cup {[at |-> t, low |-> new.low, high |-> new.high]}
    BY DEF Log!Summary
  <2>2. was.low = old.low /\ was.high = old.high
    <3>1. CASE old.present
      <4>1. same = {Shown(old)}
        BY <1>11, <3>1
      <4> HIDE DEF same
      <4>2. was = Shown(old)
        BY <4>1
      <4> QED BY <4>2 DEF Shown
    <3>2. CASE ~old.present
      <4>1. same = {} /\ old.low = NoReading /\ old.high = NoReading
        BY <1>1, <1>11, <3>2 DEF IsWindow, Quiet
      <4> QED BY <4>1
    <3> QED BY <3>1, <3>2
  <2> HIDE DEF was
  <2>3. Shown(b) = [at |-> t, low |-> new.low, high |-> new.high]
    BY <1>4, <1>6, <2>2 DEF Shown
  <2> QED BY <2>1, <2>3
<1>13. LastOf(a) = b
  BY <1>1, <1>7 DEF LastOf
<1> QED BY <1>4, <1>10, <1>12, <1>13 DEF a

-----------------------------------------------------------------------------
(* SignalWindow counts as SignalTrail does.                                *)
LEMMA SameCardinality == ASSUME NEW S PROVE Log!Cardinality(S) = Cardinality(S)
  BY DEF Cardinality, Log!Cardinality

(* The devices that have a trail are those of which something is kept.     *)
LEMMA KeptIs == ASSUME Trails PROVE Log!Kept = DOMAIN trails
<1>1. ASSUME NEW d \in DOMAIN trails PROVE d \in Log!Kept
  <2>1. d \in Devices /\ IsWindow(trails[d]) /\ ~Departed(trails[d]) /\ TrailOf(d) = trails[d]
    BY DEF Trails, TrailOf
  <2>2. PICK i \in Present(TrailOf(d)) : TRUE
    BY <2>1 DEF Departed, Present
  <2>3. Shown(TrailOf(d)[i]) \in Seen[d]
    BY <2>1, SeenIs
  <2> QED BY <2>1, <2>3 DEF Log!Kept
<1>2. ASSUME NEW d \in Devices, d \notin DOMAIN trails PROVE d \notin Log!Kept
  <2>1. Present(TrailOf(d)) = {}
    BY <1>2 DEF TrailOf, Present
  <2>2. Seen[d] = {}
    BY <2>1, SeenIs
  <2> QED BY <2>2 DEF Log!Kept
<1> QED BY <1>1, <1>2 DEF Log!Kept

(* Recording an inventory is hearing it: the devices it names that have a  *)
(* trail afterwards are those that are accepted.                           *)
LEMMA RecordHears ==
  ASSUME "clock" \notin Faults, Trails, UpToDate, now \in Minutes,
         NEW t \in Minutes, NEW items \in Inventories, Record(t, items)
  PROVE  UpToDate' /\ Log!Next
<1>1. PICK admitted \in Admissions(DOMAIN items) :
        LET dropped == {d \in admitted \ DOMAIN items : Departed(Advance(TrailOf(d), t))}
        IN  trails' = [d \in admitted \ dropped |->
                         IF d \in DOMAIN items THEN Add(Advance(TrailOf(d), t), items[d])
                                               ELSE Advance(TrailOf(d), t)]
  BY DEF Record
<1> DEFINE dropped == {d \in admitted \ DOMAIN items : Departed(Advance(TrailOf(d), t))}
           kept == admitted \ dropped
           accepted == DOMAIN items \cap admitted
<1>2. now' = t /\ t >= now
  BY DEF Record
<1>3. /\ DOMAIN trails' = kept
      /\ \A d \in kept : trails'[d] = IF d \in DOMAIN items THEN Add(Advance(TrailOf(d), t), items[d])
                                                          ELSE Advance(TrailOf(d), t)
  BY <1>1
<1>4. /\ admitted \subseteq Devices /\ DOMAIN trails \subseteq admitted
      /\ admitted = DOMAIN trails \cup accepted
      /\ accepted = DOMAIN items \/ Cardinality(admitted) >= MaxTrails
      /\ Cardinality(admitted) <= MaxTrails
      /\ Cardinality(admitted) \in Nat
  <2>1. Cardinality(admitted) <= MaxTrails
    BY AdmittedFit
  <2>2. /\ admitted \subseteq Devices /\ DOMAIN trails \subseteq admitted
        /\ admitted \subseteq DOMAIN trails \cup DOMAIN items
        /\ DOMAIN items \subseteq admitted \/ Cardinality(admitted) >= MaxTrails
    BY DEF Admissions
  <2>3. Cardinality(admitted) \in Nat
    BY <2>2, FS_Subset, FS_CardinalityType, SignalConstants
  <2> QED BY <2>1, <2>2, <2>3
<1> HIDE DEF kept
<1>5. ASSUME NEW d \in Devices
      PROVE  /\ TrailOf(d) = <<>> \/ IsWindow(TrailOf(d))
             /\ TrailOf(d) # <<>> => LastOf(TrailOf(d)).at <= t
             /\ IsWindow(Advance(TrailOf(d), t))
             /\ LastOf(Advance(TrailOf(d), t)).at = t
             /\ {Shown(Advance(TrailOf(d), t)[i]) : i \in Present(Advance(TrailOf(d), t))} =
                Log!Recent(Seen[d], t)
  <2>1. TrailOf(d) = <<>> \/ IsWindow(TrailOf(d))
    BY DEF Trails, TrailOf
  <2>2. TrailOf(d) # <<>> => LastOf(TrailOf(d)).at <= t
    BY <1>2 DEF UpToDate, TrailOf, Minutes
  <2> QED BY <2>1, <2>2, SeenIs, AdvanceWindow, AdvanceShows DEF Log!Recent
<1>6. ASSUME NEW d \in accepted
      PROVE  /\ d \in kept /\ d \in Devices
             /\ LastOf(trails'[d]).at = t
             /\ Seen'[d] = Log!Summary(Log!Recent(Seen[d], t), t, items[d])
  <2> DEFINE a == Advance(TrailOf(d), t)
  <2>1. d \in kept /\ d \in Devices /\ d \in DOMAIN items /\ items[d] \in Readings \cup {NoReading}
    BY <1>4 DEF kept, Inventories
  <2>2. trails'[d] = Add(a, items[d])
    BY <1>3, <2>1
  <2>3. IsWindow(a) /\ LastOf(a).at = t
        /\ {Shown(a[i]) : i \in Present(a)} = Log!Recent(Seen[d], t)
    BY <1>5, <2>1
  <2> HIDE DEF a
  <2>4. LastOf(Add(a, items[d])).at = t
        /\ {Shown(Add(a, items[d])[i]) : i \in Present(Add(a, items[d]))} =
           Log!Summary(Log!Recent(Seen[d], t), t, items[d])
    BY <2>1, <2>3, AddShows
  <2>5. TrailOf(d)' = Add(a, items[d])
    BY <1>3, <2>1, <2>2 DEF TrailOf
  <2>6. Seen'[d] = {Shown(TrailOf(d)'[i]) : i \in Present(TrailOf(d)')}
    BY <2>1 DEF Seen, Shown, Present
  <2> QED BY <2>1, <2>2, <2>4, <2>5, <2>6
<1>7. ASSUME NEW d \in Devices \ accepted
      PROVE  /\ d \in kept => LastOf(trails'[d]).at = t
             /\ Seen'[d] = Log!Recent(Seen[d], t)
  <2> DEFINE a == Advance(TrailOf(d), t)
  <2>1. Seen'[d] = {Shown(TrailOf(d)'[i]) : i \in Present(TrailOf(d)')}
    BY DEF Seen, Shown, Present
  <2>2. LastOf(a).at = t /\ {Shown(a[i]) : i \in Present(a)} = Log!Recent(Seen[d], t)
    BY <1>5
  <2>3. CASE d \in kept
    <3>1. trails'[d] = a /\ TrailOf(d)' = a
      BY <1>3, <2>3 DEF kept, TrailOf
    <3> HIDE DEF a
    <3> QED BY <2>1, <2>2, <3>1
  <2>4. CASE d \in dropped
    <3>1. Departed(a) /\ d \notin kept
      BY <2>4 DEF kept
    <3>2. Present(a) = {}
      BY <3>1 DEF Departed, Present
    <3>3. Log!Recent(Seen[d], t) = {}
      BY <2>2, <3>2
    <3>4. TrailOf(d)' = <<>>
      BY <1>3, <3>1 DEF TrailOf
    <3>5. Present(<<>>) = {}
      BY DEF Present
    <3> QED BY <2>1, <3>1, <3>3, <3>4, <3>5
  <2>5. CASE d \notin admitted
    <3>1. TrailOf(d) = <<>> /\ d \notin kept
      BY <1>4, <2>5 DEF TrailOf, kept
    <3>2. TrailOf(d)' = <<>>
      BY <1>3, <3>1 DEF TrailOf
    <3>3. Present(<<>>) = {}
      BY DEF Present
    <3>4. Seen[d] = {} /\ Seen'[d] = {}
      BY <2>1, <3>1, <3>2, <3>3, SeenIs
    <3> QED BY <3>1, <3>4 DEF Log!Recent
  <2> QED BY <2>3, <2>4, <2>5 DEF kept
<1>8. UpToDate'
  <2>1. ASSUME NEW d \in kept PROVE LastOf(trails'[d]).at = t
    BY <1>4, <1>6, <1>7, <2>1 DEF kept
  <2> QED BY <1>2, <1>3, <2>1 DEF UpToDate, LastOf
<1>9. Seen' = [d \in Devices |->
                 IF d \in accepted THEN Log!Summary(Log!Recent(Seen[d], t), t, items[d])
                                   ELSE Log!Recent(Seen[d], t)]
  <2>1. Seen' = [d \in Devices |-> Seen'[d]]
    BY DEF Seen
  <2> HIDE DEF accepted
  <2> QED BY <1>6, <1>7, <2>1
<1>10. Log!Hear(t, items, accepted)
  <2>1. Log!Kept = DOMAIN trails
    BY KeptIs
  <2>2. Log!Kept \cup accepted = admitted
    BY <1>4, <2>1
  <2>3. Cardinality(admitted) = MaxTrails \/ accepted = DOMAIN items
    BY <1>4, SignalConstants
  <2> QED BY <1>2, <1>4, <1>9, <2>1, <2>2, <2>3, SameCardinality DEF Log!Hear
<1>11. t \in Log!Minutes /\ items \in Log!Inventories /\ accepted \in SUBSET DOMAIN items
  BY DEF Minutes, Log!Minutes, Inventories, Log!Inventories
<1> QED BY <1>8, <1>10, <1>11 DEF Log!Next

(* The signal history implements SignalWindow (README.md:39, 209): what is *)
(* kept of a device is what a full log of the inventories shows for the    *)
(* last Window minutes, no more and no less, and a device is refused only  *)
(* when every slot is taken.  The clock is not set back.                   *)
THEOREM Refines ==
  ASSUME "clock" \notin Faults PROVE Spec => ImplementsWindow
<1>1. Init => UpToDate /\ Log!Init
  <2> SUFFICES ASSUME Init PROVE UpToDate /\ Log!Init
    OBVIOUS
  <2>1. DOMAIN trails = {} /\ now = 0
    BY DEF Init
  <2>2. ASSUME NEW d \in Devices PROVE Seen[d] = {}
    <3>1. Present(TrailOf(d)) = {}
      BY <2>1 DEF TrailOf, Present
    <3> QED BY <3>1, SeenIs
  <2>3. Seen = [d \in Devices |-> {}]
    BY <2>2 DEF Seen
  <2> QED BY <2>1, <2>3 DEF UpToDate, Log!Init
<1>2. ASSUME Trails, now \in Minutes, UpToDate, [Next]_vars
      PROVE  UpToDate' /\ [Log!Next]_(Log!vars)
  <2>1. CASE Next
    BY <1>2, <2>1, RecordHears DEF Next
  <2>2. CASE UNCHANGED vars
    <3>1. trails' = trails /\ now' = now
      BY <2>2 DEF vars
    <3>2. Seen' = Seen
      BY <3>1 DEF Seen, TrailOf
    <3>3. UpToDate'
      BY <1>2, <3>1 DEF UpToDate, LastOf
    <3> QED BY <3>1, <3>2, <3>3 DEF Log!vars
  <2> QED BY <1>2, <2>1, <2>2
<1> QED BY TrailsAlways, <1>1, <1>2, PTL DEF Spec, ImplementsWindow, Log!Spec
=============================================================================
