----------------------------- MODULE ScansProofs -----------------------------
(***************************************************************************)
(* Proofs about the scans, for any number of requests, networks, channels, *)
(* passes, faults and outages.                                             *)
(***************************************************************************)
EXTENDS Scans, FiniteSetTheorems, TLAPS

-----------------------------------------------------------------------------
(* What is found.                                                          *)

LEMMA SetToSeqIs ==
  ASSUME NEW S, IsFiniteSet(S)
  PROVE  /\ SetToSeq(S) \in Seq(S) /\ IsInjective(SetToSeq(S))
         /\ ToSet(SetToSeq(S)) = S
<1> DEFINE n == Cardinality(S)
<1>1. n \in Nat /\ ExistsBijection(1..n, S)
  BY FS_CardinalityType
<1>2. \E f \in [1..n -> S] : IsInjective(f)
  BY <1>1 DEF ExistsBijection, Bijection, Injection
<1>3. SetToSeq(S) \in [1..n -> S] /\ IsInjective(SetToSeq(S))
  BY <1>2 DEF SetToSeq
<1> HIDE DEF n
<1>4. SetToSeq(S) \in Injection(1..n, S)
  BY <1>3 DEF Injection
<1>5. IsFiniteSet(1..n) /\ Cardinality(1..n) = n
  BY <1>1, FS_Interval
<1>6. SetToSeq(S) \in Surjection(1..n, S)
  BY <1>4, <1>5, FS_Injection DEF n
<1>7. ToSet(SetToSeq(S)) = S
  BY <1>3, <1>6 DEF ToSet, Surjection
<1> QED BY <1>1, <1>3, <1>7

LEMMA ConcatHas ==
  ASSUME NEW S, NEW s \in Seq(S), NEW t \in Seq(S)
  PROVE  /\ s \o t \in Seq(S)
         /\ ToSet(s \o t) = ToSet(s) \cup ToSet(t)
         /\ IsInjective(s) /\ IsInjective(t) /\ ToSet(s) \cap ToSet(t) = {}
            => IsInjective(s \o t)
<1>1. s \o t \in Seq(S) /\ Len(s \o t) = Len(s) + Len(t) /\ Len(s) \in Nat /\ Len(t) \in Nat
  OBVIOUS
<1>2. /\ DOMAIN s = 1..Len(s) /\ DOMAIN t = 1..Len(t)
      /\ DOMAIN (s \o t) = 1..(Len(s) + Len(t))
  BY <1>1
<1>3. \A i \in 1..Len(s) : (s \o t)[i] = s[i]
  OBVIOUS
<1>4. \A i \in 1..Len(t) : (s \o t)[Len(s) + i] = t[i]
  OBVIOUS
<1>5. \A i \in 1..(Len(s) + Len(t)) :
        i \in 1..Len(s) \/ (i > Len(s) /\ i - Len(s) \in 1..Len(t)
                            /\ Len(s) + (i - Len(s)) = i)
  BY <1>1
<1>6. \A i \in 1..Len(t) : Len(s) + i \in 1..(Len(s) + Len(t))
  BY <1>1
<1>6a. \A i \in 1..Len(s) : i \in 1..(Len(s) + Len(t))
  BY <1>1
<1> DEFINE st == s \o t
<1>7. /\ DOMAIN st = 1..(Len(s) + Len(t))
      /\ \A i \in 1..Len(s) : st[i] = s[i]
      /\ \A i \in 1..Len(t) : st[Len(s) + i] = t[i]
      /\ \A i \in DOMAIN st : i \in 1..Len(s) \/ (i > Len(s) /\ i - Len(s) \in 1..Len(t)
                                                  /\ st[i] = t[i - Len(s)])
  <2>1. \A i \in DOMAIN st : i > Len(s) /\ i - Len(s) \in 1..Len(t) /\ Len(s) + (i - Len(s)) = i
                             => st[i] = t[i - Len(s)]
    BY <1>4
  <2> QED BY <1>2, <1>3, <1>4, <1>5, <2>1
<1>8. ToSet(st) = ToSet(s) \cup ToSet(t)
  <2> HIDE DEF st
  <2>1. \A x \in ToSet(st) : x \in ToSet(s) \cup ToSet(t)
    BY <1>2, <1>7 DEF ToSet
  <2>2. \A x \in ToSet(s) : x \in ToSet(st)
    BY <1>2, <1>7, <1>6a DEF ToSet
  <2>3. \A x \in ToSet(t) : x \in ToSet(st)
    BY <1>2, <1>7, <1>6 DEF ToSet
  <2> QED BY <2>1, <2>2, <2>3
<1>9. ASSUME IsInjective(s), IsInjective(t), ToSet(s) \cap ToSet(t) = {},
             NEW i \in DOMAIN st, NEW j \in DOMAIN st, st[i] = st[j]
      PROVE  i = j
  <2> HIDE DEF st
  <2>1. \A a \in 1..Len(s), b \in 1..Len(t) : s[a] # t[b]
    BY <1>9, <1>2 DEF ToSet
  <2>2. CASE i \in 1..Len(s) /\ j \in 1..Len(s)
    BY <2>2, <1>9, <1>7, <1>2 DEF IsInjective
  <2>3. CASE i \notin 1..Len(s) /\ j \notin 1..Len(s)
    <3>1. i - Len(s) \in DOMAIN t /\ j - Len(s) \in DOMAIN t
          /\ t[i - Len(s)] = t[j - Len(s)]
      BY <2>3, <1>9, <1>7, <1>2
    <3>2. i - Len(s) = j - Len(s)
      BY <3>1, <1>9 DEF IsInjective
    <3>3. i \in Int /\ j \in Int
      BY <1>7, <1>1
    <3> QED BY <3>2, <3>3, <1>1
  <2>4. CASE i \in 1..Len(s) /\ j \notin 1..Len(s)
    BY <2>4, <2>1, <1>9, <1>7
  <2>5. CASE i \notin 1..Len(s) /\ j \in 1..Len(s)
    BY <2>5, <2>1, <1>9, <1>7
  <2> QED BY <2>2, <2>3, <2>4, <2>5
<1> QED BY <1>1, <1>8, <1>9 DEF IsInjective

LEMMA ToSetFinite ==
  ASSUME NEW S, NEW s \in Seq(S)
  PROVE  ToSet(s) \subseteq S /\ IsFiniteSet(ToSet(s))
<1>1. s \in [1..Len(s) -> S] /\ Len(s) \in Nat /\ DOMAIN s = 1..Len(s)
  OBVIOUS
<1>2. s \in Surjection(1..Len(s), ToSet(s))
  BY <1>1 DEF Surjection, ToSet
<1>3. IsFiniteSet(1..Len(s))
  BY <1>1, FS_Interval
<1>4. IsFiniteSet(ToSet(s))
  BY <1>2, <1>3, FS_Surjection
<1> QED BY <1>1, <1>4 DEF ToSet

(* AppendNew keeps what there is, adds what is new, and lists no network   *)
(* twice.                                                                  *)
LEMMA AppendNewIs ==
  ASSUME NEW found \in Seq(Keys), NEW items \in Seq(Keys)
  PROVE  /\ AppendNew(found, items) \in Seq(Keys)
         /\ ToSet(AppendNew(found, items)) = ToSet(found) \cup ToSet(items)
         /\ IsInjective(found) => IsInjective(AppendNew(found, items))
<1> DEFINE new == ToSet(items) \ ToSet(found)
<1>1. IsFiniteSet(new) /\ new \subseteq Keys
  <2>1. IsFiniteSet(ToSet(items)) /\ ToSet(items) \subseteq Keys
    BY ToSetFinite
  <2> QED BY <2>1, FS_Subset
<1>2. new \cap ToSet(found) = {} /\ ToSet(found) \cup new = ToSet(found) \cup ToSet(items)
  OBVIOUS
<1>3. AppendNew(found, items) = found \o SetToSeq(new)
  BY DEF AppendNew
<1> HIDE DEF new
<1>4. /\ SetToSeq(new) \in Seq(new) /\ IsInjective(SetToSeq(new))
      /\ ToSet(SetToSeq(new)) = new
  BY <1>1, SetToSeqIs
<1>5. SetToSeq(new) \in Seq(Keys)
  BY <1>1, <1>4
<1> DEFINE t == SetToSeq(new)
<1> HIDE DEF t
<1>6. t \in Seq(Keys) /\ IsInjective(t) /\ ToSet(t) = new
  BY <1>4, <1>5 DEF t
<1>7. /\ found \o t \in Seq(Keys)
      /\ ToSet(found \o t) = ToSet(found) \cup ToSet(t)
      /\ IsInjective(found) => IsInjective(found \o t)
  BY <1>2, <1>6, ConcatHas
<1> QED BY <1>2, <1>3, <1>6, <1>7 DEF t

(* The daemon tells of networks that there are, each by its key.           *)
LEMMA RepliesAreRows ==
  ASSUME NEW r, NEW rows \in Replies(r)
  PROVE  rows \in Seq(Keys)
<1>1. PICK heard \in SUBSET Networks : rows = Table(heard, pc[r] # "scan")
  BY DEF Replies
<1> DEFINE named == pc[r] # "scan"
           keys == {[network |-> n, named |-> named] : n \in heard}
<1>2. IsFiniteSet(keys)
  <2> DEFINE key == [n \in heard |-> [network |-> n, named |-> named]]
  <2>1. key \in Surjection(heard, keys)
    BY DEF Surjection
  <2>2. IsFiniteSet(heard)
    BY ScansAssumption, FS_Subset
  <2> QED BY <2>1, <2>2, FS_Surjection
<1>3. keys \subseteq Keys
  <2>1. named \in BOOLEAN
    OBVIOUS
  <2> HIDE DEF named
  <2> QED BY <2>1 DEF Keys
<1>4. rows = SetToSeq(keys) \o SetToSeq(keys)
  BY <1>1 DEF Table
<1> HIDE DEF keys, named
<1>5. SetToSeq(keys) \in Seq(Keys)
  BY <1>2, <1>3, SetToSeqIs
<1> QED BY <1>4, <1>5

(* A report of one level per channel is that reading.                      *)
LEMMA ReportIsReading ==
  ASSUME NEW reading \in Readings
  PROVE  ReadingOf([c \in DOMAIN reading |-> {reading[c]}]) = reading
<1>1. reading = [c \in DOMAIN reading |-> reading[c]]
      /\ \A c \in DOMAIN reading : reading[c] \in Int
  BY ScansAssumption
<1> DEFINE report == [c \in DOMAIN reading |-> {reading[c]}]
<1>2. {c \in DOMAIN report : report[c] # {}} = DOMAIN reading
  OBVIOUS
<1>3. \A c \in DOMAIN reading :
        (CHOOSE level \in report[c] : \A l \in report[c] : l <= level) = reading[c]
  BY <1>1
<1> HIDE DEF report
<1>4. ReadingOf(report) = [c \in DOMAIN reading |-> reading[c]]
  BY <1>2, <1>3 DEF ReadingOf
<1> QED BY <1>1, <1>4 DEF report

-----------------------------------------------------------------------------
(* The invariant: TypeOK, and for each request where it may be, what its   *)
(* lists hold, whether it has measured and what it is answered.            *)

Steps == {"new", "done", "web", "overview"} \cup Commands \cup Actions \cup Pauses
Statuses == {"none", "available", "unavailable", "unsupported", "error"}
Networking == {"channel", "whole", "scan", "channelPause", "passPause", "web"}
Measuring == {"overview", "energy", "energyPause"} \cup Actions
Passing == {"channel", "whole", "scan", "channelPause", "passPause"}

At(r) ==
  /\ pc[r] \in Networking => r \in NetworkRequests
  /\ pc[r] \in Measuring => r \in EnergyRequests
  /\ pc[r] \in Passing => done[r] < Passes
  /\ pc[r] \in {"whole", "scan", "passPause"} => channel[r] = 1
  /\ pc[r] = "new" => channel[r] = 1 /\ done[r] = 0

Listed(r) ==
  /\ channel[r] = 1 => pass[r] = << >>
  /\ done[r] = 0 => merged[r] = << >>
  /\ channel[r] > 1 => "channel" \in firmware
  /\ IsInjective(pass[r]) /\ IsInjective(merged[r])
  /\ told[r] = ToSet(merged[r]) \cup ToSet(pass[r])
  /\ r \in EnergyRequests => told[r] = {}

Unmeasured(r) == pc[r] \in {"new", "overview"} => samples[r] = << >>

Answered(r) ==
  /\ pc[r] # "done" => answer[r].source = "none"
  /\ answer[r].source = "daemon" /\ answer[r].passes > 0 /\ answer[r].noise = << >>
     => ToSet(answer[r].items) = told[r] /\ IsInjective(answer[r].items)

OneOf(r) == At(r) /\ Listed(r) /\ Unmeasured(r) /\ Answered(r)

Inv ==
  /\ TypeOK
  /\ DOMAIN answer = Requests
  /\ \A r \in Requests : OneOf(r)

(* A step of r leaves the other requests alone.                            *)
OthersStay(r) ==
  \A q \in Requests \ {r} :
    /\ pc'[q] = pc[q] /\ cancelled'[q] = cancelled[q]
    /\ channel'[q] = channel[q] /\ pass'[q] = pass[q]
    /\ merged'[q] = merged[q] /\ done'[q] = done[q]
    /\ answer'[q] = answer[q] /\ told'[q] = told[q] /\ samples'[q] = samples[q]

(* The socket stays, and its mutex is taken or released by r.              *)
SocketStays(r) ==
  /\ UNCHANGED world
  /\ mutex' = mutex \/ {mutex, mutex'} = {r, Nobody}

LEMMA OthersKept ==
  ASSUME Inv, NEW r \in Requests, OthersStay(r), SocketStays(r)
  PROVE  \A q \in Requests \ {r} : OneOf(q)' /\ answer'[q].status \in Statuses
<1> SUFFICES ASSUME NEW q \in Requests \ {r}
             PROVE  OneOf(q)' /\ answer'[q].status \in Statuses
  OBVIOUS
<1>1. At(q) /\ Listed(q) /\ Unmeasured(q) /\ Answered(q) /\ answer[q].status \in Statuses
  BY DEF Inv, OneOf, TypeOK, Statuses
<1>2. q # r /\ q # Nobody
  BY ScansAssumption
<1>3. mutex' = q <=> mutex = q
  BY <1>2 DEF SocketStays
<1>4. At(q)' /\ Listed(q)'
  BY <1>1 DEF OthersStay, SocketStays, At, Listed, world
<1>5. Unmeasured(q)'
  BY <1>1, <1>3 DEF OthersStay, SocketStays, Unmeasured, world
<1>6. Answered(q)' /\ answer'[q].status \in Statuses
  BY <1>1 DEF OthersStay, Answered
<1> QED BY <1>4, <1>5, <1>6 DEF OneOf

(* What remains of Inv for a step of r.                                    *)
LEMMA StepOfOne ==
  ASSUME Inv, NEW r \in Requests, OthersStay(r), SocketStays(r),
         OneOf(r)', answer'[r].status \in Statuses,
         DOMAIN answer' = Requests,
         faults' \in 0..MaxFaults,
         mutex' \in Requests \cup {Nobody}, mutex' # Nobody => pc'[mutex'] \in Commands,
         pc' \in [Requests -> Steps], cancelled' \in [Requests -> BOOLEAN],
         channel' \in [Requests -> 1..Channels],
         pass' \in [Requests -> Seq(Keys)], merged' \in [Requests -> Seq(Keys)],
         done' \in [Requests -> 0..Passes], samples' \in [Requests -> Seq(Readings)],
         current' \in [Requests -> Overviews], late' \in [Requests -> BOOLEAN],
         told' \in [Requests -> SUBSET Keys]
  PROVE  Inv'
<1>1. \A q \in Requests \ {r} : OneOf(q)' /\ answer'[q].status \in Statuses
  BY OthersKept
<1>2. \A q \in Requests : OneOf(q)' /\ answer'[q].status \in Statuses
  BY <1>1
<1>3. firmware' = firmware /\ socket' = socket /\ outages' = outages
  BY DEF SocketStays, world
<1>4. TypeOK'
  BY <1>2, <1>3 DEF Inv, TypeOK, Steps, Statuses
<1> QED BY <1>2, <1>3, <1>4 DEF Inv

-----------------------------------------------------------------------------
(* What the operators of the steps do to their request, and that they      *)
(* leave the others alone.                                                 *)

Outcome(r) ==
  /\ pc' \in [Requests -> Steps] /\ DOMAIN answer' = Requests
  /\ \A q \in Requests \ {r} : pc'[q] = pc[q] /\ answer'[q] = answer[q]
  /\ answer'[r].status \in Statuses

ScanOutcome(r) ==
  /\ channel' \in [Requests -> 1..Channels]
  /\ pass' \in [Requests -> Seq(Keys)] /\ merged' \in [Requests -> Seq(Keys)]
  /\ done' \in [Requests -> 0..Passes] /\ samples' \in [Requests -> Seq(Readings)]
  /\ current' \in [Requests -> Overviews] /\ late' \in [Requests -> BOOLEAN]
  /\ \A q \in Requests \ {r} :
       /\ channel'[q] = channel[q] /\ pass'[q] = pass[q]
       /\ merged'[q] = merged[q] /\ done'[q] = done[q]
       /\ samples'[q] = samples[q]

LEMMA Emptiness == DOMAIN << >> = {} /\ IsInjective(<< >>) /\ ToSet(<< >>) = {}
                   /\ << >> \in Seq(Keys)
<1>1. DOMAIN << >> = {}
  OBVIOUS
<1> QED BY <1>1 DEF IsInjective, ToSet

LEMMA ScanUnchanged ==
  ASSUME Inv, NEW r \in Requests, UNCHANGED scan
  PROVE  ScanOutcome(r)
BY DEF Inv, TypeOK, scan, ScanOutcome

LEMMA FinishIs ==
  ASSUME Inv, NEW r \in Requests, NEW a, a.status \in Statuses, Finish(r, a)
  PROVE  Outcome(r) /\ pc'[r] = "done" /\ answer'[r] = a
<1>1. pc \in [Requests -> Steps] /\ DOMAIN answer = Requests
  BY DEF Inv, TypeOK, Steps
<1>2. "done" \in Steps
  BY DEF Steps
<1>3. pc' = [pc EXCEPT ![r] = "done"] /\ answer' = [answer EXCEPT ![r] = a]
  BY DEF Finish
<1>4. /\ pc' \in [Requests -> Steps] /\ pc'[r] = "done"
      /\ \A q \in Requests \ {r} : pc'[q] = pc[q]
  BY <1>1, <1>2, <1>3
<1>5. /\ DOMAIN answer' = Requests /\ answer'[r] = a
      /\ \A q \in Requests \ {r} : answer'[q] = answer[q]
  BY <1>1, <1>3
<1> QED BY <1>4, <1>5 DEF Outcome

LEMMA MoveIs ==
  ASSUME Inv, NEW r \in Requests, NEW step \in Steps, pc' = [pc EXCEPT ![r] = step],
         UNCHANGED answer
  PROVE  Outcome(r) /\ pc'[r] = step /\ answer'[r] = answer[r]
<1>1. pc \in [Requests -> Steps] /\ DOMAIN answer = Requests
      /\ answer[r].status \in Statuses
  BY DEF Inv, TypeOK, Steps, Statuses
<1> QED BY <1>1 DEF Outcome

LEMMA AnswerIs ==
  ASSUME NEW status, NEW source
  PROVE  LET a == Answer(status, source)
         IN  a.status = status /\ a.source = source /\ a.passes = 0 /\ a.items = << >>
BY DEF Answer, NoAnswer

LEMMA FoundIs ==
  ASSUME NEW items, NEW passes
  PROVE  /\ Found(items, passes).status = "available"
         /\ Found(items, passes).items = items
BY DEF Found, Answer, NoAnswer

(* A pass that failed answers all that was heard, an error, or has the web *)
(* service asked when nothing was heard.                                   *)
LEMMA PassFailedIs ==
  ASSUME Inv, NEW r \in Requests, NEW unusable \in BOOLEAN, PassFailed(r, unusable),
         pc[r] \in Passing, channel[r] = 1, UNCHANGED <<scan, told, firmware>>
  PROVE  /\ Outcome(r) /\ ScanOutcome(r)
         /\ At(r)' /\ Listed(r)' /\ Answered(r)'
         /\ pc'[r] \in {"done", "web"}
         /\ pc'[r] = "web" => unusable /\ told[r] = {}
<1>1. At(r) /\ Listed(r) /\ Answered(r) /\ done[r] \in 0..Passes
  BY DEF Inv, OneOf, TypeOK
<1>2. UNCHANGED <<channel, pass, merged, done>> /\ told' = told /\ firmware' = firmware
  BY DEF scan
<1>3. Listed(r)'
  BY <1>1, <1>2 DEF Listed
<1>4. pass[r] = << >> /\ told[r] = ToSet(merged[r]) /\ IsInjective(merged[r])
  BY <1>1, Emptiness DEF Listed
<1>5. ScanOutcome(r)
  BY ScanUnchanged
<1>6. CASE done[r] > 0 /\ Finish(r, Found(merged[r], done[r]))
  <2>1. Outcome(r) /\ pc'[r] = "done" /\ answer'[r] = Found(merged[r], done[r])
    BY <1>6, FoundIs, FinishIs DEF Statuses
  <2>2. answer'[r].items = merged[r]
    BY <2>1, FoundIs
  <2>3. Answered(r)'
    BY <2>1, <2>2, <1>2, <1>4 DEF Answered
  <2>4. At(r)'
    BY <2>1 DEF At, Networking, Measuring, Passing, Actions
  <2> QED BY <2>1, <2>3, <2>4, <1>3, <1>5
<1>7. CASE done[r] = 0 /\ unusable /\ pc' = [pc EXCEPT ![r] = "web"] /\ UNCHANGED answer
  <2>1. Outcome(r) /\ pc'[r] = "web" /\ answer'[r] = answer[r]
    BY <1>7, MoveIs DEF Steps
  <2>2. Answered(r)'
    BY <2>1, <1>1 DEF Answered, Passing
  <2>3. At(r)'
    BY <2>1, <1>1 DEF At, Networking, Measuring, Passing, Actions
  <2>4. told[r] = {}
    BY <1>7, <1>1, <1>4, Emptiness DEF Listed
  <2> QED BY <2>1, <2>2, <2>3, <2>4, <1>3, <1>5, <1>7
<1>8. CASE done[r] = 0 /\ ~unusable /\ Finish(r, Answer("unavailable", "daemon"))
  <2>1. Outcome(r) /\ pc'[r] = "done" /\ answer'[r] = Answer("unavailable", "daemon")
    BY <1>8, AnswerIs, FinishIs DEF Statuses
  <2>2. answer'[r].passes = 0
    BY <2>1, AnswerIs
  <2>3. Answered(r)'
    BY <2>1, <2>2 DEF Answered
  <2>4. At(r)'
    BY <2>1 DEF At, Networking, Measuring, Passing, Actions
  <2> QED BY <2>1, <2>3, <2>4, <1>3, <1>5
<1> QED BY <1>6, <1>7, <1>8 DEF PassFailed

(* A pass that is over has all that was heard merged.                      *)
LEMMA PassDoneIs ==
  ASSUME Inv, NEW r \in Requests, NEW found \in Seq(Keys), IsInjective(found),
         pc[r] \in Passing, told'[r] = ToSet(merged[r]) \cup ToSet(found),
         PassDone(r, found), UNCHANGED <<samples, current, late, firmware>>
  PROVE  /\ Outcome(r) /\ ScanOutcome(r)
         /\ At(r)' /\ Listed(r)' /\ Answered(r)'
         /\ pc'[r] \in {"done", "passPause"}
<1> DEFINE all == AppendNew(merged[r], found)
<1>1. At(r) /\ Listed(r) /\ Answered(r) /\ done[r] \in 0..Passes /\ merged[r] \in Seq(Keys)
  BY DEF Inv, OneOf, TypeOK
<1>2. all \in Seq(Keys) /\ ToSet(all) = told'[r] /\ IsInjective(all)
  BY <1>1, AppendNewIs DEF Listed
<1>3. r \in NetworkRequests /\ r \notin EnergyRequests /\ done[r] < Passes
  BY <1>1, ScansAssumption DEF At, Passing, Networking
<1> HIDE DEF all
<1>4. /\ merged' = [merged EXCEPT ![r] = all] /\ done' = [done EXCEPT ![r] = done[r] + 1]
      /\ pass' = [pass EXCEPT ![r] = << >>] /\ channel' = [channel EXCEPT ![r] = 1]
  BY DEF PassDone, all
<1>5. /\ merged \in [Requests -> Seq(Keys)] /\ pass \in [Requests -> Seq(Keys)]
      /\ done \in [Requests -> 0..Passes] /\ channel \in [Requests -> 1..Channels]
      /\ samples' \in [Requests -> Seq(Readings)]
      /\ current' \in [Requests -> Overviews] /\ late' \in [Requests -> BOOLEAN]
  BY DEF Inv, TypeOK
<1>6. merged'[r] = all /\ done'[r] = done[r] + 1 /\ pass'[r] = << >> /\ channel'[r] = 1
  BY <1>4, <1>5
<1>7. done[r] + 1 \in 0..Passes /\ 1 \in 1..Channels
  BY <1>1, <1>3, ScansAssumption
<1>8. /\ merged' \in [Requests -> Seq(Keys)] /\ pass' \in [Requests -> Seq(Keys)]
      /\ channel' \in [Requests -> 1..Channels]
  BY <1>2, <1>4, <1>5, <1>7, Emptiness
<1>9. done' \in [Requests -> 0..Passes]
  BY <1>4, <1>5, <1>7
<1>10. ScanOutcome(r)
  BY <1>4, <1>5, <1>8, <1>9 DEF ScanOutcome
<1>11. Listed(r)'
  BY <1>1, <1>2, <1>3, <1>6, Emptiness DEF Listed
<1>12. CASE done'[r] = Passes /\ Finish(r, Found(merged'[r], done'[r]))
  <2>1. Outcome(r) /\ pc'[r] = "done" /\ answer'[r] = Found(merged'[r], done'[r])
    BY <1>12, FoundIs, FinishIs DEF Statuses
  <2>2. answer'[r].items = all
    BY <2>1, <1>6, FoundIs
  <2>3. Answered(r)'
    BY <2>1, <2>2, <1>2 DEF Answered
  <2>4. At(r)'
    BY <2>1 DEF At, Networking, Measuring, Passing, Actions
  <2> QED BY <2>1, <2>3, <2>4, <1>10, <1>11
<1>13. CASE /\ done'[r] # Passes /\ UNCHANGED answer
            /\ pc' = [pc EXCEPT ![r] = "passPause"]
  <2>1. Outcome(r) /\ pc'[r] = "passPause" /\ answer'[r] = answer[r]
    BY <1>13, MoveIs DEF Steps, Pauses
  <2>2. done'[r] < Passes
    BY <1>13, <1>6, <1>7, ScansAssumption
  <2>3. At(r)'
    BY <2>1, <2>2, <1>3, <1>6 DEF At, Networking, Measuring, Passing, Actions
  <2>4. Answered(r)'
    BY <2>1, <1>1 DEF Answered, Passing
  <2> QED BY <2>1, <2>3, <2>4, <1>10, <1>11
<1> QED BY <1>12, <1>13 DEF PassDone

(* A channel that is over adds to the pass, or ends it.                    *)
LEMMA NextChannelIs ==
  ASSUME Inv, NEW r \in Requests, NEW found \in Seq(Keys), IsInjective(found),
         NEW pause \in BOOLEAN, pc[r] = "channel",
         channel[r] < Channels => "channel" \in firmware,
         told'[r] = ToSet(merged[r]) \cup ToSet(found),
         NextChannel(r, found, pause), UNCHANGED <<samples, current, late, firmware>>
  PROVE  /\ Outcome(r) /\ ScanOutcome(r)
         /\ At(r)' /\ Listed(r)' /\ Answered(r)'
         /\ pc'[r] \in {"done", "passPause", "channelPause", "channel"}
         /\ pc'[r] = "channel" => ~pause
<1>1. CASE channel[r] = Channels /\ PassDone(r, found)
  BY <1>1, PassDoneIs DEF Passing
<1>2. CASE /\ channel[r] # Channels
           /\ pass' = [pass EXCEPT ![r] = found]
           /\ channel' = [channel EXCEPT ![r] = channel[r] + 1]
           /\ pc' = [pc EXCEPT ![r] = IF pause THEN "channelPause" ELSE "channel"]
           /\ UNCHANGED <<merged, done, answer>>
  <2>1. At(r) /\ Listed(r) /\ Answered(r) /\ channel[r] \in 1..Channels
    BY DEF Inv, OneOf, TypeOK
  <2>2. /\ merged \in [Requests -> Seq(Keys)] /\ pass \in [Requests -> Seq(Keys)]
        /\ done \in [Requests -> 0..Passes] /\ channel \in [Requests -> 1..Channels]
        /\ samples' \in [Requests -> Seq(Readings)]
        /\ current' \in [Requests -> Overviews] /\ late' \in [Requests -> BOOLEAN]
    BY DEF Inv, TypeOK
  <2>3. channel[r] + 1 \in 1..Channels /\ channel[r] < Channels /\ channel[r] + 1 # 1
    BY <1>2, <2>1, ScansAssumption
  <2>4. pass'[r] = found /\ channel'[r] = channel[r] + 1
        /\ merged' = merged /\ done' = done
    BY <1>2, <2>2
  <2>5. channel' \in [Requests -> 1..Channels] /\ pass' \in [Requests -> Seq(Keys)]
    BY <1>2, <2>2, <2>3
  <2>6. ScanOutcome(r)
    BY <1>2, <2>2, <2>5 DEF ScanOutcome
  <2>7. r \in NetworkRequests /\ r \notin EnergyRequests
    BY <2>1, ScansAssumption DEF At, Networking
  <2>8. Listed(r)'
    BY <2>1, <2>3, <2>4, <2>7 DEF Listed
  <2> DEFINE step == IF pause THEN "channelPause" ELSE "channel"
  <2>9. step \in {"channelPause", "channel"} /\ (step = "channel" => ~pause)
        /\ step \in Steps
    BY DEF Steps, Pauses, Commands
  <2>10. pc' = [pc EXCEPT ![r] = step]
    BY <1>2
  <2> HIDE DEF step
  <2>11. Outcome(r) /\ pc'[r] = step /\ answer'[r] = answer[r]
    BY <1>2, <2>9, <2>10, MoveIs
  <2>12. At(r)'
    BY <2>1, <2>4, <2>7, <2>9, <2>11 DEF At, Networking, Measuring, Passing, Actions
  <2>13. Answered(r)'
    BY <2>1, <2>9, <2>11 DEF Answered
  <2> QED BY <2>6, <2>8, <2>9, <2>11, <2>12, <2>13
<1> QED BY <1>1, <1>2 DEF NextChannel

(* A scan of the noise is answered without a network.                      *)
LEMMA MeasuredIs ==
  ASSUME Inv, NEW r \in Requests, NEW source, Measured(r, source),
         Listed(r)', told'[r] = {}
  PROVE  Outcome(r) /\ At(r)' /\ Answered(r)' /\ pc'[r] = "done"
<1> DEFINE a == [Answer("available", source) EXCEPT
                   !.noise = Combine(samples'[r]), !.current = current[r].channel,
                   !.passes = Len(samples'[r])]
<1>1. a.status = "available" /\ a.items = << >>
  BY DEF Answer, NoAnswer
<1>2. Finish(r, a)
  BY DEF Measured
<1> HIDE DEF a
<1>3. Outcome(r) /\ pc'[r] = "done" /\ answer'[r] = a
  BY <1>1, <1>2, FinishIs DEF Statuses
<1>4. Answered(r)'
  BY <1>1, <1>3, Emptiness DEF Answered
<1>5. At(r)'
  BY <1>3 DEF At, Networking, Measuring, Passing, Actions
<1> QED BY <1>3, <1>4, <1>5

(* So is one that is answered with an error.                               *)
LEMMA ErrorIs ==
  ASSUME Inv, NEW r \in Requests, NEW status \in Statuses, NEW source,
         Finish(r, Answer(status, source))
  PROVE  Outcome(r) /\ At(r)' /\ Answered(r)' /\ pc'[r] = "done"
<1>1. Outcome(r) /\ pc'[r] = "done" /\ answer'[r] = Answer(status, source)
  BY AnswerIs, FinishIs
<1>2. answer'[r].passes = 0
  BY <1>1, AnswerIs
<1>3. Answered(r)'
  BY <1>1, <1>2 DEF Answered
<1>4. At(r)'
  BY <1>1 DEF At, Networking, Measuring, Passing, Actions
<1> QED BY <1>1, <1>3, <1>4

(* A scan of the noise has no lists.                                       *)
LEMMA NoLists ==
  ASSUME Inv, NEW r \in Requests, pc[r] \in Measuring,
         UNCHANGED <<firmware, told, channel, pass, merged, done>>
  PROVE  r \in EnergyRequests /\ told'[r] = {} /\ Listed(r)'
<1>1. At(r) /\ Listed(r)
  BY DEF Inv, OneOf
<1>2. r \in EnergyRequests
  BY <1>1 DEF At
<1> QED BY <1>1, <1>2 DEF Listed

LEMMA MeasuringMove ==
  ASSUME Inv, NEW r \in Requests, r \in EnergyRequests, NEW step \in Measuring,
         pc[r] # "done", pc' = [pc EXCEPT ![r] = step], UNCHANGED answer
  PROVE  Outcome(r) /\ At(r)' /\ Answered(r)' /\ pc'[r] = step
<1>1. Answered(r)
  BY DEF Inv, OneOf
<1>2. step \in Steps
  BY DEF Measuring, Steps, Commands, Pauses
<1>3. Outcome(r) /\ pc'[r] = step /\ answer'[r] = answer[r]
  BY <1>2, MoveIs
<1>4. step # "done" /\ step # "new" /\ step \notin Networking /\ step \notin Passing
      /\ step \notin {"whole", "scan", "passPause"}
  BY DEF Measuring, Actions, Networking, Passing
<1>5. At(r)'
  BY <1>3, <1>4 DEF At
<1>6. Answered(r)'
  BY <1>1, <1>3, <1>4 DEF Answered
<1> QED BY <1>3, <1>5, <1>6

(* A command that failed: the next one is tried, another channel, another  *)
(* way to ask, or the request is answered.                                 *)
AfterFailure(r, unusable) ==
  /\ Outcome(r) /\ ScanOutcome(r) /\ At(r)' /\ Listed(r)' /\ Answered(r)'
  /\ pc'[r] \notin {"new", "overview"}
  /\ pc'[r] = "web" => unusable /\ told[r] = {}
  /\ pc'[r] \in Actions => unusable /\ samples'[r] = << >>

LEMMA FailedIs ==
  ASSUME Inv, NEW r \in Requests, NEW unusable \in BOOLEAN, Failed(r, unusable),
         UNCHANGED <<firmware, told>>
  PROVE  AfterFailure(r, unusable)
<1>1. At(r) /\ Listed(r) /\ Answered(r) /\ channel[r] \in 1..Channels
      /\ pass[r] \in Seq(Keys)
  BY DEF Inv, OneOf, TypeOK
<1>2. CASE /\ pc[r] \in {"channel", "whole"} /\ channel[r] = 1 /\ ~unusable
           /\ \E step \in {"whole", "scan"} : pc' = [pc EXCEPT ![r] = step]
           /\ UNCHANGED <<answer, scan>>
  <2>1. PICK step \in {"whole", "scan"} : pc' = [pc EXCEPT ![r] = step]
    BY <1>2
  <2>2. Outcome(r) /\ pc'[r] = step /\ answer'[r] = answer[r]
    BY <1>2, <2>1, MoveIs DEF Steps, Commands
  <2>3. ScanOutcome(r)
    BY <1>2, ScanUnchanged
  <2>4. At(r)' /\ Listed(r)' /\ Answered(r)'
    BY <1>1, <1>2, <2>2 DEF At, Listed, Answered, Networking, Measuring, Passing, Actions,
                            scan
  <2> QED BY <1>2, <2>2, <2>3, <2>4 DEF AfterFailure, Actions
<1>3. CASE /\ pc[r] \in {"channel", "whole", "scan"} /\ channel[r] = 1
           /\ PassFailed(r, unusable) /\ UNCHANGED scan
  <2>1. pc[r] \in Passing
    BY <1>3 DEF Passing
  <2>2. /\ Outcome(r) /\ ScanOutcome(r)
        /\ At(r)' /\ Listed(r)' /\ Answered(r)'
        /\ pc'[r] \in {"done", "web"}
        /\ pc'[r] = "web" => unusable /\ told[r] = {}
    BY <1>3, <2>1, PassFailedIs
  <2> QED BY <2>2 DEF AfterFailure, Actions
<1>4. CASE /\ pc[r] = "channel" /\ channel[r] > 1
           /\ NextChannel(r, pass[r], FALSE)
           /\ UNCHANGED <<samples, current, late>>
  <2>1. "channel" \in firmware /\ IsInjective(pass[r])
        /\ told'[r] = ToSet(merged[r]) \cup ToSet(pass[r])
    BY <1>1, <1>4 DEF Listed
  <2>2. /\ Outcome(r) /\ ScanOutcome(r)
        /\ At(r)' /\ Listed(r)' /\ Answered(r)'
        /\ pc'[r] \in {"done", "passPause", "channelPause", "channel"}
    BY <1>1, <1>4, <2>1, NextChannelIs
  <2> QED BY <1>4, <2>2 DEF AfterFailure, Actions
<1>5. CASE /\ pc[r] = "energy" /\ UNCHANGED scan
           /\ Measured(r, "daemon") \/ Finish(r, Answer("unavailable", "daemon"))
  <2>1. pc[r] \in Measuring /\ UNCHANGED <<channel, pass, merged, done>>
    BY <1>5 DEF Measuring, scan
  <2>2. told'[r] = {} /\ Listed(r)'
    BY <2>1, NoLists
  <2>3. Outcome(r) /\ At(r)' /\ Answered(r)' /\ pc'[r] = "done"
    BY <1>5, <2>2, MeasuredIs, ErrorIs DEF Statuses
  <2>4. ScanOutcome(r)
    BY <1>5, ScanUnchanged
  <2> QED BY <2>2, <2>3, <2>4 DEF AfterFailure, Actions
<1>6. CASE /\ pc[r] = "energy" /\ samples[r] = << >> /\ unusable
           /\ \/ pc' = [pc EXCEPT ![r] = "post"] /\ UNCHANGED answer
              \/ Finish(r, Answer("unavailable", "rest"))
           /\ late' = [late EXCEPT ![r] = FALSE]
           /\ UNCHANGED <<channel, pass, merged, done, samples, current>>
  <2>1. pc[r] \in Measuring
    BY <1>6 DEF Measuring
  <2>2. r \in EnergyRequests /\ Listed(r)'
    BY <1>6, <2>1, NoLists
  <2>3. Outcome(r) /\ At(r)' /\ Answered(r)' /\ pc'[r] \in {"done", "post"}
    BY <1>6, <2>2, MeasuringMove, ErrorIs DEF Statuses, Measuring, Actions
  <2>4. ScanOutcome(r)
    BY <1>6 DEF Inv, TypeOK, ScanOutcome
  <2> QED BY <1>6, <2>2, <2>3, <2>4 DEF AfterFailure, Actions
<1>7. pc[r] \in {"whole", "scan"} => channel[r] = 1
  BY <1>1 DEF At
<1> QED BY <1>2, <1>3, <1>4, <1>5, <1>6, <1>7 DEF Failed, SweepFailed

-----------------------------------------------------------------------------
(* The steps, each with its effect on its request.                         *)

After(r) == Outcome(r) /\ ScanOutcome(r) /\ At(r)' /\ Listed(r)' /\ Answered(r)'

(* The steps of FaultsNotHidden and of MeasuredOneWay.                     *)
LastResort(r) ==
  /\ pc[r] # "web" /\ pc'[r] = "web"
     => told'[r] = {} /\ (socket # "up" \/ cancelled[r])
  /\ pc[r] \notin Actions /\ pc'[r] \in Actions
     => samples'[r] = << >> /\ (socket # "up" \/ cancelled[r])

NotHidden == \A r \in Requests : LastResort(r)

LEMMA OfOne ==
  ASSUME NEW r \in Requests, Outcome(r), LastResort(r)
  PROVE  NotHidden
BY DEF Outcome, LastResort, NotHidden

LEMMA MutexOfOther ==
  ASSUME Inv, NEW r \in Requests, pc[r] \notin Commands
  PROVE  mutex # r
BY ScansAssumption DEF Inv, TypeOK

(* A step of r that holds no mutex.                                        *)
LEMMA StepWithout ==
  ASSUME Inv, NEW r \in Requests, mutex # r, After(r), Unmeasured(r)',
         UNCHANGED <<world, mutex, cancelled, told>>,
         faults' \in 0..MaxFaults
  PROVE  Inv'
<1>1. OthersStay(r)
  BY DEF After, Outcome, ScanOutcome, OthersStay
<1>2. SocketStays(r)
  BY DEF SocketStays
<1>3. OneOf(r)'
  BY DEF OneOf, After
<1>4. mutex' \in Requests \cup {Nobody} /\ (mutex' # Nobody => pc'[mutex'] \in Commands)
  BY DEF Inv, TypeOK, After, Outcome
<1>5. cancelled' \in [Requests -> BOOLEAN] /\ told' \in [Requests -> SUBSET Keys]
  BY DEF Inv, TypeOK
<1> QED BY <1>1, <1>2, <1>3, <1>4, <1>5, StepOfOne DEF After, Outcome, ScanOutcome

(* A step of r that releases it.                                           *)
LEMMA StepThatReleases ==
  ASSUME Inv, NEW r \in Requests, mutex = r, mutex' = Nobody, After(r), Unmeasured(r)',
         UNCHANGED <<world, cancelled>>, faults' \in 0..MaxFaults,
         told' \in [Requests -> SUBSET Keys],
         \A q \in Requests \ {r} : told'[q] = told[q]
  PROVE  Inv'
<1>1. OthersStay(r)
  BY DEF After, Outcome, ScanOutcome, OthersStay
<1>2. SocketStays(r)
  BY DEF SocketStays
<1>3. OneOf(r)'
  BY DEF OneOf, After
<1>5. cancelled' \in [Requests -> BOOLEAN]
  BY DEF Inv, TypeOK
<1> QED BY <1>1, <1>2, <1>3, <1>5, StepOfOne DEF After, Outcome, ScanOutcome

LEMMA InitHolds == Init => Inv
<1> SUFFICES ASSUME Init PROVE Inv
  OBVIOUS
<1>1. TypeOK /\ DOMAIN answer = Requests
  <2>1. 1 \in 1..Channels /\ 0 \in 0..Passes /\ 0 \in 0..Channels
        /\ 0 \in 0..MaxOutages /\ 0 \in 0..MaxFaults
    BY ScansAssumption
  <2>2. << >> \in Seq(Keys) /\ << >> \in Seq(Readings)
    OBVIOUS
  <2>3. \A r \in Requests : answer[r].status = "none"
    BY DEF Init, NoAnswer
  <2>4. firmware \subseteq Commands
    BY DEF Init, Commands
  <2>5. current \in [Requests -> Overviews]
    <3>1. NoOverview \in Overviews
      BY <2>1 DEF Overviews, NoOverview
    <3> QED BY <3>1 DEF Init
  <2> QED BY <2>1, <2>2, <2>3, <2>4, <2>5 DEF Init, TypeOK
<1>2. ASSUME NEW r \in Requests PROVE OneOf(r)
  <2>1. /\ pc[r] = "new" /\ channel[r] = 1 /\ pass[r] = << >> /\ merged[r] = << >>
        /\ done[r] = 0 /\ told[r] = {} /\ samples[r] = << >> /\ answer[r].source = "none"
    BY DEF Init, NoAnswer
  <2>2. At(r) /\ Unmeasured(r) /\ Answered(r)
    BY <2>1 DEF At, Unmeasured, Answered, Networking, Measuring, Passing, Actions
  <2>3. Listed(r)
    BY <2>1, Emptiness DEF Listed
  <2> QED BY <2>2, <2>3 DEF OneOf
<1> QED BY <1>1, <1>2 DEF Inv

LEMMA StartNetworksKeeps ==
  ASSUME Inv, NEW r \in Requests, StartNetworks(r)
  PROVE  Inv' /\ NotHidden
<1>1. /\ At(r) /\ Listed(r) /\ Answered(r) /\ Unmeasured(r)
  BY DEF Inv, OneOf, TypeOK
<1>2. pc[r] = "new" /\ r \in NetworkRequests /\ UNCHANGED <<scan, told, firmware, answer>>
  BY DEF StartNetworks, world
<1> DEFINE step == IF socket = "gone" THEN "web" ELSE "channel"
<1>3. pc' = [pc EXCEPT ![r] = step] /\ step \in {"web", "channel"} /\ step \in Steps
  BY DEF StartNetworks, Steps, Commands
<1>4. step = "web" <=> socket = "gone"
  OBVIOUS
<1> HIDE DEF step
<1>5. Outcome(r) /\ pc'[r] = step /\ answer'[r] = answer[r]
  BY <1>2, <1>3, MoveIs
<1>6. ScanOutcome(r)
  BY <1>2, ScanUnchanged
<1>7. At(r)' /\ Listed(r)' /\ Answered(r)'
  <2>1. done[r] < Passes
    BY <1>1, <1>2, ScansAssumption DEF At
  <2>2. At(r)'
    BY <2>1, <1>2, <1>3, <1>5 DEF At, Networking, Measuring, Passing, Actions, scan
  <2>3. Listed(r)'
    BY <1>1, <1>2 DEF Listed, scan
  <2>4. Answered(r)'
    BY <1>1, <1>2, <1>3, <1>5 DEF Answered
  <2> QED BY <2>2, <2>3, <2>4
<1>8. Unmeasured(r)'
  BY <1>3, <1>5 DEF Unmeasured
<1>9. mutex # r
  BY <1>2, MutexOfOther DEF Commands
<1>10. Inv'
  BY <1>5, <1>6, <1>7, <1>8, <1>9, StepWithout
     DEF After, StartNetworks, Inv, TypeOK
<1>11. told'[r] = {}
  BY <1>1, <1>2, Emptiness DEF Listed, At
<1>12. LastResort(r)
  BY <1>3, <1>4, <1>5, <1>11 DEF LastResort, Actions
<1> QED BY <1>5, <1>10, <1>12, OfOne

(* A step of an energy scan that has no command: it goes on, or it ends.   *)
LEMMA MeasuringStep ==
  ASSUME Inv, NEW r \in Requests, pc[r] \in Measuring, mutex # r,
         UNCHANGED <<world, mutex, cancelled, channel, pass, merged, done, told>>,
         faults' \in 0..MaxFaults,
         samples' \in [Requests -> Seq(Readings)],
         \A q \in Requests \ {r} : samples'[q] = samples[q],
         current' \in [Requests -> Overviews], late' \in [Requests -> BOOLEAN],
         pc[r] \in Actions \/ pc'[r] \notin Actions
         \/ (samples'[r] = << >> /\ (socket # "up" \/ cancelled[r])),
         \/ \E step \in Measuring \ {"overview"} :
              pc' = [pc EXCEPT ![r] = step] /\ UNCHANGED answer
         \/ \E source \in {"daemon", "rest"} : Measured(r, source)
         \/ \E status \in Statuses, source \in {"daemon", "rest"} :
              Finish(r, Answer(status, source))
  PROVE  Inv' /\ NotHidden
<1>1. told' = told /\ firmware' = firmware
  BY DEF world
<1>2. r \in EnergyRequests /\ told'[r] = {} /\ Listed(r)'
  BY <1>1, NoLists
<1>3. ScanOutcome(r)
  BY DEF Inv, TypeOK, ScanOutcome
<1>4. pc[r] # "done"
  BY DEF Measuring, Actions
<1>5. /\ Outcome(r) /\ At(r)' /\ Answered(r)'
      /\ pc'[r] \in (Measuring \ {"overview"}) \cup {"done"}
  <2>1. CASE \E step \in Measuring \ {"overview"} :
               pc' = [pc EXCEPT ![r] = step] /\ UNCHANGED answer
    BY <2>1, <1>2, <1>4, MeasuringMove
  <2>2. CASE \E source \in {"daemon", "rest"} : Measured(r, source)
    BY <2>2, <1>2, MeasuredIs
  <2>3. CASE \E status \in Statuses, source \in {"daemon", "rest"} :
               Finish(r, Answer(status, source))
    BY <2>3, ErrorIs
  <2> QED BY <2>1, <2>2, <2>3
<1>6. pc'[r] \notin {"new", "web", "overview"}
  BY <1>5 DEF Measuring, Actions
<1>7. Unmeasured(r)' /\ LastResort(r)
  BY <1>6 DEF Unmeasured, LastResort
<1>8. Inv'
  <2>1. After(r)
    BY <1>2, <1>3, <1>5 DEF After
  <2> QED BY <1>1, <1>7, <2>1, StepWithout
<1> QED BY <1>5, <1>7, <1>8, OfOne

LEMMA Untouched == Inv => /\ faults \in 0..MaxFaults
                          /\ samples \in [Requests -> Seq(Readings)]
                          /\ current \in [Requests -> Overviews]
                          /\ late \in [Requests -> BOOLEAN]
BY DEF Inv, TypeOK

LEMMA StartEnergyKeeps ==
  ASSUME Inv, NEW r \in Requests, StartEnergy(r)
  PROVE  Inv' /\ NotHidden
<1>1. At(r) /\ Listed(r) /\ Answered(r) /\ Unmeasured(r) /\ pc[r] = "new"
      /\ r \in EnergyRequests
  BY DEF Inv, OneOf, StartEnergy
<1>2. UNCHANGED <<scan, told, firmware, answer>>
  BY DEF StartEnergy, world
<1>3. "overview" \in Measuring /\ pc[r] # "done"
  BY <1>1 DEF Measuring
<1>4. Outcome(r) /\ At(r)' /\ Answered(r)' /\ pc'[r] = "overview"
  BY <1>1, <1>2, <1>3, MeasuringMove DEF StartEnergy
<1>5. ScanOutcome(r) /\ Listed(r)'
  BY <1>1, <1>2, ScanUnchanged DEF Listed, scan
<1>6. mutex # r
  BY <1>1, MutexOfOther DEF Commands
<1>7. Unmeasured(r)' /\ LastResort(r)
  BY <1>1, <1>2, <1>4 DEF Unmeasured, LastResort, Actions, scan
<1>8. Inv'
  BY <1>4, <1>5, <1>6, <1>7, StepWithout DEF After, StartEnergy, Inv, TypeOK
<1> QED BY <1>4, <1>7, <1>8, OfOne

LEMMA ReadOverviewKeeps ==
  ASSUME Inv, NEW r \in Requests, ReadOverview(r)
  PROVE  Inv' /\ NotHidden
<1>1. pc[r] = "overview" /\ pc[r] \in Measuring /\ pc[r] \notin Commands
  BY DEF ReadOverview, Measuring, Commands
<1>2. mutex # r
  BY <1>1, MutexOfOther
<1>3. current' \in [Requests -> Overviews]
  <2>1. PICK overview \in {NoOverview} \cup [channel : {0} \cup InUse, addressed : BOOLEAN] :
          current' = [current EXCEPT ![r] = overview]
    BY DEF ReadOverview
  <2>2. {0} \cup InUse \subseteq 0..Channels
    BY ScansAssumption
  <2>3. overview \in Overviews
    <3>1. CASE overview = NoOverview
      BY <3>1, ScansAssumption DEF Overviews, NoOverview
    <3>2. CASE overview \in [channel : {0} \cup InUse, addressed : BOOLEAN]
      BY <3>2, <2>2 DEF Overviews
    <3> QED BY <2>1, <3>1, <3>2
  <2> QED BY <2>1, <2>3, Untouched
<1>4. late' \in [Requests -> BOOLEAN] /\ samples' \in [Requests -> Seq(Readings)]
      /\ faults' = faults /\ samples' = samples
  BY Untouched DEF ReadOverview
<1>5. \/ \E step \in Measuring \ {"overview"} : pc' = [pc EXCEPT ![r] = step] /\ UNCHANGED answer
      \/ \E status \in Statuses, source \in {"daemon", "rest"} :
              Finish(r, Answer(status, source))
  BY DEF ReadOverview, Measuring, Actions, Statuses
<1>6. samples[r] = << >>
  BY <1>1 DEF Inv, OneOf, Unmeasured
<1>7. pc'[r] \notin Actions \/ socket # "up"
  <2>1. pc \in [Requests -> Steps]
    BY DEF Inv, TypeOK, Steps
  <2> QED BY <2>1 DEF ReadOverview, Finish, Actions
<1> QED BY <1>1, <1>2, <1>3, <1>4, <1>5, <1>6, <1>7, Untouched, MeasuringStep DEF ReadOverview

LEMMA OneOfKept ==
  ASSUME NEW q \in Requests, OneOf(q), cancelled[q] => cancelled'[q],
         UNCHANGED <<firmware, pc, channel, pass, merged, done, samples, answer, told>>
  PROVE  OneOf(q)'
<1>1. At(q) /\ Listed(q) /\ Unmeasured(q) /\ Answered(q)
  BY DEF OneOf
<1>2. At(q)'
  BY <1>1 DEF At
<1>3. Listed(q)'
  BY <1>1 DEF Listed
<1>4. Unmeasured(q)'
  BY <1>1 DEF Unmeasured
<1>5. Answered(q)'
  BY <1>1 DEF Answered
<1> QED BY <1>2, <1>3, <1>4, <1>5 DEF OneOf

LEMMA CancelKeeps ==
  ASSUME Inv, NEW r \in Requests, Cancel(r)
  PROVE  Inv' /\ NotHidden
<1>1. cancelled \in [Requests -> BOOLEAN] /\ \A q \in Requests : OneOf(q)
  BY DEF Inv, TypeOK
<1>2. cancelled' \in [Requests -> BOOLEAN]
      /\ \A q \in Requests : cancelled[q] => cancelled'[q]
  BY <1>1 DEF Cancel
<1>3. UNCHANGED <<world, faults, mutex, pc, scan, answer, told>>
  BY DEF Cancel
<1>4. ASSUME NEW q \in Requests PROVE OneOf(q)'
  BY <1>1, <1>2, <1>3, OneOfKept DEF world, scan
<1>5. TypeOK'
  BY <1>2, <1>3 DEF Inv, TypeOK, world, scan
<1>6. Inv'
  BY <1>3, <1>4, <1>5 DEF Inv, world
<1> QED BY <1>3, <1>6 DEF NotHidden, LastResort

LEMMA TimePassesKeeps ==
  ASSUME Inv, NEW r \in Requests, TimePasses(r)
  PROVE  Inv' /\ NotHidden
<1>1. late' \in [Requests -> BOOLEAN]
  BY Untouched DEF TimePasses
<1>2. UNCHANGED <<world, faults, mutex, pc, cancelled, channel, pass, merged, done,
                  samples, current, answer, told>>
  BY DEF TimePasses
<1>3. TypeOK'
  BY <1>1, <1>2 DEF Inv, TypeOK, world
<1>4. ASSUME NEW q \in Requests PROVE OneOf(q)'
  BY <1>2, OneOfKept DEF Inv, world
<1> QED BY <1>2, <1>3, <1>4 DEF Inv, world, NotHidden, LastResort

LEMMA UnusableKeeps ==
  ASSUME Inv, NEW r \in Requests, Unusable(r)
  PROVE  Inv' /\ NotHidden
<1>1. /\ At(r) /\ Unmeasured(r) /\ mutex # r
      /\ socket # "up" \/ cancelled[r]
  BY ScansAssumption DEF Unusable, Inv, OneOf
<1>2. Failed(r, TRUE) /\ UNCHANGED <<world, faults, mutex, cancelled, told>>
  BY DEF Unusable
<1>3. AfterFailure(r, TRUE)
  BY <1>2, FailedIs DEF world
<1>4. Unmeasured(r)'
  BY <1>3 DEF AfterFailure, Unmeasured
<1>5. Inv'
  BY <1>1, <1>2, <1>3, <1>4, StepWithout
     DEF AfterFailure, After, Inv, TypeOK
<1>6. LastResort(r)
  BY <1>1, <1>2, <1>3 DEF AfterFailure, LastResort
<1> QED BY <1>3, <1>5, <1>6, OfOne DEF AfterFailure

LEMMA SendKeeps ==
  ASSUME Inv, NEW r \in Requests, Send(r)
  PROVE  Inv' /\ NotHidden
<1>1. At(r) /\ Listed(r) /\ Unmeasured(r) /\ Answered(r) /\ answer[r].status \in Statuses
      /\ DOMAIN answer = Requests
  BY DEF Inv, OneOf, TypeOK, Statuses
<1>2. /\ pc[r] \in Commands /\ mutex = Nobody /\ mutex' = r
      /\ UNCHANGED <<world, faults, pc, cancelled, scan, answer, told>>
  BY DEF Send
<1>4. OthersStay(r) /\ SocketStays(r)
  BY <1>2 DEF OthersStay, SocketStays, scan
<1>5. At(r)' /\ Listed(r)' /\ Answered(r)'
  BY <1>1, <1>2 DEF At, Listed, Answered, scan, world
<1>6. Unmeasured(r)'
  BY <1>1, <1>2 DEF Unmeasured, scan
<1>7. OneOf(r)'
  BY <1>5, <1>6 DEF OneOf
<1>8. /\ faults' \in 0..MaxFaults /\ cancelled' \in [Requests -> BOOLEAN]
      /\ pc' \in [Requests -> Steps] /\ told' \in [Requests -> SUBSET Keys]
  BY <1>2 DEF Inv, TypeOK, Steps
<1>9. ScanOutcome(r)
  BY <1>2, ScanUnchanged
<1>10. Inv'
  BY <1>1, <1>2, <1>4, <1>7, <1>8, <1>9, StepOfOne DEF ScanOutcome
<1> QED BY <1>2, <1>10 DEF NotHidden, LastResort

LEMMA CommandFailsKeeps ==
  ASSUME Inv, NEW r \in Requests, CommandFails(r)
  PROVE  Inv' /\ NotHidden
<1>1. At(r) /\ Unmeasured(r) /\ Listed(r) /\ faults \in 0..MaxFaults
  BY DEF Inv, OneOf, TypeOK
<1>2. mutex = r /\ mutex' = Nobody /\ Failed(r, FALSE)
      /\ UNCHANGED <<world, cancelled, told>>
  BY DEF CommandFails
<1>3. faults' \in 0..MaxFaults
  BY <1>1, ScansAssumption DEF CommandFails
<1>4. AfterFailure(r, FALSE)
  BY <1>2, FailedIs DEF world
<1>5. Unmeasured(r)' /\ LastResort(r)
  BY <1>4 DEF AfterFailure, Unmeasured, LastResort
<1>6. Inv'
  BY <1>2, <1>3, <1>4, <1>5, StepThatReleases DEF AfterFailure, After, Inv, TypeOK
<1> QED BY <1>4, <1>5, <1>6, OfOne DEF AfterFailure

LEMMA DiscoveredKeeps ==
  ASSUME Inv, NEW r \in Requests, Discovered(r)
  PROVE  Inv' /\ NotHidden
<1>1. /\ At(r) /\ Unmeasured(r) /\ Listed(r) /\ faults \in 0..MaxFaults
      /\ pass[r] \in Seq(Keys) /\ told \in [Requests -> SUBSET Keys]
  BY DEF Inv, OneOf, TypeOK
<1>2. /\ mutex = r /\ mutex' = Nobody /\ pc[r] \in {"channel", "whole", "scan"}
      /\ pc[r] \in firmware
      /\ UNCHANGED <<world, faults, cancelled, samples, current, late>>
  BY DEF Discovered
<1>3. PICK rows \in Replies(r) :
        /\ told' = [told EXCEPT ![r] = told[r] \cup ToSet(rows)]
        /\ IF pc[r] = "channel"
           THEN NextChannel(r, AppendNew(pass[r], rows), TRUE)
           ELSE PassDone(r, AppendNew(<< >>, rows))
  BY DEF Discovered
<1>4. rows \in Seq(Keys) /\ ToSet(rows) \subseteq Keys
  BY RepliesAreRows, ToSetFinite
<1>5. /\ told' \in [Requests -> SUBSET Keys]
      /\ told'[r] = told[r] \cup ToSet(rows)
      /\ \A q \in Requests \ {r} : told'[q] = told[q]
  BY <1>1, <1>3, <1>4
<1>6. /\ After(r)
      /\ pc'[r] \in {"done", "passPause", "channelPause"}
  <2>1. CASE pc[r] = "channel"
    <3> DEFINE found == AppendNew(pass[r], rows)
    <3>1. found \in Seq(Keys) /\ IsInjective(found)
          /\ ToSet(found) = ToSet(pass[r]) \cup ToSet(rows)
      BY <1>1, <1>4, AppendNewIs DEF Listed
    <3>2. told'[r] = ToSet(merged[r]) \cup ToSet(found)
      BY <1>1, <1>5, <3>1 DEF Listed
    <3>3. NextChannel(r, found, TRUE)
      BY <1>3, <2>1
    <3> HIDE DEF found
    <3>4. firmware' = firmware /\ "channel" \in firmware
      BY <1>2, <2>1 DEF world
    <3>5. /\ Outcome(r) /\ ScanOutcome(r)
          /\ At(r)' /\ Listed(r)' /\ Answered(r)'
          /\ pc'[r] \in {"done", "passPause", "channelPause", "channel"}
          /\ pc'[r] # "channel"
      BY <1>2, <2>1, <3>1, <3>2, <3>3, <3>4, NextChannelIs
    <3> QED BY <3>5 DEF After
  <2>2. CASE pc[r] # "channel"
    <3> DEFINE found == AppendNew(<< >>, rows)
    <3> DEFINE none == << >>
    <3>a. none \in Seq(Keys) /\ IsInjective(none) /\ ToSet(none) = {}
      BY Emptiness
    <3> HIDE DEF none
    <3>b. /\ AppendNew(none, rows) \in Seq(Keys)
          /\ ToSet(AppendNew(none, rows)) = ToSet(none) \cup ToSet(rows)
          /\ IsInjective(AppendNew(none, rows))
      BY <1>4, <3>a, AppendNewIs
    <3>1. found \in Seq(Keys) /\ IsInjective(found) /\ ToSet(found) = ToSet(rows)
      BY <3>a, <3>b DEF none
    <3>2. pass[r] = << >>
      BY <1>1, <1>2, <2>2 DEF At, Listed
    <3>3. told'[r] = ToSet(merged[r]) \cup ToSet(found)
      BY <1>1, <1>5, <3>1, <3>2, Emptiness DEF Listed
    <3>4. PassDone(r, found)
      BY <1>3, <2>2
    <3> HIDE DEF found
    <3>5. firmware' = firmware /\ pc[r] \in Passing
      BY <1>2 DEF world, Passing
    <3>6. /\ Outcome(r) /\ ScanOutcome(r)
          /\ At(r)' /\ Listed(r)' /\ Answered(r)'
          /\ pc'[r] \in {"done", "passPause"}
      BY <1>2, <3>1, <3>3, <3>4, <3>5, PassDoneIs
    <3> QED BY <3>6 DEF After
  <2> QED BY <2>1, <2>2
<1>7. Unmeasured(r)'
  BY <1>6 DEF Unmeasured
<1>8. Inv'
  BY <1>1, <1>2, <1>5, <1>6, <1>7, StepThatReleases
<1>9. LastResort(r)
  BY <1>6 DEF LastResort, Actions
<1> QED BY <1>6, <1>8, <1>9, OfOne DEF After

LEMMA SweptKeeps ==
  ASSUME Inv, NEW r \in Requests, Swept(r)
  PROVE  Inv' /\ NotHidden
<1>1. mutex = r /\ mutex' = Nobody /\ pc[r] = "energy" /\ pc[r] \in Measuring
      /\ UNCHANGED <<world, faults, cancelled, channel, pass, merged, done, current,
                     late, told>>
  BY DEF Swept, Measuring
<1>2. samples' \in [Requests -> Seq(Readings)]
      /\ \A q \in Requests \ {r} : samples'[q] = samples[q]
  BY Untouched DEF Swept
<1>3. r \in EnergyRequests /\ told'[r] = {} /\ Listed(r)'
  BY <1>1, NoLists DEF world
<1>4. ScanOutcome(r)
  BY <1>1, <1>2 DEF Inv, TypeOK, ScanOutcome
<1>5. Outcome(r) /\ At(r)' /\ Answered(r)' /\ pc'[r] \in {"done", "energyPause"}
  <2>1. CASE Measured(r, "daemon")
    BY <2>1, <1>3, MeasuredIs
  <2>2. CASE pc' = [pc EXCEPT ![r] = "energyPause"] /\ UNCHANGED answer
    BY <2>2, <1>1, <1>3, MeasuringMove DEF Measuring
  <2> QED BY <2>1, <2>2 DEF Swept
<1>6. Unmeasured(r)' /\ LastResort(r)
  BY <1>5 DEF Unmeasured, LastResort, Actions
<1>7. Inv'
  BY <1>1, <1>3, <1>4, <1>5, <1>6, StepThatReleases DEF After, Inv, TypeOK
<1> QED BY <1>5, <1>6, <1>7, OfOne

LEMMA ResumeKeeps ==
  ASSUME Inv, NEW r \in Requests, Resume(r)
  PROVE  Inv' /\ NotHidden
<1>1. At(r) /\ Listed(r) /\ Unmeasured(r) /\ Answered(r)
  BY DEF Inv, OneOf
<1>2. pc[r] \in Pauses /\ pc[r] \notin Commands
      /\ UNCHANGED <<world, faults, mutex, cancelled, scan, answer, told>>
  BY DEF Resume, Pauses, Commands
<1>4. mutex # r
  BY <1>2, MutexOfOther
<1>5. ScanOutcome(r) /\ Listed(r)'
  BY <1>1, <1>2, ScanUnchanged DEF Listed, scan, world
<1> DEFINE step == IF pc[r] = "energyPause" THEN "energy" ELSE "channel"
<1>6. step \in {"energy", "channel"} /\ step \in Steps /\ pc' = [pc EXCEPT ![r] = step]
  BY DEF Resume, Steps, Commands, Inv, TypeOK
<1>7. (step = "energy" => r \in EnergyRequests)
      /\ (step = "channel" => pc[r] \in Passing /\ r \in NetworkRequests)
  BY <1>1, <1>2 DEF At, Measuring, Passing, Networking, Pauses
<1> HIDE DEF step
<1>8. Outcome(r) /\ pc'[r] = step /\ answer'[r] = answer[r]
  BY <1>2, <1>6, MoveIs
<1>9. At(r)'
  BY <1>1, <1>2, <1>6, <1>7, <1>8 DEF At, Measuring, Passing, Networking, Actions, scan
<1>10. Answered(r)'
  BY <1>1, <1>2, <1>8 DEF Answered, Pauses
<1>11. Unmeasured(r)' /\ LastResort(r)
  BY <1>6, <1>8 DEF Unmeasured, LastResort, Actions
<1>12. Inv'
  BY <1>2, <1>4, <1>5, <1>8, <1>9, <1>10, <1>11, Untouched, StepWithout DEF After
<1> QED BY <1>8, <1>11, <1>12, OfOne

LEMMA GiveUpKeeps ==
  ASSUME Inv, NEW r \in Requests, GiveUp(r)
  PROVE  Inv' /\ NotHidden
<1>1. At(r) /\ Listed(r) /\ Unmeasured(r) /\ Answered(r) /\ pass[r] \in Seq(Keys)
  BY DEF Inv, OneOf, TypeOK
<1>2. pc[r] \in Pauses /\ pc[r] \notin Commands
      /\ UNCHANGED <<world, faults, mutex, cancelled, told>>
  BY DEF GiveUp, Pauses, Commands
<1>3. mutex # r
  BY <1>2, MutexOfOther
<1>4. firmware' = firmware /\ told' = told
  BY <1>2 DEF world
<1>5. CASE pc[r] = "energyPause" /\ UNCHANGED scan /\ Measured(r, "daemon")
  <2>1. pc[r] \in Measuring
    BY <1>5 DEF Measuring
  <2>2. pc'[r] \notin Actions
    BY <1>5 DEF Measured, Finish, Actions, Inv, TypeOK
  <2> QED BY <1>2, <1>3, <1>5, <2>1, <2>2, Untouched, MeasuringStep DEF scan
<1>6. CASE /\ pc[r] = "channelPause" /\ PassDone(r, pass[r])
           /\ UNCHANGED <<samples, current, late>>
  <2>1. pc[r] \in Passing
    BY <1>6 DEF Passing
  <2>2. IsInjective(pass[r]) /\ told'[r] = ToSet(merged[r]) \cup ToSet(pass[r])
    BY <1>1, <1>4 DEF Listed
  <2>3. /\ Outcome(r) /\ ScanOutcome(r)
        /\ At(r)' /\ Listed(r)' /\ Answered(r)'
        /\ pc'[r] \in {"done", "passPause"}
    BY <1>1, <1>4, <1>6, <2>1, <2>2, PassDoneIs
  <2>4. Unmeasured(r)' /\ LastResort(r)
    BY <2>3 DEF Unmeasured, LastResort, Actions
  <2>5. Inv'
    BY <1>2, <1>3, <1>4, <2>3, <2>4, StepWithout DEF After, Inv, TypeOK
  <2> QED BY <2>3, <2>4, <2>5, OfOne
<1>7. CASE /\ pc[r] = "passPause" /\ Finish(r, Found(merged[r], done[r]))
           /\ UNCHANGED scan
  <2>1. Outcome(r) /\ pc'[r] = "done" /\ answer'[r] = Found(merged[r], done[r])
    BY <1>7, FoundIs, FinishIs DEF Statuses
  <2>2. answer'[r].items = merged[r]
    BY <2>1, FoundIs
  <2>3. told'[r] = ToSet(merged[r]) /\ IsInjective(merged[r])
    BY <1>1, <1>4, <1>7, Emptiness DEF At, Listed
  <2>4. Answered(r)'
    BY <2>1, <2>2, <2>3 DEF Answered
  <2>5. At(r)' /\ Unmeasured(r)' /\ LastResort(r)
    BY <2>1 DEF At, Unmeasured, LastResort, Networking, Measuring, Passing, Actions
  <2>6. ScanOutcome(r) /\ Listed(r)'
    BY <1>1, <1>4, <1>7, ScanUnchanged DEF Listed, scan
  <2>7. Inv'
    BY <1>2, <1>3, <1>4, <2>1, <2>4, <2>5, <2>6, StepWithout DEF After, Inv, TypeOK
  <2> QED BY <2>1, <2>5, <2>7, OfOne
<1> QED BY <1>5, <1>6, <1>7 DEF GiveUp

LEMMA WebKeeps ==
  ASSUME Inv, NEW r \in Requests, Web(r)
  PROVE  Inv' /\ NotHidden
<1>1. Listed(r) /\ pc[r] = "web" /\ pc[r] \notin Commands
      /\ UNCHANGED <<world, faults, mutex, cancelled, scan, told>>
  BY DEF Inv, OneOf, Web, Commands
<1>2. PICK status \in Statuses : Finish(r, Answer(status, "web"))
  BY DEF Web, Statuses
<1>3. Outcome(r) /\ At(r)' /\ Answered(r)' /\ pc'[r] = "done"
  BY <1>2, ErrorIs
<1>4. ScanOutcome(r) /\ Listed(r)'
  BY <1>1, ScanUnchanged DEF Listed, scan, world
<1>5. Unmeasured(r)' /\ LastResort(r)
  BY <1>3 DEF Unmeasured, LastResort, Actions
<1>6. mutex # r
  BY <1>1, MutexOfOther
<1>7. Inv'
  BY <1>1, <1>3, <1>4, <1>5, <1>6, StepWithout DEF After, Inv, TypeOK
<1> QED BY <1>3, <1>5, <1>7, OfOne

(* The steps of the REST action.                                           *)
LEMMA ActionsMeasure ==
  ASSUME Inv, NEW r \in Requests, pc[r] \in Actions
  PROVE  pc[r] \in Measuring /\ mutex # r
<1>1. pc[r] \notin Commands /\ pc[r] \in Measuring
  BY DEF Actions, Commands, Measuring
<1> QED BY <1>1, MutexOfOther

LEMMA RestFailsIs ==
  ASSUME NEW r, NEW missing \in BOOLEAN, RestFails(r, missing)
  PROVE  /\ samples' = samples
         /\ \/ \E source \in {"daemon", "rest"} : Measured(r, source)
            \/ \E status \in Statuses, source \in {"daemon", "rest"} :
                 Finish(r, Answer(status, source))
BY DEF RestFails, Statuses

LEMMA RestKeeps ==
  ASSUME Inv, NEW r \in Requests,
         RestRequestFails(r) \/ Post(r) \/ ActionCompleted(r) \/ StopWaiting(r)
  PROVE  Inv' /\ NotHidden
<1>1. pc[r] \in Measuring /\ mutex # r
  BY ActionsMeasure DEF RestRequestFails, Post, ActionCompleted, StopWaiting, Actions
<1>2. UNCHANGED <<world, mutex, cancelled, channel, pass, merged, done, told>>
  BY DEF RestRequestFails, Post, ActionCompleted, StopWaiting, scan
<1>3. faults' \in 0..MaxFaults
  <2>1. faults' = faults \/ (faults < MaxFaults /\ faults' = faults + 1)
    BY DEF RestRequestFails, Post, ActionCompleted, StopWaiting
  <2>2. faults \in 0..MaxFaults /\ MaxFaults \in Nat
    BY Untouched, ScansAssumption
  <2> QED BY <2>1, <2>2
<1>4. /\ samples' = samples
      /\ \/ \E step \in Measuring \ {"overview"} :
              pc' = [pc EXCEPT ![r] = step] /\ UNCHANGED answer
         \/ \E source \in {"daemon", "rest"} : Measured(r, source)
         \/ \E status \in Statuses, source \in {"daemon", "rest"} :
              Finish(r, Answer(status, source))
  <2>1. CASE RestRequestFails(r)
    <3>1. PICK missing \in BOOLEAN : RestFails(r, missing)
      BY <2>1 DEF RestRequestFails
    <3> QED BY <3>1, RestFailsIs
  <2>2. CASE StopWaiting(r)
    BY <2>2, RestFailsIs DEF StopWaiting
  <2>3. CASE Post(r) \/ ActionCompleted(r)
    BY <2>3 DEF Post, ActionCompleted, Measuring, Actions, scan
  <2> QED BY <2>1, <2>2, <2>3
<1>5. current' \in [Requests -> Overviews] /\ late' \in [Requests -> BOOLEAN]
  BY Untouched DEF RestRequestFails, Post, ActionCompleted, StopWaiting, scan
<1>6. samples' \in [Requests -> Seq(Readings)]
  BY <1>4, Untouched
<1>7. pc[r] \in Actions
  BY DEF RestRequestFails, Post, ActionCompleted, StopWaiting, Actions
<1> QED BY <1>1, <1>2, <1>3, <1>4, <1>5, <1>6, <1>7, MeasuringStep

LEMMA ReportKeeps ==
  ASSUME Inv, NEW r \in Requests, Report(r)
  PROVE  Inv' /\ NotHidden
<1>1. pc[r] \in Measuring /\ mutex # r
  BY ActionsMeasure DEF Report, Actions
<1>2. PICK reading \in Readings :
        samples' = [samples EXCEPT ![r] =
                      Append(samples[r], ReadingOf([c \in DOMAIN reading |-> {reading[c]}]))]
  BY DEF Report
<1>3. samples' = [samples EXCEPT ![r] = Append(samples[r], reading)]
  BY <1>2, ReportIsReading
<1>4. samples' \in [Requests -> Seq(Readings)]
      /\ \A q \in Requests \ {r} : samples'[q] = samples[q]
  BY <1>3, Untouched
<1>5. \/ \E step \in Measuring \ {"overview"} :
           pc' = [pc EXCEPT ![r] = step] /\ UNCHANGED answer
      \/ \E source \in {"daemon", "rest"} : Measured(r, source)
  BY DEF Report, Measuring, Actions
<1>6. pc[r] \in Actions
  BY DEF Report, Actions
<1> QED BY <1>1, <1>4, <1>5, <1>6, Untouched, MeasuringStep DEF Report

LEMMA SocketChangesKeeps ==
  ASSUME Inv, SocketChanges
  PROVE  Inv' /\ NotHidden
<1>1. /\ outages \in 0..MaxOutages /\ outages < MaxOutages /\ outages' = outages + 1
      /\ firmware' = firmware /\ socket' \in {"up", "denied", "gone"}
      /\ UNCHANGED <<faults, mutex, pc, cancelled, scan, answer, told>>
  BY DEF SocketChanges, Inv, TypeOK
<1>2. outages' \in 0..MaxOutages
  BY <1>1, ScansAssumption
<1>3. ASSUME NEW q \in Requests PROVE OneOf(q)'
  <2>1. At(q) /\ Listed(q) /\ Unmeasured(q) /\ Answered(q)
    BY DEF Inv, OneOf
  <2>2. At(q)' /\ Answered(q)'
    BY <2>1, <1>1 DEF At, Answered, scan
  <2>3. Listed(q)'
    BY <2>1, <1>1 DEF Listed, scan
  <2>4. Unmeasured(q)'
    BY <2>1, <1>1 DEF Unmeasured, scan
  <2> QED BY <2>2, <2>3, <2>4 DEF OneOf
<1>4. TypeOK'
  BY <1>1, <1>2 DEF Inv, TypeOK, scan
<1>5. Inv'
  BY <1>1, <1>2, <1>3, <1>4 DEF Inv
<1> QED BY <1>1, <1>5 DEF NotHidden, LastResort

LEMMA StutterKeeps ==
  ASSUME Inv, UNCHANGED vars
  PROVE  Inv' /\ NotHidden
<1>1. \A q \in Requests : OneOf(q) => OneOf(q)'
  BY OneOfKept DEF vars, world, scan
<1>2. TypeOK'
  BY DEF Inv, TypeOK, vars, world, scan
<1>3. Inv'
  BY <1>1, <1>2 DEF Inv, vars, world
<1> QED BY <1>3 DEF NotHidden, LastResort, vars

-----------------------------------------------------------------------------
(* The theorems.                                                           *)

LEMMA NextKeeps ==
  ASSUME Inv, [Next]_vars
  PROVE  Inv' /\ NotHidden
<1>1. ASSUME NEW r \in Requests, Running(r) PROVE Inv' /\ NotHidden
  BY <1>1, ReadOverviewKeeps, TimePassesKeeps, UnusableKeeps, SendKeeps,
     CommandFailsKeeps, DiscoveredKeeps, SweptKeeps, ResumeKeeps, GiveUpKeeps,
     WebKeeps, RestKeeps, ReportKeeps
     DEF Running
<1>2. ASSUME NEW r \in Requests, StartNetworks(r) PROVE Inv' /\ NotHidden
  BY <1>2, StartNetworksKeeps
<1>3. ASSUME NEW r \in Requests, StartEnergy(r) PROVE Inv' /\ NotHidden
  BY <1>3, StartEnergyKeeps
<1>4. ASSUME NEW r \in Requests, Cancel(r) PROVE Inv' /\ NotHidden
  BY <1>4, CancelKeeps
<1>5. ASSUME NEW r \in Requests, ActionCompleted(r) PROVE Inv' /\ NotHidden
  BY <1>5, RestKeeps
<1>6. CASE SocketChanges
  BY <1>6, SocketChangesKeeps
<1>7. CASE Served \/ UNCHANGED vars
  BY <1>7, StutterKeeps DEF Served
<1> QED BY <1>1, <1>2, <1>3, <1>4, <1>5, <1>6, <1>7 DEF Next

THEOREM Invariance == Spec => []Inv
<1>1. Init => Inv
  BY InitHolds
<1>2. Inv /\ [Next]_vars => Inv'
  BY NextKeeps
<1> QED BY <1>1, <1>2, PTL DEF Spec

(* Every variable of the scans keeps its type, and a command runs only for *)
(* a request that is at one (scan.go, energy.go, client.go:530-560).       *)
THEOREM TypeCorrect == Spec => []TypeOK
<1>1. Inv => TypeOK
  BY DEF Inv
<1> QED BY <1>1, Invariance, PTL

(* An answered discovery holds every network the daemon told the request   *)
(* of, and no entry twice, however passes, channels and commands failed    *)
(* (scan.go:58-90, client.go:1353-1391).                                   *)
THEOREM HeardIsAnswered == Spec => []HeardOnce
<1>1. Inv => HeardOnce
  BY DEF Inv, OneOf, Answered, HeardOnce
<1> QED BY <1>1, Invariance, PTL

(* The web service is asked only when the socket could not be used and the *)
(* daemon told of nothing (client.go:530-545).                             *)
THEOREM WebIsTheLastResort == Spec => FaultsNotHidden
<1>1. Inv /\ [Next]_vars =>
        [\A r \in Requests :
           pc[r] # "web" /\ pc'[r] = "web"
           => told'[r] = {} /\ (socket # "up" \/ cancelled[r])]_vars
  BY NextKeeps DEF NotHidden, LastResort
<1> QED BY <1>1, Invariance, PTL DEF Spec, FaultsNotHidden

(* The REST action is tried only when the daemon has measured nothing and  *)
(* the socket could not be used: no measurement is thrown away or mixed    *)
(* with those of another scale (energy.go:95-109, 134-157).                *)
THEOREM MeasurementsAreKept == Spec => MeasuredOneWay
<1>1. Inv /\ [Next]_vars =>
        [\A r \in Requests :
           pc[r] \notin Actions /\ pc'[r] \in Actions
           => samples'[r] = << >> /\ (socket # "up" \/ cancelled[r])]_vars
  BY NextKeeps DEF NotHidden, LastResort
<1> QED BY <1>1, Invariance, PTL DEF Spec, MeasuredOneWay

-----------------------------------------------------------------------------
(* What is made of the noise.                                              *)

(* The number of members before each.                                      *)
Rank(S, before) == [x \in S |-> Cardinality({y \in S : <<y, x>> \in before})]

(* Of a finite set in a strict order, the numbers of members before each   *)
(* are all different, and so are all the numbers there are.                *)
LEMMA RankIs ==
  ASSUME NEW S, IsFiniteSet(S), NEW before,
         \A x \in S : <<x, x>> \notin before,
         \A x, y, z \in S : <<x, y>> \in before /\ <<y, z>> \in before => <<x, z>> \in before,
         \A x, y \in S : x # y => <<x, y>> \in before \/ <<y, x>> \in before
  PROVE  LET n == Cardinality(S)
             rank == Rank(S, before)
         IN  /\ n \in Nat /\ rank \in [S -> 0..(n - 1)]
             /\ \A x, y \in S : <<x, y>> \in before => rank[x] < rank[y]
             /\ \A i \in 1..n : \E x \in S : rank[x] = i - 1
<1> DEFINE n == Cardinality(S)
           Before(x) == {y \in S : <<y, x>> \in before}
           rank == Rank(S, before)
<1>1. n \in Nat
  BY FS_CardinalityType
<1>2. ASSUME NEW x \in S
      PROVE  IsFiniteSet(Before(x)) /\ Cardinality(Before(x)) \in 0..(n - 1)
  <2>1. Before(x) \in SUBSET S /\ x \notin Before(x)
    OBVIOUS
  <2> HIDE DEF Before
  <2>2. IsFiniteSet(Before(x)) /\ Cardinality(Before(x)) <= n /\ n # Cardinality(Before(x))
    BY <2>1, FS_Subset
  <2>3. Cardinality(Before(x)) \in Nat
    BY <2>2, FS_CardinalityType
  <2> HIDE DEF n
  <2> QED BY <1>1, <2>2, <2>3
<1>3. ASSUME NEW x \in S, NEW y \in S, <<x, y>> \in before
      PROVE  Cardinality(Before(x)) < Cardinality(Before(y))
  <2>1. Before(x) \in SUBSET Before(y) /\ x \in Before(y) /\ x \notin Before(x)
    BY <1>3
  <2> HIDE DEF Before, n
  <2>2. IsFiniteSet(Before(y)) /\ Cardinality(Before(x)) \in Int
        /\ Cardinality(Before(y)) \in Int
    BY <1>1, <1>2
  <2>3. Cardinality(Before(x)) <= Cardinality(Before(y))
        /\ Cardinality(Before(x)) # Cardinality(Before(y))
    BY <2>1, <2>2, FS_Subset
  <2> QED BY <2>2, <2>3
<1>r. rank = [x \in S |-> Cardinality(Before(x))]
  BY DEF Rank
<1>s. \A x \in S : Cardinality(Before(x)) \in 0..(n - 1)
  BY <1>2
<1>4. rank \in [S -> 0..(n - 1)]
  <2> HIDE DEF rank, Before, n
  <2> QED BY <1>s, <1>r
<1>5. \A x, y \in S : <<x, y>> \in before => rank[x] < rank[y]
  BY <1>3, <1>r
<1> HIDE DEF rank, Before
<1>7. \A x, y \in S : rank[x] = rank[y] => x = y
  <2> SUFFICES ASSUME NEW x \in S, NEW y \in S, x # y
               PROVE  rank[x] # rank[y]
    OBVIOUS
  <2>1. rank[x] \in Int /\ rank[y] \in Int
    BY <1>1, <1>4
  <2>2. rank[x] < rank[y] \/ rank[y] < rank[x]
    BY <1>5
  <2> QED BY <2>1, <2>2
<1>8. \A i \in 1..n : \E x \in S : rank[x] = i - 1
  <2>1. rank \in Injection(S, 0..(n - 1))
    BY <1>4, <1>7 DEF Injection, IsInjective
  <2>2. IsFiniteSet(0..(n - 1)) /\ Cardinality(0..(n - 1)) = n
    <3>1. 0 \in Int /\ n - 1 \in Int
      BY <1>1
    <3>2. /\ IsFiniteSet(0..(n - 1))
          /\ Cardinality(0..(n - 1)) = IF 0 > n - 1 THEN 0 ELSE (n - 1) - 0 + 1
      BY <3>1, FS_Interval
    <3> HIDE DEF n
    <3> QED BY <1>1, <3>2
  <2>3. rank \in Surjection(S, 0..(n - 1))
    BY <2>1, <2>2, FS_Injection
  <2> HIDE DEF n
  <2>4. \A k \in 0..(n - 1) : \E x \in S : rank[x] = k
    BY <2>3 DEF Surjection
  <2> QED BY <1>1, <2>4
<1> QED BY <1>1, <1>4, <1>5, <1>8 DEF n, rank, Before

(* Each member at the place of its rank.                                   *)
Places(S, before, n, rank, order) ==
  /\ n \in Nat /\ rank \in [S -> 0..(n - 1)] /\ order \in [1..n -> S]
  /\ \A x, y \in S : <<x, y>> \in before => rank[x] < rank[y]
  /\ \A x, y \in S : x # y => <<x, y>> \in before \/ <<y, x>> \in before
  /\ \A i \in 1..n : rank[order[i]] = i - 1

(* A sequence that has its members at those places is ascending,           *)
(* and has them all.                                                       *)
LEMMA PlacesAre ==
  ASSUME NEW S, NEW before, NEW n, NEW rank, NEW order,
         Places(S, before, n, rank, order)
  PROVE  /\ \A x \in S : \E i \in 1..n : order[i] = x
         /\ \A i, j \in 1..n : i < j => <<order[i], order[j]>> \in before
<1> USE DEF Places
<1>1. \A x \in S : rank[x] \in 0..(n - 1) /\ rank[x] \in Int
  OBVIOUS
<1>2. ASSUME NEW x \in S PROVE \E i \in 1..n : order[i] = x
  <2> DEFINE i == rank[x] + 1
  <2>1. i \in 1..n /\ i - 1 = rank[x]
    BY <1>1
  <2> HIDE DEF i
  <2>2. rank[order[i]] = rank[x] /\ order[i] \in S
    BY <2>1
  <2>3. ~ rank[order[i]] < rank[x] /\ ~ rank[x] < rank[order[i]]
    BY <1>1, <2>2
  <2> QED BY <2>1, <2>2, <2>3
<1>3. ASSUME NEW i \in 1..n, NEW j \in 1..n, i < j
      PROVE  <<order[i], order[j]>> \in before
  <2>1. order[i] \in S /\ order[j] \in S
        /\ rank[order[i]] = i - 1 /\ rank[order[j]] = j - 1
    OBVIOUS
  <2>2. order[i] # order[j] /\ ~ rank[order[j]] < rank[order[i]]
    BY <1>3, <2>1
  <2> QED BY <2>1, <2>2
<1> QED BY <1>2, <1>3

(* As many different members as places.                                    *)
LEMMA AtLeast ==
  ASSUME NEW B, IsFiniteSet(B), NEW a \in Int, NEW b \in Int, a <= b + 1,
         NEW f, \A k \in a..b : f[k] \in B,
         \A i, j \in a..b : f[i] = f[j] => i = j
  PROVE  Cardinality(B) >= b - a + 1
<1> DEFINE g == [k \in a..b |-> f[k]]
<1>1. g \in Injection(a..b, B)
  BY DEF Injection, IsInjective
<1>2. Cardinality(a..b) = b - a + 1
  <2>1. Cardinality(a..b) = IF a > b THEN 0 ELSE b - a + 1
    BY FS_Interval
  <2> QED BY <2>1
<1>3. Cardinality(a..b) <= Cardinality(B) /\ Cardinality(B) \in Nat
  BY <1>1, FS_Injection, FS_CardinalityType
<1> QED BY <1>2, <1>3

(* The levels of a channel are those of its sweeps, ascending.             *)
LEMMA LevelsAre ==
  ASSUME NEW swept \in Seq(Readings), NEW c
  PROVE  LET sweeps == Sweeps(swept, c)
             n == Cardinality(sweeps)
             levels == Levels(swept, c)
         IN  /\ IsFiniteSet(sweeps) /\ n \in Nat /\ levels \in [1..n -> Int]
             /\ \A i \in sweeps : swept[i][c] \in Int
             /\ \E order \in [1..n -> sweeps] :
                  /\ \A k \in 1..n : levels[k] = swept[order[k]][c]
                  /\ \A i, j \in 1..n : order[i] = order[j] => i = j
             /\ \A i, j \in 1..n : i <= j => levels[i] <= levels[j]
<1> DEFINE sweeps == Sweeps(swept, c)
           n == Cardinality(sweeps)
           levels == Levels(swept, c)
           Below(x) == {y \in sweeps : Lower(swept, c, y, x)}
           lower == {p \in sweeps \X sweeps : Lower(swept, c, p[1], p[2])}
           order == InOrder(sweeps, LAMBDA a, b : Lower(swept, c, a, b))
<1>1. sweeps \subseteq 1..Len(swept) /\ Len(swept) \in Nat
  BY DEF Sweeps
<1>2. IsFiniteSet(sweeps)
  <2>1. IsFiniteSet(1..Len(swept))
    BY <1>1, FS_Interval
  <2> QED BY <1>1, <2>1, FS_Subset
<1>3. \A i \in sweeps : i \in Int /\ swept[i][c] \in Int
  BY <1>1, ScansAssumption DEF Sweeps
<1>4. \A i, j \in sweeps : <<i, j>> \in lower <=>
                           \/ swept[i][c] < swept[j][c]
                           \/ swept[i][c] = swept[j][c] /\ i < j
  BY DEF Lower
<1>5. levels = [k \in 1..n |-> swept[order[k]][c]]
  BY DEF Levels
<1>a. order = [i \in 1..n |-> CHOOSE x \in sweeps : Cardinality(Below(x)) = i - 1]
  BY DEF InOrder
<1>b. \A x \in sweeps : Below(x) = {y \in sweeps : <<y, x>> \in lower}
  OBVIOUS
<1> HIDE DEF sweeps, levels, lower, Below, order, n
<1>c. ASSUME NEW i \in 1..n,
             \E x \in sweeps : Cardinality({y \in sweeps : <<y, x>> \in lower}) = i - 1
      PROVE  /\ order[i] \in sweeps
             /\ Cardinality({y \in sweeps : <<y, order[i]>> \in lower}) = i - 1
  <2>1. order[i] = CHOOSE x \in sweeps : Cardinality(Below(x)) = i - 1
    BY <1>a
  <2>2. \E x \in sweeps : Cardinality(Below(x)) = i - 1
    BY <1>b, <1>c
  <2>3. order[i] \in sweeps /\ Cardinality(Below(order[i])) = i - 1
    BY <2>1, <2>2
  <2> QED BY <1>b, <2>3
<1>d. DOMAIN order = 1..n /\ order = [i \in DOMAIN order |-> order[i]]
  <2> DEFINE Chosen(i) == CHOOSE x \in sweeps : Cardinality(Below(x)) = i - 1
  <2>1. order = [i \in 1..n |-> Chosen(i)]
    BY <1>a
  <2> HIDE DEF Chosen
  <2> QED BY <2>1
<1>6. /\ n \in Nat
      /\ order \in [1..n -> sweeps]
      /\ \A i, j \in 1..n : i < j => <<order[i], order[j]>> \in lower
  <2>1. \A i \in sweeps : <<i, i>> \notin lower
    BY <1>3, <1>4
  <2>2. ASSUME NEW i \in sweeps, NEW j \in sweeps, NEW k \in sweeps,
               <<i, j>> \in lower, <<j, k>> \in lower
        PROVE  <<i, k>> \in lower
    <3> DEFINE a == swept[i][c]  b == swept[j][c]  d == swept[k][c]
    <3>1. a \in Int /\ b \in Int /\ d \in Int /\ i \in Int /\ j \in Int /\ k \in Int
      BY <1>3
    <3>2. (a < b \/ (a = b /\ i < j)) /\ (b < d \/ (b = d /\ j < k))
      BY <1>4, <2>2
    <3>3. <<i, k>> \in lower <=> a < d \/ (a = d /\ i < k)
      BY <1>4
    <3> HIDE DEF a, b, d
    <3>4. a < d \/ (a = d /\ i < k)
      BY <3>1, <3>2
    <3> QED BY <3>3, <3>4
  <2>3. \A i, j \in sweeps : i # j => <<i, j>> \in lower \/ <<j, i>> \in lower
    BY <1>3, <1>4
  <2> DEFINE rank == Rank(sweeps, lower)
  <2>4. /\ n \in Nat /\ rank \in [sweeps -> 0..(n - 1)]
        /\ \A x, y \in sweeps : <<x, y>> \in lower => rank[x] < rank[y]
        /\ \A i \in 1..n : \E x \in sweeps : rank[x] = i - 1
    BY <1>2, <2>1, <2>2, <2>3, RankIs DEF n
  <2>5. \A x \in sweeps : rank[x] = Cardinality({y \in sweeps : <<y, x>> \in lower})
    BY DEF Rank
  <2> HIDE DEF rank
  <2>6. \A i \in 1..n : order[i] \in sweeps /\ rank[order[i]] = i - 1
    BY <1>c, <2>4, <2>5
  <2>7. order \in [1..n -> sweeps] /\ \A i \in 1..n : rank[order[i]] = i - 1
    BY <1>d, <2>6
  <2>8. /\ \A x \in sweeps : \E i \in 1..n : order[i] = x
        /\ \A i, j \in 1..n : i < j => <<order[i], order[j]>> \in lower
    <3>1. Places(sweeps, lower, n, rank, order)
      BY <2>3, <2>4, <2>7 DEF Places
    <3> QED BY <3>1, PlacesAre
  <2> QED BY <2>4, <2>7, <2>8
<1>7. levels \in [1..n -> Int] /\ \A k \in 1..n : levels[k] = swept[order[k]][c]
  BY <1>3, <1>5, <1>6
<1>8. \A i, j \in 1..n : order[i] = order[j] => i = j
  <2>1. \A x \in sweeps : <<x, x>> \notin lower
    BY <1>3, <1>4
  <2>2. \A i, j \in 1..n : i < j => order[i] # order[j]
    BY <1>6, <2>1
  <2>3. \A i, j \in 1..n : i # j => i < j \/ j < i
    BY <1>6
  <2> QED BY <2>2, <2>3
<1>9. ASSUME NEW i \in 1..n, NEW j \in 1..n, i <= j PROVE levels[i] <= levels[j]
  <2>1. CASE i = j
    BY <2>1, <1>7
  <2>2. CASE i < j
    <3>1. order[i] \in sweeps /\ order[j] \in sweeps /\ <<order[i], order[j]>> \in lower
      BY <1>6, <2>2
    <3>2. \/ swept[order[i]][c] < swept[order[j]][c]
          \/ swept[order[i]][c] = swept[order[j]][c]
      BY <1>4, <3>1
    <3>3. levels[i] < levels[j] \/ levels[i] = levels[j]
      BY <1>7, <3>2
    <3> QED BY <1>7, <3>3
  <2> QED BY <2>1, <2>2, <1>9, <1>6
<1> QED BY <1>2, <1>3, <1>6, <1>7, <1>8, <1>9 DEF sweeps, n, levels

(* The median lies between the two levels in the middle.                   *)
LEMMA MedianIs ==
  ASSUME NEW n \in Nat, n > 0, NEW levels \in [1..n -> Int],
         \A i, j \in 1..n : i <= j => levels[i] <= levels[j]
  PROVE  \E low, high \in 1..n :
           /\ levels[low] <= Median(levels) /\ Median(levels) <= levels[high]
           /\ 2 * low >= n /\ 2 * (n - high + 1) >= n /\ Median(levels) \in Int
<1> DEFINE h == n \div 2
           Between(low, high) ==
             /\ levels[low] <= Median(levels) /\ Median(levels) <= levels[high]
             /\ 2 * low >= n /\ 2 * (n - high + 1) >= n /\ Median(levels) \in Int
<1> SUFFICES \E low, high \in 1..n : Between(low, high)
  OBVIOUS
<1>1. Len(levels) = n
  OBVIOUS
<1>2. h \in Nat /\ n % 2 \in {0, 1} /\ n = (2 * h) + (n % 2)
  OBVIOUS
<1>3. CASE n % 2 = 1
  <2>1. h + 1 \in 1..n /\ Median(levels) = levels[h + 1]
    BY <1>1, <1>2, <1>3 DEF Median
  <2> HIDE DEF h
  <2>2. /\ levels[h + 1] \in Int
        /\ 2 * (h + 1) >= n /\ 2 * (n - (h + 1) + 1) >= n
    BY <1>2, <1>3, <2>1
  <2>3. Between(h + 1, h + 1)
    BY <2>1, <2>2
  <2> HIDE DEF Between
  <2> QED BY <2>1, <2>3
<1>4. CASE n % 2 = 0
  <2>1. h \in 1..n /\ h + 1 \in 1..n
    BY <1>2, <1>4
  <2>2. Median(levels) = Halve(levels[h] + levels[h + 1])
    BY <1>1, <1>4 DEF Median
  <2> HIDE DEF h
  <2>3. levels[h] \in Int /\ levels[h + 1] \in Int /\ levels[h] <= levels[h + 1]
    BY <2>1
  <2>4. \A a, b \in Int : a <= b => Halve(a + b) \in Int /\ a <= Halve(a + b) /\ Halve(a + b) <= b
    BY DEF Halve
  <2>5. Median(levels) \in Int /\ levels[h] <= Median(levels)
        /\ Median(levels) <= levels[h + 1]
    BY <2>2, <2>3, <2>4
  <2>6. 2 * h >= n /\ 2 * (n - (h + 1) + 1) >= n
    BY <1>2, <1>4
  <2>7. Between(h, h + 1)
    BY <2>5, <2>6
  <2> HIDE DEF Between
  <2> QED BY <2>1, <2>7
<1> QED BY <1>2, <1>3, <1>4

(* What is said of a channel that was heard.                               *)
LEMMA CombineIs ==
  ASSUME NEW swept \in Seq(Readings), NEW c \in DOMAIN Combine(swept)
  PROVE  LET n == Cardinality(Sweeps(swept, c))
             levels == Levels(swept, c)
         IN  /\ n \in Nat /\ n > 0
             /\ Combine(swept)[c].loudest = levels[n] /\ levels[n] \in Int
             /\ Combine(swept)[c].typical =
                  IF Len(swept) > 1 THEN Median(levels) ELSE NoLevel
<1> DEFINE sweeps == Sweeps(swept, c)
           n == Cardinality(sweeps)
           levels == Levels(swept, c)
<1>1. IsFiniteSet(sweeps) /\ n \in Nat /\ levels \in [1..n -> Int]
  BY LevelsAre
<1>2. c \in UNION {DOMAIN swept[i] : i \in 1..Len(swept)}
  BY DEF Combine
<1>3. PICK i \in 1..Len(swept) : c \in DOMAIN swept[i]
  BY <1>2
<1>4. i \in sweeps
  BY <1>3 DEF Sweeps
<1>5. Combine(swept)[c] = [loudest |-> levels[Len(levels)],
                           typical |-> IF Len(swept) > 1 THEN Median(levels) ELSE NoLevel]
  BY <1>2 DEF Combine
<1> HIDE DEF sweeps, levels
<1>6. n # 0
  BY <1>1, <1>4, FS_EmptySet
<1> HIDE DEF n
<1>7. Len(levels) = n /\ levels[n] \in Int /\ n > 0
  BY <1>1, <1>6
<1>8. Combine(swept)[c].loudest = levels[Len(levels)]
      /\ Combine(swept)[c].typical = IF Len(swept) > 1 THEN Median(levels) ELSE NoLevel
  BY <1>5
<1> QED BY <1>1, <1>4, <1>7, <1>8 DEF sweeps, n, levels

(* The channels that were heard are finitely many, and numbers.            *)
LEMMA HeardChannels ==
  ASSUME NEW swept \in Seq(Readings)
  PROVE  IsFiniteSet(DOMAIN Combine(swept)) /\ DOMAIN Combine(swept) \subseteq Int
<1> DEFINE sweeps == 1..Len(swept)
           heard == [i \in sweeps |-> DOMAIN swept[i]]
           sets == {heard[i] : i \in sweeps}
<1>1. \A i \in sweeps : IsFiniteSet(heard[i]) /\ heard[i] \subseteq Int
  BY ScansAssumption
<1>2. IsFiniteSet(sweeps)
  <2>1. 1 \in Int /\ Len(swept) \in Int
    OBVIOUS
  <2> QED BY <2>1, FS_Interval
<1>3. DOMAIN Combine(swept) = UNION sets
  <2>1. DOMAIN Combine(swept) = UNION {DOMAIN swept[i] : i \in sweeps}
    BY DEF Combine
  <2>2. {DOMAIN swept[i] : i \in sweeps} = sets
    OBVIOUS
  <2> QED BY <2>1, <2>2
<1>4. heard \in Surjection(sweeps, sets)
  BY DEF Surjection
<1>5. \A set \in sets : IsFiniteSet(set) /\ set \subseteq Int
  BY <1>1
<1> HIDE DEF sweeps, heard, sets
<1>6. IsFiniteSet(sets)
  BY <1>2, <1>4, FS_Surjection
<1>7. IsFiniteSet(UNION sets)
  BY <1>5, <1>6, FS_UNION
<1> QED BY <1>3, <1>5, <1>7

(* Half of the sweeps lie on either side of the typical level.             *)
LEMMA TypicalSplits ==
  ASSUME NEW swept \in Seq(Readings), NEW c \in DOMAIN Combine(swept),
         NEW t, t = Combine(swept)[c].typical, t # NoLevel
  PROVE  LET sweeps == Sweeps(swept, c)
             below == {i \in sweeps : swept[i][c] <= t}
             above == {i \in sweeps : swept[i][c] >= t}
         IN  /\ t <= Combine(swept)[c].loudest
             /\ 2 * Cardinality(below) >= Cardinality(sweeps)
             /\ 2 * Cardinality(above) >= Cardinality(sweeps)
<1> DEFINE sweeps == Sweeps(swept, c)
           n == Cardinality(sweeps)
           levels == Levels(swept, c)
           below == {i \in sweeps : swept[i][c] <= t}
           above == {i \in sweeps : swept[i][c] >= t}
<1>1. /\ n \in Nat /\ n > 0 /\ Combine(swept)[c].loudest = levels[n]
      /\ t = Median(levels)
  BY CombineIs
<1>2. /\ IsFiniteSet(sweeps) /\ levels \in [1..n -> Int]
      /\ \A i, j \in 1..n : i <= j => levels[i] <= levels[j]
      /\ \A i \in sweeps : swept[i][c] \in Int
  BY LevelsAre
<1>3. PICK order \in [1..n -> sweeps] :
        /\ \A k \in 1..n : levels[k] = swept[order[k]][c]
        /\ \A i, j \in 1..n : order[i] = order[j] => i = j
  BY LevelsAre
<1>a. below \in SUBSET sweeps /\ above \in SUBSET sweeps
      /\ \A i \in sweeps : (swept[i][c] <= t => i \in below) /\ (swept[i][c] >= t => i \in above)
  OBVIOUS
<1> HIDE DEF sweeps, levels, below, above
<1>b. IsFiniteSet(below) /\ IsFiniteSet(above)
  BY <1>2, <1>a, FS_Subset
<1> HIDE DEF n
<1>4. PICK low, high \in 1..n :
        /\ levels[low] <= t /\ t <= levels[high]
        /\ 2 * low >= n /\ 2 * (n - high + 1) >= n /\ t \in Int
  BY <1>1, <1>2, MedianIs
<1>5. t <= levels[n]
  <2>1. n \in 1..n /\ high <= n
    BY <1>1, <1>4
  <2>2. levels[high] <= levels[n] /\ levels[high] \in Int /\ levels[n] \in Int
    BY <1>2, <2>1
  <2>3. t \in Int /\ t <= levels[high]
    BY <1>4
  <2> HIDE <1>1
  <2> QED BY <2>2, <2>3
<1>6. Cardinality(below) >= low
  <2>1. \A k \in 1..low : order[k] \in below
    <3> SUFFICES ASSUME NEW k \in 1..low PROVE order[k] \in below
      OBVIOUS
    <3>1. k \in 1..n /\ order[k] \in sweeps /\ levels[k] <= levels[low]
      BY <1>1, <1>2, <1>3
    <3>2. levels[k] <= t
      BY <1>2, <1>4, <3>1
    <3> QED BY <1>3, <1>a, <3>1, <3>2
  <2>2. \A i, j \in 1..low : order[i] = order[j] => i = j
    BY <1>1, <1>3
  <2>3. 1 \in Int /\ low \in Int /\ 1 <= low + 1
    BY <1>4
  <2>4. Cardinality(below) >= low - 1 + 1
    BY <1>b, <2>1, <2>2, <2>3, AtLeast
  <2>5. Cardinality(below) \in Int
    BY <1>b, FS_CardinalityType
  <2> QED BY <2>3, <2>4, <2>5
<1>7. Cardinality(above) >= n - high + 1
  <2>1. \A k \in high..n : order[k] \in above
    <3> SUFFICES ASSUME NEW k \in high..n PROVE order[k] \in above
      OBVIOUS
    <3>1. k \in 1..n /\ order[k] \in sweeps /\ levels[high] <= levels[k]
      BY <1>1, <1>2, <1>3
    <3>2. levels[k] >= t
      BY <1>2, <1>4, <3>1
    <3> QED BY <1>3, <1>a, <3>1, <3>2
  <2>2. \A i, j \in high..n : order[i] = order[j] => i = j
    BY <1>1, <1>3
  <2>3. high \in Int /\ n \in Int /\ high <= n + 1
    BY <1>1, <1>4
  <2> QED BY <1>b, <2>1, <2>2, <2>3, AtLeast
<1>8. Cardinality(below) \in Nat /\ Cardinality(above) \in Nat
  BY <1>b, FS_CardinalityType
<1>9. 2 * Cardinality(below) >= n /\ 2 * Cardinality(above) >= n
  BY <1>1, <1>4, <1>6, <1>7, <1>8
<1> QED BY <1>1, <1>5, <1>9 DEF n, sweeps, below, above

(* The channels that are recommended are no louder than any that is not.   *)
LEMMA QuietestAreQuiet ==
  ASSUME NEW noise, IsFiniteSet(DOMAIN noise), DOMAIN noise \subseteq Int,
         \A c \in DOMAIN noise : noise[c].loudest \in Int
  PROVE  LET best == Quietest(noise)
         IN  \A i \in DOMAIN best : \A c \in DOMAIN noise \ {best[j] : j \in 1..i} :
               noise[best[i]].loudest <= noise[c].loudest
<1> DEFINE S == DOMAIN noise
           n == Cardinality(S)
           ranked == Ranked(noise)
           Before(x) == {y \in S : Quieter(noise, y, x)}
           before == {p \in S \X S : Quieter(noise, p[1], p[2])}
<1>1. IsFiniteSet(S) /\ S \subseteq Int
  OBVIOUS
<1>2. \A a, b \in S : <<a, b>> \in before <=>
                      \/ noise[a].loudest < noise[b].loudest
                      \/ noise[a].loudest = noise[b].loudest /\ a < b
  BY DEF Quieter
<1>3. ranked = [i \in 1..n |-> CHOOSE x \in S : Cardinality(Before(x)) = i - 1]
  BY DEF Ranked, InOrder
<1>a. \A x \in S : Before(x) = {y \in S : <<y, x>> \in before}
  OBVIOUS
<1>4. \A a \in S : noise[a].loudest \in Int /\ a \in Int
  BY <1>1
<1> HIDE DEF S, before, Before, ranked, n
<1>b. ASSUME NEW i \in 1..n,
             \E x \in S : Cardinality({y \in S : <<y, x>> \in before}) = i - 1
      PROVE  /\ ranked[i] \in S
             /\ Cardinality({y \in S : <<y, ranked[i]>> \in before}) = i - 1
  <2>1. ranked[i] = CHOOSE x \in S : Cardinality(Before(x)) = i - 1
    BY <1>3
  <2>2. \E x \in S : Cardinality(Before(x)) = i - 1
    BY <1>a, <1>b
  <2>3. ranked[i] \in S /\ Cardinality(Before(ranked[i])) = i - 1
    BY <2>1, <2>2
  <2> QED BY <1>a, <2>3
<1>c. DOMAIN ranked = 1..n /\ ranked = [i \in DOMAIN ranked |-> ranked[i]]
  <2> DEFINE Chosen(i) == CHOOSE x \in S : Cardinality(Before(x)) = i - 1
  <2>1. ranked = [i \in 1..n |-> Chosen(i)]
    BY <1>3
  <2> HIDE DEF Chosen
  <2> QED BY <2>1
<1>5. /\ n \in Nat /\ ranked \in [1..n -> S]
      /\ \A x \in S : \E i \in 1..n : ranked[i] = x
      /\ \A i, j \in 1..n : i < j => <<ranked[i], ranked[j]>> \in before
  <2>1. \A a \in S : <<a, a>> \notin before
    BY <1>2, <1>4
  <2>2. ASSUME NEW a \in S, NEW b \in S, NEW c \in S, <<a, b>> \in before, <<b, c>> \in before
        PROVE  <<a, c>> \in before
    <3> DEFINE la == noise[a].loudest  lb == noise[b].loudest  lc == noise[c].loudest
    <3>1. la \in Int /\ lb \in Int /\ lc \in Int /\ a \in Int /\ b \in Int /\ c \in Int
      BY <1>4
    <3>2. (la < lb \/ (la = lb /\ a < b)) /\ (lb < lc \/ (lb = lc /\ b < c))
      BY <1>2, <2>2
    <3>3. <<a, c>> \in before <=> la < lc \/ (la = lc /\ a < c)
      BY <1>2
    <3> HIDE DEF la, lb, lc
    <3>4. la < lc \/ (la = lc /\ a < c)
      BY <3>1, <3>2
    <3> QED BY <3>3, <3>4
  <2>3. \A a, b \in S : a # b => <<a, b>> \in before \/ <<b, a>> \in before
    BY <1>2, <1>4
  <2> DEFINE rank == Rank(S, before)
  <2>4. /\ n \in Nat /\ rank \in [S -> 0..(n - 1)]
        /\ \A x, y \in S : <<x, y>> \in before => rank[x] < rank[y]
        /\ \A i \in 1..n : \E x \in S : rank[x] = i - 1
    BY <1>1, <2>1, <2>2, <2>3, RankIs DEF n
  <2>5. \A x \in S : rank[x] = Cardinality({y \in S : <<y, x>> \in before})
    BY DEF Rank
  <2> HIDE DEF rank
  <2>6. \A i \in 1..n : ranked[i] \in S /\ rank[ranked[i]] = i - 1
    BY <1>b, <2>4, <2>5
  <2>7. ranked \in [1..n -> S] /\ \A i \in 1..n : rank[ranked[i]] = i - 1
    BY <1>c, <2>6
  <2>8. /\ \A x \in S : \E i \in 1..n : ranked[i] = x
        /\ \A i, j \in 1..n : i < j => <<ranked[i], ranked[j]>> \in before
    <3>1. Places(S, before, n, rank, ranked)
      BY <2>3, <2>4, <2>7 DEF Places
    <3> QED BY <3>1, PlacesAre
  <2> QED BY <2>4, <2>7, <2>8
<1> DEFINE m == IF n < 3 THEN n ELSE 3
           best == Quietest(noise)
<1>6. best = SubSeq(ranked, 1, m)
  BY DEF Quietest, S, n, ranked
<1>7. m \in Nat /\ m <= n
  BY <1>5
<1> HIDE DEF m, best
<1>8. DOMAIN best = 1..m /\ \A i \in 1..m : best[i] = ranked[i]
  <2>1. ranked \in Seq(S) /\ Len(ranked) = n
    BY <1>5
  <2> QED BY <1>6, <1>7, <2>1
<1>9. ASSUME NEW i \in DOMAIN best, NEW c \in S, c \notin {best[j] : j \in 1..i}
      PROVE  noise[best[i]].loudest <= noise[c].loudest
  <2>1. i \in 1..m /\ i \in 1..n /\ i \in Int
    BY <1>7, <1>8, <1>5
  <2>2. PICK k \in 1..n : ranked[k] = c
    BY <1>5
  <2>3. k > i
    <3>1. \A j \in 1..i : j \in 1..m /\ best[j] = ranked[j]
      BY <1>7, <1>8, <2>1
    <3>2. k \notin 1..i
      BY <1>9, <2>2, <3>1
    <3> QED BY <1>5, <2>1, <2>2, <3>2
  <2>4. <<best[i], c>> \in before /\ best[i] \in S
    BY <1>5, <1>8, <2>1, <2>2, <2>3
  <2> DEFINE a == noise[best[i]].loudest  b == noise[c].loudest
  <2>5. a < b \/ a = b
    BY <1>2, <2>4
  <2>6. a \in Int /\ b \in Int
    BY <1>4, <2>4
  <2> HIDE DEF a, b
  <2>7. a <= b
    BY <2>5, <2>6
  <2> QED BY <2>7 DEF a, b
<1> QED BY <1>9 DEF S, best

(* The list of channels and the summary grade the channel in use alike.    *)
LEMMA GradesAgree ==
  ASSUME NEW noise, NEW c \in DOMAIN noise
  PROVE  Advised[Level(noise, c, c)] = Advice(noise, c)
<1> DEFINE grade == Grade(IF HasTypical(noise, c) THEN AboveTypical(noise, c)
                          ELSE AboveQuietest(noise, c))
<1>1. Level(noise, c, c) = grade
  BY DEF Level
<1>2. grade \in {"quiet", "moderate", "busy"}
  BY DEF Grade
<1>3. Advice(noise, c) = CASE grade = "quiet" -> "stay"
                           [] grade = "busy" -> "consider moving"
                           [] OTHER -> "not worth moving"
  BY DEF Advice
<1> HIDE DEF grade
<1>4. /\ Advised["quiet"] = "stay" /\ Advised["busy"] = "consider moving"
      /\ Advised["moderate"] = "not worth moving"
  BY DEF Advised
<1>5. CASE grade = "quiet"
  BY <1>1, <1>3, <1>4, <1>5
<1>6. CASE grade = "busy"
  BY <1>1, <1>3, <1>4, <1>6
<1>7. CASE grade = "moderate"
  BY <1>1, <1>3, <1>4, <1>7
<1> QED BY <1>2, <1>5, <1>6, <1>7

(* What a request is answered of the noise is made of its sweeps, and once *)
(* it is answered it makes no more of them.                                *)
NoiseOf(r) ==
  /\ pc[r] # "done" => answer[r].noise = << >>
  /\ answer[r].noise # << >> => answer[r].noise = Combine(samples[r])

(* A step of r either answers nothing, or without noise, or what it        *)
(* measured.                                                               *)
Moves(r) == pc' = pc \/ \E step : pc' = [pc EXCEPT ![r] = step]

Ends(r) ==
  \/ pc[r] # "done" /\ UNCHANGED answer /\ Moves(r)
  \/ \E a : a.noise = << >> /\ Finish(r, a)
  \/ \E source : Measured(r, source)

LEMMA EndsKeepNoise ==
  ASSUME Inv, \A q \in Requests : NoiseOf(q), NEW r \in Requests, Ends(r),
         \A q \in Requests \ {r} : samples'[q] = samples[q]
  PROVE  \A q \in Requests : NoiseOf(q)'
<1>1. pc \in [Requests -> Steps] /\ DOMAIN answer = Requests
  BY DEF Inv, TypeOK, Steps
<1>2. CASE pc[r] # "done" /\ UNCHANGED answer /\ Moves(r)
  <2>1. \A q \in Requests \ {r} : pc'[q] = pc[q]
    BY <1>1, <1>2 DEF Moves
  <2>2. answer[r].noise = << >>
    BY <1>2 DEF NoiseOf
  <2> QED BY <1>2, <2>1, <2>2 DEF NoiseOf
<1>3. ASSUME NEW a, Finish(r, a), a.noise = << >> \/ a.noise = Combine(samples'[r])
      PROVE  \A q \in Requests : NoiseOf(q)'
  <2>1. /\ pc' = [pc EXCEPT ![r] = "done"] /\ answer' = [answer EXCEPT ![r] = a]
    BY <1>3 DEF Finish
  <2>2. /\ pc'[r] = "done" /\ answer'[r] = a
        /\ \A q \in Requests \ {r} : pc'[q] = pc[q] /\ answer'[q] = answer[q]
    BY <1>1, <2>1
  <2> QED BY <1>3, <2>2 DEF NoiseOf
<1>4. ASSUME NEW source, Measured(r, source)
      PROVE  \A q \in Requests : NoiseOf(q)'
  <2> DEFINE a == [Answer("available", source) EXCEPT
                     !.noise = Combine(samples'[r]), !.current = current[r].channel,
                     !.passes = Len(samples'[r])]
  <2>1. Finish(r, a)
    BY <1>4 DEF Measured
  <2>2. a.noise = Combine(samples'[r])
    BY DEF Answer, NoAnswer
  <2> HIDE DEF a
  <2> QED BY <2>1, <2>2, <1>3
<1> QED BY <1>2, <1>3, <1>4 DEF Ends

LEMMA NoNoise ==
  /\ \A status, source : Answer(status, source).noise = << >>
  /\ \A items, passes : Found(items, passes).noise = << >>
BY DEF Answer, NoAnswer, Found

LEMMA DiscoveryEnds ==
  ASSUME NEW r \in Requests, pc[r] # "done",
         \/ \E unusable \in BOOLEAN : PassFailed(r, unusable)
         \/ \E found : PassDone(r, found)
         \/ \E found, pause : NextChannel(r, found, pause)
  PROVE  Ends(r)
<1>1. ASSUME NEW found, PassDone(r, found) PROVE Ends(r)
  BY <1>1, NoNoise DEF PassDone, Ends, Moves
<1>2. ASSUME NEW unusable \in BOOLEAN, PassFailed(r, unusable) PROVE Ends(r)
  BY <1>2, NoNoise DEF PassFailed, Ends, Moves
<1>3. ASSUME NEW found, NEW pause, NextChannel(r, found, pause) PROVE Ends(r)
  BY <1>1, <1>3 DEF NextChannel, Ends, Moves
<1> QED BY <1>1, <1>2, <1>3

LEMMA FailedEnds ==
  ASSUME NEW r \in Requests, NEW unusable \in BOOLEAN, Failed(r, unusable)
  PROVE  Ends(r) /\ samples' = samples
<1>1. samples' = samples /\ pc[r] # "done"
  BY DEF Failed, SweepFailed, scan
<1>2. CASE \/ \E u \in BOOLEAN : PassFailed(r, u)
           \/ \E found, pause : NextChannel(r, found, pause)
  BY <1>1, <1>2, DiscoveryEnds
<1>3. CASE ~ \/ \E u \in BOOLEAN : PassFailed(r, u)
             \/ \E found, pause : NextChannel(r, found, pause)
  BY <1>1, <1>3, NoNoise DEF Failed, SweepFailed, Ends, Moves
<1> QED BY <1>1, <1>2, <1>3

LEMMA RestFailsEnds ==
  ASSUME NEW r \in Requests, NEW missing, RestFails(r, missing)
  PROVE  Ends(r) /\ samples' = samples
BY NoNoise DEF RestFails, Ends

LEMMA RunningEnds ==
  ASSUME Inv, NEW r \in Requests, Running(r)
  PROVE  Ends(r) /\ \A q \in Requests \ {r} : samples'[q] = samples[q]
<1>1. samples \in [Requests -> Seq(Readings)]
  BY DEF Inv, TypeOK
<1>2. CASE ReadOverview(r)
  BY <1>2, NoNoise DEF ReadOverview, Ends, Moves
<1>3. CASE TimePasses(r)
  BY <1>3 DEF TimePasses, Ends, Moves
<1>4. CASE Unusable(r)
  BY <1>4, FailedEnds DEF Unusable
<1>5. CASE Send(r)
  BY <1>5 DEF Send, Ends, Moves, scan, Commands
<1>6. CASE CommandFails(r)
  BY <1>6, FailedEnds DEF CommandFails
<1>7. CASE Discovered(r)
  <2>1. pc[r] # "done" /\ samples' = samples
    BY <1>7 DEF Discovered
  <2>2. \/ \E found, pause : NextChannel(r, found, pause)
        \/ \E found : PassDone(r, found)
    BY <1>7 DEF Discovered
  <2> QED BY <2>1, <2>2, DiscoveryEnds
<1>8. CASE Swept(r)
  <2>1. pc[r] # "done" /\ \A q \in Requests \ {r} : samples'[q] = samples[q]
    BY <1>1, <1>8 DEF Swept
  <2> QED BY <1>8, <2>1 DEF Swept, Ends, Moves
<1>9. CASE Resume(r)
  BY <1>9 DEF Resume, Ends, Moves, scan, Pauses
<1>10. CASE GiveUp(r)
  <2>1. pc[r] # "done" /\ samples' = samples
    BY <1>10 DEF GiveUp, Pauses, scan
  <2>2. \/ \E found : PassDone(r, found)
        \/ \E a : a.noise = << >> /\ Finish(r, a)
        \/ Measured(r, "daemon")
    BY <1>10, NoNoise DEF GiveUp
  <2>3. CASE \E found : PassDone(r, found)
    BY <2>1, <2>3, DiscoveryEnds
  <2>4. CASE ~ \E found : PassDone(r, found)
    BY <2>1, <2>2, <2>4 DEF Ends
  <2> QED BY <2>1, <2>3, <2>4
<1>11. CASE Web(r)
  BY <1>11, NoNoise DEF Web, Ends, scan
<1>12. CASE RestRequestFails(r)
  BY <1>12, RestFailsEnds DEF RestRequestFails
<1>13. CASE Post(r)
  BY <1>13 DEF Post, Ends, Moves
<1>14. CASE StopWaiting(r)
  BY <1>14, RestFailsEnds DEF StopWaiting
<1>15. CASE Report(r)
  <2>1. pc[r] # "done" /\ \A q \in Requests \ {r} : samples'[q] = samples[q]
    BY <1>1, <1>15 DEF Report
  <2> QED BY <1>15, <2>1 DEF Report, Ends, Moves
<1> QED BY <1>2, <1>3, <1>4, <1>5, <1>6, <1>7, <1>8, <1>9, <1>10, <1>11, <1>12, <1>13,
           <1>14, <1>15 DEF Running

LEMMA NoiseKept ==
  ASSUME Inv, [Next]_vars, \A q \in Requests : NoiseOf(q)
  PROVE  \A q \in Requests : NoiseOf(q)'
<1>1. CASE \E r \in Requests : Running(r)
  BY <1>1, RunningEnds, EndsKeepNoise
<1>2. ASSUME NEW r \in Requests,
             StartNetworks(r) \/ StartEnergy(r) \/ Cancel(r) \/ ActionCompleted(r)
      PROVE  \A q \in Requests : NoiseOf(q)'
  <2>1. Ends(r) /\ samples' = samples
    BY <1>2 DEF StartNetworks, StartEnergy, Cancel, ActionCompleted, Ends, Moves, scan
  <2> QED BY <2>1, EndsKeepNoise
<1>3. CASE SocketChanges \/ Served \/ UNCHANGED vars
  <2>1. UNCHANGED <<pc, answer, samples>>
    BY <1>3 DEF SocketChanges, Served, vars, scan
  <2> QED BY <2>1 DEF NoiseOf
<1> QED BY <1>1, <1>2, <1>3 DEF Next

(* What is said of the noise follows from what was measured: half of the   *)
(* sweeps lie on either side of a typical level, the channels recommended  *)
(* are no louder than the others, and the list and the summary grade the   *)
(* channel in use alike (energy.go:160-182, mcpserver/server.go:901-1030). *)
THEOREM NoiseIsSound == Spec => []NoiseSound
<1>1. Init => \A q \in Requests : NoiseOf(q)
  BY DEF Init, NoiseOf, NoAnswer
<1>2. Inv /\ (\A q \in Requests : NoiseOf(q)) /\ [Next]_vars
      => (\A q \in Requests : NoiseOf(q))'
  BY NoiseKept
<1>3. ASSUME Inv, \A q \in Requests : NoiseOf(q)
      PROVE  NoiseSound
  <2> SUFFICES ASSUME NEW r \in Requests, answer[r].noise # << >>
               PROVE
      LET noise == answer[r].noise
          best == Quietest(noise)
      IN  /\ \A c \in DOMAIN noise :
               LET t == noise[c].typical
                   sweeps == Sweeps(samples[r], c)
                   below == {i \in sweeps : samples[r][i][c] <= t}
                   above == {i \in sweeps : samples[r][i][c] >= t}
               IN  t # NoLevel => /\ t <= noise[c].loudest
                                  /\ 2 * Cardinality(below) >= Cardinality(sweeps)
                                  /\ 2 * Cardinality(above) >= Cardinality(sweeps)
          /\ \A i \in DOMAIN best : \A c \in DOMAIN noise \ {best[j] : j \in 1..i} :
               noise[best[i]].loudest <= noise[c].loudest
          /\ LET c == answer[r].current
             IN  c \in DOMAIN noise => Advised[Level(noise, c, c)] = Advice(noise, c)
    BY DEF NoiseSound
  <2> DEFINE swept == samples[r]
             noise == answer[r].noise
  <2>1. noise = Combine(swept) /\ swept \in Seq(Readings)
    BY <1>3 DEF Inv, TypeOK, NoiseOf
  <2> HIDE DEF swept, noise
  <2>2. ASSUME NEW c \in DOMAIN noise, NEW t, t = noise[c].typical, t # NoLevel
        PROVE  LET sweeps == Sweeps(swept, c)
                   below == {i \in sweeps : swept[i][c] <= t}
                   above == {i \in sweeps : swept[i][c] >= t}
               IN  /\ t <= noise[c].loudest
                   /\ 2 * Cardinality(below) >= Cardinality(sweeps)
                   /\ 2 * Cardinality(above) >= Cardinality(sweeps)
    <3>1. c \in DOMAIN Combine(swept) /\ t = Combine(swept)[c].typical
      BY <2>1, <2>2
    <3>2. LET sweeps == Sweeps(swept, c)
              below == {i \in sweeps : swept[i][c] <= t}
              above == {i \in sweeps : swept[i][c] >= t}
          IN  /\ t <= Combine(swept)[c].loudest
              /\ 2 * Cardinality(below) >= Cardinality(sweeps)
              /\ 2 * Cardinality(above) >= Cardinality(sweeps)
      BY <2>1, <2>2, <3>1, TypicalSplits
    <3> QED BY <2>1, <3>2
  <2>3. LET best == Quietest(noise)
        IN  \A i \in DOMAIN best : \A c \in DOMAIN noise \ {best[j] : j \in 1..i} :
              noise[best[i]].loudest <= noise[c].loudest
    <3>1. \A c \in DOMAIN noise : noise[c].loudest \in Int
      BY <2>1, CombineIs
    <3>2. IsFiniteSet(DOMAIN noise) /\ DOMAIN noise \subseteq Int
      BY <2>1, HeardChannels
    <3> QED BY <3>1, <3>2, QuietestAreQuiet
  <2>4. \A c \in DOMAIN noise : Advised[Level(noise, c, c)] = Advice(noise, c)
    BY GradesAgree
  <2> QED BY <2>2, <2>3, <2>4 DEF swept, noise
<1>4. Inv /\ (\A q \in Requests : NoiseOf(q)) => NoiseSound
  BY <1>3
<1> QED BY <1>1, <1>2, <1>4, Invariance, PTL DEF Spec
=============================================================================
