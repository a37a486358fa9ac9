--------------------------- MODULE OverviewProofs ---------------------------
(***************************************************************************)
(* Proofs about OverviewSources, for any number of callers, networks and   *)
(* failures and any lifetime of the caches.                                *)
(***************************************************************************)
EXTENDS OverviewSources, TLAPS

-----------------------------------------------------------------------------
(* The types, in parts that steps disturb separately.                      *)

WorldOK ==
  /\ network \in Networks /\ apiServes \in Networks
  /\ gone \in [Networks -> 0..(TTL + 1)]
  /\ changes \in 0..MaxChanges /\ web \in BOOLEAN /\ socket \in BOOLEAN
PropertiesOK == properties \in [Fields -> Value] /\ propertiesAge \in 0..TTL
StatusOK ==
  /\ status \in [Fields -> Value] /\ channel \in Value /\ statusAge \in 0..TTL
  /\ statusMu \in Callers \cup {None}
CallersOK ==
  /\ pc \in [Callers -> Steps]
  /\ overview \in [Callers -> [Fields -> Value]]
  /\ late \subseteq asked /\ asked \subseteq Callers
Locked == \A c \in Callers : pc[c] \in {"channel", "panid"} <=> statusMu = c

LEMMA TypeParts ==
  TypeOK <=> /\ WorldOK /\ PropertiesOK /\ StatusOK /\ CallersOK /\ Locked
             /\ failures \in 0..MaxFailures /\ served \in [Fields -> Value]
  BY DEF TypeOK, WorldOK, PropertiesOK, StatusOK, CallersOK, Locked

(* A value is young when its network was left no longer than t ago.        *)
Young(v, t) == v \in Networks => gone[v] <= t

(* What makes an overview young: a cache that still counts holds values no *)
(* older than it is, the properties unless an attempt is under way; what   *)
(* the holder of the lock was told is true; and a caller that did not take *)
(* properties while another fetched them has only what is young.           *)
HereNow == gone[network] = 0
OneAttempt == \A c \in Callers : pc[c] = "fetch" => propertiesAge = 0
PropertiesYoung ==
  propertiesAge < TTL /\ (\A c \in Callers : pc[c] # "fetch")
    => \A f \in Fields : Young(properties[f], propertiesAge)
StatusYoung ==
  statusAge < TTL => \A f \in Fields : Young(status[f], statusAge)
ChannelYoung == Young(channel, 0) /\ (statusMu = None => channel = Blank)
OverviewsYoung ==
  \A c \in Callers : pc[c] # "idle" /\ c \notin late =>
    \A f \in Radio : Young(overview[c][f], TTL)

Ages == HereNow /\ OneAttempt /\ PropertiesYoung /\ StatusYoung /\ ChannelYoung /\ OverviewsYoung

(* Who is at work has asked since the last tick; who is late is past the   *)
(* properties.                                                             *)
PastProperties == {"status", "channel", "panid", "dataset"}
AtWork ==
  \A c \in Callers : /\ pc[c] # "idle" => c \in asked
                     /\ c \in late => pc[c] \in PastProperties

Inv == TypeOK /\ AtWork /\ Ages

-----------------------------------------------------------------------------
(* The operators.                                                          *)

LEMMA Constants ==
  /\ TTL \in Nat /\ TTL >= 1 /\ MaxChanges \in Nat /\ MaxFailures \in Nat
  /\ Blank \notin Networks /\ None \notin Callers
  BY SourcesAssumption

LEMMA NoFieldsOK == NoFields \in [Fields -> Value] /\ \A f \in Fields : NoFields[f] = Blank
  BY DEF NoFields, Value

LEMMA ReportedOK ==
  ASSUME NEW v \in Value, NEW fields
  PROVE  /\ Reported(fields, v) \in [Fields -> Value]
         /\ \A f \in Fields : Reported(fields, v)[f] \in {Blank, v}
  BY DEF Reported, Value

LEMMA RadioFields == Radio \subseteq Fields
  BY DEF Fields

LEMMA FreshNodeOK ==
  ASSUME NEW a \in Value, NEW n \in Value PROVE FreshNode(a, n) \in Value
  BY DEF FreshNode

LEMMA ApplyOK ==
  ASSUME NEW o \in [Fields -> Value], NEW p \in [Fields -> Value]
  PROVE  /\ ApplyProperties(o, p) \in [Fields -> Value]
         /\ \A f \in Radio : ApplyProperties(o, p)[f] = p[f]
  BY DEF ApplyProperties, Fields, Radio

LEMMA FillOK ==
  ASSUME NEW o \in [Fields -> Value], NEW e \in [Fields -> Value]
  PROVE  /\ Fill(o, e) \in [Fields -> Value]
         /\ \A f \in Fields : Fill(o, e)[f] \in {o[f], e[f]}
  BY DEF Fill

LEMMA BlankIsYoung == \A t \in Nat : Young(Blank, t)
  BY Constants DEF Young

LEMMA NetworkIsYoung == ASSUME HereNow PROVE \A t \in Nat : Young(network, t)
  BY DEF Young, HereNow

LEMMA FailingOK ==
  ASSUME TypeOK, NEW fails \in MayFail, Failing(fails) PROVE failures' \in 0..MaxFailures
<1>1. CASE fails
  <2>1. failures < MaxFailures /\ failures' = failures + 1
    BY <1>1 DEF MayFail, Failing
  <2>. QED BY Constants, <2>1 DEF TypeOK
<1>2. CASE ~fails
  <2>1. failures' = failures + 0
    BY <1>2 DEF Failing
  <2>. QED BY Constants, <2>1 DEF TypeOK
<1>. QED BY <1>1, <1>2

-----------------------------------------------------------------------------
LEMMA InitInv == Init => Inv
<1> SUFFICES ASSUME Init PROVE Inv
  OBVIOUS
<1>1. WorldOK
  BY Constants DEF Init, WorldOK
<1>2. PropertiesOK /\ StatusOK
  BY Constants, NoFieldsOK DEF Init, PropertiesOK, StatusOK, Value
<1>3. CallersOK /\ Locked
  BY Constants, NoFieldsOK DEF Init, CallersOK, Locked, Steps
<1>4. failures \in 0..MaxFailures /\ served \in [Fields -> Value]
  BY Constants, NoFieldsOK DEF Init
<1>5. TypeOK
  BY <1>1, <1>2, <1>3, <1>4, TypeParts
<1>6. HereNow /\ OneAttempt
  BY DEF Init, HereNow, OneAttempt
<1>7. PropertiesYoung /\ StatusYoung /\ ChannelYoung /\ OverviewsYoung
  BY Constants DEF Init, PropertiesYoung, StatusYoung, ChannelYoung, OverviewsYoung, Young
<1>8. AtWork
  BY DEF Init, AtWork
<1>. QED BY <1>5, <1>6, <1>7, <1>8 DEF Inv, Ages

(* One caller goes on: what it has, the caches and the lock are as they    *)
(* must be, and the rest of the invariant follows.                         *)
LEMMA CallerStep ==
  ASSUME Inv, NEW c \in Callers, NEW step \in Steps, Goto(c, step),
         NEW o \in [Fields -> Value], overview' = [overview EXCEPT ![c] = o],
         UNCHANGED world, PropertiesOK', StatusOK',
         failures' \in 0..MaxFailures, served' \in [Fields -> Value],
         late' \subseteq asked', asked' \subseteq Callers, late \ {c} \subseteq late',
         asked \subseteq asked', step # "idle" => c \in asked',
         late' \subseteq late \cup {c}, c \in late' => step \in PastProperties,
         step \in {"channel", "panid"} <=> statusMu' = c,
         \A d \in Callers \ {c} : statusMu' = d <=> statusMu = d,
         propertiesAge' \in {propertiesAge, 0},
         step = "fetch" => propertiesAge' = 0,
         PropertiesYoung', StatusYoung', ChannelYoung',
         step # "idle" /\ c \notin late' => \A f \in Radio : Young(o[f], TTL)
  PROVE  Inv'
<1>1. WorldOK /\ CallersOK /\ Locked
  BY TypeParts DEF Inv
<1>2. WorldOK' /\ HereNow'
  BY <1>1 DEF WorldOK, HereNow, Inv, Ages, world
<1>3. /\ pc' \in [Callers -> Steps] /\ pc'[c] = step
      /\ \A d \in Callers \ {c} : pc'[d] = pc[d]
  BY <1>1 DEF CallersOK, Goto
<1>4. /\ overview' \in [Callers -> [Fields -> Value]] /\ overview'[c] = o
      /\ \A d \in Callers \ {c} : overview'[d] = overview[d]
  BY <1>1 DEF CallersOK
<1>5. CallersOK'
  BY <1>3, <1>4 DEF CallersOK
<1>6. Locked'
  BY <1>1, <1>3 DEF Locked
<1>7. TypeOK'
  BY <1>2, <1>5, <1>6 DEF TypeOK, WorldOK, PropertiesOK, StatusOK, CallersOK, Locked
<1>8. OneAttempt'
  BY <1>3 DEF OneAttempt, Inv, Ages
<1>9. OverviewsYoung'
  <2> SUFFICES ASSUME NEW d \in Callers, pc'[d] # "idle", d \notin late',
                      NEW f \in Radio
               PROVE  Young(overview[d][f], TTL)'
    BY DEF OverviewsYoung
  <2>1. gone' = gone
    BY DEF world
  <2>2. CASE d = c
    BY <1>3, <1>4, <2>1, <2>2 DEF Young
  <2>3. CASE d # c
    <3>1. Young(overview[d][f], TTL)
      BY <1>3, <2>3 DEF OverviewsYoung, Inv, Ages
    <3>. QED BY <1>4, <2>1, <2>3, <3>1 DEF Young
  <2>. QED BY <2>2, <2>3
<1>10. AtWork'
  BY <1>3 DEF AtWork, Inv
<1>. QED BY <1>2, <1>7, <1>8, <1>9, <1>10 DEF Inv, Ages

-----------------------------------------------------------------------------
(* The reads, one by one.                                                  *)

(* The caches and their ages, when neither they nor an attempt move.       *)
LEMMA CachesStay ==
  ASSUME Inv, NEW c \in Callers, NEW step \in Steps, Goto(c, step), UNCHANGED gone
  PROVE  /\ UNCHANGED propertiesCache /\ pc[c] # "fetch" => PropertiesOK' /\ PropertiesYoung'
         /\ UNCHANGED statusCache => StatusOK' /\ StatusYoung' /\ ChannelYoung'
<1>1. ASSUME UNCHANGED propertiesCache, pc[c] # "fetch" PROVE PropertiesOK' /\ PropertiesYoung'
  <2>1. PropertiesOK'
    BY <1>1 DEF Inv, TypeOK, PropertiesOK, propertiesCache
  <2>2. ASSUME \A d \in Callers : pc'[d] # "fetch" PROVE \A d \in Callers : pc[d] # "fetch"
    BY <1>1, <2>2 DEF Inv, TypeOK, Goto
  <2>3. PropertiesYoung'
    BY <1>1, <2>2 DEF Inv, Ages, PropertiesYoung, Young, propertiesCache
  <2>. QED BY <2>1, <2>3
<1>2. ASSUME UNCHANGED statusCache PROVE StatusOK' /\ StatusYoung' /\ ChannelYoung'
  BY <1>2 DEF Inv, TypeOK, Ages, StatusOK, StatusYoung, ChannelYoung, Young, statusCache
<1>. QED BY <1>1, <1>2

LEMMA AskInv == ASSUME Inv, NEW c \in Callers, Ask(c) PROVE Inv'
<1>1. PropertiesOK' /\ PropertiesYoung' /\ StatusOK' /\ StatusYoung' /\ ChannelYoung'
  BY CachesStay DEF Ask, Steps, world
<1>2. \A f \in Radio : Young(NoFields[f], TTL)
  BY RadioFields, NoFieldsOK, BlankIsYoung, Constants
<1>3. failures' \in 0..MaxFailures /\ served' \in [Fields -> Value]
  BY DEF Ask, Inv, TypeOK
<1>4. late' \subseteq asked' /\ asked' \subseteq Callers
  BY DEF Ask, Inv, TypeOK
<1>5. statusMu' # c /\ UNCHANGED statusMu
  BY DEF Ask, Inv, TypeOK, statusCache
<1>6. c \notin late
  BY DEF Inv, AtWork, Ask, PastProperties
<1>. QED BY <1>1, <1>2, <1>3, <1>4, <1>5, <1>6, CallerStep, NoFieldsOK
     DEF Ask, Steps, PastProperties, propertiesCache

(* What the callers keep while one of them, with nothing in the lock,      *)
(* reads.                                                                  *)
LEMMA ReaderHas ==
  ASSUME Inv, NEW c \in Callers
  PROVE  /\ overview[c] \in [Fields -> Value]
         /\ pc[c] # "idle" /\ c \notin late =>
              \A f \in Radio : Young(overview[c][f], TTL)
         /\ late \subseteq asked /\ asked \subseteq Callers
         /\ pc[c] # "idle" => c \in asked
         /\ c \in late => pc[c] \in PastProperties
         /\ failures \in 0..MaxFailures /\ served \in [Fields -> Value]
         /\ network \in Value /\ apiServes \in Value /\ Blank \in Value
         /\ pc[c] \notin {"channel", "panid"} => statusMu # c
  BY DEF Inv, TypeOK, AtWork, Ages, OverviewsYoung, Value

LEMMA ReadApiNodeInv == ASSUME Inv, NEW c \in Callers, ReadApiNode(c) PROVE Inv'
<1>1. PropertiesOK' /\ PropertiesYoung' /\ StatusOK' /\ StatusYoung' /\ ChannelYoung'
  BY CachesStay DEF ReadApiNode, Steps, world
<1>2. PICK fails \in MayFail :
        /\ Failing(fails)
        /\ overview' = [overview EXCEPT ![c] =
             Reported(ApiNode, IF fails THEN Blank ELSE apiServes)]
  BY DEF ReadApiNode
<1> DEFINE told == IF fails THEN Blank ELSE apiServes
           o == Reported(ApiNode, told)
<1>3. told \in Value
  BY ReaderHas
<1>4. o \in [Fields -> Value] /\ \A f \in Radio : o[f] = Blank
  <2>1. Radio \cap ApiNode = {}
    BY DEF Radio, ApiNode
  <2>. QED BY <1>3, <2>1, ReportedOK, RadioFields DEF Reported
<1>5. overview' = [overview EXCEPT ![c] = o]
  BY <1>2
<1> HIDE DEF told, o
<1>6. failures' \in 0..MaxFailures
  BY <1>2, FailingOK DEF Inv
<1>7. c \notin late => \A f \in Radio : Young(o[f], TTL)
  BY <1>4, BlankIsYoung, Constants
<1>. QED BY <1>1, <1>4, <1>5, <1>6, <1>7, ReaderHas, CallerStep
     DEF ReadApiNode, Steps, PastProperties, propertiesCache, statusCache

LEMMA ReadNodeInv == ASSUME Inv, NEW c \in Callers, ReadNode(c) PROVE Inv'
<1>1. PICK fails \in MayFail :
        LET name == FreshNode(overview[c]["name"], IF fails THEN Blank ELSE network)
        IN  /\ Failing(fails)
            /\ Goto(c, IF name = Blank THEN "idle" ELSE "properties")
            /\ overview' = [overview EXCEPT ![c] =
                 IF name = Blank THEN NoFields ELSE [@ EXCEPT !["name"] = name]]
  BY DEF ReadNode
<1> DEFINE name == FreshNode(overview[c]["name"], IF fails THEN Blank ELSE network)
           step == IF name = Blank THEN "idle" ELSE "properties"
           o == IF name = Blank THEN NoFields ELSE [overview[c] EXCEPT !["name"] = name]
<1>2. name \in Value
  BY ReaderHas, FreshNodeOK DEF Fields, ApiNode
<1>3. o \in [Fields -> Value] /\ \A f \in Radio : o[f] \in {Blank, overview[c][f]}
  BY <1>2, ReaderHas, NoFieldsOK DEF Fields, Radio
<1>4. Goto(c, step) /\ overview' = [overview EXCEPT ![c] = o] /\ step \in {"idle", "properties"}
  BY <1>1
<1>5. failures' \in 0..MaxFailures
  BY <1>1, FailingOK DEF Inv
<1> HIDE DEF name, step, o
<1>6. PropertiesOK' /\ PropertiesYoung' /\ StatusOK' /\ StatusYoung' /\ ChannelYoung'
  BY <1>4, CachesStay DEF ReadNode, Steps, world
<1>7. c \notin late => \A f \in Radio : Young(o[f], TTL)
  BY <1>3, ReaderHas, BlankIsYoung, Constants DEF ReadNode
<1>. QED BY <1>3, <1>4, <1>5, <1>6, <1>7, ReaderHas, CallerStep
     DEF ReadNode, Steps, PastProperties, propertiesCache, statusCache

LEMMA CachedPropertiesInv == ASSUME Inv, NEW c \in Callers, CachedProperties(c) PROVE Inv'
<1> DEFINE o == IF properties = NoFields THEN overview[c]
                ELSE ApplyProperties(overview[c], properties)
<1>1. PropertiesOK' /\ PropertiesYoung' /\ StatusOK' /\ StatusYoung' /\ ChannelYoung'
  BY CachesStay DEF CachedProperties, Steps, world
<1>2. properties \in [Fields -> Value] /\ propertiesAge \in 0..TTL
  BY DEF Inv, TypeOK
<1>3. o \in [Fields -> Value]
      /\ \A f \in Radio : o[f] \in {overview[c][f], properties[f]}
  BY <1>2, ReaderHas, ApplyOK
<1>4. overview' = [overview EXCEPT ![c] = o]
  BY DEF CachedProperties
<1> HIDE DEF o
<1>5. late' \subseteq asked' /\ late \subseteq late'
  <2>1. c \in asked
    BY ReaderHas DEF CachedProperties
  <2>. QED BY <2>1, ReaderHas DEF CachedProperties
<1>6. c \notin late' => \A f \in Radio : Young(o[f], TTL)
  <2> SUFFICES ASSUME c \notin late', NEW f \in Radio PROVE Young(o[f], TTL)
    OBVIOUS
  <2>1. c \notin late /\ \A d \in Callers : pc[d] # "fetch"
    BY DEF CachedProperties
  <2>2. Young(properties[f], propertiesAge) /\ propertiesAge < TTL
    BY <2>1, RadioFields DEF Inv, Ages, PropertiesYoung, CachedProperties
  <2>3. Young(properties[f], TTL)
    BY <1>2, <2>2, Constants DEF Young, Inv, TypeOK
  <2>. QED BY <1>3, <2>1, <2>3, ReaderHas DEF CachedProperties
<1>. QED BY <1>1, <1>3, <1>4, <1>5, <1>6, ReaderHas, CallerStep
     DEF CachedProperties, Steps, PastProperties, propertiesCache, statusCache

LEMMA SameOverview ==
  ASSUME Inv, NEW c \in Callers, overview' = overview
  PROVE  overview' = [overview EXCEPT ![c] = overview[c]]
  BY DEF Inv, TypeOK

LEMMA AttemptPropertiesInv == ASSUME Inv, NEW c \in Callers, AttemptProperties(c) PROVE Inv'
<1>1. Goto(c, "fetch") /\ UNCHANGED world
  BY DEF AttemptProperties
<1>2. StatusOK' /\ StatusYoung' /\ ChannelYoung'
  BY <1>1, CachesStay DEF AttemptProperties, Steps, world
<1>3. PropertiesOK'
  BY Constants DEF AttemptProperties, Inv, TypeOK, PropertiesOK
<1>4. pc'[c] = "fetch"
  BY <1>1 DEF Goto, Inv, TypeOK
<1>5. PropertiesYoung'
  BY <1>4 DEF PropertiesYoung
<1>. QED BY <1>1, <1>2, <1>3, <1>5, ReaderHas, SameOverview, CallerStep
     DEF AttemptProperties, Steps, PastProperties, statusCache

LEMMA FetchPropertiesInv == ASSUME Inv, NEW c \in Callers, FetchProperties(c) PROVE Inv'
<1> DEFINE p == Reported(Fields \ {"agent"}, network)
           o == ApplyProperties(overview[c], p)
<1>1. Goto(c, "status") /\ UNCHANGED world /\ properties' = p /\ overview' = [overview EXCEPT ![c] = o]
  BY DEF FetchProperties
<1>2. StatusOK' /\ StatusYoung' /\ ChannelYoung'
  BY <1>1, CachesStay DEF FetchProperties, Steps, world
<1>3. p \in [Fields -> Value] /\ \A f \in Fields, t \in Nat : Young(p[f], t)
  <2>1. network \in Value /\ HereNow
    BY ReaderHas DEF Inv, Ages
  <2>. QED BY <2>1, ReportedOK, NetworkIsYoung, BlankIsYoung
<1>4. o \in [Fields -> Value] /\ \A f \in Radio : o[f] = p[f]
  BY <1>3, ReaderHas, ApplyOK
<1> HIDE DEF p, o
<1>5. propertiesAge' = propertiesAge /\ propertiesAge \in 0..TTL /\ propertiesAge \in Nat
  BY Constants DEF FetchProperties, Inv, TypeOK
<1>6. PropertiesOK'
  BY <1>1, <1>3, <1>5 DEF PropertiesOK
<1>7. PropertiesYoung'
  BY <1>1, <1>3, <1>5 DEF PropertiesYoung, Young, world
<1>8. \A f \in Radio : Young(o[f], TTL)
  BY <1>3, <1>4, RadioFields, Constants
<1>. QED BY <1>1, <1>2, <1>4, <1>5, <1>6, <1>7, <1>8, ReaderHas, CallerStep
     DEF FetchProperties, Steps, PastProperties, statusCache

LEMMA ForgetPropertiesInv == ASSUME Inv, NEW c \in Callers, ForgetProperties(c) PROVE Inv'
<1>1. Goto(c, "status") /\ UNCHANGED world /\ properties' = NoFields
  BY DEF ForgetProperties
<1>2. StatusOK' /\ StatusYoung' /\ ChannelYoung'
  BY <1>1, CachesStay DEF ForgetProperties, Steps, world
<1>3. propertiesAge' = propertiesAge /\ propertiesAge \in 0..TTL /\ propertiesAge \in Nat
  BY Constants DEF ForgetProperties, Inv, TypeOK
<1>4. PropertiesOK'
  BY <1>1, <1>3, NoFieldsOK DEF PropertiesOK
<1>5. PropertiesYoung'
  BY <1>1, <1>3, NoFieldsOK, Constants DEF PropertiesYoung, Young
<1>6. web \in MayFail
  BY DEF ForgetProperties, MayFail, Inv, TypeOK
<1>7. failures' \in 0..MaxFailures
  BY <1>6, FailingOK DEF ForgetProperties, Inv
<1>. QED BY <1>1, <1>2, <1>3, <1>4, <1>5, <1>7, ReaderHas, SameOverview, CallerStep
     DEF ForgetProperties, Steps, PastProperties, statusCache

LEMMA NoSocketInv == ASSUME Inv, NEW c \in Callers, NoSocket(c) PROVE Inv'
<1>1. PropertiesOK' /\ PropertiesYoung' /\ StatusOK' /\ StatusYoung' /\ ChannelYoung'
  BY CachesStay DEF NoSocket, Steps, world
<1>. QED BY <1>1, ReaderHas, SameOverview, CallerStep
     DEF NoSocket, Steps, PastProperties, propertiesCache, statusCache

LEMMA CachedStatusInv == ASSUME Inv, NEW c \in Callers, CachedStatus(c) PROVE Inv'
<1> DEFINE o == Fill(overview[c], status)
<1>1. PropertiesOK' /\ PropertiesYoung' /\ StatusOK' /\ StatusYoung' /\ ChannelYoung'
  BY CachesStay DEF CachedStatus, Steps, world
<1>2. status \in [Fields -> Value] /\ statusAge \in 0..TTL
  BY DEF Inv, TypeOK
<1>3. o \in [Fields -> Value] /\ \A f \in Fields : o[f] \in {overview[c][f], status[f]}
  BY <1>2, ReaderHas, FillOK
<1>4. overview' = [overview EXCEPT ![c] = o]
  BY DEF CachedStatus
<1> HIDE DEF o
<1>5. \A f \in Fields : Young(status[f], TTL)
  BY <1>2, Constants DEF CachedStatus, Inv, Ages, TypeOK, StatusYoung, Young
<1>6. c \notin late => \A f \in Radio : Young(o[f], TTL)
  BY <1>3, <1>5, RadioFields, ReaderHas DEF CachedStatus
<1>. QED BY <1>1, <1>3, <1>4, <1>6, ReaderHas, CallerStep
     DEF CachedStatus, Steps, PastProperties, propertiesCache, statusCache

LEMMA AskVersionInv == ASSUME Inv, NEW c \in Callers, AskVersion(c) PROVE Inv'
<1>1. PICK fails \in MayFail :
        /\ Failing(fails)
        /\ statusMu' = IF fails THEN None ELSE c
        /\ Goto(c, IF fails THEN "dataset" ELSE "channel")
  BY DEF AskVersion
<1> DEFINE step == IF fails THEN "dataset" ELSE "channel"
<1>2. Goto(c, step) /\ step \in PastProperties /\ step \in Steps \ {"fetch", "idle"}
      /\ (step \in {"channel", "panid"} <=> statusMu' = c)
  BY <1>1, Constants DEF Steps, PastProperties
<1>3. \A d \in Callers \ {c} : statusMu' = d <=> statusMu = d
  BY <1>1, Constants DEF AskVersion
<1>4. statusMu' \in Callers \cup {None}
  BY <1>1
<1>5. failures' \in 0..MaxFailures
  BY <1>1, FailingOK DEF Inv
<1> HIDE DEF step
<1>6. PropertiesOK' /\ PropertiesYoung'
  BY <1>2, CachesStay DEF AskVersion, world
<1>7. StatusOK' /\ StatusYoung' /\ ChannelYoung'
  BY <1>4 DEF AskVersion, world, Inv, TypeOK, Ages, StatusOK, StatusYoung, ChannelYoung, Young
<1>. QED BY <1>2, <1>3, <1>5, <1>6, <1>7, ReaderHas, SameOverview, CallerStep
     DEF AskVersion, propertiesCache

LEMMA AskChannelInv == ASSUME Inv, NEW c \in Callers, AskChannel(c) PROVE Inv'
<1>1. PICK fails \in MayFail : Failing(fails) /\ channel' = IF fails THEN Blank ELSE network
  BY DEF AskChannel
<1>2. PropertiesOK' /\ PropertiesYoung'
  BY CachesStay DEF AskChannel, Steps, world
<1>3. channel' \in {Blank, network} /\ statusMu = c
  BY <1>1 DEF AskChannel, Inv, TypeOK
<1>4. StatusOK'
  BY <1>3, ReaderHas DEF AskChannel, Inv, TypeOK, StatusOK
<1>5. StatusYoung'
  BY DEF AskChannel, world, Inv, Ages, StatusYoung, Young
<1>6. Young(Blank, 0) /\ Young(network, 0)
  BY BlankIsYoung, NetworkIsYoung DEF Inv, Ages
<1>7. ChannelYoung'
  BY <1>3, <1>6, Constants DEF AskChannel, world, ChannelYoung, Young
<1>8. failures' \in 0..MaxFailures
  BY <1>1, FailingOK DEF Inv
<1>. QED BY <1>2, <1>3, <1>4, <1>5, <1>7, <1>8, ReaderHas, SameOverview, CallerStep
     DEF AskChannel, Steps, PastProperties, propertiesCache

LEMMA AskPanidInv == ASSUME Inv, NEW c \in Callers, AskPanid(c) PROVE Inv'
<1>1. PICK fails \in MayFail :
        /\ Failing(fails)
        /\ status' = [NoFields EXCEPT !["channel"] = channel,
                                      !["panid"] = IF fails THEN Blank ELSE network]
  BY DEF AskPanid
<1> DEFINE o == Fill(overview[c], status')
<1>2. PropertiesOK' /\ PropertiesYoung'
  BY CachesStay DEF AskPanid, Steps, world
<1>3. status' \in [Fields -> Value] /\ \A f \in Fields : status'[f] \in {Blank, channel, network}
  BY <1>1, NoFieldsOK, ReaderHas DEF Inv, TypeOK
<1>4. \A f \in Fields, t \in Nat : Young(status'[f], t)
  <2>1. Young(channel, 0) /\ HereNow
    BY DEF Inv, Ages, ChannelYoung
  <2>2. \A t \in Nat : Young(channel, t)
    BY <2>1 DEF Young, Inv, TypeOK
  <2>. QED BY <1>3, <2>1, <2>2, BlankIsYoung, NetworkIsYoung
<1>5. StatusOK'
  BY <1>3, ReaderHas, Constants DEF AskPanid, StatusOK
<1>6. StatusYoung'
  BY <1>4, Constants DEF AskPanid, world, StatusYoung, Young
<1>7. ChannelYoung'
  BY BlankIsYoung, Constants DEF AskPanid, world, ChannelYoung, Young
<1>8. o \in [Fields -> Value] /\ \A f \in Fields : o[f] \in {overview[c][f], status'[f]}
  BY <1>3, ReaderHas, FillOK
<1>9. overview' = [overview EXCEPT ![c] = o]
  BY DEF AskPanid
<1> HIDE DEF o
<1>10. c \notin late => \A f \in Radio : Young(o[f], TTL)
  BY <1>4, <1>8, RadioFields, ReaderHas, Constants DEF AskPanid
<1>11. failures' \in 0..MaxFailures
  BY <1>1, FailingOK DEF Inv
<1>12. statusMu = c /\ statusMu' = None /\ statusMu' # c
  BY Constants DEF AskPanid, Inv, TypeOK
<1>13. \A d \in Callers \ {c} : statusMu' = d <=> statusMu = d
  BY <1>12, Constants
<1>. QED BY <1>2, <1>5, <1>6, <1>7, <1>8, <1>9, <1>10, <1>11, <1>12, <1>13, ReaderHas, CallerStep
     DEF AskPanid, Steps, PastProperties, propertiesCache

(* What is served: what the caller had, and the dataset's for the rest.    *)
LEMMA WhatIsServed ==
  ASSUME Inv, NEW c \in Callers, ReadDataset(c)
  PROVE  /\ served' \in [Fields -> Value]
         /\ \A f \in Fields : served'[f] \in {overview[c][f], network, Blank}
         /\ failures' \in 0..MaxFailures
<1>1. CASE Incomplete(overview[c])
  <2>1. PICK fails \in MayFail :
          /\ Failing(fails)
          /\ served' = Fill(overview[c], Reported(Radio, IF fails THEN Blank ELSE network))
    BY <1>1 DEF ReadDataset
  <2> DEFINE e == Reported(Radio, IF fails THEN Blank ELSE network)
  <2>2. e \in [Fields -> Value] /\ \A f \in Fields : e[f] \in {network, Blank}
    BY ReaderHas, ReportedOK
  <2>3. served' = Fill(overview[c], e)
    BY <2>1
  <2> HIDE DEF e
  <2>. QED BY <2>1, <2>2, <2>3, ReaderHas, FillOK, FailingOK DEF Inv
<1>2. CASE ~Incomplete(overview[c])
  BY <1>2, ReaderHas DEF ReadDataset
<1>. QED BY <1>1, <1>2

LEMMA ReadDatasetInv == ASSUME Inv, NEW c \in Callers, ReadDataset(c) PROVE Inv'
<1>1. PropertiesOK' /\ PropertiesYoung' /\ StatusOK' /\ StatusYoung' /\ ChannelYoung'
  BY CachesStay DEF ReadDataset, Steps, world
<1>. QED BY <1>1, WhatIsServed, NoFieldsOK, ReaderHas, CallerStep
     DEF ReadDataset, Steps, PastProperties, propertiesCache, statusCache

-----------------------------------------------------------------------------
(* The border router and time.                                             *)

(* Steps of the border router: no network gets older by them.              *)
LEMMA RouterStep ==
  ASSUME Inv, WorldOK', HereNow', failures' \in 0..MaxFailures,
         \A n \in Networks : gone'[n] <= gone[n],
         UNCHANGED <<propertiesCache, statusCache, callers, served>>
  PROVE  Inv'
<1>1. \A n \in Networks : gone[n] \in Nat /\ gone'[n] \in Nat
  BY Constants DEF Inv, TypeOK, WorldOK
<1>2. TypeOK' /\ AtWork'
  BY DEF Inv, TypeOK, WorldOK, AtWork, propertiesCache, statusCache, callers
<1>3. \A v, t : Young(v, t) /\ t \in Nat => Young(v, t)'
  BY <1>1 DEF Young
<1>4. OneAttempt' /\ ChannelYoung'
  BY <1>3 DEF Inv, Ages, OneAttempt, ChannelYoung, propertiesCache, statusCache, callers
<1>5. propertiesAge \in Nat /\ statusAge \in Nat
  BY Constants DEF Inv, TypeOK
<1>6. PropertiesYoung' /\ StatusYoung'
  BY <1>3, <1>5 DEF Inv, Ages, PropertiesYoung, StatusYoung, propertiesCache, statusCache, callers
<1>7. OverviewsYoung'
  BY <1>3, Constants DEF Inv, Ages, OverviewsYoung, callers
<1>. QED BY <1>2, <1>4, <1>6, <1>7 DEF Inv, Ages

LEMMA ChangeNetworkInv == ASSUME Inv, NEW n \in Networks, ChangeNetwork(n) PROVE Inv'
<1>1. WorldOK' /\ HereNow'
  BY Constants DEF ChangeNetwork, Inv, TypeOK, WorldOK, HereNow
<1>2. \A m \in Networks : gone'[m] <= gone[m]
  BY Constants DEF ChangeNetwork, Inv, TypeOK
<1>. QED BY <1>1, <1>2, RouterStep DEF ChangeNetwork, Inv, TypeOK

LEMMA CatchUpInv == ASSUME Inv, CatchUp PROVE Inv'
<1>1. WorldOK' /\ HereNow'
  BY DEF CatchUp, Inv, TypeOK, Ages, WorldOK, HereNow
<1>2. \A m \in Networks : gone'[m] <= gone[m]
  BY Constants DEF CatchUp, Inv, TypeOK
<1>. QED BY <1>1, <1>2, RouterStep DEF CatchUp, Inv, TypeOK

LEMMA StopWebInv == ASSUME Inv, StopWeb PROVE Inv'
<1>1. WorldOK' /\ HereNow'
  BY DEF StopWeb, Inv, TypeOK, Ages, WorldOK, HereNow
<1>2. \A m \in Networks : gone'[m] <= gone[m]
  BY Constants DEF StopWeb, Inv, TypeOK
<1>3. failures' \in 0..MaxFailures
  BY Constants DEF StopWeb, Inv, TypeOK
<1>. QED BY <1>1, <1>2, <1>3, RouterStep DEF StopWeb

(* A tick: no caller is at work, so only the caches may hold something,    *)
(* and they get older as fast as it does.                                  *)
LEMMA TickInv == ASSUME Inv, Tick PROVE Inv'
<1>1. \A n \in Networks : /\ gone[n] \in 0..(TTL + 1) /\ gone'[n] \in 0..(TTL + 1)
                           /\ gone'[n] <= gone[n] + 1 /\ (n = network => gone'[n] = 0)
  BY Constants DEF Tick, Inv, TypeOK
<1>2. gone' \in [Networks -> 0..(TTL + 1)]
  BY <1>1 DEF Tick
<1>3. propertiesAge' \in 0..TTL /\ statusAge' \in 0..TTL
  BY Constants DEF Tick, Inv, TypeOK
<1>4. late = {}
  BY DEF Tick, Inv, TypeOK, AtWork, PastProperties
<1>5. TypeOK'
  BY <1>2, <1>3, <1>4 DEF Tick, Inv, TypeOK
<1>6. AtWork' /\ HereNow' /\ OneAttempt' /\ OverviewsYoung'
  BY <1>1, <1>4 DEF Tick, Inv, TypeOK, AtWork, HereNow, OneAttempt, OverviewsYoung
<1>7. \A v \in Value, t \in Nat : Young(v, t) => Young(v, t + 1)'
  BY <1>1, Constants DEF Young
<1>8. PropertiesYoung'
  <2> SUFFICES ASSUME propertiesAge' < TTL, NEW f \in Fields
               PROVE  Young(properties[f], propertiesAge)'
    BY DEF PropertiesYoung
  <2>1. propertiesAge < TTL /\ propertiesAge' = propertiesAge + 1 /\ propertiesAge \in Nat
    BY Constants DEF Tick, Inv, TypeOK
  <2>2. Young(properties[f], propertiesAge) /\ properties[f] \in Value /\ properties' = properties
    BY <2>1 DEF Tick, Inv, Ages, TypeOK, PropertiesYoung
  <2>. QED BY <2>1, <2>2, <1>7 DEF Young
<1>9. StatusYoung'
  <2> SUFFICES ASSUME statusAge' < TTL, NEW f \in Fields
               PROVE  Young(status[f], statusAge)'
    BY DEF StatusYoung
  <2>1. statusAge < TTL /\ statusAge' = statusAge + 1 /\ statusAge \in Nat
    BY Constants DEF Tick, Inv, TypeOK
  <2>2. Young(status[f], statusAge) /\ status[f] \in Value /\ status' = status
    BY <2>1 DEF Tick, Inv, Ages, TypeOK, StatusYoung
  <2>. QED BY <2>1, <2>2, <1>7 DEF Young
<1>10. ChannelYoung'
  <2>1. statusMu = None
    BY DEF Tick, Inv, TypeOK
  <2>. QED BY <2>1, Constants DEF Tick, Inv, Ages, ChannelYoung, Young
<1>. QED BY <1>5, <1>6, <1>8, <1>9, <1>10 DEF Inv, Ages

-----------------------------------------------------------------------------
LEMMA NextInv == Inv /\ [Next]_vars => Inv'
<1> SUFFICES ASSUME Inv, [Next]_vars PROVE Inv'
  OBVIOUS
<1>1. ASSUME NEW c \in Callers, Overview(c) PROVE Inv'
  BY <1>1, ReadApiNodeInv, ReadNodeInv, CachedPropertiesInv, AttemptPropertiesInv,
     FetchPropertiesInv, ForgetPropertiesInv, NoSocketInv, CachedStatusInv, AskVersionInv,
     AskChannelInv, AskPanidInv, ReadDatasetInv DEF Overview
<1>2. CASE UNCHANGED vars
  <2>1. TypeOK'
    BY <1>2 DEF Inv, TypeOK, vars, world, propertiesCache, statusCache, callers
  <2>2. AtWork' /\ HereNow' /\ OneAttempt' /\ StatusYoung' /\ ChannelYoung'
    BY <1>2 DEF Inv, Ages, AtWork, HereNow, OneAttempt, StatusYoung, ChannelYoung, Young,
                vars, world, propertiesCache, statusCache, callers
  <2>3. PropertiesYoung' /\ OverviewsYoung'
    BY <1>2 DEF Inv, Ages, PropertiesYoung, OverviewsYoung, Young,
                vars, world, propertiesCache, callers
  <2>. QED BY <2>1, <2>2, <2>3 DEF Inv, Ages
<1>. QED BY <1>1, <1>2, AskInv, ChangeNetworkInv, CatchUpInv, StopWebInv, TickInv DEF Next

LEMMA InvHolds == Spec => []Inv
<1>. QED BY InitInv, NextInv, PTL DEF Spec

(* The types of what overviews are put together from hold in every         *)
(* reachable state, and the lock of the status cache is held exactly while *)
(* its holder runs commands (client.go:274-326, otctl/status.go).          *)
THEOREM TypeCorrect == Spec => []TypeOK
<1>1. Inv => TypeOK
  BY DEF Inv
<1>. QED BY <1>1, InvHolds, PTL

LEMMA DoneReads == ASSUME Inv, Next, NEW c \in Callers, Done(c) PROVE ReadDataset(c)
<1>1. pc[c] = "dataset" /\ pc'[c] = "idle"
  BY DEF Done
<1>2. PICK d \in Callers : Ask(d) \/ Overview(d)
  BY <1>1 DEF Next, ChangeNetwork, CatchUp, StopWeb, Tick, callers
<1>3. \E step : Goto(d, step)
  BY <1>2 DEF Overview, Ask, ReadApiNode, ReadNode, CachedProperties, AttemptProperties,
     FetchProperties, ForgetProperties, NoSocket, CachedStatus, AskVersion, AskChannel, AskPanid,
     ReadDataset
<1>4. d = c
  BY <1>1, <1>3 DEF Goto, Inv, TypeOK
<1>. QED BY <1>1, <1>2, <1>4 DEF Overview, Ask, ReadApiNode, ReadNode, CachedProperties,
     AttemptProperties, FetchProperties, ForgetProperties, NoSocket, CachedStatus, AskVersion,
     AskChannel, AskPanid

(* What an overview says of the radio was true less than the caches' time  *)
(* ago, for any number of callers and whatever fails, unless it took the   *)
(* properties while another caller fetched them (client.go:300-326).       *)
THEOREM FieldsAreYoung == Spec => OldOnlyWhileFetched
<1>1. ASSUME Inv, [Next]_vars
      PROVE  [\A c \in Callers : Done(c) /\ c \notin late =>
                \A f \in Radio :
                  served'[f] \in Networks => gone[served'[f]] <= TTL]_vars
  <2> SUFFICES ASSUME Next, NEW c \in Callers, Done(c), c \notin late,
                      NEW f \in Radio, served'[f] \in Networks
               PROVE  gone[served'[f]] <= TTL
    BY <1>1
  <2>1. ReadDataset(c)
    BY <1>1, DoneReads
  <2>2. served'[f] \in {overview[c][f], network, Blank}
    BY <1>1, <2>1, RadioFields, WhatIsServed
  <2>3. Young(overview[c][f], TTL)
    BY <1>1, ReaderHas DEF Done
  <2>4. Young(network, TTL) /\ Young(Blank, TTL)
    BY <1>1, BlankIsYoung, NetworkIsYoung, Constants DEF Inv, Ages
  <2>. QED BY <2>2, <2>3, <2>4 DEF Young
<1>. QED BY <1>1, InvHolds, PTL DEF Spec, OldOnlyWhileFetched
=============================================================================
