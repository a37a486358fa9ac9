--------------------------- MODULE OverviewSources ---------------------------
(***************************************************************************)
(* How an overview is put together (Overview in internal/otbr/client.go,   *)
(* Status in internal/otctl/status.go): from two representations of the    *)
(* node, the properties of otbr-web, the commands of the daemon socket and *)
(* the active dataset, each read at its own time, the second and the third *)
(* kept for a minute.  The poll, the refresh after a network change and    *)
(* the energy scan do this at the same time, while the border router moves *)
(* from one network to another.                                            *)
(*                                                                         *)
(* Every field is represented by the network it was true of, or by Blank.  *)
(***************************************************************************)
EXTENDS Integers, FiniteSets

CONSTANTS
  Callers,      \* those who ask for an overview
  Networks,     \* the networks the border router may be on
  Blank,        \* a field without a value
  None,         \* no caller
  TTL,          \* how long properties and status are kept
  MaxChanges,   \* bound on the changes of network
  MaxFailures   \* bound on the reads that fail

ASSUME SourcesAssumption ==
  /\ Networks # {} /\ Blank \notin Networks
  /\ None \notin Callers
  /\ TTL \in Nat \ {0}
  /\ MaxChanges \in Nat /\ MaxFailures \in Nat

(* "prefix" stands for what the socket does not tell, "name" for what both *)
(* representations of the node do.  Only /api/node tells the state of the  *)
(* border agent, and it or otbr-web the OMR address.                       *)
Radio == {"channel", "panid", "prefix"}
ApiNode == {"name", "omr", "agent"}
Fields == Radio \cup ApiNode
Value == Networks \cup {Blank}
Reported(fields, value) == [f \in Fields |-> IF f \in fields THEN value ELSE Blank]
NoFields == [f \in Fields |-> Blank]
Steps == {"idle", "api", "node", "properties", "fetch", "status", "channel",
          "panid", "dataset"}

VARIABLES
  network,        \* the network the border router is on
  gone,           \* gone[n]: how long ago n was left, up to TTL + 1
  changes, failures,
  apiServes,      \* the network that /api/node tells of
  web, socket,    \* whether otbr-web and the socket are there
  properties, propertiesAge,  \* what was got, and the time since the last
                              \* attempt; an attempt that failed leaves Blanks
  status, statusAge,          \* what the commands said, and how long ago
  statusMu,       \* who holds the lock of the status cache
  pc, overview,   \* the step of each caller, and what it has so far
  channel,        \* what the holder of the lock was told about the channel
  asked,          \* those who asked since the last tick
  late,           \* history: who took properties while others fetched them
  served          \* the last overview that was put together

world == <<network, gone, changes, apiServes, web, socket>>
propertiesCache == <<properties, propertiesAge>>
statusCache == <<status, statusAge, statusMu, channel>>
callers == <<pc, overview, late, asked>>
vars == <<world, failures, propertiesCache, statusCache, callers, served>>

TypeOK ==
  /\ network \in Networks /\ apiServes \in Networks
  /\ gone \in [Networks -> 0..(TTL + 1)]
  /\ changes \in 0..MaxChanges /\ failures \in 0..MaxFailures
  /\ web \in BOOLEAN /\ socket \in BOOLEAN
  /\ properties \in [Fields -> Value] /\ status \in [Fields -> Value]
  /\ channel \in Value
  /\ propertiesAge \in 0..TTL /\ statusAge \in 0..TTL
  /\ statusMu \in Callers \cup {None}
  /\ pc \in [Callers -> Steps]
  /\ overview \in [Callers -> [Fields -> Value]] /\ served \in [Fields -> Value]
  /\ late \subseteq asked /\ asked \subseteq Callers
  /\ \A c \in Callers : pc[c] \in {"channel", "panid"} <=> statusMu = c

Init ==
  /\ network \in Networks /\ apiServes = network
  /\ gone = [n \in Networks |-> IF n = network THEN 0 ELSE TTL + 1]
  /\ changes = 0 /\ failures = 0
  /\ web \in BOOLEAN /\ socket \in BOOLEAN
  /\ properties = NoFields /\ propertiesAge = TTL
  /\ status = NoFields /\ statusAge = TTL
  /\ statusMu = None /\ channel = Blank
  /\ pc = [c \in Callers |-> "idle"]
  /\ overview = [c \in Callers |-> NoFields]
  /\ late = {} /\ asked = {} /\ served = NoFields

-----------------------------------------------------------------------------
(* The border router and time, external to the program.                    *)

ChangeNetwork(n) ==
  /\ changes < MaxChanges /\ n # network
  /\ changes' = changes + 1
  /\ network' = n
  /\ gone' = [gone EXCEPT ![n] = 0]
  /\ UNCHANGED <<failures, apiServes, web, socket, propertiesCache, statusCache,
                 callers, served>>

(* Some firmware goes on serving the old node for any length of time.      *)
CatchUp ==
  /\ apiServes # network
  /\ apiServes' = network
  /\ UNCHANGED <<network, gone, changes, failures, web, socket, propertiesCache,
                 statusCache, callers, served>>

StopWeb ==
  /\ web /\ failures < MaxFailures
  /\ failures' = failures + 1
  /\ web' = FALSE
  /\ UNCHANGED <<network, gone, changes, apiServes, socket, propertiesCache,
                 statusCache, callers, served>>

(* Some thirty seconds pass.  Bound: an overview takes less, and each      *)
(* caller asks for one at most in between.                                 *)
Tick ==
  /\ \A c \in Callers : pc[c] = "idle"
  /\ gone' = [n \in Networks |-> IF n = network THEN 0
                                 ELSE IF gone[n] <= TTL THEN gone[n] + 1 ELSE gone[n]]
  /\ propertiesAge' = IF propertiesAge < TTL THEN propertiesAge + 1 ELSE TTL
  /\ asked' = {}
  /\ statusAge' = IF statusAge < TTL THEN statusAge + 1 ELSE TTL
  /\ UNCHANGED <<network, changes, failures, apiServes, web, socket, properties,
                 status, statusMu, channel, pc, overview, late, served>>

-----------------------------------------------------------------------------
(* How the sources are put together.                                       *)

(* Defect: /api/node is believed as long as it says anything.              *)
StaleNode(api, node) == IF api # Blank THEN api ELSE node

(* mergeFreshNode: /node is never old.                                     *)
FreshNode(api, node) == IF node # Blank THEN node ELSE api

(* applyStatusProperties: they replace what there is, but for a name; they *)
(* tell nothing of the border agent.                                       *)
ApplyProperties(o, p) ==
  [f \in Fields |-> IF \/ f = "name" /\ o[f] # Blank
                       \/ f = "omr" /\ p[f] = Blank
                       \/ f = "agent"
                    THEN o[f] ELSE p[f]]

(* mergeStatus, applyDatasetFallback: blanks are filled.                   *)
Fill(o, extra) == [f \in Fields |-> IF o[f] = Blank THEN extra[f] ELSE o[f]]

-----------------------------------------------------------------------------
(* Overview, read by read.  A read fails when the source does, when it     *)
(* takes too long, or when the caller has gone.                            *)

MayFail == IF failures < MaxFailures THEN {FALSE, TRUE} ELSE {FALSE}
Failing(fails) == failures' = failures + IF fails THEN 1 ELSE 0

Goto(c, step) == pc' = [pc EXCEPT ![c] = step]

Ask(c) ==
  /\ pc[c] = "idle" /\ c \notin asked
  /\ asked' = asked \cup {c}
  /\ Goto(c, "api")
  /\ overview' = [overview EXCEPT ![c] = NoFields]
  /\ UNCHANGED <<world, failures, propertiesCache, statusCache, late, served>>

ReadApiNode(c) ==
  /\ pc[c] = "api"
  /\ \E fails \in MayFail :
       /\ Failing(fails)
       /\ overview' = [overview EXCEPT ![c] =
            Reported(ApiNode, IF fails THEN Blank ELSE apiServes)]
  /\ Goto(c, "node")
  /\ UNCHANGED <<world, propertiesCache, statusCache, late, asked, served>>

(* /node is laid over the name and leaves out the rest; without either     *)
(* there is no overview.                                                   *)
ReadNode(c) ==
  /\ pc[c] = "node"
  /\ \E fails \in MayFail :
       LET name == FreshNode(overview[c]["name"], IF fails THEN Blank ELSE network)
       IN  /\ Failing(fails)
           /\ Goto(c, IF name = Blank THEN "idle" ELSE "properties")
           /\ overview' = [overview EXCEPT ![c] =
                IF name = Blank THEN NoFields ELSE [@ EXCEPT !["name"] = name]]
  /\ UNCHANGED <<world, propertiesCache, statusCache, late, asked, served>>

(* optionalStatusProperties: at most one attempt a minute.                 *)
CachedProperties(c) ==
  /\ pc[c] = "properties" /\ propertiesAge < TTL
  /\ overview' = [overview EXCEPT ![c] =
       IF properties = NoFields THEN @ ELSE ApplyProperties(@, properties)]
  /\ late' = IF \E d \in Callers : pc[d] = "fetch" THEN late \cup {c} ELSE late
  /\ Goto(c, "status")
  /\ UNCHANGED <<world, failures, propertiesCache, statusCache, asked, served>>

AttemptProperties(c) ==
  /\ pc[c] = "properties" /\ propertiesAge = TTL
  /\ propertiesAge' = 0
  /\ Goto(c, "fetch")
  /\ UNCHANGED <<world, failures, properties, statusCache, overview, late, asked, served>>

FetchProperties(c) ==
  /\ pc[c] = "fetch" /\ web
  /\ properties' = Reported(Fields \ {"agent"}, network)
  /\ overview' = [overview EXCEPT ![c] = ApplyProperties(@, properties')]
  /\ Goto(c, "status")
  /\ UNCHANGED <<world, failures, propertiesAge, statusCache, late, asked, served>>

(* Defect: the last good properties are kept.                              *)
KeepProperties(c) ==
  /\ pc[c] = "fetch" /\ (~web \/ failures < MaxFailures)
  /\ Failing(web)
  /\ Goto(c, "status")
  /\ overview' = [overview EXCEPT ![c] =
       IF properties = NoFields THEN @ ELSE ApplyProperties(@, properties)]
  /\ UNCHANGED <<world, propertiesCache, statusCache, late, asked, served>>

ForgetProperties(c) ==
  /\ pc[c] = "fetch" /\ (~web \/ failures < MaxFailures)
  /\ Failing(web)
  /\ properties' = NoFields
  /\ Goto(c, "status")
  /\ UNCHANGED <<world, propertiesAge, statusCache, overview, late, asked, served>>

NoSocket(c) ==
  /\ pc[c] = "status" /\ ~socket
  /\ Goto(c, "dataset")
  /\ UNCHANGED <<world, failures, propertiesCache, statusCache, overview, late, asked, served>>

(* Status: the cache is locked while the commands run.                     *)
CachedStatus(c) ==
  /\ pc[c] = "status" /\ socket /\ statusMu = None
  /\ statusAge < TTL
  /\ overview' = [overview EXCEPT ![c] = Fill(@, status)]
  /\ Goto(c, "dataset")
  /\ UNCHANGED <<world, failures, propertiesCache, statusCache, late, asked, served>>

(* Defect: the lock is given up before the commands are run.               *)
AskVersionUnlocked(c) ==
  /\ pc[c] = "status" /\ socket /\ statusMu = None /\ statusAge = TTL
  /\ \E fails \in MayFail :
       /\ Failing(fails)
       /\ Goto(c, IF fails THEN "dataset" ELSE "channel")
  /\ UNCHANGED <<world, propertiesCache, statusCache, overview, late, asked, served>>

(* Without a version there is no status, and nothing is kept.              *)
AskVersion(c) ==
  /\ pc[c] = "status" /\ socket /\ statusMu = None /\ statusAge = TTL
  /\ \E fails \in MayFail :
       /\ Failing(fails)
       /\ statusMu' = IF fails THEN None ELSE c
       /\ Goto(c, IF fails THEN "dataset" ELSE "channel")
  /\ UNCHANGED <<world, propertiesCache, status, statusAge, channel, overview, late,
                 asked, served>>

(* Any other command that fails leaves a blank.                            *)
AskChannel(c) ==
  /\ pc[c] = "channel"
  /\ \E fails \in MayFail :
       /\ Failing(fails)
       /\ channel' = IF fails THEN Blank ELSE network
  /\ Goto(c, "panid")
  /\ UNCHANGED <<world, propertiesCache, status, statusAge, statusMu, overview, late,
                 asked, served>>

AskPanid(c) ==
  /\ pc[c] = "panid"
  /\ \E fails \in MayFail :
       /\ Failing(fails)
       /\ status' = [NoFields EXCEPT !["channel"] = channel,
                                     !["panid"] = IF fails THEN Blank ELSE network]
  /\ statusAge' = 0 /\ statusMu' = None /\ channel' = Blank
  /\ overview' = [overview EXCEPT ![c] = Fill(@, status')]
  /\ Goto(c, "dataset")
  /\ UNCHANGED <<world, propertiesCache, late, asked, served>>

Incomplete(o) == \E f \in Radio : o[f] = Blank

(* applyDatasetFallback, and the overview is there.                        *)
ReadDataset(c) ==
  /\ pc[c] = "dataset"
  /\ IF Incomplete(overview[c])
     THEN \E fails \in MayFail :
            /\ Failing(fails)
            /\ served' = Fill(overview[c], Reported(Radio, IF fails THEN Blank ELSE network))
     ELSE served' = overview[c] /\ UNCHANGED failures
  /\ overview' = [overview EXCEPT ![c] = NoFields]
  /\ late' = late \ {c}
  /\ Goto(c, "idle")
  /\ UNCHANGED <<world, propertiesCache, statusCache, asked>>

-----------------------------------------------------------------------------
Overview(c) ==
  \/ ReadApiNode(c)
  \/ ReadNode(c)
  \/ CachedProperties(c)
  \/ AttemptProperties(c)
  \/ FetchProperties(c)
  \/ ForgetProperties(c)
  \/ NoSocket(c)
  \/ CachedStatus(c)
  \/ AskVersion(c)
  \/ AskChannel(c)
  \/ AskPanid(c)
  \/ ReadDataset(c)

Next ==
  \/ \E n \in Networks : ChangeNetwork(n)
  \/ CatchUp
  \/ StopWeb
  \/ Tick
  \/ \E c \in Callers : Ask(c) \/ Overview(c)

Spec == Init /\ [][Next]_vars

(* An overview that was begun is finished, time passes, and the poll asks  *)
(* again and again; the other callers need not.                            *)
FairSpec ==
  /\ Spec
  /\ WF_vars(Tick)
  /\ \A c \in Callers : WF_vars(Overview(c))
  /\ \E c \in Callers : SF_vars(Ask(c))

-----------------------------------------------------------------------------
(* Properties.                                                             *)

Done(c) == pc[c] = "dataset" /\ pc'[c] = "idle"

(* What an overview says of the radio was true less than a minute before,  *)
(* however its sources failed: otbr-web that has stopped is forgotten      *)
(* (client.go:316-326), and so is old status.  The one exception is an     *)
(* overview that took the properties while another caller fetched them,    *)
(* which may be as old as the last attempt (client.go:306-313).            *)
OldOnlyWhileFetched ==
  [][\A c \in Callers : Done(c) /\ c \notin late =>
       \A f \in Radio :
         served'[f] \in Networks => gone[served'[f]] <= TTL]_vars

(* When the border router stays on a network and nothing fails any more    *)
(* (both are bounded), the overviews come to tell of that network, name    *)
(* and radio, though /api/node may never do; only what /api/node alone     *)
(* tells of may stay as old as it is (client.go:241-245, 682-735).         *)
OverviewCatchesUp ==
  <>[](/\ \A f \in Radio \cup {"name"} : served[f] = network
       /\ served["omr"] = IF web THEN network ELSE apiServes
       /\ served["agent"] = apiServes)
=============================================================================
