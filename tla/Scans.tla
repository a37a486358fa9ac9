------------------------------- MODULE Scans --------------------------------
(***************************************************************************)
(* The scans on demand: the networks nearby, and the noise of the          *)
(* channels.  Both run commands on the daemon socket, one at a time for    *)
(* the whole process (internal/otctl/client.go, scan.go, energy.go), and   *)
(* fall back to the web service or to an action of the REST API            *)
(* (internal/otbr/client.go, energy.go).  Requests run concurrently, may   *)
(* be cancelled, and the socket may go away under them.                    *)
(***************************************************************************)
EXTENDS ChannelNoise

CONSTANTS
  NetworkRequests, EnergyRequests,  \* the requests, each made once
  Nobody,     \* the owner of the socket when no command runs
  Networks,   \* the networks nearby
  ChannelOf,  \* the channel of each
  Channels,   \* the number of channels, of which there are 1..Channels
  InUse,      \* the channels the network may use
  Passes,     \* networkScanPasses
  Readings,   \* the readings a sweep may bring
  MaxSweeps,  \* energyScanMaxSweeps
  RestSweeps, \* energyScanRESTSweeps
  MaxOutages, \* bound on the changes of the socket
  MaxFaults   \* bound on the commands and requests that fail

Requests == NetworkRequests \cup EnergyRequests

ASSUME ScansAssumption ==
  /\ NetworkRequests \cap EnergyRequests = {}
  /\ Nobody \notin Requests
  /\ Channels \in Nat \ {0} /\ InUse \subseteq 1..Channels
  /\ IsFiniteSet(Networks) /\ ChannelOf \in [Networks -> 1..Channels]
  /\ \A reading \in Readings :
       /\ reading = [c \in DOMAIN reading |-> reading[c]]
       /\ IsFiniteSet(DOMAIN reading) /\ DOMAIN reading \subseteq Int
       /\ \A c \in DOMAIN reading : reading[c] \in Int
  /\ Passes \in Nat \ {0} /\ MaxSweeps \in Nat \ {0} /\ RestSweeps \in Nat \ {0}
  /\ MaxOutages \in Nat /\ MaxFaults \in Nat

Commands == {"channel", "whole", "scan", "energy"}  \* on the socket
Actions == {"post", "poll", "report"}               \* of the REST API
Pauses == {"channelPause", "passPause", "energyPause"}

VARIABLES
  firmware,   \* the commands the daemon knows
  socket,     \* "up", "denied" (it cannot be opened) or "gone"
  outages, faults,
  mutex,      \* the request whose command runs
  pc,         \* the step of each request
  cancelled,  \* the client has gone, or the deadline has passed
  channel,    \* the channel of the pass
  pass,       \* the networks found by the pass
  merged,     \* the networks found by the passes before it
  done,       \* the passes done
  samples,    \* the readings of the sweeps done
  current,    \* of the overview: the channel in use, 0 when it is not known,
              \* and whether the border router's own address is known
  late,       \* whether the scan has run its time, or the action was given up
  answer,     \* the answer of each request
  told        \* history: the networks the daemon has told of, per request

scan == <<channel, pass, merged, done, samples, current, late>>
world == <<firmware, socket, outages>>
vars == <<world, faults, mutex, pc, cancelled, scan, answer, told>>

NoAnswer == [status |-> "none", source |-> "none", items |-> << >>, passes |-> 0,
             noise |-> << >>, current |-> 0]
Answer(status, source) == [NoAnswer EXCEPT !.status = status, !.source = source]

Keys == [network : Networks, named : BOOLEAN]
Overviews == [channel : 0..Channels, addressed : BOOLEAN]
NoOverview == [channel |-> 0, addressed |-> FALSE]

TypeOK ==
  /\ firmware \subseteq Commands /\ socket \in {"up", "denied", "gone"}
  /\ outages \in 0..MaxOutages /\ faults \in 0..MaxFaults
  /\ mutex \in Requests \cup {Nobody}
  /\ pc \in [Requests -> {"new", "done", "web", "overview"} \cup Commands \cup Actions \cup Pauses]
  /\ cancelled \in [Requests -> BOOLEAN]
  /\ channel \in [Requests -> 1..Channels]
  /\ pass \in [Requests -> Seq(Keys)] /\ merged \in [Requests -> Seq(Keys)]
  /\ done \in [Requests -> 0..Passes]
  /\ samples \in [Requests -> Seq(Readings)]
  /\ current \in [Requests -> Overviews]
  /\ late \in [Requests -> BOOLEAN]
  /\ told \in [Requests -> SUBSET Keys]
  /\ \A r \in Requests :
       answer[r].status \in {"none", "available", "unavailable", "unsupported", "error"}
  /\ mutex # Nobody => pc[mutex] \in Commands

(* Old firmware knows no "discover", or none of the commands; a socket     *)
(* that cannot be opened is one that was up before.                        *)
Init ==
  /\ firmware \in {Commands, {"scan", "energy"}, {}}
  /\ socket \in {"up", "gone"} /\ outages = 0 /\ faults = 0
  /\ mutex = Nobody
  /\ pc = [r \in Requests |-> "new"]
  /\ cancelled = [r \in Requests |-> FALSE]
  /\ channel = [r \in Requests |-> 1]
  /\ pass = [r \in Requests |-> << >>] /\ merged = [r \in Requests |-> << >>]
  /\ done = [r \in Requests |-> 0]
  /\ samples = [r \in Requests |-> << >>]
  /\ current = [r \in Requests |-> NoOverview]
  /\ late = [r \in Requests |-> FALSE]
  /\ answer = [r \in Requests |-> NoAnswer]
  /\ told = [r \in Requests |-> {}]

-----------------------------------------------------------------------------
(* Merging what is found.                                                  *)

(* Defect: only what the pass found itself is known.                       *)
AppendUnlessLast(found, items) ==
  found \o SelectSeq(items, LAMBDA n : found = << >> \/ n # Last(found))

(* What is known already is not listed again, whatever brought it.  The    *)
(* order is not told apart: what is answered is sorted.                    *)
AppendNew(found, items) == found \o SetToSeq(ToSet(items) \ ToSet(found))

(* A table repeats a network that answered more than one beacon request;   *)
(* "discover" names the networks, "scan" does not.                         *)
Table(heard, named) ==
  LET rows == SetToSeq({[network |-> n, named |-> named] : n \in heard})
  IN  rows \o rows
Replies(r) ==
  LET heard == IF pc[r] = "channel"
               THEN SUBSET {n \in Networks : ChannelOf[n] = channel[r]}
               ELSE SUBSET Networks
  IN  {Table(h, pc[r] # "scan") : h \in heard}

(* Every step that ends a request.                                         *)
Finish(r, a) ==
  /\ pc' = [pc EXCEPT ![r] = "done"]
  /\ answer' = [answer EXCEPT ![r] = a]

(* The scan of one pass has failed: the first failure of all is answered,  *)
(* or has the web service tried when the socket could not be used; a later *)
(* one ends the scan with what there is.                                   *)
Found(items, passes) ==
  [Answer("available", "daemon") EXCEPT !.items = items, !.passes = passes]

(* Defect: any failure has the web service tried.                          *)
AlwaysTryWeb(r, unusable) ==
  \/ done[r] > 0 /\ Finish(r, Found(merged[r], done[r]))
  \/ done[r] = 0 /\ pc' = [pc EXCEPT ![r] = "web"] /\ UNCHANGED answer

PassFailed(r, unusable) ==
  \/ done[r] > 0 /\ Finish(r, Found(merged[r], done[r]))
  \/ done[r] = 0 /\ unusable /\ pc' = [pc EXCEPT ![r] = "web"] /\ UNCHANGED answer
  \/ done[r] = 0 /\ ~unusable /\ Finish(r, Answer("unavailable", "daemon"))

(* A pass is over: pass' is what it found.                                 *)
PassDone(r, found) ==
  /\ merged' = [merged EXCEPT ![r] = AppendNew(merged[r], found)]
  /\ done' = [done EXCEPT ![r] = @ + 1]
  /\ pass' = [pass EXCEPT ![r] = << >>]
  /\ channel' = [channel EXCEPT ![r] = 1]
  /\ IF done'[r] = Passes THEN Finish(r, Found(merged'[r], done'[r]))
     ELSE pc' = [pc EXCEPT ![r] = "passPause"] /\ UNCHANGED answer

(* discoverPerChannel goes on, after a pause unless the channel failed.    *)
NextChannel(r, found, pause) ==
  IF channel[r] = Channels THEN PassDone(r, found)
  ELSE /\ pass' = [pass EXCEPT ![r] = found]
       /\ channel' = [channel EXCEPT ![r] = @ + 1]
       /\ pc' = [pc EXCEPT ![r] = IF pause THEN "channelPause" ELSE "channel"]
       /\ UNCHANGED <<merged, done, answer>>

(* repeatSweeps has ended: what was measured is the answer.                *)
Measured(r, source) ==
  Finish(r, [Answer("available", source) EXCEPT
               !.noise = Combine(samples'[r]), !.current = current[r].channel,
               !.passes = Len(samples'[r])])

-----------------------------------------------------------------------------
(* Requests.                                                               *)

(* ScanNetworks: a socket that is not there is not tried.                  *)
StartNetworks(r) ==
  /\ pc[r] = "new" /\ r \in NetworkRequests
  /\ pc' = [pc EXCEPT ![r] = IF socket = "gone" THEN "web" ELSE "channel"]
  /\ UNCHANGED <<world, faults, mutex, cancelled, scan, answer, told>>

StartEnergy(r) ==
  /\ pc[r] = "new" /\ r \in EnergyRequests
  /\ pc' = [pc EXCEPT ![r] = "overview"]
  /\ UNCHANGED <<world, faults, mutex, cancelled, scan, answer, told>>

(* EnergyScan reads the overview, or cannot: the channel in use, which may *)
(* be blank, and the address that the REST action is sent to, without      *)
(* which that fallback is not tried.                                       *)
ReadOverview(r) ==
  /\ pc[r] = "overview"
  /\ \E overview \in {NoOverview} \cup
          (IF cancelled[r] THEN {}
           ELSE [channel : {0} \cup InUse, addressed : BOOLEAN]) :
       current' = [current EXCEPT ![r] = overview]
  /\ late' = [late EXCEPT ![r] = FALSE]
  /\ \/ /\ socket # "gone"
        /\ pc' = [pc EXCEPT ![r] = "energy"] /\ UNCHANGED answer
     \/ /\ socket = "gone" /\ current'[r].addressed
        /\ pc' = [pc EXCEPT ![r] = "post"] /\ UNCHANGED answer
     \/ /\ socket = "gone" /\ ~current'[r].addressed
        /\ Finish(r, Answer("unavailable", "rest"))
  /\ UNCHANGED <<world, faults, mutex, cancelled, channel, pass, merged, done,
                 samples, told>>

Cancel(r) ==
  /\ pc[r] \notin {"new", "done"} /\ ~cancelled[r]
  /\ cancelled' = [cancelled EXCEPT ![r] = TRUE]
  /\ UNCHANGED <<world, faults, mutex, pc, scan, answer, told>>

(* The time of an energy scan is up, or that of its action.  The former is *)
(* noticed only when a sweep is done.                                      *)
TimePasses(r) ==
  /\ (pc[r] = "energy" /\ mutex = r) \/ pc[r] = "poll"
  /\ ~late[r]
  /\ late' = [late EXCEPT ![r] = TRUE]
  /\ UNCHANGED <<world, faults, mutex, pc, cancelled, channel, pass, merged, done,
                 samples, current, answer, told>>

-----------------------------------------------------------------------------
(* Commands.                                                               *)

(* Defect: a sweep that fails has the REST action tried, whatever was      *)
(* measured before it.                                                     *)
SweepFailedAlwaysPosts(r, unusable) ==
  \/ /\ unusable /\ current[r].addressed
     /\ pc' = [pc EXCEPT ![r] = "post"] /\ late' = [late EXCEPT ![r] = FALSE]
     /\ UNCHANGED <<answer, channel, pass, merged, done, samples, current>>
  \/ /\ ~(unusable /\ current[r].addressed)
     /\ Finish(r, Answer("unavailable", "daemon")) /\ UNCHANGED scan

(* repeatSweeps, and what EnergyScan makes of its error: what was measured *)
(* is the answer, and the REST action is tried only when nothing was and   *)
(* the socket could not be used.                                           *)
SweepFailed(r, unusable) ==
  \/ /\ samples[r] # << >>
     /\ UNCHANGED scan /\ Measured(r, "daemon")
  \/ /\ samples[r] = << >> /\ ~unusable
     /\ Finish(r, Answer("unavailable", "daemon")) /\ UNCHANGED scan
  \/ /\ samples[r] = << >> /\ unusable
     /\ IF current[r].addressed THEN pc' = [pc EXCEPT ![r] = "post"] /\ UNCHANGED answer
        ELSE Finish(r, Answer("unavailable", "rest"))
     /\ late' = [late EXCEPT ![r] = FALSE]
     /\ UNCHANGED <<channel, pass, merged, done, samples, current>>

(* The command of r could not be run, or it failed.                        *)
Failed(r, unusable) ==
  \/ /\ pc[r] = "channel" /\ channel[r] = 1 /\ ~unusable
     /\ pc' = [pc EXCEPT ![r] = "whole"]
     /\ UNCHANGED <<answer, scan>>
  \/ /\ pc[r] = "channel" /\ channel[r] = 1 /\ unusable
     /\ PassFailed(r, TRUE) /\ UNCHANGED scan
  \/ /\ pc[r] = "channel" /\ channel[r] > 1
     /\ NextChannel(r, pass[r], FALSE)
     /\ UNCHANGED <<samples, current, late>>
  \/ /\ pc[r] = "whole" /\ ~unusable
     /\ pc' = [pc EXCEPT ![r] = "scan"]
     /\ UNCHANGED <<answer, scan>>
  \/ /\ pc[r] = "whole" /\ unusable
     /\ PassFailed(r, TRUE) /\ UNCHANGED scan
  \/ /\ pc[r] = "scan"
     /\ PassFailed(r, unusable) /\ UNCHANGED scan
  \/ pc[r] = "energy" /\ SweepFailed(r, unusable)

(* Execute: the socket is not there, or it cannot be opened, by a request  *)
(* that was cancelled neither.                                             *)
Unusable(r) ==
  /\ pc[r] \in Commands
  /\ \/ socket = "gone" /\ mutex # r
     \/ mutex = Nobody /\ (socket # "up" \/ cancelled[r])
  /\ Failed(r, TRUE)
  /\ UNCHANGED <<world, faults, mutex, cancelled, told>>

Send(r) ==
  /\ pc[r] \in Commands /\ mutex = Nobody /\ socket = "up" /\ ~cancelled[r]
  /\ mutex' = r
  /\ UNCHANGED <<world, faults, pc, cancelled, scan, answer, told>>

(* Defect: an error leaves the socket locked.                              *)
CommandFailsHolding(r) ==
  /\ mutex = r
  /\ pc[r] \notin firmware
  /\ Failed(r, FALSE)
  /\ UNCHANGED <<world, faults, mutex, cancelled, told>>

(* The daemon answers with an error, or not at all; a running command does *)
(* not look at the context.                                                *)
CommandFails(r) ==
  /\ mutex = r
  /\ \/ socket = "up" /\ pc[r] \in firmware
        /\ faults < MaxFaults /\ faults' = faults + 1
     \/ (socket # "up" \/ pc[r] \notin firmware) /\ UNCHANGED faults
  /\ mutex' = Nobody
  /\ Failed(r, FALSE)
  /\ UNCHANGED <<world, cancelled, told>>

Discovered(r) ==
  /\ mutex = r /\ pc[r] \in {"channel", "whole", "scan"} /\ socket = "up"
  /\ pc[r] \in firmware
  /\ mutex' = Nobody
  /\ \E rows \in Replies(r) :
       /\ told' = [told EXCEPT ![r] = @ \cup ToSet(rows)]
       /\ IF pc[r] = "channel"
          THEN NextChannel(r, AppendNew(pass[r], rows), TRUE)
          ELSE PassDone(r, AppendNew(<< >>, rows))
  /\ UNCHANGED <<world, faults, cancelled, samples, current, late>>

(* repeatSweeps: a sweep is added, and the scan goes on until its time or  *)
(* the number of sweeps is reached.                                        *)
Swept(r) ==
  /\ mutex = r /\ pc[r] = "energy" /\ socket = "up"
  /\ pc[r] \in firmware
  /\ mutex' = Nobody
  /\ \E reading \in Readings : samples' = [samples EXCEPT ![r] = Append(@, reading)]
  /\ IF late[r] \/ Len(samples'[r]) = MaxSweeps THEN Measured(r, "daemon")
     ELSE pc' = [pc EXCEPT ![r] = "energyPause"] /\ UNCHANGED answer
  /\ UNCHANGED <<world, faults, cancelled, channel, pass, merged, done, current,
                 late, told>>

(* A pause is over.                                                        *)
Resume(r) ==
  /\ pc[r] \in Pauses
  /\ pc' = [pc EXCEPT ![r] = IF @ = "energyPause" THEN "energy" ELSE "channel"]
  /\ UNCHANGED <<world, faults, mutex, cancelled, scan, answer, told>>

(* A pause ends with the request: what there is is the answer.             *)
GiveUp(r) ==
  /\ pc[r] \in Pauses /\ cancelled[r]
  /\ \/ /\ pc[r] = "channelPause"
        /\ PassDone(r, pass[r])
        /\ UNCHANGED <<samples, current, late>>
     \/ /\ pc[r] = "passPause"
        /\ Finish(r, Found(merged[r], done[r]))
        /\ UNCHANGED scan
     \/ /\ pc[r] = "energyPause"
        /\ UNCHANGED scan
        /\ Measured(r, "daemon")
  /\ UNCHANGED <<world, faults, mutex, cancelled, told>>

-----------------------------------------------------------------------------
(* The fallbacks.                                                          *)

(* otbr-web is not configured or has no such endpoint, is not there or too *)
(* slow, answers what cannot be read, or lists networks.                   *)
Web(r) ==
  /\ pc[r] = "web"
  /\ \E status \in IF cancelled[r] THEN {"unavailable", "unsupported"}
                   ELSE {"unsupported", "unavailable", "error", "available"} :
       Finish(r, Answer(status, "web"))
  /\ UNCHANGED <<world, faults, mutex, cancelled, scan, told>>

(* A request of the REST action fails; missing: with 404, 405 or 501.      *)
RestFails(r, missing) ==
  \/ /\ samples[r] # << >> /\ UNCHANGED samples /\ Measured(r, "rest")
  \/ /\ samples[r] = << >> /\ UNCHANGED samples
     /\ Finish(r, Answer(IF missing THEN "unsupported" ELSE "unavailable", "rest"))

RestRequestFails(r) ==
  /\ pc[r] \in Actions
  /\ cancelled[r] \/ faults < MaxFaults
  /\ faults' = IF cancelled[r] THEN faults ELSE faults + 1
  /\ \E missing \in (IF cancelled[r] THEN {FALSE} ELSE BOOLEAN) : RestFails(r, missing)
  /\ UNCHANGED <<world, mutex, cancelled, channel, pass, merged, done, current, late,
                 told>>

Post(r) ==
  /\ pc[r] = "post" /\ ~cancelled[r]
  /\ pc' = [pc EXCEPT ![r] = "poll"]
  /\ late' = [late EXCEPT ![r] = FALSE]
  /\ UNCHANGED <<world, faults, mutex, cancelled, channel, pass, merged, done,
                 samples, current, answer, told>>

(* The action has completed; while it runs it is asked again.              *)
ActionCompleted(r) ==
  /\ pc[r] = "poll" /\ ~cancelled[r]
  /\ pc' = [pc EXCEPT ![r] = "report"]
  /\ UNCHANGED <<world, faults, mutex, cancelled, scan, answer, told>>

(* Defect: the action is waited for however long it takes.                 *)
WaitOn(r) == pc[r] = "poll" /\ late[r] /\ UNCHANGED vars

(* It runs for too long.                                                   *)
StopWaiting(r) ==
  /\ pc[r] = "poll" /\ late[r]
  /\ RestFails(r, FALSE)
  /\ UNCHANGED <<world, faults, mutex, cancelled, channel, pass, merged, done,
                 current, late, told>>

Report(r) ==
  /\ pc[r] = "report" /\ ~cancelled[r]
  /\ \E reading \in Readings :
       samples' = [samples EXCEPT ![r] =
                     Append(@, ReadingOf([c \in DOMAIN reading |-> {reading[c]}]))]
  /\ IF Len(samples'[r]) = RestSweeps THEN Measured(r, "rest")
     ELSE pc' = [pc EXCEPT ![r] = "post"] /\ UNCHANGED answer
  /\ UNCHANGED <<world, faults, mutex, cancelled, channel, pass, merged, done,
                 current, late, told>>

-----------------------------------------------------------------------------
(* otbr-agent restarts, or the rights of the socket change.                *)
SocketChanges ==
  /\ outages < MaxOutages
  /\ outages' = outages + 1 /\ UNCHANGED firmware
  /\ \E s \in {"up", "denied", "gone"} \ {socket} : socket' = s
  /\ UNCHANGED <<faults, mutex, pc, cancelled, scan, answer, told>>

(* All requests are answered.                                              *)
Served == (\A r \in Requests : pc[r] = "done") /\ UNCHANGED vars

-----------------------------------------------------------------------------
Running(r) ==
  \/ ReadOverview(r)
  \/ TimePasses(r)
  \/ Unusable(r)
  \/ Send(r)
  \/ CommandFails(r)
  \/ Discovered(r)
  \/ Swept(r)
  \/ Resume(r)
  \/ GiveUp(r)
  \/ Web(r)
  \/ RestRequestFails(r)
  \/ Post(r)
  \/ StopWaiting(r)
  \/ Report(r)

Next ==
  \/ \E r \in Requests : StartNetworks(r)
  \/ \E r \in Requests : StartEnergy(r)
  \/ \E r \in Requests : Cancel(r)
  \/ \E r \in Requests : ActionCompleted(r)
  \/ \E r \in Requests : Running(r)
  \/ SocketChanges
  \/ Served

Spec == Init /\ [][Next]_vars

(* Goroutines run, time passes, commands and requests have deadlines, and  *)
(* the mutex is free again after each command.  Nothing makes OTBR         *)
(* complete an action.                                                     *)
FairSpec == Spec /\ \A r \in Requests : WF_vars(Running(r))

-----------------------------------------------------------------------------
(* Properties.                                                             *)

(* An answered discovery holds every network the daemon told the request   *)
(* of, in whichever pass, by whichever command, before a failure, a        *)
(* cancellation or the loss of the socket, and no entry twice              *)
(* (scan.go:58-90, client.go:1353-1391).                                   *)
HeardOnce ==
  \A r \in Requests :
    answer[r].source = "daemon" /\ answer[r].passes > 0 /\ answer[r].noise = << >>
    => /\ ToSet(answer[r].items) = told[r]
       /\ IsInjective(answer[r].items)

(* The web service is asked only when the daemon told of nothing: a fault  *)
(* of the daemon is not hidden behind it (client.go:530-545).              *)
FaultsNotHidden ==
  [][\A r \in Requests :
       pc[r] # "web" /\ pc'[r] = "web"
       => told'[r] = {} /\ (socket # "up" \/ cancelled[r])]_vars

(* The noise of the channels is measured in one way, as two differ by 15  *)
(* dB: the REST action is tried only when the daemon has measured nothing, *)
(* and only because the socket cannot be used (energy.go:95-109, README.md *)
(* 47).                                                                    *)
MeasuredOneWay ==
  [][\A r \in Requests :
       pc[r] \notin Actions /\ pc'[r] \in Actions
       => samples'[r] = << >> /\ (socket # "up" \/ cancelled[r])]_vars

Advised == [quiet |-> "stay", moderate |-> "not worth moving",
            busy |-> "consider moving"]

(* What is said of the noise follows from what was measured: a typical     *)
(* level has half of the levels on either side and none above the loudest, *)
(* the channels that are recommended are the ones whose worst is best, and *)
(* the grade and the advice on the channel in use agree (energy.go:160-182,*)
(* mcpserver/server.go:901-1030).                                          *)
NoiseSound ==
  \A r \in Requests :
    answer[r].noise # << >> =>
      LET noise == answer[r].noise
          best == Quietest(noise)
      IN  /\ \A c \in DOMAIN noise :
               LET t == noise[c].typical
                   sweeps == Sweeps(samples[r], c)
                   below == {i \in sweeps : samples[r][i][c] <= t}
                   above == {i \in sweeps : samples[r][i][c] >= t}
               IN  t # NoLevel => /\ t <= noise[c].loudest
                                  /\ 2 * Cardinality(below) >= Cardinality(sweeps)
                                  /\ 2 * Cardinality(above) >= Cardinality(sweeps)
          /\ \A i \in DOMAIN best : \A c \in DOMAIN noise \ {best[j] : j \in 1..i} :
               noise[best[i]].loudest <= noise[c].loudest
          /\ LET c == answer[r].current
             IN  c \in DOMAIN noise => Advised[Level(noise, c, c)] = Advice(noise, c)

(* Every request is answered, though the socket may go away, the daemon    *)
(* fail and OTBR never complete the action (energy.go:184-254).            *)
EveryScanAnswered ==
  (\E r \in Requests : pc[r] \notin {"new", "done"}) ~>
  (\A r \in Requests : pc[r] \in {"new", "done"})
=============================================================================
