---------------------------- MODULE ChannelNoise ----------------------------
(***************************************************************************)
(* What is made of the readings of an energy scan: the loudest and the     *)
(* typical level of each channel (internal/otbr/energy.go), and the        *)
(* ranking, the grades and the advice the assistant is given               *)
(* (internal/mcpserver/server.go).                                         *)
(*                                                                         *)
(* A reading of the band is a function from the channels that were heard   *)
(* to a level in dBm, which is negative.                                   *)
(***************************************************************************)
EXTENDS Integers, FiniteSets, Sequences, SequencesExt

NoLevel == 1  \* no level is positive

(* The members of S, each after those that come before it.                 *)
InOrder(S, before(_, _)) ==
  [i \in 1..Cardinality(S) |->
     CHOOSE x \in S : Cardinality({y \in S : before(y, x)}) = i - 1]

(* The sweeps that heard the channel.                                      *)
Sweeps(samples, channel) == {i \in 1..Len(samples) : channel \in DOMAIN samples[i]}

(* Defect: the levels are left in the order they were heard.               *)
LevelsAsHeard(samples, channel) ==
  LET sweeps == Sweeps(samples, channel)
      order == InOrder(sweeps, LAMBDA a, b : a < b)
  IN  [k \in 1..Cardinality(sweeps) |-> samples[order[k]][channel]]

(* The levels of a channel over the sweeps, ascending: sort.Ints. Equal    *)
(* levels are taken in the order of their sweeps.                          *)
Lower(samples, channel, a, b) ==
  \/ samples[a][channel] < samples[b][channel]
  \/ samples[a][channel] = samples[b][channel] /\ a < b

Levels(samples, channel) ==
  LET sweeps == Sweeps(samples, channel)
      order == InOrder(sweeps, LAMBDA a, b : Lower(samples, channel, a, b))
  IN  [k \in 1..Cardinality(sweeps) |-> samples[order[k]][channel]]

(* Go divides towards zero, and the levels are negative.                   *)
Halve(sum) == IF sum < 0 THEN -((-sum) \div 2) ELSE sum \div 2

Median(levels) ==
  IF Len(levels) % 2 = 1 THEN levels[Len(levels) \div 2 + 1]
  ELSE Halve(levels[Len(levels) \div 2] + levels[Len(levels) \div 2 + 1])

(* combineSamples: one sweep has no typical level.                         *)
Combine(samples) ==
  [channel \in UNION {DOMAIN samples[i] : i \in 1..Len(samples)} |->
     LET levels == Levels(samples, channel)
     IN  [loudest |-> levels[Len(levels)],
          typical |-> IF Len(samples) > 1 THEN Median(levels) ELSE NoLevel]]

(* rankChannels: the loudest reading counts, then the number.              *)
Quieter(noise, a, b) ==
  \/ noise[a].loudest < noise[b].loudest
  \/ noise[a].loudest = noise[b].loudest /\ a < b

Ranked(noise) == InOrder(DOMAIN noise, LAMBDA a, b : Quieter(noise, a, b))
Quietest(noise) == SubSeq(Ranked(noise), 1, IF Cardinality(DOMAIN noise) < 3
                                            THEN Cardinality(DOMAIN noise) ELSE 3)

Grade(delta) ==
  CASE delta <= 3 -> "quiet" [] delta > 10 -> "busy" [] OTHER -> "moderate"

(* quietestTypicalOf                                                       *)
TypicalLevels(noise) == {noise[c].typical : c \in DOMAIN noise} \ {NoLevel}
LowestTypical(noise) ==
  CHOOSE t \in TypicalLevels(noise) : \A u \in TypicalLevels(noise) : t <= u

AboveQuietest(noise, channel) ==
  noise[channel].loudest - noise[Ranked(noise)[1]].loudest
AboveTypical(noise, channel) == noise[channel].typical - LowestTypical(noise)
HasTypical(noise, channel) ==
  TypicalLevels(noise) # {} /\ noise[channel].typical # NoLevel

(* scanChannels: the loudest reading of the channel in use holds the       *)
(* network's own frames, so its typical level is graded instead.           *)
Level(noise, current, channel) ==
  IF channel = current /\ HasTypical(noise, channel)
  THEN Grade(AboveTypical(noise, channel))
  ELSE Grade(AboveQuietest(noise, channel))

(* channelSummary: what is advised of the channel in use.                  *)
Advice(noise, current) ==
  IF current \notin DOMAIN noise THEN "none"
  ELSE LET grade == Grade(IF HasTypical(noise, current)
                          THEN AboveTypical(noise, current)
                          ELSE AboveQuietest(noise, current))
       IN  CASE grade = "quiet" -> "stay"
             [] grade = "busy" -> "consider moving"
             [] OTHER -> "not worth moving"

(* The report of the REST action has the levels of each round of the scan; *)
(* a channel without any is left out.                                      *)
ReadingOf(report) ==
  [channel \in {c \in DOMAIN report : report[c] # {}} |->
     CHOOSE level \in report[channel] : \A l \in report[channel] : l <= level]
=============================================================================
