------------------------------ MODULE MCScans -------------------------------
(***************************************************************************)
(* Scans for TLC: two channels with one network each, and the readings of  *)
(* a quiet sweep and of a noisy one that missed a channel.                 *)
(***************************************************************************)
EXTENDS Scans, TLC

CONSTANTS n1, n2

TwoNetworks == {n1, n2}
OneEach == (n1 :> 1) @@ (n2 :> 2)
TwoReadings == {(1 :> -90) @@ (2 :> -86), 1 :> -75}
=============================================================================
