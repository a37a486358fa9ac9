--------------------------- MODULE MCSignalTrail ---------------------------
(***************************************************************************)
(* SignalTrail for TLC.  The devices are interchangeable.                  *)
(***************************************************************************)
EXTENDS SignalTrail, TLC

RSSI == {-70, -60}

Symmetry == Permutations(Devices)
=============================================================================
