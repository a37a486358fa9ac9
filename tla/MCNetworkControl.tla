-------------------------- MODULE MCNetworkControl --------------------------
(***************************************************************************)
(* NetworkControl for TLC.  The request slots and the datasets are         *)
(* interchangeable.                                                        *)
(***************************************************************************)
EXTENDS NetworkControl, TLC

Symmetry == Permutations(Requests) \cup Permutations(Datasets)
=============================================================================
