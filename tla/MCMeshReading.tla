--------------------------- MODULE MCMeshReading ----------------------------
(***************************************************************************)
(* MeshReading for TLC: the router numbers of three devices.               *)
(***************************************************************************)
EXTENDS MeshReading, TLC

CONSTANTS br, d1, d2

ThreeDevices == {br, d1, d2}
ARouterAndAChild ==
  {(br :> "router") @@ (d1 :> "router") @@ (d2 :> "child"),
   (br :> "router") @@ (d1 :> "child") @@ (d2 :> "router")}
Numbers == (br :> 2) @@ (d1 :> 1) @@ (d2 :> 3)
=============================================================================
