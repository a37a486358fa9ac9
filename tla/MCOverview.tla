----------------------------- MODULE MCOverview ------------------------------
(***************************************************************************)
(* OverviewSources for TLC.                                                *)
(***************************************************************************)
EXTENDS OverviewSources
=============================================================================
