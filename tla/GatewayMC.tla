----------------------------- MODULE GatewayMC -----------------------------
(***************************************************************************)
(* Gateway for TLC.                                                        *)
(***************************************************************************)
EXTENDS Gateway
=============================================================================
