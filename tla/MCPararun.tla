----------------------------- MODULE MCPararun -----------------------------
(***************************************************************************)
(* Instances of Pararun for TLC: a ring with fewer slots than there are    *)
(* commands.                                                               *)
(***************************************************************************)
EXTENDS Pararun
=============================================================================
