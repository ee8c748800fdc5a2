----------------------------- MODULE MCMakecfg -----------------------------
(***************************************************************************)
(* An instance of Makecfg for TLC.                                         *)
(***************************************************************************)
EXTENDS Makecfg

CONSTANTS x, y
=============================================================================
