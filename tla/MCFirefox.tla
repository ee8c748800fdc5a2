------------------------------ MODULE MCFirefox ------------------------------
(***************************************************************************)
(* An instance of Firefox for TLC: a second wrapper is started while the   *)
(* first one runs.                                                         *)
(***************************************************************************)
EXTENDS Firefox

CONSTANTS w1, w2
=============================================================================
