------------------------------- MODULE MCPedit -------------------------------
(***************************************************************************)
(* An instance of Pedit for TLC: two terminals, and two files, of which    *)
(* only the first has a copy.                                              *)
(***************************************************************************)
EXTENDS Pedit, TLC

CONSTANTS p1, p2, f1, f2

Swap == Permutations({p1, p2})
=============================================================================
