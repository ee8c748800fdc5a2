------------------------------ MODULE MCRestore ------------------------------
(***************************************************************************)
(* Instances of Restore for TLC: a path, one below it and one beside it.   *)
(***************************************************************************)
EXTENDS Restore

CONSTANTS x, y

MCOrder == << <<"a">>, <<"a", "/", "b">>, <<"b", "b">> >>
MCName  == Range(MCOrder)
MCGlobs == { <<"*", "*">>, <<"*">>, <<"/", "a", "*">> }
MoreGlobs == MCGlobs \cup { <<"a", "*">>, <<"/", "*", "b">>, <<"b">> }
MCCwd   == { <<>>, <<"a">> }
=============================================================================
