------------------------------ MODULE MCGdsnap ------------------------------
(***************************************************************************)
(* Instances of Gdsnap for TLC: a file in the root, a file in a directory. *)
(***************************************************************************)
EXTENDS GdsnapInv

CONSTANTS root, d1, f1, f2, a, b, l

MCParent  == [f \in File |-> IF f = f2 THEN d1 ELSE root]
MCSizeOf  == [c \in Content |-> 1]
=============================================================================
