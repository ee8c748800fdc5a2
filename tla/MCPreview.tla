------------------------------ MODULE MCPreview ------------------------------
(***************************************************************************)
(* Instances of Preview for TLC.  At first the file holds any text of one  *)
(* or two lines, or of three with one in the middle that can end a         *)
(* paragraph; then one that is fine or one that toHTML rejects.            *)
(***************************************************************************)
EXTENDS Preview

CONSTANTS b1, b2

MCFirstDocs == [1..1 -> Kind] \cup [1..2 -> Kind]
               \cup {d \in [1..3 -> Kind] : d[2] \in {"empty", "blank", "gt"}}
MCDocs == {<<"own", "text">>, <<"own", "text", "h1">>}
=============================================================================
