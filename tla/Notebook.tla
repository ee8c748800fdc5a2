------------------------------- MODULE Notebook -------------------------------
(***************************************************************************)
(* What a user expects of a set of files that are edited: each is a text,  *)
(* a set of entries, to which a session adds one, at once.  Of a file that *)
(* has been damaged nothing is said.                                       *)
(***************************************************************************)
CONSTANTS File, Entry

VARIABLES text, damaged

Init == text = [f \in File |-> {}] /\ damaged = {}

Add(f) ==
    /\ f \notin damaged
    /\ \E e \in Entry \ text[f] : text' = [text EXCEPT ![f] = @ \cup {e}]
    /\ UNCHANGED damaged

\* Some files at once, when the machine goes down.
Damage(fs) ==
    /\ damaged' = damaged \cup fs
    /\ \A g \in File \ damaged' : text'[g] = text[g]

Next == (\E f \in File : Add(f)) \/ (\E fs \in SUBSET File : Damage(fs))

Spec == Init /\ [][Next]_<<text, damaged>>
=============================================================================
