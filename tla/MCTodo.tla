-------------------------------- MODULE MCTodo --------------------------------
(***************************************************************************)
(* An instance of Todo for TLC: the first of March of a leap year.         *)
(***************************************************************************)
EXTENDS Todo

CONSTANTS note, a1, a2

MCFiles   == <<"rems", "todo", ".backlog">>
MCAccount == <<a1, a2>>
MCToday   == <<2024, 3, 1>>
MCDates   == {2023, 2024} \X {0, 1, 2, 3, 4, 12, 13, 15} \X {0, 1, 2, 28, 29, 30, 31, 32, 60, 99}

Item(t, b) == [task |-> t, blockers |-> b]
Early  == <<"date", <<2024, 2, 20>>>>
Off    == <<"date", <<2024, 2, 30>>>>
Dashed == <<"dashed", <<2024, 5, 1>>>>

MCFirstLines == { <<Item(note, <<>>), Item("#a", <<Off>>)>>, <<Item("#b", <<Early>>)>>, <<Item("#a", <<Dashed>>)>> }
MCEdits      == { <<Item("#a", <<Off>>), Item(note, <<>>)>>, <<Item("#b", <<Early, <<"urgent", "">> >>)>> }

\* Up to three tasks with at most two blockers.
Blockers == {<<>>} \cup {<<b>> : b \in {Early, <<"date", <<2024, 3, 2>>>>, <<"task", "#a">>, <<"task", "#b">>, <<"task", "#a.x">>, <<"backlog", "">>}}
            \cup { <<Early, <<"backlog", "">> >>, <<<<"task", "#b">>, <<"backlog", "">> >> }
MCTaskLists ==
    {l \in UNION {[1..n -> [task : {"#a", "#b", "#a.x"}, blockers : Blockers, file : {"todo", ".backlog"}]] : n \in 1..2} : TRUE}
    \cup {<<p, q, r>> : p \in [task : {"#a"}, blockers : Blockers, file : {".backlog"}],
                        q \in [task : {"#b"}, blockers : Blockers, file : {"todo", ".backlog"}],
                        r \in [task : {"#c"}, blockers : Blockers, file : {".backlog"}]}
MCMailboxes == UNION {[1..n -> [title : {"s", "t", ""}, seen : BOOLEAN]] : n \in 0..3}
=============================================================================
