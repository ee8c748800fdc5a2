-------------------------------- MODULE Globs --------------------------------
(***************************************************************************)
(* The globs of gdsnap (gdsnap/gdsnap.go:170-272).  Names and patterns are *)
(* sequences of characters; Matchglob is the scanner of the code with its  *)
(* two restart points, Means is what the comment above it says of a glob.  *)
(***************************************************************************)
EXTENDS Integers, Sequences, SequencesExt

Slash == "/"
Star == "*"

(***************************************************************************)
(* The scanner.  p and n are the next positions in the pattern and in the  *)
(* name; laststar and lastdstar are the positions after the last * and **, *)
(* 0 for none.  AfterStars is the position of the first non-star from p.   *)
(***************************************************************************)
AfterStars(pattern, p) ==
    CHOOSE q \in p..Len(pattern) + 1 :
        /\ \A i \in p..q - 1 : pattern[i] = Star
        /\ q <= Len(pattern) => pattern[q] # Star

Scan(pattern, name) ==
    [p : 1..Len(pattern) + 1, n : 1..Len(name) + 1,
     laststar : 0..Len(pattern) + 1, lastdstar : 0..Len(pattern) + 1]

Start == [p |-> 1, n |-> 1, laststar |-> 0, lastdstar |-> 0]

\* Where the scan goes on when the pattern does not fit the character at s.n:
\* the set of at most one state.  The character itself is given up, in the
\* code and here, without being tried at the restart point.
Restart(s) ==
    IF s.laststar # 0 THEN {[s EXCEPT !.p = s.laststar, !.n = @ + 1]}
    ELSE IF s.lastdstar # 0
         THEN {[s EXCEPT !.p = s.lastdstar, !.laststar = s.lastdstar, !.n = @ + 1]}
         ELSE {}

IterateOverSlash(pattern, name, s) ==
    IF s.p > Len(pattern) THEN Restart(s)
    ELSE IF pattern[s.p] = Star
    THEN {[s EXCEPT !.p = AfterStars(pattern, @), !.laststar = AfterStars(pattern, s.p)]}
    ELSE IF name[s.n] = pattern[s.p] THEN {[s EXCEPT !.p = @ + 1, !.n = @ + 1]} ELSE Restart(s)

\* One iteration of the loop; empty when the name is found not to match.
Iterate(pattern, name, s) ==
    LET slash == name[s.n] = Slash
        here  == [s EXCEPT !.laststar = IF slash THEN 0 ELSE @]
    IN  IF s.p > Len(pattern)
        THEN IF slash THEN Restart(here)
             ELSE IF s.laststar # 0 THEN Restart(s) ELSE {}
        ELSE IF pattern[s.p] = Star
        THEN LET q == AfterStars(pattern, s.p) IN
             {[s EXCEPT !.p = q, !.laststar = q,
                        !.lastdstar = IF q - s.p >= 2 THEN q ELSE @]}
        ELSE IF name[s.n] = pattern[s.p]
        THEN {[here EXCEPT !.p = @ + 1, !.n = @ + 1]}
        ELSE Restart(here)

Matchglob(pattern, name) ==
    LET match[s \in Scan(pattern, name)] ==
            IF s.n > Len(name)
            THEN AfterStars(pattern, s.p) > Len(pattern)
            ELSE \E t \in Iterate(pattern, name, s) : match[t]
    IN  match[Start]

(***************************************************************************)
(* What a glob means: * is any run of characters without a slash, ** any   *)
(* run, every other character itself.                                      *)
(***************************************************************************)
Means(pattern, name) ==
    LET ends[i \in 1..Len(pattern) + 1] ==     \* where the part from i may begin in the name
            IF i > Len(pattern) THEN {Len(name) + 1}
            ELSE IF pattern[i] # Star
            THEN {j \in 1..Len(name) : name[j] = pattern[i] /\ j + 1 \in ends[i + 1]}
            ELSE LET q == AfterStars(pattern, i) IN
                 {j \in 1..Len(name) + 1 :
                    \E k \in j..Len(name) + 1 :
                       /\ q - i = 1 => \A x \in j..k - 1 : name[x] # Slash
                       /\ k \in ends[q]}
    IN  1 \in ends[1]

(***************************************************************************)
(* A relative argument is taken from the working directory, given relative *)
(* to the root of the tree; an absolute one from the root.  No globs at    *)
(* all stand for every file.                                               *)
(***************************************************************************)
FullGlob(cwd, arg) ==
    IF arg # <<>> /\ arg[1] = Slash THEN Tail(arg)
    ELSE IF cwd = <<>> THEN arg ELSE cwd \o <<Slash>> \o arg

FilterFiles(files, cwd, args) ==
    {f \in files : args = {} \/ \E a \in args : Matchglob(FullGlob(cwd, a), f)}
=============================================================================
