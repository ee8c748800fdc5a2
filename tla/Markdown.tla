------------------------------- MODULE Markdown -------------------------------
(***************************************************************************)
(* The two conversions of bm (utils/bm.go:52-136) on lines of the kinds    *)
(* they tell apart.  A text is a sequence of tokens: "x" is a piece of     *)
(* text, "_" white space, "\n" the end of a line; the rest are markers,    *)
(* tags, and the comments that hide a marker.                              *)
(***************************************************************************)
EXTENDS Integers, Sequences, SequencesExt

LineText == [empty |-> <<>>, blank |-> <<"_">>, indented |-> <<"_", "x">>, dash |-> <<"- ", "x">>,
             wide |-> <<"- ", "_", "x">>, h1 |-> <<"# ", "x">>, h2 |-> <<"## ", "x">>, quote |-> <<"> ", "x">>,
             gt |-> <<">">>, text |-> <<"x">>, own |-> <<"#own">>, other |-> <<"#other">>]
Kind == DOMAIN LineText
Item == {"dash", "wide"}

\* FoldLeft, by position.
Fold(Op(_, _), base, s) ==
    LET f[i \in 0..Len(s)] == IF i = 0 THEN base ELSE Op(f[i - 1], s[i])
    IN  f[Len(s)]

Opening == [blockquote |-> <<"<blockquote>", "<p>">>, p |-> <<"<p>">>, pre |-> <<"<pre>">>,
            ul |-> <<"<ul>", "<li>">>]
ClosingNoItem == [none |-> <<>>, blockquote |-> <<"</p>", "</blockquote>">>, p |-> <<"</p>">>,
                  pre |-> <<"</pre>">>, ul |-> <<"</ul>">>]
Closing == [none |-> <<>>, blockquote |-> <<"</p>", "</blockquote>">>, p |-> <<"</p>">>,
            pre |-> <<"</pre>">>, ul |-> <<"</li>", "</ul>">>]

NextMode(m, k) ==
    IF k = "empty" THEN "none"
    ELSE IF m # "none" \/ k \in {"h1", "h2"} THEN m
    ELSE CASE k \in {"blank", "indented"} -> "pre"
           [] k \in Item                  -> "ul"
           [] k = "quote"                 -> "blockquote"
           [] OTHER                       -> "p"

\* What a line of kind k becomes in mode m.  An opening tag comes before the
\* line, but after it when it is white space.  An item of a list loses the
\* white space in front of its text.
HTMLLine(m, k) ==
    LET opened == IF m = "none" /\ NextMode(m, k) # "none" THEN Opening[NextMode(m, k)] ELSE <<>>
    IN  CASE k = "empty"                     -> Closing[m]
          [] k = "blank"                     -> LineText[k] \o opened
          [] k \in Item /\ m = "none"        -> opened \o <<"<!-- - -->", "x">>
          [] k \in Item /\ m = "ul"          -> <<"</li>", "<li>", "<!-- - -->", "x">>
          [] k = "h1"                        -> <<"<!-- # -->", "<p>", "x", "</p>">>
          [] k = "h2"                        -> <<"<!-- # -->", "<p>", "_", "x", "</p>">>
          [] k = "quote" /\ m = "none"       -> opened \o <<"<span>", "> ", "</span>", "x">>
          [] k = "quote" /\ m = "blockquote" -> <<"<!-- > -->", "x">>
          [] k = "gt" /\ m = "blockquote"    -> <<"</p>", "<p>", "<span>", ">", "</span>">>
          [] OTHER                           -> opened \o LineText[k]

(***************************************************************************)
(* toHTML: the loop over the lines, with the mode and the output so far.   *)
(***************************************************************************)
HTMLStart == [mode |-> "none", out |-> <<"<div>">>, rejected |-> FALSE]

\* A heading that does not start its own paragraph ends the program.
Convert(acc, k) ==
    [mode     |-> NextMode(acc.mode, k),
     out      |-> acc.out \o Append(HTMLLine(acc.mode, k), "\n"),
     rejected |-> acc.rejected \/ (k \in {"h1", "h2"} /\ acc.mode # "none")]
Converted(doc) == Fold(Convert, HTMLStart, doc)
Rejected(doc) == Converted(doc).rejected

Blank == {"_", "\n"}
TrimEnd(s, ws) == SubSeq(s, 1, SelectLastInSeq(s, LAMBDA t : t \notin ws))
TrimSpace(s) == Reverse(TrimEnd(Reverse(TrimEnd(s, Blank)), Blank))

\* Two blocks of indented text with an empty line between them are one.
MergePre(out, t) ==
    IF t = "<pre>" /\ IsSuffix(<<"</pre>", "\n">>, out)
    THEN Append(SubSeq(out, 1, Len(out) - 2), "\n")
    ELSE Append(out, t)
Merged(html) == Fold(MergePre, <<>>, html)

ToHTML(doc) ==
    TrimEnd(Merged(Converted(doc).out \o Closing[Converted(doc).mode]), {"\n"}) \o <<"</div>", "\n">>

(***************************************************************************)
(* toMarkdown: hidden markers are shown, tags removed.                     *)
(***************************************************************************)
Hidden == [c \in {"<!-- - -->", "<!-- # -->", "<!-- > -->"} |->
              CASE c = "<!-- - -->" -> "- " [] c = "<!-- # -->" -> "# " [] OTHER -> "> "]
TagPairs == {<<"<div>", "</div>">>, <<"<p>", "</p>">>, <<"<pre>", "</pre>">>, <<"<ul>", "</ul>">>,
             <<"<li>", "</li>">>, <<"<span>", "</span>">>, <<"<blockquote>", "</blockquote>">>}
Tags == UNION {{p[1], p[2]} : p \in TagPairs}
Untag(text, t) ==
    IF t \in Tags THEN text ELSE Append(text, IF t \in DOMAIN Hidden THEN Hidden[t] ELSE t)
Untagged(html) == Fold(Untag, <<>>, html)

\* At most one empty line between two others.
AtMostOneEmpty(out, t) == IF t = "\n" /\ IsSuffix(<<"\n", "\n">>, out) THEN out ELSE Append(out, t)
Thinned(s) == Fold(AtMostOneEmpty, <<>>, s)
Normal(s) == Thinned(Append(TrimSpace(s), "\n"))

ToMarkdown(html) == Normal(Untagged(html))

-----------------------------------------------------------------------------
\* -r "restores the html back to the original text" (bm.go:233), up to white
\* space at its ends and empty lines in a row: every line comes back as it was
\* but a heading of the second kind, for line[2:] (bm.go:92) leaves a space in
\* front of its text, and an item with more white space than one space.
Restored(m, k) ==
    IF k = "h2" THEN <<"# ", "_", "x">>
    ELSE IF k = "wide" /\ m \in {"none", "ul"} THEN LineText.dash ELSE LineText[k]

RestoredStart == [mode |-> "none", text |-> <<>>]
RestoredLine(acc, k) ==
    [mode |-> NextMode(acc.mode, k), text |-> acc.text \o Append(Restored(acc.mode, k), "\n")]
AllRestored(doc) == Fold(RestoredLine, RestoredStart, doc)
RoundTrip(doc) == ToMarkdown(ToHTML(doc)) = Normal(AllRestored(doc).text)

\* The lines of one item of a todo file, from the first that is not empty on;
\* each of them ends in a newline, so that an empty line follows the last.
SectionLine(acc, k) ==
    CASE k \in {"own", "other"}                             -> [acc EXCEPT !.item = k]
      [] acc.item = "own" /\ (acc.out # <<>> \/ k # "empty") -> [acc EXCEPT !.out = Append(@, k)]
      [] OTHER                                              -> acc
ItemLines(doc) == Fold(SectionLine, [item |-> "other", out |-> <<>>], doc).out
Section(doc) == IF ItemLines(doc) = <<>> THEN <<>> ELSE Append(ItemLines(doc), "empty")

\* Every tag is closed, the one opened last first.
Nest(open, t) ==
    IF open # <<>> /\ <<Last(open), t>> \in TagPairs THEN Front(open)
    ELSE IF t \in Tags THEN Append(open, t) ELSE open
Unclosed(html) == Fold(Nest, <<>>, html)
WellNested(html) == Unclosed(html) = <<>>
=============================================================================
