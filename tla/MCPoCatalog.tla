---------------------------- MODULE MCPoCatalog ----------------------------
(***************************************************************************)
(* Files for PoCatalog: a header followed by every sequence of a few lines *)
(* or entries.                                                             *)
(***************************************************************************)
EXTENDS PoCatalog

Q == "\""
Quoted(t) == <<Q, t, Q, "\n">>
Line(keyword, t) == <<keyword>> \o Quoted(t)

RECURSIVE Glued(_)
Glued(pieces) == IF pieces = <<>> THEN <<>> ELSE Head(pieces) \o Glued(Tail(pieces))

UpTo(n, Pieces) == UNION {[1..k -> Pieces] : k \in 0..n}

HeaderId == <<"msgid ", Q, Q, "\n">>
HeaderOf(t) == HeaderId \o Line("msgstr ", t)

(* Layout: entries, comments and white lines in any order *)

EntryI == Line("msgid ", "i") \o Line("msgstr ", "t")
EntryCI == Line("msgctxt ", "c") \o Line("msgid ", "i") \o Line("msgstr ", "u")
BlankLine == <<"\n">>
WindowsLine == <<" ", "\r", "\n">>
Comment == <<"#", "x", "\n">>
FuzzyFlag == <<"#", ",", " fuzzy", "\n">>
SecondFlag == <<"#", ",", " c-format", ",", " fuzzy", "\n">>
NotAFlag == <<"#", ".", ",", " fuzzy", "\n">>

LayoutPieces == {EntryI, EntryCI, BlankLine, WindowsLine, Comment, FuzzyFlag,
                 SecondFlag, NotAFlag}

LastComment == <<"#", "x">>
Tails == {<<>>, LastComment, <<" ">>, <<"i">>}

LayoutFiles ==
    {HeaderOf("h") \o Glued(s) \o t : s \in UpTo(4, LayoutPieces), t \in Tails}

(* Messages: the lines of messages in any order *)

PluralLines == {
    Line("msgctxt ", "c"), Line("msgid ", "i"), Line("msgid_plural ", "p"),
    <<"msgstr[0] ", Q, "t", "\\\"", "\\n", Q, "\n">>, Line("msgstr[1] ", "u"),
    Quoted("#")}
MessageLines == PluralLines \cup {
    HeaderId, Line("msgstr ", "t"), Comment}
\* A string that is not ended on its line, a bad escape, a good one, an entry in
\* order.
OtherLines == {<<Q, "u", "\n">>, <<Q, "\\", Q, "\n">>, <<Q, "\\'", Q, "\n">>, EntryI}

MessageFiles ==
    {HeaderOf("h") \o Glued(s) : s \in UpTo(4, MessageLines) \cup UpTo(5, PluralLines)}
      \cup {HeaderOf("h") \o Glued(s) : s \in UpTo(2, MessageLines \cup OtherLines)}
      \cup {Comment \o HeaderOf(t) \o EntryI : t \in {"rejected", "uncompilable", "no singular"}}
      \cup {EntryI \o EntryCI, BlankLine \o Comment, <<>>}

MCFiles == LayoutFiles \cup MessageFiles

MCStrKeys == <<"msgstr[0] ", "msgstr[1] ", "msgstr[2] ">>

(* Meanings of headers *)

MCMeaning(text) ==
    LET t == IF text = <<>> THEN "h" ELSE text[1]
    IN  [accepted |-> t # "rejected", num |-> IF t = "rejected" THEN 0 ELSE 2,
         compiles |-> t # "uncompilable",
         plural |-> [n \in Counts |-> IF t = "no singular" THEN 2
                                      ELSE IF t = "h" /\ n # 1 THEN 1 ELSE 0]]

MCCounts == {0, 1, 2}
MCAtom == {"i", "c", "p", "t", "u", "h", "x", "#", "\"", "'", "\\", "\n", "\r", " ", ".", ",",
           " fuzzy", " c-format", "rejected", "uncompilable", "no singular", "EOT",
           "msgctxt ", "msgid ", "msgid_plural ", "msgstr ", "msgstr[0] ", "msgstr[1] "}
MCIds == {<<"i">>}
MCContexts == {<<"c">>}
=============================================================================
