----------------------------- MODULE PoGrammar -----------------------------
(***************************************************************************)
(* The parsing expression grammar of PO files, include/spirit_po/          *)
(* po_grammar.hpp.                                                         *)
(*                                                                         *)
(* A file is a sequence of tokens: the characters that the rules name, the *)
(* keywords, the escapes and pieces of any other text.  A rule is a        *)
(* function from a position to the position after its match, or Fail; a    *)
(* rule with an attribute returns a record with that position in "next".   *)
(***************************************************************************)
EXTENDS Naturals, Sequences, TLC

CONSTANTS
    NoContext,  \* the disengaged optional<string> of a message
    StrKeys     \* the keywords msgstr[0], msgstr[1], ..., as far as files use them

Fail == 0

\* A backslash that no escape begins with is the token "\\".
Escapes == ("\\n" :> "\n") @@ ("\\t" :> "\t")
             @@ ("\\'" :> "'") @@ ("\\\"" :> "\"") @@ ("\\\\" :> "\\")

Decoded(t) == IF t \in DOMAIN Escapes THEN Escapes[t] ELSE t

At(f, p, t) == p \in DOMAIN f /\ f[p] = t

Positions(f) == 1..(Len(f) + 1)

\* The first position from p on whose token is sought, or the end of f.
First(f, p, Sought(_)) ==
    CHOOSE q \in p..(Len(f) + 1) :
        /\ q <= Len(f) => Sought(f[q])
        /\ \A r \in p..(q - 1) : ~Sought(f[r])

LineEnd(f, p) == First(f, p, LAMBDA t : t = "\n")

EndLine(f, p) == IF p # Fail /\ At(f, p, "\n") THEN p + 1 ELSE Fail
-----------------------------------------------------------------------------
(* Lines that are not part of a message *)

\* Mutant: carriage returns are not white.
WhiteLineUnix(f, p) == First(f, p, LAMBDA t : t \notin {" ", "\t"})

WhiteLine(f, p) == First(f, p, LAMBDA t : t \notin {" ", "\t", "\r"})

CommentLine(f, p) == IF At(f, p, "#") THEN LineEnd(f, p) ELSE Fail

OptionalComment(f, p) == IF At(f, p, "#") THEN CommentLine(f, p) ELSE p

PreambleCommentLine(f, p) == EndLine(f, CommentLine(f, p))

SkippedLine(f, p) ==
    EndLine(f, IF At(f, p, "#") THEN CommentLine(f, p) ELSE WhiteLine(f, p))

\* The kleene star of a rule without attribute, which must not match nothing.
Star(Rule(_, _), f, p) ==
    LET star[q \in Positions(f)] ==
          LET next == Rule(f, q) IN IF next = Fail THEN q ELSE star[next]
    IN  star[p]

SkippedBlock(f, p) == Star(SkippedLine, f, p)

\* Mutant: the rule is not applied.
NoIgnoredComments(f, p) == p

\* Blocks of comments that end in a white line.  Comments that end in anything
\* else are left for message_preamble.
IgnoredComments(f, p) ==
    Star(LAMBDA g, q : EndLine(g, WhiteLine(g, Star(PreambleCommentLine, g, q))), f, p)

\* Mutant: only the first flag of a flag comment is looked at.
FuzzyFirstFlag(f, p) ==
    LET end == LineEnd(f, p)
    IN  IF At(f, p, "#") /\ At(f, p + 1, ",") /\ At(f, p + 2, " fuzzy") /\ At(f, end, "\n")
        THEN end + 1 ELSE Fail

\* A flag comment, one of whose flags starts with " fuzzy".
Fuzzy(f, p) ==
    LET end == LineEnd(f, p)
    IN  IF /\ At(f, p, "#") /\ At(f, p + 1, ",") /\ At(f, end, "\n")
           /\ \E i \in (p + 1)..end : f[i] = "," /\ f[i + 1] = " fuzzy"
        THEN end + 1 ELSE Fail

\* The comments before a message, with or without a fuzzy marker, and a last
\* comment that the file ends in.
MessagePreamble(f, p) ==
    LET preamble[q \in Positions(f)] ==
          LET marked == Fuzzy(f, q)
              next   == PreambleCommentLine(f, q)
          IN  IF marked # Fail
              THEN [next |-> OptionalComment(f, Star(PreambleCommentLine, f, marked)),
                    fuzzy |-> TRUE]
              ELSE IF next # Fail THEN preamble[next]
              ELSE [next |-> OptionalComment(f, q), fuzzy |-> FALSE]
    IN  preamble[p]
-----------------------------------------------------------------------------
(* Strings *)

Rejected == [next |-> Fail]

SingleLineString(f, p) ==
    LET end == First(f, p + 1, LAMBDA t : t \in {"\"", "\\"})
    IN  IF At(f, p, "\"") /\ At(f, end, "\"")
        THEN [next |-> end + 1, text |-> [i \in 1..(end - p - 1) |-> Decoded(f[p + i])]]
        ELSE Rejected

\* The list operator %: pieces of a string with a separator between them.
StringList(Separator(_, _), f, p) ==
    LET Appended(first, rest) ==
          IF rest.next = Fail THEN first
          ELSE [next |-> rest.next, text |-> first.text \o rest.text]
        list[q \in Positions(f)] ==
          LET first == SingleLineString(f, q)
          IN  IF first.next = Fail THEN Rejected
              ELSE Appended(first, list[Separator(f, first.next)])
    IN  list[p]

\* Pieces of a string, with white lines and comments between them.
MultilineString(f, p) == StringList(SkippedBlock, f, p)

\* message_context, message_id, message_id_plural and message_str.
Keyword(f, p, key) ==
    LET q == SkippedBlock(f, p)
    IN  IF At(f, q, key) THEN MultilineString(f, q + 1) ELSE Rejected
-----------------------------------------------------------------------------
(* Messages *)

\* The optional rest of a sequence of strings.
Then(first, rest) ==
    IF rest.next = Fail THEN [next |-> first.next, strings |-> <<first.text>>]
    ELSE [next |-> rest.next, strings |-> <<first.text>> \o rest.strings]

\* Mutant: the indices need not count up.
MessageStrsAnyOrder(f, p) ==
    LET Matches(q) == {j \in DOMAIN StrKeys : Keyword(f, q, StrKeys[j]).next # Fail}
        Match(q) == Keyword(f, q, StrKeys[CHOOSE j \in Matches(q) : TRUE])
        strs[q \in Positions(f)] ==
          IF Matches(q) = {} THEN Rejected ELSE Then(Match(q), strs[Match(q).next])
    IN  strs[p]

\* Mutant: a message need not have any string.
MessageStrsOrNone(f, p) ==
    LET Match(q, i) == Keyword(f, q, StrKeys[i])
        strs[q \in Positions(f), i \in 1..(Len(StrKeys) + 1)] ==
          IF i > Len(StrKeys) \/ Match(q, i).next = Fail THEN [next |-> q, strings |-> <<>>]
          ELSE Then(Match(q, i), strs[Match(q, i).next, i + 1])
    IN  strs[p, 1]

\* The strings msgstr[0], msgstr[1], ... as far as their indices count up: a
\* function of the position and the index.
MessageStrs(f, p) ==
    LET strs[at \in Positions(f) \X (1..(Len(StrKeys) + 1))] ==
          LET i     == at[2]
              first == Keyword(f, at[1], StrKeys[i])
          IN  IF i > Len(StrKeys) \/ first.next = Fail THEN Rejected
              ELSE Then(first, strs[<<first.next, i + 1>>])
    IN  strs[<<p, 1>>]

\* message_plural | message_singular
Either(plural, forms, single) ==
    IF forms.next # Fail
    THEN [next |-> forms.next, idPlural |-> plural.text, strings |-> forms.strings]
    ELSE IF single.next # Fail
    THEN [next |-> single.next, idPlural |-> <<>>, strings |-> <<single.text>>]
    ELSE Rejected

PluralStrs(f, plural) ==
    IF plural.next = Fail THEN Rejected ELSE MessageStrs(f, plural.next)

TranslationsAfter(f, p, plural) ==
    Either(plural, PluralStrs(f, plural), Keyword(f, p, "msgstr "))

Translations(f, p) == TranslationsAfter(f, p, Keyword(f, p, "msgid_plural "))

\* -message_context >> message_id >> (message_plural | message_singular)
Whole(context, id, body) ==
    IF body.next = Fail THEN Rejected
    ELSE [next |-> body.next,
          message |-> [context |-> context.text, id |-> id.text,
                       idPlural |-> body.idPlural, strings |-> body.strings,
                       line |-> 0]]

MessageWithId(f, context, id) ==
    IF id.next = Fail THEN Rejected ELSE Whole(context, id, Translations(f, id.next))

MessageWithContext(f, context) ==
    MessageWithId(f, context, Keyword(f, context.next, "msgid "))

Optional(context, p) ==
    IF context.next = Fail THEN [next |-> p, text |-> NoContext] ELSE context

Message(f, p) == MessageWithContext(f, Optional(Keyword(f, p, "msgctxt "), p))
=============================================================================
