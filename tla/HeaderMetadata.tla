--------------------------- MODULE HeaderMetadata ---------------------------
(***************************************************************************)
(* catalog_metadata::parse_header, include/spirit_po/catalog_metadata.hpp: *)
(* what is read from the text of the header message.                       *)
(*                                                                         *)
(* The text is a sequence of tokens, labels like "Language:" among them.   *)
(* Reading it is a sequence of steps here, one per kind of line, because a *)
(* catalog whose load fails without exceptions keeps what was assigned     *)
(* before the step that returned an error.                                 *)
(***************************************************************************)
EXTENDS Naturals, Sequences

CONSTANTS
    Texts,     \* header texts
    Digits     \* the tokens that are numbers, with their values

ASSUME TextsAssumption == \A t \in Texts : t \in Seq(STRING)

Semicolon == ";"
Supported == {"UTF-8", "ASCII"}
DefaultForms == <<"n", "!=", "1">>

NameLabels == {"Project-Id-Version:", "Language:", "Language-Team:", "Last-Translator:"}
Labels == NameLabels
            \cup {"Content-Type:", "Content-Transfer-Encoding:", "Plural-Forms:"}

VARIABLES
    text,      \* the header's msgstr
    stage,     \* what is read next, or "returned"
    error,     \* does parse_header return an error message?
    metadata   \* the members of catalog_metadata

vars == <<text, stage, error, metadata>>
-----------------------------------------------------------------------------
\* The first position from p on that does not hold, or holds, a token.
FirstNot(s, p, t) ==
    CHOOSE q \in p..(Len(s) + 1) :
        (q <= Len(s) => s[q] # t) /\ \A r \in p..(q - 1) : s[r] = t
First(s, p, t) ==
    CHOOSE q \in p..(Len(s) + 1) :
        (q <= Len(s) => s[q] = t) /\ \A r \in p..(q - 1) : s[r] # t

From(s, p) == SubSeq(s, p, Len(s))
WithoutBlanks(s) == SelectSeq(s, LAMBDA t : t # " ")

\* Where a literal or a number is looked for behind p: the skipper takes the blanks.
NextWord(s, p) == IF p < Len(s) THEN FirstNot(s, p + 1, " ") ELSE Len(s) + 1

\* Mutant: the line is not ended by its newline.
FindRestOfHeader(label) ==
    LET p == First(text, 1, label)
    IN  IF p > Len(text) THEN <<>> ELSE From(text, FirstNot(text, p + 1, " "))

\* find_header_line: what follows the first occurrence of the label, wherever
\* it is, up to the end of that line; nothing if there is no such line.
FindHeaderLine(label) ==
    LET p     == First(text, 1, label)
        start == FirstNot(text, p + 1, " ")
    IN  IF p > Len(text) THEN <<>>
        ELSE SubSeq(text, start, First(text, start, "\n") - 1)

Init ==
    /\ text \in Texts
    /\ stage = "names"
    /\ error = FALSE
    /\ metadata = [names |-> [l \in NameLabels |-> <<>>], charset |-> <<>>,
                   num |-> 0, forms |-> <<>>]

\* project_id, language, language_team and last_translator are taken as they are.
ReadNames ==
    /\ stage = "names"
    /\ metadata' = [metadata EXCEPT !.names = [l \in NameLabels |-> FindHeaderLine(l)]]
    /\ stage' = "charset"
    /\ UNCHANGED <<text, error>>

\* The attribute of content_type_grammar, on a line with a semicolon: what is
\* behind the first semicolon, if that is a charset, without any blanks.
Charset(line) ==
    LET word == NextWord(line, First(line, 1, Semicolon))
    IN  IF word <= Len(line) /\ line[word] = "charset="
        THEN WithoutBlanks(From(line, word + 1)) ELSE <<"UTF-8">>

\* A line without a semicolon is not parsed, and no charset assigned.
ReadCharset ==
    LET line == FindHeaderLine("Content-Type:")
        parsed == First(line, 1, Semicolon) <= Len(line)
        rejected == parsed /\ Charset(line) \notin {<<c>> : c \in Supported}
    IN  /\ stage = "charset"
        /\ metadata' = [metadata EXCEPT !.charset = IF line = <<>> THEN <<"UTF-8">>
                                                   ELSE IF parsed THEN Charset(line) ELSE @]
        /\ error' = rejected
        /\ stage' = IF rejected THEN "returned" ELSE "encoding"
        /\ UNCHANGED text

ReadEncoding ==
    LET line == FindHeaderLine("Content-Transfer-Encoding:")
        rejected == line # <<>> /\ line[1] # "8bit"
    IN  /\ stage = "encoding"
        /\ error' = rejected
        /\ stage' = IF rejected THEN "returned" ELSE "forms"
        /\ UNCHANGED <<text, metadata>>

\* num_plurals_grammar: nplurals=, a number, ; and plural=, with blanks before
\* each of them; the expression is all that remains of the line.
NumPlurals(line) ==
    LET name   == NextWord(line, 0)
        number == NextWord(line, name)
        semi   == NextWord(line, number)
        plural == NextWord(line, semi)
    IN  IF /\ plural <= Len(line)
           /\ line[name] = "nplurals=" /\ line[number] \in DOMAIN Digits
           /\ line[semi] = Semicolon /\ line[plural] = "plural="
        THEN [parsed |-> TRUE, num |-> Digits[line[number]], forms |-> From(line, plural + 1)]
        ELSE [parsed |-> FALSE]

\* Mutant: a line that cannot be parsed leaves the defaults.
ReadPluralFormsLeniently ==
    LET line == FindHeaderLine("Plural-Forms:")
        info == NumPlurals(line)
        With(num, forms) == [metadata EXCEPT !.num = num, !.forms = forms]
    IN  /\ stage = "forms"
        /\ metadata' = IF info.parsed THEN With(info.num, info.forms) ELSE With(2, DefaultForms)
        /\ error' = (line # <<>> /\ ~info.parsed)
        /\ stage' = "returned"
        /\ UNCHANGED text

ReadPluralForms ==
    LET line == FindHeaderLine("Plural-Forms:")
        info == NumPlurals(line)
        With(num, forms) == [metadata EXCEPT !.num = num, !.forms = forms]
    IN  /\ stage = "forms"
        /\ metadata' = IF line = <<>> THEN With(2, DefaultForms)
                       ELSE IF info.parsed THEN With(info.num, info.forms)
                       ELSE With(0, <<>>)
        /\ error' = (line # <<>> /\ ~info.parsed)
        /\ stage' = "returned"
        /\ UNCHANGED text

\* The client has its answer.
Returned == stage = "returned" /\ UNCHANGED vars

Next == ReadNames \/ ReadCharset \/ ReadEncoding \/ ReadPluralForms \/ Returned

Spec == Init /\ [][Next]_vars
-----------------------------------------------------------------------------
(* Properties *)

\* A header that is rejected, by whichever test, leaves no number of plural
\* forms behind: a failed catalog does not pass check_compatibility with one
\* that was loaded.  Module Catalog relies on it (Blank).
RejectedHasNoForms ==
    stage = "returned" /\ error => metadata.num = 0 /\ metadata.forms = <<>>

LineStart(p) == p = 1 \/ text[p - 1] = "\n"

\* Every label of the header starts a line, and no two the same.
Orderly ==
    \A p \in DOMAIN text : text[p] \in Labels =>
        /\ LineStart(p)
        /\ \A q \in DOMAIN text : text[q] = text[p] => q = p

\* The label stands nowhere but at the start of a line.
StartsLines(label) == \A p \in DOMAIN text : text[p] = label => LineStart(p)

\* A line of the label, from the label to the last token.
IsLine(label, p, q) ==
    /\ p <= q /\ text[p] = label /\ LineStart(p)
    /\ \A r \in p..q : text[r] # "\n"
    /\ q < Len(text) => text[q + 1] = "\n"

Blanks(p, q) == \A r \in p..q : text[r] = " "

\* What the first line of a label says behind its leading blanks.
Says(label, words) ==
    \E p, q \in DOMAIN text :
        /\ IsLine(label, p, q)
        /\ \A r, s \in DOMAIN text : IsLine(label, r, s) => p <= r
        /\ \E start \in (p + 1)..(q + 1) :
              Blanks(p + 1, start - 1) /\ words = SubSeq(text, start, q)
        /\ words # <<>> => words[1] # " "

\* The name is what its line says, and empty if there is no line for it.
ReadFromOwnLine(l) ==
    IF \E p, q \in DOMAIN text : IsLine(l, p, q) THEN Says(l, metadata.names[l])
                                               ELSE metadata.names[l] = <<>>

\* A label that stands nowhere but at the start of a line is found there: the
\* name is what its line says, the first if there are two, whichever other lines
\* stand before, between and behind them and whether or not the header is accepted.
NamesFromOwnLines ==
    stage = "returned" => \A l \in NameLabels : StartsLines(l) => ReadFromOwnLine(l)

\* The metadata are those that were parsed from the header (README.md:262): in one
\* that is accepted, each name is what its line says.  Not so if the label stands
\* in the line of another field too, as Language: does in X-Poedit-Language:.
NamesAreDeclared ==
    stage = "returned" /\ ~error => \A l \in NameLabels : ReadFromOwnLine(l)

\* The header has no line for the label, or an empty one.
Silent(label) == \A p, q \in DOMAIN text : IsLine(label, p, q) => Blanks(p + 1, q)

\* The charset is what the line of the content type says behind its first
\* semicolon, if the next word is charset=.
CharsetFromOwnLine ==
    \A p, q \in DOMAIN text : IsLine("Content-Type:", p, q) =>
        \A semi, word \in p..q :
            /\ text[semi] = Semicolon /\ \A r \in p..(semi - 1) : text[r] # Semicolon
            /\ semi < word /\ Blanks(semi + 1, word - 1) /\ text[word] = "charset="
            => metadata.charset = WithoutBlanks(SubSeq(text, word + 1, q))

\* The line for plural forms begins with four words, the second of them the
\* number of forms; what is behind them is the expression.
FormsFromOwnLine ==
    \E p, q \in DOMAIN text :
        /\ IsLine("Plural-Forms:", p, q)
        /\ \E plural \in (p + 1)..q :
             LET Words == {r \in (p + 1)..plural : text[r] # " "}
             IN  \E name, number, semi \in Words :
                    /\ Words = {name, number, semi, plural}
                    /\ name < number /\ number < semi /\ semi < plural
                    /\ text[name] = "nplurals=" /\ text[number] \in DOMAIN Digits
                    /\ text[semi] = Semicolon /\ text[plural] = "plural="
                    /\ metadata.num = Digits[text[number]]
                    /\ metadata.forms = SubSeq(text, plural + 1, q)

\* In an orderly header that is accepted, the other members are what the lines of
\* their labels say, in whatever order the lines are and wherever blanks stand;
\* without a Plural-Forms line there are two forms.  The charset is a supported
\* one, or none: a line without a semicolon is not understood, whatever charset it
\* declares.
FieldsFromOwnLines ==
    stage = "returned" /\ ~error /\ Orderly =>
        /\ metadata.charset \in {<<>>} \cup {<<c>> : c \in Supported}
        /\ IF Silent("Content-Type:") THEN metadata.charset = <<"UTF-8">> ELSE CharsetFromOwnLine
        /\ IF Silent("Plural-Forms:") THEN metadata.num = 2 /\ metadata.forms = DefaultForms
                                      ELSE FormsFromOwnLine
=============================================================================
