----------------------------- MODULE PoCatalog -----------------------------
(***************************************************************************)
(* The constructor of a catalog reading a file: the steps of module        *)
(* Catalog, with headers and entries that the grammar of module PoGrammar  *)
(* finds in a sequence of tokens.  What parse_header and the compiler make *)
(* of the text of a header is still abstract, see HeaderMetadata and       *)
(* PluralGrammar.                                                          *)
(***************************************************************************)
EXTENDS Catalog

CONSTANTS
    Files,      \* sequences of tokens
    StrKeys,    \* the keywords msgstr[0], msgstr[1], ...
    Meaning(_)  \* parse_header and the plural-forms compiler: what they make
                \* of a header's text, the fields of a Header but its message

Po == INSTANCE PoGrammar

White == {" ", "\t", "\r", "\n"}

\* What else the rules tell apart by a token of its own: the other keywords and layout.
Reserved == {"", "#", "\"", "msgctxt ", "msgid ", "msgid_plural ", "msgstr "} \cup White

\* There is a keyword for each index, at least for the first, and it stands for nothing else.
ASSUME KeysAssumption ==
    /\ StrKeys \in Seq(STRING) /\ StrKeys # <<>>
    /\ \A i, j \in DOMAIN StrKeys : StrKeys[i] = StrKeys[j] => i = j
    /\ \A i \in DOMAIN StrKeys : StrKeys[i] \notin Reserved

\* Texts are made of what tokens stand for.
ASSUME TokensAssumption ==
    \A f \in Files : f \in Seq(STRING) /\ \A i \in DOMAIN f : Po!Decoded(f[i]) \in Atom

ASSUME MeaningAssumption ==
    \A f \in Files :
        LET parsed == Po!Message(f, Po!SkippedBlock(f, 1))
        IN  parsed.next # Po!Fail =>
              Meaning(parsed.message.strings[1]) \in
                [accepted : BOOLEAN, num : Nat, compiles : BOOLEAN, plural : [Counts -> Nat]]

VARIABLES
    file,       \* the range between the iterators given to the constructor
    pos,        \* the position of its iterator
    rounds,     \* history: how often the loop of the constructor has run
    starts      \* history: where each entry in the log begins

poVars == <<vars, file, pos, rounds, starts>>
-----------------------------------------------------------------------------
PoInit ==
    /\ Init
    /\ file \in Files
    /\ pos = 1
    /\ rounds = 0
    /\ starts = <<>>

HeaderStart == Po!SkippedBlock(file, 1)

HeaderFrom(message, about) ==
    [message |-> message, accepted |-> about.accepted, num |-> about.num,
     compiles |-> about.compiles, plural |-> about.plural]

LoadFrom(c, header, w) ==
    \/ LoadBadHeader(c, header, w)
    \/ LoadBadPluralForms(c, header, w)
    \/ LoadBadSingular(c, header, w)
    \/ LoadHeader(c, header, w)

\* Comments are skipped and the first message is parsed: the header.
ReadHeader(c, w) ==
    \E parsed \in {Po!Message(file, HeaderStart)} :
        /\ \/ parsed.next = Po!Fail /\ LoadUnparsable(c, w) /\ pos' = HeaderStart
           \/ /\ parsed.next # Po!Fail
              /\ LoadFrom(c, HeaderFrom(parsed.message, Meaning(parsed.message.strings[1])), w)
              /\ pos' = parsed.next
        /\ starts' = <<HeaderStart>>
        /\ rounds' = 0
        /\ UNCHANGED file

\* What the loop finds before the next message: where that begins, and whether
\* it is marked fuzzy.
Preamble == Po!MessagePreamble(file, Po!IgnoredComments(file, pos))

\* Mutant: the position that the comments were read to is forgotten.
ReadLastCommentsTwice(c) ==
    /\ status[c] = "loading"
    /\ pos <= Len(file)
    /\ Preamble.next > Len(file)
    /\ rounds' = rounds + 1
    /\ UNCHANGED <<vars, file, pos, starts>>

\* A round of the loop in which comments exhaust the file.
ReadLastComments(c) ==
    /\ status[c] = "loading"
    /\ pos <= Len(file)
    /\ Preamble.next > Len(file)
    /\ pos' = Preamble.next
    /\ rounds' = rounds + 1
    /\ UNCHANGED <<vars, file, starts>>

\* A round that parses a message, or fails to.
ReadMessage(c) ==
    \E preamble \in {Preamble} : \E parsed \in {Po!Message(file, preamble.next)} :
        /\ pos <= Len(file)
        /\ preamble.next <= Len(file)
        /\ \/ /\ parsed.next = Po!Fail
              /\ ReadUnparsable(c)
              /\ pos' = preamble.next
              /\ UNCHANGED starts
           \/ /\ parsed.next # Po!Fail
              /\ ReadSecondHeader(c, parsed.message)
              /\ pos' = parsed.next
              /\ UNCHANGED starts
           \/ /\ parsed.next # Po!Fail
              /\ ReadEntry(c, parsed.message, preamble.fuzzy)
              /\ pos' = parsed.next
              /\ starts' = Append(starts, preamble.next)
        /\ rounds' = rounds + 1
        /\ UNCHANGED file

\* The loop ends when the iterator is at the end of the file.
Finish(c) ==
    /\ pos > Len(file)
    /\ FinishLoad(c)
    /\ UNCHANGED <<file, pos, rounds, starts>>

\* The load is over and the client does nothing more.
Over == loads > 0 /\ Idle /\ UNCHANGED poVars

PoNext ==
    \E c \in Cat :
        \/ \E w \in BOOLEAN : ReadHeader(c, w)
        \/ ReadLastComments(c)
        \/ ReadMessage(c)
        \/ Finish(c)
        \/ Over

PoSpec == PoInit /\ [][PoNext]_poVars
-----------------------------------------------------------------------------
(* Properties *)

\* The grammar hands the constructor nothing but messages with at least one
\* string, which module Catalog assumes of its files.
PoTypeOK ==
    /\ TypeOK
    /\ pos \in 1..(Len(file) + 1)
    /\ starts \in Seq(1..(Len(file) + 1))
    /\ \A c \in Cat : \A i \in DOMAIN log[c] : log[c][i].message.strings # <<>>

\* Every round of the loop consumes something, though its first two rules match
\* nothing too: a load is over after as many rounds as the file is long.  (No
\* deadlock is the other half: a round is always possible until the end.)
RoundsConsume == rounds < pos

\* Behind which keyword of an entry which other may stand; no keyword is behind "".
LastParts == {"", "msgstr "} \cup {StrKeys[i] : i \in DOMAIN StrKeys}
Parts == LastParts \cup {"msgctxt ", "msgid ", "msgid_plural "}
Order ==
    (LastParts \X {"msgctxt ", "msgid "})
      \cup {<<"msgctxt ", "msgid ">>, <<"msgid ", "msgstr ">>, <<"msgid ", "msgid_plural ">>,
            <<"msgid_plural ", StrKeys[1]>>}
      \cup {<<StrKeys[i - 1], StrKeys[i]>> : i \in 2..Len(StrKeys)}

\* Where the comment line, white line or piece of a string at p ends; nothing
\* but a last comment may end with the file.
Behind(f, p) ==
    LET newline == Po!First(f, p, LAMBDA t : t = "\n")
        quote   == Po!First(f, p + 1, LAMBDA t : t \in {"\"", "\\"})
        black   == Po!First(f, p, LAMBDA t : t \notin {" ", "\t", "\r"})
    IN  CASE f[p] = "#" -> newline + 1
          [] f[p] = "\"" -> IF Po!At(f, quote, "\"") THEN quote + 1 ELSE Po!Fail
          [] OTHER -> IF Po!At(f, black, "\n") THEN black + 1 ELSE Po!Fail

\* What stands at p behind keyword part: where it ends, and behind which keyword
\* the file goes on.
Item(f, p, part) ==
    IF <<part, f[p]>> \in Order
    THEN <<IF Po!At(f, p + 1, "\"") THEN Behind(f, p + 1) ELSE Po!Fail, f[p]>>
    ELSE <<IF f[p] = "\"" /\ part = "" THEN Po!Fail ELSE Behind(f, p), part>>

\* A file of complete entries: keywords in order, each with a string, and
\* further pieces of strings, comments and white lines behind any of them.
InOrder(f) ==
    LET rest[at \in (0..(Len(f) + 2)) \X Parts] ==
          IF at[1] > Len(f) THEN at[2] \in LastParts
          ELSE at[1] # Po!Fail /\ rest[Item(f, at[1], at[2])]
    IN  rest[<<1, "">>]

\* The first msgid is empty, and no other is.
OneHeader(f) ==
    {q \in DOMAIN f : f[q] = "msgid " /\ LET id == Po!MultilineString(f, q + 1)
                                         IN  id.next # Po!Fail /\ id.text = <<>>}
      = {Po!SkippedBlock(f, 1)}

\* The text of the header makes sense.
UsableHeader(f) ==
    LET about == Meaning(Po!Message(f, Po!SkippedBlock(f, 1)).message.strings[1])
    IN  about.accepted /\ about.compiles /\ about.plural[1] < about.num

Legible(f) == InOrder(f) /\ OneHeader(f) /\ UsableHeader(f)

\* A file of complete entries with a good header always loads, without an error:
\* comments, white lines, carriage returns and a missing newline after the last
\* comment never make it fail, wherever they stand between and inside the entries.
LegibleLoads ==
    loads > 0 /\ Legible(file) =>
      \E c \in Cat : status[c] \in {"loading", "live"} /\ ~cat[c].error

\* The comment lines that stand directly before position p.
CommentsBefore(p) ==
    LET Lines == {q \in pos..(p - 1) : q = pos \/ file[q - 1] = "\n"}
    IN  {q \in Lines : \A r \in Lines : r >= q => file[r] = "#"}

\* The comment at q is a list of flags with fuzzy among them.
HasFuzzyFlag(q) ==
    /\ file[q + 1] = ","
    /\ \E i \in q..(Len(file) - 1) :
          file[i] = "," /\ file[i + 1] = " fuzzy" /\ \A r \in q..i : file[r] # "\n"

\* An entry is held back as fuzzy exactly if one of the comment lines directly
\* before it says so: not for a marker that a white line, another entry or a
\* continued string separates from it, and wherever in the block the marker is.
FuzzyAsMarked ==
    [][\A c \in Cat : Len(starts') = Len(starts) + 1 /\ status[c] = "loading" =>
         LET entry == log'[c][Len(log'[c])]
             start == starts'[Len(starts')]
         IN  entry.fuzzy <=> \E q \in CommentsBefore(start) : HasFuzzyFlag(q)]_poVars

\* The line number that the catalog gives for a msgid is where an entry begins,
\* not a comment before it: one with that msgid and context, and of entries that
\* replace one another, one that reads as the message in effect does.
LineNumbersFindEntries ==
    \A c \in InUse : \A id \in Ids :
        LET Points(l, key, ctx) ==
              l > 0 => /\ file[starts[l + 1]] \in {"msgctxt ", "msgid "}
                       /\ LET m == Po!Message(file, starts[l + 1]).message
                          IN  /\ m.id = id /\ m.context = ctx
                              /\ cat[c].map[key] = [m EXCEPT !.line = l]
        IN  /\ Points(GettextLineNo(cat[c], id), id, NoContext)
            /\ \A ctx \in Contexts :
                 Points(PGettextLineNo(cat[c], ctx, id), FormContextIndex(ctx, id), ctx)

\* The tokens of the file that are neither layout nor comment, with strings
\* unquoted.
Significant ==
    LET End(p, t) == Po!First(file, p, LAMBDA u : u = t)
        Content(p, q) == [i \in 1..(q - p) |-> Po!Decoded(file[p + i - 1])]
        from[p \in 1..(Len(file) + 2)] ==
          IF p > Len(file) THEN <<>>
          ELSE CASE file[p] = "#" -> from[End(p, "\n")]
                 [] file[p] \in White -> from[p + 1]
                 [] file[p] = "\"" ->
                      Content(p + 1, End(p + 1, "\"")) \o from[End(p + 1, "\"") + 1]
                 [] OTHER -> <<file[p]>> \o from[p + 1]
    IN  from[1]

\* A message as a file has it, with its strings in the order of their indices.
Written(m) ==
    LET Form[i \in 0..Len(m.strings)] ==
          IF i = 0 THEN <<>> ELSE Form[i - 1] \o <<StrKeys[i]>> \o m.strings[i]
    IN  (IF m.context = NoContext THEN <<>> ELSE <<"msgctxt ">> \o m.context)
        \o <<"msgid ">> \o m.id
        \o IF m.idPlural = <<>> /\ Len(m.strings) = 1
           THEN <<"msgstr ">> \o m.strings[1]
           ELSE <<"msgid_plural ">> \o m.idPlural \o Form[Len(m.strings)]

\* A file that loads was read completely: written down, the messages found in
\* it are what it says, with no string dropped, merged or reordered.
NothingLost ==
    \A c \in Cat : status[c] = "live" =>
        LET All[i \in 0..Len(log[c])] ==
              IF i = 0 THEN <<>> ELSE All[i - 1] \o Written(log[c][i].message)
        IN  All[Len(log[c])] = Significant

\* What po_grammar.hpp says of the rules for comments: they consume the entire
\* file if only whitespace lines remain, whether or not it ends in new-line.
WhiteRestIsConsumed ==
    [][\A c \in Cat :
         status[c] = "loading" /\ (\A i \in pos..Len(file) : file[i] \in White)
           => status'[c] # "none"]_poVars
=============================================================================
