--------------------------- MODULE MCPluralForms ---------------------------
(***************************************************************************)
(* Header texts for PluralForms: up to three lines of every kind, in any   *)
(* order, and a Plural-Forms line with every short sequence of tokens or   *)
(* with operands and every operator between them.                          *)
(***************************************************************************)
EXTENDS PluralForms, TLC

ContentType(words) == <<"Content-Type:", " ">> \o words
Forms(words) == <<"Plural-Forms:", " ">> \o words

Lines ==
    {<<"Project-Id-Version:", " ", "p">>, <<"Language-Team:", "t">>,
     <<"Last-Translator:", " ", " ">>, <<"Language:", " ", " ", "de", " ">>,
     <<"X-Poedit-", "Language:", " ", "fr">>}
    \cup {ContentType(w) : w \in
       {<<"text/plain", ";", " ", "charset=", c>> : c \in {"UTF-8", "ASCII", "LATIN1"}}
       \cup {<<"text/plain">>, <<"text/plain", ";">>, <<>>,
             <<"text/plain", ";", "charset=">>,
             <<"text/plain", " ", "charset=", "LATIN1">>,
             <<"text/plain", ";", "format=flowed", ";", " ", "charset=", "LATIN1">>}}
    \cup {<<"Content-Transfer-Encoding:", " ", e>> : e \in {"8bit", "7bit"}}
    \cup {Forms(w) : w \in
       {<<"nplurals=", d, ";", " ", "plural=", "n", " ", ">", " ", "1", ";">> : d \in {"0", "3"}}
       \cup {<<>>, <<"nplurals=", "two", ";", "plural=", "n">>,
             <<"nplurals=", "3", "plural=", "n">>, <<"nplurals=", "3">>}}

RECURSIVE Joined(_)
Joined(lines) ==
    IF lines = <<>> THEN <<>>
    ELSE IF Len(lines) = 1 THEN lines[1]
    ELSE Head(lines) \o <<"\n">> \o Joined(Tail(lines))

(* Expressions *)

Tokens == {"n", "2", "(", ")", "!", "%", "<", "==", "&&", "||", "?", ":", ";"}
Short == UNION {[1..k -> Tokens] : k \in 0..4}
Nested == {<<"(">> \o s : s \in [1..4 -> {"n", "(", ")", "!", "%", "?", ":"}]}

Infix == {"%", "<", ">=", "==", "!=", "&&", "||", "?", ":"}
Operand == <<"n", "3", "n", "2", "1">>
Alternating(ops) == [i \in 1..9 |-> IF i % 2 = 1 THEN Operand[(i + 1) \div 2] ELSE ops[i \div 2]]
Chains == {Alternating(ops) : ops \in [1..4 -> Infix]}

\* The last three operands in parentheses, the second negated.
Grouped ==
    {SubSeq(s, 1, 2) \o <<"!">> \o SubSeq(s, 3, 4) \o <<"(">> \o SubSeq(s, 5, 9) \o <<")", ";">> :
        s \in Chains}

Expressions == Short \cup Nested \cup Chains \cup Grouped

MCTexts ==
    {Joined(s) : s \in UNION {[1..k -> Lines] : k \in 0..3}}
      \cup {Forms(<<"nplurals=", "2", ";", "plural=">> \o e) : e \in Expressions}

\* Headers of up to two lines, without expressions.
MCHeaders == {Joined(s) : s \in UNION {[1..k -> Lines] : k \in 0..2}}

\* Texts of five tokens, in a header with nothing else: enough for a chain.
MCFiveTokens ==
    {Forms(<<"nplurals=", "2", ";", "plural=">> \o e) : e \in [1..5 -> {"n", "2", "%", "<", "=="}]}

MCDigits == ("0" :> 0) @@ ("1" :> 1) @@ ("2" :> 2) @@ ("3" :> 3)
MCNumbers == 0..4
=============================================================================
