------------------------ MODULE HeaderMetadataProofs ------------------------
(***************************************************************************)
(* For every header text: a rejected header leaves no plural forms behind, *)
(* a name whose label only starts lines is what its line says, and in an   *)
(* accepted header with all labels in order so are the other members.      *)
(***************************************************************************)
EXTENDS HeaderMetadata, Descent

HasNoForms == metadata.num = 0 /\ metadata.forms = <<>>

\* The inductive invariant: the members for plural forms are the last that are
\* assigned, so that a header rejected before has none yet.
Inv ==
    /\ {"num", "forms"} \subseteq DOMAIN metadata
    /\ stage # "returned" \/ error => HasNoForms

\* Assigning another member of the metadata leaves the plural forms alone.
LEMMA OtherMember ==
    ASSUME Inv, HasNoForms, NEW member \in {"names", "charset"}, NEW value,
           metadata' = [metadata EXCEPT ![member] = value]
    PROVE  /\ {"num", "forms"} \subseteq DOMAIN metadata'
           /\ HasNoForms'
BY DEF Inv, HasNoForms

\* Nothing has been read in the beginning.
LEMMA InitEstablishesInv == Init => Inv
BY DEF Init, Inv, HasNoForms

\* Every step assigns the members for plural forms last, or not at all.
LEMMA NextKeepsInv == Inv /\ [Next]_vars => Inv'
<1> SUFFICES ASSUME Inv, [Next]_vars
             PROVE  Inv'
  OBVIOUS
<1>1. CASE ReadNames
  <2>1. HasNoForms
    BY <1>1 DEF ReadNames, Inv
  <2>2. PICK value : metadata' = [metadata EXCEPT !["names"] = value]
    BY <1>1 DEF ReadNames
  <2> QED BY <2>1, <2>2, OtherMember DEF Inv
<1>2. CASE ReadCharset
  <2>1. HasNoForms
    BY <1>2 DEF ReadCharset, Inv
  <2>2. PICK value : metadata' = [metadata EXCEPT !["charset"] = value]
    BY <1>2 DEF ReadCharset
  <2> QED BY <2>1, <2>2, OtherMember DEF Inv
<1>3. CASE ReadEncoding
  BY <1>3 DEF ReadEncoding, Inv, HasNoForms
<1>4. CASE ReadPluralForms
  <2> DEFINE line == FindHeaderLine("Plural-Forms:")
             parsed == NumPlurals(line).parsed
  <2>1. DOMAIN metadata' = DOMAIN metadata
    BY <1>4 DEF ReadPluralForms
  <2>2. CASE line # <<>> /\ ~parsed
    <3>1. metadata' = [metadata EXCEPT !.num = 0, !.forms = <<>>]
      BY <1>4, <2>2 DEF ReadPluralForms
    <3>2. HasNoForms'
      BY <3>1 DEF Inv, HasNoForms
    <3> QED BY <2>1, <3>2 DEF Inv
  <2>3. CASE ~(line # <<>> /\ ~parsed)
    <3>1. ~error' /\ stage' = "returned"
      BY <1>4, <2>3 DEF ReadPluralForms
    <3> QED BY <2>1, <3>1 DEF Inv
  <2> QED BY <2>2, <2>3
<1>5. CASE Returned \/ UNCHANGED vars
  BY <1>5 DEF Returned, vars, Inv, HasNoForms
<1> QED BY <1>1, <1>2, <1>3, <1>4, <1>5 DEF Next

\* For all header texts and numbers: a rejected header has no plural forms.
THEOREM RejectedHeadersHaveNoForms == Spec => []RejectedHasNoForms
<1>1. Inv => RejectedHasNoForms
  BY DEF Inv, HasNoForms, RejectedHasNoForms
<1> QED BY <1>1, InitEstablishesInv, NextKeepsInv, PTL DEF Spec
-----------------------------------------------------------------------------
(* Searches *)

\* A search for a token finds the first one, or ends behind the text.
LEMMA FirstFacts ==
    ASSUME NEW s \in Seq(STRING), NEW p \in 1..(Len(s) + 1), NEW t
    PROVE  /\ First(s, p, t) \in p..(Len(s) + 1)
           /\ First(s, p, t) <= Len(s) => s[First(s, p, t)] = t
           /\ \A r \in p..(First(s, p, t) - 1) : s[r] # t
<1> DEFINE n == Len(s) + 1
           T == {q \in 1..Len(s) : s[q] = t}
           Found(q) == (q <= Len(s) => s[q] = t) /\ \A r \in p..(q - 1) : s[r] # t
<1>1. n \in Nat /\ Len(s) \in Nat /\ p \in 1..n /\ T \in SUBSET Nat
  OBVIOUS
<1>2. PICK q \in p..n : (q < n => q \in T) /\ \A r \in p..(q - 1) : r \notin T
  <2> HIDE DEF n, T
  <2> QED BY <1>1, Least
<1>3. Found(q)
  BY <1>1, <1>2
<1>4. First(s, p, t) = CHOOSE x \in p..n : Found(x)
  BY DEF First
<1> HIDE DEF Found
<1>5. First(s, p, t) \in p..n /\ Found(First(s, p, t))
  BY <1>2, <1>3, <1>4
<1> QED BY <1>5 DEF Found

\* A search for what is not that token, in the same way.
LEMMA FirstNotFacts ==
    ASSUME NEW s \in Seq(STRING), NEW p \in 1..(Len(s) + 1), NEW t
    PROVE  /\ FirstNot(s, p, t) \in p..(Len(s) + 1)
           /\ FirstNot(s, p, t) <= Len(s) => s[FirstNot(s, p, t)] # t
           /\ \A r \in p..(FirstNot(s, p, t) - 1) : s[r] = t
<1> DEFINE n == Len(s) + 1
           T == {q \in 1..Len(s) : s[q] # t}
           Found(q) == (q <= Len(s) => s[q] # t) /\ \A r \in p..(q - 1) : s[r] = t
<1>1. n \in Nat /\ Len(s) \in Nat /\ p \in 1..n /\ T \in SUBSET Nat
  OBVIOUS
<1>2. PICK q \in p..n : (q < n => q \in T) /\ \A r \in p..(q - 1) : r \notin T
  <2> HIDE DEF n, T
  <2> QED BY <1>1, Least
<1>3. Found(q)
  BY <1>1, <1>2
<1>4. FirstNot(s, p, t) = CHOOSE x \in p..n : Found(x)
  BY DEF FirstNot
<1> HIDE DEF Found
<1>5. FirstNot(s, p, t) \in p..n /\ Found(FirstNot(s, p, t))
  BY <1>2, <1>3, <1>4
<1> QED BY <1>5 DEF Found
-----------------------------------------------------------------------------
(* find_header_line *)

Present(label) == \E p \in DOMAIN text : text[p] = label

\* A label that is not in the text has no line.
LEMMA AbsentLabel ==
    ASSUME text \in Seq(STRING), NEW label, ~Present(label)
    PROVE  FindHeaderLine(label) = <<>>
<1> DEFINE p == First(text, 1, label)
<1>1. p \in 1..(Len(text) + 1) /\ (p <= Len(text) => text[p] = label)
  BY FirstFacts
<1>2. p > Len(text)
  BY <1>1 DEF Present
<1> QED BY <1>2 DEF FindHeaderLine

\* What find_header_line returns stands from start to q, behind the first label,
\* at p.
LineAt(label, p, start, q) ==
    /\ p \in DOMAIN text /\ q \in DOMAIN text /\ start \in (p + 1)..(q + 1)
    /\ IsLine(label, p, q) /\ \A r \in 1..(p - 1) : text[r] # label
    /\ Blanks(p + 1, start - 1) /\ (start <= q => text[start] # " ")
    /\ FindHeaderLine(label) = SubSeq(text, start, q)

\* The line of a label that is in the text, at the start of lines: from the first
\* token behind it that is not a blank to the last one before the next newline.
LEMMA LineOfLabel ==
    ASSUME text \in Seq(STRING), NEW label, label # "\n", Present(label), StartsLines(label)
    PROVE  \E p, start, q : LineAt(label, p, start, q)
<1>a. Len(text) \in Nat /\ DOMAIN text = 1..Len(text)
  OBVIOUS
<1>1. PICK p \in 1..Len(text) :
        /\ p = First(text, 1, label) /\ text[p] = label
        /\ \A r \in 1..(p - 1) : text[r] # label
  <2>1. PICK k \in DOMAIN text : text[k] = label
    BY DEF Present
  <2>2. PICK f : f = First(text, 1, label)
    OBVIOUS
  <2>3. /\ f \in 1..(Len(text) + 1)
        /\ f <= Len(text) => text[f] = label
        /\ \A r \in 1..(f - 1) : text[r] # label
    BY <1>a, <2>2, FirstFacts
  <2>4. f <= k
    BY <1>a, <2>1, <2>3
  <2>5. f \in 1..Len(text)
    BY <1>a, <2>1, <2>3, <2>4
  <2> QED BY <2>2, <2>3, <2>5
<1>b. p \in Nat /\ 1 <= p /\ p <= Len(text) /\ p + 1 \in 1..(Len(text) + 1)
  BY <1>a
<1>2. PICK start \in (p + 1)..(Len(text) + 1) :
        /\ start = FirstNot(text, p + 1, " ")
        /\ start <= Len(text) => text[start] # " "
        /\ \A r \in (p + 1)..(start - 1) : text[r] = " "
  <2>1. PICK f : f = FirstNot(text, p + 1, " ")
    OBVIOUS
  <2>2. /\ f \in (p + 1)..(Len(text) + 1)
        /\ f <= Len(text) => text[f] # " "
        /\ \A r \in (p + 1)..(f - 1) : text[r] = " "
    BY <1>b, <2>1, FirstNotFacts
  <2> QED BY <2>1, <2>2
<1>c. start \in Nat /\ p + 1 <= start /\ start <= Len(text) + 1
  BY <1>a, <1>b
<1>3. PICK end \in start..(Len(text) + 1) :
        /\ end = First(text, start, "\n")
        /\ end <= Len(text) => text[end] = "\n"
        /\ \A r \in start..(end - 1) : text[r] # "\n"
  <2>1. start \in 1..(Len(text) + 1)
    BY <1>a, <1>b, <1>c
  <2> QED BY <2>1, FirstFacts
<1>d. end \in Nat /\ start <= end /\ end <= Len(text) + 1
  BY <1>a, <1>c
<1> DEFINE q == end - 1
           words == SubSeq(text, start, q)
<1>4. FindHeaderLine(label) = words
  <2>1. ~(p > Len(text))
    BY <1>a, <1>b
  <2>2. FindHeaderLine(label) =
          IF p > Len(text) THEN <<>>
          ELSE SubSeq(text, FirstNot(text, p + 1, " "),
                      First(text, FirstNot(text, p + 1, " "), "\n") - 1)
    BY <1>1 DEF FindHeaderLine
  <2> QED BY <2>1, <2>2, <1>2, <1>3
<1>5. p \in DOMAIN text /\ q \in DOMAIN text /\ p <= q /\ start \in (p + 1)..(q + 1)
  BY <1>a, <1>b, <1>c, <1>d
<1>6. ASSUME NEW r \in p..q
      PROVE  text[r] # "\n"
  <2>1. CASE r = p
    BY <2>1, <1>1
  <2>2. CASE r \in (p + 1)..(start - 1)
    BY <2>2, <1>2
  <2>3. CASE r \in start..(end - 1)
    BY <2>3, <1>3
  <2>4. r = p \/ r \in (p + 1)..(start - 1) \/ r \in start..(end - 1)
    BY <1>b, <1>c, <1>d
  <2> QED BY <2>1, <2>2, <2>3, <2>4
<1>7. q < Len(text) => text[q + 1] = "\n"
  <2>1. q + 1 = end /\ (q < Len(text) => end <= Len(text))
    BY <1>a, <1>d
  <2> QED BY <2>1, <1>3
<1>8. Blanks(p + 1, start - 1)
  BY <1>2 DEF Blanks
<1>9. start <= q => text[start] # " "
  <2>1. start <= q => start <= Len(text)
    BY <1>a, <1>d
  <2> QED BY <2>1, <1>2
<1>10. IsLine(label, p, q)
  <2>1. LineStart(p)
    BY <1>1, <1>5 DEF StartsLines
  <2> QED BY <1>1, <1>5, <1>6, <1>7, <2>1 DEF IsLine
<1> HIDE DEF q, words
<1> QED BY <1>1, <1>4, <1>5, <1>8, <1>9, <1>10 DEF LineAt, words

\* A line of n tokens is what stands from start to q.
Stands(line, n, start, q) ==
    /\ line \in Seq(STRING) /\ n = Len(line)
    /\ \A i \in 1..n : line[i] = text[(start + i) - 1]
    /\ \A i \in 0..n : From(line, i + 1) = SubSeq(text, start + i, q)

\* Where its tokens stand.
LEMMA LineTokens ==
    ASSUME text \in Seq(STRING), NEW label, NEW p, NEW start, NEW q, LineAt(label, p, start, q),
           NEW line, line = FindHeaderLine(label)
    PROVE  /\ p \in Nat /\ start \in Nat /\ q \in Nat /\ Len(text) \in Nat
           /\ 1 <= p /\ p < start /\ start <= q + 1 /\ p <= q /\ q <= Len(text)
           /\ Len(line) = (q - start) + 1 /\ Len(line) \in Nat
           /\ Stands(line, Len(line), start, q)
<1>1. Len(text) \in Nat /\ DOMAIN text = 1..Len(text)
  OBVIOUS
<1>2. p \in 1..Len(text) /\ q \in 1..Len(text)
  BY <1>1 DEF LineAt
<1>3. p \in Nat /\ q \in Nat /\ 1 <= p /\ q <= Len(text)
  BY <1>1, <1>2
<1>4. start \in (p + 1)..(q + 1) /\ p <= q /\ line = SubSeq(text, start, q)
  BY DEF LineAt, IsLine
<1>5. start \in Nat /\ p < start /\ start <= q + 1
  BY <1>3, <1>4
<1>6. line \in Seq(STRING) /\ Len(line) = (q - start) + 1
  BY <1>1, <1>3, <1>4, <1>5
<1>7. ASSUME NEW i \in 1..Len(line)
      PROVE  line[i] = text[(start + i) - 1]
  BY <1>1, <1>3, <1>4, <1>5
<1>8. ASSUME NEW i \in 0..Len(line)
      PROVE  From(line, i + 1) = SubSeq(text, start + i, q)
  <2>1. PICK u, v : u = SubSeq(line, i + 1, Len(line)) /\ v = SubSeq(text, start + i, q)
    OBVIOUS
  <2>2. u \in Seq(STRING) /\ v \in Seq(STRING) /\ Len(u) = Len(line) - i /\ Len(v) = Len(u)
    BY <1>1, <1>3, <1>5, <1>6, <2>1
  <2>3. ASSUME NEW j \in 1..Len(u)
        PROVE  u[j] = v[j]
    <3>1. i + j \in 1..Len(line) /\ u[j] = line[i + j]
      <4>1. j \in Nat /\ 1 <= j /\ j <= Len(line) - i /\ i \in Nat /\ Len(line) \in Nat
        BY <1>6, <2>2
      <4>2. i + j \in 1..Len(line) /\ ((i + 1) + j) - 1 = i + j
        BY <4>1
      <4>3. u[j] = line[((i + 1) + j) - 1]
        BY <1>6, <2>1, <4>1
      <4> QED BY <4>2, <4>3
    <3>2. v[j] = text[((start + i) + j) - 1]
      BY <1>1, <1>3, <1>5, <1>6, <2>1, <2>2
    <3>3. (start + (i + j)) - 1 = ((start + i) + j) - 1
      BY <1>5, <1>6, <2>2
    <3> QED BY <1>7, <3>1, <3>2, <3>3
  <2>4. u = v
    BY <2>2, <2>3
  <2> QED BY <2>1, <2>4 DEF From
<1>9. Stands(line, Len(line), start, q)
  BY <1>6, <1>7, <1>8 DEF Stands
<1>10. Len(line) \in Nat
  BY <1>6
<1> QED BY <1>1, <1>3, <1>4, <1>5, <1>6, <1>9, <1>10

\* What it returns is what the line says.
LEMMA LineSays ==
    ASSUME text \in Seq(STRING), NEW label, NEW p, NEW start, NEW q, LineAt(label, p, start, q)
    PROVE  Says(label, FindHeaderLine(label))
<1>1. PICK words : words = FindHeaderLine(label)
  OBVIOUS
<1>2. /\ start \in Nat /\ q \in Nat /\ words \in Seq(STRING)
      /\ Len(words) = (q - start) + 1
      /\ \A i \in 1..Len(words) : words[i] = text[(start + i) - 1]
  BY <1>1, LineTokens DEF Stands
<1>3. ASSUME words # <<>>
      PROVE  words[1] # " "
  <2>1. Len(words) \in Nat \ {0}
    BY <1>2, <1>3
  <2>2. start <= q /\ 1 \in 1..Len(words) /\ (start + 1) - 1 = start
    BY <1>2, <2>1
  <2> QED BY <1>2, <2>2 DEF LineAt
<1>4. words = SubSeq(text, start, q)
  BY <1>1 DEF LineAt
<1>5. /\ p \in DOMAIN text /\ q \in DOMAIN text /\ IsLine(label, p, q)
      /\ start \in (p + 1)..(q + 1) /\ Blanks(p + 1, start - 1)
  BY DEF LineAt
<1>6. ASSUME NEW r \in DOMAIN text, NEW s \in DOMAIN text, IsLine(label, r, s)
      PROVE  p <= r
  <2>1. r \in Nat /\ p \in Nat /\ 1 <= r
    BY <1>5
  <2>2. r \notin 1..(p - 1)
    BY <1>6 DEF LineAt, IsLine
  <2> QED BY <2>1, <2>2
<1> QED BY <1>1, <1>3, <1>4, <1>5, <1>6 DEF Says

\* In an orderly header a label has one line.
LEMMA OneLine ==
    ASSUME text \in Seq(STRING), Orderly, NEW label \in Labels,
           NEW p \in DOMAIN text, NEW q \in DOMAIN text, IsLine(label, p, q),
           NEW r \in DOMAIN text, NEW s \in DOMAIN text, IsLine(label, r, s)
    PROVE  p = r /\ q = s
<1>1. DOMAIN text = 1..Len(text) /\ Len(text) \in Nat
  OBVIOUS
<1>2. text[p] = label /\ text[r] = label
  BY DEF IsLine
<1>3. p = r
  BY <1>2 DEF Orderly
<1>4. ASSUME NEW x \in DOMAIN text, NEW y \in DOMAIN text, IsLine(label, p, x), IsLine(label, p, y), x < y
      PROVE  FALSE
  <2>1. x + 1 \in p..y /\ x < Len(text)
    BY <1>1, <1>4 DEF IsLine
  <2> QED BY <1>4, <2>1 DEF IsLine
<1>5. ~(q < s) /\ ~(s < q)
  BY <1>3, <1>4
<1> QED BY <1>1, <1>3, <1>5

\* What is returned is empty exactly if the line is blank, or there is none.
LEMMA EmptyLine ==
    ASSUME text \in Seq(STRING), Orderly, NEW label \in Labels, label # "\n"
    PROVE  FindHeaderLine(label) = <<>> <=> Silent(label)
<1>a. StartsLines(label)
  BY DEF Orderly, StartsLines
<1>1. CASE ~Present(label)
  <2>1. Silent(label)
    BY <1>1 DEF Silent, IsLine, Present
  <2> QED BY <1>1, <2>1, AbsentLabel
<1>2. CASE Present(label)
  <2>1. PICK p, start, q : LineAt(label, p, start, q)
    BY <1>a, <1>2, LineOfLabel
  <2>2. PICK line : line = FindHeaderLine(label)
    OBVIOUS
  <2>3. /\ p \in Nat /\ start \in Nat /\ q \in Nat /\ p < start /\ start <= q + 1
        /\ line \in Seq(STRING) /\ Len(line) = (q - start) + 1
    BY <2>1, <2>2, LineTokens DEF Stands
  <2>4. line = <<>> <=> start = q + 1
    BY <2>3
  <2>5. /\ p \in DOMAIN text /\ q \in DOMAIN text /\ IsLine(label, p, q)
        /\ Blanks(p + 1, start - 1) /\ (start <= q => text[start] # " ")
    BY <2>1 DEF LineAt
  <2>6. Silent(label) <=> Blanks(p + 1, q)
    BY <2>5, OneLine DEF Silent
  <2>7. CASE start = q + 1
    <3>1. start - 1 = q
      BY <2>3, <2>7
    <3> QED BY <2>2, <2>4, <2>5, <2>6, <2>7, <3>1
  <2>8. CASE start # q + 1
    <3>1. start <= q /\ start \in (p + 1)..q
      BY <2>3, <2>8
    <3>2. ~Blanks(p + 1, q)
      BY <2>5, <3>1 DEF Blanks
    <3> QED BY <2>2, <2>4, <2>6, <2>8, <3>2
  <2> QED BY <2>7, <2>8
<1> QED BY <1>1, <1>2

\* The skipper goes to the next token that is no blank.
LEMMA NextWordFacts ==
    ASSUME NEW s \in Seq(STRING), NEW p \in 0..(Len(s) + 1)
    PROVE  /\ NextWord(s, p) \in 1..(Len(s) + 1)
           /\ p <= Len(s) => NextWord(s, p) > p
           /\ NextWord(s, p) <= Len(s) => s[NextWord(s, p)] # " " /\ p < NextWord(s, p)
           /\ \A r \in (p + 1)..(NextWord(s, p) - 1) : s[r] = " "
<1>1. Len(s) \in Nat /\ p \in Nat
  OBVIOUS
<1>2. PICK w : w = NextWord(s, p)
  OBVIOUS
<1>3. CASE p < Len(s)
  <2>1. p + 1 \in 1..(Len(s) + 1)
    BY <1>1, <1>3
  <2>4. w = FirstNot(s, p + 1, " ")
    BY <1>2, <1>3 DEF NextWord
  <2>2. /\ w \in (p + 1)..(Len(s) + 1)
        /\ w <= Len(s) => s[w] # " "
        /\ \A r \in (p + 1)..(w - 1) : s[r] = " "
    BY <2>1, <2>4, FirstNotFacts
  <2>3. w \in 1..(Len(s) + 1) /\ w > p
    <3>1. w \in (p + 1)..(Len(s) + 1)
      BY <2>2
    <3>2. PICK n \in Nat : n = Len(s)
      BY <1>1
    <3>3. w \in 1..(n + 1) /\ w > p
      BY <1>1, <3>1, <3>2
    <3> QED BY <3>2, <3>3
  <2> QED BY <1>2, <2>2, <2>3
<1>4. CASE ~(p < Len(s))
  <2>1. w = Len(s) + 1
    BY <1>2, <1>4 DEF NextWord
  <2>2. w \in 1..(Len(s) + 1) /\ ~(w <= Len(s)) /\ (p <= Len(s) => w > p)
        /\ \A r \in (p + 1)..(w - 1) : FALSE
    BY <1>1, <1>4, <2>1
  <2> QED BY <1>2, <2>2
<1> QED BY <1>3, <1>4

\* It is neither a label nor a blank.
LEMMA SemicolonFacts == Semicolon # "Content-Type:" /\ Semicolon # " "
BY DEF Semicolon

\* What content_type_grammar finds behind the first semicolon.
LEMMA CharsetRead ==
    ASSUME text \in Seq(STRING), NEW p, NEW start, NEW q, LineAt("Content-Type:", p, start, q),
           NEW line, line = FindHeaderLine("Content-Type:"),
           NEW semi \in p..q, text[semi] = Semicolon, \A r \in p..(semi - 1) : text[r] # Semicolon,
           NEW word \in p..q, semi < word, Blanks(semi + 1, word - 1), text[word] = "charset="
    PROVE  /\ line # <<>> /\ First(line, 1, Semicolon) <= Len(line)
           /\ Charset(line) = WithoutBlanks(SubSeq(text, word + 1, q))
<1>1. PICK n : n = Len(line)
  OBVIOUS
<1>2. /\ p \in Nat /\ start \in Nat /\ q \in Nat /\ n \in Nat
      /\ p < start /\ start <= q + 1 /\ n = (q - start) + 1
  <2>1. Len(line) \in Nat /\ Len(line) = (q - start) + 1
    BY LineTokens
  <2> QED BY <1>1, <2>1, LineTokens
<1>3. /\ line \in Seq(STRING)
      /\ \A i \in 1..n : line[i] = text[(start + i) - 1]
      /\ \A i \in 0..n : From(line, i + 1) = SubSeq(text, start + i, q)
  <2>1. Stands(line, n, start, q)
    BY <1>1, LineTokens
  <2> QED BY <2>1 DEF Stands
<1>4. text[p] = "Content-Type:" /\ Blanks(p + 1, start - 1)
  BY DEF LineAt, IsLine
<1>5. semi \in Nat /\ word \in Nat /\ p <= semi /\ semi < word /\ word <= q
  BY <1>2
<1>6. start <= semi
  <2>1. semi # p
    BY <1>4, SemicolonFacts
  <2>2. semi \notin (p + 1)..(start - 1)
    BY <1>4, SemicolonFacts DEF Blanks
  <2> QED BY <1>2, <1>5, <2>1, <2>2
<1>7. PICK a \in Nat : a = (semi - start) + 1
  BY <1>2, <1>5, <1>6
<1>8. PICK b \in Nat : b = (word - start) + 1
  BY <1>2, <1>5, <1>6
<1>9. /\ 1 <= a /\ a < b /\ b <= n
      /\ (start + a) - 1 = semi /\ (start + b) - 1 = word /\ start + b = word + 1
  BY <1>2, <1>5, <1>6, <1>7, <1>8
<1>10. /\ a \in 1..n /\ b \in 1..n /\ b \in 0..n /\ 1 \in 1..(n + 1) /\ a \in 0..(n + 1)
       /\ a <= n /\ n # 0
  BY <1>2, <1>9
<1>11. line[a] = Semicolon /\ line[b] = "charset="
  BY <1>3, <1>9, <1>10
<1>12. PICK f : f = First(line, 1, Semicolon)
  OBVIOUS
<1>13. /\ f \in 1..(n + 1)
       /\ f <= n => line[f] = Semicolon
       /\ \A r \in 1..(f - 1) : line[r] # Semicolon
  BY <1>1, <1>3, <1>10, <1>12, FirstFacts
<1>14. f = a
  <2>1. f \in Nat /\ 1 <= f
    BY <1>2, <1>13
  <2>2. CASE a < f
    <3>1. a \in 1..(f - 1)
      BY <1>9, <2>1, <2>2
    <3> QED BY <1>11, <1>13, <3>1
  <2>3. CASE f < a
    <3>1. f \in 1..n /\ f <= n /\ (start + f) - 1 \in p..(semi - 1)
      BY <1>2, <1>5, <1>9, <2>1, <2>3
    <3> QED BY <1>3, <1>13, <3>1
  <2> QED BY <2>1, <2>2, <2>3
<1>15. PICK w : w = NextWord(line, a)
  OBVIOUS
<1>16. /\ w \in 1..(n + 1) /\ w > a
       /\ w <= n => line[w] # " "
       /\ \A r \in (a + 1)..(w - 1) : line[r] = " "
  BY <1>1, <1>3, <1>10, <1>15, NextWordFacts
<1>17. w = b
  <2>1. w \in Nat /\ w <= n + 1 /\ w > a
    <3>1. w \in 1..(n + 1) /\ w > a
      BY <1>16
    <3> QED BY <1>2, <3>1
  <2>2. CASE b < w
    <3>1. b \in (a + 1)..(w - 1)
      BY <1>9, <2>1, <2>2
    <3> QED BY <1>11, <1>16, <3>1
  <2>3. CASE w < b
    <3>1. w \in 1..n /\ w <= n /\ (start + w) - 1 \in (semi + 1)..(word - 1)
      BY <1>2, <1>5, <1>9, <2>1, <2>3
    <3>2. line[w] = " "
      BY <1>3, <3>1 DEF Blanks
    <3> QED BY <1>16, <3>1, <3>2
  <2> QED BY <2>1, <2>2, <2>3
<1>18. NextWord(line, First(line, 1, Semicolon)) = b /\ b <= Len(line)
  BY <1>1, <1>9, <1>12, <1>14, <1>15, <1>17
<1>19. Charset(line) = WithoutBlanks(From(line, b + 1))
  BY <1>11, <1>18 DEF Charset
<1>20. From(line, b + 1) = SubSeq(text, word + 1, q)
  BY <1>3, <1>9, <1>10
<1>21. line # <<>>
  BY <1>1, <1>10
<1> QED BY <1>1, <1>10, <1>12, <1>14, <1>19, <1>20, <1>21

\* What num_plurals_grammar finds in a line.
LEMMA FormsRead ==
    ASSUME text \in Seq(STRING), NEW p, NEW start, NEW q, LineAt("Plural-Forms:", p, start, q),
           NEW line, line = FindHeaderLine("Plural-Forms:"),
           NEW info, info = NumPlurals(line), info.parsed,
           metadata.num = info.num, metadata.forms = info.forms
    PROVE  FormsFromOwnLine
<1>1. PICK n : n = Len(line)
  OBVIOUS
<1>2. /\ p \in Nat /\ start \in Nat /\ q \in Nat /\ n \in Nat
      /\ p < start /\ start <= q + 1 /\ n = (q - start) + 1
  <2>1. Len(line) \in Nat /\ Len(line) = (q - start) + 1
    BY LineTokens
  <2> QED BY <1>1, <2>1, LineTokens
<1>3. /\ line \in Seq(STRING)
      /\ \A i \in 1..n : line[i] = text[(start + i) - 1]
      /\ \A i \in 0..n : From(line, i + 1) = SubSeq(text, start + i, q)
  <2>1. Stands(line, n, start, q)
    BY <1>1, LineTokens
  <2> QED BY <2>1 DEF Stands
<1>4. /\ p \in DOMAIN text /\ q \in DOMAIN text /\ IsLine("Plural-Forms:", p, q)
      /\ Blanks(p + 1, start - 1)
  BY DEF LineAt
<1>5. PICK a, b, c, e : /\ a = NextWord(line, 0) /\ b = NextWord(line, a)
                        /\ c = NextWord(line, b) /\ e = NextWord(line, c)
  OBVIOUS
<1>6. /\ e <= n
      /\ line[a] = "nplurals=" /\ line[b] \in DOMAIN Digits
      /\ line[c] = Semicolon /\ line[e] = "plural="
      /\ info = [parsed |-> TRUE, num |-> Digits[line[b]], forms |-> From(line, e + 1)]
  BY <1>1, <1>5 DEF NumPlurals
<1>7. ASSUME NEW i \in 0..(n + 1), NEW w, w = NextWord(line, i)
      PROVE  /\ w \in 1..(n + 1)
             /\ w <= n => line[w] # " " /\ i < w
             /\ \A r \in (i + 1)..(w - 1) : line[r] = " "
  BY <1>1, <1>3, <1>7, NextWordFacts
<1>8. /\ a \in 1..(n + 1) /\ (a <= n => line[a] # " ")
      /\ \A r \in 1..(a - 1) : line[r] = " "
  <2>1. 0 \in 0..(n + 1) /\ 0 + 1 = 1
    BY <1>2
  <2> QED BY <1>5, <1>7, <2>1
<1>9. /\ b \in 1..(n + 1) /\ (b <= n => line[b] # " " /\ a < b)
      /\ \A r \in (a + 1)..(b - 1) : line[r] = " "
  <2>1. a \in 0..(n + 1)
    <3>1. a \in 1..(n + 1)
      BY <1>8
    <3> QED BY <1>2, <3>1
  <2> QED BY <1>5, <1>7, <2>1
<1>10. /\ c \in 1..(n + 1) /\ (c <= n => line[c] # " " /\ b < c)
       /\ \A r \in (b + 1)..(c - 1) : line[r] = " "
  <2>1. b \in 0..(n + 1)
    <3>1. b \in 1..(n + 1)
      BY <1>9
    <3> QED BY <1>2, <3>1
  <2> QED BY <1>5, <1>7, <2>1
<1>11. /\ e \in 1..(n + 1) /\ (e <= n => line[e] # " " /\ c < e)
       /\ \A r \in (c + 1)..(e - 1) : line[r] = " "
  <2>1. c \in 0..(n + 1)
    <3>1. c \in 1..(n + 1)
      BY <1>10
    <3> QED BY <1>2, <3>1
  <2> QED BY <1>5, <1>7, <2>1
<1>12. /\ a \in Nat /\ b \in Nat /\ c \in Nat /\ e \in Nat
       /\ 1 <= a /\ a < b /\ b < c /\ c < e /\ e <= n
  <2>1. a \in 1..(n + 1) /\ b \in 1..(n + 1) /\ c \in 1..(n + 1) /\ e \in 1..(n + 1)
    BY <1>8, <1>9, <1>10, <1>11
  <2>2. a \in Nat /\ b \in Nat /\ c \in Nat /\ e \in Nat /\ 1 <= a
    BY <1>2, <2>1
  <2>3. c < e
    BY <1>6, <1>11
  <2>4. c <= n
    BY <1>2, <1>6, <2>2, <2>3
  <2>5. b < c
    BY <1>10, <2>4
  <2>6. b <= n
    BY <1>2, <2>2, <2>4, <2>5
  <2>7. a < b
    BY <1>9, <2>6
  <2> QED BY <1>6, <2>2, <2>3, <2>5, <2>7
<1>24. line[a] # " " /\ line[b] # " " /\ line[c] # " " /\ line[e] # " "
  <2>1. a <= n /\ b <= n /\ c <= n /\ e <= n
    BY <1>2, <1>12
  <2> QED BY <1>8, <1>9, <1>10, <1>11, <2>1
<1>13. PICK name, number, semi, plural \in Nat :
         /\ name = (start + a) - 1 /\ number = (start + b) - 1
         /\ semi = (start + c) - 1 /\ plural = (start + e) - 1
  BY <1>2, <1>12
<1>14. /\ name < number /\ number < semi /\ semi < plural
       /\ name \in (p + 1)..plural /\ number \in (p + 1)..plural /\ semi \in (p + 1)..plural
       /\ plural \in (p + 1)..plural /\ plural \in (p + 1)..q
       /\ start + e = plural + 1
  BY <1>2, <1>12, <1>13
<1>15. /\ a \in 1..n /\ b \in 1..n /\ c \in 1..n /\ e \in 1..n /\ e \in 0..n
  BY <1>2, <1>12
<1>16. /\ text[name] = line[a] /\ text[number] = line[b]
       /\ text[semi] = line[c] /\ text[plural] = line[e]
  BY <1>3, <1>13, <1>15
<1>17. From(line, e + 1) = SubSeq(text, plural + 1, q)
  BY <1>3, <1>14, <1>15
<1>18. PICK Words : Words = {r \in (p + 1)..plural : text[r] # " "}
  OBVIOUS
<1>19. name \in Words /\ number \in Words /\ semi \in Words /\ plural \in Words
  BY <1>14, <1>16, <1>18, <1>24
<1>20. ASSUME NEW r \in Words
       PROVE  r \in {name, number, semi, plural}
  <2>8. r \in (p + 1)..plural /\ text[r] # " "
    BY <1>18
  <2>1. r \in Nat /\ p < r /\ r <= plural
    <3>1. r \in (p + 1)..plural
      BY <2>8
    <3> QED BY <1>2, <3>1
  <2>2. r >= start
    <3>1. r \notin (p + 1)..(start - 1)
      BY <1>4, <2>8 DEF Blanks
    <3> QED BY <1>2, <2>1, <3>1
  <2>3. PICK i \in Nat : i = (r - start) + 1
    BY <1>2, <2>1, <2>2
  <2>4. 1 <= i /\ i <= e /\ i \in 1..n /\ r = (start + i) - 1
    BY <1>2, <1>12, <1>13, <2>1, <2>2, <2>3
  <2>5. line[i] # " "
    BY <1>3, <2>4, <2>8
  <2>6. i \notin 1..(a - 1) /\ i \notin (a + 1)..(b - 1) /\ i \notin (b + 1)..(c - 1)
        /\ i \notin (c + 1)..(e - 1)
    BY <1>8, <1>9, <1>10, <1>11, <2>5
  <2>7. i = a \/ i = b \/ i = c \/ i = e
    BY <1>12, <2>3, <2>4, <2>6
  <2> QED BY <1>13, <2>4, <2>7
<1>21. Words = {name, number, semi, plural}
  BY <1>19, <1>20
<1>22. metadata.num = Digits[text[number]] /\ metadata.forms = SubSeq(text, plural + 1, q)
  BY <1>6, <1>16, <1>17
<1>23. /\ text[name] = "nplurals=" /\ text[number] \in DOMAIN Digits
       /\ text[semi] = Semicolon /\ text[plural] = "plural="
  BY <1>6, <1>16
<1> HIDE DEF FormsFromOwnLine
<1> QED BY <1>4, <1>14, <1>18, <1>19, <1>21, <1>22, <1>23 DEF FormsFromOwnLine
-----------------------------------------------------------------------------
(* The names *)

Names == [l \in NameLabels |-> FindHeaderLine(l)]

\* The inductive invariant for the names: they are assigned first, and no later
\* step assigns them or the text.
NamesInv ==
    /\ text \in Seq(STRING)
    /\ "names" \in DOMAIN metadata
    /\ stage # "names" => metadata.names = Names

\* The header is a text, and no name has been read.
LEMMA InitEstablishesNames == Init => NamesInv
BY TextsAssumption DEF Init, NamesInv

\* The names are assigned by the first step and by no other.
LEMMA NextKeepsNames == NamesInv /\ [Next]_vars => NamesInv'
<1> SUFFICES ASSUME NamesInv, [Next]_vars
             PROVE  NamesInv'
  OBVIOUS
<1>a. text' = text
  BY DEF Next, ReadNames, ReadCharset, ReadEncoding, ReadPluralForms, Returned, vars
<1>b. Names' = Names
  BY <1>a DEF Names, FindHeaderLine, First, FirstNot
<1>1. CASE ReadNames
  <2>1. metadata' = [metadata EXCEPT !.names = Names]
    BY <1>1 DEF ReadNames, Names
  <2>2. "names" \in DOMAIN metadata' /\ metadata'.names = Names
    BY <2>1 DEF NamesInv
  <2> QED BY <1>a, <1>b, <2>2 DEF NamesInv
<1>2. CASE ReadCharset
  <2>1. PICK value : metadata' = [metadata EXCEPT !.charset = value]
    BY <1>2 DEF ReadCharset
  <2>2. "names" \in DOMAIN metadata' /\ metadata'.names = metadata.names
    BY <2>1 DEF NamesInv
  <2> QED BY <1>2, <1>a, <1>b, <2>2 DEF NamesInv, ReadCharset
<1>3. CASE ReadPluralForms
  <2>1. PICK num, forms : metadata' = [metadata EXCEPT !.num = num, !.forms = forms]
    BY <1>3 DEF ReadPluralForms
  <2>2. "names" \in DOMAIN metadata' /\ metadata'.names = metadata.names
    BY <2>1 DEF NamesInv
  <2> QED BY <1>3, <1>a, <1>b, <2>2 DEF NamesInv, ReadPluralForms
<1>4. CASE ReadEncoding \/ Returned \/ UNCHANGED vars
  BY <1>4, <1>a, <1>b DEF NamesInv, ReadEncoding, Returned, vars
<1> QED BY <1>1, <1>2, <1>3, <1>4 DEF Next

\* For all header texts, accepted or not: each name whose label stands nowhere but
\* at the start of lines is what the first of these lines says, and empty if there
\* is none.
THEOREM NamesAreRead == Spec => []NamesFromOwnLines
<1>1. NamesInv => NamesFromOwnLines
  <2> SUFFICES ASSUME NamesInv, stage = "returned", NEW l \in NameLabels, StartsLines(l)
               PROVE  ReadFromOwnLine(l)
    BY DEF NamesFromOwnLines
  <2>1. metadata.names[l] = FindHeaderLine(l) /\ text \in Seq(STRING)
    BY DEF NamesInv, Names
  <2>2. l # "\n"
    BY DEF NameLabels
  <2>3. CASE Present(l)
    <3>1. PICK p, start, q : LineAt(l, p, start, q)
      BY <2>1, <2>2, <2>3, LineOfLabel
    <3>2. p \in DOMAIN text /\ q \in DOMAIN text /\ IsLine(l, p, q)
      BY <3>1 DEF LineAt
    <3>3. Says(l, metadata.names[l])
      BY <2>1, <3>1, LineSays
    <3> QED BY <3>2, <3>3 DEF ReadFromOwnLine
  <2>4. CASE ~Present(l)
    <3>1. ~\E p, q \in DOMAIN text : IsLine(l, p, q)
      BY <2>4 DEF Present, IsLine
    <3> QED BY <2>1, <2>4, <3>1, AbsentLabel DEF ReadFromOwnLine
  <2> QED BY <2>3, <2>4
<1> QED BY <1>1, InitEstablishesNames, NextKeepsNames, PTL DEF Spec
-----------------------------------------------------------------------------
(* The other members *)

\* What becomes of the charset, and of the members for plural forms.
CharsetOf ==
    LET line == FindHeaderLine("Content-Type:")
    IN  IF line = <<>> THEN <<"UTF-8">>
        ELSE IF First(line, 1, Semicolon) <= Len(line) THEN Charset(line) ELSE <<>>

FormsOf ==
    LET line == FindHeaderLine("Plural-Forms:")
        info == NumPlurals(line)
    IN  IF line = <<>> THEN metadata.num = 2 /\ metadata.forms = DefaultForms
        ELSE info.parsed /\ metadata.num = info.num /\ metadata.forms = info.forms

Accepted == stage = "returned" /\ ~error
Charsets == {<<>>} \cup {<<c>> : c \in Supported}

\* The inductive invariant for them: the charset is assigned before the plural
\* forms, and what the tests reject gets no further.
FieldsInv ==
    /\ text \in Seq(STRING)
    /\ {"charset", "num", "forms"} \subseteq DOMAIN metadata
    /\ stage \in {"names", "charset"} => metadata.charset = <<>>
    /\ stage \in {"encoding", "forms"} \/ Accepted =>
         metadata.charset = CharsetOf /\ metadata.charset \in Charsets
    /\ Accepted => FormsOf

\* The header is a text, and nothing has been read.
LEMMA InitEstablishesFields == Init => FieldsInv
BY TextsAssumption DEF Init, FieldsInv, Accepted

\* Each member is assigned once on the way to acceptance.
LEMMA NextKeepsFields == FieldsInv /\ [Next]_vars => FieldsInv'
<1> SUFFICES ASSUME FieldsInv, [Next]_vars
             PROVE  FieldsInv'
  OBVIOUS
<1>a. text' = text
  BY DEF Next, ReadNames, ReadCharset, ReadEncoding, ReadPluralForms, Returned, vars
<1>b. CharsetOf' = CharsetOf
  BY <1>a DEF CharsetOf, FindHeaderLine, First, FirstNot
<1>1. CASE ReadNames
  <2>1. PICK value : metadata' = [metadata EXCEPT !.names = value]
    BY <1>1 DEF ReadNames
  <2>2. /\ {"charset", "num", "forms"} \subseteq DOMAIN metadata'
        /\ metadata'.charset = metadata.charset
    BY <2>1 DEF FieldsInv
  <2>3. stage = "names" /\ stage' = "charset"
    BY <1>1 DEF ReadNames
  <2> QED BY <1>a, <2>2, <2>3 DEF FieldsInv, Accepted
<1>2. CASE ReadCharset
  <2>1. PICK line : line = FindHeaderLine("Content-Type:")
    OBVIOUS
  <2>2. PICK parsed : parsed = (First(line, 1, Semicolon) <= Len(line))
    OBVIOUS
  <2>3. PICK rejected : rejected = (parsed /\ Charset(line) \notin {<<c>> : c \in Supported})
    OBVIOUS
  <2>4. /\ stage = "charset" /\ error' = rejected
        /\ stage' = IF rejected THEN "returned" ELSE "encoding"
        /\ metadata' = [metadata EXCEPT !.charset = IF line = <<>> THEN <<"UTF-8">>
                                                    ELSE IF parsed THEN Charset(line) ELSE @]
    BY <1>2, <2>1, <2>2, <2>3 DEF ReadCharset
  <2>5. metadata.charset = <<>> /\ "charset" \in DOMAIN metadata
    BY <2>4 DEF FieldsInv
  <2>6. CharsetOf = IF line = <<>> THEN <<"UTF-8">> ELSE IF parsed THEN Charset(line) ELSE <<>>
    BY <2>1, <2>2 DEF CharsetOf
  <2>7. metadata' = [metadata EXCEPT !.charset = CharsetOf]
    BY <2>4, <2>5, <2>6
  <2>8. /\ {"charset", "num", "forms"} \subseteq DOMAIN metadata'
        /\ metadata'.charset = CharsetOf
    BY <2>7 DEF FieldsInv
  <2>9. CASE rejected
    <3>1. stage' = "returned" /\ error'
      BY <2>4, <2>9
    <3> QED BY <1>a, <2>8, <3>1 DEF FieldsInv, Accepted
  <2>10. CASE ~rejected
    <3>1. stage' = "encoding"
      BY <2>4, <2>10
    <3>2. CharsetOf \in Charsets
      <4>1. <<"UTF-8">> \in Charsets
        BY DEF Charsets, Supported
      <4> QED BY <2>3, <2>6, <2>10, <4>1 DEF Charsets
    <3> QED BY <1>a, <1>b, <2>8, <3>1, <3>2 DEF FieldsInv, Accepted
  <2> QED BY <2>9, <2>10
<1>3. CASE ReadEncoding
  <2>1. PICK rejected : /\ error' = rejected
                        /\ stage' = IF rejected THEN "returned" ELSE "forms"
    BY <1>3 DEF ReadEncoding
  <2>2. metadata' = metadata /\ stage = "encoding"
    BY <1>3 DEF ReadEncoding
  <2>3. CASE rejected
    BY <1>a, <2>1, <2>2, <2>3 DEF FieldsInv, Accepted
  <2>4. CASE ~rejected
    BY <1>a, <1>b, <2>1, <2>2, <2>4 DEF FieldsInv, Accepted
  <2> QED BY <2>3, <2>4
<1>4. CASE ReadPluralForms
  <2>1. PICK line : line = FindHeaderLine("Plural-Forms:")
    OBVIOUS
  <2>2. PICK info : info = NumPlurals(line)
    OBVIOUS
  <2>3. FindHeaderLine("Plural-Forms:")' = line
    <3>1. FindHeaderLine("Plural-Forms:")' = FindHeaderLine("Plural-Forms:")
      BY <1>a DEF FindHeaderLine, First, FirstNot
    <3> QED BY <2>1, <3>1
  <2>4. PICK num, forms :
          /\ metadata' = [metadata EXCEPT !.num = num, !.forms = forms]
          /\ line = <<>> => num = 2 /\ forms = DefaultForms
          /\ line # <<>> /\ info.parsed => num = info.num /\ forms = info.forms
    BY <1>4, <2>1, <2>2 DEF ReadPluralForms
  <2>5. /\ {"charset", "num", "forms"} \subseteq DOMAIN metadata'
        /\ metadata'.charset = metadata.charset
        /\ metadata'.num = num /\ metadata'.forms = forms
    BY <2>4 DEF FieldsInv
  <2>6. stage = "forms" /\ stage' = "returned" /\ error' = (line # <<>> /\ ~info.parsed)
    BY <1>4, <2>1, <2>2 DEF ReadPluralForms
  <2>7. ~error' => FormsOf'
    BY <2>2, <2>3, <2>4, <2>5, <2>6 DEF FormsOf
  <2> QED BY <1>a, <1>b, <2>5, <2>6, <2>7 DEF FieldsInv, Accepted
<1>5. CASE Returned \/ UNCHANGED vars
  <2>1. UNCHANGED vars
    BY <1>5 DEF Returned
  <2>2. FormsOf' = FormsOf
    BY <2>1 DEF vars, FormsOf, FindHeaderLine, First, FirstNot
  <2> QED BY <1>b, <2>1, <2>2 DEF vars, FieldsInv, Accepted
<1> QED BY <1>1, <1>2, <1>3, <1>4, <1>5 DEF Next

\* In an orderly header the line that is found is the only one.
LEMMA OwnLine ==
    ASSUME text \in Seq(STRING), Orderly, NEW label \in Labels, label # "\n",
           NEW p \in DOMAIN text, NEW q \in DOMAIN text, IsLine(label, p, q)
    PROVE  \E start : LineAt(label, p, start, q)
<1>1. Present(label) /\ StartsLines(label)
  BY DEF Present, IsLine, Orderly, StartsLines
<1>2. PICK r, start, s : LineAt(label, r, start, s)
  BY <1>1, LineOfLabel
<1>3. r = p /\ s = q
  <2>1. r \in DOMAIN text /\ s \in DOMAIN text /\ IsLine(label, r, s)
    BY <1>2 DEF LineAt
  <2> QED BY <2>1, OneLine
<1> QED BY <1>2, <1>3

\* For all texts of a header in which each label starts a line of its own: if it is
\* accepted, the charset, the number of forms and the expression are those that its
\* lines declare, wherever the lines and the blanks in them are, and the defaults
\* apply exactly where it is silent.
THEOREM FieldsAreRead == Spec => []FieldsFromOwnLines
<1>1. ASSUME FieldsInv, stage = "returned", ~error, Orderly
      PROVE  /\ metadata.charset \in Charsets
             /\ IF Silent("Content-Type:") THEN metadata.charset = <<"UTF-8">>
                                           ELSE CharsetFromOwnLine
             /\ IF Silent("Plural-Forms:") THEN metadata.num = 2 /\ metadata.forms = DefaultForms
                                           ELSE FormsFromOwnLine
  <2>1. /\ text \in Seq(STRING) /\ FormsOf
        /\ metadata.charset = CharsetOf /\ metadata.charset \in Charsets
    BY <1>1 DEF FieldsInv, Accepted
  <2>2. /\ "Content-Type:" \in Labels /\ "Plural-Forms:" \in Labels
        /\ "Content-Type:" # "\n" /\ "Plural-Forms:" # "\n"
    BY DEF Labels
  <2>3. Silent("Content-Type:") => metadata.charset = <<"UTF-8">>
    BY <1>1, <2>1, <2>2, EmptyLine DEF CharsetOf
  <2>4. CharsetFromOwnLine
    <3> SUFFICES ASSUME NEW p \in DOMAIN text, NEW q \in DOMAIN text, IsLine("Content-Type:", p, q),
                        NEW semi \in p..q, NEW word \in p..q,
                        text[semi] = Semicolon, \A r \in p..(semi - 1) : text[r] # Semicolon,
                        semi < word, Blanks(semi + 1, word - 1), text[word] = "charset="
                 PROVE  metadata.charset = WithoutBlanks(SubSeq(text, word + 1, q))
      BY DEF CharsetFromOwnLine
    <3>1. PICK start : LineAt("Content-Type:", p, start, q)
      BY <1>1, <2>1, <2>2, OwnLine
    <3>2. PICK line : line = FindHeaderLine("Content-Type:")
      OBVIOUS
    <3>3. /\ line # <<>> /\ First(line, 1, Semicolon) <= Len(line)
          /\ Charset(line) = WithoutBlanks(SubSeq(text, word + 1, q))
      BY <2>1, <3>1, <3>2, CharsetRead
    <3> QED BY <2>1, <3>2, <3>3 DEF CharsetOf
  <2>5. CASE Silent("Plural-Forms:")
    <3>1. FindHeaderLine("Plural-Forms:") = <<>>
      BY <1>1, <2>1, <2>2, <2>5, EmptyLine
    <3> QED BY <2>1, <2>3, <2>4, <2>5, <3>1 DEF FormsOf
  <2>6. CASE ~Silent("Plural-Forms:")
    <3>1. FindHeaderLine("Plural-Forms:") # <<>>
      BY <1>1, <2>1, <2>2, <2>6, EmptyLine
    <3>2. PICK p \in DOMAIN text, q \in DOMAIN text : IsLine("Plural-Forms:", p, q)
      BY <2>6 DEF Silent
    <3>3. PICK start : LineAt("Plural-Forms:", p, start, q)
      BY <1>1, <2>1, <2>2, <3>2, OwnLine
    <3>4. PICK line, info : line = FindHeaderLine("Plural-Forms:") /\ info = NumPlurals(line)
      OBVIOUS
    <3>5. info.parsed /\ metadata.num = info.num /\ metadata.forms = info.forms
      BY <2>1, <3>1, <3>4 DEF FormsOf
    <3>6. FormsFromOwnLine
      BY <2>1, <3>3, <3>4, <3>5, FormsRead
    <3> QED BY <2>1, <2>3, <2>4, <2>6, <3>6
  <2> QED BY <2>5, <2>6
<1>2. FieldsInv => FieldsFromOwnLines
  BY <1>1 DEF FieldsFromOwnLines, Charsets
<1> QED BY <1>2, InitEstablishesFields, NextKeepsFields, PTL DEF Spec
=============================================================================
