---------------------------- MODULE PoFileProofs ----------------------------
(***************************************************************************)
(* For every file: what a load makes of it.                                *)
(*                                                                         *)
(* An entry is fuzzy if and only if the comments before it mark it.        *)
(* If the load does not fail, the entries it has read are all of the file. *)
(* The line that is stored with a message leads to its entry in the file.  *)
(* A file of complete entries with a good header loads.                    *)
(***************************************************************************)
EXTENDS PoCatalogProofs, CatalogHistoryProofs

-----------------------------------------------------------------------------
(* Fuzzy markers *)

\* The lines from a up to b are comments, and ended.
Commented(f, a, b) ==
    /\ a <= b
    /\ \A r \in a..(b - 1) : r = a \/ f[r - 1] = "\n" => f[r] = "#"
    /\ a < b => f[b - 1] = "\n"

\* The comment at q is a list of flags with fuzzy among them: HasFuzzyFlag, for
\* any sequence.
Flagged(f, q) ==
    /\ f[q + 1] = ","
    /\ \E i \in q..(Len(f) - 1) :
          f[i] = "," /\ f[i + 1] = " fuzzy" /\ \A r \in q..i : f[r] # "\n"

\* A comment line is a hash, anything but newlines, and a newline.
LEMMA CommentLineShape ==
    ASSUME NEW f \in Seq(STRING), NEW p \in Po!Positions(f), Po!PreambleCommentLine(f, p) # Po!Fail
    PROVE  /\ Po!PreambleCommentLine(f, p) = Po!LineEnd(f, p) + 1
           /\ Po!LineEnd(f, p) \in (p + 1)..Len(f)
           /\ p \in 1..Len(f) /\ f[p] = "#"
           /\ f[Po!LineEnd(f, p)] = "\n"
           /\ \A r \in p..(Po!LineEnd(f, p) - 1) : f[r] # "\n"
<1>1. PICK end : end = Po!LineEnd(f, p)
  OBVIOUS
<1>2. /\ end \in p..Ends(f)
      /\ \A r \in p..(end - 1) : f[r] # "\n"
  BY <1>1, LineEndFacts
<1>3. /\ Po!At(f, p, "#") /\ Po!At(f, end, "\n")
      /\ Po!PreambleCommentLine(f, p) = end + 1
  BY <1>1 DEF Po!PreambleCommentLine, Po!CommentLine, Po!EndLine
<1>4. p \in 1..Len(f) /\ f[p] = "#" /\ end \in 1..Len(f) /\ f[end] = "\n" /\ Len(f) \in Nat
  BY <1>3, Positive DEF Po!At
<1>5. end \in (p + 1)..Len(f)
  BY <1>2, <1>4
<1> QED BY <1>1, <1>2, <1>3, <1>4, <1>5

\* One comment line is a block of comments.
LEMMA LineIsCommented ==
    ASSUME NEW f \in Seq(STRING), NEW p \in Po!Positions(f), Po!PreambleCommentLine(f, p) # Po!Fail
    PROVE  Commented(f, p, Po!PreambleCommentLine(f, p))
<1>1. PICK end : end = Po!LineEnd(f, p)
  OBVIOUS
<1>2. /\ Po!PreambleCommentLine(f, p) = end + 1
      /\ end \in (p + 1)..Len(f)
      /\ p \in 1..Len(f) /\ f[p] = "#"
      /\ f[end] = "\n" /\ Len(f) \in Nat
      /\ \A r \in p..(end - 1) : f[r] # "\n"
  BY <1>1, CommentLineShape
<1>3. ASSUME NEW r \in p..end, f[r - 1] = "\n"
      PROVE  r = p
  BY <1>2, <1>3
<1>4. end + 1 - 1 = end /\ p <= end + 1
  BY <1>2
<1> QED BY <1>2, <1>3, <1>4 DEF Commented

\* Two blocks of comments one behind the other are one.
LEMMA CommentedOn ==
    ASSUME NEW f, NEW a \in Nat, NEW b \in Nat, NEW c \in Nat,
           Commented(f, a, b), Commented(f, b, c)
    PROVE  Commented(f, a, c)
<1>1. ASSUME NEW r \in a..(c - 1), r = a \/ f[r - 1] = "\n"
      PROVE  f[r] = "#"
  <2>1. CASE r < b
    BY <1>1, <2>1 DEF Commented
  <2>2. CASE r >= b
    <3>1. r \in b..(c - 1)
      BY <2>2
    <3>2. r = b \/ f[r - 1] = "\n"
      BY <1>1, <2>2 DEF Commented
    <3> QED BY <3>1, <3>2 DEF Commented
  <2> QED BY <2>1, <2>2
<1>2. a <= c
  BY DEF Commented
<1>3. a < c => f[c - 1] = "\n"
  <2>1. CASE b < c
    BY <2>1 DEF Commented
  <2>2. CASE b = c
    BY <2>2 DEF Commented
  <2> QED BY <2>1, <2>2 DEF Commented
<1> QED BY <1>1, <1>2, <1>3 DEF Commented

\* A block of comments is one, and ends where no comment line is left.
LEMMA BlockIsCommented ==
    ASSUME NEW f \in Seq(STRING), NEW p \in Po!Positions(f)
    PROVE  /\ Commented(f, p, CommentBlock(f, p))
           /\ Po!PreambleCommentLine(f, CommentBlock(f, p)) = Po!Fail
<1> DEFINE jump == [q \in Po!Positions(f) |-> Po!PreambleCommentLine(f, q)]
           Good == {q \in Po!Positions(f) :
                      /\ Commented(f, q, CommentBlock(f, q))
                      /\ Po!PreambleCommentLine(f, CommentBlock(f, q)) = Po!Fail}
<1>1. \A q \in Po!Positions(f) : jump[q] \in Later(f, q)
  BY CommentFacts
<1>2. ASSUME NEW q \in Po!Positions(f), jump[q] = Po!Fail \/ jump[q] \in Good
      PROVE  q \in Good
  <2>1. CASE jump[q] = Po!Fail
    <3>1. CommentBlock(f, q) = q /\ q \in Nat
      BY <2>1, CommentBlockUnfolds, Positive
    <3>2. Commented(f, q, q)
      BY <3>1 DEF Commented
    <3> QED BY <2>1, <3>1, <3>2
  <2>2. CASE jump[q] # Po!Fail
    <3>1. PICK r : r = jump[q]
      OBVIOUS
    <3>2. r \in Good /\ r \in Po!Positions(f) /\ Commented(f, q, r)
      BY <1>2, <2>2, <3>1, LineIsCommented
    <3>3. CommentBlock(f, q) = CommentBlock(f, r)
      BY <2>2, <3>1, CommentBlockUnfolds
    <3>4. PICK s : s = CommentBlock(f, r)
      OBVIOUS
    <3>5. q \in Nat /\ r \in Nat /\ s \in Nat /\ Commented(f, r, s)
      BY <3>2, <3>4, CommentBlockFacts, Positive
    <3>6. Commented(f, q, s)
      BY <3>2, <3>5, CommentedOn
    <3> QED BY <3>2, <3>3, <3>4, <3>6
  <2> QED BY <2>1, <2>2
<1>3. Good = Po!Positions(f)
  <2> HIDE DEF jump, Good
  <2>1. Good \in SUBSET Po!Positions(f)
    BY DEF Good
  <2> QED BY <1>1, <1>2, <2>1, FromTheEnd
<1> QED BY <1>3

\* The rule for markers matches the comment lines with the flag.
LEMMA FuzzyIsFlagged ==
    ASSUME NEW f \in Seq(STRING), NEW p \in Po!Positions(f)
    PROVE  /\ Po!Fuzzy(f, p) # Po!Fail => Po!PreambleCommentLine(f, p) = Po!Fuzzy(f, p)
           /\ Po!PreambleCommentLine(f, p) # Po!Fail =>
                (Po!Fuzzy(f, p) # Po!Fail <=> Flagged(f, p))
<1>1. PICK end : end = Po!LineEnd(f, p)
  OBVIOUS
<1> DEFINE Shaped == Po!At(f, p, "#") /\ Po!At(f, p + 1, ",") /\ Po!At(f, end, "\n")
           HasFlag(i) == f[i] = "," /\ f[i + 1] = " fuzzy"
           IsMarked == Shaped /\ \E i \in (p + 1)..end : HasFlag(i)
<1>2. Po!Fuzzy(f, p) = IF IsMarked THEN end + 1 ELSE Po!Fail
  BY <1>1 DEF Po!Fuzzy
<1> HIDE DEF HasFlag
<1>3. Len(f) \in Nat /\ p \in Nat /\ DOMAIN f = 1..Len(f) /\ end \in p..Ends(f) /\ Ends(f) \in Nat
  BY <1>1, Positive, LineEndFacts
<1>4. ASSUME Shaped
      PROVE  Po!PreambleCommentLine(f, p) = end + 1
  <2>1. Po!CommentLine(f, p) = end
    BY <1>1, <1>4 DEF Po!CommentLine
  <2>2. p # 0 /\ end # Po!Fail
    BY <1>3, Positive DEF Po!Fail
  <2> QED BY <2>1, <2>2, <1>4 DEF Po!PreambleCommentLine, Po!EndLine
<1>5. ASSUME Po!PreambleCommentLine(f, p) # Po!Fail
      PROVE  IsMarked <=> Flagged(f, p)
  <2>1. /\ end \in (p + 1)..Len(f)
        /\ p \in 1..Len(f) /\ f[p] = "#" /\ f[end] = "\n"
        /\ \A r \in p..(end - 1) : f[r] # "\n"
    BY <1>1, <1>5, CommentLineShape
  <2>2. ASSUME IsMarked
        PROVE  Flagged(f, p)
    <3>1. f[p + 1] = ","
      BY <2>2 DEF Po!At
    <3>2. PICK i \in (p + 1)..end : HasFlag(i)
      BY <2>2
    <3>3. i # end
      BY <2>1, <3>2 DEF HasFlag
    <3>4. i \in p..(Len(f) - 1) /\ p..i \subseteq p..(end - 1)
      BY <1>3, <2>1, <3>2, <3>3
    <3>5. \A r \in p..i : f[r] # "\n"
      BY <2>1, <3>4
    <3> HIDE DEF IsMarked, Shaped
    <3>6. f[i] = "," /\ f[i + 1] = " fuzzy"
      BY <3>2 DEF HasFlag
    <3> QED BY <3>1, <3>4, <3>5, <3>6 DEF Flagged
  <2>3. ASSUME Flagged(f, p)
        PROVE  IsMarked
    <3>0. f[p + 1] = ","
      BY <2>3 DEF Flagged
    <3>1. p + 1 \in DOMAIN f /\ end \in DOMAIN f /\ p \in DOMAIN f
      BY <1>3, <2>1
    <3>2. Shaped
      BY <2>1, <3>0, <3>1 DEF Po!At
    <3>3. PICK i \in p..(Len(f) - 1) :
            f[i] = "," /\ f[i + 1] = " fuzzy" /\ \A r \in p..i : f[r] # "\n"
      <4> HIDE DEF IsMarked, Shaped
      <4> QED BY <2>3 DEF Flagged
    <3>4. i # p /\ ~(end \in p..i)
      BY <2>1, <3>3
    <3>5. i \in (p + 1)..end
      BY <1>3, <2>1, <3>4
    <3>6. HasFlag(i)
      BY <3>3 DEF HasFlag
    <3> QED BY <3>2, <3>5, <3>6
  <2> QED BY <2>2, <2>3
<1>6. end + 1 # Po!Fail
  BY <1>3, Positive DEF Po!Fail
<1>7. IsMarked => Shaped
  OBVIOUS
<1> HIDE DEF IsMarked, Shaped
<1> QED BY <1>2, <1>4, <1>5, <1>6, <1>7

\* An optional comment that is no comment line is none, or exhausts the file.
LEMMA LastComment ==
    ASSUME NEW f \in Seq(STRING), NEW p \in Po!Positions(f), Po!PreambleCommentLine(f, p) = Po!Fail
    PROVE  Po!OptionalComment(f, p) = p \/ Po!OptionalComment(f, p) > Len(f)
<1>1. CASE Po!At(f, p, "#")
  <2>1. PICK end : end = Po!LineEnd(f, p)
    OBVIOUS
  <2>2. Po!OptionalComment(f, p) = end /\ Po!CommentLine(f, p) = end
    BY <1>1, <2>1 DEF Po!OptionalComment, Po!CommentLine
  <2>3. end \in p..Ends(f) /\ (end <= Len(f) => f[end] = "\n")
    BY <2>1, LineEndFacts
  <2>4. end # Po!Fail /\ end + 1 # Po!Fail /\ p \in Nat /\ Len(f) \in Nat /\ DOMAIN f = 1..Len(f)
    BY <2>3, Positive DEF Po!Fail
  <2>5. ~Po!At(f, end, "\n")
    BY <2>2, <2>4 DEF Po!PreambleCommentLine, Po!EndLine
  <2>6. ~(end <= Len(f))
    BY <2>3, <2>4, <2>5, Positive DEF Po!At
  <2> QED BY <2>2, <2>3, <2>4, <2>6, Positive
<1>2. CASE ~Po!At(f, p, "#")
  BY <1>2 DEF Po!OptionalComment
<1> QED BY <1>1, <1>2

\* A line from a up to b has the flag.
FlagBetween(f, a, b) == \E q \in a..(b - 1) : (q = a \/ f[q - 1] = "\n") /\ Flagged(f, q)

\* The first of them does, or a line behind it.
LEMMA FirstOrLater ==
    ASSUME NEW f \in Seq(STRING), NEW p \in Po!Positions(f), NEW b \in Nat, NEW r,
           r = Po!PreambleCommentLine(f, p), r # Po!Fail, r <= b
    PROVE  FlagBetween(f, p, b) <=> Flagged(f, p) \/ FlagBetween(f, r, b)
<1>1. PICK end : end = Po!LineEnd(f, p)
  OBVIOUS
<1>2. /\ r = end + 1
      /\ end \in (p + 1)..Len(f)
      /\ p \in 1..Len(f) /\ f[end] = "\n"
      /\ \A q \in p..(end - 1) : f[q] # "\n"
      /\ Len(f) \in Nat
  BY <1>1, CommentLineShape, Positive
<1>3. r \in Nat /\ p < r /\ p \in Nat /\ r - 1 = end
  BY <1>2
<1>4. ASSUME FlagBetween(f, p, b)
      PROVE  Flagged(f, p) \/ FlagBetween(f, r, b)
  <2>1. PICK q \in p..(b - 1) : (q = p \/ f[q - 1] = "\n") /\ Flagged(f, q)
    BY <1>4 DEF FlagBetween
  <2>2. CASE q < r /\ q # p
    <3>1. q - 1 \in p..(end - 1)
      BY <1>2, <2>2
    <3> QED BY <1>2, <2>1, <2>2, <3>1
  <2>3. CASE q >= r
    <3>1. q \in r..(b - 1) /\ q # p
      BY <1>3, <2>3
    <3> QED BY <2>1, <3>1 DEF FlagBetween
  <2>4. q < r \/ q >= r
    BY <1>3
  <2> QED BY <2>1, <2>2, <2>3, <2>4
<1>5. ASSUME Flagged(f, p)
      PROVE  FlagBetween(f, p, b)
  <2>1. p \in p..(b - 1)
    BY <1>3
  <2> QED BY <1>5, <2>1 DEF FlagBetween
<1>6. ASSUME FlagBetween(f, r, b)
      PROVE  FlagBetween(f, p, b)
  <2>1. PICK q \in r..(b - 1) : (q = r \/ f[q - 1] = "\n") /\ Flagged(f, q)
    BY <1>6 DEF FlagBetween
  <2>2. q \in p..(b - 1) /\ f[q - 1] = "\n"
    BY <1>2, <1>3, <2>1
  <2> QED BY <2>1, <2>2 DEF FlagBetween
<1> QED BY <1>4, <1>5, <1>6

\* What the comments directly before a message are, and when they mark it fuzzy.
MarksAsTold(f, p) ==
    Po!MessagePreamble(f, p).next <= Len(f) =>
        /\ Commented(f, p, Po!MessagePreamble(f, p).next)
        /\ Po!MessagePreamble(f, p).fuzzy <=> FlagBetween(f, p, Po!MessagePreamble(f, p).next)

\* Behind a marker, at once.
LEMMA MarkerMarks ==
    ASSUME NEW f \in Seq(STRING), NEW p \in Po!Positions(f), Po!Fuzzy(f, p) # Po!Fail
    PROVE  MarksAsTold(f, p)
<1>1. PICK r : r = Po!Fuzzy(f, p)
  OBVIOUS
<1>2. /\ r = Po!PreambleCommentLine(f, p) /\ r # Po!Fail /\ Flagged(f, p)
      /\ r \in Po!Positions(f) /\ r \in Nat /\ p \in Nat /\ p < r
  BY <1>1, FuzzyIsFlagged, FuzzyFacts, MarkedFacts, Positive DEF Later
<1>3. PICK s : s = CommentBlock(f, r)
  OBVIOUS
<1>4. s \in Po!Positions(f) /\ s \in r..Ends(f) /\ s \in Nat
  BY <1>1, <1>2, <1>3, MarkedFacts, CommentBlockFacts, Positive
<1>5. Po!OptionalComment(f, s) = s \/ Po!OptionalComment(f, s) > Len(f)
  BY <1>2, <1>3, <1>4, BlockIsCommented, LastComment
<1>6. Commented(f, p, s)
  BY <1>2, <1>3, <1>4, LineIsCommented, BlockIsCommented, CommentedOn
<1>7. FlagBetween(f, p, s)
  <2>1. p \in p..(s - 1)
    BY <1>2, <1>4
  <2> QED BY <1>2, <2>1 DEF FlagBetween
<1>8. PICK next : next = Po!OptionalComment(f, s)
  OBVIOUS
<1>9. Po!MessagePreamble(f, p) = [next |-> next, fuzzy |-> TRUE]
  BY <1>1, <1>3, <1>8, MessagePreambleUnfolds DEF Marked
<1>10. Po!MessagePreamble(f, p).next = next /\ Po!MessagePreamble(f, p).fuzzy = TRUE
  BY <1>9
<1>11. next = s \/ ~(next <= Len(f))
  <2>1. next \in s..Ends(f) /\ Len(f) \in Nat /\ Ends(f) \in Nat
    BY <1>4, <1>8, CommentFacts, Positive
  <2> QED BY <1>5, <1>8, <2>1
<1> QED BY <1>6, <1>7, <1>10, <1>11 DEF MarksAsTold

\* In front of other comments, if those do; where there is none, never.
LEMMA CommentsMark ==
    ASSUME NEW f \in Seq(STRING), NEW p \in Po!Positions(f)
    PROVE  MarksAsTold(f, p)
<1> DEFINE jump == [q \in Po!Positions(f) |-> PreambleJump(f, q)]
           Good == {q \in Po!Positions(f) : MarksAsTold(f, q)}
<1>1. \A q \in Po!Positions(f) : jump[q] \in Later(f, q)
  BY MessagePreambleUnfolds
<1>2. ASSUME NEW q \in Po!Positions(f), jump[q] = Po!Fail \/ jump[q] \in Good
      PROVE  q \in Good
  <2>1. CASE Po!Fuzzy(f, q) # Po!Fail
    BY <2>1, MarkerMarks
  <2>2. CASE Po!Fuzzy(f, q) = Po!Fail /\ jump[q] # Po!Fail
    <3>1. PICK r : r = jump[q]
      OBVIOUS
    <3>2. /\ r \in Po!Positions(f) /\ MarksAsTold(f, r)
          /\ r = Po!PreambleCommentLine(f, q) /\ r # Po!Fail
          /\ Po!MessagePreamble(f, q) = Po!MessagePreamble(f, r)
      BY <1>2, <2>2, <3>1, MessagePreambleUnfolds DEF PreambleJump
    <3>3. PICK next : next = Po!MessagePreamble(f, r).next
      OBVIOUS
    <3>4. next \in Nat /\ q \in Nat /\ r \in Nat
      BY <3>2, <3>3, MessagePreambleFacts, Positive
    <3>5. ~Flagged(f, q) /\ Commented(f, q, r)
      BY <2>2, <3>2, FuzzyIsFlagged, LineIsCommented
    <3>6. ASSUME next <= Len(f)
          PROVE  /\ Commented(f, q, next)
                 /\ Po!MessagePreamble(f, q).fuzzy <=> FlagBetween(f, q, next)
      <4>1. /\ Commented(f, r, next)
            /\ Po!MessagePreamble(f, r).fuzzy <=> FlagBetween(f, r, next)
        BY <3>2, <3>3, <3>6 DEF MarksAsTold
      <4>2. r <= next
        BY <4>1 DEF Commented
      <4>3. FlagBetween(f, q, next) <=> FlagBetween(f, r, next)
        BY <3>2, <3>4, <3>5, <4>2, FirstOrLater
      <4> QED BY <3>2, <3>4, <3>5, <4>1, <4>3, CommentedOn
    <3>7. MarksAsTold(f, q)
      BY <3>2, <3>3, <3>6 DEF MarksAsTold
    <3> QED BY <3>7
  <2>3. CASE Po!Fuzzy(f, q) = Po!Fail /\ jump[q] = Po!Fail
    <3>1. Po!PreambleCommentLine(f, q) = Po!Fail
      BY <2>3 DEF PreambleJump
    <3>2. PICK next : next = Po!OptionalComment(f, q)
      OBVIOUS
    <3>3. Po!MessagePreamble(f, q) = [next |-> next, fuzzy |-> FALSE]
      BY <2>3, <3>2, MessagePreambleUnfolds
    <3>4. Po!MessagePreamble(f, q).next = next /\ Po!MessagePreamble(f, q).fuzzy = FALSE
      BY <3>3
    <3>5. next = q \/ ~(next <= Len(f))
      <4>1. next \in q..Ends(f) /\ Len(f) \in Nat /\ Ends(f) \in Nat /\ q \in Nat
        BY <3>2, CommentFacts, Positive
      <4>2. next = q \/ next > Len(f)
        BY <3>1, <3>2, LastComment
      <4> QED BY <4>1, <4>2
    <3>6. q \in Nat
      BY Positive
    <3>7. Commented(f, q, q) /\ ~FlagBetween(f, q, q)
      BY <3>6 DEF Commented, FlagBetween
    <3> QED BY <3>4, <3>5, <3>7 DEF MarksAsTold
  <2> QED BY <2>1, <2>2, <2>3
<1>3. Good = Po!Positions(f)
  <2> HIDE DEF jump, Good
  <2>1. Good \in SUBSET Po!Positions(f)
    BY DEF Good
  <2> QED BY <1>1, <1>2, <2>1, FromTheEnd
<1> QED BY <1>3

\* The line before p, if it does not begin before a, is no comment.
PlainBefore(f, a, p) ==
    a = p \/ \E w \in a..(p - 1) :
                /\ w = a \/ f[w - 1] = "\n"
                /\ f[w] # "#"
                /\ f[p - 1] = "\n" /\ \A r \in w..(p - 2) : f[r] # "\n"

\* A block of comments that a white line ends is passed over with that line.
LEMMA BlockIsPlain ==
    ASSUME NEW f \in Seq(STRING), NEW p \in Po!Positions(f), IgnoredBlock(f, p) # Po!Fail
    PROVE  PlainBefore(f, p, IgnoredBlock(f, p))
<1>1. PICK s : s = CommentBlock(f, p)
  OBVIOUS
<1>2. s \in p..Ends(f) /\ s \in Po!Positions(f) /\ Commented(f, p, s)
  BY <1>1, CommentBlockFacts, BlockIsCommented, Positive
<1>3. PICK e : e = Po!WhiteLine(f, s)
  OBVIOUS
<1>4. e \in s..Ends(f) /\ \A r \in s..(e - 1) : f[r] \in {" ", "\t", "\r"}
  BY <1>2, <1>3, WhiteLineFacts
<1>5. IgnoredBlock(f, p) = e + 1 /\ f[e] = "\n"
  <2>1. Po!EndLine(f, e) # Po!Fail /\ IgnoredBlock(f, p) = Po!EndLine(f, e)
    BY <1>1, <1>3 DEF IgnoredBlock
  <2>2. e # Po!Fail /\ Po!At(f, e, "\n") /\ Po!EndLine(f, e) = e + 1
    BY <2>1 DEF Po!EndLine
  <2> QED BY <2>1, <2>2 DEF Po!At
<1>6. p \in Nat /\ s \in Nat /\ e \in Nat /\ Ends(f) \in Nat /\ p <= s /\ s <= e
  <2>1. p \in Nat /\ Ends(f) \in Nat
    BY Positive
  <2>2. e \in s..Ends(f) /\ s \in p..Ends(f)
    BY <1>2, <1>4
  <2> QED BY <2>1, <2>2
<1>7. s \in p..(e + 1 - 1) /\ e + 1 - 1 = e /\ e + 1 - 2 = e - 1
  BY <1>6
<1>8. f[s] # "#"
  <2>1. s = e \/ s \in s..(e - 1)
    BY <1>6
  <2> QED BY <1>4, <1>5, <2>1
<1>9. s = p \/ f[s - 1] = "\n"
  BY <1>2, <1>6 DEF Commented
<1>10. \A r \in s..(e - 1) : f[r] # "\n"
  BY <1>4
<1>11. PICK q : q = e + 1
  OBVIOUS
<1>12. PlainBefore(f, p, q)
  BY <1>5, <1>6, <1>7, <1>8, <1>9, <1>10, <1>11 DEF PlainBefore
<1> QED BY <1>5, <1>11, <1>12

\* Where a plain line ends, another may follow.
LEMMA PlainOn ==
    ASSUME NEW f, NEW a \in Nat, NEW b \in Nat, NEW c \in Nat, a < b, b <= c,
           PlainBefore(f, a, b), PlainBefore(f, b, c)
    PROVE  PlainBefore(f, a, c)
<1>1. CASE b = c
  BY <1>1
<1>2. CASE b # c
  <2>1. PICK w \in b..(c - 1) :
               /\ w = b \/ f[w - 1] = "\n"
               /\ f[w] # "#"
               /\ f[c - 1] = "\n" /\ \A r \in w..(c - 2) : f[r] # "\n"
    BY <1>2 DEF PlainBefore
  <2>2. f[b - 1] = "\n"
    BY DEF PlainBefore
  <2>3. w \in a..(c - 1) /\ f[w - 1] = "\n"
    BY <2>1, <2>2
  <2> QED BY <2>1, <2>3 DEF PlainBefore
<1> QED BY <1>1, <1>2

\* So the blocks of comments that are passed over end in a plain line.
LEMMA IgnoredArePlain ==
    ASSUME NEW f \in Seq(STRING), NEW p \in Po!Positions(f)
    PROVE  PlainBefore(f, p, Po!IgnoredComments(f, p))
<1> DEFINE jump == [q \in Po!Positions(f) |-> IgnoredBlock(f, q)]
           Good == {q \in Po!Positions(f) : PlainBefore(f, q, Po!IgnoredComments(f, q))}
<1>1. \A q \in Po!Positions(f) : jump[q] \in Later(f, q)
  BY IgnoredBlockFacts
<1>2. ASSUME NEW q \in Po!Positions(f), jump[q] = Po!Fail \/ jump[q] \in Good
      PROVE  q \in Good
  <2>1. CASE jump[q] = Po!Fail
    BY <2>1, IgnoredCommentsUnfold DEF PlainBefore
  <2>2. CASE jump[q] # Po!Fail
    <3>1. PICK r : r = IgnoredBlock(f, q)
      OBVIOUS
    <3>2. PICK s : s = Po!IgnoredComments(f, r)
      OBVIOUS
    <3>3. r \in Po!Positions(f) /\ PlainBefore(f, r, s) /\ Po!IgnoredComments(f, q) = s
      BY <1>2, <2>2, <3>1, <3>2, IgnoredCommentsUnfold
    <3>4. PlainBefore(f, q, r) /\ r \in Later(f, q) /\ r # Po!Fail
      BY <2>2, <3>1, BlockIsPlain, IgnoredBlockFacts
    <3>5. s \in r..Ends(f)
      BY <3>2, <3>3, IgnoredCommentsFacts
    <3>6. q \in Nat /\ r \in Nat /\ s \in Nat /\ q < r /\ r <= s
      BY <3>3, <3>4, <3>5, Positive DEF Later
    <3> QED BY <3>3, <3>4, <3>6, PlainOn
  <2> QED BY <2>1, <2>2
<1>3. Good = Po!Positions(f)
  <2> HIDE DEF jump, Good
  <2>1. Good \in SUBSET Po!Positions(f)
    BY DEF Good
  <2> QED BY <1>1, <1>2, <2>1, FromTheEnd
<1> QED BY <1>3

\* The lines from a up to b that begin in front of nothing but comments.
LastComments(f, a, b) ==
    LET Lines == {q \in a..(b - 1) : q = a \/ f[q - 1] = "\n"}
    IN  {q \in Lines : \A r \in Lines : r >= q => f[r] = "#"}

\* Those are the lines behind the last that is no comment.
LEMMA LastCommentsBegin ==
    ASSUME NEW f, NEW a \in Nat, NEW p \in Nat, NEW b \in Nat, a <= p,
           PlainBefore(f, a, p), Commented(f, p, b)
    PROVE  LastComments(f, a, b) = {q \in p..(b - 1) : q = p \/ f[q - 1] = "\n"}
<1> DEFINE Lines == {q \in a..(b - 1) : q = a \/ f[q - 1] = "\n"}
<1>0. LastComments(f, a, b) = {q \in Lines : \A r \in Lines : r >= q => f[r] = "#"}
  BY DEF LastComments
<1>a. p = a \/ f[p - 1] = "\n"
  BY DEF PlainBefore
<1>b. p <= b
  BY DEF Commented
<1>1. ASSUME NEW q \in p..(b - 1), q = p \/ f[q - 1] = "\n"
      PROVE  q \in LastComments(f, a, b)
  <2>1. q \in Lines
    BY <1>a, <1>1
  <2>2. ASSUME NEW r \in Lines, r >= q
        PROVE  f[r] = "#"
    <3>1. r \in p..(b - 1) /\ (r = p \/ f[r - 1] = "\n")
      BY <1>1, <2>2
    <3> QED BY <3>1 DEF Commented
  <2> QED BY <1>0, <2>1, <2>2
<1>2. ASSUME NEW q \in Lines, \A r \in Lines : r >= q => f[r] = "#"
      PROVE  q \in p..(b - 1) /\ (q = p \/ f[q - 1] = "\n")
  <2>1. CASE q < p
    <3>1. PICK w \in a..(p - 1) :
                /\ w = a \/ f[w - 1] = "\n"
                /\ f[w] # "#"
                /\ f[p - 1] = "\n" /\ \A r \in w..(p - 2) : f[r] # "\n"
      <4>1. a # p
        BY <2>1
      <4> QED BY <4>1 DEF PlainBefore
    <3>2. w \in Lines
      BY <1>b, <3>1
    <3>3. ~(w >= q)
      BY <1>2, <3>1, <3>2
    <3>4. q - 1 \in w..(p - 2) /\ q # a
      BY <2>1, <3>3
    <3> QED BY <3>1, <3>4
  <2>2. CASE q >= p
    <3>1. q \in p..(b - 1) /\ (q = a => q = p)
      BY <2>2
    <3> QED BY <3>1
  <2> QED BY <2>1, <2>2
<1>3. LastComments(f, a, b) \subseteq {q \in p..(b - 1) : q = p \/ f[q - 1] = "\n"}
  BY <1>0, <1>2
<1> QED BY <1>1, <1>3

\* A message is taken for fuzzy if one of the comments directly before it has the
\* flag.
LEMMA FuzzyIfFlagged ==
    ASSUME NEW f \in Seq(STRING), NEW a \in Po!Positions(f), NEW m,
           m = Po!MessagePreamble(f, Po!IgnoredComments(f, a)), m.next <= Len(f)
    PROVE  m.fuzzy <=> \E q \in LastComments(f, a, m.next) : Flagged(f, q)
<1>1. PICK p : p = Po!IgnoredComments(f, a)
  OBVIOUS
<1>2. p \in a..Ends(f) /\ p \in Po!Positions(f) /\ PlainBefore(f, a, p)
  BY <1>1, IgnoredCommentsFacts, IgnoredArePlain, Positive
<1>3. PICK b : b = m.next
  OBVIOUS
<1>4. b \in p..Ends(f)
  BY <1>1, <1>2, <1>3, MessagePreambleFacts
<1>5. Commented(f, p, b) /\ (m.fuzzy <=> FlagBetween(f, p, b))
  BY <1>1, <1>2, <1>3, CommentsMark DEF MarksAsTold
<1>6. a \in Nat /\ p \in Nat /\ b \in Nat /\ a <= p
  BY <1>2, <1>4, Positive
<1>7. LastComments(f, a, b) = {q \in p..(b - 1) : q = p \/ f[q - 1] = "\n"}
  BY <1>2, <1>5, <1>6, LastCommentsBegin
<1> QED BY <1>3, <1>5, <1>7 DEF FlagBetween

\* What FuzzyAsMarked says of a step in terms of the lemmas.
LEMMA NewEntryMarked ==
    ASSUME PoTypeInv, [PoNext]_poVars, NEW c \in Cat, Len(starts') = Len(starts) + 1,
           status[c] = "loading"
    PROVE  log'[c][Len(log'[c])].fuzzy <=>
             \E q \in LastComments(file, pos, starts'[Len(starts')]) : Flagged(file, q)
<1>1. /\ file \in Seq(STRING) /\ pos \in Po!Positions(file)
      /\ starts \in Seq(Po!Positions(file)) /\ Len(starts) \in Nat
      /\ log \in [Cat -> Seq(LogEntry)]
      /\ \A d \in Cat : status[d] = "loading" => d = c
  BY DEF PoTypeInv, RoundsInv, TypeInv, TypeOK
<1>2. starts' # starts
  BY <1>1
<1>3. ~ \E d \in Cat, w \in BOOLEAN : ReadHeader(d, w)
  BY DEF ReadHeader, LoadUnparsable, LoadFrom, LoadBadHeader, LoadBadPluralForms,
         LoadBadSingular, LoadHeader, StartLoad, Idle
<1>4. PICK d \in Cat : ReadMessage(d)
  BY <1>2, <1>3 DEF PoNext, ReadLastComments, Finish, Over, poVars
<1>5. PICK preamble : preamble = Preamble
  OBVIOUS
<1>6. PICK parsed : parsed = Po!Message(file, preamble.next)
  OBVIOUS
<1>7. /\ preamble.next <= Len(file)
      /\ ReadEntry(d, parsed.message, preamble.fuzzy)
      /\ starts' = Append(starts, preamble.next)
  BY <1>2, <1>4, <1>5, <1>6 DEF ReadMessage
<1>8. starts'[Len(starts')] = preamble.next
  <2>1. preamble.next \in Po!Positions(file)
    <3>1. PICK a : a = Po!IgnoredComments(file, pos)
      OBVIOUS
    <3>2. a \in Po!Positions(file) /\ a \in Nat
      BY <1>1, <3>1, IgnoredCommentsFacts, Positive
    <3> QED BY <1>1, <1>5, <3>1, <3>2, MessagePreambleFacts, Positive DEF Preamble
  <2> QED BY <1>1, <1>7, <2>1
<1>9. log'[c][Len(log'[c])].fuzzy = preamble.fuzzy
  <2>1. d = c
    BY <1>1, <1>7 DEF ReadEntry
  <2>2. PICK m : m = [parsed.message EXCEPT !.line = line]
    OBVIOUS
  <2>3. PICK entry : entry = [message |-> m, fuzzy |-> preamble.fuzzy]
    OBVIOUS
  <2>4. log' = [log EXCEPT ![c] = Append(@, entry)]
    BY <1>7, <2>1, <2>2, <2>3 DEF ReadEntry
  <2>5. log'[c] = Append(log[c], entry) /\ log[c] \in Seq(LogEntry)
    BY <1>1, <2>4
  <2>6. log'[c][Len(log'[c])] = entry
    BY <2>5
  <2> QED BY <2>3, <2>6
<1>10. preamble.fuzzy <=> \E q \in LastComments(file, pos, preamble.next) : Flagged(file, q)
  BY <1>1, <1>5, <1>7, FuzzyIfFlagged DEF Preamble
<1> QED BY <1>8, <1>9, <1>10

\* Whatever the file, an entry is held back as fuzzy exactly if one of the comment
\* lines directly before it lists the flag fuzzy: the kleene stars of the rules
\* for comments divide the lines before a message so that no flag of its own is
\* passed over, and none before a white line is taken for one of its own.
THEOREM MarkersDecide == PoSpec => FuzzyAsMarked
<1>1. ASSUME PoTypeInv, [PoNext]_poVars, NEW c \in Cat, Len(starts') = Len(starts) + 1,
             status[c] = "loading"
      PROVE  LET entry == log'[c][Len(log'[c])]
                 start == starts'[Len(starts')]
             IN  entry.fuzzy <=> \E q \in CommentsBefore(start) : HasFuzzyFlag(q)
  <2>1. \A p : CommentsBefore(p) = LastComments(file, pos, p)
    BY DEF CommentsBefore, LastComments
  <2>2. \A q : HasFuzzyFlag(q) <=> Flagged(file, q)
    BY DEF HasFuzzyFlag, Flagged
  <2>3. CommentsBefore(starts'[Len(starts')]) = LastComments(file, pos, starts'[Len(starts')])
    BY <2>1
  <2>4. log'[c][Len(log'[c])].fuzzy <=>
          \E q \in CommentsBefore(starts'[Len(starts')]) : HasFuzzyFlag(q)
    BY <1>1, <2>2, <2>3, NewEntryMarked
  <2> QED BY <2>4
<1>2. PoTypeInv /\ [PoNext]_poVars =>
        [\A c \in Cat : Len(starts') = Len(starts) + 1 /\ status[c] = "loading" =>
           LET entry == log'[c][Len(log'[c])]
               start == starts'[Len(starts')]
           IN  entry.fuzzy <=> \E q \in CommentsBefore(start) : HasFuzzyFlag(q)]_poVars
  BY <1>1
<1> QED BY <1>2, PoTypeInit, PoTypeStep, PTL DEF PoSpec, FuzzyAsMarked
-----------------------------------------------------------------------------
(* What a file says *)

\* The keywords of the format.
Keywords == {"msgctxt ", "msgid ", "msgid_plural ", "msgstr "}
              \cup {StrKeys[i] : i \in DOMAIN StrKeys}

\* The tokens, and what they stand for.
Tokens(f) == STRING \cup Contents(f) \cup Keywords

\* The tokens from p up to q, unquoted.
Content(f, p, q) == [i \in 1..(q - p) |-> Po!Decoded(f[p + i - 1])]

\* Significant, from position p of any sequence on.
Rest(f, p) ==
    LET End(q, t) == Po!First(f, q, LAMBDA u : u = t)
        from[q \in 1..(Len(f) + 2)] ==
          IF q > Len(f) THEN <<>>
          ELSE CASE f[q] = "#" -> from[End(q, "\n")]
                 [] f[q] \in White -> from[q + 1]
                 [] f[q] = "\"" ->
                      Content(f, q + 1, End(q + 1, "\"")) \o from[End(q + 1, "\"") + 1]
                 [] OTHER -> <<f[q]>> \o from[q + 1]
    IN  from[p]

\* The token that strings begin and end with.
Quote == "\""

\* It is not layout.
LEMMA QuoteFacts == Quote # "#" /\ Quote \notin White
BY DEF Quote, White

\* Where a quoted string ends, if all backslashes are taken for escapes.
QuoteEnd(f, p) == Po!First(f, p + 1, LAMBDA u : u = Quote)

\* It ends behind its opening quote, or with the file, at the next quote.
LEMMA QuoteEndFacts ==
    ASSUME NEW f \in Seq(STRING), NEW p \in Po!Positions(f), p <= Len(f)
    PROVE  /\ QuoteEnd(f, p) \in (p + 1)..Ends(f)
           /\ QuoteEnd(f, p) <= Len(f) => f[QuoteEnd(f, p)] = Quote
           /\ \A r \in (p + 1)..(QuoteEnd(f, p) - 1) : f[r] # Quote
<1> DEFINE n == Ends(f)
           T == {q \in 1..Len(f) : f[q] = Quote}
           Found(q) == (q <= Len(f) => f[q] = Quote) /\ \A r \in (p + 1)..(q - 1) : ~(f[r] = Quote)
<1>0. QuoteEnd(f, p) = CHOOSE x \in (p + 1)..n : Found(x)
  BY DEF QuoteEnd, Po!First, Ends
<1>1. n \in Nat /\ p + 1 \in 1..n /\ T \in SUBSET Nat
  BY Positive
<1>2. PICK q \in (p + 1)..n : (q < n => q \in T) /\ \A r \in (p + 1)..(q - 1) : r \notin T
  <2> HIDE DEF n, T
  <2> QED BY <1>1, Least
<1>3. Found(q)
  BY <1>1, <1>2, Positive
<1>4. QuoteEnd(f, p) \in (p + 1)..n /\ Found(QuoteEnd(f, p))
  <2> HIDE DEF Found
  <2> QED BY <1>0, <1>2, <1>3
<1> QED BY <1>4

\* What is left after the tokens at p, and what they say.
Beyond(f, p) ==
    IF f[p] = "#" THEN Po!LineEnd(f, p)
    ELSE IF f[p] \in White THEN p + 1
    ELSE IF f[p] = Quote THEN QuoteEnd(f, p) + 1
    ELSE p + 1

Said(f, p) ==
    IF f[p] = "#" THEN <<>>
    ELSE IF f[p] \in White THEN <<>>
    ELSE IF f[p] = Quote THEN Content(f, p + 1, QuoteEnd(f, p))
    ELSE <<f[p]>>

\* A part of a file says something.
LEMMA ContentFacts ==
    ASSUME NEW f \in Seq(STRING), NEW p \in Nat, NEW q \in Nat, 1 <= p, p <= q, q <= Ends(f)
    PROVE  Content(f, p, q) \in Seq(Contents(f)) /\ Content(f, p, q) \in Seq(Tokens(f))
<1>1. q - p \in Nat
  OBVIOUS
<1>2. ASSUME NEW i \in 1..(q - p)
      PROVE  Po!Decoded(f[p + i - 1]) \in Contents(f)
  <2>1. p + i - 1 \in DOMAIN f
    BY Positive
  <2> QED BY <2>1 DEF Contents
<1>3. PICK n \in Nat : n = q - p
  BY <1>1
<1> DEFINE text == [i \in 1..n |-> Po!Decoded(f[p + i - 1])]
<1>4. Content(f, p, q) = text
  BY <1>3 DEF Content
<1>5. text \in [1..n -> Contents(f)]
  BY <1>2, <1>3
<1> HIDE DEF text
<1>6. text \in Seq(Contents(f))
  BY <1>5
<1>7. text \in Seq(Tokens(f))
  BY <1>6, SeqMonotonic DEF Tokens
<1> QED BY <1>4, <1>6, <1>7

\* There is more behind, and it goes on.
LEMMA BeyondFacts ==
    ASSUME NEW f \in Seq(STRING), NEW p \in 1..Len(f)
    PROVE  /\ Beyond(f, p) \in (p + 1)..(Len(f) + 2)
           /\ Said(f, p) \in Seq(Tokens(f))
<1>1. Len(f) \in Nat /\ Ends(f) = Len(f) + 1 /\ p \in Po!Positions(f) /\ DOMAIN f = 1..Len(f)
  BY Positive
<1>2. CASE f[p] = "#"
  <2>1. PICK e : e = Po!LineEnd(f, p)
    OBVIOUS
  <2>2. e \in p..Ends(f) /\ (e <= Len(f) => f[e] = "\n")
    BY <1>1, <2>1, LineEndFacts
  <2>3. e # p
    BY <1>2, <2>2
  <2>4. e \in (p + 1)..(Len(f) + 2)
    BY <1>1, <2>2, <2>3
  <2> QED BY <1>2, <2>1, <2>4, EmptySeq DEF Beyond, Said
<1>3. CASE f[p] # "#" /\ f[p] \in White
  <2>1. Beyond(f, p) = p + 1 /\ Said(f, p) = <<>>
    BY <1>3 DEF Beyond, Said
  <2> QED BY <1>1, <2>1, EmptySeq
<1>4. CASE f[p] = Quote
  <2>1. PICK e : e = QuoteEnd(f, p)
    OBVIOUS
  <2>2. e \in (p + 1)..Ends(f)
    BY <1>1, <2>1, QuoteEndFacts
  <2>3. e + 1 \in (p + 1)..(Len(f) + 2)
    BY <1>1, <2>2
  <2>4. Content(f, p + 1, e) \in Seq(Tokens(f))
    BY <1>1, <2>2, ContentFacts
  <2>5. f[p] # "#" /\ f[p] \notin White
    BY <1>4, QuoteFacts
  <2> QED BY <1>4, <2>1, <2>3, <2>4, <2>5 DEF Beyond, Said
<1>5. CASE f[p] # "#" /\ f[p] \notin White /\ f[p] # Quote
  <2>1. Beyond(f, p) = p + 1 /\ Said(f, p) = <<f[p]>>
    BY <1>5 DEF Beyond, Said
  <2>2. f[p] \in Tokens(f)
    BY <1>1 DEF Tokens
  <2>3. <<f[p]>> \in Seq(Tokens(f))
    BY <2>2
  <2> QED BY <1>1, <2>1, <2>3
<1> QED BY <1>2, <1>3, <1>4, <1>5

\* What a file says from p on is what its token at p says, and the rest.
LEMMA RestUnfolds ==
    ASSUME NEW f \in Seq(STRING), NEW p \in 1..(Len(f) + 2)
    PROVE  /\ Rest(f, p) \in Seq(Tokens(f))
           /\ p > Len(f) => Rest(f, p) = <<>>
           /\ p <= Len(f) => Rest(f, p) = Said(f, p) \o Rest(f, Beyond(f, p))
<1> DEFINE n == Len(f) + 2
           D == 1..n
           V == Seq(Tokens(f))
           stop == {q \in D : q > Len(f)}
           base == [q \in D |-> <<>>]
           jump == [q \in D |-> IF q \in stop THEN q ELSE Beyond(f, q)]
           step == [q \in D |-> [v \in V |-> IF q \in stop THEN v ELSE Said(f, q) \o v]]
           rank == [q \in D |-> n - q]
           Body(g) == g = [q \in D |->
                             IF q > Len(f) THEN <<>>
                             ELSE CASE f[q] = "#" -> g[Po!LineEnd(f, q)]
                                    [] f[q] \in White -> g[q + 1]
                                    [] f[q] = Quote ->
                                         Content(f, q + 1, QuoteEnd(f, q)) \o g[QuoteEnd(f, q) + 1]
                                    [] OTHER -> <<f[q]>> \o g[q + 1]]
           from == CHOOSE g : Body(g)
<1>0. ASSUME NEW q PROVE Rest(f, q) = from[q]
  BY DEF Rest, Po!LineEnd, QuoteEnd, Quote
<1>a. n \in Nat /\ Len(f) \in Nat /\ <<>> \in V /\ p \in D
  BY EmptySeq
<1>1. ASSUME NEW q \in D \ stop
      PROVE  /\ Beyond(f, q) \in (q + 1)..n /\ Beyond(f, q) \in D
             /\ Said(f, q) \in V /\ q \in 1..Len(f)
  <2>1. q \in 1..Len(f)
    BY <1>a
  <2> QED BY <1>a, <2>1, BeyondFacts
<1>2. Descends(D, V, stop, base, jump, step, rank, n)
  <2>1. rank \in [D -> 0..n] /\ stop \in SUBSET D /\ base \in [D -> V]
    BY <1>a
  <2>2. jump \in [D -> D] /\ \A q \in D \ stop : rank[jump[q]] < rank[q]
    <3>1. ASSUME NEW q \in D
          PROVE  jump[q] \in D /\ (q \notin stop => rank[jump[q]] < rank[q])
      <4>1. CASE q \in stop
        BY <4>1
      <4>2. CASE q \notin stop
        <5>1. PICK r : r = Beyond(f, q)
          OBVIOUS
        <5>2. jump[q] = r /\ r \in (q + 1)..n /\ r \in D
          BY <5>1, <1>1, <4>2
        <5>3. rank[q] = n - q /\ rank[r] = n - r
          BY <5>2
        <5> QED BY <1>a, <5>2, <5>3
      <4> QED BY <4>1, <4>2
    <3>2. jump = [q \in D |-> jump[q]]
      OBVIOUS
    <3> HIDE DEF jump
    <3> QED BY <3>1, <3>2
  <2>3. step \in [D -> [V -> V]]
    <3>1. ASSUME NEW q \in D \ stop, NEW v \in V
          PROVE  Said(f, q) \o v \in V
      BY <1>1, ConcatProperties
    <3> HIDE DEF V, stop
    <3> QED BY <3>1
  <2> HIDE DEF D, V, stop, base, jump, step, rank
  <2> QED BY <1>a, <2>1, <2>2, <2>3 DEF Descends
<1>3. PICK g \in [D -> V] : Solves(g, D, stop, base, jump, step)
  <2> HIDE DEF D, V, stop, base, jump, step, rank
  <2> QED BY <1>2, Recursion
<1>4. ASSUME NEW h, NEW q \in D \ stop, h[Beyond(f, q)] \in V
      PROVE  Said(f, q) \o h[Beyond(f, q)] =
               CASE f[q] = "#" -> h[Po!LineEnd(f, q)]
                 [] f[q] \in White -> h[q + 1]
                 [] f[q] = Quote -> Content(f, q + 1, QuoteEnd(f, q)) \o h[QuoteEnd(f, q) + 1]
                 [] OTHER -> <<f[q]>> \o h[q + 1]
  <2>1. PICK v \in V : v = h[Beyond(f, q)]
    BY <1>4
  <2>2. <<>> \o v = v
    BY ConcatEmptySeq
  <2>3. CASE f[q] = "#"
    <3>1. f[q] # Quote /\ f[q] \notin White
      BY <2>3, QuoteFacts DEF White
    <3> QED BY <2>1, <2>2, <2>3, <3>1 DEF Said, Beyond
  <2>4. CASE f[q] # "#" /\ f[q] \in White
    <3>1. f[q] # Quote
      BY <2>4, QuoteFacts
    <3> QED BY <2>1, <2>2, <2>4, <3>1 DEF Said, Beyond
  <2>5. CASE f[q] # "#" /\ f[q] \notin White /\ f[q] = Quote
    BY <2>5 DEF Said, Beyond
  <2>6. CASE f[q] # "#" /\ f[q] \notin White /\ f[q] # Quote
    BY <2>6 DEF Said, Beyond
  <2> QED BY <2>3, <2>4, <2>5, <2>6
<1>5. ASSUME NEW q \in D \ stop
      PROVE  g[q] = Said(f, q) \o g[Beyond(f, q)]
  <2>1. g[q] = step[q][g[jump[q]]] /\ jump[q] = Beyond(f, q)
    BY <1>3 DEF Solves
  <2>2. PICK v \in V : v = g[Beyond(f, q)]
    <3> HIDE DEF V
    <3> QED BY <1>1
  <2>3. step[q][v] = Said(f, q) \o v
    <3> HIDE DEF V, stop
    <3> QED OBVIOUS
  <2> QED BY <2>1, <2>2, <2>3
<1>6. Body(g)
  <2>1. ASSUME NEW q \in D
        PROVE  g[q] = IF q > Len(f) THEN <<>>
                      ELSE CASE f[q] = "#" -> g[Po!LineEnd(f, q)]
                             [] f[q] \in White -> g[q + 1]
                             [] f[q] = Quote ->
                                  Content(f, q + 1, QuoteEnd(f, q)) \o g[QuoteEnd(f, q) + 1]
                             [] OTHER -> <<f[q]>> \o g[q + 1]
    <3>0. g[Beyond(f, q)] \in V \/ q \in stop
      <4> HIDE DEF V, stop
      <4> QED BY <1>1
    <3>1. CASE q \in stop
      BY <1>3, <3>1 DEF Solves
    <3>2. CASE q \notin stop
      <4>1. ~(q > Len(f))
        BY <3>2
      <4> HIDE DEF V, stop
      <4> QED BY <1>4, <1>5, <3>0, <3>2, <4>1
    <3> QED BY <3>1, <3>2
  <2> QED BY <2>1
<1>7. Body(from)
  <2> HIDE DEF Body
  <2> QED BY <1>6
<1> DEFINE Good == {q \in D : from[q] \in V}
           next == [q \in D |-> IF q > Len(f) THEN 0 ELSE Beyond(f, q)]
<1> HIDE DEF from
<1>8. ASSUME NEW q \in D \ stop, from[Beyond(f, q)] \in V
      PROVE  from[q] = Said(f, q) \o from[Beyond(f, q)]
  <2>1. ~(q > Len(f))
    OBVIOUS
  <2> HIDE DEF V, stop
  <2> QED BY <1>4, <1>7, <1>8, <2>1
<1>9. ASSUME NEW q \in D, next[q] = 0 \/ next[q] \in Good
      PROVE  q \in Good
  <2>1. CASE q > Len(f)
    BY <1>7, <1>a, <2>1
  <2>2. CASE ~(q > Len(f))
    <3>1. q \in D \ stop /\ next[q] = Beyond(f, q)
      BY <2>2
    <3>2. Beyond(f, q) # 0 /\ Said(f, q) \in V
      BY <3>1, <1>1
    <3>3. from[Beyond(f, q)] \in V
      BY <1>9, <3>1, <3>2
    <3>4. from[q] = Said(f, q) \o from[Beyond(f, q)]
      BY <1>8, <3>1, <3>3
    <3>5. from[q] \in V
      BY <3>2, <3>3, <3>4, ConcatProperties
    <3> QED BY <3>5
  <2> QED BY <2>1, <2>2
<1>10. \A q \in 1..n : next[q] = 0 \/ next[q] \in (q + 1)..n
  <2>1. ASSUME NEW q \in D
        PROVE  next[q] = 0 \/ next[q] \in (q + 1)..n
    <3>1. CASE q > Len(f)
      BY <3>1
    <3>2. CASE ~(q > Len(f))
      <4>1. q \in D \ stop /\ next[q] = Beyond(f, q)
        BY <3>2
      <4> QED BY <4>1, <1>1
    <3> QED BY <3>1, <3>2
  <2> QED BY <2>1
<1>11. Good = 1..n
  <2>1. Good \in SUBSET (1..n)
    OBVIOUS
  <2> HIDE DEF Good, next, n
  <2> QED BY <1>a, <1>9, <1>10, <2>1, Backwards
<1>12. from[p] \in V
  BY <1>11, <1>a
<1>13. p > Len(f) => from[p] = <<>>
  BY <1>7, <1>a
<1>14. ASSUME ~(p > Len(f))
       PROVE  from[p] = Said(f, p) \o from[Beyond(f, p)]
  <2>1. p \in D \ stop
    BY <1>14
  <2>2. from[Beyond(f, p)] \in V
    BY <1>1, <1>11, <2>1
  <2> QED BY <1>8, <2>1, <2>2
<1>15. p <= Len(f) => ~(p > Len(f))
  BY <1>a
<1> QED BY <1>0, <1>12, <1>13, <1>14, <1>15
-----------------------------------------------------------------------------
(* Layout and comments say nothing *)

\* The positions of which RestUnfolds speaks.
LEMMA PlacesFacts ==
    ASSUME NEW f \in Seq(STRING), NEW p \in Po!Positions(f)
    PROVE  /\ p \in 1..(Len(f) + 2) /\ p \in Nat /\ Len(f) \in Nat
           /\ p <= Len(f) => p \in 1..Len(f) /\ p + 1 \in Po!Positions(f)
           /\ p <= Len(f) \/ p > Len(f)
           /\ Rest(f, p) \in Seq(Tokens(f))
<1>1. p \in 1..(Len(f) + 2)
  BY Positive
<1> QED BY <1>1, Positive, RestUnfolds

\* Nor does a blank or the end of a line.
LEMMA LayoutSkipped ==
    ASSUME NEW f \in Seq(STRING), NEW p \in 1..Len(f), f[p] \in White
    PROVE  Rest(f, p) = Rest(f, p + 1)
<1>1. p \in 1..(Len(f) + 2) /\ p + 1 \in 1..(Len(f) + 2) /\ p <= Len(f)
  BY Positive
<1>2. f[p] # "#"
  BY DEF White
<1>3. Rest(f, p) = <<>> \o Rest(f, p + 1)
  BY <1>1, <1>2, RestUnfolds DEF Said, Beyond
<1> QED BY <1>1, <1>3, RestUnfolds, ConcatEmptySeq

\* Nor does a comment.
LEMMA CommentSkipped ==
    ASSUME NEW f \in Seq(STRING), NEW p \in Po!Positions(f)
    PROVE  Rest(f, p) = Rest(f, Po!OptionalComment(f, p))
<1>1. CASE Po!At(f, p, "#")
  <2>1. p \in 1..Len(f) /\ f[p] = "#" /\ p <= Len(f) /\ p \in 1..(Len(f) + 2)
    BY <1>1, Positive DEF Po!At
  <2>2. PICK e : e = Po!LineEnd(f, p)
    OBVIOUS
  <2>3. e \in Po!Positions(f) /\ Po!OptionalComment(f, p) = e
    BY <1>1, <2>2, LineEndFacts, Positive DEF Po!OptionalComment, Po!CommentLine
  <2>4. Rest(f, p) = <<>> \o Rest(f, e)
    BY <2>1, <2>2, RestUnfolds DEF Said, Beyond
  <2> QED BY <2>3, <2>4, PlacesFacts, ConcatEmptySeq
<1>2. CASE ~Po!At(f, p, "#")
  BY <1>2 DEF Po!OptionalComment
<1> QED BY <1>1, <1>2

\* Nor do blanks.
LEMMA BlanksSkipped ==
    ASSUME NEW f \in Seq(STRING), NEW p \in Po!Positions(f), NEW e \in p..Ends(f),
           \A r \in p..(e - 1) : f[r] \in White
    PROVE  Rest(f, p) = Rest(f, e)
<1> DEFINE jump == [q \in Po!Positions(f) |-> IF q < Ends(f) THEN q + 1 ELSE Po!Fail]
           Good == {q \in Po!Positions(f) : q \in p..e => Rest(f, q) = Rest(f, e)}
<1>1. \A q \in Po!Positions(f) : jump[q] \in Later(f, q)
  BY Positive DEF Later
<1>2. ASSUME NEW q \in Po!Positions(f), jump[q] = Po!Fail \/ jump[q] \in Good
      PROVE  q \in Good
  <2>1. CASE q \in p..(e - 1)
    <3>1. q \in 1..Len(f) /\ q < Ends(f) /\ q + 1 \in p..e /\ q + 1 # Po!Fail
      BY <2>1, Positive DEF Po!Fail
    <3>2. Rest(f, q + 1) = Rest(f, e)
      BY <1>2, <3>1
    <3>3. Rest(f, q) = Rest(f, q + 1)
      BY <2>1, <3>1, LayoutSkipped
    <3> QED BY <3>2, <3>3
  <2>2. CASE q = e
    BY <2>2
  <2>3. q \in p..e => q \in p..(e - 1) \/ q = e
    BY Positive
  <2> QED BY <2>1, <2>2, <2>3
<1>3. Good = Po!Positions(f)
  <2> HIDE DEF jump, Good
  <2>1. Good \in SUBSET Po!Positions(f)
    BY DEF Good
  <2> QED BY <1>1, <1>2, <2>1, FromTheEnd
<1>4. p \in p..e
  BY Positive
<1> QED BY <1>3, <1>4

\* Nor does a newline behind what says nothing.
LEMMA EndLineSkipped ==
    ASSUME NEW f \in Seq(STRING), NEW p, NEW q \in Po!Positions(f), Rest(f, p) = Rest(f, q),
           Po!EndLine(f, q) # Po!Fail
    PROVE  Rest(f, p) = Rest(f, Po!EndLine(f, q))
<1>1. Po!At(f, q, "\n") /\ Po!EndLine(f, q) = q + 1
  BY DEF Po!EndLine
<1>2. q \in 1..Len(f) /\ f[q] = "\n"
  BY <1>1, Positive DEF Po!At
<1>3. f[q] \in White
  BY <1>2 DEF White
<1> QED BY <1>1, <1>2, <1>3, LayoutSkipped

\* Nor does a comment line.
LEMMA CommentLineSkipped ==
    ASSUME NEW f \in Seq(STRING), NEW p \in Po!Positions(f), Po!PreambleCommentLine(f, p) # Po!Fail
    PROVE  Rest(f, p) = Rest(f, Po!PreambleCommentLine(f, p))
<1>1. PICK q : q = Po!CommentLine(f, p)
  OBVIOUS
<1>2. Po!PreambleCommentLine(f, p) = Po!EndLine(f, q) /\ q # Po!Fail
  BY <1>1 DEF Po!PreambleCommentLine, Po!EndLine
<1>3. q = Po!OptionalComment(f, p) /\ q \in Po!Positions(f)
  BY <1>1, <1>2, CommentFacts, Positive DEF Po!OptionalComment, Po!CommentLine
<1> QED BY <1>2, <1>3, CommentSkipped, EndLineSkipped

\* Nor does a white line.
LEMMA WhiteLineSkipped ==
    ASSUME NEW f \in Seq(STRING), NEW p \in Po!Positions(f)
    PROVE  /\ Rest(f, p) = Rest(f, Po!WhiteLine(f, p))
           /\ Po!WhiteLine(f, p) \in Po!Positions(f)
<1>1. PICK q : q = Po!WhiteLine(f, p)
  OBVIOUS
<1>2. q \in p..Ends(f) /\ \A r \in p..(q - 1) : f[r] \in {" ", "\t", "\r"}
  BY <1>1, WhiteLineFacts
<1>3. \A r \in p..(q - 1) : f[r] \in White
  BY <1>2 DEF White
<1>4. q \in p..Ends(f)
  BY <1>2
<1>5. q \in Po!Positions(f)
  BY <1>4, Positive
<1> QED BY <1>1, <1>3, <1>4, <1>5, BlanksSkipped

\* Nor do lines that may stand between those of a message.
LEMMA SkippedLineSkipped ==
    ASSUME NEW f \in Seq(STRING), NEW p \in Po!Positions(f), Po!SkippedLine(f, p) # Po!Fail
    PROVE  Rest(f, p) = Rest(f, Po!SkippedLine(f, p))
<1>1. CASE Po!At(f, p, "#")
  <2>1. Po!SkippedLine(f, p) = Po!PreambleCommentLine(f, p)
    BY <1>1 DEF Po!SkippedLine, Po!PreambleCommentLine
  <2> QED BY <2>1, CommentLineSkipped
<1>2. CASE ~Po!At(f, p, "#")
  <2>1. Po!SkippedLine(f, p) = Po!EndLine(f, Po!WhiteLine(f, p))
    BY <1>2 DEF Po!SkippedLine
  <2> QED BY <2>1, WhiteLineSkipped, EndLineSkipped
<1> QED BY <1>1, <1>2

\* However many.
LEMMA SkippedBlockSkipped ==
    ASSUME NEW f \in Seq(STRING), NEW p \in Po!Positions(f)
    PROVE  /\ Rest(f, p) = Rest(f, Po!SkippedBlock(f, p))
           /\ Po!SkippedLine(f, Po!SkippedBlock(f, p)) = Po!Fail
<1> DEFINE jump == [q \in Po!Positions(f) |-> Po!SkippedLine(f, q)]
           Good == {q \in Po!Positions(f) :
                      /\ Rest(f, q) = Rest(f, Po!SkippedBlock(f, q))
                      /\ Po!SkippedLine(f, Po!SkippedBlock(f, q)) = Po!Fail}
<1>1. \A q \in Po!Positions(f) : jump[q] \in Later(f, q)
  BY SkippedLineFacts
<1>2. ASSUME NEW q \in Po!Positions(f), jump[q] = Po!Fail \/ jump[q] \in Good
      PROVE  q \in Good
  BY <1>2, SkippedBlockUnfolds, SkippedLineSkipped
<1>3. Good = Po!Positions(f)
  <2> HIDE DEF jump, Good
  <2>1. Good \in SUBSET Po!Positions(f)
    BY DEF Good
  <2> QED BY <1>1, <1>2, <2>1, FromTheEnd
<1> QED BY <1>3

\* Nor do comment lines.
LEMMA CommentBlockSkipped ==
    ASSUME NEW f \in Seq(STRING), NEW p \in Po!Positions(f)
    PROVE  Rest(f, p) = Rest(f, CommentBlock(f, p))
<1> DEFINE jump == [q \in Po!Positions(f) |-> Po!PreambleCommentLine(f, q)]
           Good == {q \in Po!Positions(f) : Rest(f, q) = Rest(f, CommentBlock(f, q))}
<1>1. \A q \in Po!Positions(f) : jump[q] \in Later(f, q)
  BY CommentFacts
<1>2. ASSUME NEW q \in Po!Positions(f), jump[q] = Po!Fail \/ jump[q] \in Good
      PROVE  q \in Good
  BY <1>2, CommentBlockUnfolds, CommentLineSkipped
<1>3. Good = Po!Positions(f)
  <2> HIDE DEF jump, Good
  <2>1. Good \in SUBSET Po!Positions(f)
    BY DEF Good
  <2> QED BY <1>1, <1>2, <2>1, FromTheEnd
<1> QED BY <1>3

\* Nor do comment lines with a white line behind them.
LEMMA IgnoredBlockSkipped ==
    ASSUME NEW f \in Seq(STRING), NEW p \in Po!Positions(f), IgnoredBlock(f, p) # Po!Fail
    PROVE  Rest(f, p) = Rest(f, IgnoredBlock(f, p))
<1>1. PICK s : s = CommentBlock(f, p)
  OBVIOUS
<1>2. s \in Po!Positions(f) /\ Rest(f, p) = Rest(f, s)
  BY <1>1, CommentBlockFacts, CommentBlockSkipped, Positive
<1>3. PICK w : w = Po!WhiteLine(f, s)
  OBVIOUS
<1>4. w \in Po!Positions(f) /\ Rest(f, p) = Rest(f, w)
  BY <1>2, <1>3, WhiteLineSkipped
<1>5. IgnoredBlock(f, p) = Po!EndLine(f, w)
  BY <1>1, <1>3 DEF IgnoredBlock
<1> QED BY <1>4, <1>5, EndLineSkipped

\* However many.
LEMMA IgnoredCommentsSkipped ==
    ASSUME NEW f \in Seq(STRING), NEW p \in Po!Positions(f)
    PROVE  Rest(f, p) = Rest(f, Po!IgnoredComments(f, p))
<1> DEFINE jump == [q \in Po!Positions(f) |-> IgnoredBlock(f, q)]
           Good == {q \in Po!Positions(f) : Rest(f, q) = Rest(f, Po!IgnoredComments(f, q))}
<1>1. \A q \in Po!Positions(f) : jump[q] \in Later(f, q)
  BY IgnoredBlockFacts
<1>2. ASSUME NEW q \in Po!Positions(f), jump[q] = Po!Fail \/ jump[q] \in Good
      PROVE  q \in Good
  BY <1>2, IgnoredCommentsUnfold, IgnoredBlockSkipped
<1>3. Good = Po!Positions(f)
  <2> HIDE DEF jump, Good
  <2>1. Good \in SUBSET Po!Positions(f)
    BY DEF Good
  <2> QED BY <1>1, <1>2, <2>1, FromTheEnd
<1> QED BY <1>3

\* Nor do the comments directly before a message.  If a token follows, they are a
\* block of comments.
LEMMA PreambleSkipped ==
    ASSUME NEW f \in Seq(STRING), NEW p \in Po!Positions(f)
    PROVE  /\ Rest(f, p) = Rest(f, Po!MessagePreamble(f, p).next)
           /\ Po!MessagePreamble(f, p).next <= Len(f) =>
                Po!MessagePreamble(f, p).next = CommentBlock(f, p)
<1> DEFINE jump == [q \in Po!Positions(f) |-> PreambleJump(f, q)]
           Stops(q, next) == Rest(f, q) = Rest(f, next) /\ (next <= Len(f) => next = CommentBlock(f, q))
           Good == {q \in Po!Positions(f) : Stops(q, Po!MessagePreamble(f, q).next)}
<1>1. \A q \in Po!Positions(f) : jump[q] \in Later(f, q)
  BY MessagePreambleUnfolds
<1>2. ASSUME NEW q \in Po!Positions(f), jump[q] = Po!Fail \/ jump[q] \in Good
      PROVE  q \in Good
  <2>1. PICK next : next = Po!MessagePreamble(f, q).next
    OBVIOUS
  <2>2. CASE Po!Fuzzy(f, q) # Po!Fail
    <3>1. PICK r : r = Po!Fuzzy(f, q)
      OBVIOUS
    <3>2. r \in Po!Positions(f) /\ r = Po!PreambleCommentLine(f, q) /\ r # Po!Fail
      BY <2>2, <3>1, MarkedFacts, FuzzyIsFlagged
    <3>3. PICK s : s = CommentBlock(f, r)
      OBVIOUS
    <3>4. s \in Po!Positions(f) /\ s = CommentBlock(f, q) /\ Rest(f, q) = Rest(f, s)
      <4>1. s \in Po!Positions(f)
        BY <2>2, <3>1, <3>3, MarkedFacts
      <4>2. s = CommentBlock(f, q)
        BY <3>2, <3>3, CommentBlockUnfolds
      <4> QED BY <4>1, <4>2, CommentBlockSkipped
    <3>5. next = Po!OptionalComment(f, s)
      <4>1. Po!MessagePreamble(f, q) = [next |-> Marked(f, q), fuzzy |-> TRUE]
        BY <2>2, MessagePreambleUnfolds
      <4> QED BY <2>1, <3>1, <3>3, <4>1 DEF Marked
    <3>6. Rest(f, q) = Rest(f, next)
      BY <3>4, <3>5, CommentSkipped
    <3>7. next <= Len(f) => next = s
      <4>1. next = s \/ next > Len(f)
        BY <3>2, <3>3, <3>4, <3>5, BlockIsCommented, LastComment
      <4>2. next \in Nat /\ Len(f) \in Nat
        BY <3>4, <3>5, CommentFacts, Positive
      <4> QED BY <4>1, <4>2
    <3> QED BY <2>1, <3>4, <3>6, <3>7
  <2>3. CASE Po!Fuzzy(f, q) = Po!Fail /\ jump[q] # Po!Fail
    <3>1. PICK r : r = jump[q]
      OBVIOUS
    <3>2. r \in Good /\ r = Po!PreambleCommentLine(f, q) /\ r # Po!Fail
      BY <1>2, <2>3, <3>1 DEF PreambleJump
    <3>3. next = Po!MessagePreamble(f, r).next
      BY <2>1, <2>3, <3>1, MessagePreambleUnfolds
    <3>4. Stops(r, next)
      <4> HIDE DEF Stops
      <4> QED BY <3>2, <3>3
    <3>5. CommentBlock(f, q) = CommentBlock(f, r) /\ Rest(f, q) = Rest(f, r)
      BY <3>2, CommentBlockUnfolds, CommentLineSkipped
    <3> QED BY <2>1, <3>4, <3>5
  <2>4. CASE Po!Fuzzy(f, q) = Po!Fail /\ jump[q] = Po!Fail
    <3>1. next = Po!OptionalComment(f, q)
      <4>1. Po!MessagePreamble(f, q) = [next |-> Po!OptionalComment(f, q), fuzzy |-> FALSE]
        BY <2>4, MessagePreambleUnfolds
      <4> QED BY <2>1, <4>1
    <3>2. Rest(f, q) = Rest(f, next)
      BY <3>1, CommentSkipped
    <3>3. Po!PreambleCommentLine(f, q) = Po!Fail
      BY <2>4 DEF PreambleJump
    <3>4. next <= Len(f) => next = q
      <4>1. next = q \/ next > Len(f)
        BY <3>1, <3>3, LastComment
      <4>2. next \in Nat /\ Len(f) \in Nat
        BY <3>1, CommentFacts, Positive
      <4> QED BY <4>1, <4>2
    <3>5. CommentBlock(f, q) = q
      BY <3>3, CommentBlockUnfolds
    <3> QED BY <2>1, <3>2, <3>4, <3>5
  <2> QED BY <2>2, <2>3, <2>4
<1>3. Good = Po!Positions(f)
  <2> HIDE DEF jump, Good
  <2>1. Good \in SUBSET Po!Positions(f)
    BY DEF Good
  <2> QED BY <1>1, <1>2, <2>1, FromTheEnd
<1> QED BY <1>3
-----------------------------------------------------------------------------
(* Strings say what they contain *)

\* Texts are put together in any order.
Assoc(a, b, c) == (a \o b) \o c = a \o (b \o c)

\* For all texts.
LEMMA Associative ==
    ASSUME NEW S, NEW a \in Seq(S), NEW b \in Seq(S), NEW c \in Seq(S)
    PROVE  Assoc(a, b, c) /\ a \o b \in Seq(S) /\ b \o c \in Seq(S)
BY ConcatAssociative, ConcatProperties DEF Assoc

\* One piece is a text.
LEMMA Alone ==
    ASSUME NEW S, NEW a \in S
    PROVE  <<a>> \in Seq(S)
OBVIOUS

\* What is made of the tokens of a file, is made of tokens and what they stand for.
LEMMA TextsAreTokens ==
    ASSUME NEW f
    PROVE  /\ Seq(Contents(f)) \subseteq Seq(Tokens(f))
           /\ \A t \in Keywords : <<t>> \in Seq(Tokens(f))
<1>1. Contents(f) \subseteq Tokens(f) /\ \A t \in Keywords : t \in Tokens(f)
  BY DEF Tokens
<1>2. Seq(Contents(f)) \subseteq Seq(Tokens(f))
  BY <1>1, SeqMonotonic
<1>3. ASSUME NEW t \in Keywords
      PROVE  <<t>> \in Seq(Tokens(f))
  <2>1. PICK T : T = Tokens(f)
    OBVIOUS
  <2>2. t \in T
    BY <1>1, <2>1
  <2>3. <<t>> \in Seq(T)
    BY <2>2, Alone
  <2> QED BY <2>1, <2>3
<1> QED BY <1>2, <1>3

\* The text of a piece is what stands between its quotes.
LEMMA PieceSaid ==
    ASSUME NEW f \in Seq(STRING), NEW p \in Po!Positions(f), NEW r,
           r = Po!SingleLineString(f, p), r.next # Po!Fail
    PROVE  Rest(f, p) = r.text \o Rest(f, r.next)
<1>1. PICK end : end = TextEnd(f, p)
  OBVIOUS
<1> DEFINE text == [i \in 1..(end - p - 1) |-> Po!Decoded(f[p + i])]
<1>2. /\ Po!At(f, p, Quote) /\ Po!At(f, end, Quote)
      /\ r = [next |-> end + 1, text |-> text]
  BY <1>1 DEF TextEnd, Po!SingleLineString, Po!Rejected, Quote
<1>3. p \in 1..Len(f) /\ f[p] = Quote /\ end \in 1..Len(f) /\ f[end] = Quote /\ p <= Len(f)
  BY <1>2, Positive DEF Po!At
<1>4. /\ end \in (p + 1)..Ends(f)
      /\ \A i \in (p + 1)..(end - 1) : f[i] # Quote
  BY <1>1, <1>3, TextEndFacts DEF Quote
<1>5. PICK q : q = QuoteEnd(f, p)
  OBVIOUS
<1>6. /\ q \in (p + 1)..Ends(f)
      /\ q <= Len(f) => f[q] = Quote
      /\ \A i \in (p + 1)..(q - 1) : f[i] # Quote
  BY <1>3, <1>5, QuoteEndFacts
<1>7. q = end
  <2>1. ~(q < end)
    <3>1. q < end => q \in (p + 1)..(end - 1) /\ q <= Len(f)
      BY <1>3, <1>6
    <3> QED BY <1>4, <1>6, <3>1
  <2>2. ~(q > end)
    <3>1. q > end => end \in (p + 1)..(q - 1)
      BY <1>3, <1>4, <1>6
    <3> QED BY <1>3, <1>6, <3>1
  <2> QED BY <1>3, <1>6, <2>1, <2>2
<1>8. Content(f, p + 1, end) = text
  <2>1. end - (p + 1) = end - p - 1
    BY <1>3
  <2>2. \A i \in 1..(end - p - 1) : p + 1 + i - 1 = p + i
    BY <1>3
  <2> QED BY <2>1, <2>2 DEF Content
<1>9. Said(f, p) = text /\ Beyond(f, p) = end + 1
  BY <1>3, <1>5, <1>7, <1>8, QuoteFacts DEF Said, Beyond
<1>10. Rest(f, p) = text \o Rest(f, end + 1)
  <2>1. p \in 1..(Len(f) + 2)
    BY PlacesFacts
  <2> QED BY <1>3, <1>9, <2>1, RestUnfolds
<1> HIDE DEF text
<1> QED BY <1>2, <1>10

\* The text of a string is what its pieces contain.
LEMMA StringSaid ==
    ASSUME NEW f \in Seq(STRING), NEW p \in Po!Positions(f), NEW r,
           r = Po!MultilineString(f, p), r.next # Po!Fail
    PROVE  Rest(f, p) = r.text \o Rest(f, r.next)
<1> DEFINE jump == [q \in Po!Positions(f) |-> NextPiece(f, q)]
           Tells(q, v) == v.next # Po!Fail => Rest(f, q) = v.text \o Rest(f, v.next)
           Good == {q \in Po!Positions(f) : Tells(q, Po!MultilineString(f, q))}
<1>1. \A q \in Po!Positions(f) : jump[q] \in Later(f, q)
  BY MultilineStringUnfolds
<1>2. ASSUME NEW q \in Po!Positions(f), jump[q] = Po!Fail \/ jump[q] \in Good
      PROVE  q \in Good
  <2>1. PICK first : first = Po!SingleLineString(f, q)
    OBVIOUS
  <2>2. CASE first.next = Po!Fail
    <3>1. Po!MultilineString(f, q).next = Po!Fail
      BY <2>1, <2>2, MultilineStringUnfolds DEF Po!Rejected
    <3> QED BY <3>1
  <2>3. CASE first.next # Po!Fail
    <3>1. PICK m : m = NextPiece(f, q)
      OBVIOUS
    <3>2. /\ first \in [next : (q + 1)..Ends(f), text : Seq(Contents(f))]
          /\ first.next \in Po!Positions(f)
          /\ m = Po!SkippedBlock(f, first.next) /\ m \in Po!Positions(f) /\ m # Po!Fail
      BY <2>1, <2>3, <3>1, PieceFacts, Positive DEF NextPiece, Po!Fail
    <3>3. PICK v : v = Po!MultilineString(f, m)
      OBVIOUS
    <3>4. Po!MultilineString(f, q) = Joined(first, v)
      BY <2>1, <2>3, <3>1, <3>3, MultilineStringUnfolds
    <3>5. Rest(f, q) = first.text \o Rest(f, first.next) /\ Rest(f, first.next) = Rest(f, m)
      BY <2>1, <2>3, <3>2, PieceSaid, SkippedBlockSkipped
    <3>6. CASE v.next = Po!Fail
      <4>1. Po!MultilineString(f, q) = first
        BY <3>4, <3>6 DEF Joined
      <4> QED BY <3>5, <4>1
    <3>7. CASE v.next # Po!Fail
      <4>1. Tells(m, v)
        <5> HIDE DEF Tells
        <5> QED BY <1>2, <3>1, <3>2, <3>3
      <4>2. v \in [next : (m + 1)..Ends(f), text : Seq(Contents(f))]
        BY <3>2, <3>3, <3>7, MultilineStringFacts DEF StringsAfter, Po!Rejected
      <4>3. v.next \in Po!Positions(f)
        BY <3>2, <4>2, Positive
      <4>4. first.text \in Seq(Contents(f)) /\ v.text \in Seq(Contents(f))
        BY <3>2, <4>2
      <4>5. PICK S : S = Tokens(f)
        OBVIOUS
      <4>6. PICK rest \in Seq(S) : rest = Rest(f, v.next)
        BY <4>3, <4>5, PlacesFacts
      <4>7. PICK a \in Seq(S), b \in Seq(S) : a = first.text /\ b = v.text
        BY <4>4, <4>5, TextsAreTokens
      <4>8. Rest(f, m) = b \o rest
        BY <3>7, <4>1, <4>6, <4>7
      <4>9. Rest(f, q) = a \o (b \o rest)
        BY <3>5, <4>7, <4>8
      <4>10. a \o (b \o rest) = (a \o b) \o rest
        BY ConcatAssociative
      <4>11. PICK t : t = a \o b
        OBVIOUS
      <4>12. PICK w : w = Po!MultilineString(f, q)
        OBVIOUS
      <4>13. w = [next |-> v.next, text |-> t]
        BY <3>4, <3>7, <4>7, <4>11, <4>12 DEF Joined
      <4>14. Rest(f, q) = w.text \o Rest(f, w.next)
        BY <4>6, <4>9, <4>10, <4>11, <4>13
      <4> QED BY <4>12, <4>14
    <3> QED BY <3>6, <3>7
  <2> QED BY <2>2, <2>3
<1>3. Good = Po!Positions(f)
  <2> HIDE DEF jump, Good
  <2>1. Good \in SUBSET Po!Positions(f)
    BY DEF Good
  <2> QED BY <1>1, <1>2, <2>1, FromTheEnd
<1> QED BY <1>3

\* They are none of the tokens of layout.
LEMMA KeywordsAre ==
    ASSUME NEW key \in Keywords
    PROVE  key # "#" /\ key \notin White /\ key # Quote
<1>1. CASE key \in {"msgctxt ", "msgid ", "msgid_plural ", "msgstr "}
  <2>1. key # "#" /\ key \notin White
    BY <1>1 DEF White
  <2>2. key # Quote
    BY <1>1 DEF Quote
  <2> QED BY <2>1, <2>2
<1>2. CASE key \notin {"msgctxt ", "msgid ", "msgid_plural ", "msgstr "}
  <2>1. key \notin Reserved
    BY <1>2, KeysAssumption DEF Keywords
  <2>2. "#" \in Reserved /\ Quote \in Reserved /\ \A t \in White : t \in Reserved
    BY DEF Reserved, Quote
  <2> QED BY <2>1, <2>2
<1> QED BY <1>1, <1>2

\* A keyword says itself and its string.
LEMMA KeywordSaid ==
    ASSUME NEW f \in Seq(STRING), NEW p \in Po!Positions(f), NEW key \in Keywords, NEW r,
           r = Po!Keyword(f, p, key), r.next # Po!Fail
    PROVE  /\ Rest(f, p) = <<key>> \o (r.text \o Rest(f, r.next))
           /\ r.text \in Seq(Tokens(f)) /\ r.text \in Seq(Contents(f))
           /\ Rest(f, r.next) \in Seq(Tokens(f)) /\ <<key>> \in Seq(Tokens(f))
           /\ r.next \in Po!Positions(f)
<1>1. PICK q : q = Po!SkippedBlock(f, p)
  OBVIOUS
<1>2. q \in Po!Positions(f) /\ Rest(f, p) = Rest(f, q)
  BY <1>1, SkippedBlockFacts, SkippedBlockSkipped, Positive
<1>3. Po!At(f, q, key) /\ r = Po!MultilineString(f, q + 1)
  BY <1>1 DEF Po!Keyword, Po!Rejected
<1>4. q \in 1..Len(f) /\ f[q] = key /\ q <= Len(f) /\ q + 1 \in Po!Positions(f)
  BY <1>2, <1>3, Positive DEF Po!At
<1>5. f[q] # "#" /\ f[q] \notin White /\ f[q] # Quote
  BY <1>4, KeywordsAre
<1>6. Rest(f, q) = <<key>> \o Rest(f, q + 1)
  <2>1. Said(f, q) = <<key>> /\ Beyond(f, q) = q + 1
    BY <1>4, <1>5 DEF Said, Beyond
  <2>2. q \in 1..(Len(f) + 2)
    BY <1>2, PlacesFacts
  <2> QED BY <1>4, <2>1, <2>2, RestUnfolds
<1>7. Rest(f, q + 1) = r.text \o Rest(f, r.next)
  BY <1>3, <1>4, StringSaid
<1>8. r.text \in Seq(Contents(f)) /\ r.next \in Po!Positions(f)
  BY StrFacts
<1>9. r.text \in Seq(Tokens(f)) /\ <<key>> \in Seq(Tokens(f))
  BY <1>5, <1>8, TextsAreTokens
<1>10. Rest(f, r.next) \in Seq(Tokens(f))
  BY <1>8, PlacesFacts
<1>11. Rest(f, p) = <<key>> \o (r.text \o Rest(f, r.next))
  BY <1>2, <1>6, <1>7
<1> QED BY <1>8, <1>9, <1>10, <1>11
-----------------------------------------------------------------------------
(* Messages are written as they are read *)

\* Two sequences of steps that begin alike and go on alike are alike.
LEMMA AlikeToTheEnd ==
    ASSUME NEW n \in Nat, NEW g, NEW h, g[0] = h[0],
           \A i \in 1..n : g[i - 1] = h[i - 1] => g[i] = h[i]
    PROVE  g[n] = h[n]
<1> DEFINE D == 0..n
           rank == [i \in D |-> i]
           Good == {i \in D : g[i] = h[i]}
<1>1. ASSUME NEW i \in D, \A e \in D : rank[e] < rank[i] => e \in Good
      PROVE  i \in Good
  <2>1. CASE i = 0
    BY <2>1
  <2>2. CASE i # 0
    <3>1. i \in 1..n /\ i - 1 \in D /\ i - 1 < i
      BY <2>2
    <3>2. rank[i - 1] = i - 1 /\ rank[i] = i
      BY <3>1
    <3>3. g[i - 1] = h[i - 1]
      BY <1>1, <3>1, <3>2
    <3> QED BY <3>1, <3>3
  <2> QED BY <2>1, <2>2
<1>2. Good \subseteq D /\ rank \in [D -> Nat]
  OBVIOUS
<1>3. Good = D
  <2> HIDE DEF D, rank, Good
  <2>1. Inherits(Good, D, rank)
    BY <1>1, <1>2 DEF Inherits
  <2> QED BY <2>1, ByRank
<1> QED BY <1>3

\* The keyword of each string is one.
LEMMA StrKeysAre ==
    /\ Len(StrKeys) \in Nat /\ 1 \in 1..Len(StrKeys)
    /\ \A i \in 1..Len(StrKeys) :
         StrKeys[i] \in Keywords /\ StrKeys[i] \in LastParts /\ StrKeys[i] \notin Reserved
<1>1. StrKeys \in Seq(STRING)
  BY KeysAssumption
<1>2. DOMAIN StrKeys = 1..Len(StrKeys)
  BY <1>1
<1>3. \A i \in DOMAIN StrKeys : StrKeys[i] \in Keywords
  BY DEF Keywords
<1>4. \A i \in DOMAIN StrKeys : StrKeys[i] \in LastParts
  BY DEF LastParts
<1>5. \A i \in DOMAIN StrKeys : StrKeys[i] \notin Reserved
  BY KeysAssumption
<1> QED BY <1>2, <1>3, <1>4, <1>5, KeysCount

\* A message does not end behind the other keywords but msgstr.
LEMMA NotLast ==
    "msgctxt " \notin LastParts /\ "msgid " \notin LastParts /\ "msgid_plural " \notin LastParts
<1>1. ASSUME NEW part \in {"msgctxt ", "msgid ", "msgid_plural "}
      PROVE  part \notin LastParts
  <2>1. part \in Reserved
    BY <1>1 DEF Reserved
  <2>2. part \notin {StrKeys[i] : i \in DOMAIN StrKeys}
    BY <2>1, KeysAssumption
  <2>3. part \notin {"", "msgstr "}
    BY <1>1
  <2> QED BY <2>2, <2>3 DEF LastParts
<1> QED BY <1>1

\* Strings are written one behind the other: behind a text, those from index i on.
Forms(g, strings, text, i) ==
    /\ g[0] = text
    /\ \A j \in 1..Len(strings) : g[j] = (g[j - 1] \o <<StrKeys[i + j - 1]>>) \o strings[j]

\* What the strings from p and index i on say, behind any text.
FormsSaid(f, p, t, i) ==
    \A text \in Seq(Tokens(f)) :
        \E g : /\ Forms(g, t.strings, text, i)
               /\ g[Len(t.strings)] \in Seq(Tokens(f))
               /\ text \o Rest(f, p) = g[Len(t.strings)] \o Rest(f, t.next)

\* Texts are moved one by one.
LEMMA RegroupBehind ==
    ASSUME NEW S, NEW w \in Seq(S), NEW a \in Seq(S), NEW b \in Seq(S), NEW c \in Seq(S)
    PROVE  /\ w \o (a \o (b \o c)) = ((w \o a) \o b) \o c
           /\ (w \o a) \o b \in Seq(S)
<1>1. w \o a \in Seq(S) /\ b \o c \in Seq(S)
  BY Associative
<1>2. Assoc(w, a, b \o c)
  BY <1>1, Associative
<1>3. Assoc(w \o a, b, c) /\ (w \o a) \o b \in Seq(S)
  BY <1>1, Associative
<1> QED BY <1>2, <1>3 DEF Assoc

\* A keyword and a text move from what is left to what is written.
Moves(f, p, next, key, said, text) ==
    /\ (text \o <<key>>) \o said \in Seq(Tokens(f))
    /\ text \o Rest(f, p) = ((text \o <<key>>) \o said) \o Rest(f, next)

\* A keyword with its string moves from what is left to what is written.
LEMMA KeywordMoves ==
    ASSUME NEW f \in Seq(STRING), NEW p \in Po!Positions(f), NEW key \in Keywords, NEW r,
           r = Po!Keyword(f, p, key), r.next # Po!Fail, NEW text \in Seq(Tokens(f))
    PROVE  Moves(f, p, r.next, key, r.text, text) /\ r.next \in Po!Positions(f)
<1>1. PICK S : S = Tokens(f)
  OBVIOUS
<1>2. /\ Rest(f, p) = <<key>> \o (r.text \o Rest(f, r.next)) /\ r.next \in Po!Positions(f)
      /\ r.text \in Seq(S) /\ Rest(f, r.next) \in Seq(S) /\ <<key>> \in Seq(S)
  BY <1>1, KeywordSaid
<1>3. PICK w, a, b, c : w = text /\ a = <<key>> /\ b = r.text /\ c = Rest(f, r.next)
  OBVIOUS
<1>4. w \in Seq(S) /\ a \in Seq(S) /\ b \in Seq(S) /\ c \in Seq(S)
  BY <1>1, <1>2, <1>3
<1>5. w \o (a \o (b \o c)) = ((w \o a) \o b) \o c /\ (w \o a) \o b \in Seq(S)
  BY <1>4, RegroupBehind
<1> QED BY <1>1, <1>2, <1>3, <1>5 DEF Moves

\* A string with index i, and those behind it.
LEMMA StrFollowed ==
    ASSUME NEW f \in Seq(STRING), NEW p \in Po!Positions(f),
           NEW i \in 1..Len(StrKeys), NEW first,
           first = Po!Keyword(f, p, StrKeys[i]), first.next # Po!Fail,
           NEW rest \in StringListsAfter(f, first.next),
           rest.next # Po!Fail => FormsSaid(f, first.next, rest, i + 1)
    PROVE  FormsSaid(f, p, Po!Then(first, rest), i)
<1>0. PICK r : r = Po!Then(first, rest)
  OBVIOUS
<1>a. i \in Nat
  BY KeysCount
<1> SUFFICES ASSUME NEW text \in Seq(Tokens(f))
             PROVE  \E g : /\ Forms(g, r.strings, text, i)
                           /\ g[Len(r.strings)] \in Seq(Tokens(f))
                           /\ text \o Rest(f, p) = g[Len(r.strings)] \o Rest(f, r.next)
  BY <1>0 DEF FormsSaid
<1>1. PICK key : key = StrKeys[i]
  OBVIOUS
<1>2. key \in Keywords
  BY <1>1, StrKeysAre
<1>3. PICK said, moved : said = first.text /\ moved = (text \o <<key>>) \o said
  OBVIOUS
<1>4. /\ moved \in Seq(Tokens(f))
      /\ text \o Rest(f, p) = moved \o Rest(f, first.next)
      /\ said \in Seq(Contents(f))
  <2>1. first = Po!Keyword(f, p, key)
    BY <1>1
  <2>2. first.text \in Seq(Contents(f))
    BY <1>2, <2>1, KeywordSaid
  <2>3. Moves(f, p, first.next, key, first.text, text)
    BY <1>2, <2>1, KeywordMoves
  <2> QED BY <1>3, <2>2, <2>3 DEF Moves
<1>5. CASE rest.next = Po!Fail
  <2>1. PICK s : s = <<said>>
    OBVIOUS
  <2>2. r = [next |-> first.next, strings |-> s]
    BY <1>0, <1>3, <1>5, <2>1 DEF Po!Then
  <2>3. PICK g : g = [j \in 0..1 |-> IF j = 0 THEN text ELSE moved]
    OBVIOUS
  <2>4. Len(s) = 1 /\ s[1] = said /\ g[0] = text /\ g[1] = moved
    BY <2>1, <2>3
  <2>5. i + 1 - 1 = i
    BY <1>a
  <2>6. \A j \in 1..Len(s) : j = 1
    BY <2>4
  <2>7. Forms(g, s, text, i)
    <3>1. ASSUME NEW j \in 1..Len(s)
          PROVE  g[j] = (g[j - 1] \o <<StrKeys[i + j - 1]>>) \o s[j]
      <4>1. j = 1 /\ j - 1 = 0 /\ i + j - 1 = i
        BY <1>a, <2>5, <2>6
      <4>2. g[j] = moved /\ g[j - 1] = text /\ s[j] = said /\ StrKeys[i + j - 1] = key
        BY <1>1, <2>4, <4>1
      <4> QED BY <1>3, <4>2
    <3> QED BY <2>4, <3>1 DEF Forms
  <2>8. r.strings = s /\ r.next = first.next
    BY <2>2
  <2>9. g[Len(s)] = moved
    BY <2>4
  <2> QED BY <1>4, <2>7, <2>8, <2>9
<1>6. CASE rest.next # Po!Fail
  <2>1. PICK tail : tail = rest.strings
    OBVIOUS
  <2>2. tail \in Seq(Seq(Contents(f))) /\ tail # <<>>
    BY <1>6, <2>1 DEF StringListsAfter, SomeStrings, Po!Rejected
  <2>3. PICK n \in Nat : n = Len(tail)
    BY <2>2
  <2>4. PICK h : Forms(h, tail, moved, i + 1) /\ h[n] \in Seq(Tokens(f))
                   /\ moved \o Rest(f, first.next) = h[n] \o Rest(f, rest.next)
    BY <1>4, <1>6, <2>1, <2>3 DEF FormsSaid
  <2>5. PICK s : s = <<said>> \o tail
    OBVIOUS
  <2>6. Len(s) = n + 1 /\ s[1] = said /\ \A j \in 2..(n + 1) : s[j] = tail[j - 1]
    <3>1. PICK S : S = Seq(Contents(f))
      OBVIOUS
    <3>2. said \in S /\ tail \in Seq(S)
      BY <1>4, <2>2, <3>1
    <3> QED BY <2>3, <2>5, <3>2
  <2>7. PICK g : g = [j \in 0..(n + 1) |-> IF j = 0 THEN text ELSE h[j - 1]]
    OBVIOUS
  <2>8. g[0] = text /\ g[1] = h[0] /\ g[n + 1] = h[n] /\ \A j \in 1..(n + 1) : g[j] = h[j - 1]
    <3>1. 0 \in 0..(n + 1) /\ 1 \in 0..(n + 1) /\ n + 1 \in 0..(n + 1) /\ n + 1 - 1 = n /\ n + 1 # 0
      BY <2>3
    <3>2. \A j \in 1..(n + 1) : j \in 0..(n + 1) /\ j # 0
      BY <2>3
    <3> QED BY <2>7, <3>1, <3>2
  <2>9. h[0] = moved /\ \A j \in 1..n : h[j] = (h[j - 1] \o <<StrKeys[i + 1 + j - 1]>>) \o tail[j]
    BY <2>3, <2>4 DEF Forms
  <2>10. ASSUME NEW j \in 1..(n + 1)
         PROVE  g[j] = (g[j - 1] \o <<StrKeys[i + j - 1]>>) \o s[j]
    <3>1. CASE j = 1
      <4>1. i + 1 - 1 = i /\ 1 - 1 = 0
        BY <1>a
      <4> QED BY <1>1, <1>3, <2>6, <2>8, <2>9, <3>1, <4>1
    <3>2. CASE j # 1
      <4>1. PICK l \in 1..n : l = j - 1
        BY <2>3, <3>2
      <4>2. j \in 2..(n + 1) /\ j - 1 \in 1..(n + 1) /\ j - 1 = l /\ i + 1 + l - 1 = i + j - 1
        BY <1>a, <2>3, <3>2, <4>1
      <4>3. g[j] = h[l] /\ g[l] = h[l - 1] /\ s[j] = tail[l]
        BY <2>6, <2>8, <4>2
      <4> QED BY <2>9, <4>2, <4>3
    <3> QED BY <3>1, <3>2
  <2>11. Forms(g, s, text, i)
    BY <2>6, <2>8, <2>10 DEF Forms
  <2>12. r.next = rest.next /\ r.strings = s
    <3>1. r = [next |-> rest.next, strings |-> s]
      BY <1>0, <1>3, <1>6, <2>1, <2>5 DEF Po!Then
    <3> QED BY <3>1
  <2>13. text \o Rest(f, p) = g[Len(s)] \o Rest(f, rest.next) /\ g[Len(s)] \in Seq(Tokens(f))
    BY <1>4, <2>4, <2>6, <2>8
  <2> QED BY <2>11, <2>12, <2>13
<1> QED BY <1>5, <1>6

\* All strings from an index on, wherever.
LEMMA StrsFromSaid ==
    ASSUME NEW f \in Seq(STRING), NEW p \in Po!Positions(f),
           NEW i \in 1..(Len(StrKeys) + 1),
           StrsFrom(f, p, i).next # Po!Fail
    PROVE  FormsSaid(f, p, StrsFrom(f, p, i), i)
<1> DEFINE k == Len(StrKeys)
           D == Po!Positions(f) \X (1..(k + 1))
           rank == [at \in D |-> k + 1 - at[2]]
           Tells(q, j) == StrsFrom(f, q, j).next # Po!Fail => FormsSaid(f, q, StrsFrom(f, q, j), j)
           Good == {at \in D : Tells(at[1], at[2])}
<1>a. k \in Nat
  BY StrKeysAre
<1> HIDE DEF k
<1>1. ASSUME NEW at \in D, \A e \in D : rank[e] < rank[at] => e \in Good
      PROVE  at \in Good
  <2>1. PICK q \in Po!Positions(f), j \in 1..(k + 1) : at = <<q, j>>
    OBVIOUS
  <2>2. PICK first : first = Po!Keyword(f, q, StrKeys[j])
    OBVIOUS
  <2>3. StrsFrom(f, q, j) = IF j > k \/ first.next = Po!Fail THEN Po!Rejected
                            ELSE Po!Then(first, StrsFrom(f, first.next, j + 1))
    BY <2>2, StrsFromUnfolds DEF k
  <2>4. CASE j > k \/ first.next = Po!Fail
    <3>1. StrsFrom(f, q, j).next = Po!Fail
      BY <2>3, <2>4 DEF Po!Rejected
    <3> QED BY <2>1, <3>1
  <2>5. CASE ~(j > k) /\ first.next # Po!Fail
    <3>1. first.next \in Po!Positions(f)
      BY <2>2, <2>5, StrFacts
    <3>2. j \in 1..k /\ j + 1 \in 1..(k + 1)
      BY <1>a, <2>5
    <3>3. PICK e \in D : e = <<first.next, j + 1>>
      BY <3>1, <3>2
    <3>4. rank[e] < rank[at]
      <4>1. e[2] = j + 1 /\ at[2] = j
        BY <2>1, <3>3
      <4>2. rank[e] = k + 1 - (j + 1) /\ rank[at] = k + 1 - j
        BY <4>1
      <4> QED BY <1>a, <4>2
    <3>5. PICK rest : rest = StrsFrom(f, first.next, j + 1)
      OBVIOUS
    <3>6. rest \in StringListsAfter(f, first.next)
      BY <3>1, <3>2, <3>5, StrsFromFacts DEF k
    <3>7. rest.next # Po!Fail => FormsSaid(f, first.next, rest, j + 1)
      <4>1. e \in Good
        BY <1>1, <3>4
      <4> QED BY <3>3, <3>5, <4>1
    <3>8. FormsSaid(f, q, Po!Then(first, rest), j)
      BY <2>2, <2>5, <3>2, <3>6, <3>7, StrFollowed DEF k
    <3> QED BY <2>1, <2>3, <2>5, <3>5, <3>8
  <2> QED BY <2>4, <2>5
<1>2. Good = D
  <2>1. Good \subseteq D /\ rank \in [D -> Nat]
    BY <1>a
  <2> HIDE DEF D, Good, rank
  <2>2. Inherits(Good, D, rank)
    BY <1>1, <2>1 DEF Inherits
  <2> QED BY <2>2, ByRank
<1>3. <<p, i>> \in Good
  BY <1>2 DEF k
<1> QED BY <1>3

\* What is behind msgid_plural is never left out.
PluralsNamed ==
    \A f \in Files : \A p \in Po!Positions(f) :
        Po!Keyword(f, p, "msgid_plural ").next # Po!Fail => Po!Keyword(f, p, "msgid_plural ").text # <<>>

\* The strings as Written has them.
FormOf(strings) ==
    LET Form[i \in 0..Len(strings)] ==
          IF i = 0 THEN <<>> ELSE Form[i - 1] \o <<StrKeys[i]>> \o strings[i]
    IN  Form[Len(strings)]

\* They are where strings written behind nothing come to.
LEMMA FormsAre ==
    ASSUME NEW strings, Len(strings) \in Nat, NEW g, Forms(g, strings, <<>>, 1)
    PROVE  FormOf(strings) = g[Len(strings)]
<1>1. PICK n \in Nat : n = Len(strings)
  OBVIOUS
<1> DEFINE Body(h) == h = [i \in 0..n |->
                             IF i = 0 THEN <<>> ELSE h[i - 1] \o <<StrKeys[i]>> \o strings[i]]
           form == CHOOSE h : Body(h)
           made == [i \in 0..n |-> g[i]]
<1>2. FormOf(strings) = form[n]
  BY <1>1 DEF FormOf
<1>3. g[0] = <<>> /\ \A i \in 1..n : g[i] = g[i - 1] \o <<StrKeys[i]>> \o strings[i]
  <2>1. \A i \in 1..n : 1 + i - 1 = i
    OBVIOUS
  <2> QED BY <1>1, <2>1 DEF Forms
<1>4. Body(made)
  <2>1. ASSUME NEW i \in 0..n
        PROVE  made[i] = IF i = 0 THEN <<>> ELSE made[i - 1] \o <<StrKeys[i]>> \o strings[i]
    <3>1. i # 0 => i \in 1..n /\ i - 1 \in 0..n
      OBVIOUS
    <3> QED BY <1>3, <3>1
  <2> QED BY <2>1
<1>5. Body(form)
  <2> HIDE DEF Body, made
  <2> QED BY <1>4
<1> HIDE DEF form
<1>6. form[0] = g[0]
  BY <1>3, <1>5
<1>7. ASSUME NEW i \in 1..n, form[i - 1] = g[i - 1]
      PROVE  form[i] = g[i]
  <2>1. i \in 0..n /\ i # 0
    OBVIOUS
  <2>2. form[i] = form[i - 1] \o <<StrKeys[i]>> \o strings[i]
    BY <1>5, <2>1
  <2> QED BY <1>3, <1>7, <2>2
<1>8. form[n] = g[n]
  BY <1>6, <1>7, AlikeToTheEnd
<1> QED BY <1>1, <1>2, <1>8

\* The translations of a message, as Written has them.
WrittenBody(idPlural, strings) ==
    IF idPlural = <<>> /\ Len(strings) = 1
    THEN <<"msgstr ">> \o strings[1]
    ELSE <<"msgid_plural ">> \o idPlural \o FormOf(strings)

\* A part of a file that says what is written: from p up to next.
Says(f, p, next, written) ==
    written \in Seq(Tokens(f)) /\ Rest(f, p) = written \o Rest(f, next)

\* The plural forms of a message are written as they are read.
LEMMA PluralSaid ==
    ASSUME NEW f \in Seq(STRING), NEW p \in Po!Positions(f), NEW key \in Keywords,
           NEW plural, NEW forms,
           plural = Po!Keyword(f, p, key), plural.next # Po!Fail,
           forms = Po!MessageStrs(f, plural.next), forms.next # Po!Fail
    PROVE  Says(f, p, forms.next, (<<key>> \o plural.text) \o FormOf(forms.strings))
<1>1. PICK S : S = Tokens(f)
  OBVIOUS
<1>4. /\ Rest(f, p) = <<key>> \o (plural.text \o Rest(f, plural.next))
      /\ plural.text \in Seq(S) /\ <<key>> \in Seq(S) /\ plural.next \in Po!Positions(f)
  BY <1>1, KeywordSaid
<1>5. /\ forms = StrsFrom(f, plural.next, 1)
      /\ forms \in StringListsAfter(f, plural.next)
  BY <1>4, MessageStrsFacts
<1>6. forms.next \in Po!Positions(f) /\ forms.strings \in SomeStrings(f)
  <2>1. forms \in [next : (plural.next + 1)..Ends(f), strings : SomeStrings(f)]
    BY <1>5 DEF StringListsAfter, Po!Rejected
  <2> QED BY <1>4, <2>1, Positive
<1>7. FormsSaid(f, plural.next, forms, 1)
  <2>1. 1 \in 1..(Len(StrKeys) + 1)
    BY KeysCount
  <2> QED BY <1>4, <1>5, <2>1, StrsFromSaid
<1>8. Len(forms.strings) \in Nat
  BY <1>6 DEF SomeStrings
<1>a. <<>> \in Seq(Tokens(f))
  BY EmptySeq
<1>9. PICK g : /\ Forms(g, forms.strings, <<>>, 1)
               /\ g[Len(forms.strings)] \in Seq(S)
               /\ <<>> \o Rest(f, plural.next) = g[Len(forms.strings)] \o Rest(f, forms.next)
  BY <1>1, <1>7, <1>a DEF FormsSaid
<1>10. Rest(f, plural.next) \in Seq(S) /\ Rest(f, forms.next) \in Seq(S)
  BY <1>1, <1>4, <1>6, PlacesFacts
<1>11. PICK w, a, b, c : w = <<key>> /\ a = plural.text /\ b = FormOf(forms.strings) /\ c = Rest(f, forms.next)
  OBVIOUS
<1>12. b = g[Len(forms.strings)]
  BY <1>8, <1>9, <1>11, FormsAre
<1>13. w \in Seq(S) /\ a \in Seq(S) /\ b \in Seq(S) /\ c \in Seq(S)
  BY <1>4, <1>9, <1>10, <1>11, <1>12
<1>14. Rest(f, plural.next) = b \o c
  <2>1. PICK rest : rest = Rest(f, plural.next)
    OBVIOUS
  <2>2. rest \in Seq(S)
    BY <1>10, <2>1
  <2>3. <<>> \o rest = rest
    BY <2>2, ConcatEmptySeq
  <2> QED BY <1>9, <1>11, <1>12, <2>1, <2>3
<1>15. w \o (a \o (b \o c)) = ((w \o a) \o b) \o c /\ (w \o a) \o b \in Seq(S)
  BY <1>13, RegroupBehind
<1> QED BY <1>1, <1>4, <1>11, <1>14, <1>15 DEF Says

\* So is a string alone.
LEMMA SingleSaid ==
    ASSUME NEW f \in Seq(STRING), NEW p \in Po!Positions(f), NEW key \in Keywords, NEW r,
           r = Po!Keyword(f, p, key), r.next # Po!Fail
    PROVE  Says(f, p, r.next, <<key>> \o r.text)
<1>1. PICK S : S = Tokens(f)
  OBVIOUS
<1>2. PICK a, b, c : a = <<key>> /\ b = r.text /\ c = Rest(f, r.next)
  OBVIOUS
<1>3. a \in Seq(S) /\ b \in Seq(S) /\ c \in Seq(S) /\ Rest(f, p) = a \o (b \o c)
  BY <1>1, <1>2, KeywordSaid
<1>4. Assoc(a, b, c) /\ a \o b \in Seq(S)
  BY <1>3, Associative
<1>5. Rest(f, p) = (a \o b) \o c
  BY <1>3, <1>4 DEF Assoc
<1> QED BY <1>1, <1>2, <1>4, <1>5 DEF Says

\* So is either.
LEMMA TranslationsSaid ==
    ASSUME PluralsNamed, NEW f \in Files, NEW p \in Po!Positions(f), NEW r,
           r = Po!Translations(f, p), r.next # Po!Fail
    PROVE  Says(f, p, r.next, WrittenBody(r.idPlural, r.strings))
<1>a. f \in Seq(STRING)
  BY TokensAssumption
<1>1. PICK plural, single : plural = Po!Keyword(f, p, "msgid_plural ") /\ single = Po!Keyword(f, p, "msgstr ")
  OBVIOUS
<1>2. PICK forms : forms = Po!PluralStrs(f, plural)
  OBVIOUS
<1>3. r = Po!Either(plural, forms, single)
  BY <1>1, <1>2 DEF Po!Translations, Po!TranslationsAfter
<1>4. CASE forms.next # Po!Fail
  <2>1. plural.next # Po!Fail
    BY <1>2, <1>4 DEF Po!PluralStrs, Po!Rejected
  <2>2. plural.text # <<>>
    BY <1>1, <2>1 DEF PluralsNamed
  <2>3. forms = Po!MessageStrs(f, plural.next)
    BY <1>2, <2>1 DEF Po!PluralStrs
  <2>4. Says(f, p, forms.next, (<<"msgid_plural ">> \o plural.text) \o FormOf(forms.strings))
    <3>1. PICK key : key = "msgid_plural "
      OBVIOUS
    <3>2. key \in Keywords
      BY <3>1 DEF Keywords
    <3>3. Says(f, p, forms.next, (<<key>> \o plural.text) \o FormOf(forms.strings))
      BY <1>a, <1>1, <1>4, <2>1, <2>3, <3>1, <3>2, PluralSaid
    <3> QED BY <3>1, <3>3
  <2>5. r = [next |-> forms.next, idPlural |-> plural.text, strings |-> forms.strings]
    BY <1>3, <1>4 DEF Po!Either
  <2>6. r.next = forms.next /\ r.idPlural = plural.text /\ r.strings = forms.strings
    BY <2>5
  <2>7. WrittenBody(r.idPlural, r.strings) = (<<"msgid_plural ">> \o plural.text) \o FormOf(forms.strings)
    BY <2>2, <2>6 DEF WrittenBody
  <2> QED BY <2>4, <2>6, <2>7
<1>5. CASE forms.next = Po!Fail
  <2>1. single.next # Po!Fail
    BY <1>3, <1>5 DEF Po!Either, Po!Rejected
  <2>2. r = [next |-> single.next, idPlural |-> <<>>, strings |-> <<single.text>>]
    BY <1>3, <1>5, <2>1 DEF Po!Either
  <2>3. r.next = single.next /\ r.idPlural = <<>> /\ r.strings = <<single.text>>
    BY <2>2
  <2>4. WrittenBody(r.idPlural, r.strings) = <<"msgstr ">> \o single.text
    <3>1. Len(r.strings) = 1 /\ r.strings[1] = single.text
      BY <2>3
    <3> QED BY <2>3, <3>1 DEF WrittenBody
  <2>5. PICK key : key = "msgstr "
    OBVIOUS
  <2>6. key \in Keywords
    BY <2>5 DEF Keywords
  <2>7. Says(f, p, single.next, <<key>> \o single.text)
    BY <1>a, <1>1, <2>1, <2>5, <2>6, SingleSaid
  <2> QED BY <2>3, <2>4, <2>5, <2>7
<1> QED BY <1>4, <1>5

\* The context of a message, as Written has it.
WrittenContext(context) == IF context = NoContext THEN <<>> ELSE <<"msgctxt ">> \o context

\* Written is made of its parts.
LEMMA WrittenParts ==
    ASSUME NEW m
    PROVE  Written(m) = ((WrittenContext(m.context) \o <<"msgid ">>) \o m.id)
                          \o WrittenBody(m.idPlural, m.strings)
BY DEF Written, WrittenContext, WrittenBody, FormOf

\* The context of a message is written as it is read, if there is one.
LEMMA ContextSaid ==
    ASSUME NEW f \in Files, NEW p \in Po!Positions(f), NEW key \in Keywords, key = "msgctxt ", NEW first,
           first = Po!Keyword(f, p, key), NEW context, context = Po!Optional(first, p)
    PROVE  /\ Says(f, p, context.next, WrittenContext(context.text))
           /\ context.next \in Po!Positions(f)
<1>1. f \in Seq(STRING) /\ Contents(f) \subseteq Atom
  BY TokensAssumption DEF Contents
<1>2. CASE first.next = Po!Fail
  <2>1. context.next = p /\ context.text = NoContext
    BY <1>2 DEF Po!Optional
  <2>2. PICK S : S = Tokens(f)
    OBVIOUS
  <2>3. PICK rest : rest = Rest(f, p)
    OBVIOUS
  <2>4. rest \in Seq(S)
    BY <1>1, <2>2, <2>3, PlacesFacts
  <2>5. <<>> \in Seq(S) /\ <<>> \o rest = rest
    BY <2>4, EmptySeq, ConcatEmptySeq
  <2>6. Says(f, p, p, <<>>)
    BY <2>2, <2>3, <2>5 DEF Says
  <2> QED BY <2>1, <2>6 DEF WrittenContext
<1>3. CASE first.next # Po!Fail
  <2>1. context = first
    BY <1>3 DEF Po!Optional
  <2>2. first.text \in Seq(Contents(f)) /\ first.next \in Po!Positions(f)
    BY <1>1, <1>3, KeywordSaid
  <2>3. first.text # NoContext
    <3>1. first.text \in Text
      BY <1>1, <2>2, SeqMonotonic DEF Text
    <3> QED BY <3>1, TextAssumption
  <2>4. Says(f, p, first.next, <<key>> \o first.text)
    BY <1>1, <1>3, SingleSaid
  <2>5. WrittenContext(first.text) = <<key>> \o first.text
    BY <2>3 DEF WrittenContext
  <2> QED BY <2>1, <2>2, <2>4, <2>5
<1> QED BY <1>2, <1>3

\* A message is written as it is read.
LEMMA MessageSaid ==
    ASSUME PluralsNamed, NEW f \in Files, NEW p \in Po!Positions(f), NEW r,
           r = Po!Message(f, p), r.next # Po!Fail
    PROVE  Says(f, p, r.next, Written(r.message))
<1>a. f \in Seq(STRING)
  BY TokensAssumption
<1>b. PICK ctxt, key : ctxt = "msgctxt " /\ key = "msgid "
  OBVIOUS
<1>c. ctxt \in Keywords /\ key \in Keywords
  BY <1>b DEF Keywords
<1>1. PICK first : first = Po!Keyword(f, p, ctxt)
  OBVIOUS
<1>2. PICK context : context = Po!Optional(first, p)
  OBVIOUS
<1>3. Says(f, p, context.next, WrittenContext(context.text)) /\ context.next \in Po!Positions(f)
  BY <1>b, <1>c, <1>1, <1>2, ContextSaid
<1>4. PICK id : id = Po!Keyword(f, context.next, key)
  OBVIOUS
<1>5. Po!Message(f, p) = Po!MessageWithId(f, context, id)
  BY <1>b, <1>1, <1>2, <1>4 DEF Po!Message, Po!MessageWithContext
<1>6. id.next # Po!Fail
  BY <1>5 DEF Po!MessageWithId, Po!Rejected
<1>7. PICK body : body = Po!Translations(f, id.next)
  OBVIOUS
<1>8. Po!Message(f, p) = Po!Whole(context, id, body)
  BY <1>5, <1>6, <1>7 DEF Po!MessageWithId
<1>9. body.next # Po!Fail
  BY <1>8 DEF Po!Whole, Po!Rejected
<1>10. r = [next |-> body.next,
            message |-> [context |-> context.text, id |-> id.text,
                         idPlural |-> body.idPlural, strings |-> body.strings, line |-> 0]]
  BY <1>8, <1>9 DEF Po!Whole
<1>11. /\ r.next = body.next /\ r.message.context = context.text /\ r.message.id = id.text
       /\ r.message.idPlural = body.idPlural /\ r.message.strings = body.strings
  BY <1>10
<1>12. PICK S : S = Tokens(f)
  OBVIOUS
<1>13. /\ Rest(f, context.next) = <<key>> \o (id.text \o Rest(f, id.next))
       /\ id.text \in Seq(S) /\ <<key>> \in Seq(S) /\ id.next \in Po!Positions(f)
  BY <1>a, <1>c, <1>3, <1>4, <1>6, <1>12, KeywordSaid
<1>14. Says(f, id.next, body.next, WrittenBody(body.idPlural, body.strings))
  BY <1>7, <1>9, <1>13, TranslationsSaid
<1>15. Rest(f, body.next) \in Seq(S)
  <2>1. body.next \in Po!Positions(f)
    <3>1. body \in BodiesAfter(f, id.next)
      BY <1>a, <1>7, <1>13, TranslationsFacts
    <3>2. body.next \in (id.next + 1)..Ends(f)
      BY <1>9, <3>1 DEF BodiesAfter, Po!Rejected
    <3> QED BY <1>a, <1>13, <3>2, Positive
  <2> QED BY <1>a, <1>12, <2>1, PlacesFacts
<1>16. PICK c, k, i, b, rest : /\ c = WrittenContext(context.text) /\ k = <<key>> /\ i = id.text
                               /\ b = WrittenBody(body.idPlural, body.strings)
                               /\ rest = Rest(f, body.next)
  OBVIOUS
<1>17. c \in Seq(S) /\ k \in Seq(S) /\ i \in Seq(S) /\ b \in Seq(S) /\ rest \in Seq(S)
  BY <1>3, <1>12, <1>13, <1>14, <1>15, <1>16 DEF Says
<1>18. Rest(f, p) = c \o (k \o (i \o (b \o rest)))
  BY <1>3, <1>13, <1>14, <1>16 DEF Says
<1>19. PICK end : end = b \o rest
  OBVIOUS
<1>20. end \in Seq(S)
  BY <1>17, <1>19, Associative
<1>21. c \o (k \o (i \o end)) = ((c \o k) \o i) \o end /\ (c \o k) \o i \in Seq(S)
  BY <1>17, <1>20, RegroupBehind
<1>22. Assoc((c \o k) \o i, b, rest) /\ ((c \o k) \o i) \o b \in Seq(S)
  BY <1>17, <1>21, Associative
<1>23. Written(r.message) = ((c \o k) \o i) \o b
  BY <1>b, <1>11, <1>16, WrittenParts
<1>24. Rest(f, p) = (((c \o k) \o i) \o b) \o rest
  BY <1>18, <1>19, <1>21, <1>22 DEF Assoc
<1>25. ((c \o k) \o i) \o b \in Seq(Tokens(f))
  BY <1>12, <1>22
<1> QED BY <1>11, <1>16, <1>23, <1>24, <1>25 DEF Says
-----------------------------------------------------------------------------
(* Nothing is lost *)

\* The text is what the entries say, written one behind the other.
Accounted(entries, text) ==
    \E g : /\ g[0] = <<>> /\ g[Len(entries)] = text
           /\ \A i \in 1..Len(entries) : g[i] = g[i - 1] \o Written(entries[i].message)

\* At first it is nothing.
LEMMA AccountedNone == Accounted(<<>>, <<>>)
<1> DEFINE g == [i \in 0..0 |-> <<>>]
<1>1. g[0] = <<>> /\ Len(<<>>) = 0 /\ \A i \in 1..0 : FALSE
  OBVIOUS
<1> HIDE DEF g
<1> QED BY <1>1 DEF Accounted

\* Every entry adds what it says.
LEMMA AccountedMore ==
    ASSUME NEW T, NEW entries \in Seq(T), NEW entry \in T, NEW text, Accounted(entries, text),
           NEW said, said = Written(entry.message)
    PROVE  Accounted(Append(entries, entry), text \o said)
<1>1. PICK more, n : more = Append(entries, entry) /\ n = Len(entries)
  OBVIOUS
<1>2. /\ n \in Nat /\ Len(more) = n + 1 /\ more[n + 1] = entry
      /\ \A i \in 1..n : more[i] = entries[i]
  BY <1>1
<1>3. PICK g : /\ g[0] = <<>> /\ g[n] = text
               /\ \A i \in 1..n : g[i] = g[i - 1] \o Written(entries[i].message)
  BY <1>1 DEF Accounted
<1> DEFINE h == [i \in 0..(n + 1) |-> IF i = n + 1 THEN text \o said ELSE g[i]]
<1>4. /\ h[n + 1] = text \o said /\ h[n] = text /\ h[0] = <<>>
      /\ \A i \in 1..n : h[i] = g[i] /\ h[i - 1] = g[i - 1]
  BY <1>2, <1>3
<1> HIDE DEF h
<1>5. ASSUME NEW i \in 1..Len(more)
      PROVE  h[i] = h[i - 1] \o Written(more[i].message)
  <2>1. CASE i = n + 1
    <3>1. more[i] = entry /\ i - 1 = n
      BY <1>2, <2>1
    <3> QED BY <1>4, <2>1, <3>1
  <2>2. CASE i \in 1..n
    <3>1. h[i] = g[i] /\ h[i - 1] = g[i - 1] /\ more[i] = entries[i]
      BY <1>2, <1>4, <2>2
    <3> QED BY <1>3, <2>2, <3>1
  <2>3. i = n + 1 \/ i \in 1..n
    BY <1>2
  <2> QED BY <2>1, <2>2, <2>3
<1>6. h[0] = <<>> /\ h[Len(more)] = text \o said
  BY <1>2, <1>4
<1> QED BY <1>1, <1>5, <1>6 DEF Accounted

\* All that entries say, as NothingLost has it.
AllOf(entries) ==
    LET All[i \in 0..Len(entries)] ==
          IF i = 0 THEN <<>> ELSE All[i - 1] \o Written(entries[i].message)
    IN  All[Len(entries)]

\* It is the text that is accounted for.
LEMMA AccountedIsAll ==
    ASSUME NEW entries, Len(entries) \in Nat, NEW text, Accounted(entries, text)
    PROVE  AllOf(entries) = text
<1>1. PICK n \in Nat : n = Len(entries)
  OBVIOUS
<1>2. PICK g : /\ g[0] = <<>> /\ g[n] = text
               /\ \A i \in 1..n : g[i] = g[i - 1] \o Written(entries[i].message)
  BY <1>1 DEF Accounted
<1> DEFINE Body(h) == h = [i \in 0..n |->
                             IF i = 0 THEN <<>> ELSE h[i - 1] \o Written(entries[i].message)]
           all == CHOOSE h : Body(h)
           made == [i \in 0..n |-> g[i]]
<1>3. AllOf(entries) = all[n]
  BY <1>1 DEF AllOf
<1>4. Body(made)
  <2>1. ASSUME NEW i \in 0..n
        PROVE  made[i] = IF i = 0 THEN <<>> ELSE made[i - 1] \o Written(entries[i].message)
    <3>1. i # 0 => i \in 1..n /\ i - 1 \in 0..n
      OBVIOUS
    <3> QED BY <1>2, <3>1
  <2> QED BY <2>1
<1>5. Body(all)
  <2> HIDE DEF Body, made
  <2> QED BY <1>4
<1> HIDE DEF all
<1>6. all[0] = g[0]
  BY <1>2, <1>5
<1>7. ASSUME NEW i \in 1..n, all[i - 1] = g[i - 1]
      PROVE  all[i] = g[i]
  <2>1. i \in 0..n /\ i # 0
    OBVIOUS
  <2>2. all[i] = all[i - 1] \o Written(entries[i].message)
    BY <1>5, <2>1
  <2> QED BY <1>2, <1>7, <2>2
<1>8. all[n] = g[n]
  BY <1>6, <1>7, AlikeToTheEnd
<1> QED BY <1>2, <1>3, <1>8

\* Where in its file a message stands is not written.
LEMMA WrittenWithoutLine ==
    ASSUME NEW f, NEW m \in MessagesIn(f), NEW n
    PROVE  Written([m EXCEPT !.line = n]) = Written(m)
<1>1. PICK r : r = [m EXCEPT !.line = n]
  OBVIOUS
<1>2. r.context = m.context /\ r.id = m.id /\ r.idPlural = m.idPlural /\ r.strings = m.strings
  BY <1>1 DEF MessagesIn
<1> QED BY <1>1, <1>2, WrittenParts

\* While a file is read, what was read of it is what the entries say; at the end
\* they say all of it.
SaidBy(c) ==
    /\ status[c] = "loading" =>
         \E text \in Seq(Tokens(file)) : /\ Accounted(log[c], text)
                                         /\ Rest(file, 1) = text \o Rest(file, pos)
    /\ status[c] = "live" => Accounted(log[c], Rest(file, 1))

SaidInv == \A c \in Cat : SaidBy(c)

\* A catalog that no constructor works on keeps its entries.
LEMMA OtherSaid ==
    ASSUME NEW d, SaidBy(d), status[d] # "loading", status'[d] = status[d], log'[d] = log[d],
           file' = file
    PROVE  SaidBy(d)'
BY DEF SaidBy

\* Of one that is dropped nothing is said.
LEMMA FailedSaid ==
    ASSUME ~NoExceptions, SaidInv, PoTypeInv, NEW c \in Cat, NEW object, FailLoad(c, object),
           file' = file, \A d \in Cat : status[d] = "loading" => d = c
    PROVE  SaidInv'
<1>1. DOMAIN status = Cat /\ DOMAIN log = Cat
  BY DEF PoTypeInv, RoundsInv, TypeInv, TypeOK
<1>2. status'[c] = "none"
  BY <1>1 DEF FailLoad
<1>3. SaidBy(c)'
  BY <1>2 DEF SaidBy
<1>4. ASSUME NEW d \in Cat, d # c
      PROVE  SaidBy(d)'
  <2>1. status'[d] = status[d] /\ log'[d] = log[d] /\ status[d] # "loading"
    BY <1>1, <1>4 DEF FailLoad
  <2> QED BY <2>1, OtherSaid DEF SaidInv
<1> QED BY <1>3, <1>4 DEF SaidInv

\* The header says what the file begins with.
LEMMA HeaderSaid ==
    ASSUME ~NoExceptions, PluralsNamed, SaidInv, PoTypeInv, NEW c \in Cat, NEW w \in BOOLEAN,
           ReadHeader(c, w)
    PROVE  SaidInv'
<1>1. /\ file \in Files /\ file \in Seq(STRING) /\ file' = file /\ 1 \in Po!Positions(file)
      /\ DOMAIN status = Cat /\ DOMAIN log = Cat
  BY Positive DEF PoTypeInv, RoundsInv, TypeInv, TypeOK, ReadHeader
<1>2. PICK start : start = HeaderStart
  OBVIOUS
<1>3. start \in Po!Positions(file) /\ Rest(file, 1) = Rest(file, start)
  BY <1>1, <1>2, SkippedBlockFacts, SkippedBlockSkipped, Positive DEF HeaderStart
<1>4. PICK parsed : parsed = Po!Message(file, start)
  OBVIOUS
<1>5. PICK header : header = HeaderFrom(parsed.message, Meaning(parsed.message.strings[1]))
  OBVIOUS
<1>6. \/ LoadUnparsable(c, w)
      \/ parsed.next # Po!Fail /\ LoadFrom(c, header, w) /\ pos' = parsed.next
  BY <1>2, <1>4, <1>5 DEF ReadHeader
<1>7. \A d \in Cat : status[d] # "loading"
  BY <1>6 DEF LoadUnparsable, LoadFrom, LoadBadHeader, LoadBadPluralForms,
              LoadBadSingular, LoadHeader, StartLoad, Idle
<1>8. CASE parsed.next # Po!Fail /\ LoadHeader(c, header, w) /\ pos' = parsed.next
  <2>1. PICK found : found = parsed.message
    OBVIOUS
  <2>2. PICK m : m = [found EXCEPT !.line = 0]
    OBVIOUS
  <2>3. header.message = found
    BY <1>5, <2>1 DEF HeaderFrom
  <2>4. PICK entry : entry = [message |-> m, fuzzy |-> FALSE]
    OBVIOUS
  <2>5. /\ log' = [log EXCEPT ![c] = <<entry>>]
        /\ status' = [status EXCEPT ![c] = "loading"]
    BY <1>8, <2>2, <2>3, <2>4 DEF LoadHeader
  <2>6. found \in MessagesIn(file)
    BY <1>1, <1>3, <1>4, <1>8, <2>1, MessageFacts
  <2>7. PICK said : said = Written(found)
    OBVIOUS
  <2>8. Says(file, start, parsed.next, said)
    BY <1>1, <1>3, <1>4, <1>8, <2>1, <2>7, MessageSaid
  <2>9. said = Written(entry.message)
    BY <2>2, <2>4, <2>6, <2>7, WrittenWithoutLine
  <2>10. Accounted(<<entry>>, said)
    <3>1. PICK T : T = {entry}
      OBVIOUS
    <3>2. <<>> \in Seq(T) /\ entry \in T /\ Append(<<>>, entry) = <<entry>>
      BY <3>1
    <3>3. Accounted(Append(<<>>, entry), <<>> \o said)
      BY <2>9, <3>2, AccountedNone, AccountedMore
    <3>4. <<>> \o said = said
      BY <2>8, ConcatEmptySeq DEF Says
    <3> QED BY <3>2, <3>3, <3>4
  <2>11. Rest(file', 1) = said \o Rest(file', pos') /\ said \in Seq(Tokens(file'))
    BY <1>1, <1>3, <1>8, <2>8 DEF Says
  <2>12. log'[c] = <<entry>> /\ status'[c] = "loading"
    BY <1>1, <2>5
  <2>13. SaidBy(c)'
    BY <2>10, <2>11, <2>12 DEF SaidBy
  <2>14. ASSUME NEW d \in Cat, d # c
         PROVE  SaidBy(d)'
    <3>1. status'[d] = status[d] /\ log'[d] = log[d]
      BY <1>1, <2>5, <2>14
    <3> QED BY <1>1, <1>7, <3>1, OtherSaid DEF SaidInv
  <2> QED BY <2>13, <2>14 DEF SaidInv
<1>9. ASSUME NEW object, FailLoad(c, object)
      PROVE  SaidInv'
  BY <1>1, <1>7, <1>9, FailedSaid
<1> QED BY <1>6, <1>8, <1>9 DEF LoadUnparsable, LoadFrom, LoadBadHeader, LoadBadPluralForms,
                                LoadBadSingular

\* Comments before a message say nothing.
LEMMA PreambleSaysNothing ==
    ASSUME NEW f \in Seq(STRING), NEW p \in Po!Positions(f)
    PROVE  Rest(f, p) = Rest(f, PreambleEnd(f, p)) /\ PreambleEnd(f, p) \in Po!Positions(f)
<1>1. PICK q : q = Po!IgnoredComments(f, p)
  OBVIOUS
<1>2. q \in Po!Positions(f) /\ Rest(f, p) = Rest(f, q)
  BY <1>1, IgnoredCommentsFacts, IgnoredCommentsSkipped, Positive
<1>3. PreambleEnd(f, p) \in Po!Positions(f)
  BY PreambleFacts, Positive
<1> QED BY <1>1, <1>2, <1>3, PreambleSkipped DEF PreambleEnd

\* A round in which comments exhaust the file adds nothing.
LEMMA CommentsSaid ==
    ASSUME SaidInv, PoTypeInv, NEW c \in Cat, ReadLastComments(c)
    PROVE  SaidInv'
<1>1. file \in Seq(STRING) /\ pos \in Po!Positions(file)
  BY DEF PoTypeInv, RoundsInv
<1>2. file' = file /\ status' = status /\ log' = log /\ pos' = PreambleEnd(file, pos)
  BY DEF ReadLastComments, vars, Preamble, PreambleEnd
<1>3. Rest(file, pos') = Rest(file, pos)
  BY <1>1, <1>2, PreambleSaysNothing
<1> QED BY <1>2, <1>3 DEF SaidInv, SaidBy

\* An entry says what is read of the file.
LEMMA EntrySaid ==
    ASSUME ~NoExceptions, PluralsNamed, SaidInv, PoTypeInv, NEW c \in Cat, ReadMessage(c)
    PROVE  SaidInv'
<1>1. /\ file \in Files /\ file \in Seq(STRING) /\ file' = file /\ pos \in Po!Positions(file)
      /\ DOMAIN status = Cat /\ log \in [Cat -> Seq(LogEntry)] /\ line \in Nat
  BY DEF PoTypeInv, RoundsInv, TypeInv, TypeOK, ReadMessage
<1>2. PICK begin : begin = PreambleEnd(file, pos)
  OBVIOUS
<1>3. begin \in Po!Positions(file) /\ Rest(file, pos) = Rest(file, begin)
  BY <1>1, <1>2, PreambleSaysNothing
<1>4. PICK parsed, fuzzy : parsed = Po!Message(file, begin) /\ fuzzy = Preamble.fuzzy
  OBVIOUS
<1>5. \/ ReadUnparsable(c)
      \/ ReadSecondHeader(c, parsed.message)
      \/ parsed.next # Po!Fail /\ ReadEntry(c, parsed.message, fuzzy) /\ pos' = parsed.next
  BY <1>2, <1>4 DEF ReadMessage, Preamble, PreambleEnd
<1>6. status[c] = "loading" /\ \A d \in Cat : status[d] = "loading" => d = c
  BY <1>5 DEF PoTypeInv, RoundsInv, ReadUnparsable, ReadSecondHeader, ReadEntry
<1>7. CASE parsed.next # Po!Fail /\ ReadEntry(c, parsed.message, fuzzy) /\ pos' = parsed.next
  <2>1. PICK found : found = parsed.message
    OBVIOUS
  <2>2. PICK m : m = [found EXCEPT !.line = line]
    OBVIOUS
  <2>3. PICK entry : entry = [message |-> m, fuzzy |-> fuzzy]
    OBVIOUS
  <2>4. log' = [log EXCEPT ![c] = Append(@, entry)] /\ status' = status
    BY <1>7, <2>1, <2>2, <2>3 DEF ReadEntry
  <2>5. found \in MessagesIn(file)
    BY <1>1, <1>3, <1>4, <1>7, <2>1, MessageFacts
  <2>6. PICK said : said = Written(found)
    OBVIOUS
  <2>7. Says(file, begin, parsed.next, said) /\ parsed.next \in Po!Positions(file)
    <3>1. parsed.next \in (begin + 1)..Ends(file)
      BY <1>1, <1>3, <1>4, <1>7, MessageFacts
    <3>2. parsed.next \in Po!Positions(file)
      BY <1>1, <1>3, <3>1, Positive
    <3> QED BY <1>1, <1>3, <1>4, <1>7, <2>1, <2>6, <3>2, MessageSaid
  <2>8. said = Written(entry.message)
    BY <2>2, <2>3, <2>5, <2>6, WrittenWithoutLine
  <2>9. PICK S, rest : S = Tokens(file) /\ rest = Rest(file, parsed.next)
    OBVIOUS
  <2>10. PICK text \in Seq(S) : Accounted(log[c], text) /\ Rest(file, 1) = text \o Rest(file, pos)
    BY <1>6, <2>9 DEF SaidInv, SaidBy
  <2>11. said \in Seq(S) /\ rest \in Seq(S) /\ Rest(file, pos) = said \o rest
    BY <1>1, <1>3, <2>7, <2>9, PlacesFacts DEF Says
  <2>12. Assoc(text, said, rest) /\ text \o said \in Seq(S)
    BY <2>10, <2>11, Associative
  <2>13. Rest(file, 1) = (text \o said) \o rest
    BY <2>10, <2>11, <2>12 DEF Assoc
  <2>14. Accounted(Append(log[c], entry), text \o said)
    <3>1. PICK old : old = log[c]
      OBVIOUS
    <3>2. PICK T : T = LogEntry \cup {entry}
      OBVIOUS
    <3>3. old \in Seq(T) /\ entry \in T
      BY <1>1, <3>1, <3>2, WiderSeq
    <3> QED BY <2>8, <2>10, <3>1, <3>3, AccountedMore
  <2>15. log'[c] = Append(log[c], entry)
    BY <1>1, <2>4
  <2>16. SaidBy(c)'
    <3>1. status'[c] = "loading" /\ text \o said \in Seq(Tokens(file'))
      BY <1>1, <1>6, <2>4, <2>9, <2>12
    <3>2. Rest(file', 1) = (text \o said) \o Rest(file', pos')
      BY <1>1, <1>7, <2>9, <2>13
    <3> QED BY <2>14, <2>15, <3>1, <3>2 DEF SaidBy
  <2>17. ASSUME NEW d \in Cat, d # c
         PROVE  SaidBy(d)'
    <3>1. status'[d] = status[d] /\ log'[d] = log[d] /\ status[d] # "loading"
      BY <1>1, <1>6, <2>4, <2>17
    <3> QED BY <1>1, <3>1, OtherSaid DEF SaidInv
  <2> QED BY <2>16, <2>17 DEF SaidInv
<1>8. ASSUME NEW object, FailLoad(c, object)
      PROVE  SaidInv'
  BY <1>1, <1>6, <1>8, FailedSaid
<1> QED BY <1>5, <1>7, <1>8 DEF ReadUnparsable, ReadSecondHeader

\* At the end of the file nothing is left.
LEMMA EndSaid ==
    ASSUME SaidInv, PoTypeInv, NEW c \in Cat, Finish(c)
    PROVE  SaidInv'
<1>1. /\ file \in Seq(STRING) /\ pos \in Po!Positions(file) /\ DOMAIN status = Cat
      /\ file' = file /\ log' = log /\ pos > Len(file)
      /\ status[c] = "loading" /\ status' = [status EXCEPT ![c] = "live"]
      /\ \A d \in Cat : status[d] = "loading" => d = c
  BY DEF PoTypeInv, RoundsInv, Finish, FinishLoad
<1>2. Rest(file, pos) = <<>>
  BY <1>1, PlacesFacts, RestUnfolds
<1>3. PICK S : S = Tokens(file)
  OBVIOUS
<1>4. PICK text \in Seq(S) : Accounted(log[c], text) /\ Rest(file, 1) = text \o Rest(file, pos)
  BY <1>1, <1>3 DEF SaidInv, SaidBy
<1>5. text = Rest(file, 1)
  BY <1>2, <1>4, ConcatEmptySeq
<1>6. SaidBy(c)'
  BY <1>1, <1>4, <1>5 DEF SaidBy
<1>7. ASSUME NEW d \in Cat, d # c
      PROVE  SaidBy(d)'
  <2>1. status'[d] = status[d] /\ log'[d] = log[d] /\ status[d] # "loading"
    BY <1>1, <1>7
  <2> QED BY <1>1, <2>1, OtherSaid DEF SaidInv
<1> QED BY <1>6, <1>7 DEF SaidInv

\* Before a load nothing is said; every step keeps the invariant.
LEMMA SaidStep ==
    ASSUME ~NoExceptions, PluralsNamed
    PROVE  /\ PoInit => SaidInv
           /\ PoTypeInv /\ SaidInv /\ [PoNext]_poVars => SaidInv'
<1>1. PoInit => SaidInv
  BY DEF PoInit, Init, SaidInv, SaidBy
<1>2. ASSUME PoTypeInv, SaidInv, [PoNext]_poVars
      PROVE  SaidInv'
  <2>1. ASSUME NEW c \in Cat, NEW w \in BOOLEAN, ReadHeader(c, w)
        PROVE  SaidInv'
    BY <1>2, <2>1, HeaderSaid
  <2>2. ASSUME NEW c \in Cat, ReadLastComments(c)
        PROVE  SaidInv'
    BY <1>2, <2>2, CommentsSaid
  <2>3. ASSUME NEW c \in Cat, ReadMessage(c)
        PROVE  SaidInv'
    BY <1>2, <2>3, EntrySaid
  <2>4. ASSUME NEW c \in Cat, Finish(c)
        PROVE  SaidInv'
    BY <1>2, <2>4, EndSaid
  <2>5. CASE UNCHANGED poVars
    BY <1>2, <2>5 DEF poVars, vars, SaidInv, SaidBy
  <2> QED BY <1>2, <2>1, <2>2, <2>3, <2>4, <2>5 DEF PoNext, Over
<1> QED BY <1>1, <1>2

\* Whatever the file, a load that succeeds has read it to its last token: the
\* messages of the catalog, written down in the order in which they were read and
\* with their strings in the order of their indices, are the file without layout
\* and comments.  No alternative or optional part of the grammar that gives up half
\* way drops or repeats a string, and no comment between two pieces of a string
\* loses one.  The build throws exceptions (without, a load that fails leaves a
\* live catalog), and no msgid_plural is empty, which leaves no trace in a message.
THEOREM NothingIsLost ==
    ASSUME ~NoExceptions, PluralsNamed
    PROVE  PoSpec => []NothingLost
<1>1. PoSpec => [](PoTypeInv /\ SaidInv)
  BY SaidStep, PoTypeInit, PoTypeStep, PTL DEF PoSpec
<1>2. ASSUME PoTypeInv, SaidInv
      PROVE  NothingLost
  <2>1. Significant = Rest(file, 1)
    BY DEF Significant, Rest, Content
  <2>2. ASSUME NEW c \in Cat, status[c] = "live"
        PROVE  AllOf(log[c]) = Significant
    <3>1. Len(log[c]) \in Nat
      BY <1>2 DEF PoTypeInv, TypeInv, TypeOK
    <3> QED BY <1>2, <2>1, <2>2, <3>1, AccountedIsAll DEF SaidInv, SaidBy
  <2> QED BY <2>2 DEF NothingLost, AllOf
<1> QED BY <1>1, <1>2, PTL
-----------------------------------------------------------------------------
(* Line numbers *)

\* Comments are ignored until none is followed by a white line.
LEMMA IgnoredCommentsEnd ==
    ASSUME NEW f \in Seq(STRING), NEW p \in Po!Positions(f)
    PROVE  IgnoredBlock(f, Po!IgnoredComments(f, p)) = Po!Fail
<1> DEFINE jump == [q \in Po!Positions(f) |-> IgnoredBlock(f, q)]
           Good == {q \in Po!Positions(f) : IgnoredBlock(f, Po!IgnoredComments(f, q)) = Po!Fail}
<1>1. \A q \in Po!Positions(f) : jump[q] \in Later(f, q)
  BY IgnoredBlockFacts
<1>2. ASSUME NEW q \in Po!Positions(f), jump[q] = Po!Fail \/ jump[q] \in Good
      PROVE  q \in Good
  BY <1>2, IgnoredCommentsUnfold
<1>3. Good = Po!Positions(f)
  <2> HIDE DEF jump, Good
  <2>1. Good \in SUBSET Po!Positions(f)
    BY DEF Good
  <2> QED BY <1>1, <1>2, <2>1, FromTheEnd
<1> QED BY <1>3

\* A block of comments ends where no comment begins.
LEMMA CommentBlockEnds ==
    ASSUME NEW f \in Seq(STRING), NEW p \in Po!Positions(f)
    PROVE  Po!PreambleCommentLine(f, CommentBlock(f, p)) = Po!Fail
<1> DEFINE jump == [q \in Po!Positions(f) |-> Po!PreambleCommentLine(f, q)]
           Good == {q \in Po!Positions(f) : Po!PreambleCommentLine(f, CommentBlock(f, q)) = Po!Fail}
<1>1. \A q \in Po!Positions(f) : jump[q] \in Later(f, q)
  BY CommentFacts
<1>2. ASSUME NEW q \in Po!Positions(f), jump[q] = Po!Fail \/ jump[q] \in Good
      PROVE  q \in Good
  BY <1>2, CommentBlockUnfolds
<1>3. Good = Po!Positions(f)
  <2> HIDE DEF jump, Good
  <2>1. Good \in SUBSET Po!Positions(f)
    BY DEF Good
  <2> QED BY <1>1, <1>2, <2>1, FromTheEnd
<1> QED BY <1>3

\* What the comments before a message end in is no line that may be skipped.
LEMMA PreambleEndsAtMessage ==
    ASSUME NEW f \in Seq(STRING), NEW p \in Po!Positions(f), PreambleEnd(f, p) <= Len(f)
    PROVE  Po!SkippedLine(f, PreambleEnd(f, p)) = Po!Fail
<1>1. PICK q : q = Po!IgnoredComments(f, p)
  OBVIOUS
<1>2. q \in Po!Positions(f) /\ IgnoredBlock(f, q) = Po!Fail
  BY <1>1, IgnoredCommentsFacts, IgnoredCommentsEnd, Positive
<1>3. PICK e : e = PreambleEnd(f, p)
  OBVIOUS
<1>4. e = CommentBlock(f, q)
  BY <1>1, <1>2, <1>3, PreambleSkipped DEF PreambleEnd
<1>5. CASE Po!At(f, e, "#")
  <2>1. Po!SkippedLine(f, e) = Po!PreambleCommentLine(f, e)
    BY <1>5 DEF Po!SkippedLine, Po!PreambleCommentLine
  <2> QED BY <1>2, <1>3, <1>4, <2>1, CommentBlockEnds
<1>6. CASE ~Po!At(f, e, "#")
  BY <1>2, <1>3, <1>4, <1>6 DEF Po!SkippedLine, IgnoredBlock
<1> QED BY <1>5, <1>6

\* A message that nothing is skipped before begins with a keyword.
LEMMA MessageBegins ==
    ASSUME NEW f \in Seq(STRING), NEW p \in Po!Positions(f), Po!Message(f, p).next # Po!Fail,
           Po!SkippedLine(f, p) = Po!Fail
    PROVE  f[p] \in {"msgctxt ", "msgid "}
<1>1. Po!SkippedBlock(f, p) = p
  BY SkippedBlockUnfolds
<1>2. ASSUME NEW key, Po!Keyword(f, p, key).next # Po!Fail
      PROVE  f[p] = key
  BY <1>1, <1>2 DEF Po!Keyword, Po!Rejected, Po!At
<1>3. PICK first : first = Po!Keyword(f, p, "msgctxt ")
  OBVIOUS
<1>4. CASE first.next # Po!Fail
  BY <1>2, <1>3, <1>4
<1>5. CASE first.next = Po!Fail
  <2>1. PICK context : context = Po!Optional(first, p)
    OBVIOUS
  <2>2. context.next = p
    BY <1>5, <2>1 DEF Po!Optional
  <2>3. PICK id : id = Po!Keyword(f, p, "msgid ")
    OBVIOUS
  <2>4. Po!Message(f, p) = Po!MessageWithId(f, context, id)
    BY <1>3, <2>1, <2>2, <2>3 DEF Po!Message, Po!MessageWithContext
  <2>5. id.next # Po!Fail
    BY <2>4 DEF Po!MessageWithId, Po!Rejected
  <2> QED BY <1>2, <2>3, <2>5
<1> QED BY <1>4, <1>5

\* Message m, with key k, is found where its line says, where the entries of file f
\* begin at the positions s.
StandsAt(f, s, m, k, l) ==
    /\ l \in Nat /\ l + 1 \in DOMAIN s /\ m.line = l
    /\ LET r == Po!Message(f, s[l + 1])
       IN  /\ r.next # Po!Fail
           /\ m = [r.message EXCEPT !.line = l]
           /\ k = FormIndex(r.message)
           /\ l > 0 => Po!SkippedLine(f, s[l + 1]) = Po!Fail

Stands(f, s, m, k) == \E l : StandsAt(f, s, m, k, l)

\* While a file is read the next line is that of the next entry; every message of
\* a catalog is found where its line says.
StandInv ==
    /\ \A c \in Cat : status[c] = "loading" => line = Len(starts)
    /\ \A c \in Cat : \A k \in DOMAIN cat[c].map : Stands(file, starts, cat[c].map[k], k)

\* A catalog without messages holds none that stands elsewhere.
LEMMA EmptyStands ==
    ASSUME NEW w
    PROVE  /\ DOMAIN Fresh.map = {} /\ DOMAIN Blank(w).map = {}
           /\ \A h : /\ DOMAIN WithMetadata(h, w).map = {}
                     /\ DOMAIN WithPluralForms(h, w).map = {}
BY DEF Fresh, Blank, WithMetadata, WithPluralForms, NewObject, EmptyMap

\* A message goes under its key, and the others stay, if it goes anywhere.
LEMMA InsertStands ==
    ASSUME ~EmplaceConsumes, NEW o, o = [error |-> o.error, num |-> o.num, plural |-> o.plural,
             singular |-> o.singular, map |-> o.map, channel |-> o.channel],
           NEW m, NEW k \in DOMAIN InsertMessage(o, m).map
    PROVE  \/ k \in DOMAIN o.map /\ InsertMessage(o, m).map[k] = o.map[k]
           \/ k = FormIndex(m) /\ InsertMessage(o, m).map[k] = m
<1>1. PICK key : key = FormIndex(m)
  OBVIOUS
<1> DEFINE map == [x \in DOMAIN o.map \cup {key} |-> IF x = key THEN m ELSE o.map[x]]
<1>2. Stored(o, m) = m
  BY DEF Stored, AfterEmplace
<1>3. InsertMessage(o, m) = o \/ InsertMessage(o, m) = [o EXCEPT !.map = map]
  BY <1>1, <1>2 DEF InsertMessage
<1>4. [o EXCEPT !.map = map].map = map
  <2> HIDE DEF map
  <2> QED OBVIOUS
<1>5. CASE InsertMessage(o, m) = o
  BY <1>5
<1>6. CASE InsertMessage(o, m).map = map
  BY <1>1, <1>6
<1> QED BY <1>3, <1>4, <1>5, <1>6

\* A message stands where it was read.
LEMMA ReadStands ==
    ASSUME NEW f \in Files, NEW s \in Seq(Po!Positions(f)), NEW l \in Nat, l + 1 \in DOMAIN s,
           NEW r, r = Po!Message(f, s[l + 1]), r.next # Po!Fail, NEW m,
           m = [r.message EXCEPT !.line = l],
           l > 0 => Po!SkippedLine(f, s[l + 1]) = Po!Fail
    PROVE  Stands(f, s, m, FormIndex(m))
<1>1. PICK p : p = s[l + 1]
  OBVIOUS
<1>2. p \in Po!Positions(f) /\ f \in Seq(STRING)
  BY <1>1, TokensAssumption
<1>3. r.message \in MessagesIn(f)
  BY <1>1, <1>2, MessageFacts
<1>4. m.line = l /\ m.context = r.message.context /\ m.id = r.message.id
  BY <1>3 DEF MessagesIn
<1>5. FormIndex(m) = FormIndex(r.message)
  BY <1>4 DEF FormIndex
<1>6. StandsAt(f, s, m, FormIndex(m), l)
  BY <1>1, <1>4, <1>5 DEF StandsAt
<1> QED BY <1>6 DEF Stands

\* More entries do not move it.
LEMMA StandsOn ==
    ASSUME NEW f, NEW T, NEW s \in Seq(T), NEW e \in T, NEW m, NEW k, Stands(f, s, m, k)
    PROVE  Stands(f, Append(s, e), m, k)
<1>1. PICK l : StandsAt(f, s, m, k, l)
  BY DEF Stands
<1>2. PICK more : more = Append(s, e)
  OBVIOUS
<1>3. l \in Nat /\ l + 1 \in DOMAIN s
  BY <1>1 DEF StandsAt
<1>4. l + 1 \in DOMAIN more /\ more[l + 1] = s[l + 1]
  BY <1>2, <1>3
<1>5. StandsAt(f, more, m, k, l)
  BY <1>1, <1>4 DEF StandsAt
<1> QED BY <1>2, <1>5 DEF Stands

\* The positions are those of one catalog.
OneCatalog == \A c, d \in Cat : c = d

\* An object without messages is left by a constructor that fails before its loop.
LEMMA FailedHeaderStands ==
    ASSUME OneCatalog, PoTypeInv, NEW c \in Cat, NEW object, DOMAIN object.map = {},
           object = [error |-> object.error, num |-> object.num, plural |-> object.plural,
                     singular |-> object.singular, map |-> object.map, channel |-> object.channel],
           FailLoad(c, object), \A d \in Cat : status[d] # "loading"
    PROVE  StandInv'
<1>1. cat = [d \in Cat |-> cat[d]] /\ DOMAIN status = Cat
  BY DEF PoTypeInv, RoundsInv, TypeInv, TypeOK
<1>2. \A d \in Cat : status'[d] # "loading"
  BY <1>1, FailLoadEnds
<1>3. DOMAIN cat'[c].map = {}
  <2>1. PICK new : new = IF NoExceptions THEN [object EXCEPT !.error = TRUE] ELSE Fresh
    OBVIOUS
  <2>2. cat'[c] = new
    BY <1>1, <2>1 DEF FailLoad
  <2>3. [object EXCEPT !.error = TRUE].map = object.map
    OBVIOUS
  <2> QED BY <2>1, <2>2, <2>3, EmptyStands
<1>4. \A d \in Cat : DOMAIN cat'[d].map = {}
  BY <1>3 DEF OneCatalog
<1> QED BY <1>2, <1>4 DEF StandInv

\* The header stands in line 0.
LEMMA HeaderStands ==
    ASSUME ~EmplaceConsumes, OneCatalog, StandInv, PoTypeInv, NEW c \in Cat, NEW w \in BOOLEAN,
           ReadHeader(c, w)
    PROVE  StandInv'
<1>1. /\ file \in Files /\ file \in Seq(STRING) /\ file' = file /\ 1 \in Po!Positions(file)
      /\ DOMAIN status = Cat /\ cat = [d \in Cat |-> cat[d]]
  BY Positive DEF PoTypeInv, RoundsInv, TypeInv, TypeOK, ReadHeader
<1>2. PICK start : start = HeaderStart
  OBVIOUS
<1>3. start \in Po!Positions(file) /\ starts' = <<start>>
  BY <1>1, <1>2, SkippedBlockFacts, Positive DEF HeaderStart, ReadHeader
<1>4. PICK parsed : parsed = Po!Message(file, start)
  OBVIOUS
<1>5. PICK header : header = HeaderFrom(parsed.message, Meaning(parsed.message.strings[1]))
  OBVIOUS
<1>6. \/ LoadUnparsable(c, w)
      \/ parsed.next # Po!Fail /\ LoadFrom(c, header, w)
  BY <1>2, <1>4, <1>5 DEF ReadHeader
<1>7. \A d \in Cat : status[d] # "loading"
  BY <1>6 DEF LoadUnparsable, LoadFrom, LoadBadHeader, LoadBadPluralForms,
              LoadBadSingular, LoadHeader, StartLoad, Idle
<1>8. CASE parsed.next # Po!Fail /\ LoadHeader(c, header, w)
  <2>1. PICK m : m = [parsed.message EXCEPT !.line = 0]
    OBVIOUS
  <2>2. PICK object : object = WithPluralForms(header, w)
    OBVIOUS
  <2>3. cat' = [cat EXCEPT ![c] = InsertMessage(object, m)] /\ line' = 1
    BY <1>5, <1>8, <2>1, <2>2 DEF LoadHeader, HeaderFrom
  <2>4. /\ object = [error |-> object.error, num |-> object.num, plural |-> object.plural,
                     singular |-> object.singular, map |-> object.map, channel |-> object.channel]
        /\ DOMAIN object.map = {}
    BY <2>2, EmptyStands DEF WithPluralForms, NewObject
  <2>5. cat'[c] = InsertMessage(object, m)
    BY <1>1, <2>3
  <2>6. \A k \in DOMAIN cat'[c].map : k = FormIndex(m) /\ cat'[c].map[k] = m
    BY <2>4, <2>5, InsertStands
  <2>7. Stands(file, starts', m, FormIndex(m))
    <3>1. PICK s, zero : s = starts' /\ zero = 0
      OBVIOUS
    <3>2. /\ s \in Seq(Po!Positions(file)) /\ zero \in Nat /\ zero + 1 \in DOMAIN s
          /\ s[zero + 1] = start /\ ~(zero > 0)
      BY <1>3, <3>1
    <3>3. m = [parsed.message EXCEPT !.line = zero]
      BY <2>1, <3>1
    <3> QED BY <1>1, <1>4, <1>8, <3>1, <3>2, <3>3, ReadStands
  <2>8. \A d \in Cat : \A k \in DOMAIN cat'[d].map : Stands(file', starts', cat'[d].map[k], k)
    BY <1>1, <2>6, <2>7 DEF OneCatalog
  <2>9. line' = Len(starts')
    BY <1>3, <2>3
  <2> QED BY <2>8, <2>9 DEF StandInv
<1>9. ASSUME LoadUnparsable(c, w)
      PROVE  StandInv'
  <2>1. PICK object : object = Blank(w)
    OBVIOUS
  <2>2. /\ object = [error |-> object.error, num |-> object.num, plural |-> object.plural,
                     singular |-> object.singular, map |-> object.map, channel |-> object.channel]
        /\ DOMAIN object.map = {} /\ FailLoad(c, object)
    BY <1>9, <2>1, EmptyStands DEF LoadUnparsable, Blank, NewObject
  <2> QED BY <1>7, <2>2, FailedHeaderStands
<1>10. ASSUME LoadBadHeader(c, header, w) \/ LoadBadPluralForms(c, header, w)
                \/ LoadBadSingular(c, header, w)
       PROVE  StandInv'
  <2>1. PICK object : FailLoad(c, object)
                      /\ object \in {Blank(w), WithMetadata(header, w), WithPluralForms(header, w)}
    BY <1>10 DEF LoadBadHeader, LoadBadPluralForms, LoadBadSingular
  <2>2. /\ object = [error |-> object.error, num |-> object.num, plural |-> object.plural,
                     singular |-> object.singular, map |-> object.map, channel |-> object.channel]
        /\ DOMAIN object.map = {}
    BY <2>1, EmptyStands DEF Blank, WithMetadata, WithPluralForms, NewObject
  <2> QED BY <1>7, <2>1, <2>2, FailedHeaderStands
<1> QED BY <1>6, <1>8, <1>9, <1>10 DEF LoadFrom

\* A constructor that fails in its loop drops the messages, or keeps them.
LEMMA FailedEntryStands ==
    ASSUME OneCatalog, StandInv, PoTypeInv, NEW c \in Cat, FailLoad(c, cat[c]),
           UNCHANGED <<file, starts>>, status[c] = "loading"
    PROVE  StandInv'
<1>1. cat = [d \in Cat |-> cat[d]] /\ DOMAIN status = Cat /\ CatalogType(cat[c])
  BY DEF PoTypeInv, RoundsInv, TypeInv, TypeOK
<1>2. \A d \in Cat : status'[d] # "loading"
  BY <1>1, FailLoadEnds DEF OneCatalog
<1>3. PICK object : object = cat[c]
  OBVIOUS
<1>4. [object EXCEPT !.error = TRUE].map = object.map
  BY <1>1, <1>3 DEF CatalogType
<1>5. cat'[c] = IF NoExceptions THEN [object EXCEPT !.error = TRUE] ELSE Fresh
  BY <1>1, <1>3 DEF FailLoad
<1>6. DOMAIN cat'[c].map = {} \/ cat'[c].map = object.map
  BY <1>4, <1>5, EmptyStands
<1>7. \A k \in DOMAIN cat'[c].map : Stands(file', starts', cat'[c].map[k], k)
  BY <1>3, <1>6 DEF StandInv
<1> QED BY <1>2, <1>7 DEF StandInv, OneCatalog

\* An entry stands where the loop found it.
LEMMA EntryStands ==
    ASSUME ~EmplaceConsumes, OneCatalog, StandInv, PoTypeInv, NEW c \in Cat, ReadMessage(c)
    PROVE  StandInv'
<1>1. /\ file \in Files /\ file \in Seq(STRING) /\ file' = file /\ pos \in Po!Positions(file)
      /\ DOMAIN status = Cat /\ cat = [d \in Cat |-> cat[d]] /\ CatalogType(cat[c])
      /\ starts \in Seq(Po!Positions(file)) /\ line \in Nat
  BY DEF PoTypeInv, RoundsInv, TypeInv, TypeOK, ReadMessage
<1>2. PICK begin : begin = PreambleEnd(file, pos)
  OBVIOUS
<1>3. begin \in Po!Positions(file) /\ begin <= Len(file)
  BY <1>1, <1>2, PreambleSaysNothing DEF ReadMessage, Preamble, PreambleEnd
<1>4. Po!SkippedLine(file, begin) = Po!Fail
  BY <1>1, <1>2, <1>3, PreambleEndsAtMessage
<1>5. PICK parsed, fuzzy : parsed = Po!Message(file, begin) /\ fuzzy = Preamble.fuzzy
  OBVIOUS
<1>6. \/ ReadUnparsable(c) /\ starts' = starts
      \/ ReadSecondHeader(c, parsed.message) /\ starts' = starts
      \/ /\ parsed.next # Po!Fail /\ ReadEntry(c, parsed.message, fuzzy)
         /\ starts' = Append(starts, begin)
  BY <1>2, <1>5 DEF ReadMessage, Preamble, PreambleEnd
<1>7. status[c] = "loading"
  BY <1>6 DEF ReadUnparsable, ReadSecondHeader, ReadEntry
<1>8. CASE /\ parsed.next # Po!Fail /\ ReadEntry(c, parsed.message, fuzzy)
           /\ starts' = Append(starts, begin)
  <2>1. PICK m : m = [parsed.message EXCEPT !.line = line]
    OBVIOUS
  <2>2. PICK object : object = cat[c]
    OBVIOUS
  <2>3. /\ line' = line + 1 /\ status' = status
        /\ cat'[c] = object \/ cat'[c] = InsertMessage(object, m)
    BY <1>1, <1>8, <2>1, <2>2 DEF ReadEntry, ReadInto
  <2>4. line = Len(starts)
    BY <1>7 DEF StandInv
  <2>5. line' = Len(starts')
    BY <1>1, <1>3, <1>8, <2>3, <2>4
  <2>6. Stands(file, starts', m, FormIndex(m))
    <3>1. /\ starts' \in Seq(Po!Positions(file)) /\ line + 1 \in DOMAIN starts'
          /\ starts'[line + 1] = begin
      BY <1>1, <1>3, <1>8, <2>4
    <3> QED BY <1>1, <1>4, <1>5, <1>8, <2>1, <3>1, ReadStands
  <2>7. \A k \in DOMAIN object.map : Stands(file, starts', object.map[k], k)
    <3>1. ASSUME NEW k \in DOMAIN object.map
          PROVE  Stands(file, starts', object.map[k], k)
      <4>1. PICK old : old = object.map[k]
        OBVIOUS
      <4>2. Stands(file, starts, old, k)
        BY <2>2, <3>1, <4>1 DEF StandInv
      <4>3. Stands(file, starts', old, k)
        BY <1>1, <1>3, <1>8, <4>2, StandsOn
      <4> QED BY <4>1, <4>3
    <3> QED BY <3>1
  <2>8. object = [error |-> object.error, num |-> object.num, plural |-> object.plural,
                  singular |-> object.singular, map |-> object.map, channel |-> object.channel]
    BY <1>1, <2>2 DEF CatalogType
  <2>9. \A k \in DOMAIN cat'[c].map : Stands(file, starts', cat'[c].map[k], k)
    <3>1. CASE cat'[c] = object
      BY <2>7, <3>1
    <3>2. CASE cat'[c] = InsertMessage(object, m)
      <4>1. ASSUME NEW k \in DOMAIN InsertMessage(object, m).map
            PROVE  Stands(file, starts', InsertMessage(object, m).map[k], k)
        BY <2>6, <2>7, <2>8, <4>1, InsertStands
      <4> QED BY <3>2, <4>1
    <3> QED BY <2>3, <3>1, <3>2
  <2>10. \A d \in Cat : \A k \in DOMAIN cat'[d].map : Stands(file', starts', cat'[d].map[k], k)
    BY <1>1, <2>9 DEF OneCatalog
  <2> QED BY <2>5, <2>10 DEF StandInv
<1>9. ASSUME FailLoad(c, cat[c]), starts' = starts
      PROVE  StandInv'
  BY <1>1, <1>7, <1>9, FailedEntryStands
<1> QED BY <1>6, <1>8, <1>9 DEF ReadUnparsable, ReadSecondHeader

\* No catalog holds a message before a load; every step keeps the invariant.
LEMMA StandStep ==
    ASSUME ~EmplaceConsumes, OneCatalog
    PROVE  /\ PoInit => StandInv
           /\ PoTypeInv /\ StandInv /\ [PoNext]_poVars => StandInv'
<1>1. PoInit => StandInv
  BY EmptyStands DEF PoInit, Init, StandInv
<1>2. ASSUME PoTypeInv, StandInv, [PoNext]_poVars
      PROVE  StandInv'
  <2>1. ASSUME NEW c \in Cat, NEW w \in BOOLEAN, ReadHeader(c, w)
        PROVE  StandInv'
    BY <1>2, <2>1, HeaderStands
  <2>2. ASSUME NEW c \in Cat, ReadLastComments(c)
        PROVE  StandInv'
    BY <1>2, <2>2 DEF ReadLastComments, vars, StandInv
  <2>3. ASSUME NEW c \in Cat, ReadMessage(c)
        PROVE  StandInv'
    BY <1>2, <2>3, EntryStands
  <2>4. ASSUME NEW c \in Cat, Finish(c)
        PROVE  StandInv'
    <3>1. /\ UNCHANGED <<file, starts, cat>> /\ status' = [status EXCEPT ![c] = "live"]
          /\ DOMAIN status = Cat
      BY <1>2, <2>4 DEF Finish, FinishLoad, PoTypeInv, RoundsInv
    <3>2. \A d \in Cat : status'[d] # "loading"
      BY <3>1 DEF OneCatalog
    <3> QED BY <1>2, <3>1, <3>2 DEF StandInv
  <2>5. CASE UNCHANGED poVars
    BY <1>2, <2>5 DEF poVars, vars, StandInv
  <2> QED BY <1>2, <2>1, <2>2, <2>3, <2>4, <2>5 DEF PoNext, Over
<1> QED BY <1>1, <1>2

\* No context contains the separator, nor does the msgid of a message without one.
TextsReserveSeparator ==
    \A f \in Files : \A p \in Po!Positions(f) :
        LET r == Po!Message(f, p)
        IN  r.next # Po!Fail => Reserves(r.message.context, r.message.id)

\* Line l leads to an entry that reads as the message under key.
Leads(c, l, key, id, ctx) ==
    /\ file[starts[l + 1]] \in {"msgctxt ", "msgid "}
    /\ LET m == Po!Message(file, starts[l + 1]).message
       IN  /\ m.id = id /\ m.context = ctx
           /\ cat[c].map[key] = [m EXCEPT !.line = l]

\* Whatever the file, the line number that a lookup returns leads to the entry whose
\* strings it returns, and to its first line: comments and white lines before an
\* entry are not counted as its own, a duplicate brings its own number, and fuzzy
\* entries count, though they are not stored.  If emplace moved from a duplicate, no
\* entry would be what is stored; if the separator were in a msgid or a context,
\* other entries could be found.  The positions are kept for one catalog.
THEOREM LineNumbersAreRight ==
    ASSUME ~EmplaceConsumes, OneCatalog, TextsReserveSeparator, ClientsReserveSeparator
    PROVE  PoSpec => []LineNumbersFindEntries
<1>1. PoSpec => [](PoTypeInv /\ StandInv)
  BY StandStep, PoTypeInit, PoTypeStep, PTL DEF PoSpec
<1>2. ASSUME PoTypeInv, StandInv
      PROVE  LineNumbersFindEntries
  <2>1. ASSUME NEW c \in InUse, NEW id \in Text, NEW ctx \in Text \cup {NoContext},
               Reserves(ctx, id), NEW key, key = Key(ctx, id),
               NEW l, l = LineNo(cat[c], key), l > 0
        PROVE  Leads(c, l, key, id, ctx)
    <3>1. /\ file \in Files /\ file \in Seq(STRING) /\ starts \in Seq(Po!Positions(file))
          /\ c \in Cat
      BY <1>2 DEF PoTypeInv, RoundsInv, InUse
    <3>2. key \in DOMAIN cat[c].map /\ l = cat[c].map[key].line
      BY <2>1 DEF LineNo
    <3>3. PICK stored : stored = cat[c].map[key]
      OBVIOUS
    <3>4. PICK n : StandsAt(file, starts, stored, key, n)
      BY <1>2, <3>1, <3>2, <3>3 DEF StandInv, Stands
    <3>5. StandsAt(file, starts, stored, key, l) /\ l \in Nat
      BY <3>2, <3>3, <3>4 DEF StandsAt
    <3>6. PICK p, r : p = starts[l + 1] /\ r = Po!Message(file, p)
      OBVIOUS
    <3>7. p \in Po!Positions(file) /\ r.next # Po!Fail /\ Po!SkippedLine(file, p) = Po!Fail
      <4>1. l + 1 \in DOMAIN starts
        BY <3>5 DEF StandsAt
      <4>2. p \in Po!Positions(file)
        BY <3>1, <3>6, <4>1
      <4> QED BY <2>1, <3>5, <3>6, <4>2 DEF StandsAt
    <3>8. file[p] \in {"msgctxt ", "msgid "}
      BY <3>1, <3>6, <3>7, MessageBegins
    <3>9. PICK m : m = r.message
      OBVIOUS
    <3>10. m \in Message
      BY <3>1, <3>6, <3>7, <3>9, ParsedTypes
    <3>11. m.context \in Text \cup {NoContext} /\ m.id \in Text /\ Reserves(m.context, m.id)
      BY <3>1, <3>6, <3>7, <3>9, <3>10 DEF TextsReserveSeparator, Message
    <3>12. Key(m.context, m.id) = Key(ctx, id)
      BY <2>1, <3>5, <3>6, <3>9 DEF StandsAt, FormIndex, Key
    <3>13. m.context = ctx /\ m.id = id
      BY <2>1, <3>11, <3>12, KeyUnique
    <3>14. stored = [m EXCEPT !.line = l]
      BY <3>5, <3>6, <3>9 DEF StandsAt
    <3> QED BY <3>3, <3>6, <3>8, <3>9, <3>13, <3>14 DEF Leads
  <2>2. ASSUME NEW c \in InUse, NEW id \in Ids, NEW l, l = GettextLineNo(cat[c], id), l > 0
        PROVE  Leads(c, l, id, id, NoContext)
    <3>1. /\ id \in Text /\ Reserves(NoContext, id) /\ id = Key(NoContext, id)
          /\ l = LineNo(cat[c], id)
      BY <2>2, TextAssumption DEF ClientsReserveSeparator, Reserves, Key, GettextLineNo
    <3> QED BY <2>1, <2>2, <3>1
  <2>3. ASSUME NEW c \in InUse, NEW id \in Ids, NEW ctx \in Contexts,
               NEW l, l = PGettextLineNo(cat[c], ctx, id), l > 0
        PROVE  Leads(c, l, FormContextIndex(ctx, id), id, ctx)
    <3>1. PICK key : key = FormContextIndex(ctx, id)
      OBVIOUS
    <3>2. /\ id \in Text /\ ctx \in Text /\ Reserves(ctx, id) /\ key = Key(ctx, id)
          /\ l = LineNo(cat[c], key)
      BY <2>3, <3>1, TextAssumption DEF ClientsReserveSeparator, Reserves, Key, PGettextLineNo
    <3> QED BY <2>1, <2>3, <3>1, <3>2
  <2>4. \A c \in InUse : \A id \in Ids :
          /\ GettextLineNo(cat[c], id) > 0 =>
               Leads(c, GettextLineNo(cat[c], id), id, id, NoContext)
          /\ \A ctx \in Contexts :
               PGettextLineNo(cat[c], ctx, id) > 0 =>
                 Leads(c, PGettextLineNo(cat[c], ctx, id), FormContextIndex(ctx, id), id, ctx)
    BY <2>2, <2>3
  <2> QED BY <2>4, Zenon DEF LineNumbersFindEntries, Leads
<1> QED BY <1>1, <1>2, PTL
-----------------------------------------------------------------------------
(* Files of complete entries load *)

\* Where Behind looks, in the terms of the rules.
LEMMA BehindIs ==
    ASSUME NEW f \in Seq(STRING), NEW p \in 1..Len(f)
    PROVE  Behind(f, p) = IF f[p] = "#" THEN Po!LineEnd(f, p) + 1
                          ELSE IF f[p] = Quote THEN Po!SingleLineString(f, p).next
                          ELSE Po!EndLine(f, Po!WhiteLine(f, p))
<1>1. p \in Po!Positions(f) /\ p \in DOMAIN f
  BY Positive
<1>2. CASE f[p] = "#"
  BY <1>2 DEF Behind, Po!LineEnd
<1>3. CASE f[p] = Quote
  <2>1. f[p] # "#"
    BY <1>3, QuoteFacts
  <2>2. PICK end : end = TextEnd(f, p)
    OBVIOUS
  <2>3. Behind(f, p) = IF Po!At(f, end, Quote) THEN end + 1 ELSE Po!Fail
    BY <1>3, <2>1, <2>2 DEF Behind, TextEnd, Quote
  <2>4. Po!At(f, p, Quote)
    BY <1>1, <1>3 DEF Po!At
  <2>5. CASE Po!At(f, end, Quote)
    <3>1. PICK text : text = [i \in 1..(end - p - 1) |-> Po!Decoded(f[p + i])]
      OBVIOUS
    <3>2. Po!SingleLineString(f, p) = [next |-> end + 1, text |-> text]
      BY <2>2, <2>4, <2>5, <3>1 DEF Po!SingleLineString, TextEnd, Quote
    <3>3. Po!SingleLineString(f, p).next = end + 1
      BY <3>2
    <3> QED BY <1>3, <2>1, <2>3, <2>5, <3>3
  <2>6. CASE ~Po!At(f, end, Quote)
    <3>1. Po!SingleLineString(f, p) = Po!Rejected
      BY <2>2, <2>4, <2>6 DEF Po!SingleLineString, TextEnd, Quote
    <3>2. Po!SingleLineString(f, p).next = Po!Fail
      BY <3>1 DEF Po!Rejected
    <3> QED BY <1>3, <2>1, <2>3, <2>6, <3>2
  <2> QED BY <2>5, <2>6
<1>4. CASE f[p] # "#" /\ f[p] # Quote
  <2>1. PICK black : black = Po!WhiteLine(f, p)
    OBVIOUS
  <2>2. black \in p..Ends(f)
    BY <1>1, <2>1, WhiteLineFacts
  <2>4. black # Po!Fail
    BY <2>2, Positive DEF Po!Fail
  <2>3. Behind(f, p) = IF Po!At(f, black, "\n") THEN black + 1 ELSE Po!Fail
    BY <1>4, <2>1 DEF Behind, Po!WhiteLine, Quote
  <2> QED BY <1>4, <2>1, <2>4, <2>3 DEF Po!EndLine
<1> QED BY <1>2, <1>3, <1>4

\* The item goes on, or it is not complete.
LEMMA BehindFacts ==
    ASSUME NEW f \in Seq(STRING), NEW p \in 1..Len(f)
    PROVE  Behind(f, p) \in {Po!Fail} \cup (p + 1)..(Len(f) + 2)
<1>1. p \in Po!Positions(f) /\ Ends(f) = Len(f) + 1 /\ Len(f) \in Nat
  BY Positive
<1>2. CASE f[p] = "#"
  <2>1. PICK e : e = Po!LineEnd(f, p)
    OBVIOUS
  <2>2. e \in p..Ends(f)
    BY <1>1, <2>1, LineEndFacts
  <2> QED BY <1>1, <1>2, <2>1, <2>2, BehindIs
<1>3. CASE f[p] # "#" /\ f[p] = Quote
  <2>1. PICK r : r = Po!SingleLineString(f, p)
    OBVIOUS
  <2>2. r \in StringsAfter(f, p)
    BY <1>1, <2>1, SingleLineStringFacts
  <2>3. r.next \in {Po!Fail} \cup (p + 1)..Ends(f)
    BY <2>2 DEF StringsAfter, Po!Rejected
  <2> QED BY <1>1, <1>3, <2>1, <2>3, BehindIs
<1>4. CASE f[p] # "#" /\ f[p] # Quote
  <2>1. PICK e : e = Po!WhiteLine(f, p)
    OBVIOUS
  <2>2. e \in p..Ends(f)
    BY <1>1, <2>1, WhiteLineFacts
  <2>3. Po!EndLine(f, e) \in Later(f, p)
    BY <1>1, <2>2, EndLineFacts
  <2> QED BY <1>1, <1>4, <2>1, <2>3, BehindIs DEF Later
<1> QED BY <1>2, <1>3, <1>4

\* The string with the next index comes next.
NextIndex(part, key) == \E i \in 2..Len(StrKeys) : part = StrKeys[i - 1] /\ key = StrKeys[i]

\* The pairs of keywords in order, one kind after the other.
LEMMA OrderIs ==
    ASSUME NEW part, NEW key, <<part, key>> \in Order
    PROVE  \/ part \in LastParts /\ key \in {"msgctxt ", "msgid "}
           \/ part = "msgctxt " /\ key = "msgid "
           \/ part = "msgid " /\ key \in {"msgstr ", "msgid_plural "}
           \/ part = "msgid_plural " /\ key = StrKeys[1]
           \/ NextIndex(part, key)
BY DEF Order, NextIndex

\* A keyword in order is one, and not layout.
LEMMA OrderFacts ==
    ASSUME NEW part, NEW key, <<part, key>> \in Order
    PROVE  key \in Keywords /\ key \in Parts /\ part \in Parts
<1>1. {"msgctxt ", "msgid ", "msgid_plural ", "msgstr "} \subseteq Keywords \cap Parts
  BY DEF Keywords, Parts, LastParts
<1>2. LastParts \subseteq Parts
  BY DEF Parts
<1>3. \A i \in 1..Len(StrKeys) : StrKeys[i] \in Keywords /\ StrKeys[i] \in Parts
  BY <1>2, StrKeysAre
<1>4. ASSUME NEW i \in 2..Len(StrKeys)
      PROVE  i - 1 \in 1..Len(StrKeys) /\ i \in 1..Len(StrKeys)
  BY StrKeysAre
<1>5. CASE NextIndex(part, key)
  BY <1>3, <1>4, <1>5, StrKeysAre DEF NextIndex
<1>6. CASE part \in LastParts /\ key \in {"msgctxt ", "msgid "}
  BY <1>1, <1>2, <1>6
<1>7. CASE part = "msgid_plural " /\ key = StrKeys[1]
  <2>1. StrKeys[1] \in Keywords /\ StrKeys[1] \in Parts
    BY <1>3, StrKeysAre
  <2>2. part \in Parts
    BY <1>7 DEF Parts
  <2> QED BY <1>7, <2>1, <2>2
<1>8. CASE \/ part = "msgctxt " /\ key = "msgid "
           \/ part = "msgid " /\ key \in {"msgstr ", "msgid_plural "}
  <2>1. part \in Parts
    BY <1>8 DEF Parts
  <2> QED BY <1>1, <1>8, <2>1
<1> QED BY <1>5, <1>6, <1>7, <1>8, OrderIs

\* An item leads to another place of the file.
LEMMA ItemFacts ==
    ASSUME NEW f \in Seq(STRING), NEW p \in 1..Len(f), NEW part \in Parts
    PROVE  /\ Item(f, p, part)[1] \in {Po!Fail} \cup (p + 1)..(Len(f) + 2)
           /\ Item(f, p, part)[2] \in Parts
           /\ Item(f, p, part) = <<Item(f, p, part)[1], Item(f, p, part)[2]>>
<1>1. p \in Po!Positions(f) /\ Len(f) \in Nat /\ DOMAIN f = 1..Len(f)
  BY Positive
<1>2. CASE <<part, f[p]>> \in Order
  <2>1. PICK e : e = IF Po!At(f, p + 1, "\"") THEN Behind(f, p + 1) ELSE Po!Fail
    OBVIOUS
  <2>2. e \in {Po!Fail} \cup (p + 1)..(Len(f) + 2)
    <3>1. CASE Po!At(f, p + 1, "\"")
      <4>1. p + 1 \in 1..Len(f)
        BY <1>1, <3>1 DEF Po!At
      <4>2. e = Behind(f, p + 1)
        BY <2>1, <3>1
      <4>3. e \in {Po!Fail} \cup ((p + 1) + 1)..(Len(f) + 2)
        BY <4>1, <4>2, BehindFacts
      <4> QED BY <1>1, <4>3
    <3>2. CASE ~Po!At(f, p + 1, "\"")
      BY <2>1, <3>2
    <3> QED BY <3>1, <3>2
  <2>3. f[p] \in Parts
    BY <1>2, OrderFacts
  <2>4. Item(f, p, part) = <<e, f[p]>>
    BY <1>2, <2>1 DEF Item
  <2> QED BY <2>2, <2>3, <2>4
<1>3. CASE <<part, f[p]>> \notin Order
  <2>1. PICK e : e = IF f[p] = "\"" /\ part = "" THEN Po!Fail ELSE Behind(f, p)
    OBVIOUS
  <2>2. e \in {Po!Fail} \cup (p + 1)..(Len(f) + 2)
    BY <2>1, BehindFacts
  <2>3. Item(f, p, part) = <<e, part>>
    BY <1>3, <2>1 DEF Item
  <2> QED BY <2>2, <2>3
<1> QED BY <1>2, <1>3

\* The function of InOrder: from p on, the file is in order behind keyword part.
ReadOn(f, p, part) ==
    LET rest[at \in (0..(Len(f) + 2)) \X Parts] ==
          IF at[1] > Len(f) THEN at[2] \in LastParts
          ELSE at[1] # Po!Fail /\ rest[Item(f, at[1], at[2])]
    IN  rest[<<p, part>>]

\* It is what its definition says.
LEMMA ReadOnUnfolds ==
    ASSUME NEW f \in Seq(STRING), NEW p \in 0..(Len(f) + 2), NEW part \in Parts
    PROVE  ReadOn(f, p, part) =
             IF p > Len(f) THEN part \in LastParts
             ELSE p # Po!Fail /\ ReadOn(f, Item(f, p, part)[1], Item(f, p, part)[2])
<1> DEFINE n == Len(f) + 2
           D == (0..n) \X Parts
           V == BOOLEAN
           Past(at) == at[1] > Len(f)
           Last(at) == at[2] \in LastParts
           Ahead(at) == Item(f, at[1], at[2])
           stop == {at \in D : Past(at) \/ at[1] = Po!Fail}
           base == [at \in D |-> Past(at) /\ Last(at)]
           jump == [at \in D |-> IF at \in stop THEN at ELSE Ahead(at)]
           step == [at \in D |-> [v \in V |-> v]]
           rank == [at \in D |-> IF at[1] = Po!Fail THEN 0 ELSE n - at[1]]
           Body(g) == g = [at \in D |-> IF Past(at) THEN Last(at)
                                        ELSE at[1] # Po!Fail /\ g[Ahead(at)]]
           rest == CHOOSE g : Body(g)
<1>0. ASSUME NEW q, NEW k PROVE ReadOn(f, q, k) = rest[<<q, k>>]
  BY DEF ReadOn
<1>a. n \in Nat /\ Len(f) \in Nat /\ <<p, part>> \in D /\ Po!Fail = 0
  BY Positive DEF Po!Fail
<1>1. ASSUME NEW at \in D, at \notin stop
      PROVE  /\ at[1] \in 1..Len(f) /\ Ahead(at) \in D
             /\ Ahead(at)[1] = Po!Fail \/ Ahead(at)[1] \in (at[1] + 1)..n
  <2>1. at[1] \in 1..Len(f) /\ at[2] \in Parts
    BY <1>1, <1>a
  <2>2. PICK q, k : q = Ahead(at)[1] /\ k = Ahead(at)[2]
    OBVIOUS
  <2>3. q \in {Po!Fail} \cup (at[1] + 1)..n /\ k \in Parts /\ Ahead(at) = <<q, k>>
    BY <2>1, <2>2, ItemFacts
  <2>4. Ahead(at) \in D
    BY <1>a, <2>1, <2>3
  <2> HIDE DEF Ahead
  <2> QED BY <2>1, <2>2, <2>3, <2>4
<1>2. Descends(D, V, stop, base, jump, step, rank, n)
  <2>1. rank \in [D -> 0..n] /\ stop \in SUBSET D
    BY <1>a
  <2>2. base \in [D -> V] /\ step \in [D -> [V -> V]]
    OBVIOUS
  <2>3. jump \in [D -> D] /\ \A at \in D \ stop : rank[jump[at]] < rank[at]
    <3>1. ASSUME NEW at \in D
          PROVE  jump[at] \in D /\ (at \notin stop => rank[jump[at]] < rank[at])
      <4>1. CASE at \in stop
        BY <4>1
      <4>2. CASE at \notin stop
        <5>1. PICK b \in D : b = Ahead(at)
          <6> HIDE DEF D, Ahead, stop
          <6> QED BY <1>1, <4>2
        <5>2. at[1] \in 1..Len(f) /\ (b[1] = Po!Fail \/ b[1] \in (at[1] + 1)..n)
          <6> HIDE DEF D, Ahead, stop
          <6> QED BY <1>1, <4>2, <5>1
        <5>3. jump[at] = b
          <6> HIDE DEF D, Ahead, stop
          <6> QED BY <4>2, <5>1
        <5>4. rank[at] = n - at[1] /\ rank[b] = IF b[1] = Po!Fail THEN 0 ELSE n - b[1]
          BY <1>a, <5>2
        <5> HIDE DEF jump, rank, D
        <5> QED BY <1>a, <5>1, <5>2, <5>3, <5>4
      <4> QED BY <4>1, <4>2
    <3>2. jump = [at \in D |-> jump[at]]
      OBVIOUS
    <3> HIDE DEF jump, D, rank, stop
    <3> QED BY <3>1, <3>2
  <2> HIDE DEF D, V, stop, base, jump, step, rank
  <2> QED BY <1>a, <2>1, <2>2, <2>3 DEF Descends
<1>3. \E g : Body(g)
  <2>1. PICK g \in [D -> V] : Solves(g, D, stop, base, jump, step)
    <3> HIDE DEF D, V, stop, base, jump, step, rank
    <3> QED BY <1>2, Recursion
  <2>2. ASSUME NEW at \in D
        PROVE  g[at] = IF Past(at) THEN Last(at) ELSE at[1] # Po!Fail /\ g[Ahead(at)]
    <3>1. g[at] = IF at \in stop THEN base[at] ELSE step[at][g[jump[at]]]
      BY <2>1 DEF Solves
    <3>2. CASE Past(at)
      <4>1. at \in stop /\ base[at] = Last(at)
        BY <3>2
      <4> HIDE DEF Past, Last, stop, base
      <4> QED BY <3>1, <3>2, <4>1
    <3>3. CASE ~Past(at) /\ at[1] = Po!Fail
      <4>1. at \in stop /\ base[at] = FALSE
        BY <3>3
      <4> HIDE DEF Past, Last, stop, base
      <4> QED BY <3>1, <3>3, <4>1
    <3>4. CASE ~Past(at) /\ at[1] # Po!Fail
      <4>1. at \notin stop
        BY <3>4
      <4>2. jump[at] = Ahead(at) /\ Ahead(at) \in D
        BY <1>1, <4>1
      <4>3. PICK v \in BOOLEAN : v = g[Ahead(at)]
        <5> HIDE DEF D, Ahead
        <5> QED BY <2>1, <4>2
      <4>4. step[at][v] = v
        <5> HIDE DEF D
        <5> QED OBVIOUS
      <4> HIDE DEF Past, Last, stop, base, step, jump, Ahead
      <4> QED BY <3>1, <3>4, <4>1, <4>2, <4>3, <4>4
    <3> HIDE DEF Past, Last, stop, base, step, jump, Ahead
    <3> QED BY <3>2, <3>3, <3>4
  <2> HIDE DEF D, V, Past, Last, Ahead
  <2> QED BY <2>1, <2>2
<1>4. Body(rest)
  <2> HIDE DEF Body
  <2> QED BY <1>3
<1>5. rest[<<p, part>>] = IF Past(<<p, part>>) THEN Last(<<p, part>>)
                          ELSE <<p, part>>[1] # Po!Fail /\ rest[Ahead(<<p, part>>)]
  <2> HIDE DEF D, rest, Past, Last, Ahead
  <2> QED BY <1>4, <1>a
<1>6. /\ Past(<<p, part>>) = (p > Len(f)) /\ Last(<<p, part>>) = (part \in LastParts)
      /\ <<p, part>>[1] = p /\ Ahead(<<p, part>>) = Item(f, p, part)
  OBVIOUS
<1>7. CASE p > Len(f)
  <2> HIDE DEF D, rest, Past, Last, Ahead
  <2> QED BY <1>0, <1>5, <1>6, <1>7
<1>8. CASE ~(p > Len(f)) /\ p = Po!Fail
  <2> HIDE DEF D, rest, Past, Last, Ahead
  <2> QED BY <1>0, <1>5, <1>6, <1>8
<1>9. CASE ~(p > Len(f)) /\ p # Po!Fail
  <2>1. p \in 1..Len(f)
    BY <1>a, <1>9
  <2>2. PICK q, k : Item(f, p, part) = <<q, k>> /\ q = Item(f, p, part)[1] /\ k = Item(f, p, part)[2]
    BY <2>1, ItemFacts
  <2> HIDE DEF D, rest, Past, Last, Ahead
  <2>3. rest[Ahead(<<p, part>>)] = ReadOn(f, q, k)
    BY <1>0, <1>6, <2>2
  <2>4. ReadOn(f, p, part) = (p # Po!Fail /\ ReadOn(f, q, k))
    BY <1>0, <1>5, <1>6, <1>9, <2>3
  <2> QED BY <1>9, <2>2, <2>4
<1> QED BY <1>7, <1>8, <1>9

\* A line that is skipped begins with a comment or white, and is an item.
LEMMA LineIsItem ==
    ASSUME NEW f \in Seq(STRING), NEW p \in Po!Positions(f), Po!SkippedLine(f, p) # Po!Fail
    PROVE  /\ p \in 1..Len(f)
           /\ f[p] = "#" \/ f[p] \in White
           /\ Behind(f, p) = Po!SkippedLine(f, p)
           /\ Po!SkippedLine(f, p) \in Po!Positions(f)
<1>1. Po!SkippedLine(f, p) \in Later(f, p)
  BY SkippedLineFacts
<1>2. Len(f) \in Nat /\ Ends(f) = Len(f) + 1 /\ Po!Positions(f) = 1..Ends(f) /\ DOMAIN f = 1..Len(f)
  BY Positive
<1>3. Po!SkippedLine(f, p) \in Po!Positions(f) /\ p \in 1..Len(f)
  BY <1>1, <1>2 DEF Later
<1>4. CASE f[p] = "#"
  <2>1. Po!SkippedLine(f, p) = Po!EndLine(f, Po!LineEnd(f, p))
    BY <1>2, <1>3, <1>4 DEF Po!SkippedLine, Po!CommentLine, Po!At
  <2>2. Po!SkippedLine(f, p) = Po!LineEnd(f, p) + 1
    BY <2>1 DEF Po!EndLine
  <2> QED BY <1>3, <1>4, <2>2, BehindIs
<1>5. CASE f[p] # "#"
  <2>1. PICK w : w = Po!WhiteLine(f, p)
    OBVIOUS
  <2>2. Po!SkippedLine(f, p) = Po!EndLine(f, w)
    BY <1>5, <2>1 DEF Po!SkippedLine, Po!At
  <2>3. w \in 1..Len(f) /\ f[w] = "\n"
    BY <1>2, <2>2 DEF Po!EndLine, Po!At
  <2>4. w \in p..Ends(f) /\ \A r \in p..(w - 1) : f[r] \in {" ", "\t", "\r"}
    BY <2>1, WhiteLineFacts
  <2>5. f[p] \in White
    <3>1. CASE w = p
      BY <2>3, <3>1 DEF White
    <3>2. CASE w # p
      <4>1. p \in p..(w - 1)
        <5>1. p <= w /\ p \in Nat /\ w \in Nat
          <6>1. w \in p..Ends(f) /\ w \in 1..Len(f) /\ Len(f) \in Nat /\ p \in 1..Len(f)
            BY <1>2, <1>3, <2>3, <2>4
          <6> QED BY <6>1
        <5> QED BY <3>2, <5>1
      <4> QED BY <2>4, <4>1 DEF White
    <3> QED BY <3>1, <3>2
  <2>6. f[p] # Quote
    BY <2>5, QuoteFacts
  <2> QED BY <1>3, <1>5, <2>1, <2>2, <2>5, <2>6, BehindIs
<1> QED BY <1>4, <1>5

\* Behind it, the file is in order as before.
LEMMA SkippedReads ==
    ASSUME NEW f \in Seq(STRING), NEW p \in Po!Positions(f), NEW part \in Parts,
           ReadOn(f, p, part), Po!SkippedLine(f, p) # Po!Fail
    PROVE  ReadOn(f, Po!SkippedLine(f, p), part)
<1>1. PICK n : n = Po!SkippedLine(f, p)
  OBVIOUS
<1>2. /\ p \in 1..Len(f) /\ n = Behind(f, p)
      /\ f[p] = "#" \/ f[p] \in White
  BY <1>1, LineIsItem
<1>3. f[p] \notin Keywords /\ f[p] # "\""
  BY <1>2, KeywordsAre, QuoteFacts DEF Quote
<1>4. <<part, f[p]>> \notin Order
  BY <1>3, OrderFacts
<1>5. Item(f, p, part) = <<n, part>>
  BY <1>2, <1>3, <1>4 DEF Item
<1>6. p \in 0..(Len(f) + 2) /\ ~(p > Len(f))
  BY <1>2, Positive
<1>7. ReadOn(f, Item(f, p, part)[1], Item(f, p, part)[2])
  BY <1>6, ReadOnUnfolds
<1> QED BY <1>1, <1>5, <1>7

\* A piece of a string behind keyword part, with the rest of the file in order.
Piece(f, p, part) ==
    /\ Po!SingleLineString(f, p).next # Po!Fail
    /\ ReadOn(f, Po!SingleLineString(f, p).next, part)

\* What can stand where no line can be skipped: the last comment or the end, a
\* further piece of a string, or the next keyword.
Exhausted(f, p, part) == part \in LastParts /\ (p > Len(f) \/ f[p] = "#")
Continued(f, p, part) == p <= Len(f) /\ f[p] = Quote /\ part # "" /\ Piece(f, p, part)
Begun(f, p, part) == p <= Len(f) /\ <<part, f[p]>> \in Order /\ Piece(f, p + 1, f[p])

\* Nothing else can.
LEMMA StopsAt ==
    ASSUME NEW f \in Seq(STRING), NEW p \in Po!Positions(f), NEW part \in Parts,
           ReadOn(f, p, part), Po!SkippedLine(f, p) = Po!Fail
    PROVE  Exhausted(f, p, part) \/ Continued(f, p, part) \/ Begun(f, p, part)
<1>1. Len(f) \in Nat /\ Ends(f) = Len(f) + 1 /\ Po!Positions(f) = 1..Ends(f)
      /\ DOMAIN f = 1..Len(f) /\ p \in 0..(Len(f) + 2) /\ Po!Fail = 0
  BY Positive DEF Po!Fail
<1>2. CASE p > Len(f)
  <2>1. part \in LastParts
    BY <1>1, <1>2, ReadOnUnfolds
  <2> QED BY <1>2, <2>1 DEF Exhausted
<1>3. CASE ~(p > Len(f))
  <2>0. p \in 1..Len(f) /\ p <= Len(f)
    BY <1>1, <1>3
  <2>1. ASSUME NEW n, NEW k, Item(f, p, part) = <<n, k>>
        PROVE  ReadOn(f, n, k) /\ n \in 0..(Len(f) + 2) /\ k \in Parts /\ n # Po!Fail
    <3>0. ReadOn(f, Item(f, p, part)[1], Item(f, p, part)[2])
      BY <1>1, <1>3, ReadOnUnfolds
    <3>1. ReadOn(f, n, k)
      BY <2>1, <3>0
    <3>2. n \in {Po!Fail} \cup (p + 1)..(Len(f) + 2) /\ k \in Parts
      BY <2>0, <2>1, ItemFacts
    <3>3. n \in 0..(Len(f) + 2)
      BY <1>1, <3>2
    <3>4. n # Po!Fail
      <4>1. ReadOn(f, 0, k) = FALSE
        <5>1. 0 \in 0..(Len(f) + 2) /\ ~(0 > Len(f))
          BY <1>1
        <5>2. ReadOn(f, 0, k) = (IF 0 > Len(f) THEN k \in LastParts
                                 ELSE 0 # Po!Fail /\ ReadOn(f, Item(f, 0, k)[1], Item(f, 0, k)[2]))
          BY <3>2, <5>1, ReadOnUnfolds
        <5> QED BY <1>1, <5>1, <5>2
      <4> QED BY <1>1, <3>1, <4>1
    <3> QED BY <3>1, <3>2, <3>3, <3>4
  <2>2. CASE <<part, f[p]>> \in Order
    <3>1. PICK n : n = IF Po!At(f, p + 1, "\"") THEN Behind(f, p + 1) ELSE Po!Fail
      OBVIOUS
    <3>2. Item(f, p, part) = <<n, f[p]>>
      BY <2>2, <3>1 DEF Item
    <3>3. ReadOn(f, n, f[p]) /\ n # Po!Fail
      BY <2>1, <3>2
    <3>4. p + 1 \in 1..Len(f) /\ f[p + 1] = Quote /\ n = Behind(f, p + 1)
      BY <1>1, <3>1, <3>3 DEF Po!At, Quote
    <3>5. n = Po!SingleLineString(f, p + 1).next
      BY <3>4, QuoteFacts, BehindIs
    <3> QED BY <2>0, <2>2, <3>3, <3>5 DEF Begun, Piece
  <2>3. CASE <<part, f[p]>> \notin Order /\ f[p] = Quote
    <3>1. PICK n : n = IF f[p] = "\"" /\ part = "" THEN Po!Fail ELSE Behind(f, p)
      OBVIOUS
    <3>2. Item(f, p, part) = <<n, part>>
      BY <2>3, <3>1 DEF Item
    <3>3. ReadOn(f, n, part) /\ n # Po!Fail
      BY <2>1, <3>2
    <3>4. part # "" /\ n = Behind(f, p)
      BY <2>3, <3>1, <3>3 DEF Quote
    <3>5. n = Po!SingleLineString(f, p).next
      BY <2>0, <2>3, <3>4, QuoteFacts, BehindIs
    <3> QED BY <2>0, <2>3, <3>3, <3>4, <3>5 DEF Continued, Piece
  <2>4. CASE <<part, f[p]>> \notin Order /\ f[p] # Quote
    <3>1. PICK n : n = Behind(f, p)
      OBVIOUS
    <3>2. Item(f, p, part) = <<n, part>>
      BY <2>4, <3>1 DEF Item, Quote
    <3>3. ReadOn(f, n, part) /\ n # Po!Fail /\ n \in 0..(Len(f) + 2)
      BY <2>1, <3>2
    <3>4. CASE f[p] = "#"
      <4>1. PICK e : e = Po!LineEnd(f, p)
        OBVIOUS
      <4>2. e \in p..Ends(f) /\ (e <= Len(f) => f[e] = "\n")
        BY <4>1, LineEndFacts
      <4>3. Po!EndLine(f, e) = Po!Fail
        BY <1>1, <2>0, <3>4, <4>1 DEF Po!SkippedLine, Po!CommentLine, Po!At
      <4>4. e > Len(f)
        <5>1. CASE e <= Len(f)
          <6>1. Po!EndLine(f, e) = e + 1 /\ e + 1 # Po!Fail
            BY <1>1, <2>0, <4>2, <5>1 DEF Po!EndLine, Po!At
          <6> QED BY <4>3, <6>1
        <5> QED BY <1>1, <4>2, <5>1
      <4>5. n = e + 1
        BY <2>0, <3>1, <3>4, <4>1, BehindIs
      <4>6. n > Len(f)
        BY <1>1, <4>2, <4>4, <4>5
      <4>7. part \in LastParts
        BY <3>3, <4>6, ReadOnUnfolds
      <4> QED BY <3>4, <4>7 DEF Exhausted
    <3>5. CASE f[p] # "#"
      <4>1. n = Po!EndLine(f, Po!WhiteLine(f, p))
        BY <2>0, <2>4, <3>1, <3>5, BehindIs
      <4>2. Po!SkippedLine(f, p) = Po!EndLine(f, Po!WhiteLine(f, p))
        BY <3>5 DEF Po!SkippedLine, Po!At
      <4> QED BY <3>3, <4>1, <4>2
    <3> QED BY <3>4, <3>5
  <2> QED BY <2>2, <2>3, <2>4
<1> QED BY <1>2, <1>3

\* Where no more lines can be skipped, the file is still in order.
LEMMA BlockReads ==
    ASSUME NEW f \in Seq(STRING), NEW p \in Po!Positions(f), NEW part \in Parts, ReadOn(f, p, part),
           NEW q, q = Po!SkippedBlock(f, p)
    PROVE  /\ q \in Po!Positions(f) /\ ReadOn(f, q, part)
           /\ Po!SkippedLine(f, q) = Po!Fail
           /\ Exhausted(f, q, part) \/ Continued(f, q, part) \/ Begun(f, q, part)
<1> DEFINE jump == [r \in Po!Positions(f) |-> Po!SkippedLine(f, r)]
           Good == {r \in Po!Positions(f) :
                      ReadOn(f, r, part) => ReadOn(f, Po!SkippedBlock(f, r), part)}
<1>1. \A r \in Po!Positions(f) : jump[r] \in Later(f, r)
  BY SkippedLineFacts
<1>2. ASSUME NEW r \in Po!Positions(f), jump[r] = Po!Fail \/ jump[r] \in Good
      PROVE  r \in Good
  BY <1>2, SkippedBlockUnfolds, SkippedReads
<1>3. Good = Po!Positions(f)
  <2> HIDE DEF jump, Good
  <2>1. Good \in SUBSET Po!Positions(f)
    BY DEF Good
  <2> QED BY <1>1, <1>2, <2>1, FromTheEnd
<1>4. ReadOn(f, q, part) /\ Po!SkippedLine(f, q) = Po!Fail
  BY <1>3, SkippedBlockSkipped
<1>5. q \in Po!Positions(f)
  BY SkippedBlockFacts, Positive
<1> QED BY <1>4, <1>5, StopsAt

\* What can follow a string that is complete.
Follows(f, q, part) == Exhausted(f, q, part) \/ Begun(f, q, part)

\* A position behind keyword part and its string, in a file in order.
Waits(f, p, part) ==
    /\ p \in Po!Positions(f) /\ part \in Parts
    /\ ReadOn(f, p, part)
    /\ Follows(f, Po!SkippedBlock(f, p), part)

\* It stays one when a line is skipped.
LEMMA WaitsOn ==
    ASSUME NEW f \in Seq(STRING), NEW p, NEW part, Waits(f, p, part), Po!SkippedLine(f, p) # Po!Fail
    PROVE  Waits(f, Po!SkippedLine(f, p), part)
<1>1. p \in Po!Positions(f) /\ part \in Parts /\ ReadOn(f, p, part)
      /\ Follows(f, Po!SkippedBlock(f, p), part)
  BY DEF Waits
<1>2. Po!SkippedLine(f, p) \in Po!Positions(f) /\ ReadOn(f, Po!SkippedLine(f, p), part)
  BY <1>1, LineIsItem, SkippedReads
<1>3. Po!SkippedBlock(f, p) = Po!SkippedBlock(f, Po!SkippedLine(f, p))
  BY <1>1, SkippedBlockUnfolds
<1> QED BY <1>1, <1>2, <1>3 DEF Waits

\* What follows a complete string is not a piece of one.
LEMMA NoPieceFollows ==
    ASSUME NEW f \in Seq(STRING), NEW q \in Po!Positions(f), NEW part, Follows(f, q, part)
    PROVE  Po!SingleLineString(f, q).next = Po!Fail
<1>1. CASE Po!At(f, q, Quote)
  <2>1. q <= Len(f) /\ f[q] = Quote
    BY <1>1, Positive DEF Po!At
  <2>2. f[q] # "#" /\ f[q] \notin Keywords /\ ~(q > Len(f))
    BY <2>1, QuoteFacts, KeywordsAre, PlacesFacts
  <2> QED BY <2>2, OrderFacts DEF Follows, Exhausted, Begun
<1>2. CASE ~Po!At(f, q, Quote)
  <2>1. Po!SingleLineString(f, q) = Po!Rejected
    BY <1>2 DEF Po!SingleLineString, Quote
  <2> QED BY <2>1 DEF Po!Rejected
<1> QED BY <1>1, <1>2

\* A string is read, with all its pieces, and what can follow it does.
LEMMA StringReads ==
    ASSUME NEW f \in Seq(STRING), NEW p \in Po!Positions(f), NEW part \in Parts, Piece(f, p, part),
           NEW r, r = Po!MultilineString(f, p)
    PROVE  r.next # Po!Fail /\ Waits(f, r.next, part)
<1> DEFINE jump == [q \in Po!Positions(f) |-> NextPiece(f, q)]
           Reads(q) == Piece(f, q, part) =>
                         /\ Po!MultilineString(f, q).next # Po!Fail
                         /\ Waits(f, Po!MultilineString(f, q).next, part)
           Good == {q \in Po!Positions(f) : Reads(q)}
<1>1. \A q \in Po!Positions(f) : jump[q] \in Later(f, q)
  BY MultilineStringUnfolds
<1>2. ASSUME NEW q \in Po!Positions(f), jump[q] = Po!Fail \/ jump[q] \in Good
      PROVE  q \in Good
  <2> SUFFICES ASSUME Piece(f, q, part)
               PROVE  /\ Po!MultilineString(f, q).next # Po!Fail
                      /\ Waits(f, Po!MultilineString(f, q).next, part)
    OBVIOUS
  <2>1. PICK first : first = Po!SingleLineString(f, q)
    OBVIOUS
  <2>2. first.next # Po!Fail /\ ReadOn(f, first.next, part)
    BY <2>1 DEF Piece
  <2>3. PICK m : m = NextPiece(f, q)
    OBVIOUS
  <2>4. /\ first.next \in Po!Positions(f)
        /\ m = Po!SkippedBlock(f, first.next) /\ m \in Po!Positions(f) /\ m # Po!Fail
    BY <2>1, <2>2, <2>3, PieceFacts, Positive DEF NextPiece, Po!Fail
  <2>5. PICK v : v = Po!MultilineString(f, m)
    OBVIOUS
  <2>6. Po!MultilineString(f, q) = Joined(first, v)
    BY <2>1, <2>2, <2>3, <2>5, MultilineStringUnfolds
  <2>7. Follows(f, m, part) \/ Continued(f, m, part)
    BY <2>2, <2>4, BlockReads DEF Follows
  <2>8. CASE Follows(f, m, part)
    <3>1. Po!SingleLineString(f, m).next = Po!Fail
      BY <2>4, <2>8, NoPieceFollows
    <3>2. v.next = Po!Fail
      BY <2>4, <2>5, <3>1, MultilineStringUnfolds DEF Po!Rejected
    <3>3. Po!MultilineString(f, q) = first
      BY <2>6, <3>2 DEF Joined
    <3>4. Waits(f, first.next, part)
      BY <2>2, <2>4, <2>8 DEF Waits
    <3> QED BY <2>2, <3>3, <3>4
  <2>9. CASE Continued(f, m, part)
    <3>1. Reads(m)
      <4> HIDE DEF Reads
      <4> QED BY <1>2, <2>3, <2>4
    <3>2. v.next # Po!Fail /\ Waits(f, v.next, part)
      BY <2>5, <2>9, <3>1 DEF Continued
    <3>3. PICK t : t = first.text \o v.text
      OBVIOUS
    <3>4. Po!MultilineString(f, q) = [next |-> v.next, text |-> t]
      BY <2>6, <3>2, <3>3 DEF Joined
    <3>5. Po!MultilineString(f, q).next = v.next
      BY <3>4
    <3> QED BY <3>2, <3>5
  <2> QED BY <2>7, <2>8, <2>9
<1>3. Good = Po!Positions(f)
  <2> HIDE DEF jump, Good
  <2>1. Good \in SUBSET Po!Positions(f)
    BY DEF Good
  <2> QED BY <1>1, <1>2, <2>1, FromTheEnd
<1> QED BY <1>3

\* The keyword at which the skipping of lines behind p stops.
KeyAfter(f, p, key) == Po!At(f, Po!SkippedBlock(f, p), key)

\* Of the rules for keywords, the one for the keyword that is there matches.
LEMMA KeywordReads ==
    ASSUME NEW f \in Seq(STRING), NEW p, NEW part, Waits(f, p, part), NEW key \in Keywords,
           NEW r, r = Po!Keyword(f, p, key)
    PROVE  /\ KeyAfter(f, p, key) => /\ <<part, key>> \in Order
                                     /\ r.next # Po!Fail /\ Waits(f, r.next, key)
                                     /\ r = Po!MultilineString(f, Po!SkippedBlock(f, p) + 1)
           /\ ~KeyAfter(f, p, key) => r.next = Po!Fail
<1>1. PICK q : q = Po!SkippedBlock(f, p)
  OBVIOUS
<1>2. p \in Po!Positions(f) /\ q \in Po!Positions(f) /\ Follows(f, q, part)
  BY <1>1, SkippedBlockFacts, Positive DEF Waits
<1>3. CASE KeyAfter(f, p, key)
  <2>1. q \in DOMAIN f /\ f[q] = key
    BY <1>1, <1>3 DEF KeyAfter, Po!At
  <2>2. q <= Len(f) /\ ~(q > Len(f)) /\ q + 1 \in Po!Positions(f)
    BY <1>2, <2>1, Positive
  <2>3. f[q] # "#"
    BY <2>1, KeywordsAre
  <2>4. Begun(f, q, part)
    BY <1>2, <2>2, <2>3 DEF Follows, Exhausted
  <2>5. <<part, key>> \in Order /\ Piece(f, q + 1, key) /\ key \in Parts
    BY <2>1, <2>4, OrderFacts DEF Begun
  <2>6. r = Po!MultilineString(f, q + 1)
    BY <1>1, <1>3 DEF Po!Keyword, KeyAfter
  <2> QED BY <1>1, <1>3, <2>2, <2>5, <2>6, StringReads
<1>4. CASE ~KeyAfter(f, p, key)
  BY <1>4 DEF Po!Keyword, KeyAfter, Po!Rejected
<1> QED BY <1>3, <1>4

\* Behind a keyword that cannot be the last, another one stands.
LEMMA KeyExpected ==
    ASSUME NEW f \in Seq(STRING), NEW p, NEW part, Waits(f, p, part),
           \/ part \notin LastParts
           \/ \E q \in DOMAIN f : q = Po!SkippedBlock(f, p) /\ f[q] # "#"
    PROVE  \E key \in Keywords : KeyAfter(f, p, key) /\ <<part, key>> \in Order
<1>1. PICK q : q = Po!SkippedBlock(f, p)
  OBVIOUS
<1>2. p \in Po!Positions(f) /\ q \in Po!Positions(f) /\ Follows(f, q, part)
  BY <1>1, SkippedBlockFacts, Positive DEF Waits
<1>3. q \in DOMAIN f => ~(q > Len(f))
  BY <1>2, Positive
<1>4. Begun(f, q, part)
  BY <1>1, <1>2, <1>3 DEF Follows, Exhausted
<1>5. f[q] \in Keywords /\ <<part, f[q]>> \in Order
  BY <1>4, OrderFacts DEF Begun
<1>6. q \in DOMAIN f
  BY <1>2, <1>4, Positive DEF Begun
<1> QED BY <1>1, <1>5, <1>6 DEF KeyAfter, Po!At

\* Which keyword may stand behind which.
LEMMA OrderBehind ==
    ASSUME NEW part, NEW key, <<part, key>> \in Order
    PROVE  /\ part = "msgctxt " => key = "msgid "
           /\ part = "msgid " => key \in {"msgstr ", "msgid_plural "}
           /\ part = "msgid_plural " => key = StrKeys[1]
           /\ part \in {"", "msgstr "} => key \in {"msgctxt ", "msgid "}
           /\ \A i \in 1..Len(StrKeys) : part = StrKeys[i] =>
                \/ key \in {"msgctxt ", "msgid "}
                \/ i < Len(StrKeys) /\ key = StrKeys[i + 1]
<1>1. \A t \in {"", "msgctxt ", "msgid ", "msgid_plural ", "msgstr "} : t \in Reserved
  BY DEF Reserved
<1>2. \A i \in 1..Len(StrKeys) :
        StrKeys[i] \notin {"", "msgctxt ", "msgid ", "msgid_plural ", "msgstr "}
  BY <1>1, StrKeysAre
<1>3. ASSUME NEW i \in 2..Len(StrKeys)
      PROVE  i - 1 \in 1..Len(StrKeys) /\ (i - 1) + 1 = i /\ i - 1 < Len(StrKeys)
  BY StrKeysAre
<1>4. part \in {"", "msgstr "} => key \in {"msgctxt ", "msgid "}
  BY <1>2, <1>3, NotLast, OrderIs DEF NextIndex
<1>5. /\ part = "msgctxt " => key = "msgid "
      /\ part = "msgid " => key \in {"msgstr ", "msgid_plural "}
      /\ part = "msgid_plural " => key = StrKeys[1]
  BY <1>2, <1>3, NotLast, OrderIs DEF NextIndex
<1>6. ASSUME NEW i \in 1..Len(StrKeys), part = StrKeys[i]
      PROVE  key \in {"msgctxt ", "msgid "} \/ (i < Len(StrKeys) /\ key = StrKeys[i + 1])
  <2>1. CASE NextIndex(part, key)
    <3>1. PICK j \in 2..Len(StrKeys) : part = StrKeys[j - 1] /\ key = StrKeys[j]
      BY <2>1 DEF NextIndex
    <3>2. j - 1 = i
      <4>1. StrKeys \in Seq(STRING)
        BY KeysAssumption
      <4>2. DOMAIN StrKeys = 1..Len(StrKeys)
        BY <4>1
      <4>3. j - 1 \in DOMAIN StrKeys /\ i \in DOMAIN StrKeys
        BY <1>3, <4>2
      <4> QED BY <1>6, <3>1, <4>3, KeysAssumption
    <3> QED BY <1>3, <3>1, <3>2
  <2>2. CASE ~NextIndex(part, key)
    <3>1. part \notin {"msgctxt ", "msgid ", "msgid_plural "}
      BY <1>2, <1>6
    <3> QED BY <2>2, <3>1, OrderIs
  <2> QED BY <2>1, <2>2
<1> QED BY <1>4, <1>5, <1>6

\* The keywords that a message begins with.
Openers == {"msgctxt ", "msgid "}

\* A position behind a complete message, in a file in order.
Between(f, p) ==
    /\ \E part \in LastParts : Waits(f, p, part)
    /\ \A key \in Keywords : KeyAfter(f, p, key) => key \in Openers

\* It stays one when a line is skipped.
LEMMA BetweenOn ==
    ASSUME NEW f \in Seq(STRING), NEW p \in Po!Positions(f), Between(f, p), NEW n,
           n = Po!SkippedLine(f, p), n # Po!Fail
    PROVE  Between(f, n) /\ n \in Po!Positions(f)
<1>1. PICK part \in LastParts : Waits(f, p, part)
  BY DEF Between
<1>2. Waits(f, n, part)
  BY <1>1, WaitsOn
<1>3. Po!SkippedBlock(f, p) = Po!SkippedBlock(f, n)
  BY SkippedBlockUnfolds
<1> QED BY <1>2, <1>3, LineIsItem DEF Between, KeyAfter

\* The strings of a plural message are read, as far as they go.
LEMMA StrsRead ==
    ASSUME NEW f \in Seq(STRING), NEW p, NEW part, Waits(f, p, part),
           NEW i \in 1..Len(StrKeys), KeyAfter(f, p, StrKeys[i]), NEW r, r = StrsFrom(f, p, i)
    PROVE  r.next # Po!Fail /\ Between(f, r.next)
<1> DEFINE n == Len(StrKeys)
           Reads(j) == \A q, k : Waits(f, q, k) /\ KeyAfter(f, q, StrKeys[j]) =>
                         /\ StrsFrom(f, q, j).next # Po!Fail
                         /\ Between(f, StrsFrom(f, q, j).next)
           rank == [j \in 1..n |-> n - j]
           Good == {j \in 1..n : Reads(j)}
<1>a. n \in Nat
  BY StrKeysAre
<1> HIDE DEF n
<1>1. ASSUME NEW j \in 1..n, j < n => Reads(j + 1)
      PROVE  Reads(j)
  <2> SUFFICES ASSUME NEW q, NEW k, Waits(f, q, k), KeyAfter(f, q, StrKeys[j])
               PROVE  /\ StrsFrom(f, q, j).next # Po!Fail
                      /\ Between(f, StrsFrom(f, q, j).next)
    OBVIOUS
  <2>0. /\ j \in 1..(Len(StrKeys) + 1) /\ j + 1 \in 1..(Len(StrKeys) + 1)
        /\ ~(j > Len(StrKeys)) /\ (j + 1 > Len(StrKeys) <=> ~(j < n))
        /\ j < n => j + 1 \in 1..n
    BY <1>a DEF n
  <2>1. PICK key \in Keywords : key = StrKeys[j]
    BY StrKeysAre DEF n
  <2>2. PICK first : first = Po!Keyword(f, q, key)
    OBVIOUS
  <2>3. first.next # Po!Fail /\ Waits(f, first.next, key)
    BY <2>1, <2>2, KeywordReads
  <2>4. PICK rest : rest = StrsFrom(f, first.next, j + 1)
    OBVIOUS
  <2>5. q \in Po!Positions(f) /\ first.next \in Po!Positions(f)
    BY <2>3 DEF Waits
  <2>6. StrsFrom(f, q, j) = Po!Then(first, rest)
    BY <2>0, <2>1, <2>2, <2>3, <2>4, <2>5, StrsFromUnfolds
  <2>7. CASE j < n /\ KeyAfter(f, first.next, StrKeys[j + 1])
    <3>1. rest.next # Po!Fail /\ Between(f, rest.next)
      BY <1>1, <2>3, <2>4, <2>7
    <3>2. PICK strings : strings = <<first.text>> \o rest.strings
      OBVIOUS
    <3>3. StrsFrom(f, q, j) = [next |-> rest.next, strings |-> strings]
      BY <2>6, <3>1, <3>2 DEF Po!Then
    <3>4. StrsFrom(f, q, j).next = rest.next
      BY <3>3
    <3> QED BY <3>1, <3>4
  <2>8. CASE ~(j < n /\ KeyAfter(f, first.next, StrKeys[j + 1]))
    <3>1. PICK second : second = Po!Keyword(f, first.next, StrKeys[j + 1])
      OBVIOUS
    <3>2. j < n => second.next = Po!Fail
      <4>0. SUFFICES ASSUME j < n
                     PROVE  second.next = Po!Fail
        OBVIOUS
      <4>1. PICK other \in Keywords : other = StrKeys[j + 1]
        BY <2>0, <4>0, StrKeysAre DEF n
      <4> QED BY <2>3, <2>8, <3>1, <4>0, <4>1, KeywordReads
    <3>3. rest = Po!Rejected
      BY <2>0, <2>4, <2>5, <3>1, <3>2, StrsFromUnfolds
    <3>4. StrsFrom(f, q, j) = [next |-> first.next, strings |-> <<first.text>>]
      BY <2>6, <3>3 DEF Po!Then, Po!Rejected
    <3>5. StrsFrom(f, q, j).next = first.next
      BY <3>4
    <3>6. key \in LastParts
      BY <2>1, StrKeysAre DEF n
    <3>7. ASSUME NEW other \in Keywords, KeyAfter(f, first.next, other)
          PROVE  other \in Openers
      <4>1. PICK t : t = Po!Keyword(f, first.next, other)
        OBVIOUS
      <4>2. <<key, other>> \in Order
        BY <2>3, <3>7, <4>1, KeywordReads
      <4>3. other \in {"msgctxt ", "msgid "} \/ (j < n /\ other = StrKeys[j + 1])
        BY <2>1, <4>2, OrderBehind DEF n
      <4> QED BY <2>8, <3>7, <4>3 DEF Openers
    <3> QED BY <2>3, <3>5, <3>6, <3>7 DEF Between
  <2> QED BY <2>7, <2>8
<1>2. ASSUME NEW j \in 1..n, \A e \in 1..n : rank[e] < rank[j] => e \in Good
      PROVE  j \in Good
  <2>1. CASE j < n
    <3>1. j + 1 \in 1..n /\ rank[j + 1] = n - (j + 1) /\ rank[j] = n - j
      BY <1>a, <2>1
    <3>2. rank[j + 1] < rank[j]
      BY <1>a, <3>1
    <3>3. Reads(j + 1)
      BY <1>2, <3>1, <3>2
    <3> HIDE DEF Reads
    <3> QED BY <1>1, <3>3
  <2>2. CASE ~(j < n)
    <3> HIDE DEF Reads
    <3> QED BY <1>1, <2>2
  <2> QED BY <2>1, <2>2
<1>3. Good = 1..n
  <2>1. Good \subseteq 1..n /\ rank \in [1..n -> Nat]
    BY <1>a
  <2> HIDE DEF Good, rank
  <2>2. Inherits(Good, 1..n, rank)
    BY <1>2, <2>1 DEF Inherits
  <2> QED BY <2>2, ByRank
<1>4. Reads(i)
  BY <1>3 DEF n
<1> QED BY <1>4

\* Behind the msgid of a message come its translations, all of them.
LEMMA TranslationsRead ==
    ASSUME NEW f \in Seq(STRING), NEW p, NEW part, part = "msgid ", Waits(f, p, part),
           NEW r, r = Po!Translations(f, p)
    PROVE  r.next # Po!Fail /\ Between(f, r.next)
<1>0. p \in Po!Positions(f) /\ part \notin LastParts
  BY NotLast DEF Waits
<1>1. PICK key \in Keywords : KeyAfter(f, p, key) /\ <<part, key>> \in Order
  BY <1>0, KeyExpected
<1>2. key \in {"msgstr ", "msgid_plural "}
  BY <1>1, OrderBehind
<1>3. PICK plural, single : plural = Po!Keyword(f, p, "msgid_plural ") /\ single = Po!Keyword(f, p, "msgstr ")
  OBVIOUS
<1>4. PICK forms : forms = Po!PluralStrs(f, plural)
  OBVIOUS
<1>5. r = Po!Either(plural, forms, single)
  BY <1>3, <1>4 DEF Po!Translations, Po!TranslationsAfter
<1>6. CASE key = "msgstr "
  <2>1. PICK other \in Keywords : other = "msgid_plural "
    BY DEF Keywords
  <2>2. ~KeyAfter(f, p, other)
    BY <1>1, <1>6, <2>1 DEF KeyAfter, Po!At
  <2>3. plural.next = Po!Fail
    BY <1>3, <2>1, <2>2, KeywordReads
  <2>4. forms.next = Po!Fail
    BY <1>4, <2>3 DEF Po!PluralStrs, Po!Rejected
  <2>5. single.next # Po!Fail /\ Waits(f, single.next, key)
    BY <1>1, <1>3, <1>6, KeywordReads
  <2>6. PICK end, none, strings : end = single.next /\ none = <<>> /\ strings = <<single.text>>
    OBVIOUS
  <2>7. r.next = single.next
    <3>1. r = [next |-> end, idPlural |-> none, strings |-> strings]
      BY <1>5, <2>4, <2>5, <2>6 DEF Po!Either
    <3>2. [next |-> end, idPlural |-> none, strings |-> strings].next = end
      OBVIOUS
    <3> QED BY <2>6, <3>1, <3>2
  <2>8. ASSUME NEW next \in Keywords, KeyAfter(f, single.next, next)
        PROVE  next \in Openers
    <3>1. PICK t : t = Po!Keyword(f, single.next, next)
      OBVIOUS
    <3>2. <<key, next>> \in Order
      BY <2>5, <2>8, <3>1, KeywordReads
    <3> QED BY <1>6, <3>2, OrderBehind DEF Openers
  <2>9. key \in LastParts
    BY <1>6 DEF LastParts
  <2> QED BY <2>5, <2>7, <2>8, <2>9 DEF Between
<1>7. CASE key = "msgid_plural "
  <2>1. plural.next # Po!Fail /\ Waits(f, plural.next, key)
    BY <1>1, <1>3, <1>7, KeywordReads
  <2>2. plural.next \in Po!Positions(f) /\ key \notin LastParts
    BY <1>7, <2>1, NotLast DEF Waits
  <2>3. PICK first \in Keywords : KeyAfter(f, plural.next, first) /\ <<key, first>> \in Order
    BY <2>1, <2>2, KeyExpected
  <2>4. first = StrKeys[1]
    BY <1>7, <2>3, OrderBehind
  <2>5. forms = StrsFrom(f, plural.next, 1)
    BY <1>4, <2>1, <2>2, MessageStrsFacts DEF Po!PluralStrs
  <2>6. forms.next # Po!Fail /\ Between(f, forms.next)
    <3>1. PICK i \in 1..Len(StrKeys) : i = 1
      BY KeysCount, Zenon
    <3>2. KeyAfter(f, plural.next, StrKeys[i]) /\ forms = StrsFrom(f, plural.next, i)
      BY <2>3, <2>4, <2>5, <3>1, Zenon
    <3> QED BY <2>1, <3>2, StrsRead
  <2>7. PICK end, many, strings : end = forms.next /\ many = plural.text /\ strings = forms.strings
    OBVIOUS
  <2>8. r.next = forms.next
    <3>1. r = [next |-> end, idPlural |-> many, strings |-> strings]
      BY <1>5, <2>6, <2>7 DEF Po!Either
    <3>2. [next |-> end, idPlural |-> many, strings |-> strings].next = end
      OBVIOUS
    <3> QED BY <2>7, <3>1, <3>2
  <2> QED BY <2>6, <2>8
<1> QED BY <1>2, <1>6, <1>7

\* A msgid whose string is text stands at z.
IdAt(f, z, text) ==
    /\ z \in DOMAIN f /\ f[z] = "msgid "
    /\ Po!MultilineString(f, z + 1).next # Po!Fail
    /\ Po!MultilineString(f, z + 1).text = text

\* Where a message can stand, one is read, and what can follow it does.  Its msgid
\* is the one it stands before.
LEMMA MessageReads ==
    ASSUME NEW f \in Seq(STRING), NEW p, Between(f, p),
           NEW q \in DOMAIN f, q = Po!SkippedBlock(f, p), f[q] # "#",
           NEW r, r = Po!Message(f, p)
    PROVE  /\ r.next # Po!Fail /\ Between(f, r.next)
           /\ \E z : /\ z >= q /\ IdAt(f, z, r.message.id)
                     /\ f[q] = "msgid " => z = q
<1>1. PICK part \in LastParts : Waits(f, p, part)
  BY DEF Between
<1>2. p \in Po!Positions(f) /\ q \in Nat /\ Len(f) \in Nat /\ DOMAIN f = 1..Len(f)
      /\ Po!Positions(f) = 1..(Len(f) + 1)
  BY <1>1, Positive DEF Waits
<1>3. PICK key \in Keywords : KeyAfter(f, p, key)
  BY <1>1, KeyExpected
<1>4. key \in Openers /\ f[q] = key
  BY <1>3 DEF Between, KeyAfter, Po!At
<1>5. PICK opens \in Keywords : opens = "msgctxt "
  BY DEF Keywords
<1>6. PICK names \in Keywords : names = "msgid "
  BY DEF Keywords
<1>7. PICK first : first = Po!Keyword(f, p, opens)
  OBVIOUS
<1>8. PICK context : context = Po!Optional(first, p)
  OBVIOUS
<1>9. PICK id : id = Po!Keyword(f, context.next, names)
  OBVIOUS
<1>10. r = Po!MessageWithId(f, context, id)
  BY <1>5, <1>6, <1>7, <1>8, <1>9 DEF Po!Message, Po!MessageWithContext
<1>11. /\ id.next # Po!Fail /\ Waits(f, id.next, names)
       /\ \E z : /\ z >= q /\ IdAt(f, z, id.text)
                 /\ f[q] = names => z = q
  <2>1. CASE key = opens
    <3>1. first.next # Po!Fail /\ Waits(f, first.next, opens)
          /\ first = Po!MultilineString(f, q + 1)
      BY <1>1, <1>3, <1>7, <2>1, KeywordReads
    <3>2. context = first
      BY <1>8, <3>1 DEF Po!Optional
    <3>3. opens \notin LastParts
      BY <1>5, NotLast
    <3>4. PICK other \in Keywords : KeyAfter(f, first.next, other) /\ <<opens, other>> \in Order
      BY <3>1, <3>3, KeyExpected
    <3>5. other = names
      BY <1>5, <1>6, <3>4, OrderBehind
    <3>6. PICK z : z = Po!SkippedBlock(f, first.next)
      OBVIOUS
    <3>7. id.next # Po!Fail /\ Waits(f, id.next, names) /\ id = Po!MultilineString(f, z + 1)
      BY <1>9, <3>1, <3>2, <3>4, <3>5, <3>6, KeywordReads
    <3>8. z \in DOMAIN f /\ f[z] = names
      BY <3>4, <3>5, <3>6 DEF KeyAfter, Po!At
    <3>9. IdAt(f, z, id.text)
      BY <1>6, <3>7, <3>8 DEF IdAt
    <3>10. z >= q
      <4>1. first.next \in Po!Positions(f) /\ q + 1 \in Po!Positions(f)
        BY <1>2, <3>1 DEF Waits
      <4>2. first \in StringsAfter(f, q + 1)
        BY <3>1, <4>1, MultilineStringFacts
      <4>3. first \in [next : ((q + 1) + 1)..Ends(f), text : Seq(Contents(f))]
        BY <3>1, <4>2 DEF StringsAfter, Po!Rejected
      <4>4. first.next >= q
        BY <1>2, <4>3, Positive
      <4>5. z \in first.next..Ends(f)
        BY <3>6, <4>1, SkippedBlockFacts
      <4> QED BY <1>2, <4>1, <4>4, <4>5, Positive
    <3>11. f[q] # names
      BY <1>4, <1>5, <1>6, <2>1
    <3> QED BY <3>7, <3>9, <3>10, <3>11
  <2>2. CASE key = names
    <3>1. ~KeyAfter(f, p, opens)
      BY <1>3, <1>5, <1>6, <2>2 DEF KeyAfter, Po!At
    <3>2. first.next = Po!Fail
      BY <1>1, <1>7, <3>1, KeywordReads
    <3>3. context.next = p
      BY <1>8, <3>2 DEF Po!Optional
    <3>4. id.next # Po!Fail /\ Waits(f, id.next, names) /\ id = Po!MultilineString(f, q + 1)
      <4>1. KeyAfter(f, p, names) /\ id = Po!Keyword(f, p, names)
        BY <1>3, <1>9, <2>2, <3>3
      <4> QED BY <1>1, <4>1, KeywordReads
    <3>5. IdAt(f, q, id.text)
      BY <1>4, <1>6, <2>2, <3>4 DEF IdAt
    <3>6. q >= q
      BY <1>2
    <3> QED BY <3>4, <3>5, <3>6
  <2> QED BY <1>4, <1>5, <1>6, <2>1, <2>2 DEF Openers
<1>12. PICK body : body = Po!Translations(f, id.next)
  OBVIOUS
<1>13. body.next # Po!Fail /\ Between(f, body.next)
  BY <1>6, <1>11, <1>12, TranslationsRead
<1>14. r = Po!Whole(context, id, body)
  BY <1>10, <1>11, <1>12 DEF Po!MessageWithId
<1>15. r.next = body.next /\ r.message.id = id.text
  <2>1. PICK end, ctx, text, many, strings :
          /\ end = body.next /\ ctx = context.text /\ text = id.text
          /\ many = body.idPlural /\ strings = body.strings
    OBVIOUS
  <2>2. PICK m : m = [context |-> ctx, id |-> text, idPlural |-> many, strings |-> strings, line |-> 0]
    OBVIOUS
  <2>3. r = [next |-> end, message |-> m]
    BY <1>13, <1>14, <2>1, <2>2 DEF Po!Whole
  <2>4. r.next = end /\ r.message = m
    BY <2>3
  <2>5. m.id = text
    BY <2>2
  <2> QED BY <2>1, <2>4, <2>5
<1> QED BY <1>6, <1>11, <1>13, <1>15

\* Ended comment lines are among the lines that can be skipped.
LEMMA CommentIsSkipped ==
    ASSUME NEW f, NEW p, Po!PreambleCommentLine(f, p) # Po!Fail
    PROVE  Po!SkippedLine(f, p) = Po!PreambleCommentLine(f, p)
<1>1. Po!At(f, p, "#")
  BY DEF Po!PreambleCommentLine, Po!CommentLine, Po!EndLine
<1> QED BY <1>1 DEF Po!PreambleCommentLine, Po!SkippedLine

\* What the loop does before a message leads from one such position to another: a
\* block of comments,
LEMMA CommentBlockBetween ==
    ASSUME NEW f \in Seq(STRING), NEW p \in Po!Positions(f), Between(f, p)
    PROVE  Between(f, CommentBlock(f, p))
<1> DEFINE jump == [q \in Po!Positions(f) |-> Po!PreambleCommentLine(f, q)]
           Good == {q \in Po!Positions(f) : Between(f, q) => Between(f, CommentBlock(f, q))}
<1>1. \A q \in Po!Positions(f) : jump[q] \in Later(f, q)
  BY CommentFacts
<1>2. ASSUME NEW q \in Po!Positions(f), jump[q] = Po!Fail \/ jump[q] \in Good
      PROVE  q \in Good
  BY <1>2, CommentBlockUnfolds, CommentIsSkipped, BetweenOn
<1>3. Good = Po!Positions(f)
  <2> HIDE DEF jump, Good
  <2>1. Good \in SUBSET Po!Positions(f)
    BY DEF Good
  <2> QED BY <1>1, <1>2, <2>1, FromTheEnd
<1> QED BY <1>3

\* and all blocks that end in a white line.
LEMMA IgnoredBetween ==
    ASSUME NEW f \in Seq(STRING), NEW p \in Po!Positions(f), Between(f, p)
    PROVE  Between(f, Po!IgnoredComments(f, p))
<1> DEFINE jump == [q \in Po!Positions(f) |-> IgnoredBlock(f, q)]
           Good == {q \in Po!Positions(f) : Between(f, q) => Between(f, Po!IgnoredComments(f, q))}
<1>1. \A q \in Po!Positions(f) : jump[q] \in Later(f, q)
  BY IgnoredBlockFacts
<1>2. ASSUME NEW q \in Po!Positions(f), jump[q] = Po!Fail \/ jump[q] \in Good
      PROVE  q \in Good
  <2>1. CASE IgnoredBlock(f, q) = Po!Fail
    BY <2>1, IgnoredCommentsUnfold
  <2>2. CASE IgnoredBlock(f, q) # Po!Fail
    <3> SUFFICES ASSUME Between(f, q)
                 PROVE  Between(f, Po!IgnoredComments(f, q))
      OBVIOUS
    <3>1. PICK e : e = CommentBlock(f, q)
      OBVIOUS
    <3>2. e \in Po!Positions(f) /\ Between(f, e)
      BY <3>1, CommentBlockFacts, CommentBlockBetween, Positive
    <3>3. IgnoredBlock(f, q) = Po!EndLine(f, Po!WhiteLine(f, e))
      BY <3>1 DEF IgnoredBlock
    <3>4. ~Po!At(f, e, "#")
      <4>1. PICK w : w = Po!WhiteLine(f, e)
        OBVIOUS
      <4>2. w \in e..Ends(f) /\ \A r \in e..(w - 1) : f[r] \in {" ", "\t", "\r"}
        BY <3>2, <4>1, WhiteLineFacts
      <4>3. w \in DOMAIN f /\ f[w] = "\n"
        BY <2>2, <3>3, <4>1 DEF Po!EndLine, Po!At
      <4>4. CASE w = e
        BY <4>3, <4>4 DEF Po!At
      <4>5. CASE w # e
        <5>1. e \in e..(w - 1)
          <6>1. w \in e..Ends(f) /\ e \in 1..Ends(f) /\ Ends(f) \in Nat
            BY <3>2, <4>2, Positive
          <6> QED BY <4>5, <6>1
        <5>2. f[e] \in {" ", "\t", "\r"}
          BY <4>2, <5>1
        <5> QED BY <5>2 DEF Po!At
      <4> QED BY <4>4, <4>5
    <3>5. Po!SkippedLine(f, e) = IgnoredBlock(f, q)
      BY <3>3, <3>4 DEF Po!SkippedLine
    <3>6. Between(f, IgnoredBlock(f, q)) /\ IgnoredBlock(f, q) \in Po!Positions(f)
      BY <2>2, <3>2, <3>5, BetweenOn
    <3>7. IgnoredBlock(f, q) \in Good
      BY <1>2, <2>2
    <3> QED BY <2>2, <3>6, <3>7, IgnoredCommentsUnfold
  <2> QED BY <2>1, <2>2
<1>3. Good = Po!Positions(f)
  <2> HIDE DEF jump, Good
  <2>1. Good \in SUBSET Po!Positions(f)
    BY DEF Good
  <2> QED BY <1>1, <1>2, <2>1, FromTheEnd
<1> QED BY <1>3

\* A comment that is not ended is the last thing in a file.
LEMMA UnendedComment ==
    ASSUME NEW f \in Seq(STRING), NEW p \in Po!Positions(f), Po!PreambleCommentLine(f, p) = Po!Fail,
           Po!OptionalComment(f, p) <= Len(f)
    PROVE  f[Po!OptionalComment(f, p)] # "#"
<1>1. PICK e : e = Po!OptionalComment(f, p)
  OBVIOUS
<1>2. e = p \/ e > Len(f)
  BY <1>1, LastComment
<1>3. e = p
  BY <1>1, <1>2, CommentFacts, Positive
<1>4. CASE Po!At(f, p, "#")
  <2>1. e = Po!LineEnd(f, p)
    BY <1>1, <1>4 DEF Po!OptionalComment, Po!CommentLine
  <2>2. f[e] = "\n"
    BY <1>1, <2>1, LineEndFacts
  <2> QED BY <1>1, <2>2
<1>5. CASE ~Po!At(f, p, "#")
  <2>1. p \in DOMAIN f
    BY <1>1, <1>3, Positive
  <2> QED BY <1>1, <1>3, <1>5, <2>1 DEF Po!At
<1> QED BY <1>4, <1>5

\* The preamble of a message does not end before one.
LEMMA PreambleTakesComments ==
    ASSUME NEW f \in Seq(STRING), NEW p \in Po!Positions(f), NEW m, m = Po!MessagePreamble(f, p),
           m.next <= Len(f)
    PROVE  f[m.next] # "#"
<1> DEFINE jump == [q \in Po!Positions(f) |-> PreambleJump(f, q)]
           Takes(v) == v.next <= Len(f) => f[v.next] # "#"
           Good == {q \in Po!Positions(f) : Takes(Po!MessagePreamble(f, q))}
<1>1. \A q \in Po!Positions(f) : jump[q] \in Later(f, q)
  BY MessagePreambleUnfolds
<1>2. ASSUME NEW q \in Po!Positions(f), jump[q] = Po!Fail \/ jump[q] \in Good
      PROVE  q \in Good
  <2>1. CASE Po!Fuzzy(f, q) # Po!Fail
    <3>1. PICK e : e = CommentBlock(f, Po!Fuzzy(f, q))
      OBVIOUS
    <3>2. e \in Po!Positions(f) /\ Po!PreambleCommentLine(f, e) = Po!Fail
      BY <2>1, <3>1, MarkedFacts, CommentBlockEnds
    <3>3. PICK n : n = Po!OptionalComment(f, e)
      OBVIOUS
    <3>4. Po!MessagePreamble(f, q) = [next |-> n, fuzzy |-> TRUE]
      BY <2>1, <3>1, <3>3, MessagePreambleUnfolds DEF Marked
    <3>5. n <= Len(f) => f[n] # "#"
      BY <3>2, <3>3, UnendedComment
    <3>6. Po!MessagePreamble(f, q).next = n
      BY <3>4
    <3> QED BY <3>5, <3>6
  <2>2. CASE Po!Fuzzy(f, q) = Po!Fail /\ PreambleJump(f, q) # Po!Fail
    <3>1. Po!MessagePreamble(f, q) = Po!MessagePreamble(f, PreambleJump(f, q))
      BY <2>2, MessagePreambleUnfolds
    <3>2. Takes(Po!MessagePreamble(f, PreambleJump(f, q)))
      <4> HIDE DEF Takes
      <4> QED BY <1>2, <2>2
    <3> HIDE DEF Takes
    <3> QED BY <3>1, <3>2
  <2>3. CASE Po!Fuzzy(f, q) = Po!Fail /\ PreambleJump(f, q) = Po!Fail
    <3>1. Po!PreambleCommentLine(f, q) = Po!Fail
      BY <2>3 DEF PreambleJump
    <3>2. PICK n : n = Po!OptionalComment(f, q)
      OBVIOUS
    <3>3. Po!MessagePreamble(f, q) = [next |-> n, fuzzy |-> FALSE]
      BY <2>3, <3>2, MessagePreambleUnfolds
    <3>4. n <= Len(f) => f[n] # "#"
      BY <3>1, <3>2, UnendedComment
    <3>5. Po!MessagePreamble(f, q).next = n
      BY <3>3
    <3> QED BY <3>4, <3>5
  <2> QED BY <2>1, <2>2, <2>3
<1>3. Good = Po!Positions(f)
  <2> HIDE DEF jump, Good
  <2>1. Good \in SUBSET Po!Positions(f)
    BY DEF Good
  <2> QED BY <1>1, <1>2, <2>1, FromTheEnd
<1> QED BY <1>3

\* Of a file in order, with a good header, the header is found, and what can follow it.
LEMMA LegibleHeader ==
    ASSUME NEW f \in Files, Legible(f), NEW start, start = Po!SkippedBlock(f, 1),
           NEW r, r = Po!Message(f, start), NEW about, about = Meaning(r.message.strings[1])
    PROVE  /\ r.next # Po!Fail /\ r.next > start /\ Between(f, r.next)
           /\ r.message.id = <<>>
           /\ about.accepted /\ about.num > 0 /\ about.compiles /\ about.plural[1] < about.num
<1>1. f \in Seq(STRING) /\ 1 \in Po!Positions(f) /\ ReadOn(f, 1, "") /\ "" \in Parts /\ "" \in LastParts
  BY TokensAssumption, Positive DEF Legible, InOrder, ReadOn, Parts, LastParts
<1>2. /\ start \in Po!Positions(f) /\ ReadOn(f, start, "") /\ Po!SkippedLine(f, start) = Po!Fail
      /\ Follows(f, start, "")
  <2>1. ~Continued(f, start, "")
    BY DEF Continued
  <2> QED BY <1>1, <2>1, BlockReads DEF Follows
<1>3. Po!SkippedBlock(f, start) = start
  BY <1>1, <1>2, SkippedBlockUnfolds
<1>4. start \in DOMAIN f /\ f[start] = "msgid " /\ Po!MultilineString(f, start + 1).text = <<>>
  BY DEF Legible, OneHeader
<1>5. Between(f, start)
  <2>1. Waits(f, start, "")
    BY <1>1, <1>2, <1>3 DEF Waits
  <2>2. \A key \in Keywords : KeyAfter(f, start, key) => key \in Openers
    BY <1>3, <1>4 DEF KeyAfter, Po!At, Openers
  <2> QED BY <1>1, <2>1, <2>2 DEF Between
<1>6. f[start] # "#"
  BY <1>4
<1>7. /\ r.next # Po!Fail /\ Between(f, r.next)
      /\ \E z : IdAt(f, z, r.message.id) /\ z = start
  BY <1>1, <1>3, <1>4, <1>5, <1>6, MessageReads
<1>8. r.message.id = <<>>
  BY <1>4, <1>7 DEF IdAt
<1>9. r.next > start
  <2>1. r.next \in (start + 1)..Ends(f)
    BY <1>1, <1>2, <1>7, MessageFacts
  <2>2. Po!Positions(f) = 1..Ends(f) /\ Ends(f) \in Nat
    BY <1>1, Positive
  <2>3. PICK s \in 1..Ends(f) : s = start
    BY <1>2, <2>2
  <2>4. PICK n : n = r.next
    OBVIOUS
  <2>5. n > s
    BY <2>1, <2>2, <2>3, <2>4
  <2> QED BY <2>3, <2>4, <2>5
<1>10. about.accepted /\ about.compiles /\ about.plural[1] < about.num
  BY DEF Legible, UsableHeader
<1>11. about.num > 0
  <2>1. about \in [accepted : BOOLEAN, num : Nat, compiles : BOOLEAN, plural : [Counts -> Nat]]
    BY <1>7, MeaningAssumption
  <2>2. about.num \in Nat /\ about.plural[1] \in Nat
    BY <2>1, CountsAssumption
  <2> QED BY <1>10, <2>2
<1> QED BY <1>7, <1>8, <1>9, <1>10, <1>11

\* Behind a message of such a file, the next one is found, and it is no header.
LEMMA LegibleMessage ==
    ASSUME NEW f \in Files, Legible(f), NEW p \in Po!Positions(f), Between(f, p),
           p > Po!SkippedBlock(f, 1), NEW e, e = PreambleEnd(f, p), e <= Len(f),
           NEW r, r = Po!Message(f, e)
    PROVE  /\ r.next # Po!Fail /\ r.next > Po!SkippedBlock(f, 1) /\ Between(f, r.next)
           /\ r.message.id # <<>>
<1>1. f \in Seq(STRING) /\ p \in Nat /\ Len(f) \in Nat /\ DOMAIN f = 1..Len(f)
  BY TokensAssumption, Positive
<1>2. PICK q : q = Po!IgnoredComments(f, p)
  OBVIOUS
<1>3. q \in Po!Positions(f) /\ Between(f, q)
  BY <1>1, <1>2, IgnoredCommentsFacts, IgnoredBetween, Positive
<1>4. e = CommentBlock(f, q) /\ e = Po!MessagePreamble(f, q).next
  BY <1>1, <1>2, <1>3, PreambleSkipped DEF PreambleEnd
<1>5. Between(f, e) /\ e \in p..Ends(f)
  BY <1>1, <1>3, <1>4, CommentBlockBetween, PreambleFacts
<1>6. e \in Po!Positions(f) /\ e \in DOMAIN f /\ p <= e
  BY <1>1, <1>5, Positive
<1>7. f[e] # "#"
  BY <1>1, <1>3, <1>4, PreambleTakesComments
<1>8. Po!SkippedBlock(f, e) = e
  BY <1>1, <1>6, PreambleEndsAtMessage, SkippedBlockUnfolds
<1>9. /\ r.next # Po!Fail /\ Between(f, r.next)
      /\ \E z : z >= e /\ IdAt(f, z, r.message.id)
  BY <1>1, <1>5, <1>6, <1>7, <1>8, MessageReads
<1>10. PICK start : start = Po!SkippedBlock(f, 1)
  OBVIOUS
<1>11. start \in Nat
  BY <1>1, <1>10, SkippedBlockFacts, Positive
<1>12. r.next > start
  <2>1. r.next \in (e + 1)..Ends(f)
    BY <1>1, <1>6, <1>9, MessageFacts
  <2> QED BY <1>1, <1>6, <1>10, <1>11, <2>1, Positive
<1>13. r.message.id # <<>>
  <2>1. PICK z : z >= e /\ IdAt(f, z, r.message.id)
    BY <1>9
  <2>2. z \in DOMAIN f
    BY <2>1 DEF IdAt
  <2>3. p > start /\ e \in Nat /\ z \in Nat
    BY <1>1, <1>6, <1>10, <2>2
  <2>4. z # start
    BY <1>1, <1>6, <1>11, <2>1, <2>3
  <2>5. ~IdAt(f, z, <<>>)
    BY <1>10, <2>2, <2>4 DEF Legible, OneHeader, IdAt
  <2> QED BY <2>1, <2>5
<1> QED BY <1>9, <1>10, <1>12, <1>13

\* At its end, a file is behind a complete message.
LEMMA EndIsBetween ==
    ASSUME NEW f \in Seq(STRING), NEW p, Between(f, p), NEW e \in Po!Positions(f), e > Len(f)
    PROVE  Between(f, e)
<1>1. PICK part \in LastParts : part \in Parts
  BY DEF Between, Parts
<1>2. PICK q : q = Po!SkippedBlock(f, e)
  OBVIOUS
<1>3. q \in e..Ends(f)
  BY <1>2, SkippedBlockFacts
<1>4. q > Len(f) /\ q \notin DOMAIN f
  BY <1>3, Positive
<1>5. ReadOn(f, e, part)
  <2>1. e \in 0..(Len(f) + 2)
    BY Positive
  <2>2. ReadOn(f, e, part) = (part \in LastParts)
    BY <1>1, <2>1, ReadOnUnfolds
  <2> QED BY <1>1, <2>2
<1>6. Waits(f, e, part)
  BY <1>1, <1>2, <1>4, <1>5 DEF Waits, Follows, Exhausted
<1>7. \A key \in Keywords : ~KeyAfter(f, e, key)
  BY <1>2, <1>4 DEF KeyAfter, Po!At
<1> QED BY <1>6, <1>7 DEF Between

\* The catalog of a load that has not failed.
Healthy(c) == status[c] \in {"loading", "live"} /\ ~cat[c].error

\* While the loop runs on such a file, its iterator is behind the header and
\* between messages, and no load has failed.
LegibleInv ==
    Legible(file) =>
      /\ \A c \in Cat : status[c] = "loading" => pos > HeaderStart /\ Between(file, pos)
      /\ loads > 0 => \E c \in Cat : Healthy(c)

\* Insertion is no error.
LEMMA InsertKeepsError ==
    ASSUME NEW o, o = [error |-> o.error, num |-> o.num, plural |-> o.plural,
                       singular |-> o.singular, map |-> o.map, channel |-> o.channel], NEW m
    PROVE  InsertMessage(o, m).error = o.error
<1>1. PICK n : n = [k \in DOMAIN o.map \cup {FormIndex(m)} |->
                      IF k = FormIndex(m) THEN Stored(o, m) ELSE o.map[k]]
  OBVIOUS
<1>2. InsertMessage(o, m) = o \/ InsertMessage(o, m) = [o EXCEPT !.map = n]
  BY <1>1 DEF InsertMessage
<1>3. [o EXCEPT !.map = n].error = o.error
  OBVIOUS
<1> QED BY <1>2, <1>3

\* The header of such a file is accepted.
LEMMA HeaderLegible ==
    ASSUME PoTypeInv, LegibleInv, NEW c \in Cat, NEW w \in BOOLEAN, ReadHeader(c, w)
    PROVE  LegibleInv'
<1> SUFFICES ASSUME Legible(file)
             PROVE  /\ \A d \in Cat : status'[d] = "loading" => pos' > HeaderStart /\ Between(file, pos')
                    /\ \E d \in Cat : Healthy(d)'
  BY DEF LegibleInv, ReadHeader, HeaderStart
<1>1. file \in Files /\ DOMAIN status = Cat /\ DOMAIN cat = Cat
  BY DEF PoTypeInv, RoundsInv, TypeInv, TypeOK
<1>2. PICK parsed : parsed = Po!Message(file, HeaderStart)
  OBVIOUS
<1>3. PICK about : about = Meaning(parsed.message.strings[1])
  OBVIOUS
<1>4. PICK header : header = HeaderFrom(parsed.message, about)
  OBVIOUS
<1>5. /\ parsed.next # Po!Fail /\ parsed.next > HeaderStart /\ Between(file, parsed.next)
      /\ parsed.message.id = <<>>
      /\ about.accepted /\ about.num > 0 /\ about.compiles /\ about.plural[1] < about.num
  BY <1>1, <1>2, <1>3, LegibleHeader DEF HeaderStart
<1>6. MetadataRead(header) /\ header.compiles /\ SingularFits(header)
  BY <1>4, <1>5 DEF HeaderFrom, MetadataRead, SingularFits
<1>7. LoadHeader(c, header, w) /\ pos' = parsed.next
  BY <1>2, <1>3, <1>4, <1>5, <1>6 DEF ReadHeader, LoadFrom, LoadBadHeader, LoadBadPluralForms,
                                      LoadBadSingular
<1>8. PICK m, object : m = [header.message EXCEPT !.line = 0] /\ object = WithPluralForms(header, w)
  OBVIOUS
<1>9. /\ cat' = [cat EXCEPT ![c] = InsertMessage(object, m)]
      /\ status' = [status EXCEPT ![c] = "loading"]
  BY <1>7, <1>8 DEF LoadHeader
<1>10. InsertMessage(object, m).error = FALSE
  <2>1. /\ object = [error |-> object.error, num |-> object.num, plural |-> object.plural,
                     singular |-> object.singular, map |-> object.map, channel |-> object.channel]
        /\ object.error = FALSE
    BY <1>8 DEF WithPluralForms, NewObject
  <2> QED BY <2>1, InsertKeepsError
<1>11. cat'[c] = InsertMessage(object, m) /\ status'[c] = "loading"
  BY <1>1, <1>9
<1>12. Healthy(c)'
  BY <1>10, <1>11 DEF Healthy
<1> QED BY <1>5, <1>7, <1>12

\* A round in which comments exhaust such a file leaves it at its end.
LEMMA CommentsLegible ==
    ASSUME PoTypeInv, LegibleInv, NEW c \in Cat, ReadLastComments(c)
    PROVE  LegibleInv'
<1>1. /\ file \in Seq(STRING) /\ pos \in Po!Positions(file) /\ status[c] = "loading"
      /\ file' = file /\ status' = status /\ cat' = cat /\ loads' = loads
      /\ pos' = PreambleEnd(file, pos) /\ pos' > Len(file)
  BY DEF PoTypeInv, RoundsInv, ReadLastComments, vars, Preamble, PreambleEnd
<1> SUFFICES ASSUME Legible(file)
             PROVE  pos' > HeaderStart /\ Between(file, pos')
  BY <1>1 DEF LegibleInv, HeaderStart, Healthy
<1>2. pos > HeaderStart /\ Between(file, pos)
  BY <1>1 DEF LegibleInv
<1>3. pos' \in pos..Ends(file)
  BY <1>1, PreambleFacts
<1>4. pos' \in Po!Positions(file) /\ pos' >= pos
  BY <1>1, <1>3, Positive
<1>5. HeaderStart \in Nat /\ pos \in Nat /\ pos' \in Nat
  BY <1>1, <1>4, SkippedBlockFacts, Positive DEF HeaderStart
<1>6. pos' > HeaderStart
  BY <1>2, <1>4, <1>5
<1> QED BY <1>1, <1>2, <1>4, <1>6, EndIsBetween

\* A round that reads a message of such a file does not fail.
LEMMA EntryLegible ==
    ASSUME PoTypeInv, LegibleInv, NEW c \in Cat, ReadMessage(c)
    PROVE  LegibleInv'
<1>1. /\ file \in Files /\ file \in Seq(STRING) /\ file' = file /\ pos \in Po!Positions(file)
      /\ \A d \in Cat : status[d] = "loading" => d = c
      /\ status[c] = "loading"
      /\ DOMAIN cat = Cat /\ \A d \in Cat : CatalogType(cat[d])
  BY DEF PoTypeInv, RoundsInv, TypeInv, TypeOK, ReadMessage, ReadUnparsable, ReadSecondHeader, ReadEntry
<1> SUFFICES ASSUME Legible(file)
             PROVE  LegibleInv'
  BY <1>1 DEF LegibleInv
<1>2. pos > HeaderStart /\ Between(file, pos)
  BY <1>1 DEF LegibleInv
<1>3. PICK begin : begin = PreambleEnd(file, pos)
  OBVIOUS
<1>4. PICK parsed, fuzzy : parsed = Po!Message(file, begin) /\ fuzzy = Preamble.fuzzy
  OBVIOUS
<1>5. /\ begin <= Len(file)
      /\ \/ parsed.next = Po!Fail
         \/ ReadSecondHeader(c, parsed.message)
         \/ ReadEntry(c, parsed.message, fuzzy) /\ pos' = parsed.next
  BY <1>3, <1>4 DEF ReadMessage, Preamble, PreambleEnd
<1>6. /\ parsed.next # Po!Fail /\ parsed.next > HeaderStart /\ Between(file, parsed.next)
      /\ parsed.message.id # <<>>
  BY <1>1, <1>2, <1>3, <1>4, <1>5, LegibleMessage DEF HeaderStart
<1>7. ReadEntry(c, parsed.message, fuzzy) /\ pos' = parsed.next
  BY <1>5, <1>6 DEF ReadSecondHeader
<1>8. PICK m : m = [parsed.message EXCEPT !.line = line]
  OBVIOUS
<1>9. /\ cat' = [cat EXCEPT ![c] = ReadInto(c, m, fuzzy)]
      /\ status' = status /\ loads' = loads
  BY <1>7, <1>8 DEF ReadEntry
<1>10. ASSUME NEW d \in Cat
       PROVE  cat'[d].error = cat[d].error
  <2>1. CASE d = c
    <3>1. cat'[c] = cat[c] \/ cat'[c] = InsertMessage(cat[c], m)
      BY <1>1, <1>9 DEF ReadInto
    <3>2. InsertMessage(cat[c], m).error = cat[c].error
      BY <1>1, InsertKeepsError DEF CatalogType
    <3> QED BY <2>1, <3>1, <3>2
  <2>2. CASE d # c
    BY <1>1, <1>9, <2>2
  <2> QED BY <2>1, <2>2
<1>11. \A d \in Cat : Healthy(d) => Healthy(d)'
  BY <1>9, <1>10 DEF Healthy
<1> QED BY <1>1, <1>6, <1>7, <1>9, <1>11 DEF LegibleInv, HeaderStart

\* Before a load nothing has failed; every step keeps the invariant.
LEMMA LegibleStep ==
    /\ PoInit => LegibleInv
    /\ PoTypeInv /\ LegibleInv /\ [PoNext]_poVars => LegibleInv'
<1>1. PoInit => LegibleInv
  BY DEF PoInit, Init, LegibleInv
<1>2. ASSUME PoTypeInv, LegibleInv, [PoNext]_poVars
      PROVE  LegibleInv'
  <2>1. ASSUME NEW c \in Cat, NEW w \in BOOLEAN, ReadHeader(c, w)
        PROVE  LegibleInv'
    BY <1>2, <2>1, HeaderLegible
  <2>2. ASSUME NEW c \in Cat, ReadLastComments(c)
        PROVE  LegibleInv'
    BY <1>2, <2>2, CommentsLegible
  <2>3. ASSUME NEW c \in Cat, ReadMessage(c)
        PROVE  LegibleInv'
    BY <1>2, <2>3, EntryLegible
  <2>4. ASSUME NEW c \in Cat, Finish(c)
        PROVE  LegibleInv'
    <3>1. /\ DOMAIN status = Cat /\ UNCHANGED <<file, pos, cat, loads>>
          /\ status' = [status EXCEPT ![c] = "live"]
      BY <1>2, <2>4 DEF PoTypeInv, RoundsInv, Finish, FinishLoad
    <3>2. ASSUME NEW d \in Cat
          PROVE  /\ status'[d] = "loading" => status[d] = "loading"
                 /\ Healthy(d) => Healthy(d)'
      <4>1. status'[d] = status[d] \/ status'[d] = "live"
        BY <3>1
      <4> QED BY <3>1, <4>1 DEF Healthy
    <3> QED BY <1>2, <3>1, <3>2 DEF LegibleInv, HeaderStart
  <2>5. CASE UNCHANGED poVars
    BY <1>2, <2>5 DEF poVars, vars, LegibleInv, HeaderStart, Healthy
  <2> QED BY <1>2, <2>1, <2>2, <2>3, <2>4, <2>5 DEF PoNext, Over
<1> QED BY <1>1, <1>2

\* A file of complete entries with a good header loads, in every build and however
\* long it is.  Three alternatives of the grammar take a comment, two of them only if
\* a newline ends it, and which one is tried depends on what follows: none of them
\* gets a comment that it cannot take and that another one could, and none stops the
\* constructor where a message, a string or the end of the file comes next.
THEOREM LegibleFilesLoad == PoSpec => []LegibleLoads
<1>1. PoSpec => [](PoTypeInv /\ LegibleInv)
  BY LegibleStep, PoTypeInit, PoTypeStep, PTL DEF PoSpec
<1>2. PoTypeInv /\ LegibleInv => LegibleLoads
  BY DEF LegibleInv, LegibleLoads, Healthy
<1> QED BY <1>1, <1>2, PTL

=============================================================================
