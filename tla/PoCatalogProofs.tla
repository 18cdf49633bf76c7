-------------------------- MODULE PoCatalogProofs --------------------------
(***************************************************************************)
(* For every file: where the match of each rule ends, that the loop of the *)
(* constructor makes progress in every round, that the grammar hands it    *)
(* messages with at least one string, and that a load is one of Catalog.   *)
(***************************************************************************)
EXTENDS PoCatalog, CatalogProofs, Descent

\* The position behind the last token.
Ends(f) == Len(f) + 1

\* What a rule that matches something returns: a later position, or Fail.
Later(f, p) == {Po!Fail} \cup (p + 1)..Ends(f)

-----------------------------------------------------------------------------
(* Lines *)

\* The positions of a file, its end included.
LEMMA Positive ==
    ASSUME NEW f \in Seq(STRING)
    PROVE  /\ Len(f) \in Nat /\ DOMAIN f = 1..Len(f) /\ Ends(f) \in Nat
           /\ Po!Positions(f) = 1..Ends(f)
           /\ Ends(f) = Len(f) + 1 /\ 1 \in 1..Ends(f)
BY DEF Ends, Po!Positions

\* A search ends at a position, the end of the file included: at the first newline.
LEMMA LineEndFacts ==
    ASSUME NEW f \in Seq(STRING), NEW p \in Po!Positions(f)
    PROVE  /\ Po!LineEnd(f, p) \in p..Ends(f)
           /\ Po!LineEnd(f, p) <= Len(f) => f[Po!LineEnd(f, p)] = "\n"
           /\ \A r \in p..(Po!LineEnd(f, p) - 1) : f[r] # "\n"
<1> DEFINE n == Ends(f)
           T == {q \in 1..Len(f) : f[q] = "\n"}
           Found(q) == (q <= Len(f) => f[q] = "\n") /\ \A r \in p..(q - 1) : ~(f[r] = "\n")
<1>1. n \in Nat /\ p \in 1..n /\ T \in SUBSET Nat
  BY Positive
<1>2. PICK q \in p..n : (q < n => q \in T) /\ \A r \in p..(q - 1) : r \notin T
  <2> HIDE DEF n, T
  <2> QED BY <1>1, Least
<1>3. Found(q)
  BY <1>1, <1>2, Positive
<1>4. Po!LineEnd(f, p) = CHOOSE x \in p..n : Found(x)
  BY DEF Po!LineEnd, Po!First, Ends
<1>5. Po!LineEnd(f, p) \in p..n /\ Found(Po!LineEnd(f, p))
  <2> HIDE DEF Found
  <2> QED BY <1>2, <1>3, <1>4
<1> QED BY <1>5

\* The blanks of a line end where the rule began, or later, at another token.
LEMMA WhiteLineFacts ==
    ASSUME NEW f \in Seq(STRING), NEW p \in Po!Positions(f)
    PROVE  /\ Po!WhiteLine(f, p) \in p..Ends(f)
           /\ Po!WhiteLine(f, p) <= Len(f) => f[Po!WhiteLine(f, p)] \notin {" ", "\t", "\r"}
           /\ \A r \in p..(Po!WhiteLine(f, p) - 1) : f[r] \in {" ", "\t", "\r"}
<1> DEFINE n == Ends(f)
           Blanks == {" ", "\t", "\r"}
           T == {q \in 1..Len(f) : f[q] \notin Blanks}
           Found(q) == /\ q <= Len(f) => f[q] \notin Blanks
                       /\ \A r \in p..(q - 1) : ~(f[r] \notin Blanks)
<1>0. Po!WhiteLine(f, p) = CHOOSE x \in p..n : Found(x)
  BY DEF Po!WhiteLine, Po!First, Ends
<1> HIDE DEF Blanks
<1>1. n \in Nat /\ p \in 1..n /\ T \in SUBSET Nat
  BY Positive
<1>2. PICK q \in p..n : (q < n => q \in T) /\ \A r \in p..(q - 1) : r \notin T
  <2> HIDE DEF n, T
  <2> QED BY <1>1, Least
<1>3. Found(q)
  BY <1>1, <1>2, Positive
<1>4. Po!WhiteLine(f, p) \in p..n /\ Found(Po!WhiteLine(f, p))
  <2> HIDE DEF Found
  <2> QED BY <1>0, <1>2, <1>3
<1> QED BY <1>4 DEF Blanks

\* A line that is ended is followed by another position.
LEMMA EndLineFacts ==
    ASSUME NEW f \in Seq(STRING), NEW p \in Po!Positions(f), NEW q \in {Po!Fail} \cup p..Ends(f)
    PROVE  Po!EndLine(f, q) \in Later(f, p)
BY Positive DEF Po!EndLine, Po!At, Po!Fail, Later

\* A comment that is matched ends later; one that is optional, not before.
LEMMA CommentFacts ==
    ASSUME NEW f \in Seq(STRING), NEW p \in Po!Positions(f)
    PROVE  /\ Po!CommentLine(f, p) \in {Po!Fail} \cup p..Ends(f)
           /\ Po!OptionalComment(f, p) \in p..Ends(f)
           /\ Po!PreambleCommentLine(f, p) \in Later(f, p)
<1>1. Po!CommentLine(f, p) \in {Po!Fail} \cup p..Ends(f)
  BY LineEndFacts DEF Po!CommentLine
<1>2. Po!OptionalComment(f, p) \in p..Ends(f)
  BY LineEndFacts, Positive DEF Po!OptionalComment, Po!CommentLine
<1> QED BY <1>1, <1>2, EndLineFacts DEF Po!PreambleCommentLine

\* A comment or white line that is matched is not empty.
LEMMA SkippedLineFacts ==
    ASSUME NEW f \in Seq(STRING), NEW p \in Po!Positions(f)
    PROVE  Po!SkippedLine(f, p) \in Later(f, p)
<1> DEFINE q == IF Po!At(f, p, "#") THEN Po!CommentLine(f, p) ELSE Po!WhiteLine(f, p)
<1>1. q \in {Po!Fail} \cup p..Ends(f)
  BY CommentFacts, WhiteLineFacts
<1>2. Po!SkippedLine(f, p) = Po!EndLine(f, q)
  BY DEF Po!SkippedLine
<1> HIDE DEF q
<1> QED BY <1>1, <1>2, EndLineFacts

\* A flag comment is ended, too.
LEMMA FuzzyFacts ==
    ASSUME NEW f \in Seq(STRING), NEW p \in Po!Positions(f)
    PROVE  Po!Fuzzy(f, p) \in Later(f, p)
<1>1. Po!LineEnd(f, p) \in p..Ends(f)
  BY LineEndFacts
<1> DEFINE end == Po!LineEnd(f, p)
           Marked == /\ Po!At(f, p, "#") /\ Po!At(f, p + 1, ",") /\ Po!At(f, end, "\n")
                     /\ \E i \in (p + 1)..end : f[i] = "," /\ f[i + 1] = " fuzzy"
<1>a. Po!Fuzzy(f, p) = IF Marked THEN end + 1 ELSE Po!Fail
  BY DEF Po!Fuzzy
<1>b. Marked => Po!At(f, end, "\n")
  OBVIOUS
<1> HIDE DEF Marked
<1>2. \/ Po!Fuzzy(f, p) = Po!Fail
      \/ Po!Fuzzy(f, p) = Po!LineEnd(f, p) + 1 /\ Po!At(f, Po!LineEnd(f, p), "\n")
  BY <1>a, <1>b
<1>3. p \in Nat /\ Ends(f) \in Nat
  BY Positive
<1>4. Po!At(f, Po!LineEnd(f, p), "\n") => Po!LineEnd(f, p) + 1 \in (p + 1)..Ends(f)
  BY <1>1, <1>3, Positive DEF Po!At
<1> QED BY <1>2, <1>4 DEF Later
-----------------------------------------------------------------------------
(* Blocks of lines *)

\* What a kleene star iterates makes steps.
LEMMA StarSteps ==
    ASSUME NEW f \in Seq(STRING), NEW jump, jump = [q \in 1..Ends(f) |-> jump[q]],
           \A q \in 1..Ends(f) : jump[q] \in Later(f, q),
           NEW base, base = [q \in 1..Ends(f) |-> base[q]]
    PROVE  Steps(jump, base, Ends(f))
<1>1. Ends(f) \in Nat
  BY Positive
<1>2. \A q \in 1..Ends(f) : jump[q] \in 0..Ends(f) /\ (jump[q] = 0 \/ q < jump[q])
  BY <1>1 DEF Later, Po!Fail
<1> QED BY <1>1, <1>2 DEF Steps

\* What is true where a rule fails, and where it leads to a position at which it
\* is true, is true at every position.
LEMMA FromTheEnd ==
    ASSUME NEW f \in Seq(STRING), NEW jump,
           \A q \in Po!Positions(f) : jump[q] \in Later(f, q),
           NEW Good \in SUBSET Po!Positions(f),
           \A q \in Po!Positions(f) : jump[q] = Po!Fail \/ jump[q] \in Good => q \in Good
    PROVE  Good = Po!Positions(f)
<1>1. PICK n \in Nat : n = Ends(f) /\ Po!Positions(f) = 1..n
  BY Positive
<1>2. \A q \in 1..n : jump[q] = 0 \/ jump[q] \in (q + 1)..n
  BY <1>1 DEF Later, Po!Fail
<1>3. \A q \in 1..n : jump[q] = 0 \/ jump[q] \in Good => q \in Good
  BY <1>1 DEF Po!Fail
<1>4. Good \in SUBSET (1..n)
  BY <1>1
<1>5. Good = 1..n
  BY <1>2, <1>3, <1>4, Backwards
<1> QED BY <1>1, <1>5

\* Skipped lines are a line and the lines behind it, if there is one.
LEMMA SkippedBlockUnfolds ==
    ASSUME NEW f \in Seq(STRING), NEW p \in Po!Positions(f)
    PROVE  Po!SkippedBlock(f, p) =
             IF Po!SkippedLine(f, p) = Po!Fail THEN p
             ELSE Po!SkippedBlock(f, Po!SkippedLine(f, p))
<1> DEFINE n == Ends(f)
           jump == [q \in 1..n |-> Po!SkippedLine(f, q)]
           base == [q \in 1..n |-> q]
           Body(g) == g = [q \in Po!Positions(f) |->
                             IF Po!SkippedLine(f, q) = Po!Fail THEN q ELSE g[Po!SkippedLine(f, q)]]
           star == CHOOSE g : Body(g)
<1>1. Steps(jump, base, n)
  BY SkippedLineFacts, StarSteps, Positive
<1>2. \A g : Iterates(g, jump, base, n) <=> Body(g)
  BY Positive DEF Iterates, Po!Fail
<1>3. ASSUME NEW q PROVE Po!SkippedBlock(f, q) = star[q]
  BY DEF Po!SkippedBlock, Po!Star
<1>4. Body(star)
  <2> HIDE DEF jump, base, n, Body
  <2> QED BY <1>1, <1>2, Iteration
<1> HIDE DEF star
<1> QED BY <1>3, <1>4

\* Skipped lines end where they began, or later.
LEMMA SkippedBlockFacts ==
    ASSUME NEW f \in Seq(STRING), NEW p \in Po!Positions(f)
    PROVE  Po!SkippedBlock(f, p) \in p..Ends(f)
<1> DEFINE jump == [q \in Po!Positions(f) |-> Po!SkippedLine(f, q)]
           Good == {q \in Po!Positions(f) : Po!SkippedBlock(f, q) \in q..Ends(f)}
<1>1. \A q \in Po!Positions(f) : jump[q] \in Later(f, q)
  BY SkippedLineFacts
<1>2. ASSUME NEW q \in Po!Positions(f), jump[q] = Po!Fail \/ jump[q] \in Good
      PROVE  q \in Good
  BY <1>1, <1>2, SkippedBlockUnfolds, Positive DEF Later
<1>3. Good = Po!Positions(f)
  <2> HIDE DEF jump
  <2> QED BY <1>1, <1>2, FromTheEnd
<1> QED BY <1>3

\* The comments of one block.
CommentBlock(f, p) == Po!Star(Po!PreambleCommentLine, f, p)

\* A block of comments is a comment and the block behind it, if there is one.
LEMMA CommentBlockUnfolds ==
    ASSUME NEW f \in Seq(STRING), NEW p \in Po!Positions(f)
    PROVE  CommentBlock(f, p) =
             IF Po!PreambleCommentLine(f, p) = Po!Fail THEN p
             ELSE CommentBlock(f, Po!PreambleCommentLine(f, p))
<1> DEFINE n == Ends(f)
           jump == [q \in 1..n |-> Po!PreambleCommentLine(f, q)]
           base == [q \in 1..n |-> q]
           Body(g) == g = [q \in Po!Positions(f) |->
                             IF Po!PreambleCommentLine(f, q) = Po!Fail THEN q
                             ELSE g[Po!PreambleCommentLine(f, q)]]
           star == CHOOSE g : Body(g)
<1>1. Steps(jump, base, n)
  BY CommentFacts, StarSteps, Positive
<1>2. \A g : Iterates(g, jump, base, n) <=> Body(g)
  BY Positive DEF Iterates, Po!Fail
<1>3. ASSUME NEW q PROVE CommentBlock(f, q) = star[q]
  BY DEF CommentBlock, Po!Star
<1>4. Body(star)
  <2> HIDE DEF jump, base, n, Body
  <2> QED BY <1>1, <1>2, Iteration
<1> HIDE DEF star
<1> QED BY <1>3, <1>4

\* A block of comments ends where it began, or later.
LEMMA CommentBlockFacts ==
    ASSUME NEW f \in Seq(STRING), NEW p \in Po!Positions(f)
    PROVE  CommentBlock(f, p) \in p..Ends(f)
<1> DEFINE jump == [q \in Po!Positions(f) |-> Po!PreambleCommentLine(f, q)]
           Good == {q \in Po!Positions(f) : CommentBlock(f, q) \in q..Ends(f)}
<1>1. \A q \in Po!Positions(f) : jump[q] \in Later(f, q)
  BY CommentFacts
<1>2. ASSUME NEW q \in Po!Positions(f), jump[q] = Po!Fail \/ jump[q] \in Good
      PROVE  q \in Good
  BY <1>1, <1>2, CommentBlockUnfolds, Positive DEF Later
<1>3. Good = Po!Positions(f)
  <2> HIDE DEF jump
  <2> QED BY <1>1, <1>2, FromTheEnd
<1> QED BY <1>3

\* A block of comments that a white line ends.
IgnoredBlock(f, p) == Po!EndLine(f, Po!WhiteLine(f, CommentBlock(f, p)))

\* A block of comments with the white line behind it is not empty.
LEMMA IgnoredBlockFacts ==
    ASSUME NEW f \in Seq(STRING), NEW p \in Po!Positions(f)
    PROVE  IgnoredBlock(f, p) \in Later(f, p)
<1>1. PICK q : q = CommentBlock(f, p)
  OBVIOUS
<1>2. q \in p..Ends(f) /\ q \in Po!Positions(f)
  BY <1>1, CommentBlockFacts, Positive
<1>3. Po!WhiteLine(f, q) \in q..Ends(f)
  BY <1>2, WhiteLineFacts
<1>4. Po!WhiteLine(f, q) \in p..Ends(f)
  BY <1>2, <1>3, Positive
<1> QED BY <1>1, <1>4, EndLineFacts DEF IgnoredBlock

\* Blocks of comments are a block and the blocks behind it, if there is one.
LEMMA IgnoredCommentsUnfold ==
    ASSUME NEW f \in Seq(STRING), NEW p \in Po!Positions(f)
    PROVE  Po!IgnoredComments(f, p) =
             IF IgnoredBlock(f, p) = Po!Fail THEN p
             ELSE Po!IgnoredComments(f, IgnoredBlock(f, p))
<1> DEFINE n == Ends(f)
           jump == [q \in 1..n |-> IgnoredBlock(f, q)]
           base == [q \in 1..n |-> q]
           Body(g) == g = [q \in Po!Positions(f) |->
                             IF IgnoredBlock(f, q) = Po!Fail THEN q ELSE g[IgnoredBlock(f, q)]]
           star == CHOOSE g : Body(g)
<1>1. Steps(jump, base, n)
  BY IgnoredBlockFacts, StarSteps, Positive
<1>2. \A g : Iterates(g, jump, base, n) <=> Body(g)
  BY Positive DEF Iterates, Po!Fail
<1>3. ASSUME NEW q PROVE Po!IgnoredComments(f, q) = star[q]
  BY DEF Po!IgnoredComments, IgnoredBlock, CommentBlock, Po!Star
<1>4. Body(star)
  <2> HIDE DEF jump, base, n, Body
  <2> QED BY <1>1, <1>2, Iteration
<1> HIDE DEF star
<1> QED BY <1>3, <1>4

\* Blocks of comments end where they began, or later.
LEMMA IgnoredCommentsFacts ==
    ASSUME NEW f \in Seq(STRING), NEW p \in Po!Positions(f)
    PROVE  Po!IgnoredComments(f, p) \in p..Ends(f)
<1> DEFINE jump == [q \in Po!Positions(f) |-> IgnoredBlock(f, q)]
           Good == {q \in Po!Positions(f) : Po!IgnoredComments(f, q) \in q..Ends(f)}
<1>1. \A q \in Po!Positions(f) : jump[q] \in Later(f, q)
  BY IgnoredBlockFacts
<1>2. ASSUME NEW q \in Po!Positions(f), jump[q] = Po!Fail \/ jump[q] \in Good
      PROVE  q \in Good
  BY <1>1, <1>2, IgnoredCommentsUnfold, Positive DEF Later
<1>3. Good = Po!Positions(f)
  <2> HIDE DEF jump
  <2> QED BY <1>1, <1>2, FromTheEnd
<1> QED BY <1>3

\* The comments behind a marker.
Marked(f, p) == Po!OptionalComment(f, CommentBlock(f, Po!Fuzzy(f, p)))

\* Where the rule for the comments before a message looks next.
PreambleJump(f, p) ==
    IF Po!Fuzzy(f, p) # Po!Fail THEN Po!Fail ELSE Po!PreambleCommentLine(f, p)

\* Comments before a message are a marker and any comments, or a comment and more
\* comments, or none.
LEMMA MessagePreambleUnfolds ==
    ASSUME NEW f \in Seq(STRING), NEW p \in Po!Positions(f)
    PROVE  /\ PreambleJump(f, p) \in Later(f, p)
           /\ Po!MessagePreamble(f, p) =
                IF Po!Fuzzy(f, p) # Po!Fail THEN [next |-> Marked(f, p), fuzzy |-> TRUE]
                ELSE IF PreambleJump(f, p) # Po!Fail THEN Po!MessagePreamble(f, PreambleJump(f, p))
                ELSE [next |-> Po!OptionalComment(f, p), fuzzy |-> FALSE]
<1> DEFINE n == Ends(f)
           jump == [q \in 1..n |-> PreambleJump(f, q)]
           base == [q \in 1..n |->
                      IF Po!Fuzzy(f, q) # Po!Fail THEN [next |-> Marked(f, q), fuzzy |-> TRUE]
                      ELSE [next |-> Po!OptionalComment(f, q), fuzzy |-> FALSE]]
           Body(g) == g = [q \in Po!Positions(f) |->
                 IF Po!Fuzzy(f, q) # Po!Fail
                 THEN [next |-> Po!OptionalComment(f, CommentBlock(f, Po!Fuzzy(f, q))),
                       fuzzy |-> TRUE]
                 ELSE IF Po!PreambleCommentLine(f, q) # Po!Fail
                      THEN g[Po!PreambleCommentLine(f, q)]
                 ELSE [next |-> Po!OptionalComment(f, q), fuzzy |-> FALSE]]
           preamble == CHOOSE g : Body(g)
<1>a. \A q \in 1..n : jump[q] \in Later(f, q)
  BY CommentFacts, Positive DEF Later, PreambleJump
<1>1. Steps(jump, base, n)
  BY <1>a, StarSteps
<1>2. \A g : Iterates(g, jump, base, n) <=> Body(g)
  BY Positive DEF Iterates, Po!Fail, PreambleJump, Marked
<1>3. ASSUME NEW q PROVE Po!MessagePreamble(f, q) = preamble[q]
  BY DEF Po!MessagePreamble, CommentBlock
<1>4. Body(preamble)
  <2> HIDE DEF jump, base, n, Body
  <2> QED BY <1>1, <1>2, Iteration
<1>5. PreambleJump(f, p) \in Later(f, p)
  BY <1>a, Positive
<1> HIDE DEF preamble
<1> QED BY <1>3, <1>4, <1>5 DEF PreambleJump, Marked

\* Behind a marker come comments, and then another position.
LEMMA MarkedFacts ==
    ASSUME NEW f \in Seq(STRING), NEW p \in Po!Positions(f), Po!Fuzzy(f, p) # Po!Fail
    PROVE  /\ Po!Fuzzy(f, p) \in Po!Positions(f)
           /\ CommentBlock(f, Po!Fuzzy(f, p)) \in Po!Positions(f)
           /\ Marked(f, p) \in p..Ends(f)
<1>1. PICK r : r = Po!Fuzzy(f, p)
  OBVIOUS
<1>2. r \in (p + 1)..Ends(f) /\ r \in Po!Positions(f) /\ p \in Nat /\ Ends(f) \in Nat
  BY <1>1, FuzzyFacts, Positive DEF Later
<1>3. PICK s : s = CommentBlock(f, r)
  OBVIOUS
<1>4. s \in r..Ends(f) /\ s \in Po!Positions(f)
  BY <1>2, <1>3, CommentBlockFacts, Positive
<1>5. Po!OptionalComment(f, s) \in s..Ends(f)
  BY <1>4, CommentFacts
<1> QED BY <1>1, <1>2, <1>3, <1>4, <1>5 DEF Marked

\* The comments before a message end where they began, or later.
LEMMA MessagePreambleFacts ==
    ASSUME NEW f \in Seq(STRING), NEW p \in Po!Positions(f)
    PROVE  /\ Po!MessagePreamble(f, p).next \in p..Ends(f)
           /\ Po!MessagePreamble(f, p).fuzzy \in BOOLEAN
<1> DEFINE jump == [q \in Po!Positions(f) |-> PreambleJump(f, q)]
           Good == {q \in Po!Positions(f) : /\ Po!MessagePreamble(f, q).next \in q..Ends(f)
                                            /\ Po!MessagePreamble(f, q).fuzzy \in BOOLEAN}
<1>1. \A q \in Po!Positions(f) : jump[q] \in Later(f, q)
  BY MessagePreambleUnfolds
<1>2. ASSUME NEW q \in Po!Positions(f), jump[q] = Po!Fail \/ jump[q] \in Good
      PROVE  q \in Good
  <2>1. CASE Po!Fuzzy(f, q) # Po!Fail
    <3>1. Po!MessagePreamble(f, q) = [next |-> Marked(f, q), fuzzy |-> TRUE]
      BY <2>1, MessagePreambleUnfolds
    <3>2. Marked(f, q) \in q..Ends(f)
      BY <2>1, MarkedFacts
    <3>3. Po!MessagePreamble(f, q).next = Marked(f, q) /\ Po!MessagePreamble(f, q).fuzzy = TRUE
      BY <3>1
    <3> QED BY <3>2, <3>3
  <2>2. CASE Po!Fuzzy(f, q) = Po!Fail /\ jump[q] = Po!Fail
    <3>1. Po!MessagePreamble(f, q) = [next |-> Po!OptionalComment(f, q), fuzzy |-> FALSE]
      BY <2>2, MessagePreambleUnfolds
    <3>2. Po!OptionalComment(f, q) \in q..Ends(f)
      BY CommentFacts
    <3>3. /\ Po!MessagePreamble(f, q).next = Po!OptionalComment(f, q)
          /\ Po!MessagePreamble(f, q).fuzzy = FALSE
      BY <3>1
    <3> QED BY <3>2, <3>3
  <2>3. CASE Po!Fuzzy(f, q) = Po!Fail /\ jump[q] # Po!Fail
    <3>1. Po!MessagePreamble(f, q) = Po!MessagePreamble(f, jump[q])
      BY <2>3, MessagePreambleUnfolds
    <3>2. jump[q] \in Good /\ jump[q] \in (q + 1)..Ends(f)
      BY <1>1, <1>2, <2>3 DEF Later
    <3> HIDE DEF jump
    <3> QED BY <3>1, <3>2, Positive
  <2> QED BY <2>1, <2>2, <2>3
<1>3. Good = Po!Positions(f)
  <2> HIDE DEF jump
  <2> QED BY <1>1, <1>2, FromTheEnd
<1> QED BY <1>3
-----------------------------------------------------------------------------
(* Strings *)

\* What strings consist of.
Contents(f) == {Po!Decoded(f[i]) : i \in DOMAIN f}

\* What the rule for a string returns from position p on.
StringsAfter(f, p) == {Po!Rejected} \cup [next : (p + 1)..Ends(f), text : Seq(Contents(f))]

\* Where the text of a string ends.
TextEnd(f, p) == Po!First(f, p + 1, LAMBDA t : t \in {"\"", "\\"})

\* A string ends behind its opening quote, or with the file, at the next quote or
\* stray backslash.
LEMMA TextEndFacts ==
    ASSUME NEW f \in Seq(STRING), NEW p \in Po!Positions(f), p <= Len(f)
    PROVE  /\ TextEnd(f, p) \in (p + 1)..Ends(f)
           /\ TextEnd(f, p) <= Len(f) => f[TextEnd(f, p)] \in {"\"", "\\"}
           /\ \A r \in (p + 1)..(TextEnd(f, p) - 1) : f[r] \notin {"\"", "\\"}
<1> DEFINE n == Ends(f)
           Stops == {"\"", "\\"}
           T == {q \in 1..Len(f) : f[q] \in Stops}
           Found(q) == /\ q <= Len(f) => f[q] \in Stops
                       /\ \A r \in (p + 1)..(q - 1) : ~(f[r] \in Stops)
<1>0. TextEnd(f, p) = CHOOSE x \in (p + 1)..n : Found(x)
  BY DEF TextEnd, Po!First, Ends
<1> HIDE DEF Stops
<1>1. n \in Nat /\ p + 1 \in 1..n /\ T \in SUBSET Nat
  BY Positive
<1>2. PICK q \in (p + 1)..n : (q < n => q \in T) /\ \A r \in (p + 1)..(q - 1) : r \notin T
  <2> HIDE DEF n, T
  <2> QED BY <1>1, Least
<1>3. Found(q)
  BY <1>1, <1>2, Positive
<1>4. TextEnd(f, p) \in (p + 1)..n /\ Found(TextEnd(f, p))
  <2> HIDE DEF Found
  <2> QED BY <1>0, <1>2, <1>3
<1> QED BY <1>4 DEF Stops

\* A piece of a string is not empty, and its text is made of the tokens of the file.
LEMMA SingleLineStringFacts ==
    ASSUME NEW f \in Seq(STRING), NEW p \in Po!Positions(f)
    PROVE  Po!SingleLineString(f, p) \in StringsAfter(f, p)
<1>1. PICK end : end = TextEnd(f, p)
  OBVIOUS
<1> DEFINE text == [i \in 1..(end - p - 1) |-> Po!Decoded(f[p + i])]
           Matches == Po!At(f, p, "\"") /\ Po!At(f, end, "\"")
<1>2. Po!SingleLineString(f, p) =
        IF Matches THEN [next |-> end + 1, text |-> text] ELSE Po!Rejected
  BY <1>1 DEF TextEnd, Po!SingleLineString
<1>3. ASSUME Matches
      PROVE  end + 1 \in (p + 1)..Ends(f) /\ text \in Seq(Contents(f))
  <2>1. p \in 1..Len(f) /\ end \in 1..Len(f)
    BY <1>3, Positive DEF Po!At
  <2>2. end \in (p + 1)..Ends(f)
    <3>1. p <= Len(f)
      BY <2>1, Positive
    <3>2. TextEnd(f, p) \in (p + 1)..Ends(f)
      BY <3>1, TextEndFacts
    <3> QED BY <1>1, <3>2
  <2>3. end - p - 1 \in Nat /\ end + 1 \in (p + 1)..Ends(f)
    BY <2>1, <2>2, Positive
  <2>4. ASSUME NEW i \in 1..(end - p - 1)
        PROVE  Po!Decoded(f[p + i]) \in Contents(f)
    <3>1. p + i \in DOMAIN f
      BY <2>1, <2>2, Positive
    <3> QED BY <3>1 DEF Contents
  <2> QED BY <2>3, <2>4
<1> HIDE DEF Matches, text
<1> QED BY <1>2, <1>3 DEF StringsAfter

\* Behind a piece of a string come the lines that separate it from the next.
LEMMA PieceFacts ==
    ASSUME NEW f \in Seq(STRING), NEW p \in Po!Positions(f), NEW r,
           r = Po!SingleLineString(f, p), r.next # Po!Fail
    PROVE  /\ r \in [next : (p + 1)..Ends(f), text : Seq(Contents(f))]
           /\ r.next \in Po!Positions(f)
           /\ Po!SkippedBlock(f, r.next) \in (p + 1)..Ends(f)
           /\ Po!SkippedBlock(f, r.next) \in Po!Positions(f)
<1>1. p \in Nat /\ Ends(f) \in Nat /\ Po!Positions(f) = 1..Ends(f)
  BY Positive
<1>2. r \in [next : (p + 1)..Ends(f), text : Seq(Contents(f))]
  BY SingleLineStringFacts DEF StringsAfter, Po!Rejected
<1>3. r.next \in Po!Positions(f) /\ p + 1 <= r.next
  BY <1>1, <1>2
<1>4. Po!SkippedBlock(f, r.next) \in r.next..Ends(f)
  BY <1>3, SkippedBlockFacts
<1> QED BY <1>1, <1>2, <1>3, <1>4

\* A piece, and what follows if anything does.
Joined(first, rest) ==
    IF rest.next = Po!Fail THEN first
    ELSE [next |-> rest.next, text |-> first.text \o rest.text]

\* It ends behind the piece.
LEMMA JoinedFacts ==
    ASSUME NEW f \in Seq(STRING), NEW p \in Po!Positions(f),
           NEW r \in [next : (p + 1)..Ends(f), text : Seq(Contents(f))],
           NEW m \in p..Ends(f), NEW v \in StringsAfter(f, m)
    PROVE  Joined(r, v) \in [next : (p + 1)..Ends(f), text : Seq(Contents(f))]
<1>1. CASE v.next = Po!Fail
  BY <1>1 DEF Joined
<1>2. CASE v.next # Po!Fail
  <2>1. v \in [next : (m + 1)..Ends(f), text : Seq(Contents(f))]
    BY <1>2 DEF StringsAfter, Po!Rejected
  <2>2. v.next \in (p + 1)..Ends(f)
    <3>1. p \in Nat /\ Ends(f) \in Nat
      BY Positive
    <3> QED BY <2>1, <3>1
  <2>3. r.text \o v.text \in Seq(Contents(f))
    BY <2>1
  <2> QED BY <1>2, <2>2, <2>3 DEF Joined
<1> QED BY <1>1, <1>2

\* Where the next piece of a string would begin.
NextPiece(f, p) ==
    IF Po!SingleLineString(f, p).next = Po!Fail THEN Po!Fail
    ELSE Po!SkippedBlock(f, Po!SingleLineString(f, p).next)

\* A string is a piece and the string behind the lines after it, if there is one.
LEMMA MultilineStringUnfolds ==
    ASSUME NEW f \in Seq(STRING), NEW p \in Po!Positions(f)
    PROVE  /\ NextPiece(f, p) \in Later(f, p)
           /\ Po!MultilineString(f, p) =
                IF Po!SingleLineString(f, p).next = Po!Fail THEN Po!Rejected
                ELSE Joined(Po!SingleLineString(f, p), Po!MultilineString(f, NextPiece(f, p)))
<1> DEFINE n == Ends(f)
           D == 1..n
           Piece(q) == Po!SingleLineString(f, q)
           Strings == [next : D, text : Seq(Contents(f))]
           V == {Po!Rejected} \cup Strings
           stop == {q \in D : Piece(q).next = Po!Fail}
           base == [q \in D |-> Po!Rejected]
           jump == [q \in D |-> IF q \in stop THEN q ELSE Po!SkippedBlock(f, Piece(q).next)]
           step == [q \in D |-> [v \in V |->
                      IF q \in stop THEN Po!Rejected ELSE Joined(Piece(q), v)]]
           rank == [q \in D |-> n - q]
           Body(g) == g = [q \in Po!Positions(f) |->
                             IF Piece(q).next = Po!Fail THEN Po!Rejected
                             ELSE Joined(Piece(q), g[Po!SkippedBlock(f, Piece(q).next)])]
           list == CHOOSE g : Body(g)
<1>0. ASSUME NEW q PROVE Po!MultilineString(f, q) = list[q]
  BY DEF Po!MultilineString, Po!StringList, Joined
<1>a. n \in Nat /\ D = 1..n /\ Po!Positions(f) = D /\ p \in D
  BY Positive
<1>1. ASSUME NEW q \in D \ stop
      PROVE  /\ Piece(q) \in Strings
             /\ Po!SkippedBlock(f, Piece(q).next) \in (q + 1)..n
             /\ Po!SkippedBlock(f, Piece(q).next) \in D
  <2>1. PICK r : r = Piece(q)
    OBVIOUS
  <2>2. r.next # Po!Fail /\ q \in Po!Positions(f)
    BY <1>a, <2>1
  <2>3. /\ r \in [next : (q + 1)..n, text : Seq(Contents(f))] /\ r.next \in D
        /\ Po!SkippedBlock(f, r.next) \in (q + 1)..n
        /\ Po!SkippedBlock(f, r.next) \in D
    BY <1>a, <2>1, <2>2, PieceFacts
  <2>4. r \in Strings
    BY <2>3
  <2> QED BY <2>1, <2>3, <2>4
<1>2. Descends(D, V, stop, base, jump, step, rank, n)
  <2>1. rank \in [D -> 0..n] /\ stop \in SUBSET D /\ base \in [D -> V]
    BY <1>a
  <2>2. jump \in [D -> D] /\ \A q \in D \ stop : rank[jump[q]] < rank[q]
    <3>1. ASSUME NEW q \in D
          PROVE  jump[q] \in D /\ (q \notin stop => rank[jump[q]] < rank[q])
      <4>1. CASE q \in stop
        BY <4>1
      <4>2. CASE q \notin stop
        <5>1. jump[q] = Po!SkippedBlock(f, Piece(q).next)
          BY <4>2
        <5>2. jump[q] \in (q + 1)..n /\ jump[q] \in D
          BY <5>1, <1>1, <4>2
        <5>3. rank[q] = n - q /\ rank[jump[q]] = n - jump[q]
          BY <5>2
        <5> QED BY <1>a, <5>2, <5>3
      <4> QED BY <4>1, <4>2
    <3>2. jump = [q \in D |-> jump[q]]
      OBVIOUS
    <3> HIDE DEF jump
    <3> QED BY <3>1, <3>2
  <2>3. step \in [D -> [V -> V]]
    <3>1. ASSUME NEW q \in D \ stop, NEW v \in V
          PROVE  Joined(Piece(q), v) \in V
      <4>1. PICK r \in Strings : r = Piece(q)
        BY <1>1
      <4>2. CASE v = Po!Rejected
        BY <4>1, <4>2 DEF Joined, Po!Rejected
      <4>3. CASE v \in Strings
        <5>1. v.next # Po!Fail /\ r.text \o v.text \in Seq(Contents(f))
          BY <1>a, <4>1, <4>3 DEF Po!Fail
        <5> QED BY <4>1, <4>3, <5>1 DEF Joined
      <4> QED BY <4>2, <4>3
    <3>2. ASSUME NEW q \in D, NEW v \in V
          PROVE  (IF q \in stop THEN Po!Rejected ELSE Joined(Piece(q), v)) \in V
      <4>1. Po!Rejected \in V
        OBVIOUS
      <4> HIDE DEF V, stop
      <4> QED BY <3>1, <4>1
    <3> HIDE DEF V, stop
    <3> QED BY <3>2
  <2> HIDE DEF D, V, stop, base, jump, step, rank
  <2> QED BY <1>a, <2>1, <2>2, <2>3 DEF Descends
<1>3. \E g : Body(g)
  <2>1. PICK g \in [D -> V] : Solves(g, D, stop, base, jump, step)
    <3> HIDE DEF D, V, stop, base, jump, step, rank
    <3> QED BY <1>2, Recursion
  <2>2. ASSUME NEW q \in D
        PROVE  g[q] = IF Piece(q).next = Po!Fail THEN Po!Rejected
                      ELSE Joined(Piece(q), g[Po!SkippedBlock(f, Piece(q).next)])
    <3>1. g[q] = IF q \in stop THEN base[q] ELSE step[q][g[jump[q]]]
      BY <2>1 DEF Solves
    <3>2. CASE q \in stop
      BY <3>1, <3>2
    <3>3. CASE q \notin stop
      <4>1. jump[q] = Po!SkippedBlock(f, Piece(q).next) /\ jump[q] \in D
        BY <3>3, <1>1
      <4>2. PICK v \in V : v = g[jump[q]]
        BY <4>1
      <4>3. step[q][v] = Joined(Piece(q), v)
        BY <3>3
      <4>4. Piece(q).next # Po!Fail
        BY <3>3
      <4> QED BY <3>1, <3>3, <4>1, <4>2, <4>3, <4>4
    <3> QED BY <3>2, <3>3
  <2> QED BY <1>a, <2>2
<1>4. Body(list)
  <2> HIDE DEF Body
  <2> QED BY <1>3
<1>5. NextPiece(f, p) \in Later(f, p)
  <2>1. p \notin stop => Po!SkippedBlock(f, Piece(p).next) \in (p + 1)..n
    BY <1>1, <1>a
  <2>2. p \in stop <=> Piece(p).next = Po!Fail
    BY <1>a
  <2> HIDE DEF stop
  <2> QED BY <2>1, <2>2 DEF NextPiece, Later
<1>6. list[p] = IF Piece(p).next = Po!Fail THEN Po!Rejected
                ELSE Joined(Piece(p), list[Po!SkippedBlock(f, Piece(p).next)])
  <2> HIDE DEF list, D
  <2> QED BY <1>4, <1>a
<1> HIDE DEF list
<1> QED BY <1>0, <1>5, <1>6 DEF NextPiece

\* A string goes on behind the lines that separate its pieces.
LEMMA MultilineStringFacts ==
    ASSUME NEW f \in Seq(STRING), NEW p \in Po!Positions(f)
    PROVE  Po!MultilineString(f, p) \in StringsAfter(f, p)
<1> DEFINE jump == [q \in Po!Positions(f) |-> NextPiece(f, q)]
           Good == {q \in Po!Positions(f) : Po!MultilineString(f, q) \in StringsAfter(f, q)}
<1>1. \A q \in Po!Positions(f) : jump[q] \in Later(f, q)
  BY MultilineStringUnfolds
<1>2. ASSUME NEW q \in Po!Positions(f), jump[q] = Po!Fail \/ jump[q] \in Good
      PROVE  q \in Good
  <2>1. PICK r : r = Po!SingleLineString(f, q)
    OBVIOUS
  <2>2. CASE r.next = Po!Fail
    BY <2>1, <2>2, MultilineStringUnfolds DEF StringsAfter
  <2>3. CASE r.next # Po!Fail
    <3>1. PICK m : m = NextPiece(f, q)
      OBVIOUS
    <3>2. /\ r \in [next : (q + 1)..Ends(f), text : Seq(Contents(f))]
          /\ m \in (q + 1)..Ends(f) /\ m \in Po!Positions(f)
      BY <2>1, <2>3, <3>1, PieceFacts DEF NextPiece
    <3>3. m # Po!Fail /\ m \in q..Ends(f)
      BY <3>2, Positive DEF Po!Fail
    <3>4. PICK v : v = Po!MultilineString(f, m)
      OBVIOUS
    <3>5. v \in StringsAfter(f, m)
      BY <1>2, <3>1, <3>3, <3>4
    <3>6. Joined(r, v) \in [next : (q + 1)..Ends(f), text : Seq(Contents(f))]
      BY <3>2, <3>3, <3>5, JoinedFacts
    <3>7. Po!MultilineString(f, q) = Joined(r, v)
      BY <2>1, <2>3, <3>1, <3>4, MultilineStringUnfolds
    <3> QED BY <3>6, <3>7 DEF StringsAfter
  <2> QED BY <2>2, <2>3
<1>3. Good = Po!Positions(f)
  <2> HIDE DEF jump, Good
  <2>1. Good \in SUBSET Po!Positions(f)
    BY DEF Good
  <2> QED BY <1>1, <1>2, <2>1, FromTheEnd
<1> QED BY <1>3

\* A keyword and its string, with comments before.
LEMMA KeywordFacts ==
    ASSUME NEW f \in Seq(STRING), NEW p \in Po!Positions(f), NEW key
    PROVE  Po!Keyword(f, p, key) \in StringsAfter(f, p)
<1>1. PICK q : q = Po!SkippedBlock(f, p)
  OBVIOUS
<1>2. q \in p..Ends(f)
  BY <1>1, SkippedBlockFacts
<1>3. CASE Po!At(f, q, key)
  <2>1. q + 1 \in Po!Positions(f) /\ p < q + 1 /\ p \in Nat /\ q \in Nat /\ Ends(f) \in Nat
    BY <1>2, <1>3, Positive DEF Po!At
  <2>2. PICK r : r = Po!MultilineString(f, q + 1)
    OBVIOUS
  <2>3. r \in {Po!Rejected} \cup [next : (q + 1 + 1)..Ends(f), text : Seq(Contents(f))]
    BY <2>1, <2>2, MultilineStringFacts DEF StringsAfter
  <2>4. r \in StringsAfter(f, p)
    <3>1. CASE r = Po!Rejected
      BY <3>1 DEF StringsAfter
    <3>2. CASE r \in [next : (q + 1 + 1)..Ends(f), text : Seq(Contents(f))]
      <4>1. r.next \in (p + 1)..Ends(f)
        BY <3>2, <2>1, <1>2
      <4> QED BY <3>2, <4>1 DEF StringsAfter
    <3> QED BY <2>3, <3>1, <3>2
  <2>5. Po!Keyword(f, p, key) = r
    BY <1>1, <1>3, <2>2 DEF Po!Keyword
  <2> QED BY <2>4, <2>5
<1>4. CASE ~Po!At(f, q, key)
  BY <1>1, <1>4 DEF Po!Keyword, StringsAfter
<1> QED BY <1>3, <1>4

\* One string or more.
SomeStrings(f) == {t \in Seq(Seq(Contents(f))) : t # <<>>}

\* What a rule for the strings of a message returns.
StringListsAfter(f, p) == {Po!Rejected} \cup [next : (p + 1)..Ends(f), strings : SomeStrings(f)]

\* A first string with the strings that follow it.
LEMMA ThenFacts ==
    ASSUME NEW f \in Seq(STRING), NEW p \in Po!Positions(f),
           NEW first \in [next : (p + 1)..Ends(f), text : Seq(Contents(f))],
           NEW rest \in StringListsAfter(f, first.next)
    PROVE  Po!Then(first, rest) \in [next : (p + 1)..Ends(f), strings : SomeStrings(f)]
<1> DEFINE S == Seq(Contents(f))
<1>1. first.next \in (p + 1)..Ends(f) /\ first.text \in S /\ p \in Nat /\ Ends(f) \in Nat
  BY Positive
<1>2. <<first.text>> \in SomeStrings(f)
  <2> HIDE DEF S
  <2>1. <<first.text>> \in Seq(S) /\ <<first.text>> # <<>>
    BY <1>1
  <2> QED BY <2>1 DEF SomeStrings, S
<1>3. CASE rest.next = Po!Fail
  BY <1>1, <1>2, <1>3 DEF Po!Then
<1>4. CASE rest.next # Po!Fail
  <2>1. rest \in [next : (first.next + 1)..Ends(f), strings : SomeStrings(f)]
    BY <1>4 DEF StringListsAfter, Po!Rejected
  <2>2. rest.next \in (p + 1)..Ends(f)
    BY <1>1, <2>1
  <2>3. <<first.text>> \o rest.strings \in SomeStrings(f)
    <3>1. rest.strings \in Seq(S)
      BY <2>1 DEF SomeStrings
    <3> HIDE DEF S
    <3>2. <<first.text>> \o rest.strings \in Seq(S) /\ Len(<<first.text>> \o rest.strings) > 0
      BY <1>1, <3>1
    <3> QED BY <3>2 DEF SomeStrings, S
  <2> QED BY <1>4, <2>2, <2>3 DEF Po!Then
<1> QED BY <1>3, <1>4

\* There is a first keyword.
LEMMA KeysCount == Len(StrKeys) \in Nat /\ 1 \in 1..Len(StrKeys) /\ 1 \in 1..(Len(StrKeys) + 1)
<1>1. StrKeys \in Seq(STRING) /\ StrKeys # <<>>
  BY KeysAssumption
<1> QED BY <1>1

\* The strings from index i on.
StrsFrom(f, p, i) ==
    LET strs[at \in Po!Positions(f) \X (1..(Len(StrKeys) + 1))] ==
          LET j     == at[2]
              first == Po!Keyword(f, at[1], StrKeys[j])
          IN  IF j > Len(StrKeys) \/ first.next = Po!Fail THEN Po!Rejected
              ELSE Po!Then(first, strs[<<first.next, j + 1>>])
    IN  strs[<<p, i>>]

\* They are a string and those from the next index on, if there are any.
LEMMA StrsFromUnfolds ==
    ASSUME NEW f \in Seq(STRING), NEW p \in Po!Positions(f),
           NEW i \in 1..(Len(StrKeys) + 1), NEW first, first = Po!Keyword(f, p, StrKeys[i])
    PROVE  StrsFrom(f, p, i) =
             IF i > Len(StrKeys) \/ first.next = Po!Fail THEN Po!Rejected
             ELSE Po!Then(first, StrsFrom(f, first.next, i + 1))
<1> DEFINE n == Ends(f)
           k == Len(StrKeys)
           D == Po!Positions(f) \X (1..(k + 1))
           V == {Po!Rejected} \cup [next : Po!Positions(f), strings : SomeStrings(f)]
           First(at) == Po!Keyword(f, at[1], StrKeys[at[2]])
           Stops(at) == at[2] > k \/ First(at).next = Po!Fail
           stop == {at \in D : Stops(at)}
           base == [at \in D |-> Po!Rejected]
           After(at) == <<First(at).next, at[2] + 1>>
           jump == [at \in D |-> IF at \in stop THEN at ELSE After(at)]
           step == [at \in D |-> [v \in V |->
                      IF at \in stop THEN Po!Rejected ELSE Po!Then(First(at), v)]]
           rank == [at \in D |-> (k + 1) - at[2]]
           Body(g) == g = [at \in D |-> IF Stops(at) THEN Po!Rejected
                                        ELSE Po!Then(First(at), g[After(at)])]
           strs == CHOOSE g : Body(g)
<1>0. ASSUME NEW q, NEW j PROVE StrsFrom(f, q, j) = strs[<<q, j>>]
  BY DEF StrsFrom
<1>a. n \in Nat /\ Po!Positions(f) = 1..n /\ k \in Nat /\ <<p, i>> \in D
  BY Positive, KeysCount
<1> HIDE DEF k
<1>1. ASSUME NEW at \in D \ stop
      PROVE  /\ First(at) \in [next : (at[1] + 1)..n, text : Seq(Contents(f))]
             /\ at[1] \in Po!Positions(f)
             /\ After(at) \in D /\ After(at)[1] = First(at).next
             /\ After(at)[2] = at[2] + 1 /\ at[2] \in 1..k
  <2>1. PICK r : r = First(at)
    OBVIOUS
  <2>2. at[1] \in Po!Positions(f) /\ at[2] \in 1..k /\ r.next # Po!Fail
    BY <1>a, <2>1
  <2>3. r \in StringsAfter(f, at[1])
    BY <2>1, <2>2, KeywordFacts
  <2>4. r \in [next : (at[1] + 1)..n, text : Seq(Contents(f))]
    BY <2>2, <2>3 DEF StringsAfter, Po!Rejected
  <2>5. r.next \in Po!Positions(f)
    BY <1>a, <2>2, <2>4
  <2>6. After(at) = <<r.next, at[2] + 1>>
    BY <2>1
  <2> QED BY <1>a, <2>1, <2>2, <2>4, <2>5, <2>6
<1>2. Descends(D, V, stop, base, jump, step, rank, k)
  <2>1. rank \in [D -> 0..k] /\ stop \in SUBSET D /\ base \in [D -> V]
    BY <1>a
  <2>2. jump \in [D -> D] /\ \A at \in D \ stop : rank[jump[at]] < rank[at]
    <3>1. ASSUME NEW at \in D
          PROVE  jump[at] \in D /\ (at \notin stop => rank[jump[at]] < rank[at])
      <4>1. CASE at \in stop
        BY <4>1
      <4>2. CASE at \notin stop
        <5>1. jump[at] = After(at)
          BY <4>2
        <5>2. After(at) \in D /\ After(at)[2] = at[2] + 1 /\ at[2] \in 1..k
          BY <1>1, <4>2
        <5>3. rank[at] = (k + 1) - at[2] /\ rank[After(at)] = (k + 1) - (at[2] + 1)
          <6> HIDE DEF After
          <6> QED BY <5>2
        <5> QED BY <1>a, <5>1, <5>2, <5>3
      <4> QED BY <4>1, <4>2
    <3>2. jump = [at \in D |-> jump[at]]
      OBVIOUS
    <3> HIDE DEF jump
    <3> QED BY <3>1, <3>2
  <2>3. step \in [D -> [V -> V]]
    <3>1. ASSUME NEW at \in D, NEW v \in V
          PROVE  (IF at \in stop THEN Po!Rejected ELSE Po!Then(First(at), v)) \in V
      <4>1. CASE at \in stop
        BY <4>1
      <4>2. CASE at \notin stop
        <5>1. PICK r : r = First(at)
          OBVIOUS
        <5>2. r \in [next : Po!Positions(f), text : Seq(Contents(f))]
          BY <1>a, <1>1, <4>2, <5>1
        <5>3. Po!Then(r, v) \in V
          <6>1. CASE v.next = Po!Fail
            <7>1. Po!Then(r, v) = [next |-> r.next, strings |-> <<r.text>>]
              BY <6>1 DEF Po!Then
            <7>2. <<r.text>> \in SomeStrings(f)
              <8>1. PICK S : S = Seq(Contents(f))
                OBVIOUS
              <8>2. <<r.text>> \in Seq(S) /\ <<r.text>> # <<>>
                BY <5>2, <8>1
              <8> QED BY <8>1, <8>2 DEF SomeStrings
            <7> QED BY <5>2, <7>1, <7>2
          <6>2. CASE v.next # Po!Fail
            <7>1. v \in [next : Po!Positions(f), strings : SomeStrings(f)]
              BY <6>2 DEF Po!Rejected
            <7>2. Po!Then(r, v) = [next |-> v.next, strings |-> <<r.text>> \o v.strings]
              BY <6>2 DEF Po!Then
            <7>3. <<r.text>> \o v.strings \in SomeStrings(f)
              <8>1. PICK S : S = Seq(Contents(f))
                OBVIOUS
              <8>2. r.text \in S /\ v.strings \in Seq(S)
                BY <5>2, <7>1, <8>1 DEF SomeStrings
              <8>3. <<r.text>> \o v.strings \in Seq(S) /\ Len(<<r.text>> \o v.strings) > 0
                BY <8>2
              <8> QED BY <8>1, <8>3 DEF SomeStrings
            <7> QED BY <7>1, <7>2, <7>3
          <6> QED BY <6>1, <6>2
        <5> QED BY <4>2, <5>1, <5>3
      <4> QED BY <4>1, <4>2
    <3> HIDE DEF V, stop, D, First
    <3> QED BY <3>1
  <2> HIDE DEF D, V, stop, base, jump, step, rank
  <2> QED BY <1>a, <2>1, <2>2, <2>3 DEF Descends
<1>3. \E g : Body(g)
  <2>1. PICK g \in [D -> V] : Solves(g, D, stop, base, jump, step)
    <3> HIDE DEF D, V, stop, base, jump, step, rank
    <3> QED BY <1>2, Recursion
  <2>2. ASSUME NEW at \in D
        PROVE  g[at] = IF Stops(at) THEN Po!Rejected ELSE Po!Then(First(at), g[After(at)])
    <3>1. g[at] = IF at \in stop THEN base[at] ELSE step[at][g[jump[at]]]
      BY <2>1 DEF Solves
    <3>2. CASE at \in stop
      BY <3>1, <3>2
    <3>3. CASE at \notin stop
      <4>1. jump[at] = After(at) /\ After(at) \in D
        BY <3>3, <1>1
      <4>2. PICK v \in V : v = g[After(at)]
        <5> HIDE DEF D, V, After
        <5> QED BY <4>1
      <4>3. step[at][v] = Po!Then(First(at), v)
        <5> HIDE DEF D, V, First
        <5> QED BY <3>3
      <4>4. ~Stops(at)
        BY <3>3
      <4> HIDE DEF First, After, Stops, step, jump, stop
      <4> QED BY <3>1, <3>3, <4>1, <4>2, <4>3, <4>4
    <3> QED BY <3>2, <3>3
  <2> HIDE DEF D, V, First, After, Stops
  <2> QED BY <2>2
<1>4. Body(strs)
  <2> HIDE DEF Body
  <2> QED BY <1>3
<1>5. strs[<<p, i>>] = IF Stops(<<p, i>>) THEN Po!Rejected
                       ELSE Po!Then(First(<<p, i>>), strs[After(<<p, i>>)])
  <2> HIDE DEF D, strs, First, After, Stops
  <2> QED BY <1>4, <1>a
<1>6. First(<<p, i>>) = first /\ After(<<p, i>>) = <<first.next, i + 1>>
  OBVIOUS
<1>7. Stops(<<p, i>>) <=> i > k \/ first.next = Po!Fail
  OBVIOUS
<1> HIDE DEF strs, First, After, Stops
<1> QED BY <1>0, <1>5, <1>6, <1>7 DEF k

\* If there is a string with index i, there is a position behind it.
LEMMA StrFacts ==
    ASSUME NEW f \in Seq(STRING), NEW p \in Po!Positions(f), NEW key, NEW r,
           r = Po!Keyword(f, p, key), r.next # Po!Fail
    PROVE  /\ r \in [next : (p + 1)..Ends(f), text : Seq(Contents(f))]
           /\ r.next \in Po!Positions(f)
<1>1. r \in [next : (p + 1)..Ends(f), text : Seq(Contents(f))]
  BY KeywordFacts DEF StringsAfter, Po!Rejected
<1> QED BY <1>1, Positive

\* The strings from an index on are not empty.
LEMMA StrsFromFacts ==
    ASSUME NEW f \in Seq(STRING), NEW p \in Po!Positions(f), NEW i \in 1..(Len(StrKeys) + 1)
    PROVE  StrsFrom(f, p, i) \in StringListsAfter(f, p)
<1> DEFINE k == Len(StrKeys)
           D == Po!Positions(f) \X (1..(k + 1))
           rank == [at \in D |-> (k + 1) - at[2]]
           Good == {at \in D : StrsFrom(f, at[1], at[2]) \in StringListsAfter(f, at[1])}
<1>a. k \in Nat
  BY KeysCount
<1> HIDE DEF k
<1>1. \A at \in D : (\A e \in D : rank[e] < rank[at] => e \in Good) => at \in Good
  <2> SUFFICES ASSUME NEW at \in D, \A e \in D : rank[e] < rank[at] => e \in Good
               PROVE  at \in Good
    OBVIOUS
  <2>1. PICK q \in Po!Positions(f), j \in 1..(k + 1) : at = <<q, j>>
    OBVIOUS
  <2>2. PICK first : first = Po!Keyword(f, q, StrKeys[j])
    OBVIOUS
  <2>3. StrsFrom(f, q, j) = IF j > k \/ first.next = Po!Fail THEN Po!Rejected
                            ELSE Po!Then(first, StrsFrom(f, first.next, j + 1))
    BY <2>2, StrsFromUnfolds DEF k
  <2>4. CASE j > k \/ first.next = Po!Fail
    BY <2>1, <2>3, <2>4 DEF StringListsAfter
  <2>5. CASE ~(j > k) /\ first.next # Po!Fail
    <3>1. /\ first \in [next : (q + 1)..Ends(f), text : Seq(Contents(f))]
          /\ first.next \in Po!Positions(f)
      BY <2>2, <2>5, StrFacts
    <3>2. PICK e \in D : e = <<first.next, j + 1>>
      <4>1. j + 1 \in 1..(k + 1)
        BY <1>a, <2>5
      <4> QED BY <3>1, <4>1
    <3>3. rank[e] < rank[at]
      <4>1. e[2] = j + 1 /\ at[2] = j
        BY <2>1, <3>2
      <4>2. rank[e] = (k + 1) - (j + 1) /\ rank[at] = (k + 1) - j
        BY <4>1
      <4> QED BY <1>a, <4>2
    <3>4. PICK rest : rest = StrsFrom(f, first.next, j + 1)
      OBVIOUS
    <3>5. rest \in StringListsAfter(f, first.next)
      BY <3>2, <3>3, <3>4
    <3>6. Po!Then(first, rest) \in [next : (q + 1)..Ends(f), strings : SomeStrings(f)]
      BY <3>1, <3>5, ThenFacts
    <3> QED BY <2>1, <2>3, <2>5, <3>4, <3>6 DEF StringListsAfter
  <2> QED BY <2>4, <2>5
<1>2. Inherits(Good, D, rank)
  <2>1. Good \subseteq D
    OBVIOUS
  <2>2. rank \in [D -> Nat]
    BY <1>a
  <2> HIDE DEF Good, D, rank
  <2> QED BY <1>1, <2>1, <2>2 DEF Inherits
<1>3. Good = D
  <2> HIDE DEF Good, D, rank
  <2> QED BY <1>2, ByRank
<1>4. <<p, i>> \in Good
  BY <1>3 DEF k
<1> QED BY <1>4

\* A sequence of strings is not empty.
LEMMA MessageStrsFacts ==
    ASSUME NEW f \in Seq(STRING), NEW p \in Po!Positions(f)
    PROVE  /\ Po!MessageStrs(f, p) = StrsFrom(f, p, 1)
           /\ Po!MessageStrs(f, p) \in StringListsAfter(f, p)
<1>1. Po!MessageStrs(f, p) = StrsFrom(f, p, 1)
  BY DEF Po!MessageStrs, StrsFrom
<1>2. 1 \in 1..(Len(StrKeys) + 1)
  BY KeysCount
<1> QED BY <1>1, <1>2, StrsFromFacts
-----------------------------------------------------------------------------
(* Messages *)

\* What a rule for the translations of a message returns.
BodiesAfter(f, p) ==
    {Po!Rejected} \cup [next : (p + 1)..Ends(f), idPlural : Seq(Contents(f)),
                        strings : SomeStrings(f)]

\* A translation, with or without plural forms, has a string.
LEMMA TranslationsFacts ==
    ASSUME NEW f \in Seq(STRING), NEW p \in Po!Positions(f)
    PROVE  Po!Translations(f, p) \in BodiesAfter(f, p)
<1>a. p \in Nat /\ Ends(f) \in Nat /\ Po!Positions(f) = 1..Ends(f)
  BY Positive
<1>1. PICK plural, single : plural = Po!Keyword(f, p, "msgid_plural ") /\ single = Po!Keyword(f, p, "msgstr ")
  OBVIOUS
<1>2. plural \in StringsAfter(f, p) /\ single \in StringsAfter(f, p)
  BY <1>1, KeywordFacts
<1>3. PICK forms : forms = Po!PluralStrs(f, plural)
  OBVIOUS
<1>4. Po!Translations(f, p) = Po!Either(plural, forms, single)
  BY <1>1, <1>3 DEF Po!Translations, Po!TranslationsAfter
<1>5. CASE forms.next # Po!Fail
  <2>1. plural.next # Po!Fail
    BY <1>3, <1>5 DEF Po!PluralStrs, Po!Rejected
  <2>2. plural \in [next : (p + 1)..Ends(f), text : Seq(Contents(f))]
    BY <1>2, <2>1 DEF StringsAfter, Po!Rejected
  <2>3. plural.next \in Po!Positions(f) /\ p < plural.next
    BY <1>a, <2>2
  <2>4. forms \in StringListsAfter(f, plural.next)
    BY <1>3, <2>1, <2>3, MessageStrsFacts DEF Po!PluralStrs
  <2>5. forms \in [next : (plural.next + 1)..Ends(f), strings : SomeStrings(f)]
    BY <1>5, <2>4 DEF StringListsAfter, Po!Rejected
  <2>6. forms.next \in (p + 1)..Ends(f) /\ forms.strings \in SomeStrings(f)
    BY <1>a, <2>3, <2>5
  <2>7. Po!Either(plural, forms, single) =
          [next |-> forms.next, idPlural |-> plural.text, strings |-> forms.strings]
    BY <1>5 DEF Po!Either
  <2> QED BY <1>4, <2>2, <2>6, <2>7 DEF BodiesAfter
<1>6. CASE forms.next = Po!Fail /\ single.next # Po!Fail
  <2>1. single \in [next : (p + 1)..Ends(f), text : Seq(Contents(f))]
    BY <1>2, <1>6 DEF StringsAfter, Po!Rejected
  <2>2. <<single.text>> \in SomeStrings(f)
    <3>1. PICK S : S = Seq(Contents(f))
      OBVIOUS
    <3>2. <<single.text>> \in Seq(S) /\ <<single.text>> # <<>>
      BY <2>1, <3>1
    <3> QED BY <3>1, <3>2 DEF SomeStrings
  <2>3. <<>> \in Seq(Contents(f))
    OBVIOUS
  <2>4. Po!Either(plural, forms, single) =
          [next |-> single.next, idPlural |-> <<>>, strings |-> <<single.text>>]
    BY <1>6 DEF Po!Either
  <2> QED BY <1>4, <2>1, <2>2, <2>3, <2>4 DEF BodiesAfter
<1>7. CASE forms.next = Po!Fail /\ single.next = Po!Fail
  BY <1>4, <1>7 DEF Po!Either, BodiesAfter
<1> QED BY <1>5, <1>6, <1>7

\* What the grammar makes of a file.
MessagesIn(f) == [context : Seq(Contents(f)) \cup {NoContext}, id : Seq(Contents(f)),
                  idPlural : Seq(Contents(f)), strings : SomeStrings(f), line : {0}]

\* A message that is parsed is not empty, and has a string.
LEMMA MessageFacts ==
    ASSUME NEW f \in Seq(STRING), NEW p \in Po!Positions(f),
           Po!Message(f, p).next # Po!Fail
    PROVE  /\ Po!Message(f, p).next \in (p + 1)..Ends(f)
           /\ Po!Message(f, p).message \in MessagesIn(f)
<1>a. p \in Nat /\ Ends(f) \in Nat /\ Po!Positions(f) = 1..Ends(f)
  BY Positive
<1>1. PICK first : first = Po!Keyword(f, p, "msgctxt ")
  OBVIOUS
<1>2. PICK context : context = Po!Optional(first, p)
  OBVIOUS
<1>3. context.next \in p..Ends(f) /\ context.text \in Seq(Contents(f)) \cup {NoContext}
  <2>1. first \in StringsAfter(f, p)
    BY <1>1, KeywordFacts
  <2>2. CASE first.next = Po!Fail
    BY <1>a, <1>2, <2>2 DEF Po!Optional
  <2>3. CASE first.next # Po!Fail
    <3>1. first \in [next : (p + 1)..Ends(f), text : Seq(Contents(f))]
      BY <2>1, <2>3 DEF StringsAfter, Po!Rejected
    <3> QED BY <1>a, <1>2, <2>3, <3>1 DEF Po!Optional
  <2> QED BY <2>2, <2>3
<1>4. PICK id : id = Po!Keyword(f, context.next, "msgid ")
  OBVIOUS
<1>5. Po!Message(f, p) = Po!MessageWithId(f, context, id)
  BY <1>1, <1>2, <1>4 DEF Po!Message, Po!MessageWithContext
<1>6. id.next # Po!Fail
  BY <1>5 DEF Po!MessageWithId, Po!Rejected
<1>7. id \in [next : (context.next + 1)..Ends(f), text : Seq(Contents(f))]
  <2>1. context.next \in Po!Positions(f)
    BY <1>a, <1>3
  <2>2. id \in StringsAfter(f, context.next)
    BY <1>4, <2>1, KeywordFacts
  <2> QED BY <1>6, <2>2 DEF StringsAfter, Po!Rejected
<1>8. id.next \in Po!Positions(f) /\ p < id.next
  BY <1>a, <1>3, <1>7
<1>9. PICK body : body = Po!Translations(f, id.next)
  OBVIOUS
<1>10. Po!Message(f, p) = Po!Whole(context, id, body)
  BY <1>5, <1>6, <1>9 DEF Po!MessageWithId
<1>11. body.next # Po!Fail
  BY <1>10 DEF Po!Whole, Po!Rejected
<1>12. body \in [next : (id.next + 1)..Ends(f), idPlural : Seq(Contents(f)),
                 strings : SomeStrings(f)]
  <2>1. body \in BodiesAfter(f, id.next)
    BY <1>8, <1>9, TranslationsFacts
  <2> QED BY <1>11, <2>1 DEF BodiesAfter, Po!Rejected
<1>13. Po!Message(f, p) =
         [next |-> body.next,
          message |-> [context |-> context.text, id |-> id.text,
                       idPlural |-> body.idPlural, strings |-> body.strings, line |-> 0]]
  BY <1>10, <1>11 DEF Po!Whole
<1>14. body.next \in (p + 1)..Ends(f)
  BY <1>a, <1>8, <1>12
<1> QED BY <1>3, <1>7, <1>12, <1>13, <1>14 DEF MessagesIn
-----------------------------------------------------------------------------
(* The rounds of the loop *)

\* The iterator is in the file.  While the constructor is in its loop, there is
\* one token at least before it for each round and one for the header: a last
\* round, which fails, need not consume any.
RoundsInv ==
    /\ file \in Seq(STRING)
    /\ pos \in Po!Positions(file)
    /\ rounds \in Nat
    /\ rounds < pos
    /\ DOMAIN status = Cat
    /\ \A c, d \in Cat : status[c] = "loading" /\ status[d] = "loading" => c = d
    /\ \A c \in Cat : status[c] = "loading" => rounds + 1 < pos

\* Where the comments before a message end, in a round that begins at p.
PreambleEnd(f, p) == Po!MessagePreamble(f, Po!IgnoredComments(f, p)).next

\* The comments end where the round began, or later.
LEMMA PreambleFacts ==
    ASSUME NEW f \in Seq(STRING), NEW p \in Po!Positions(f)
    PROVE  PreambleEnd(f, p) \in p..Ends(f)
<1>1. PICK q : q = Po!IgnoredComments(f, p)
  OBVIOUS
<1>2. q \in p..Ends(f) /\ q \in Po!Positions(f) /\ p \in Nat
  BY <1>1, IgnoredCommentsFacts, Positive
<1>3. Po!MessagePreamble(f, q).next \in q..Ends(f)
  BY <1>2, MessagePreambleFacts
<1> QED BY <1>1, <1>2, <1>3, Positive DEF PreambleEnd

\* The constructor has not begun to read.
LEMMA RoundsInit == PoInit => RoundsInv
<1> SUFFICES ASSUME PoInit PROVE RoundsInv
  OBVIOUS
<1>1. file \in Seq(STRING) /\ pos = 1 /\ rounds = 0
  BY TokensAssumption DEF PoInit
<1>2. status = [c \in Cat |-> "none"]
  BY DEF PoInit, Init
<1> QED BY <1>1, <1>2, Positive DEF RoundsInv

\* A constructor that fails is not in its loop any more.
LEMMA FailLoadEnds ==
    ASSUME DOMAIN status = Cat, NEW c \in Cat, NEW object, FailLoad(c, object),
           \A d \in Cat : status[d] = "loading" => d = c
    PROVE  DOMAIN status' = Cat /\ \A d \in Cat : status'[d] # "loading"
BY DEF FailLoad

\* A header is read from the first position on.  If the loop begins after it,
\* something has been read.
LEMMA HeaderRounds ==
    ASSUME RoundsInv, NEW c \in Cat, NEW w \in BOOLEAN, ReadHeader(c, w)
    PROVE  RoundsInv'
<1>1. file \in Seq(STRING) /\ file' = file /\ rounds' = 0 /\ 1 \in Po!Positions(file)
  BY Positive DEF RoundsInv, ReadHeader
<1>2. PICK start : start = HeaderStart
  OBVIOUS
<1>3. start \in 1..Ends(file) /\ start \in Po!Positions(file)
  BY <1>1, <1>2, SkippedBlockFacts, Positive DEF HeaderStart
<1>4. PICK parsed : parsed = Po!Message(file, start)
  OBVIOUS
<1>5. \/ LoadUnparsable(c, w) /\ pos' = start
      \/ /\ parsed.next # Po!Fail
         /\ \E header : LoadFrom(c, header, w)
         /\ pos' = parsed.next
  BY <1>2, <1>4 DEF ReadHeader
<1>6. \A d \in Cat : status[d] # "loading"
  BY <1>5 DEF LoadUnparsable, LoadFrom, LoadBadHeader, LoadBadPluralForms,
              LoadBadSingular, LoadHeader, StartLoad, Idle
<1>7. DOMAIN status = Cat
  BY DEF RoundsInv
<1>8. CASE LoadUnparsable(c, w) /\ pos' = start
  <2>1. DOMAIN status' = Cat /\ \A d \in Cat : status'[d] # "loading"
    BY <1>6, <1>7, <1>8, FailLoadEnds DEF LoadUnparsable
  <2>2. pos' \in Po!Positions(file) /\ 0 < pos'
    BY <1>1, <1>3, <1>8, Positive
  <2> QED BY <1>1, <2>1, <2>2 DEF RoundsInv
<1>9. ASSUME NEW header, LoadFrom(c, header, w), parsed.next # Po!Fail, pos' = parsed.next
      PROVE  RoundsInv'
  <2>1. pos' \in (start + 1)..Ends(file)
    BY <1>1, <1>3, <1>4, <1>9, MessageFacts
  <2>2. pos' \in Po!Positions(file) /\ 1 < pos'
    BY <1>1, <1>3, <2>1, Positive
  <2>3. DOMAIN status' = Cat /\ \A d \in Cat : status'[d] = "loading" => d = c
    <3>1. CASE LoadHeader(c, header, w)
      BY <1>6, <1>7, <3>1 DEF LoadHeader
    <3>2. CASE ~LoadHeader(c, header, w)
      <4>1. PICK object : FailLoad(c, object)
        BY <1>9, <3>2 DEF LoadFrom, LoadBadHeader, LoadBadPluralForms, LoadBadSingular
      <4> QED BY <1>6, <1>7, <4>1, FailLoadEnds
    <3> QED BY <3>1, <3>2
  <2>4. rounds' < pos' /\ rounds' + 1 < pos' /\ rounds' \in Nat
    BY <1>1, <2>2 DEF Po!Positions
  <2>5. file' \in Seq(STRING) /\ pos' \in Po!Positions(file')
    BY <1>1, <2>2
  <2>6. \A d, e \in Cat : status'[d] = "loading" /\ status'[e] = "loading" => d = e
    BY <2>3
  <2> QED BY <2>3, <2>4, <2>5, <2>6 DEF RoundsInv
<1> QED BY <1>5, <1>8, <1>9

\* Comments that the file ends in are consumed.
LEMMA CommentRounds ==
    ASSUME RoundsInv, NEW c \in Cat, ReadLastComments(c)
    PROVE  RoundsInv'
<1>1. /\ file \in Seq(STRING) /\ pos \in 1..Ends(file) /\ rounds \in Nat
      /\ Len(file) \in Nat /\ rounds < pos /\ Ends(file) = Len(file) + 1
      /\ Po!Positions(file) = 1..Ends(file)
  BY Positive DEF RoundsInv
<1>2. PreambleEnd(file, pos) \in pos..Ends(file)
  BY <1>1, PreambleFacts
<1>3. PICK end : end = PreambleEnd(file, pos)
  OBVIOUS
<1>4. pos' = end /\ pos <= Len(file) /\ end > Len(file) /\ rounds' = rounds + 1
  BY <1>3 DEF ReadLastComments, Preamble, PreambleEnd
<1>5. pos' \in Po!Positions(file) /\ rounds' < pos' /\ rounds' \in Nat
  BY <1>1, <1>2, <1>3, <1>4
<1>6. status[c] = "loading" /\ status' = status /\ file' = file
  BY DEF ReadLastComments, vars
<1>7. rounds' + 1 < pos'
  BY <1>1, <1>2, <1>3, <1>4, <1>6 DEF RoundsInv
<1>8. DOMAIN status' = Cat /\ \A d, e \in Cat :
         status'[d] = "loading" /\ status'[e] = "loading" => d = e
  BY <1>6 DEF RoundsInv
<1> QED BY <1>1, <1>5, <1>6, <1>7, <1>8 DEF RoundsInv

\* A message is consumed, or the loop ends with one that cannot be parsed.
LEMMA MessageRounds ==
    ASSUME RoundsInv, NEW c \in Cat, ReadMessage(c)
    PROVE  RoundsInv'
<1>1. /\ file \in Seq(STRING) /\ pos \in 1..Ends(file) /\ rounds \in Nat
      /\ Len(file) \in Nat /\ Ends(file) = Len(file) + 1
      /\ Po!Positions(file) = 1..Ends(file) /\ DOMAIN status = Cat
  BY Positive DEF RoundsInv
<1>2. PICK begin : begin = PreambleEnd(file, pos)
  OBVIOUS
<1>3. begin \in pos..Ends(file)
  BY <1>1, <1>2, PreambleFacts
<1>4. PICK parsed : parsed = Po!Message(file, begin)
  OBVIOUS
<1>5. file' = file /\ rounds' = rounds + 1
  BY DEF ReadMessage
<1>6. \/ ReadUnparsable(c) /\ pos' = begin
      \/ /\ parsed.next # Po!Fail
         /\ pos' = parsed.next
         /\ \/ \E m : ReadSecondHeader(c, m)
            \/ \E m, fuzzy : ReadEntry(c, m, fuzzy)
  BY <1>2, <1>4 DEF ReadMessage, Preamble, PreambleEnd
<1>7. status[c] = "loading"
  BY <1>6 DEF ReadUnparsable, ReadSecondHeader, ReadEntry
<1>8. rounds + 1 < pos /\ \A d \in Cat : status[d] = "loading" => d = c
  BY <1>7 DEF RoundsInv
<1>9. pos' \in begin..Ends(file)
  BY <1>1, <1>3, <1>4, <1>6, MessageFacts
<1>10. pos' \in Po!Positions(file') /\ rounds' < pos' /\ rounds' \in Nat /\ file' \in Seq(STRING)
  BY <1>1, <1>3, <1>5, <1>8, <1>9
<1>11. ASSUME NEW m, NEW fuzzy, ReadEntry(c, m, fuzzy), parsed.next # Po!Fail, pos' = parsed.next
       PROVE  RoundsInv'
  <2>1. pos' \in (begin + 1)..Ends(file)
    BY <1>1, <1>3, <1>4, <1>11, MessageFacts
  <2>2. rounds' + 1 < pos'
    BY <1>1, <1>3, <1>5, <1>8, <2>1
  <2>3. status' = status
    BY <1>11 DEF ReadEntry
  <2> QED BY <1>10, <2>2, <2>3 DEF RoundsInv
<1>12. ASSUME NEW object, FailLoad(c, object)
       PROVE  RoundsInv'
  <2>1. DOMAIN status' = Cat /\ \A d \in Cat : status'[d] # "loading"
    BY <1>1, <1>8, <1>12, FailLoadEnds
  <2> QED BY <1>10, <2>1 DEF RoundsInv
<1> QED BY <1>6, <1>11, <1>12 DEF ReadUnparsable, ReadSecondHeader

\* The other steps do not move the iterator, nor begin a loop.
LEMMA FinishRounds ==
    ASSUME RoundsInv,
           UNCHANGED <<file, pos, rounds>>,
           \/ UNCHANGED status
           \/ \E c \in Cat : status' = [status EXCEPT ![c] = "live"]
    PROVE  RoundsInv'
<1>1. /\ DOMAIN status' = Cat
      /\ \A d \in Cat : status'[d] = "loading" => status[d] = "loading"
  BY DEF RoundsInv
<1> QED BY <1>1 DEF RoundsInv, Po!Positions

\* Every step keeps the invariant.
LEMMA RoundsStep ==
    ASSUME RoundsInv, [PoNext]_poVars
    PROVE  RoundsInv'
<1>1. ASSUME NEW c \in Cat, NEW w \in BOOLEAN, ReadHeader(c, w)
      PROVE  RoundsInv'
  BY <1>1, HeaderRounds
<1>2. ASSUME NEW c \in Cat, ReadLastComments(c)
      PROVE  RoundsInv'
  BY <1>2, CommentRounds
<1>3. ASSUME NEW c \in Cat, ReadMessage(c)
      PROVE  RoundsInv'
  BY <1>3, MessageRounds
<1>4. ASSUME NEW c \in Cat, Finish(c)
      PROVE  RoundsInv'
  BY <1>4, FinishRounds DEF Finish, FinishLoad
<1>5. CASE UNCHANGED poVars
  BY <1>5, FinishRounds DEF poVars, vars
<1> QED BY <1>1, <1>2, <1>3, <1>4, <1>5 DEF PoNext, Over

\* Whatever the file, each round of the constructor's loop leaves the iterator
\* further than the rounds it took: the loop cannot go round without consuming
\* something, though the rules for comments that it starts with match nothing
\* too, and a load is over after at most as many rounds as the file is long.
THEOREM RoundsAlwaysConsume == PoSpec => []RoundsConsume
<1>1. PoSpec => []RoundsInv
  BY RoundsInit, RoundsStep, PTL DEF PoSpec
<1>2. RoundsInv => RoundsConsume
  BY DEF RoundsInv, RoundsConsume
<1> QED BY <1>1, <1>2, PTL
-----------------------------------------------------------------------------
(* Type correctness *)

\* The entries given to a catalog have a string each.
EntriesHaveStrings == \A c \in Cat : \A i \in DOMAIN log[c] : log[c][i].message.strings # <<>>

\* Catalog's invariant, where the iterator and the entries are, and the strings.
PoTypeInv ==
    /\ TypeInv
    /\ RoundsInv
    /\ file \in Files
    /\ starts \in Seq(Po!Positions(file))
    /\ EntriesHaveStrings

\* A sequence over a set is one over any larger set.
LEMMA WiderSeq ==
    ASSUME NEW S, NEW T, S \subseteq T
    PROVE  Seq(S) \subseteq Seq(T)
<1> SUFFICES ASSUME NEW s \in Seq(S) PROVE s \in Seq(T)
  OBVIOUS
<1>1. Len(s) \in Nat /\ s \in [1..Len(s) -> T]
  OBVIOUS
<1> QED BY <1>1

\* What the grammar finds in a file is a message.
LEMMA ParsedTypes ==
    ASSUME NEW f \in Files, NEW p \in Po!Positions(f), Po!Message(f, p).next # Po!Fail
    PROVE  Po!Message(f, p).message \in {m \in Message : m.strings # <<>>}
<1>1. f \in Seq(STRING) /\ Contents(f) \subseteq Atom
  BY TokensAssumption DEF Contents
<1>2. PICK m : m = Po!Message(f, p).message
  OBVIOUS
<1>3. m \in MessagesIn(f)
  BY <1>1, <1>2, MessageFacts
<1>4. Seq(Contents(f)) \subseteq Text
  BY <1>1, WiderSeq DEF Text
<1>5. Seq(Seq(Contents(f))) \subseteq Seq(Text)
  BY <1>4, WiderSeq
<1>6. m \in Message /\ m.strings # <<>>
  BY <1>3, <1>4, <1>5 DEF MessagesIn, SomeStrings, Message
<1> QED BY <1>2, <1>6

\* What a file begins with is a header, with whatever fields are made of it.
LEMMA ParsedHeaderTypes ==
    ASSUME NEW f \in Files, NEW p, p = Po!SkippedBlock(f, 1),
           Po!Message(f, p).next # Po!Fail
    PROVE  HeaderFrom(Po!Message(f, p).message, Meaning(Po!Message(f, p).message.strings[1]))
             \in {h \in Header : h.message.strings # <<>>}
<1>1. f \in Seq(STRING) /\ 1 \in Po!Positions(f)
  BY TokensAssumption, Positive
<1>2. p \in Po!Positions(f)
  BY <1>1, SkippedBlockFacts, Positive
<1>3. PICK m : m = Po!Message(f, p).message
  OBVIOUS
<1>4. PICK about : about = Meaning(m.strings[1])
  OBVIOUS
<1>5. m \in Message /\ m.strings # <<>>
  BY <1>2, <1>3, ParsedTypes
<1>6. about \in [accepted : BOOLEAN, num : Nat, compiles : BOOLEAN, plural : [Counts -> Nat]]
  BY <1>3, <1>4, MeaningAssumption
<1>7. HeaderFrom(m, about) \in Header /\ HeaderFrom(m, about).message = m
  BY <1>5, <1>6 DEF HeaderFrom, Header
<1> QED BY <1>3, <1>4, <1>5, <1>7

\* The steps of Catalog for a file that may hold any messages.
NonEmptyMessages == {m \in Message : m.strings # <<>>}
NonEmptyHeaders == {h \in Header : h.message.strings # <<>>}

\* The constructor up to its loop.
LoadStep(c, w) ==
    \/ LoadUnparsable(c, w)
    \/ \E h \in NonEmptyHeaders : LoadFrom(c, h, w)

\* A round of the loop, or its end.
ReadStep(c) ==
    \/ \E m \in NonEmptyMessages, fuzzy \in BOOLEAN : ReadEntry(c, m, fuzzy)
    \/ \E m \in NonEmptyMessages : ReadSecondHeader(c, m)
    \/ ReadUnparsable(c)
    \/ FinishLoad(c)

\* A round of the loop that reads a message is a step of Catalog.
LEMMA ReadMessageIsRead ==
    ASSUME PoTypeInv, NEW c \in Cat, ReadMessage(c)
    PROVE  ReadStep(c)
<1>1. /\ file \in Files /\ file \in Seq(STRING)
      /\ pos \in Po!Positions(file)
  BY DEF PoTypeInv, RoundsInv
<1>2. PICK q : q = Po!IgnoredComments(file, pos)
  OBVIOUS
<1>3. PICK preamble : preamble = Po!MessagePreamble(file, q)
  OBVIOUS
<1>4. preamble.next \in Po!Positions(file) /\ preamble.fuzzy \in BOOLEAN
  <2>1. q \in Po!Positions(file) /\ q \in Nat
    BY <1>1, <1>2, IgnoredCommentsFacts, Positive
  <2> QED BY <1>1, <1>3, <2>1, MessagePreambleFacts, Positive
<1>5. PICK parsed : parsed = Po!Message(file, preamble.next)
  OBVIOUS
<1>6. \/ ReadUnparsable(c)
      \/ /\ parsed.next # Po!Fail
         /\ ReadSecondHeader(c, parsed.message) \/ ReadEntry(c, parsed.message, preamble.fuzzy)
  BY <1>2, <1>3, <1>5 DEF ReadMessage, Preamble
<1>7. parsed.next # Po!Fail => parsed.message \in NonEmptyMessages
  BY <1>1, <1>4, <1>5, ParsedTypes DEF NonEmptyMessages
<1> QED BY <1>4, <1>6, <1>7 DEF ReadStep

\* The reading of a header is a step of Catalog.
LEMMA ReadHeaderIsLoad ==
    ASSUME PoTypeInv, NEW c \in Cat, NEW w \in BOOLEAN, ReadHeader(c, w)
    PROVE  LoadStep(c, w)
<1>1. file \in Files
  BY DEF PoTypeInv
<1>2. PICK start : start = HeaderStart
  OBVIOUS
<1>3. PICK parsed : parsed = Po!Message(file, start)
  OBVIOUS
<1>4. PICK header : header = HeaderFrom(parsed.message, Meaning(parsed.message.strings[1]))
  OBVIOUS
<1>5. \/ LoadUnparsable(c, w)
      \/ parsed.next # Po!Fail /\ LoadFrom(c, header, w)
  BY <1>2, <1>3, <1>4 DEF ReadHeader
<1>6. parsed.next # Po!Fail => header \in NonEmptyHeaders
  BY <1>1, <1>2, <1>3, <1>4, ParsedHeaderTypes DEF HeaderStart, NonEmptyHeaders
<1> QED BY <1>5, <1>6 DEF LoadStep

\* Every step of the constructor is one of Catalog, or leaves it alone.
LEMMA StepsOfCatalog ==
    ASSUME PoTypeInv, [PoNext]_poVars
    PROVE  \/ UNCHANGED vars
           \/ \E c \in Cat, w \in BOOLEAN : LoadStep(c, w)
           \/ \E c \in Cat : ReadStep(c)
<1>1. ASSUME NEW c \in Cat, NEW w \in BOOLEAN, ReadHeader(c, w)
      PROVE  LoadStep(c, w)
  BY <1>1, ReadHeaderIsLoad
<1>2. ASSUME NEW c \in Cat, ReadLastComments(c)
      PROVE  UNCHANGED vars
  BY <1>2 DEF ReadLastComments
<1>3. ASSUME NEW c \in Cat, ReadMessage(c)
      PROVE  ReadStep(c)
  BY <1>3, ReadMessageIsRead
<1>4. ASSUME NEW c \in Cat, Finish(c)
      PROVE  ReadStep(c)
  BY <1>4 DEF Finish, ReadStep
<1>5. UNCHANGED poVars => UNCHANGED vars
  BY DEF poVars
<1> QED BY <1>1, <1>2, <1>3, <1>4, <1>5 DEF PoNext, Over

\* A constructor that fails drops the entries, or keeps them.
LEMMA FailLoadStrings ==
    ASSUME EntriesHaveStrings, log \in [Cat -> Seq(LogEntry)], NEW c \in Cat,
           NEW object, FailLoad(c, object)
    PROVE  EntriesHaveStrings'
BY DEF EntriesHaveStrings, FailLoad

\* Entries are only added, and have a string.
LEMMA StringsStep ==
    ASSUME TypeInv, EntriesHaveStrings,
           \/ UNCHANGED vars
           \/ \E c \in Cat, w \in BOOLEAN : LoadStep(c, w)
           \/ \E c \in Cat : ReadStep(c)
    PROVE  EntriesHaveStrings'
<1>1. log \in [Cat -> Seq(LogEntry)] /\ line \in Nat
  BY DEF TypeInv, TypeOK
<1>2. ASSUME NEW c \in Cat, NEW h \in NonEmptyHeaders, NEW w \in BOOLEAN, LoadHeader(c, h, w)
      PROVE  EntriesHaveStrings'
  <2>1. PICK m : m = [h.message EXCEPT !.line = 0]
    OBVIOUS
  <2>2. m \in Message /\ m.strings # <<>>
    BY <2>1 DEF NonEmptyHeaders, Header, Message
  <2>3. log' = [log EXCEPT ![c] = <<[message |-> m, fuzzy |-> FALSE]>>]
    BY <1>2, <2>1 DEF LoadHeader
  <2> QED BY <1>1, <2>2, <2>3 DEF EntriesHaveStrings
<1>3. ASSUME NEW c \in Cat, NEW entry \in NonEmptyMessages, NEW fuzzy \in BOOLEAN,
             ReadEntry(c, entry, fuzzy)
      PROVE  EntriesHaveStrings'
  <2>1. PICK m : m = [entry EXCEPT !.line = line]
    OBVIOUS
  <2>2. m \in Message /\ m.strings # <<>>
    BY <1>1, <2>1 DEF NonEmptyMessages, Message
  <2>3. log' = [log EXCEPT ![c] = Append(@, [message |-> m, fuzzy |-> fuzzy])]
    BY <1>3, <2>1 DEF ReadEntry
  <2>4. [message |-> m, fuzzy |-> fuzzy] \in LogEntry
    BY <2>2 DEF LogEntry
  <2> QED BY <1>1, <2>2, <2>3, <2>4 DEF EntriesHaveStrings
<1>4. ASSUME NEW c \in Cat, NEW object, FailLoad(c, object)
      PROVE  EntriesHaveStrings'
  BY <1>1, <1>4, FailLoadStrings
<1>5. ASSUME UNCHANGED log
      PROVE  EntriesHaveStrings'
  BY <1>5 DEF EntriesHaveStrings
<1>6. ASSUME NEW c \in Cat, NEW w \in BOOLEAN, LoadStep(c, w)
      PROVE  EntriesHaveStrings'
  BY <1>2, <1>4, <1>6 DEF LoadStep, LoadFrom, LoadUnparsable, LoadBadHeader,
                          LoadBadPluralForms, LoadBadSingular
<1>7. ASSUME NEW c \in Cat, ReadStep(c)
      PROVE  EntriesHaveStrings'
  BY <1>3, <1>4, <1>5, <1>7 DEF ReadStep, ReadSecondHeader, ReadUnparsable, FinishLoad
<1> QED BY <1>5, <1>6, <1>7 DEF vars

\* The steps of Catalog preserve its types, whatever messages a file holds.
LEMMA TypesStep ==
    ASSUME TypeInv,
           \/ UNCHANGED vars
           \/ \E c \in Cat, w \in BOOLEAN : LoadStep(c, w)
           \/ \E c \in Cat : ReadStep(c)
    PROVE  TypeInv'
<1>1. ASSUME NEW c \in Cat, NEW w \in BOOLEAN, LoadStep(c, w)
      PROVE  TypeInv'
  BY <1>1, BadHeaderTypeStep, LoadHeaderTypeStep DEF LoadStep, LoadFrom, NonEmptyHeaders
<1>2. ASSUME NEW c \in Cat, ReadStep(c)
      PROVE  TypeInv'
  BY <1>2, EntryTypeStep, BadEntryTypeStep, FinishTypeStep DEF ReadStep, NonEmptyMessages
<1>3. CASE UNCHANGED vars
  BY <1>3, TypeStep
<1> QED BY <1>1, <1>2, <1>3

\* Entries begin where the constructor has been.
LEMMA StartsStep ==
    ASSUME PoTypeInv, [PoNext]_poVars
    PROVE  file' = file /\ starts' \in Seq(Po!Positions(file))
<1>1. /\ file \in Seq(STRING) /\ pos \in Po!Positions(file)
      /\ 1 \in Po!Positions(file) /\ starts \in Seq(Po!Positions(file))
  BY Positive DEF PoTypeInv, RoundsInv
<1>2. ASSUME NEW c \in Cat, NEW w \in BOOLEAN, ReadHeader(c, w)
      PROVE  file' = file /\ starts' \in Seq(Po!Positions(file))
  <2>1. PICK start : start = HeaderStart
    OBVIOUS
  <2>2. start \in Po!Positions(file)
    BY <1>1, <2>1, SkippedBlockFacts, Positive DEF HeaderStart
  <2>3. starts' = <<start>> /\ file' = file
    BY <1>2, <2>1 DEF ReadHeader
  <2> QED BY <2>2, <2>3
<1>3. ASSUME NEW c \in Cat, ReadMessage(c)
      PROVE  file' = file /\ starts' \in Seq(Po!Positions(file))
  <2>1. PICK begin : begin = PreambleEnd(file, pos)
    OBVIOUS
  <2>2. begin \in Po!Positions(file)
    BY <1>1, <2>1, PreambleFacts, Positive
  <2>3. file' = file /\ (starts' = starts \/ starts' = Append(starts, begin))
    BY <1>3, <2>1 DEF ReadMessage, Preamble, PreambleEnd
  <2> QED BY <1>1, <2>2, <2>3
<1>4. ASSUME UNCHANGED <<file, starts>>
      PROVE  file' = file /\ starts' \in Seq(Po!Positions(file))
  BY <1>1, <1>4
<1> QED BY <1>2, <1>3, <1>4 DEF PoNext, ReadLastComments, Finish, Over, poVars

\* The invariant holds before a load, and every step keeps it.
LEMMA PoTypeInit == PoInit => PoTypeInv
<1> SUFFICES ASSUME PoInit PROVE PoTypeInv
  OBVIOUS
<1>1. EntriesHaveStrings /\ starts \in Seq(Po!Positions(file)) /\ file \in Files
  BY DEF PoInit, Init, EntriesHaveStrings
<1>2. TypeInv /\ RoundsInv
  BY TypeInit, RoundsInit DEF PoInit
<1> QED BY <1>1, <1>2 DEF PoTypeInv

\* Every step keeps the invariant.
LEMMA PoTypeStep ==
    ASSUME PoTypeInv, [PoNext]_poVars
    PROVE  PoTypeInv'
<1>1. TypeInv' /\ EntriesHaveStrings'
  BY StepsOfCatalog, TypesStep, StringsStep DEF PoTypeInv
<1>2. RoundsInv'
  BY RoundsStep DEF PoTypeInv
<1>3. file' = file /\ starts' \in Seq(Po!Positions(file))
  BY StartsStep
<1>4. file' \in Files /\ starts' \in Seq(Po!Positions(file'))
  BY <1>3 DEF PoTypeInv
<1> QED BY <1>1, <1>2, <1>4 DEF PoTypeInv

\* Loading any file, every variable keeps its type; the iterator stays in the
\* file, and no entry of a catalog is without a string: the grammar yields at
\* least one msgstr for every message, as the constructor and the lookups
\* rely on.
THEOREM FileLoadsWellTyped == PoSpec => []PoTypeOK
<1>1. PoSpec => []PoTypeInv
  BY PoTypeInit, PoTypeStep, PTL DEF PoSpec
<1>2. PoTypeInv => PoTypeOK
  <2> SUFFICES ASSUME PoTypeInv PROVE PoTypeOK
    OBVIOUS
  <2>1. Po!Positions(file) = 1..(Len(file) + 1)
    BY DEF Po!Positions
  <2> QED BY <2>1 DEF PoTypeInv, PoTypeOK, TypeInv, RoundsInv, EntriesHaveStrings
<1> QED BY <1>1, <1>2, PTL

-----------------------------------------------------------------------------
(* Refinement *)

\* Catalog is used for files that may hold anything with a string.
AnyFile == NonEmptyMessages \subseteq Messages /\ NonEmptyHeaders \subseteq Headers

\* Reading a file token by token is reading a sequence of messages: every
\* constructor that parses a file behaves as one that Catalog describes, whose
\* theorems hold for it.
THEOREM FilesAreEntries ==
    ASSUME AnyFile
    PROVE  PoSpec => Spec
<1>1. PoInit => Init
  BY DEF PoInit
<1>2. ASSUME PoTypeInv, [PoNext]_poVars
      PROVE  [Next]_vars
  <2>1. ASSUME NEW c \in Cat, NEW w \in BOOLEAN, LoadStep(c, w)
        PROVE  Load(c)
    BY <2>1 DEF LoadStep, LoadFrom, Load, AnyFile
  <2>2. ASSUME NEW c \in Cat, ReadStep(c)
        PROVE  Read(c)
    BY <2>2 DEF ReadStep, Read, AnyFile
  <2> QED BY <1>2, <2>1, <2>2, StepsOfCatalog DEF Next
<1> QED BY <1>1, <1>2, PoTypeInit, PoTypeStep, PTL DEF PoSpec, Spec
=============================================================================
