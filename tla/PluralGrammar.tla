--------------------------- MODULE PluralGrammar ---------------------------
(***************************************************************************)
(* The grammar of plural-forms expressions, op_grammar in include/         *)
(* spirit_po/default_plural_forms_expressions.hpp, and the compiler that   *)
(* makes a function object of a text, default_plural_forms_compiler.hpp.   *)
(* PluralForms runs it on the expressions of headers.                      *)
(*                                                                         *)
(* A text is a sequence of tokens without blanks, which the skipper skips. *)
(***************************************************************************)
EXTENDS PluralCompiler, FiniteSets

CONSTANT Digits   \* the tokens that are numbers, with their values
-----------------------------------------------------------------------------
(* Rules: from a position to [next, e], or NoMatch *)

NoMatch == [next |-> 0]

At(s, p, tokens) == p \in DOMAIN s /\ s[p] \in tokens

\* Mutant: || binds tighter than &&.
OperatorsSwapped == <<{"%"}, {">=", "<=", ">", "<"}, {"==", "!="}, {"||"}, {"&&"}>>

\* The binary operators of mod_level, rel_level, eq_level, and_level, or_level.
Operators == <<{"%"}, {">=", "<=", ">", "<"}, {"==", "!="}, {"&&"}, {"||"}>>
AtomLevel == 0
TernaryLevel == 6

\* && and || take an operand of their own level on the right, the others one of
\* the level below: they cannot be chained.
RightLevel(k) == IF Operators[k] \in {{"&&"}, {"||"}} THEN k ELSE k - 1

Combined(token, e, f) ==
    CASE token = "&&" -> And(e, f)
      [] token = "||" -> Or(e, f)
      [] token = "%"  -> BinaryOp("mod", e, f)
      [] token = "==" -> BinaryOp("eq", e, f)
      [] token = "!=" -> BinaryOp("neq", e, f)
      [] token = ">=" -> BinaryOp("ge", e, f)
      [] token = "<=" -> BinaryOp("le", e, f)
      [] token = ">"  -> BinaryOp("gt", e, f)
      [] token = "<"  -> BinaryOp("lt", e, f)

RECURSIVE Level(_, _, _)

\* paren_expr | not | n | constant
Atom(s, p) ==
    LET inner   == Level(TernaryLevel, s, p + 1)
        operand == Level(AtomLevel, s, p + 1)
    IN  CASE At(s, p, {"("}) /\ inner # NoMatch /\ At(s, inner.next, {")"}) ->
                [next |-> inner.next + 1, e |-> inner.e]
          [] At(s, p, {"!"}) /\ operand # NoMatch ->
                [next |-> operand.next, e |-> Not(operand.e)]
          [] At(s, p, {"n"}) -> [next |-> p + 1, e |-> NVar]
          [] At(s, p, DOMAIN Digits) -> [next |-> p + 1, e |-> Constant(Digits[s[p]])]
          [] OTHER -> NoMatch

\* An operator without a right operand is left unread, like one of a chain.
Binary(k, s, first) ==
    LET right == Level(RightLevel(k), s, first.next + 1)
    IN  IF first # NoMatch /\ At(s, first.next, Operators[k]) /\ right # NoMatch
        THEN [next |-> right.next, e |-> Combined(s[first.next], first.e, right.e)]
        ELSE first

Conditional(s, test) ==
    LET yes == Level(TernaryLevel, s, test.next + 1)
        no  == Level(TernaryLevel, s, yes.next + 1)
    IN  IF /\ test # NoMatch /\ At(s, test.next, {"?"})
           /\ yes # NoMatch /\ At(s, yes.next, {":"}) /\ no # NoMatch
        THEN [next |-> no.next, e |-> Ternary(test.e, yes.e, no.e)]
        ELSE test

Level(k, s, p) ==
    IF k = AtomLevel THEN Atom(s, p)
    ELSE IF k = TernaryLevel THEN Conditional(s, Level(k - 1, s, p))
    ELSE Binary(k, s, Level(k - 1, s, p))

\* Mutant: what the grammar leaves unread is ignored.
CompiledPrefix(s) ==
    LET parsed == Level(TernaryLevel, s, 1)
    IN  IF parsed # NoMatch THEN [error |-> FALSE, e |-> parsed.e]
        ELSE [error |-> TRUE, e |-> Constant(0)]

\* The compiler: an expression, a semicolon or none, and nothing else.  The
\* function object of an error computes the constant 0.
Compiled(s) ==
    LET parsed == Level(TernaryLevel, s, 1)
        end    == IF At(s, parsed.next, {";"}) THEN parsed.next + 1 ELSE parsed.next
    IN  IF parsed # NoMatch /\ end = Len(s) + 1 THEN [error |-> FALSE, e |-> parsed.e]
        ELSE [error |-> TRUE, e |-> Constant(0)]
-----------------------------------------------------------------------------
(* C, for comparison: a text is split at the operator that binds least *)

Bad == [op |-> "bad"]

\* The operators of C, those that bind most first.
Precedence == <<{"%"}, {"<", ">", "<=", ">="}, {"==", "!="}, {"&&"}, {"||"}>>

Count(s, i, j, t) == Cardinality({k \in i..j : s[k] = t})

\* Parentheses open and not yet closed before position i.
Depth(s, i) == Count(s, 1, i - 1, "(") - Count(s, 1, i - 1, ")")

\* Where tokens stand outside of all parentheses.
Outer(s, tokens) == {i \in DOMAIN s : s[i] \in tokens /\ Depth(s, i) = 0}

\* The colon that belongs to the question mark at i, if any.
Colons(s, i) ==
    {j \in Outer(s, {":"}) :
        /\ j > i
        /\ Cardinality({k \in Outer(s, {"?"}) : i < k /\ k < j})
             = Cardinality({k \in Outer(s, {":"}) : i < k /\ k < j})}

Loosest(s) == {k \in DOMAIN Precedence : Outer(s, Precedence[k]) # {}}

SetMax(S) == CHOOSE x \in S : \A y \in S : y <= x
SetMin(S) == CHOOSE x \in S : \A y \in S : x <= y

RECURSIVE CRead(_)
CSplit(s, i) ==
    LET left  == CRead(SubSeq(s, 1, i - 1))
        right == CRead(SubSeq(s, i + 1, Len(s)))
    IN  IF Bad \in {left, right} THEN Bad ELSE Combined(s[i], left, right)

CTernary(s, i, j) ==
    LET test == CRead(SubSeq(s, 1, i - 1))
        yes  == CRead(SubSeq(s, i + 1, j - 1))
        no   == CRead(SubSeq(s, j + 1, Len(s)))
    IN  IF Bad \in {test, yes, no} THEN Bad ELSE Ternary(test, yes, no)

CRead(s) ==
    LET marks == Outer(s, {"?"})
    IN  CASE s = <<>> \/ \E i \in DOMAIN s : Depth(s, i + 1) < 0 -> Bad
          [] marks # {} ->
               IF Colons(s, SetMin(marks)) = {} THEN Bad
               ELSE CTernary(s, SetMin(marks), SetMin(Colons(s, SetMin(marks))))
          [] marks = {} /\ Loosest(s) # {} ->
               CSplit(s, SetMax(Outer(s, Precedence[SetMax(Loosest(s))])))
          [] OTHER ->
               IF s[1] = "!"
               THEN IF CRead(Tail(s)) = Bad THEN Bad ELSE Not(CRead(Tail(s)))
               ELSE IF s[1] = "(" /\ s[Len(s)] = ")" /\ Outer(s, {"("}) = {1}
               THEN CRead(SubSeq(s, 2, Len(s) - 1))
               ELSE IF s = <<"n">> THEN NVar
               ELSE IF Len(s) = 1 /\ s[1] \in DOMAIN Digits THEN Constant(Digits[s[1]])
               ELSE Bad

Expression(s) == IF s # <<>> /\ s[Len(s)] = ";" THEN SubSeq(s, 1, Len(s) - 1) ELSE s

\* Two operators of one level, other than && and ||, in one operand of any that
\* binds less.
Chained(s) ==
    \E k \in 1..3 : \E i, j \in DOMAIN s :
        /\ i < j
        /\ s[i] \in Precedence[k] /\ s[j] \in Precedence[k]
        /\ Depth(s, i) = Depth(s, j)
        /\ \A m \in i..j :
              /\ Depth(s, m) >= Depth(s, i)
              /\ Depth(s, m) = Depth(s, i) =>
                   s[m] \notin {"?", ":"} \cup UNION {Precedence[l] : l \in (k + 1)..5}
=============================================================================
