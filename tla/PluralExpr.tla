----------------------------- MODULE PluralExpr -----------------------------
(***************************************************************************)
(* Plural-forms expressions, and the visitors of them: the evaluator that  *)
(* defines their value, is_boolean, and the emitter that translates them   *)
(* for the stack machine (include/spirit_po/                               *)
(* default_plural_forms_expressions.hpp).                                  *)
(*                                                                         *)
(* Here is what a visitor makes of an expression, given what it makes of   *)
(* the parts: a function on them.  PluralCompiler closes the recursion.    *)
(***************************************************************************)
EXTENDS PluralOps

(* Expressions: the variant expr *)

Constant(value) == [op |-> "constant", value |-> value]
NVar == [op |-> "n_var"]
Not(e) == [op |-> "not", e1 |-> e]
BinaryOp(op, e, f) == [op |-> op, e1 |-> e, e2 |-> f]
And(e, f) == [op |-> "and", e1 |-> e, e2 |-> f]
Or(e, f) == [op |-> "or", e1 |-> e, e2 |-> f]
Ternary(e, f, g) == [op |-> "ternary", e1 |-> e, e2 |-> f, e3 |-> g]

\* The alternatives of the variant, with parts in E.
IsExpression(e, E) ==
    \/ e.op = "constant" /\ e.value \in Nat
    \/ e.op = "n_var"
    \/ e.op = "not" /\ e.e1 \in E
    \/ e.op \in BinaryOps \cup {"and", "or"} /\ e.e1 \in E /\ e.e2 \in E
    \/ e.op = "ternary" /\ e.e1 \in E /\ e.e2 \in E /\ e.e3 \in E

IsTrue(v) == IF v = Undefined THEN Undefined ELSE Bit(v # 0)

\* The evaluator: the value of e at n as C defines it, Undefined if a division
\* by zero is met on the way.
Evaluated(e, n, value) ==
    IF e.op = "constant" THEN e.value
    ELSE IF e.op = "n_var" THEN n
    ELSE LET a == value[e.e1]
         IN  IF a = Undefined THEN Undefined
             ELSE CASE e.op = "not" -> Bit(a = 0)
                    [] e.op = "and" -> IF a = 0 THEN 0 ELSE IsTrue(value[e.e2])
                    [] e.op = "or"  -> IF a # 0 THEN 1 ELSE IsTrue(value[e.e2])
                    [] e.op = "ternary" -> IF a # 0 THEN value[e.e2] ELSE value[e.e3]
                    [] e.op \in BinaryOps ->
                         LET b == value[e.e2]
                         IN  IF b = Undefined THEN Undefined ELSE Apply(e.op, a, b)

\* Mutant: the remainder of anything is taken for a boolean.
BooleanByShapeMod(e, boolean) ==
    CASE e.op = "constant" -> e.value \in {0, 1}
      [] e.op = "n_var" -> FALSE
      [] e.op = "ternary" -> boolean[e.e2] /\ boolean[e.e3]
      [] OTHER -> TRUE

\* is_boolean: is e 0 or 1 by its shape?  If so the emitter does not normalise
\* it.
BooleanByShape(e, boolean) ==
    CASE e.op = "constant" -> e.value \in {0, 1}
      [] e.op = "n_var" -> FALSE
      [] e.op = "mod" -> boolean[e.e1]
      [] e.op = "ternary" -> boolean[e.e2] /\ boolean[e.e3]
      [] OTHER -> TRUE
-----------------------------------------------------------------------------
(* The emitter *)

\* Two branches behind a conditional skip over the first of them: it ends in a
\* skip over the other one.
Branches(skip, near, far) == <<skip>> \o near \o <<Skip(Len(far))>> \o far

Normalised(second, isBoolean) ==
    IF isBoolean THEN second ELSE second \o <<Code("not"), Code("not")>>

EmitAnd(first, second, isBoolean) ==
    first \o Branches(SkipIf(2), <<Push(0)>>, Normalised(second, isBoolean))

EmitOr(first, second, isBoolean) ==
    first \o Branches(SkipIfNot(2), <<Push(1)>>, Normalised(second, isBoolean))

\* Mutant: the test is not inverted when the branches change places.
EmitTernaryUninverted(test, yes, no) ==
    test \o IF Len(yes) > Len(no) THEN Branches(SkipIfNot(Len(no) + 1), no, yes)
            ELSE Branches(SkipIfNot(Len(yes) + 1), yes, no)

\* The shorter branch comes first.
EmitTernary(test, yes, no) ==
    test \o IF Len(yes) > Len(no) THEN Branches(SkipIf(Len(no) + 1), no, yes)
            ELSE Branches(SkipIfNot(Len(yes) + 1), yes, no)

Emitted(e, emit, boolean) ==
    CASE e.op = "constant" -> <<Push(e.value)>>
      [] e.op = "n_var" -> <<Code("n")>>
      [] e.op = "not" -> emit[e.e1] \o <<Code("not")>>
      [] e.op = "and" -> EmitAnd(emit[e.e1], emit[e.e2], boolean[e.e2])
      [] e.op = "or" -> EmitOr(emit[e.e1], emit[e.e2], boolean[e.e2])
      [] e.op = "ternary" -> EmitTernary(emit[e.e1], emit[e.e2], emit[e.e3])
      [] e.op \in BinaryOps -> emit[e.e1] \o emit[e.e2] \o <<Code(e.op)>>

\* The functions that the visitors compute on E, which holds the parts of its
\* expressions.  What is emitted is finite, and so are expressions.
Visits(E, Numbers, value, boolean, emit) ==
    \A e \in E :
        /\ IsExpression(e, E)
        /\ emit[e] \in Seq(Instruction)
        /\ boolean[e] = BooleanByShape(e, boolean)
        /\ emit[e] = Emitted(e, emit, boolean)
        /\ \A n \in Numbers : value[n][e] = Evaluated(e, n, value[n])
=============================================================================
