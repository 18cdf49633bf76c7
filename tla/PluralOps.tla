----------------------------- MODULE PluralOps -----------------------------
(***************************************************************************)
(* What the evaluator and the stack machine of plural-forms expressions    *)
(* share: the C operators and the instruction set                          *)
(* (include/spirit_po/default_plural_forms_expressions.hpp).               *)
(*                                                                         *)
(* Values are unsigned integers.  No operator of the language yields more  *)
(* than its operands, so the width of uint plays no part.                  *)
(***************************************************************************)
EXTENDS Naturals, Sequences

CONSTANT Undefined   \* what n % 0 is: no number

ASSUME UndefinedAssumption == Undefined \notin Nat

BinaryOps == {"eq", "neq", "ge", "le", "gt", "lt", "mod"}

Bit(b) == IF b THEN 1 ELSE 0

\* a OP b in C; a boolean result converts to 0 or 1.
Apply(op, a, b) ==
    CASE op = "eq"  -> Bit(a = b)
      [] op = "neq" -> Bit(a # b)
      [] op = "ge"  -> Bit(a >= b)
      [] op = "le"  -> Bit(a <= b)
      [] op = "gt"  -> Bit(a > b)
      [] op = "lt"  -> Bit(a < b)
      [] op = "mod" -> IF b = 0 THEN Undefined ELSE a % b

(* Instructions.  arg is the constant of a push and the distance of a skip. *)

Skips == {"skip", "skip_if", "skip_if_not"}

Instruction == [op : {"push", "n", "not"} \cup Skips \cup BinaryOps, arg : Nat]

Push(value) == [op |-> "push", arg |-> value]
Skip(distance) == [op |-> "skip", arg |-> distance]
SkipIf(distance) == [op |-> "skip_if", arg |-> distance]
SkipIfNot(distance) == [op |-> "skip_if_not", arg |-> distance]
Code(op) == [op |-> op, arg |-> 0]

\* The number of operands an instruction takes from the stack and the number
\* of results it leaves there.
Takes(i) == CASE i.op \in BinaryOps -> 2
              [] i.op \in {"not", "skip_if", "skip_if_not"} -> 1
              [] OTHER -> 0

Leaves(i) == IF i.op \in Skips THEN 0 ELSE 1

\* Where execution may go from instruction i at pc.
Successors(pc, i) ==
    CASE i.op = "skip" -> {pc + 1 + i.arg}
      [] i.op \in {"skip_if", "skip_if_not"} -> {pc + 1, pc + 1 + i.arg}
      [] OTHER -> {pc + 1}

(* One instruction, on a stack s *)

Back(s) == s[Len(s)]
Popped(s, k) == SubSeq(s, 1, Len(s) - k)

\* How far instruction i moves the program counter, and what it leaves.
Distance(i, s) ==
    CASE i.op = "skip" -> 1 + i.arg
      [] i.op = "skip_if" -> 1 + IF Back(s) # 0 THEN i.arg ELSE 0
      [] i.op = "skip_if_not" -> 1 + IF Back(s) = 0 THEN i.arg ELSE 0
      [] OTHER -> 1

StackAfter(i, s, n) ==
    CASE i.op = "push" -> Append(s, i.arg)
      [] i.op = "n" -> Append(s, n)
      [] i.op = "skip" -> s
      [] i.op \in {"skip_if", "skip_if_not"} -> Popped(s, 1)
      [] i.op = "not" -> Append(Popped(s, 1), Bit(Back(s) = 0))
      [] i.op \in BinaryOps -> Append(Popped(s, 2), Apply(i.op, Back(Popped(s, 1)), Back(s)))

\* A call of compute with n that has the machine to itself and is answered with
\* v: stack[pc] is what it has on the stack at every pc it comes by.  It finds
\* its operands and leaves one value behind.
Computes(code, n, stack, v) ==
    /\ 0 \in DOMAIN stack /\ DOMAIN stack \subseteq 0..Len(code)
    /\ stack[0] = <<>>
    /\ \A pc \in DOMAIN stack :
         LET i == code[pc + 1]
             s == stack[pc]
         IN  IF pc < Len(code)
             THEN /\ Len(s) >= Takes(i)
                  /\ pc + Distance(i, s) \in DOMAIN stack
                  /\ stack[pc + Distance(i, s)] = StackAfter(i, s, n)
             ELSE Len(s) = 1 /\ s[1] = v

\* h is the height of the stack before every instruction of code, however it
\* is reached; the code ends exactly at its last instruction, with one value.
Balances(code, h) ==
    /\ h \in [0..Len(code) -> Nat]
    /\ h[0] = 0
    /\ h[Len(code)] = 1
    /\ \A pc \in 0..(Len(code) - 1) :
         LET i == code[pc + 1]
         IN  /\ h[pc] >= Takes(i)
             /\ \A next \in Successors(pc, i) :
                  /\ next \in 0..Len(code)
                  /\ h[next] = h[pc] - Takes(i) + Leaves(i)
=============================================================================
