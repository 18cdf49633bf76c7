---------------------------- MODULE StackMachine ----------------------------
(***************************************************************************)
(* The stack machine that evaluates a plural-forms expression:             *)
(* stack_machine in default_plural_forms_expressions.hpp, inside the       *)
(* function_object of default_plural_forms_compiler.hpp.                   *)
(*                                                                         *)
(* One machine holds the instructions of one expression and is called      *)
(* again and again; pc and n_value_ and the stack of one call are what the *)
(* next call finds.  The instructions are a constant here: those that the  *)
(* emitter makes of expressions.  What the machine needs of them to keep   *)
(* its stack is that their heights add up (Balances).                      *)
(***************************************************************************)
EXTENDS PluralExpr

CONSTANTS
    Sources,      \* plural-forms expressions
    Numbers,      \* the numbers n the function is called with
    Value(_, _),  \* Value(e, n): what the evaluator computes
    ZeroOne(_),   \* what is_boolean says of an expression
    Program(_),   \* the instructions emitted for an expression
    Height(_)     \* Height(e)[pc]: the stack height before each of them

ASSUME ProgramAssumption ==
    /\ Numbers \subseteq Nat
    /\ \A e \in Sources : /\ Program(e) \in Seq(Instruction)
                         /\ Balances(Program(e), Height(e))

values == [m \in Numbers |-> [e \in Sources |-> Value(e, m)]]
zeroOnes == [e \in Sources |-> ZeroOne(e)]
programs == [e \in Sources |-> Program(e)]

ASSUME CompilerAssumption == Visits(Sources, Numbers, values, zeroOnes, programs)

VARIABLES
    source,       \* the expression whose instructions are instruction_seq_
    n,            \* n_value_
    pc,
    stack,        \* stack_, its back is the last element
    phase,        \* "idle", "running", or "undefined" after a division by zero
    result        \* what compute returned last

vars == <<source, n, pc, stack, phase, result>>

code == Program(source)

Init ==
    /\ source \in Sources
    /\ n = 0
    /\ pc = 0
    /\ stack = <<>>
    /\ phase = "idle"
    /\ result = 0
-----------------------------------------------------------------------------
Top == stack[Len(stack)]
Below == stack[Len(stack) - 1]
Pop(k) == SubSeq(stack, 1, Len(stack) - k)

\* Mutant: a call goes on with the stack of the one before.
KeptStack == stack

ClearedStack == <<>>

\* compute(m) begins.
Call(m) ==
    /\ phase = "idle"
    /\ phase' = "running"
    /\ n' = m
    /\ stack' = ClearedStack
    /\ pc' = 0
    /\ UNCHANGED <<source, result>>

\* The machine is at an instruction with one of the op codes ops.
At(ops) ==
    /\ phase = "running"
    /\ pc < Len(code)
    /\ code[pc + 1].op \in ops

arg == code[pc + 1].arg

Continue(distance, newStack) ==
    /\ pc' = pc + distance
    /\ stack' = newStack
    /\ UNCHANGED <<source, n, phase, result>>

PushConstant == At({"push"}) /\ Continue(1, Append(stack, arg))

PushArgument == At({"n"}) /\ Continue(1, Append(stack, n))

\* Mutant: the distance is counted from the wrong instruction.
SkipTooFar == At({"skip"}) /\ Continue(2 + arg, stack)

SkipAlways == At({"skip"}) /\ Continue(1 + arg, stack)

Taken(op, value) == IF op = "skip_if" THEN value # 0 ELSE value = 0

SkipConditional ==
    /\ At({"skip_if", "skip_if_not"})
    /\ Continue(IF Taken(code[pc + 1].op, Top) THEN 1 + arg ELSE 1, Pop(1))

Negate == At({"not"}) /\ Continue(1, Append(Pop(1), Bit(Top = 0)))

\* Mutant: the operand popped first is taken for the left one.
SwappedOperands(op) == Apply(op, Top, Below)

Operate(op) == Apply(op, Below, Top)

Binary ==
    /\ At(BinaryOps)
    /\ Operate(code[pc + 1].op) # Undefined
    /\ Continue(1, Append(Pop(2), Operate(code[pc + 1].op)))

\* n % 0: whatever the processor does, no answer can be relied on.
DivideByZero ==
    /\ At(BinaryOps)
    /\ Operate(code[pc + 1].op) = Undefined
    /\ phase' = "undefined"
    /\ UNCHANGED <<source, n, pc, stack, result>>

\* The loop ends and compute returns stack_[0].
Return ==
    /\ phase = "running"
    /\ pc >= Len(code)
    /\ phase' = "idle"
    /\ result' = stack[1]
    /\ UNCHANGED <<source, n, pc, stack>>

Step ==
    \/ PushConstant \/ PushArgument
    \/ SkipAlways \/ SkipConditional
    \/ Negate \/ Binary \/ DivideByZero
    \/ Return

Next == (\E m \in Numbers : Call(m)) \/ Step

\* A call of compute runs until it returns.
Spec == Init /\ [][Next]_vars /\ WF_vars(Step)
-----------------------------------------------------------------------------
(* Properties *)

\* Every variable holds a value its type allows; pc stays within the
\* instructions or just behind them, so that the loop of compute ends where the
\* instructions do (line 567).
TypeOK ==
    /\ source \in Sources
    /\ n \in Nat
    /\ pc \in 0..Len(code)
    /\ stack \in Seq(Nat)
    /\ phase \in {"idle", "running", "undefined"}
    /\ result \in Nat

\* How many operands are on the stack depends on where the machine is, not on
\* the branches that led there or on the calls before: the distances the
\* emitter writes into its skips add up (lines 389-452).
HeightByPosition ==
    phase = "running" => Len(stack) = Height(source)[pc]

\* The assertions stack_.size() and stack_.size() >= 2: an instruction that
\* takes operands finds them, on whatever path it was reached.
OperandsPresent ==
    phase = "running" /\ pc < Len(code) => Len(stack) >= Takes(code[pc + 1])

\* The assertions at the end of compute: one value is left when the loop ends,
\* and stack_[0] is there to be returned.
EndsBalanced ==
    phase = "running" /\ pc >= Len(code) => pc = Len(code) /\ Len(stack) = 1

\* The machine is a plural-forms function: it answers each call with the value
\* of its expression, meets n % 0 only where the evaluator does, and returns.
Function == INSTANCE PluralFunction
ImplementsFunction == Function!Spec
=============================================================================
