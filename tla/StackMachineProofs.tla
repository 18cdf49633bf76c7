------------------------- MODULE StackMachineProofs -------------------------
(***************************************************************************)
(* For any instructions whose stack heights add up, and any sequence of    *)
(* calls, the machine never pops an empty stack, never leaves its          *)
(* instructions, and ends every call with one value.                       *)
(*                                                                         *)
(* The heights of whatever the emitter makes of an expression add up, what *)
(* it makes of it computes its value, and so the machine answers each call *)
(* with the value of its expression; a call that is alone computes it,     *)
(* which is what LookupThreads takes for granted.                          *)
(***************************************************************************)
EXTENDS StackMachine, Descent, SequenceTheorems, TLAPS

\* What an instruction takes and leaves, and where it leads, case by case.
LEMMA InstructionCases ==
    ASSUME NEW i \in Instruction, NEW k \in Nat
    PROVE  /\ i.arg \in Nat
           /\ i.op \in {"push", "n"} =>
                Takes(i) = 0 /\ Leaves(i) = 1 /\ Successors(k, i) = {k + 1}
           /\ i.op = "skip" =>
                Takes(i) = 0 /\ Leaves(i) = 0 /\ Successors(k, i) = {k + 1 + i.arg}
           /\ i.op \in {"skip_if", "skip_if_not"} =>
                /\ Takes(i) = 1
                /\ Leaves(i) = 0
                /\ Successors(k, i) = {k + 1, k + 1 + i.arg}
           /\ i.op = "not" =>
                Takes(i) = 1 /\ Leaves(i) = 1 /\ Successors(k, i) = {k + 1}
           /\ i.op \in BinaryOps =>
                Takes(i) = 2 /\ Leaves(i) = 1 /\ Successors(k, i) = {k + 1}
BY DEF Instruction, Takes, Leaves, Successors, Skips, BinaryOps

\* An operator of C yields a number, except for n % 0.
LEMMA ApplyType ==
    ASSUME NEW op \in BinaryOps, NEW a \in Nat, NEW b \in Nat,
           Apply(op, a, b) # Undefined
    PROVE  Apply(op, a, b) \in Nat
<1>1. CASE op = "mod"
  <2>1. Apply(op, a, b) = IF b = 0 THEN Undefined ELSE a % b
    BY <1>1 DEF Apply
  <2>2. b # 0 /\ Apply(op, a, b) = a % b
    BY <2>1
  <2> QED BY <2>2
<1>2. CASE op # "mod"
  <2>1. op \in {"eq", "neq", "ge", "le", "gt", "lt"}
    BY <1>2 DEF BinaryOps
  <2>2. Apply(op, a, b) \in {0, 1}
    BY <2>1 DEF Apply, Bit
  <2> QED BY <2>2
<1> QED BY <1>1, <1>2

\* Popping and pushing.
LEMMA StackFacts ==
    ASSUME NEW s \in Seq(Nat), NEW k \in 0..Len(s)
    PROVE  /\ SubSeq(s, 1, Len(s) - k) \in Seq(Nat)
           /\ Len(SubSeq(s, 1, Len(s) - k)) = Len(s) - k
           /\ \A v \in Nat : /\ Append(s, v) \in Seq(Nat)
                             /\ Len(Append(s, v)) = Len(s) + 1
OBVIOUS

\* The inductive invariant: the height of the stack is known at every point of
\* the instructions.
Inv == TypeOK /\ HeightByPosition

\* The instruction at pc, what ProgramAssumption says of it.
LEMMA AtInstruction ==
    ASSUME Inv, phase = "running", pc < Len(code)
    PROVE  /\ code[pc + 1] \in Instruction
           /\ Len(stack) = Height(source)[pc]
           /\ Len(stack) >= Takes(code[pc + 1])
           /\ \A next \in Successors(pc, code[pc + 1]) :
                /\ next \in 0..Len(code)
                /\ Height(source)[next] = Len(stack) - Takes(code[pc + 1])
                                                    + Leaves(code[pc + 1])
<1>1. code \in Seq(Instruction) /\ Balances(code, Height(source))
  BY ProgramAssumption DEF Inv, TypeOK, code
<1>2. pc \in 0..(Len(code) - 1) /\ pc + 1 \in 1..Len(code)
  BY <1>1 DEF Inv, TypeOK
<1>3. Len(stack) = Height(source)[pc]
  BY DEF Inv, HeightByPosition
<1>4. code[pc + 1] \in Instruction
  BY <1>1, <1>2
<1> QED BY <1>1, <1>2, <1>3, <1>4 DEF Balances

\* A step of the loop that leads to a successor and leaves the operands it
\* should keeps the invariant.
LEMMA ContinueKeepsInv ==
    ASSUME Inv, phase = "running", pc < Len(code),
           NEW distance \in Nat, NEW s \in Seq(Nat),
           pc + distance \in Successors(pc, code[pc + 1]),
           Len(s) = Len(stack) - Takes(code[pc + 1]) + Leaves(code[pc + 1]),
           Continue(distance, s)
    PROVE  Inv'
<1>1. /\ pc + distance \in 0..Len(code)
      /\ Height(source)[pc + distance] = Len(s)
  BY AtInstruction
<1>2. pc' = pc + distance /\ stack' = s /\ code' = code
  BY DEF Continue, code
<1>3. TypeOK'
  BY <1>1, <1>2 DEF Inv, TypeOK, Continue, code
<1>4. HeightByPosition'
  BY <1>1, <1>2 DEF HeightByPosition, Continue
<1> QED BY <1>3, <1>4 DEF Inv

\* The machine has not been called in the beginning.
LEMMA InitInv == Init => Inv
<1> SUFFICES ASSUME Init PROVE Inv
  OBVIOUS
<1>1. code \in Seq(Instruction)
  BY ProgramAssumption DEF Init, code
<1>2. <<>> \in Seq(Nat) /\ 0 \in 0..Len(code)
  BY <1>1
<1> QED BY <1>2 DEF Init, Inv, TypeOK, HeightByPosition

\* Every call and every instruction keeps the invariant.
LEMMA StepInv == Inv /\ [Next]_vars => Inv'
<1> SUFFICES ASSUME Inv, [Next]_vars PROVE Inv'
  OBVIOUS
<1>a. code \in Seq(Instruction) /\ Balances(code, Height(source))
  BY ProgramAssumption DEF Inv, TypeOK, code
<1>1. ASSUME NEW m \in Numbers, Call(m) PROVE Inv'
  <2>1. <<>> \in Seq(Nat) /\ Len(<<>>) = 0 /\ 0 \in 0..Len(code) /\ m \in Nat
    BY <1>a, ProgramAssumption
  <2>2. Height(source)[0] = 0
    BY <1>a DEF Balances
  <2>3. TypeOK'
    BY <1>1, <2>1 DEF Inv, TypeOK, Call, ClearedStack, code
  <2>4. HeightByPosition'
    BY <1>1, <2>1, <2>2 DEF Call, ClearedStack, HeightByPosition
  <2> QED BY <2>3, <2>4 DEF Inv
<1>b. pc \in Nat /\ n \in Nat /\ stack \in Seq(Nat)
  BY <1>a DEF Inv, TypeOK
<1> DEFINE i == code[pc + 1]
<1>c. ASSUME phase = "running", pc < Len(code)
      PROVE  i \in Instruction /\ i.arg \in Nat /\ Len(stack) >= Takes(i)
  BY <1>c, <1>b, AtInstruction, InstructionCases
<1>d. ASSUME NEW distance \in Nat, NEW s \in Seq(Nat),
             phase = "running", pc < Len(code),
             pc + distance \in Successors(pc, i),
             Len(s) = Len(stack) - Takes(i) + Leaves(i),
             Continue(distance, s)
      PROVE  Inv'
  BY <1>d, ContinueKeepsInv
<1>e. Len(stack) \in Nat
  BY <1>b
<1>f. \A k \in 0..Len(stack) : /\ Pop(k) \in Seq(Nat)
                               /\ Len(Pop(k)) = Len(stack) - k
  BY <1>b, StackFacts DEF Pop
<1> HIDE DEF i
<1>2. CASE PushConstant
  <2>1. phase = "running" /\ pc < Len(code) /\ i.op = "push"
    BY <1>2 DEF PushConstant, At, i
  <2>2. Takes(i) = 0 /\ Leaves(i) = 1 /\ pc + 1 \in Successors(pc, i)
    BY <2>1, <1>b, <1>c, InstructionCases
  <2>3. Continue(1, Append(stack, i.arg))
    BY <1>2 DEF PushConstant, arg, i
  <2>4. /\ Append(stack, i.arg) \in Seq(Nat)
        /\ Len(Append(stack, i.arg)) = Len(stack) + 1
    BY <2>1, <1>b, <1>c
  <2>5. Len(Append(stack, i.arg)) = Len(stack) - Takes(i) + Leaves(i)
    BY <2>2, <2>4, <1>e
  <2> QED BY <2>1, <2>2, <2>3, <2>4, <2>5, <1>d
<1>3. CASE PushArgument
  <2>1. phase = "running" /\ pc < Len(code) /\ i.op = "n"
    BY <1>3 DEF PushArgument, At, i
  <2>2. Takes(i) = 0 /\ Leaves(i) = 1 /\ pc + 1 \in Successors(pc, i)
    BY <2>1, <1>b, <1>c, InstructionCases
  <2>3. Continue(1, Append(stack, n))
    BY <1>3 DEF PushArgument
  <2>4. Append(stack, n) \in Seq(Nat) /\ Len(Append(stack, n)) = Len(stack) + 1
    BY <1>b
  <2>5. Len(Append(stack, n)) = Len(stack) - Takes(i) + Leaves(i)
    BY <2>2, <2>4, <1>e
  <2> QED BY <2>1, <2>2, <2>3, <2>4, <2>5, <1>d
<1>4. CASE SkipAlways
  <2>1. phase = "running" /\ pc < Len(code) /\ i.op = "skip"
    BY <1>4 DEF SkipAlways, At, i
  <2>2. /\ Takes(i) = 0 /\ Leaves(i) = 0
        /\ 1 + i.arg \in Nat
        /\ pc + (1 + i.arg) \in Successors(pc, i)
    BY <2>1, <1>b, <1>c, InstructionCases
  <2>3. Continue(1 + i.arg, stack)
    BY <1>4 DEF SkipAlways, arg, i
  <2>4. Len(stack) = Len(stack) - Takes(i) + Leaves(i)
    BY <2>2, <1>e
  <2> QED BY <2>1, <2>2, <2>3, <2>4, <1>b, <1>d
<1>5. CASE SkipConditional
  <2>1. phase = "running" /\ pc < Len(code) /\ i.op \in {"skip_if", "skip_if_not"}
    BY <1>5 DEF SkipConditional, At, i
  <2>2. /\ Takes(i) = 1 /\ Leaves(i) = 0
        /\ 1 + i.arg \in Nat
        /\ pc + 1 \in Successors(pc, i)
        /\ pc + (1 + i.arg) \in Successors(pc, i)
    <3>1. /\ Takes(i) = 1 /\ Leaves(i) = 0
          /\ Successors(pc, i) = {pc + 1, pc + 1 + i.arg}
      BY <2>1, <1>b, <1>c, InstructionCases
    <3>2. i.arg \in Nat
      BY <2>1, <1>c
    <3>3. 1 + i.arg \in Nat /\ pc + (1 + i.arg) = pc + 1 + i.arg
      BY <3>2, <1>b
    <3> QED BY <3>1, <3>3
  <2>3. PICK d \in {1, 1 + i.arg} : Continue(d, Pop(1))
    BY <1>5 DEF SkipConditional, arg, i
  <2>4. Pop(1) \in Seq(Nat) /\ Len(Pop(1)) = Len(stack) - 1
    BY <2>1, <2>2, <1>c, <1>e, <1>f
  <2>5. Len(Pop(1)) = Len(stack) - Takes(i) + Leaves(i)
    BY <2>2, <2>4, <1>e
  <2>6. d \in Nat /\ pc + d \in Successors(pc, i)
    BY <2>2, <2>3
  <2> QED BY <2>1, <2>3, <2>4, <2>5, <2>6, <1>d
<1>6. CASE Negate
  <2>1. phase = "running" /\ pc < Len(code) /\ i.op = "not"
    BY <1>6 DEF Negate, At, i
  <2>2. Takes(i) = 1 /\ Leaves(i) = 1 /\ pc + 1 \in Successors(pc, i)
    BY <2>1, <1>b, <1>c, InstructionCases
  <2>3. Pop(1) \in Seq(Nat) /\ Len(Pop(1)) = Len(stack) - 1
    BY <2>1, <2>2, <1>c, <1>e, <1>f
  <2> DEFINE v == Bit(Top = 0)
  <2>4. v \in Nat
    BY DEF Bit
  <2>5. Continue(1, Append(Pop(1), v))
    BY <1>6 DEF Negate
  <2> HIDE DEF v
  <2>6. Append(Pop(1), v) \in Seq(Nat) /\ Len(Append(Pop(1), v)) = Len(stack)
    BY <2>1, <2>2, <2>3, <2>4, <1>c, <1>e
  <2>7. Len(Append(Pop(1), v)) = Len(stack) - Takes(i) + Leaves(i)
    BY <2>2, <2>6, <1>e
  <2> QED BY <2>1, <2>2, <2>5, <2>6, <2>7, <1>d
<1>7. CASE Binary
  <2>1. phase = "running" /\ pc < Len(code) /\ i.op \in BinaryOps
    BY <1>7 DEF Binary, At, i
  <2>2. Takes(i) = 2 /\ Leaves(i) = 1 /\ pc + 1 \in Successors(pc, i)
    BY <2>1, <1>b, <1>c, InstructionCases
  <2>3. Len(stack) >= 2
    BY <2>1, <2>2, <1>c
  <2>4. Pop(2) \in Seq(Nat) /\ Len(Pop(2)) = Len(stack) - 2
    BY <2>3, <1>e, <1>f
  <2>5. Top \in Nat /\ Below \in Nat
    BY <2>3, <1>b DEF Top, Below
  <2> DEFINE v == Operate(i.op)
  <2>6. v \in Nat
    BY <1>7, <2>1, <2>5, ApplyType DEF Binary, Operate, i
  <2>7. Continue(1, Append(Pop(2), v))
    BY <1>7 DEF Binary, i
  <2> HIDE DEF v
  <2>8. Append(Pop(2), v) \in Seq(Nat) /\ Len(Append(Pop(2), v)) = Len(stack) - 1
    BY <2>3, <2>4, <2>6, <1>e
  <2>9. Len(Append(Pop(2), v)) = Len(stack) - Takes(i) + Leaves(i)
    BY <2>2, <2>8, <1>e
  <2> QED BY <2>1, <2>2, <2>7, <2>8, <2>9, <1>d
<1>8. CASE DivideByZero
  <2>1. TypeOK'
    BY <1>8 DEF DivideByZero, Inv, TypeOK, code
  <2>2. HeightByPosition'
    BY <1>8 DEF DivideByZero, HeightByPosition
  <2> QED BY <2>1, <2>2 DEF Inv
<1>9. CASE Return
  <2>1. pc = Len(code) /\ Len(stack) = 1
    BY <1>9, <1>a DEF Return, Inv, TypeOK, HeightByPosition, Balances
  <2>2. stack[1] \in Nat
    BY <2>1 DEF Inv, TypeOK
  <2>3. TypeOK'
    BY <1>9, <2>2 DEF Return, Inv, TypeOK, code
  <2>4. HeightByPosition'
    BY <1>9 DEF Return, HeightByPosition
  <2> QED BY <2>3, <2>4 DEF Inv
<1>10. CASE UNCHANGED vars
  BY <1>10 DEF vars, Inv, TypeOK, HeightByPosition, code
<1> QED
  BY <1>1, <1>2, <1>3, <1>4, <1>5, <1>6, <1>7, <1>8, <1>9, <1>10 DEF Next, Step

\* The stack height before every instruction is the one the emitter's skips
\* promise, however the machine got there and whatever it was called with
\* before (compute, lines 560-570).
THEOREM HeightsKept == Spec => [](TypeOK /\ HeightByPosition)
<1>1. Spec => []Inv
  BY InitInv, StepInv, PTL DEF Spec
<1> QED BY <1>1, PTL DEF Inv

\* The machine stays a machine over its own code: the position is within it, the
\* stack and what the caller is told are natural numbers, in whatever order calls
\* come and whichever of them divide by zero (compute, lines 560-570).
THEOREM TypesKept == Spec => []TypeOK
<1>1. Inv => TypeOK
  BY DEF Inv
<1> QED BY <1>1, InitInv, StepInv, PTL DEF Spec

\* pop_one, the ! operator and the binary operators find their operands: the
\* assertions at lines 491, 535 and 541 hold.
THEOREM OperandsAlwaysPresent == Spec => []OperandsPresent
<1>1. Inv => OperandsPresent
  BY AtInstruction DEF OperandsPresent
<1>2. Spec => []Inv
  BY InitInv, StepInv, PTL DEF Spec
<1> QED BY <1>1, <1>2, PTL

\* The loop of compute ends behind the last instruction with one value, the
\* result: the assertions at lines 567 and 568 hold.
THEOREM AlwaysEndsBalanced == Spec => []EndsBalanced
<1>1. Inv => EndsBalanced
  <2> SUFFICES ASSUME Inv, phase = "running", pc >= Len(code)
               PROVE  pc = Len(code) /\ Len(stack) = 1
    BY DEF EndsBalanced
  <2>1. code \in Seq(Instruction) /\ Balances(code, Height(source))
    BY ProgramAssumption DEF Inv, TypeOK, code
  <2>2. pc = Len(code)
    BY <2>1 DEF Inv, TypeOK
  <2> QED BY <2>1, <2>2 DEF Inv, HeightByPosition, Balances
<1>2. Spec => []Inv
  BY InitInv, StepInv, PTL DEF Spec
<1> QED BY <1>1, <1>2, PTL
-----------------------------------------------------------------------------
(* Outlines *)

\* An outline of instructions c says what a machine may hold before each of
\* them and after the last.  A machine is given by the shapes that this can
\* have, by what each instruction can be executed on, and by its moves: from
\* instruction and state to distance and state.
Outlines(P, c, K) ==
    /\ P \in [0..Len(c) -> K.shapes]
    /\ \A q \in 0..(Len(c) - 1) : \A x \in P[q] :
         /\ <<c[q + 1], x>> \in K.can
         /\ \A move \in K.moves :
              move[1] = c[q + 1] /\ move[2] = x =>
                  q + move[3] \in 0..Len(c) /\ move[4] \in P[q + move[3]]

\* Executed on a state of A, instructions c end in one of B.
Leads(c, K, A, B) ==
    \E P : Outlines(P, c, K) /\ A \subseteq P[0] /\ P[Len(c)] \subseteq B

\* What is the same in all machines: a skip can always be executed, moves by its
\* distance, and leaves the state alone.
Jumps(K) ==
    \A move \in K.moves :
        /\ move[3] \in Nat
        /\ \A k \in Nat : move[1] = Skip(k) => move[3] = k + 1 /\ move[4] = move[2]

Passes(K, B) == \A k \in Nat : \A x \in B : <<Skip(k), x>> \in K.can

\* An instruction that moves on to the next.
LEMMA LeadsOne ==
    ASSUME NEW K, NEW i, NEW A \in K.shapes, NEW B \in K.shapes,
           \A x \in A : <<i, x>> \in K.can,
           \A move \in K.moves :
               move[1] = i /\ move[2] \in A => move[3] = 1 /\ move[4] \in B
    PROVE  Leads(<<i>>, K, A, B)
<1> DEFINE P == [q \in 0..1 |-> IF q = 0 THEN A ELSE B]
<1>1. Len(<<i>>) = 1 /\ <<i>>[1] = i
  OBVIOUS
<1>2. 0..(1 - 1) = {0} /\ 0 + 1 = 1 /\ 1 \in 0..1 /\ 0 \in 0..1
  OBVIOUS
<1>3. P \in [0..1 -> K.shapes] /\ P[0] = A /\ P[1] = B
  OBVIOUS
<1> HIDE DEF P
<1>4. Outlines(P, <<i>>, K)
  BY <1>1, <1>2, <1>3 DEF Outlines
<1> QED BY <1>1, <1>3, <1>4 DEF Leads

\* Instructions after instructions.
LEMMA LeadsOn ==
    ASSUME NEW K, Jumps(K), NEW c \in Seq(Instruction), NEW d \in Seq(Instruction),
           NEW A, NEW B, NEW C, Leads(c, K, A, B), Leads(d, K, B, C)
    PROVE  Leads(c \o d, K, A, C)
<1>1. PICK P : Outlines(P, c, K) /\ A \subseteq P[0] /\ P[Len(c)] \subseteq B
  BY DEF Leads
<1>2. PICK R : Outlines(R, d, K) /\ B \subseteq R[0] /\ R[Len(d)] \subseteq C
  BY DEF Leads
<1>3. PICK k \in Nat : k = Len(c)
  OBVIOUS
<1>4. PICK l \in Nat : l = Len(d)
  OBVIOUS
<1>5. PICK cd : cd = c \o d
  OBVIOUS
<1>6. /\ Len(cd) = k + l
      /\ \A i \in 1..(k + l) : cd[i] = IF i <= k THEN c[i] ELSE d[i - k]
  BY <1>3, <1>4, <1>5, ConcatProperties
<1> DEFINE S == [q \in 0..(k + l) |-> IF q < k THEN P[q] ELSE R[q - k]]
<1>7. S \in [0..(k + l) -> K.shapes]
  <2>1. P \in [0..k -> K.shapes] /\ R \in [0..l -> K.shapes]
    BY <1>1, <1>2, <1>3, <1>4 DEF Outlines
  <2> QED BY <2>1
<1>8. ASSUME NEW q \in 0..k, NEW x \in P[q]
      PROVE  x \in S[q]
  <2>1. CASE q < k
    BY <2>1
  <2>2. CASE q = k
    BY <2>2, <1>1, <1>2, <1>3
  <2> QED BY <2>1, <2>2
<1>9. ASSUME NEW q \in 0..l
      PROVE  k + q \in 0..(k + l) /\ S[k + q] = R[q]
  OBVIOUS
<1>10. ASSUME NEW q \in 0..(k + l - 1), NEW x \in S[q]
       PROVE  /\ <<cd[q + 1], x>> \in K.can
              /\ \A move \in K.moves :
                   move[1] = cd[q + 1] /\ move[2] = x =>
                       q + move[3] \in 0..(k + l) /\ move[4] \in S[q + move[3]]
  <2>1. CASE q < k
    <3>1. q \in 0..(k - 1) /\ x \in P[q] /\ cd[q + 1] = c[q + 1]
      BY <2>1, <1>6
    <3>2. <<c[q + 1], x>> \in K.can
      BY <3>1, <1>1, <1>3 DEF Outlines
    <3>3. ASSUME NEW move \in K.moves, move[1] = c[q + 1], move[2] = x
          PROVE  q + move[3] \in 0..(k + l) /\ move[4] \in S[q + move[3]]
      <4>1. q + move[3] \in 0..k /\ move[4] \in P[q + move[3]]
        BY <3>1, <3>3, <1>1, <1>3 DEF Outlines
      <4>2. PICK r \in 0..k : r = q + move[3]
        BY <4>1
      <4> HIDE DEF S
      <4>3. r \in 0..(k + l) /\ move[4] \in S[r]
        BY <4>1, <4>2, <1>8
      <4> QED BY <4>2, <4>3
    <3> HIDE DEF S
    <3> QED BY <3>1, <3>2, <3>3
  <2>2. CASE ~(q < k)
    <3>1. PICK p \in 0..(l - 1) : q = k + p
      <4>1. q - k \in 0..(l - 1) /\ q = k + (q - k)
        BY <2>2
      <4> QED BY <4>1
    <3>2. x \in R[p] /\ cd[q + 1] = d[p + 1]
      <4>1. q + 1 \in 1..(k + l) /\ ~(q + 1 <= k) /\ q + 1 - k = p + 1
        BY <3>1
      <4>2. p \in 0..l
        BY <3>1
      <4> QED BY <4>1, <4>2, <3>1, <1>6, <1>9
    <3>3. <<d[p + 1], x>> \in K.can
      BY <3>1, <3>2, <1>2, <1>4 DEF Outlines
    <3>4. ASSUME NEW move \in K.moves, move[1] = d[p + 1], move[2] = x
          PROVE  q + move[3] \in 0..(k + l) /\ move[4] \in S[q + move[3]]
      <4>1. p + move[3] \in 0..l /\ move[4] \in R[p + move[3]]
        BY <3>1, <3>2, <3>4, <1>2, <1>4 DEF Outlines
      <4>2. move[3] \in Nat
        BY DEF Jumps
      <4>3. q + move[3] = k + (p + move[3])
        BY <3>1, <4>2
      <4>4. PICK r \in 0..l : r = p + move[3]
        BY <4>1
      <4> HIDE DEF S
      <4>5. k + r \in 0..(k + l) /\ S[k + r] = R[r]
        BY <1>9
      <4> QED BY <4>1, <4>3, <4>4, <4>5
    <3> HIDE DEF S
    <3> QED BY <3>2, <3>3, <3>4
  <2> QED BY <2>1, <2>2
<1>11. A \subseteq S[0] /\ S[k + l] \subseteq C
  <2>1. S[k + l] = R[l]
    BY <1>9
  <2>2. P[0] \subseteq S[0]
    <3>1. 0 \in 0..k
      OBVIOUS
    <3> HIDE DEF S
    <3> QED BY <3>1, <1>8
  <2> QED BY <2>1, <2>2, <1>1, <1>2, <1>4
<1> HIDE DEF S
<1>12. Outlines(S, cd, K)
  <2>1. PICK r : r = k + l
    OBVIOUS
  <2>2. Len(cd) = r /\ S \in [0..r -> K.shapes]
    BY <2>1, <1>6, <1>7
  <2>3. \A q \in 0..(r - 1) : \A x \in S[q] :
          /\ <<cd[q + 1], x>> \in K.can
          /\ \A move \in K.moves :
               move[1] = cd[q + 1] /\ move[2] = x =>
                   q + move[3] \in 0..r /\ move[4] \in S[q + move[3]]
    BY <2>1, <1>10
  <2> QED BY <2>2, <2>3 DEF Outlines
<1> QED BY <1>5, <1>6, <1>11, <1>12 DEF Leads

\* Two pieces of code, one after the other.
LEMMA Joined ==
    ASSUME NEW a \in Seq(Instruction), NEW b \in Seq(Instruction),
           NEW k, k = Len(a), NEW l, l = Len(b)
    PROVE  /\ a \o b \in Seq(Instruction)
           /\ Len(a \o b) = k + l
           /\ \A q \in 1..k : (a \o b)[q] = a[q]
           /\ \A q \in 1..l : (a \o b)[k + q] = b[q]
<1>1. k \in Nat /\ l \in Nat
  OBVIOUS
<1>2. PICK c \in Seq(Instruction) : c = a \o b
  BY ConcatProperties
<1>3. Len(c) = k + l /\ \A q \in 1..(k + l) : c[q] = IF q <= k THEN a[q] ELSE b[q - k]
  BY <1>2, ConcatProperties
<1>4. ASSUME NEW q \in 1..k
      PROVE  c[q] = a[q]
  <2>1. q \in 1..(k + l) /\ q <= k
    BY <1>1
  <2> QED BY <2>1, <1>3
<1>5. ASSUME NEW q \in 1..l
      PROVE  c[k + q] = b[q]
  <2>1. k + q \in 1..(k + l) /\ ~(k + q <= k) /\ k + q - k = q
    BY <1>1
  <2> QED BY <2>1, <1>3
<1> QED BY <1>2, <1>3, <1>4, <1>5

\* An instruction as a piece of code.
LEMMA Single ==
    ASSUME NEW i \in Instruction
    PROVE  <<i>> \in Seq(Instruction) /\ Len(<<i>>) = 1 /\ <<i>>[1] = i
OBVIOUS

\* c is a conditional skip i, k instructions, a skip, and l more.
Apart(c, i, near, k, far, l) ==
    /\ c \in Seq(Instruction)
    /\ Len(c) = k + l + 2
    /\ c[1] = i
    /\ \A q \in 1..k : c[q + 1] = near[q]
    /\ c[k + 2] = Skip(l)
    /\ \A q \in 1..l : c[k + 2 + q] = far[q]

\* What is emitted for two branches, instruction by instruction.
LEMMA BranchesLayout ==
    ASSUME NEW i \in Instruction, NEW near \in Seq(Instruction), NEW far \in Seq(Instruction)
    PROVE  Apart(Branches(i, near, far), i, near, Len(near), far, Len(far))
<1> DEFINE c == Branches(i, near, far)
<1>k. PICK k \in Nat : k = Len(near)
  OBVIOUS
<1>l. PICK l \in Nat : l = Len(far)
  OBVIOUS
<1>1. k \in Nat /\ l \in Nat /\ k = Len(near) /\ l = Len(far)
  BY <1>k, <1>l
<1>2. Skip(l) \in Instruction
  BY <1>1 DEF Skip, Instruction, Skips
<1>3. PICK a : a = <<i>> \o near
  OBVIOUS
<1>4. /\ a \in Seq(Instruction)
      /\ Len(a) = 1 + k
      /\ a[1] = i
      /\ \A q \in 1..k : a[1 + q] = near[q]
  <2>1. 1 \in 1..1 /\ <<i>>[1] = i /\ <<i>> \in Seq(Instruction) /\ Len(<<i>>) = 1
    BY Single
  <2> QED BY <2>1, <1>1, <1>3, Joined
<1>5. PICK b : b = a \o <<Skip(l)>>
  OBVIOUS
<1>6. /\ b \in Seq(Instruction)
      /\ Len(b) = 1 + k + 1
      /\ \A q \in 1..(1 + k) : b[q] = a[q]
      /\ b[1 + k + 1] = Skip(l)
  <2>1. /\ 1 \in 1..1 /\ <<Skip(l)>>[1] = Skip(l)
        /\ <<Skip(l)>> \in Seq(Instruction) /\ Len(<<Skip(l)>>) = 1
    BY <1>2, Single
  <2> QED BY <2>1, <1>4, <1>5, Joined
<1>7. c = b \o far
  BY <1>1, <1>3, <1>5 DEF Branches
<1> HIDE DEF c
<1>8. /\ c \in Seq(Instruction)
      /\ Len(c) = 1 + k + 1 + l
      /\ \A q \in 1..(1 + k + 1) : c[q] = b[q]
      /\ \A q \in 1..l : c[1 + k + 1 + q] = far[q]
  <2>1. PICK r \in Nat : r = 1 + k + 1
    BY <1>1
  <2>2. /\ c \in Seq(Instruction)
        /\ Len(c) = r + l
        /\ \A q \in 1..r : c[q] = b[q]
        /\ \A q \in 1..l : c[r + q] = far[q]
    <3>1. b \in Seq(Instruction) /\ far \in Seq(Instruction) /\ r = Len(b) /\ l = Len(far)
      BY <2>1, <1>1, <1>6
    <3> QED BY <3>1, <1>7, Joined
  <2> QED BY <2>1, <2>2
<1>9. c[1] = i
  <2>1. 1 \in 1..(1 + k + 1) /\ 1 \in 1..(1 + k)
    BY <1>1
  <2> QED BY <2>1, <1>4, <1>6, <1>8
<1>10. ASSUME NEW q \in 1..k
       PROVE  c[q + 1] = near[q]
  <2>1. q + 1 \in 1..(1 + k + 1) /\ q + 1 \in 1..(1 + k) /\ q + 1 = 1 + q
    BY <1>1
  <2> QED BY <2>1, <1>4, <1>6, <1>8
<1>11. c[k + 2] = Skip(l)
  <2>1. 1 + k + 1 \in 1..(1 + k + 1) /\ k + 2 = 1 + k + 1
    BY <1>1
  <2> QED BY <2>1, <1>6, <1>8
<1>12. Len(c) = k + l + 2 /\ 1 + k + 1 = k + 2
  BY <1>1, <1>8
<1>13. Apart(c, i, near, k, far, l)
  BY <1>8, <1>9, <1>10, <1>11, <1>12 DEF Apart
<1> QED BY <1>1, <1>13 DEF c

\* Two branches behind a test that leads to one or the other.
LEMMA LeadsApart ==
    ASSUME NEW K, Jumps(K), NEW i \in Instruction,
           NEW near \in Seq(Instruction), NEW far \in Seq(Instruction),
           NEW A \in K.shapes, NEW A1, NEW A2, NEW B \in K.shapes, Passes(K, B),
           Leads(near, K, A1, B), Leads(far, K, A2, B),
           \A x \in A : <<i, x>> \in K.can,
           \A move \in K.moves :
               move[1] = i /\ move[2] \in A =>
                   \/ move[3] = 1 /\ move[4] \in A1
                   \/ move[3] = Len(near) + 2 /\ move[4] \in A2
    PROVE  Leads(Branches(i, near, far), K, A, B)
<1>1. PICK P : Outlines(P, near, K) /\ A1 \subseteq P[0] /\ P[Len(near)] \subseteq B
  BY DEF Leads
<1>2. PICK R : Outlines(R, far, K) /\ A2 \subseteq R[0] /\ R[Len(far)] \subseteq B
  BY DEF Leads
<1>3. PICK k \in Nat : k = Len(near)
  OBVIOUS
<1>4. PICK l \in Nat : l = Len(far)
  OBVIOUS
<1>5. PICK c : c = Branches(i, near, far)
  OBVIOUS
<1>6. /\ c \in Seq(Instruction)
      /\ Len(c) = k + l + 2
      /\ c[1] = i
      /\ \A q \in 1..k : c[q + 1] = near[q]
      /\ c[k + 2] = Skip(l)
      /\ \A q \in 1..l : c[k + 2 + q] = far[q]
  <2>1. Apart(c, i, near, k, far, l)
    BY <1>3, <1>4, <1>5, BranchesLayout
  <2> QED BY <2>1 DEF Apart
<1>7. P \in [0..k -> K.shapes] /\ R \in [0..l -> K.shapes]
  BY <1>1, <1>2, <1>3, <1>4 DEF Outlines
<1> DEFINE S == [q \in 0..(k + l + 2) |->
                   IF q = 0 THEN A
                   ELSE IF q <= k + 1 THEN P[q - 1]
                   ELSE IF q < k + l + 2 THEN R[q - (k + 2)] ELSE B]
           Good(q, x, move) == q + move[3] \in 0..(k + l + 2) /\ move[4] \in S[q + move[3]]
<1>8. S \in [0..(k + l + 2) -> K.shapes]
  BY <1>7
<1>9. S[0] = A /\ S[k + l + 2] = B
  OBVIOUS
<1>10. ASSUME NEW q \in 0..k
       PROVE  q + 1 \in 0..(k + l + 2) /\ S[q + 1] = P[q]
  OBVIOUS
<1>11. ASSUME NEW q \in 0..l
       PROVE  /\ k + 2 + q \in 0..(k + l + 2)
              /\ q < l => S[k + 2 + q] = R[q]
              /\ R[q] \subseteq S[k + 2 + q]
  <2>1. k + 2 + q \in 0..(k + l + 2) /\ k + 2 + q # 0 /\ ~(k + 2 + q <= k + 1)
    OBVIOUS
  <2>2. CASE q < l
    <3>1. k + 2 + q < k + l + 2 /\ k + 2 + q - (k + 2) = q
      BY <2>2
    <3>2. S[k + 2 + q] = R[q]
      BY <2>1, <3>1
    <3> QED BY <2>1, <3>2
  <2>3. CASE q = l
    <3>1. ~(k + 2 + q < k + l + 2) /\ ~(q < l)
      BY <2>3
    <3>2. S[k + 2 + q] = B
      BY <2>1, <3>1
    <3>3. R[q] \subseteq B
      BY <2>3, <1>2, <1>4
    <3> HIDE DEF S
    <3> QED BY <2>1, <3>1, <3>2, <3>3
  <2>4. q < l \/ q = l
    OBVIOUS
  <2> HIDE DEF S
  <2> QED BY <2>2, <2>3, <2>4
<1> HIDE DEF S
<1>12. ASSUME NEW x \in S[0]
       PROVE  /\ <<c[1], x>> \in K.can
              /\ \A move \in K.moves : move[1] = c[1] /\ move[2] = x => Good(0, x, move)
  <2>1. x \in A
    BY <1>9
  <2>2. ASSUME NEW move \in K.moves, move[1] = i, move[2] = x
        PROVE  Good(0, x, move)
    <3>1. 0 \in 0..k /\ 0 \in 0..l
      OBVIOUS
    <3>2. 0 + 1 \in 0..(k + l + 2) /\ S[0 + 1] = P[0]
      BY <3>1, <1>10
    <3>3. k + 2 + 0 \in 0..(k + l + 2) /\ R[0] \subseteq S[k + 2 + 0]
      BY <3>1, <1>11
    <3>4. CASE move[3] = 1 /\ move[4] \in A1
      BY <3>2, <3>4, <1>1
    <3>5. CASE move[3] = k + 2 /\ move[4] \in A2
      <4>1. 0 + move[3] = k + 2 + 0
        BY <3>5
      <4> QED BY <4>1, <3>3, <3>5, <1>2
    <3> QED BY <2>1, <2>2, <3>4, <3>5, <1>3
  <2> QED BY <2>1, <2>2, <1>6
<1>13. ASSUME NEW q \in 0..(k - 1), NEW x \in S[q + 1]
       PROVE  /\ <<c[q + 2], x>> \in K.can
              /\ \A move \in K.moves : move[1] = c[q + 2] /\ move[2] = x => Good(q + 1, x, move)
  <2>1. c[q + 2] = near[q + 1]
    <3>1. q + 1 \in 1..k /\ q + 1 + 1 = q + 2
      OBVIOUS
    <3> QED BY <3>1, <1>6
  <2>2. x \in P[q]
    BY <1>10
  <2>3. <<near[q + 1], x>> \in K.can
    BY <2>2, <1>1, <1>3 DEF Outlines
  <2>4. ASSUME NEW move \in K.moves, move[1] = near[q + 1], move[2] = x
        PROVE  Good(q + 1, x, move)
    <3>1. q + move[3] \in 0..k /\ move[4] \in P[q + move[3]]
      BY <2>2, <2>4, <1>1, <1>3 DEF Outlines
    <3>2. PICK r \in 0..k : r = q + move[3]
      BY <3>1
    <3>3. move[3] \in Nat
      BY DEF Jumps
    <3>4. q + 1 + move[3] = r + 1
      <4>1. \A d \in Nat : q + 1 + d = (q + d) + 1
        OBVIOUS
      <4> QED BY <4>1, <3>2, <3>3
    <3>5. r + 1 \in 0..(k + l + 2) /\ S[r + 1] = P[r]
      BY <1>10
    <3> QED BY <3>1, <3>2, <3>4, <3>5
  <2> QED BY <2>1, <2>3, <2>4
<1>14. ASSUME NEW x \in S[k + 1]
       PROVE  /\ <<c[k + 2], x>> \in K.can
              /\ \A move \in K.moves : move[1] = c[k + 2] /\ move[2] = x => Good(k + 1, x, move)
  <2>1. k \in 0..k
    OBVIOUS
  <2>2. x \in B
    BY <2>1, <1>10, <1>1, <1>3
  <2>3. <<Skip(l), x>> \in K.can
    BY <2>2 DEF Passes
  <2>4. ASSUME NEW move \in K.moves, move[1] = Skip(l), move[2] = x
        PROVE  Good(k + 1, x, move)
    <3>1. move[3] = l + 1 /\ move[4] = x
      BY <2>4 DEF Jumps
    <3>2. k + 1 + move[3] = k + l + 2 /\ k + l + 2 \in 0..(k + l + 2)
      BY <3>1
    <3> QED BY <3>1, <3>2, <2>2, <1>9
  <2> QED BY <2>3, <2>4, <1>6
<1>15. ASSUME NEW q \in 0..(l - 1), NEW x \in S[k + 2 + q]
       PROVE  /\ <<c[k + 2 + q + 1], x>> \in K.can
              /\ \A move \in K.moves :
                   move[1] = c[k + 2 + q + 1] /\ move[2] = x => Good(k + 2 + q, x, move)
  <2>1. c[k + 2 + q + 1] = far[q + 1]
    <3>1. q + 1 \in 1..l /\ k + 2 + (q + 1) = k + 2 + q + 1
      OBVIOUS
    <3>2. c[k + 2 + (q + 1)] = far[q + 1]
      BY <3>1, <1>6
    <3> QED BY <3>1, <3>2
  <2>2. x \in R[q]
    <3>1. q \in 0..l /\ q < l
      OBVIOUS
    <3> QED BY <3>1, <1>11
  <2>3. <<far[q + 1], x>> \in K.can
    BY <2>2, <1>2, <1>4 DEF Outlines
  <2>4. ASSUME NEW move \in K.moves, move[1] = far[q + 1], move[2] = x
        PROVE  Good(k + 2 + q, x, move)
    <3>1. q + move[3] \in 0..l /\ move[4] \in R[q + move[3]]
      BY <2>2, <2>4, <1>2, <1>4 DEF Outlines
    <3>2. PICK r \in 0..l : r = q + move[3]
      BY <3>1
    <3>3. move[3] \in Nat
      BY DEF Jumps
    <3>4. k + 2 + q + move[3] = k + 2 + r
      <4>1. \A d \in Nat : k + 2 + q + d = k + 2 + (q + d)
        OBVIOUS
      <4> QED BY <4>1, <3>2, <3>3
    <3>5. k + 2 + r \in 0..(k + l + 2) /\ R[r] \subseteq S[k + 2 + r]
      BY <1>11
    <3> QED BY <3>1, <3>2, <3>4, <3>5
  <2> QED BY <2>1, <2>3, <2>4
<1>16. ASSUME NEW q \in 0..(k + l + 2 - 1), NEW x \in S[q]
       PROVE  /\ <<c[q + 1], x>> \in K.can
              /\ \A move \in K.moves : move[1] = c[q + 1] /\ move[2] = x => Good(q, x, move)
  <2>1. \/ q = 0
        \/ q - 1 \in 0..(k - 1) /\ q = (q - 1) + 1 /\ q + 1 = (q - 1) + 2
        \/ q = k + 1 /\ q + 1 = k + 2
        \/ q - (k + 2) \in 0..(l - 1) /\ q = k + 2 + (q - (k + 2))
    OBVIOUS
  <2>2. CASE q = 0
    BY <2>2, <1>12
  <2>3. CASE q - 1 \in 0..(k - 1) /\ q = (q - 1) + 1 /\ q + 1 = (q - 1) + 2
    <3>1. PICK p \in 0..(k - 1) : q = p + 1 /\ q + 1 = p + 2
      BY <2>3
    <3> HIDE DEF Good
    <3> QED BY <3>1, <1>13
  <2>4. CASE q = k + 1 /\ q + 1 = k + 2
    BY <2>4, <1>14
  <2>5. CASE q - (k + 2) \in 0..(l - 1) /\ q = k + 2 + (q - (k + 2))
    <3>1. PICK p \in 0..(l - 1) : q = k + 2 + p
      BY <2>5
    <3> HIDE DEF Good
    <3> QED BY <3>1, <1>15
  <2> QED BY <2>1, <2>2, <2>3, <2>4, <2>5
<1>17. Outlines(S, c, K)
  BY <1>6, <1>8, <1>16 DEF Outlines
<1> QED BY <1>5, <1>6, <1>9, <1>17 DEF Leads

\* Nothing leads to nothing.
LEMMA LeadsNowhere ==
    ASSUME NEW K, {} \in K.shapes, NEW c \in Seq(Instruction), NEW B
    PROVE  Leads(c, K, {}, B)
<1> DEFINE P == [q \in 0..Len(c) |-> {}]
<1>1. Len(c) \in Nat /\ P \in [0..Len(c) -> K.shapes] /\ P[0] = {} /\ P[Len(c)] = {}
  OBVIOUS
<1>2. \A q \in 0..(Len(c) - 1) : P[q] = {}
  BY <1>1
<1> HIDE DEF P
<1>3. Outlines(P, c, K)
  BY <1>1, <1>2 DEF Outlines
<1> QED BY <1>1, <1>3 DEF Leads

(* How high the stack is *)

\* The machine that knows no more of the stack than its height, and may go
\* either way at a conditional skip.
Climber ==
    [shapes |-> {{h} : h \in Nat},
     can    |-> {do \in Instruction \X Nat : do[2] >= Takes(do[1])},
     moves  |-> {move \in Instruction \X Nat \X Nat \X Nat :
                  /\ move[2] >= Takes(move[1])
                  /\ move[3] \in Successors(0, move[1])
                  /\ move[4] = move[2] - Takes(move[1]) + Leaves(move[1])}]

\* What can be taken to be known of it.
LEMMA ClimberFacts ==
    /\ Jumps(Climber)
    /\ \A h \in Nat : {h} \in Climber.shapes /\ Passes(Climber, {h})
<1>1. ASSUME NEW move \in Climber.moves
      PROVE  move[3] \in Nat
  BY DEF Climber
<1>2. ASSUME NEW move \in Climber.moves, NEW k \in Nat, move[1] = Skip(k)
      PROVE  move[3] = k + 1 /\ move[4] = move[2]
  <2>1. move[1].op = "skip" /\ move[1].arg = k /\ move[2] \in Nat /\ move[1] \in Instruction
    BY <1>2 DEF Climber, Skip
  <2>2. /\ Takes(move[1]) = 0 /\ Leaves(move[1]) = 0
        /\ Successors(0, move[1]) = {0 + 1 + k}
    BY <2>1 DEF Takes, Leaves, Successors, Skips, BinaryOps
  <2>3. move[3] \in {0 + 1 + k} /\ move[4] = move[2] - 0 + 0
    BY <2>2 DEF Climber
  <2> QED BY <2>1, <2>3
<1>3. ASSUME NEW h \in Nat
      PROVE  {h} \in Climber.shapes /\ Passes(Climber, {h})
  <2>1. ASSUME NEW k \in Nat
        PROVE  <<Skip(k), h>> \in Climber.can
    <3>1. Skip(k) \in Instruction /\ Takes(Skip(k)) = 0
      BY DEF Skip, Instruction, Skips, Takes, BinaryOps
    <3> QED BY <3>1 DEF Climber
  <2>2. {h} \in Climber.shapes
    BY DEF Climber
  <2> QED BY <2>1, <2>2 DEF Passes
<1> QED BY <1>1, <1>2, <1>3 DEF Jumps

\* An instruction that is no skip.
LEMMA ClimbOne ==
    ASSUME NEW i \in Instruction, i.op \notin Skips, NEW h \in Nat, h >= Takes(i)
    PROVE  Leads(<<i>>, Climber, {h}, {h - Takes(i) + Leaves(i)})
<1>1. Takes(i) \in Nat /\ Leaves(i) = 1 /\ Successors(0, i) = {1}
  BY DEF Instruction, Skips, Takes, Leaves, Successors
<1>2. PICK g \in Nat : g = h - Takes(i) + Leaves(i)
  BY <1>1
<1>3. <<i, h>> \in Climber.can
  BY DEF Climber
<1>4. ASSUME NEW move \in Climber.moves, move[1] = i, move[2] = h
      PROVE  move[3] = 1 /\ move[4] = g
  <2>1. move[3] \in Successors(0, move[1]) /\ move[4] = move[2] - Takes(move[1]) + Leaves(move[1])
    BY DEF Climber
  <2> QED BY <2>1, <1>1, <1>2, <1>4
<1>5. {h} \in Climber.shapes /\ {g} \in Climber.shapes
  BY ClimberFacts
<1>6. Leads(<<i>>, Climber, {h}, {g})
  BY <1>3, <1>4, <1>5, LeadsOne
<1> QED BY <1>2, <1>6

\* Code that puts one value on any stack.
Raises(c) == c \in Seq(Instruction) /\ \A h \in Nat : Leads(c, Climber, {h}, {h + 1})

\* Branches that put one value on the stack, behind a test that takes one.
LEMMA RaisesBranches ==
    ASSUME NEW first, Raises(first), NEW near, Raises(near), NEW far, Raises(far),
           NEW i \in Instruction, i.op \in {"skip_if", "skip_if_not"}, i.arg = Len(near) + 1
    PROVE  Raises(first \o Branches(i, near, far))
<1>1. Takes(i) = 1 /\ Leaves(i) = 0 /\ Successors(0, i) = {0 + 1, 0 + 1 + i.arg}
  BY DEF Takes, Leaves, Successors, Skips, BinaryOps
<1>2. /\ first \in Seq(Instruction) /\ near \in Seq(Instruction) /\ far \in Seq(Instruction)
      /\ Branches(i, near, far) \in Seq(Instruction)
  BY BranchesLayout DEF Raises, Apart
<1>3. ASSUME NEW h \in Nat
      PROVE  Leads(first \o Branches(i, near, far), Climber, {h}, {h + 1})
  <2>1. Leads(first, Climber, {h}, {h + 1})
    BY DEF Raises
  <2>2. Leads(near, Climber, {h}, {h + 1}) /\ Leads(far, Climber, {h}, {h + 1})
    BY DEF Raises
  <2>3. PICK g \in Nat : g = h + 1
    OBVIOUS
  <2>4. <<i, g>> \in Climber.can
    BY <1>1, <2>3 DEF Climber
  <2>5. ASSUME NEW move \in Climber.moves, move[1] = i, move[2] = g
        PROVE  move[3] \in {1, Len(near) + 2} /\ move[4] = h
    <3>1. move[3] \in Successors(0, move[1]) /\ move[4] = move[2] - Takes(move[1]) + Leaves(move[1])
      BY DEF Climber
    <3>2. move[3] \in {0 + 1, 0 + 1 + i.arg} /\ move[4] = g - 1 + 0
      BY <3>1, <1>1, <2>5
    <3>3. Len(near) \in Nat
      BY <1>2
    <3> QED BY <3>2, <3>3, <2>3
  <2>6. {g} \in Climber.shapes /\ Jumps(Climber) /\ Passes(Climber, {g})
    BY ClimberFacts
  <2>7. Leads(near, Climber, {h}, {g}) /\ Leads(far, Climber, {h}, {g})
    BY <2>2, <2>3
  <2>8. Leads(Branches(i, near, far), Climber, {g}, {g})
    <3>1. \A x \in {g} : <<i, x>> \in Climber.can
      BY <2>4
    <3>2. \A move \in Climber.moves :
             move[1] = i /\ move[2] \in {g} =>
                 \/ move[3] = 1 /\ move[4] \in {h}
                 \/ move[3] = Len(near) + 2 /\ move[4] \in {h}
      BY <2>5
    <3> QED BY <3>1, <3>2, <1>2, <2>6, <2>7, LeadsApart
  <2> QED BY <1>2, <2>1, <2>3, <2>6, <2>8, LeadsOn
<1>4. first \o Branches(i, near, far) \in Seq(Instruction)
  BY <1>2, ConcatProperties
<1> QED BY <1>3, <1>4 DEF Raises

\* The machine instructions that expressions of one or two parts end in.
LEMMA RaisesOperator ==
    ASSUME NEW first, Raises(first)
    PROVE  /\ Raises(first \o <<Code("not")>>)
           /\ \A second : Raises(second) =>
                \A op \in BinaryOps : Raises(first \o second \o <<Code(op)>>)
<1>1. /\ Code("not") \in Instruction /\ Code("not").op \notin Skips
      /\ Takes(Code("not")) = 1 /\ Leaves(Code("not")) = 1
  BY DEF Code, Instruction, Skips, Takes, Leaves, BinaryOps
<1>2. first \in Seq(Instruction)
  BY DEF Raises
<1>3. Raises(first \o <<Code("not")>>)
  <2>1. <<Code("not")>> \in Seq(Instruction)
    BY <1>1
  <2>2. ASSUME NEW h \in Nat
        PROVE  Leads(first \o <<Code("not")>>, Climber, {h}, {h + 1})
    <3>1. Leads(first, Climber, {h}, {h + 1})
      BY DEF Raises
    <3>2. h + 1 \in Nat /\ h + 1 >= 1 /\ h + 1 - 1 + 1 = h + 1
      OBVIOUS
    <3>3. Leads(<<Code("not")>>, Climber, {h + 1}, {h + 1 - 1 + 1})
      BY <3>2, <1>1, ClimbOne
    <3> QED BY <3>1, <3>2, <3>3, <2>1, <1>2, LeadsOn, ClimberFacts
  <2> QED BY <2>1, <2>2, <1>2, ConcatProperties DEF Raises
<1>4. ASSUME NEW second, Raises(second), NEW op \in BinaryOps
      PROVE  Raises(first \o second \o <<Code(op)>>)
  <2>1. /\ Code(op) \in Instruction /\ Code(op).op \notin Skips
        /\ Takes(Code(op)) = 2 /\ Leaves(Code(op)) = 1
    BY DEF Code, Instruction, Skips, Takes, Leaves, BinaryOps
  <2>2. second \in Seq(Instruction) /\ first \o second \in Seq(Instruction)
    BY <1>2, <1>4, ConcatProperties DEF Raises
  <2>3. <<Code(op)>> \in Seq(Instruction)
    BY <2>1
  <2>4. ASSUME NEW h \in Nat
        PROVE  Leads(first \o second \o <<Code(op)>>, Climber, {h}, {h + 1})
    <3>1. h + 1 \in Nat /\ h + 1 + 1 \in Nat /\ h + 1 + 1 >= 2 /\ h + 1 + 1 - 2 + 1 = h + 1
      OBVIOUS
    <3>2. Leads(first, Climber, {h}, {h + 1})
      BY DEF Raises
    <3>3. Leads(second, Climber, {h + 1}, {h + 1 + 1})
      BY <3>1, <1>4 DEF Raises
    <3>4. Leads(first \o second, Climber, {h}, {h + 1 + 1})
      BY <3>2, <3>3, <1>2, <2>2, LeadsOn, ClimberFacts
    <3>5. Leads(<<Code(op)>>, Climber, {h + 1 + 1}, {h + 1 + 1 - 2 + 1})
      <4>1. PICK g \in Nat : g = h + 1 + 1
        BY <3>1
      <4>2. g >= 2 /\ Leads(<<Code(op)>>, Climber, {g}, {g - Takes(Code(op)) + Leaves(Code(op))})
        BY <4>1, <3>1, <2>1, ClimbOne
      <4> QED BY <4>1, <4>2, <2>1
    <3> QED BY <3>1, <3>4, <3>5, <2>2, <2>3, LeadsOn, ClimberFacts
  <2> QED BY <2>2, <2>3, <2>4, ConcatProperties DEF Raises
<1> QED BY <1>3, <1>4

(* Expressions and what is emitted for them *)

\* How long the pieces are.
LEMMA Longer ==
    ASSUME NEW first \in Seq(Instruction), NEW i \in Instruction,
           NEW near \in Seq(Instruction), NEW far \in Seq(Instruction)
    PROVE  LET c == first \o Branches(i, near, far)
           IN  /\ c \in Seq(Instruction)
               /\ Len(first) < Len(c) /\ Len(near) < Len(c) /\ Len(far) < Len(c)
<1> DEFINE b == Branches(i, near, far)
<1>1. b \in Seq(Instruction) /\ Len(b) = Len(near) + Len(far) + 2
  BY BranchesLayout DEF Apart
<1> HIDE DEF b
<1>2. first \o b \in Seq(Instruction) /\ Len(first \o b) = Len(first) + Len(b)
  BY <1>1, ConcatProperties
<1>3. Len(first) \in Nat /\ Len(near) \in Nat /\ Len(far) \in Nat
  OBVIOUS
<1>4. /\ Len(first) < Len(first \o b)
      /\ Len(near) < Len(first \o b)
      /\ Len(far) < Len(first \o b)
  BY <1>1, <1>2, <1>3
<1> QED BY <1>2, <1>4 DEF b

\* The emitter's instructions are instructions.
LEMMA Instructions ==
    /\ \A k \in Nat : {Push(k), SkipIf(k), SkipIfNot(k)} \subseteq Instruction
    /\ {Code("n"), Code("not")} \cup {Code(op) : op \in BinaryOps} \subseteq Instruction
BY DEF Push, SkipIf, SkipIfNot, Code, Instruction, Skips

\* Normalising makes code longer, or leaves it as it is.
LEMMA NormalisedLonger ==
    ASSUME NEW second \in Seq(Instruction), NEW isBoolean
    PROVE  /\ Normalised(second, isBoolean) \in Seq(Instruction)
           /\ Len(second) <= Len(Normalised(second, isBoolean))
<1>1. <<Code("not"), Code("not")>> \in Seq(Instruction) /\ Len(<<Code("not"), Code("not")>>) = 2
  BY Instructions
<1>2. PICK nots \in Seq(Instruction) : nots = <<Code("not"), Code("not")>> /\ Len(nots) = 2
  BY <1>1
<1>3. second \o nots \in Seq(Instruction) /\ Len(second \o nots) = Len(second) + 2
  BY <1>2, ConcatProperties
<1>4. Len(second) \in Nat /\ Len(second) <= Len(second) + 2 /\ Len(second) <= Len(second)
  OBVIOUS
<1> QED BY <1>2, <1>3, <1>4 DEF Normalised

\* e is an operation of one of the kinds ops on shorter expressions.
Unary(e, E, emit) ==
    e.op = "not" /\ e.e1 \in E /\ Len(emit[e.e1]) < Len(emit[e])

Binary2(e, E, emit, ops) ==
    /\ e.op \in ops
    /\ e.e1 \in E /\ Len(emit[e.e1]) < Len(emit[e])
    /\ e.e2 \in E /\ Len(emit[e.e2]) < Len(emit[e])

Conditional(e, E, emit) ==
    /\ e.op = "ternary"
    /\ e.e1 \in E /\ Len(emit[e.e1]) < Len(emit[e])
    /\ e.e2 \in E /\ Len(emit[e.e2]) < Len(emit[e])
    /\ e.e3 \in E /\ Len(emit[e.e3]) < Len(emit[e])

\* The kinds of expressions.  Code of the parts of an expression is shorter than
\* that of the expression.
LEMMA Kinds ==
    ASSUME NEW E, NEW N, NEW value, NEW boolean, NEW emit,
           Visits(E, N, value, boolean, emit), NEW e \in E
    PROVE  \/ e.op = "constant" /\ e.value \in Nat
           \/ e.op = "n_var"
           \/ Unary(e, E, emit)
           \/ Binary2(e, E, emit, {"and"})
           \/ Binary2(e, E, emit, {"or"})
           \/ Binary2(e, E, emit, BinaryOps)
           \/ Conditional(e, E, emit)
<1>1. IsExpression(e, E) /\ emit[e] = Emitted(e, emit, boolean)
  BY DEF Visits
<1>2. \A f \in E : emit[f] \in Seq(Instruction)
  BY DEF Visits
<1>3. CASE (e.op = "constant" /\ e.value \in Nat) \/ e.op = "n_var"
  BY <1>3
<1>4. CASE e.op = "not" /\ e.e1 \in E
  <2>1. emit[e] = emit[e.e1] \o <<Code("not")>>
    BY <1>1, <1>4 DEF Emitted, BinaryOps
  <2>2. Len(emit[e]) = Len(emit[e.e1]) + 1 /\ Len(emit[e.e1]) \in Nat
    BY <2>1, <1>2, <1>4, Instructions, Single, ConcatProperties
  <2> QED BY <1>4, <2>2 DEF Unary
<1>5. CASE e.op \in BinaryOps /\ e.e1 \in E /\ e.e2 \in E
  <2>1. emit[e] = emit[e.e1] \o emit[e.e2] \o <<Code(e.op)>>
    BY <1>1, <1>5 DEF Emitted, BinaryOps
  <2>2. PICK a \in Seq(Instruction) : a = emit[e.e1]
    BY <1>2, <1>5
  <2>3. PICK b \in Seq(Instruction) : b = emit[e.e2]
    BY <1>2, <1>5
  <2>4. a \o b \in Seq(Instruction) /\ Len(a \o b) = Len(a) + Len(b)
    BY ConcatProperties
  <2>5. <<Code(e.op)>> \in Seq(Instruction) /\ Len(<<Code(e.op)>>) = 1
    BY <1>5, Instructions, Single
  <2>6. Len(a \o b \o <<Code(e.op)>>) = Len(a) + Len(b) + 1
    BY <2>4, <2>5, ConcatProperties
  <2>7. Len(a) \in Nat /\ Len(b) \in Nat
    OBVIOUS
  <2>8. Len(emit[e]) = Len(a) + Len(b) + 1
    BY <2>1, <2>2, <2>3, <2>6
  <2>9. Len(a) < Len(emit[e]) /\ Len(b) < Len(emit[e])
    BY <2>7, <2>8
  <2> QED BY <1>5, <2>2, <2>3, <2>9 DEF Binary2
<1>6. CASE e.op \in {"and", "or"} /\ e.e1 \in E /\ e.e2 \in E
  <2>1. PICK a \in Seq(Instruction) : a = emit[e.e1]
    BY <1>2, <1>6
  <2>2. PICK b \in Seq(Instruction) : b = emit[e.e2]
    BY <1>2, <1>6
  <2>3. PICK d \in Seq(Instruction) : d = Normalised(b, boolean[e.e2]) /\ Len(b) <= Len(d)
    BY NormalisedLonger
  <2>4. PICK i \in Instruction, k \in Nat : emit[e] = a \o Branches(i, <<Push(k)>>, d)
    <3>1. CASE e.op = "and"
      <4>1. emit[e] = EmitAnd(a, b, boolean[e.e2])
        BY <1>1, <2>1, <2>2, <3>1 DEF Emitted, BinaryOps
      <4>2. SkipIf(2) \in Instruction
        BY Instructions
      <4> QED BY <4>1, <4>2, <2>3 DEF EmitAnd
    <3>2. CASE e.op = "or"
      <4>1. emit[e] = EmitOr(a, b, boolean[e.e2])
        BY <1>1, <2>1, <2>2, <3>2 DEF Emitted, BinaryOps
      <4>2. SkipIfNot(2) \in Instruction
        BY Instructions
      <4> QED BY <4>1, <4>2, <2>3 DEF EmitOr
    <3> QED BY <1>6, <3>1, <3>2
  <2>5. PICK p \in Seq(Instruction) : p = <<Push(k)>>
    BY Instructions, Single
  <2>6. Len(a) < Len(emit[e]) /\ Len(d) < Len(emit[e])
    BY <2>4, <2>5, Longer
  <2>7. Len(b) < Len(emit[e])
    <3>1. emit[e] \in Seq(Instruction) /\ Len(emit[e]) \in Nat /\ Len(b) \in Nat /\ Len(d) \in Nat
      BY <1>2
    <3> QED BY <3>1, <2>3, <2>6
  <2> QED BY <1>6, <2>1, <2>2, <2>6, <2>7 DEF Binary2
<1>7. CASE e.op = "ternary" /\ e.e1 \in E /\ e.e2 \in E /\ e.e3 \in E
  <2>1. PICK a \in Seq(Instruction) : a = emit[e.e1]
    BY <1>2, <1>7
  <2>2. PICK b \in Seq(Instruction) : b = emit[e.e2]
    BY <1>2, <1>7
  <2>3. PICK d \in Seq(Instruction) : d = emit[e.e3]
    BY <1>2, <1>7
  <2>4. emit[e] = EmitTernary(a, b, d)
    BY <1>1, <1>7, <2>1, <2>2, <2>3 DEF Emitted, BinaryOps
  <2>5. \E i \in Instruction : \/ emit[e] = a \o Branches(i, d, b)
                                \/ emit[e] = a \o Branches(i, b, d)
    <3>1. Len(d) + 1 \in Nat /\ Len(b) + 1 \in Nat
      OBVIOUS
    <3>2. SkipIf(Len(d) + 1) \in Instruction /\ SkipIfNot(Len(b) + 1) \in Instruction
      BY <3>1, Instructions
    <3> QED BY <2>4, <3>2 DEF EmitTernary
  <2>6. Len(a) < Len(emit[e]) /\ Len(b) < Len(emit[e]) /\ Len(d) < Len(emit[e])
    BY <2>5, Longer
  <2> QED BY <1>7, <2>1, <2>2, <2>3, <2>6 DEF Conditional
<1> QED BY <1>1, <1>3, <1>4, <1>5, <1>6, <1>7 DEF IsExpression

\* The instructions that put a value on the stack.
LEMMA RaisesValue ==
    ASSUME NEW i \in Instruction, i.op \in {"push", "n"}
    PROVE  Raises(<<i>>)
<1>1. i.op \notin Skips /\ Takes(i) = 0 /\ Leaves(i) = 1
  BY DEF Skips, Takes, Leaves, BinaryOps
<1>2. ASSUME NEW h \in Nat
      PROVE  Leads(<<i>>, Climber, {h}, {h + 1})
  <2>1. h >= 0 /\ h - 0 + 1 = h + 1
    OBVIOUS
  <2>2. Leads(<<i>>, Climber, {h}, {h - 0 + 1})
    BY <1>1, <2>1, ClimbOne
  <2> QED BY <2>1, <2>2
<1> QED BY <1>2, Single DEF Raises

\* Two instructions at a time, or one after the other.
LEMMA TwoNots ==
    ASSUME NEW second \in Seq(Instruction)
    PROVE  second \o <<Code("not"), Code("not")>> = second \o <<Code("not")>> \o <<Code("not")>>
<1>1. <<Code("not")>> \in Seq(Instruction)
  BY Instructions, Single
<1>2. second \o <<Code("not")>> \o <<Code("not")>>
        = second \o (<<Code("not")>> \o <<Code("not")>>)
  BY <1>1, ConcatAssociative
<1>3. <<Code("not")>> \o <<Code("not")>> = <<Code("not"), Code("not")>>
  <2>1. PICK i \in Instruction : i = Code("not")
    BY Instructions
  <2>2. Append(<<i>>, i) = <<i>> \o <<i>>
    BY Single, AppendIsConcat
  <2>3. Append(<<i>>, i) = <<i, i>>
    <3>1. PICK a \in Seq(Instruction) : a = Append(<<i>>, i)
      BY Single, AppendProperties
    <3>2. Len(a) = 2 /\ a[1] = i /\ a[2] = i
      BY <3>1, Single, AppendProperties
    <3>3. PICK b \in Seq(Instruction) : b = <<i, i>>
      <4>1. <<i, i>> \in Seq(Instruction)
        OBVIOUS
      <4> QED BY <4>1
    <3>4. Len(b) = 2 /\ b[1] = i /\ b[2] = i
      BY <3>3
    <3>5. \A q \in 1..2 : a[q] = b[q]
      BY <3>2, <3>4
    <3> QED BY <3>1, <3>2, <3>3, <3>4, <3>5, SeqEqual
  <2> QED BY <2>1, <2>2, <2>3
<1> QED BY <1>2, <1>3

\* The value of and and or is normalised without a change of height.
LEMMA RaisesNormalised ==
    ASSUME NEW second, Raises(second), NEW isBoolean
    PROVE  Raises(Normalised(second, isBoolean))
<1>1. CASE isBoolean
  BY <1>1 DEF Normalised
<1>2. CASE ~isBoolean
  <2>1. second \in Seq(Instruction) /\ <<Code("not")>> \in Seq(Instruction)
    BY Instructions, Single DEF Raises
  <2>2. Normalised(second, isBoolean) = second \o <<Code("not")>> \o <<Code("not")>>
    BY <1>2, <2>1, TwoNots DEF Normalised
  <2>4. Raises(second \o <<Code("not")>>)
    BY RaisesOperator
  <2>5. Raises(second \o <<Code("not")>> \o <<Code("not")>>)
    BY <2>4, RaisesOperator
  <2> QED BY <2>2, <2>5
<1> QED BY <1>1, <1>2

\* What is emitted for an expression raises the stack by one if what is emitted
\* for its parts does.
LEMMA RaisesWhole ==
    ASSUME NEW E, NEW N, NEW value, NEW boolean, NEW emit,
           Visits(E, N, value, boolean, emit), NEW e \in E,
           \A f \in E : Len(emit[f]) < Len(emit[e]) => Raises(emit[f])
    PROVE  Raises(emit[e])
<1>1. emit[e] = Emitted(e, emit, boolean)
  BY DEF Visits
<1>2. CASE e.op = "constant" /\ e.value \in Nat
  <2>1. emit[e] = <<Push(e.value)>>
    BY <1>1, <1>2 DEF Emitted, BinaryOps
  <2>2. Push(e.value) \in Instruction /\ Push(e.value).op = "push"
    BY <1>2, Instructions DEF Push
  <2> QED BY <2>1, <2>2, RaisesValue
<1>3. CASE e.op = "n_var"
  <2>1. emit[e] = <<Code("n")>>
    BY <1>1, <1>3 DEF Emitted, BinaryOps
  <2>2. Code("n") \in Instruction /\ Code("n").op = "n"
    BY Instructions DEF Code
  <2> QED BY <2>1, <2>2, RaisesValue
<1>4. CASE Unary(e, E, emit)
  <2>1. emit[e] = emit[e.e1] \o <<Code("not")>> /\ Raises(emit[e.e1])
    BY <1>1, <1>4 DEF Emitted, Unary, BinaryOps
  <2> QED BY <2>1, RaisesOperator
<1>5. CASE Binary2(e, E, emit, BinaryOps)
  <2>1. /\ emit[e] = emit[e.e1] \o emit[e.e2] \o <<Code(e.op)>>
        /\ e.op \in BinaryOps /\ Raises(emit[e.e1]) /\ Raises(emit[e.e2])
    BY <1>1, <1>5 DEF Emitted, Binary2, BinaryOps
  <2> QED BY <2>1, RaisesOperator
<1>6. ASSUME NEW k \in Nat, NEW i \in Instruction, i.op \in {"skip_if", "skip_if_not"}, i.arg = 2,
             NEW first, Raises(first), NEW second, Raises(second), NEW isBoolean
      PROVE  Raises(first \o Branches(i, <<Push(k)>>, Normalised(second, isBoolean)))
  <2>1. PICK near : near = <<Push(k)>>
    OBVIOUS
  <2>2. Raises(near) /\ Len(near) = 1
    <3>1. Push(k) \in Instruction /\ Push(k).op \in {"push", "n"}
      BY Instructions DEF Push
    <3> QED BY <2>1, <3>1, RaisesValue, Single
  <2>3. PICK far : far = Normalised(second, isBoolean)
    OBVIOUS
  <2>4. Raises(far)
    BY <1>6, <2>3, RaisesNormalised
  <2>5. i.arg = Len(near) + 1
    BY <2>2, <1>6
  <2>6. Raises(first \o Branches(i, near, far))
    BY <1>6, <2>2, <2>4, <2>5, RaisesBranches
  <2> QED BY <2>1, <2>3, <2>6
<1>7. CASE Binary2(e, E, emit, {"and"})
  <2>1. emit[e] = EmitAnd(emit[e.e1], emit[e.e2], boolean[e.e2])
    BY <1>1, <1>7 DEF Emitted, Binary2, BinaryOps
  <2>2. Raises(emit[e.e1]) /\ Raises(emit[e.e2])
    BY <1>7 DEF Binary2
  <2>3. SkipIf(2) \in Instruction /\ SkipIf(2).op = "skip_if" /\ SkipIf(2).arg = 2
    BY Instructions DEF SkipIf
  <2> QED BY <2>1, <2>2, <2>3, <1>6 DEF EmitAnd
<1>8. CASE Binary2(e, E, emit, {"or"})
  <2>1. emit[e] = EmitOr(emit[e.e1], emit[e.e2], boolean[e.e2])
    BY <1>1, <1>8 DEF Emitted, Binary2, BinaryOps
  <2>2. Raises(emit[e.e1]) /\ Raises(emit[e.e2])
    BY <1>8 DEF Binary2
  <2>3. SkipIfNot(2) \in Instruction /\ SkipIfNot(2).op = "skip_if_not" /\ SkipIfNot(2).arg = 2
    BY Instructions DEF SkipIfNot
  <2> QED BY <2>1, <2>2, <2>3, <1>6 DEF EmitOr
<1>9. CASE Conditional(e, E, emit)
  <2>1. emit[e] = EmitTernary(emit[e.e1], emit[e.e2], emit[e.e3])
    BY <1>1, <1>9 DEF Emitted, Conditional, BinaryOps
  <2>2. PICK a : a = emit[e.e1] /\ Raises(a)
    BY <1>9 DEF Conditional
  <2>3. PICK b : b = emit[e.e2] /\ Raises(b)
    BY <1>9 DEF Conditional
  <2>4. PICK d : d = emit[e.e3] /\ Raises(d)
    BY <1>9 DEF Conditional
  <2>5. b \in Seq(Instruction) /\ d \in Seq(Instruction)
    BY <2>3, <2>4 DEF Raises
  <2>6. Len(b) + 1 \in Nat /\ Len(d) + 1 \in Nat
    BY <2>5
  <2>7. PICK i \in Instruction : i = SkipIf(Len(d) + 1) /\ i.op = "skip_if" /\ i.arg = Len(d) + 1
    BY <2>6, Instructions DEF SkipIf
  <2>8. PICK j \in Instruction : j = SkipIfNot(Len(b) + 1) /\ j.op = "skip_if_not" /\ j.arg = Len(b) + 1
    BY <2>6, Instructions DEF SkipIfNot
  <2>9. Raises(a \o Branches(i, d, b)) /\ Raises(a \o Branches(j, b, d))
    BY <2>2, <2>3, <2>4, <2>7, <2>8, RaisesBranches
  <2>10. emit[e] = a \o Branches(i, d, b) \/ emit[e] = a \o Branches(j, b, d)
    BY <2>1, <2>2, <2>3, <2>4, <2>7, <2>8 DEF EmitTernary
  <2> QED BY <2>9, <2>10
<1> QED BY Kinds, <1>2, <1>3, <1>4, <1>5, <1>7, <1>8, <1>9

\* A statement about an expression that follows from that about its parts.
LEMMA ByParts ==
    ASSUME NEW E, NEW N, NEW value, NEW boolean, NEW emit, NEW Good,
           Visits(E, N, value, boolean, emit),
           Good \subseteq E,
           \A e \in E : (\A f \in E : Len(emit[f]) < Len(emit[e]) => f \in Good) => e \in Good
    PROVE  Good = E
<1> DEFINE rank == [e \in E |-> Len(emit[e])]
<1>1. \A e \in E : emit[e] \in Seq(Instruction)
  BY DEF Visits
<1>2. rank \in [E -> Nat]
  BY <1>1
<1>3. \A e \in E : rank[e] = Len(emit[e])
  OBVIOUS
<1> HIDE DEF rank
<1>4. Inherits(Good, E, rank)
  BY <1>2, <1>3 DEF Inherits
<1> QED BY <1>4, ByRank

\* What the emitter makes of any expression has one stack height before each of
\* its instructions, whatever the branches taken: the skips add up.
THEOREM EmittedCodeBalances ==
    ASSUME NEW E, NEW N, NEW value, NEW boolean, NEW emit,
           Visits(E, N, value, boolean, emit)
    PROVE  \A e \in E : \E h : Balances(emit[e], h)
<1> DEFINE Good == {e \in E : Raises(emit[e])}
<1>1. \A e \in E : (\A f \in E : Len(emit[f]) < Len(emit[e]) => f \in Good) => e \in Good
  BY RaisesWhole
<1>2. Good = E
  <2>1. Good \subseteq E
    OBVIOUS
  <2> HIDE DEF Good
  <2> QED BY <1>1, <2>1, ByParts
<1> SUFFICES ASSUME NEW e \in E
             PROVE  \E h : Balances(emit[e], h)
  OBVIOUS
<1>3. PICK c : c = emit[e]
  OBVIOUS
<1>4. c \in Seq(Instruction) /\ Leads(c, Climber, {0}, {0 + 1})
  BY <1>2, <1>3 DEF Raises
<1>5. PICK P : Outlines(P, c, Climber) /\ {0} \subseteq P[0] /\ P[Len(c)] \subseteq {1}
  BY <1>4 DEF Leads
<1>6. PICK k \in Nat : k = Len(c)
  BY <1>4
<1>7. P \in [0..k -> {{g} : g \in Nat}]
  BY <1>5, <1>6 DEF Outlines, Climber
<1> DEFINE h == [q \in 0..k |-> CHOOSE g \in Nat : P[q] = {g}]
<1>8. ASSUME NEW q \in 0..k
      PROVE  h[q] \in Nat /\ P[q] = {h[q]}
  <2>1. \E g \in Nat : P[q] = {g}
    BY <1>7
  <2> QED BY <2>1
<1>9. h = [q \in 0..k |-> h[q]]
  OBVIOUS
<1> HIDE DEF h
<1>10. h \in [0..k -> Nat]
  BY <1>8, <1>9
<1>11. h[0] = 0 /\ h[k] = 1
  <2>1. 0 \in 0..k /\ k \in 0..k
    OBVIOUS
  <2> QED BY <2>1, <1>5, <1>6, <1>8
<1>12. ASSUME NEW q \in 0..(k - 1)
       PROVE  /\ h[q] >= Takes(c[q + 1])
              /\ \A next \in Successors(q, c[q + 1]) :
                   /\ next \in 0..k
                   /\ h[next] = h[q] - Takes(c[q + 1]) + Leaves(c[q + 1])
  <2>1. PICK i \in Instruction : i = c[q + 1]
    <3>1. q + 1 \in 1..k
      OBVIOUS
    <3> QED BY <3>1, <1>4, <1>6
  <2>2. q \in 0..k /\ h[q] \in P[q] /\ h[q] \in Nat
    BY <1>8
  <2>3. <<i, h[q]>> \in Climber.can
    BY <2>1, <2>2, <1>5, <1>6 DEF Outlines
  <2>4. h[q] >= Takes(i)
    BY <2>3 DEF Climber
  <2>5. Takes(i) \in Nat /\ Leaves(i) \in Nat
    BY DEF Takes, Leaves
  <2>6. PICK g \in Nat : g = h[q] - Takes(i) + Leaves(i)
    BY <2>2, <2>4, <2>5
  <2>7. ASSUME NEW next \in Successors(q, i)
        PROVE  next \in 0..k /\ h[next] = g
    <3>1. PICK d \in Nat : d \in Successors(0, i) /\ next = q + d
      <4>1. i.arg \in Nat /\ 0 + 1 + i.arg \in Nat /\ 0 + 1 \in Nat
        BY DEF Instruction
      <4>2. q + (0 + 1) = q + 1 /\ q + (0 + 1 + i.arg) = q + 1 + i.arg
        BY <4>1
      <4>3. Successors(q, i) = {q + d : d \in Successors(0, i)} /\ Successors(0, i) \subseteq Nat
        BY <4>1, <4>2 DEF Successors
      <4> QED BY <4>3, <2>7
    <3>2. <<i, h[q], d, g>> \in Climber.moves
      BY <2>2, <2>4, <2>6, <3>1 DEF Climber
    <3>3. q + d \in 0..k /\ g \in P[q + d]
      BY <3>2, <2>1, <2>2, <1>5, <1>6 DEF Outlines
    <3> QED BY <3>1, <3>3, <1>8
  <2> QED BY <2>1, <2>4, <2>6, <2>7
<1>13. Balances(c, h)
  BY <1>6, <1>10, <1>11, <1>12 DEF Balances
<1> QED BY <1>3, <1>13

(* What is on the stack *)

\* Instruction i would divide by zero on stack s.
Divides(i, s) ==
    i.op \in BinaryOps /\ Apply(i.op, Back(Popped(s, 1)), Back(s)) = Undefined

\* The machine with n_value_ m.  An outline in which it may divide by zero says
\* nothing of what comes then.
Stacks(m, mayDivide) ==
    [shapes |-> SUBSET Seq(Nat),
     can    |-> {do \in Instruction \X Seq(Nat) :
                  /\ Len(do[2]) >= Takes(do[1])
                  /\ Divides(do[1], do[2]) => mayDivide},
     moves  |-> {move \in Instruction \X Seq(Nat) \X Nat \X Seq(Nat) :
                  /\ Len(move[2]) >= Takes(move[1])
                  /\ ~Divides(move[1], move[2])
                  /\ move[3] = Distance(move[1], move[2])
                  /\ move[4] = StackAfter(move[1], move[2], m)}]

\* Its stack after a value has been put on b, if there is one.
Result(b, v) == IF v = Undefined THEN {} ELSE {Append(b, v)}

\* Code that puts value v on any stack, or divides by zero if v is undefined.
Pushes(c, m, v) ==
    /\ c \in Seq(Instruction)
    /\ \A mayDivide \in BOOLEAN, b \in Seq(Nat) :
         (v = Undefined => mayDivide) => Leads(c, Stacks(m, mayDivide), {b}, Result(b, v))

\* A value on top of a stack.
LEMMA OnTop ==
    ASSUME NEW b \in Seq(Nat), NEW a \in Nat
    PROVE  /\ Append(b, a) \in Seq(Nat)
           /\ Len(Append(b, a)) = Len(b) + 1
           /\ Back(Append(b, a)) = a
           /\ Popped(Append(b, a), 1) = b
<1>1. PICK s \in Seq(Nat) : s = Append(b, a)
  BY AppendProperties
<1>2. PICK k \in Nat : k = Len(b)
  OBVIOUS
<1>3. Len(s) = k + 1 /\ s[k + 1] = a /\ \A q \in 1..k : s[q] = b[q]
  BY <1>1, <1>2, AppendProperties
<1>4. Back(s) = a
  BY <1>3 DEF Back
<1>5. Popped(s, 1) = SubSeq(s, 1, k)
  <2>1. k + 1 - 1 = k
    OBVIOUS
  <2> QED BY <2>1, <1>3 DEF Popped
<1>6. \A q \in 1..k : s[q] \in Nat
  BY <1>2, <1>3
<1>7. PICK t : t = SubSeq(s, 1, k)
  OBVIOUS
<1>8. /\ t \in Seq(Nat)
      /\ Len(t) = IF 1 <= k THEN k - 1 + 1 ELSE 0
      /\ \A q \in 1..(k - 1 + 1) : t[q] = s[1 + q - 1]
  BY <1>6, <1>7, SubSeqProperties
<1>9. Len(t) = k
  BY <1>8
<1>10. ASSUME NEW q \in 1..k
       PROVE  t[q] = b[q]
  <2>1. q \in 1..(k - 1 + 1) /\ 1 + q - 1 = q
    OBVIOUS
  <2> QED BY <2>1, <1>3, <1>8
<1>11. t = b
  BY <1>2, <1>8, <1>9, <1>10, SeqEqual
<1> QED BY <1>1, <1>2, <1>3, <1>4, <1>5, <1>7, <1>11

\* Two values on top of a stack.
LEMMA TwoOnTop ==
    ASSUME NEW b \in Seq(Nat), NEW a \in Nat, NEW v \in Nat
    PROVE  LET s == Append(Append(b, a), v)
           IN  /\ s \in Seq(Nat)
               /\ Len(s) = Len(b) + 2
               /\ Back(s) = v
               /\ Back(Popped(s, 1)) = a
               /\ Popped(s, 2) = b
<1>1. PICK d \in Seq(Nat) : d = Append(b, a)
  BY OnTop
<1>2. PICK s \in Seq(Nat) : s = Append(d, v)
  BY OnTop
<1>3. PICK k \in Nat : k = Len(b)
  OBVIOUS
<1>4. Len(d) = k + 1 /\ Back(d) = a /\ Popped(d, 1) = b
  BY <1>1, <1>3, OnTop
<1>5. Len(s) = k + 1 + 1 /\ Back(s) = v /\ Popped(s, 1) = d
  BY <1>2, <1>4, OnTop
<1>6. /\ \A q \in 1..k : d[q] = b[q]
      /\ \A q \in 1..(k + 1) : s[q] = d[q]
  BY <1>1, <1>2, <1>3, <1>4, AppendProperties
<1>7. PICK t : t = SubSeq(s, 1, k)
  OBVIOUS
<1>8. Popped(s, 2) = t
  <2>1. k + 1 + 1 - 2 = k
    OBVIOUS
  <2> QED BY <2>1, <1>5, <1>7 DEF Popped
<1>9. ASSUME NEW q \in 1..k
      PROVE  s[q] = b[q] /\ s[q] \in Nat
  <2>1. q \in 1..(k + 1)
    OBVIOUS
  <2> QED BY <2>1, <1>3, <1>6
<1>10. /\ t \in Seq(Nat)
       /\ Len(t) = IF 1 <= k THEN k - 1 + 1 ELSE 0
       /\ \A q \in 1..(k - 1 + 1) : t[q] = s[1 + q - 1]
  BY <1>7, <1>9, SubSeqProperties
<1>11. Len(t) = k
  BY <1>10
<1>12. ASSUME NEW q \in 1..k
       PROVE  t[q] = b[q]
  <2>1. q \in 1..(k - 1 + 1) /\ 1 + q - 1 = q
    OBVIOUS
  <2> QED BY <2>1, <1>9, <1>10
<1>13. t = b
  BY <1>3, <1>10, <1>11, <1>12, SeqEqual
<1>14. k + 1 + 1 = Len(b) + 2
  BY <1>3
<1> QED BY <1>1, <1>2, <1>4, <1>5, <1>8, <1>13, <1>14

\* What can be taken to be known of the machine.
LEMMA StacksFacts ==
    ASSUME NEW m, NEW mayDivide \in BOOLEAN
    PROVE  LET K == Stacks(m, mayDivide)
           IN  Jumps(K) /\ \A B \in SUBSET Seq(Nat) : B \in K.shapes /\ Passes(K, B)
<1> DEFINE K == Stacks(m, mayDivide)
<1>1. ASSUME NEW move \in K.moves
      PROVE  move[3] \in Nat
  BY DEF Stacks
<1>2. ASSUME NEW move \in K.moves, NEW k \in Nat, move[1] = Skip(k)
      PROVE  move[3] = k + 1 /\ move[4] = move[2]
  <2>1. move[1].op = "skip" /\ move[1].arg = k
    BY <1>2 DEF Skip
  <2>2. move[3] = Distance(move[1], move[2]) /\ move[4] = StackAfter(move[1], move[2], m)
    BY DEF Stacks
  <2>3. Distance(move[1], move[2]) = 1 + k
    BY <2>1 DEF Distance
  <2>4. StackAfter(move[1], move[2], m) = move[2]
    BY <2>1 DEF StackAfter, BinaryOps
  <2> QED BY <2>2, <2>3, <2>4
<1>3. ASSUME NEW B \in SUBSET Seq(Nat)
      PROVE  B \in K.shapes /\ Passes(K, B)
  <2>1. ASSUME NEW k \in Nat, NEW x \in B
        PROVE  <<Skip(k), x>> \in K.can
    <3>1. Skip(k) \in Instruction /\ Takes(Skip(k)) = 0 /\ Skip(k).op \notin BinaryOps
      BY DEF Skip, Instruction, Skips, Takes, BinaryOps
    <3>2. ~Divides(Skip(k), x) /\ x \in Seq(Nat) /\ Len(x) >= 0
      BY <3>1 DEF Divides
    <3> QED BY <3>1, <3>2 DEF Stacks
  <2>2. B \in K.shapes
    BY DEF Stacks
  <2> QED BY <2>1, <2>2 DEF Passes
<1> QED BY <1>1, <1>2, <1>3 DEF Jumps

\* An instruction that is no skip, and may divide by zero.
LEMMA PushesOne ==
    ASSUME NEW m, NEW mayDivide \in BOOLEAN, NEW i \in Instruction, i.op \notin Skips,
           NEW s \in Seq(Nat), Len(s) >= Takes(i),
           Divides(i, s) => mayDivide,
           NEW B \in SUBSET Seq(Nat), ~Divides(i, s) => StackAfter(i, s, m) \in B
    PROVE  Leads(<<i>>, Stacks(m, mayDivide), {s}, B)
<1> DEFINE K == Stacks(m, mayDivide)
<1>1. <<i, s>> \in K.can
  BY DEF Stacks
<1>2. ASSUME NEW move \in K.moves, move[1] = i, move[2] = s
      PROVE  move[3] = 1 /\ move[4] \in B
  <2>1. /\ ~Divides(move[1], move[2])
        /\ move[3] = Distance(move[1], move[2]) /\ move[4] = StackAfter(move[1], move[2], m)
    BY DEF Stacks
  <2>2. Distance(i, s) = 1
    BY DEF Distance, Skips
  <2> QED BY <2>1, <2>2, <1>2
<1>3. {s} \in K.shapes /\ B \in K.shapes
  BY StacksFacts
<1> HIDE DEF K
<1>4. Leads(<<i>>, K, {s}, B)
  BY <1>1, <1>2, <1>3, LeadsOne
<1> QED BY <1>4 DEF K

\* Outcomes that expressions can have.
Outcomes == Nat \cup {Undefined}

\* An undefined value leaves nothing.
LEMMA Results ==
    ASSUME NEW b \in Seq(Nat), NEW v \in Outcomes
    PROVE  /\ Result(b, v) \in SUBSET Seq(Nat)
           /\ v = Undefined => Result(b, v) = {}
           /\ v # Undefined => v \in Nat /\ Result(b, v) = {Append(b, v)}
BY OnTop DEF Result, Outcomes

\* A constant, or n.
LEMMA PushesValue ==
    ASSUME NEW m \in Nat, NEW i \in Instruction, i.op \in {"push", "n"}
    PROVE  Pushes(<<i>>, m, IF i.op = "push" THEN i.arg ELSE m)
<1> DEFINE v == IF i.op = "push" THEN i.arg ELSE m
<1>1. v \in Nat
  BY DEF Instruction
<1>2. i.op \notin Skips /\ Takes(i) = 0
  BY DEF Skips, Takes, BinaryOps
<1>3. ASSUME NEW mayDivide \in BOOLEAN, NEW b \in Seq(Nat)
      PROVE  Leads(<<i>>, Stacks(m, mayDivide), {b}, Result(b, v))
  <2>1. ~Divides(i, b) /\ Len(b) >= 0
    BY DEF Divides, BinaryOps
  <2>2. StackAfter(i, b, m) = Append(b, v)
    BY DEF StackAfter, BinaryOps
  <2>3. Append(b, v) \in Result(b, v) /\ Result(b, v) \in SUBSET Seq(Nat)
    <3>1. v \in Outcomes /\ v # Undefined
      BY <1>1, UndefinedAssumption DEF Outcomes
    <3> HIDE DEF v
    <3>2. Result(b, v) \in SUBSET Seq(Nat) /\ Result(b, v) = {Append(b, v)}
      BY <3>1, Results
    <3> QED BY <3>2
  <2> HIDE DEF v
  <2> QED BY <2>1, <2>2, <2>3, <1>2, PushesOne
<1> HIDE DEF v
<1>4. Pushes(<<i>>, m, v)
  BY <1>3, Single DEF Pushes
<1> QED BY <1>4 DEF v

\* Code for a value, and then code that makes another value of it.
LEMMA PushesOn ==
    ASSUME NEW m, NEW first, NEW a \in Outcomes, Pushes(first, m, a),
           NEW rest \in Seq(Instruction), NEW v \in Outcomes,
           a = Undefined => v = Undefined,
           a # Undefined =>
               \A mayDivide \in BOOLEAN, b \in Seq(Nat) :
                   (v = Undefined => mayDivide) =>
                       Leads(rest, Stacks(m, mayDivide), {Append(b, a)}, Result(b, v))
    PROVE  Pushes(first \o rest, m, v)
<1>1. first \in Seq(Instruction)
  BY DEF Pushes
<1>2. ASSUME NEW mayDivide \in BOOLEAN, NEW b \in Seq(Nat), v = Undefined => mayDivide
      PROVE  Leads(first \o rest, Stacks(m, mayDivide), {b}, Result(b, v))
  <2> DEFINE K == Stacks(m, mayDivide)
  <2>1. Jumps(K) /\ {} \in K.shapes
    BY StacksFacts
  <2>2. Leads(first, K, {b}, Result(b, a))
    BY <1>2 DEF Pushes
  <2>3. Leads(rest, K, Result(b, a), Result(b, v))
    <3>1. CASE a = Undefined
      <4>1. Result(b, a) = {}
        BY <3>1 DEF Result
      <4> HIDE DEF K
      <4> QED BY <4>1, <2>1, LeadsNowhere
    <3>2. CASE a # Undefined
      <4>1. Result(b, a) = {Append(b, a)}
        BY <3>2 DEF Result
      <4> QED BY <4>1, <3>2, <1>2
    <3> QED BY <3>1, <3>2
  <2> HIDE DEF K
  <2>4. Leads(first \o rest, K, {b}, Result(b, v))
    BY <2>1, <2>2, <2>3, <1>1, LeadsOn
  <2> QED BY <2>4 DEF K
<1>3. first \o rest \in Seq(Instruction)
  BY <1>1, ConcatProperties
<1> QED BY <1>2, <1>3 DEF Pushes

\* An operator with one operand.
LEMMA PushesNot ==
    ASSUME NEW m, NEW first, NEW a \in Outcomes, Pushes(first, m, a)
    PROVE  Pushes(first \o <<Code("not")>>, m, IF a = Undefined THEN Undefined ELSE Bit(a = 0))
<1> DEFINE i == Code("not")
           v == IF a = Undefined THEN Undefined ELSE Bit(a = 0)
<1>1. v \in Outcomes /\ (a # Undefined => v \in Nat)
  BY DEF Outcomes, Bit
<1>2. i \in Instruction /\ i.op = "not"
  BY Instructions DEF Code
<1>3. i.op \notin Skips /\ Takes(i) = 1
  BY <1>2 DEF Skips, Takes, BinaryOps
<1>4. ASSUME NEW mayDivide \in BOOLEAN, NEW b \in Seq(Nat), a # Undefined
      PROVE  Leads(<<i>>, Stacks(m, mayDivide), {Append(b, a)}, Result(b, v))
  <2>1. a \in Nat
    BY <1>4 DEF Outcomes
  <2>2. PICK s \in Seq(Nat) : s = Append(b, a) /\ Len(s) >= 1 /\ Back(s) = a /\ Popped(s, 1) = b
    <3>1. Len(b) + 1 >= 1
      OBVIOUS
    <3> QED BY <2>1, <3>1, OnTop
  <2>3. ~Divides(i, s)
    BY <1>2 DEF Divides, BinaryOps
  <2>4. StackAfter(i, s, m) = Append(Popped(s, 1), Bit(Back(s) = 0))
    BY <1>2 DEF StackAfter, BinaryOps
  <2>5. StackAfter(i, s, m) = Append(b, v)
    BY <2>2, <2>4, <1>4
  <2>6. v # Undefined
    BY <1>1, <1>4, UndefinedAssumption
  <2> HIDE DEF i, v
  <2>7. Append(b, v) \in Result(b, v) /\ Result(b, v) \in SUBSET Seq(Nat)
    <3>1. Result(b, v) \in SUBSET Seq(Nat) /\ Result(b, v) = {Append(b, v)}
      BY <1>1, <2>6, Results
    <3> QED BY <3>1
  <2>8. Leads(<<i>>, Stacks(m, mayDivide), {s}, Result(b, v))
    BY <1>2, <1>3, <2>2, <2>3, <2>5, <2>7, PushesOne
  <2> QED BY <2>2, <2>8
<1>5. <<i>> \in Seq(Instruction) /\ (a = Undefined => v = Undefined)
  BY <1>2, Single
<1> HIDE DEF i, v
<1>6. Pushes(first \o <<i>>, m, v)
  BY <1>1, <1>4, <1>5, PushesOn
<1> QED BY <1>6 DEF i, v

\* The value of a binary operation.
Operation(op, a, b) ==
    IF a = Undefined \/ b = Undefined THEN Undefined ELSE Apply(op, a, b)

\* Operators yield numbers or nothing.
LEMMA OperationType ==
    ASSUME NEW op \in BinaryOps, NEW a \in Outcomes, NEW b \in Outcomes
    PROVE  /\ Operation(op, a, b) \in Outcomes
           /\ op # "mod" => Operation(op, a, b) \in {0, 1, Undefined}
           /\ a \in {0, 1, Undefined} /\ op = "mod" => Operation(op, a, b) \in {0, 1, Undefined}
<1>1. CASE a = Undefined \/ b = Undefined
  BY <1>1 DEF Operation, Outcomes
<1>2. CASE ~(a = Undefined \/ b = Undefined)
  <2>1. a \in Nat /\ b \in Nat /\ Operation(op, a, b) = Apply(op, a, b)
    BY <1>2 DEF Operation, Outcomes
  <2>2. CASE op = "mod"
    <3>1. Apply(op, a, b) = IF b = 0 THEN Undefined ELSE a % b
      BY <2>2 DEF Apply
    <3>2. CASE b = 0
      BY <3>1, <3>2, <2>1 DEF Outcomes
    <3>3. CASE b # 0
      <4>1. a % b \in Nat
        BY <2>1, <3>3
      <4>2. a \in {0, 1} => a % b \in {0, 1}
        BY <2>1, <3>3
      <4>3. Operation(op, a, b) = a % b
        BY <3>1, <3>3, <2>1
      <4>4. a # Undefined
        BY <1>2
      <4> QED BY <4>1, <4>2, <4>3, <4>4, <2>2 DEF Outcomes
    <3> QED BY <3>2, <3>3
  <2>3. CASE op # "mod"
    <3>1. op \in {"eq", "neq", "ge", "le", "gt", "lt"}
      BY <2>3 DEF BinaryOps
    <3>2. Apply(op, a, b) \in {0, 1}
      BY <3>1 DEF Apply, Bit
    <3> QED BY <3>2, <2>1, <2>3 DEF Outcomes
  <2> QED BY <2>2, <2>3
<1> QED BY <1>1, <1>2

\* Both operands, and the operator.
LEMMA PushesOperation ==
    ASSUME NEW m, NEW first, NEW a \in Outcomes, Pushes(first, m, a),
           NEW second, NEW v \in Outcomes, Pushes(second, m, v), NEW op \in BinaryOps
    PROVE  Pushes(first \o second \o <<Code(op)>>, m, Operation(op, a, v))
<1> DEFINE i == Code(op)
           w == Operation(op, a, v)
<1>1. w \in Outcomes
  BY OperationType
<1>2. i \in Instruction /\ i.op = op
  BY Instructions DEF Code
<1>3. i.op \notin Skips /\ Takes(i) = 2
  BY <1>2 DEF Skips, Takes, BinaryOps
<1>4. /\ first \in Seq(Instruction) /\ second \in Seq(Instruction)
      /\ <<i>> \in Seq(Instruction)
  BY <1>2, Single DEF Pushes
<1>5. ASSUME NEW mayDivide \in BOOLEAN, NEW b \in Seq(Nat), w = Undefined => mayDivide,
             a # Undefined
      PROVE  Leads(second \o <<i>>, Stacks(m, mayDivide), {Append(b, a)}, Result(b, w))
  <2> DEFINE K == Stacks(m, mayDivide)
  <2>1. PICK d \in Seq(Nat) : d = Append(b, a) /\ a \in Nat
    BY <1>5, OnTop DEF Outcomes
  <2>2. v = Undefined => mayDivide
    BY <1>5 DEF Operation
  <2>3. Leads(second, K, {d}, Result(d, v))
    BY <2>2 DEF Pushes
  <2>4. Leads(<<i>>, K, Result(d, v), Result(b, w))
    <3>1. CASE v = Undefined
      <4>1. Result(d, v) = {} /\ {} \in K.shapes
        BY <3>1, StacksFacts DEF Result
      <4> HIDE DEF K, i, w
      <4> QED BY <4>1, <1>4, LeadsNowhere
    <3>2. CASE v # Undefined
      <4>1. v \in Nat /\ Result(d, v) = {Append(d, v)}
        BY <3>2, Results
      <4>2. PICK s \in Seq(Nat) : s = Append(d, v) /\ Len(s) = Len(b) + 2 /\ Back(s) = v
                                    /\ Back(Popped(s, 1)) = a /\ Popped(s, 2) = b
        <5>1. PICK s : s = Append(Append(b, a), v)
          OBVIOUS
        <5>2. /\ s \in Seq(Nat) /\ Len(s) = Len(b) + 2 /\ Back(s) = v
              /\ Back(Popped(s, 1)) = a /\ Popped(s, 2) = b
          BY <5>1, <4>1, <2>1, TwoOnTop
        <5> QED BY <5>1, <5>2, <2>1
      <4>3. w = Apply(op, a, v)
        BY <3>2, <1>5 DEF Operation
      <4>4. Divides(i, s) => w = Undefined
        BY <4>2, <4>3, <1>2 DEF Divides
      <4>5. StackAfter(i, s, m) = Append(b, w)
        BY <4>2, <4>3, <1>2 DEF StackAfter, BinaryOps
      <4>6. ~Divides(i, s) => w # Undefined
        BY <4>2, <4>3, <1>2 DEF Divides
      <4>7. Len(s) >= 2
        <5>1. Len(b) + 2 >= 2
          OBVIOUS
        <5> QED BY <5>1, <4>2
      <4> HIDE DEF i, w
      <4>8. /\ Result(b, w) \in SUBSET Seq(Nat)
            /\ ~Divides(i, s) => StackAfter(i, s, m) \in Result(b, w)
        <5>1. Result(b, w) \in SUBSET Seq(Nat)
          BY <1>1, Results
        <5>2. w # Undefined => Result(b, w) = {Append(b, w)}
          BY <1>1, Results
        <5> QED BY <5>1, <5>2, <4>5, <4>6
      <4>9. Leads(<<i>>, Stacks(m, mayDivide), {s}, Result(b, w))
        BY <4>4, <4>7, <4>8, <1>2, <1>3, <1>5, PushesOne
      <4> QED BY <4>1, <4>2, <4>9
    <3> QED BY <3>1, <3>2
  <2>5. Jumps(K)
    BY StacksFacts
  <2> HIDE DEF K, i, w
  <2>6. Leads(second \o <<i>>, K, {d}, Result(b, w))
    BY <2>3, <2>4, <2>5, <1>4, LeadsOn
  <2> QED BY <2>6, <2>1 DEF K
<1>6. a = Undefined => w = Undefined
  BY DEF Operation
<1>7. second \o <<i>> \in Seq(Instruction)
  BY <1>4, ConcatProperties
<1>8. first \o (second \o <<i>>) = first \o second \o <<i>>
  BY <1>4, ConcatAssociative
<1> HIDE DEF i, w
<1>9. Pushes(first \o (second \o <<i>>), m, w)
  BY <1>1, <1>5, <1>6, <1>7, PushesOn
<1> QED BY <1>8, <1>9 DEF i, w

\* A test, and two branches: the value is that of the branch taken.
LEMMA PushesBranches ==
    ASSUME NEW m, NEW first, NEW a \in Outcomes, Pushes(first, m, a),
           NEW near \in Seq(Instruction), NEW far \in Seq(Instruction),
           NEW i \in Instruction, i.op \in {"skip_if", "skip_if_not"}, i.arg = Len(near) + 1,
           NEW v \in Outcomes, a = Undefined => v = Undefined,
           a # Undefined => IF Taken(i.op, a) THEN Pushes(far, m, v) ELSE Pushes(near, m, v)
    PROVE  Pushes(first \o Branches(i, near, far), m, v)
<1> DEFINE rest == Branches(i, near, far)
<1>1. rest \in Seq(Instruction)
  BY BranchesLayout DEF Apart
<1>2. ASSUME NEW mayDivide \in BOOLEAN, NEW b \in Seq(Nat), v = Undefined => mayDivide,
             a # Undefined
      PROVE  Leads(rest, Stacks(m, mayDivide), {Append(b, a)}, Result(b, v))
  <2> DEFINE K == Stacks(m, mayDivide)
             B == Result(b, v)
             A1 == IF Taken(i.op, a) THEN {} ELSE {b}
             A2 == IF Taken(i.op, a) THEN {b} ELSE {}
  <2>1. PICK s \in Seq(Nat) : s = Append(b, a) /\ Len(s) >= 1 /\ Back(s) = a /\ Popped(s, 1) = b
    <3>1. a \in Nat /\ Len(b) + 1 >= 1
      BY <1>2 DEF Outcomes
    <3> QED BY <3>1, OnTop
  <2>2. /\ Jumps(K) /\ {} \in K.shapes /\ {s} \in K.shapes
        /\ B \in K.shapes /\ Passes(K, B)
    BY StacksFacts, Results
  <2>3. Leads(near, K, A1, B)
    <3>1. CASE Taken(i.op, a)
      <4> HIDE DEF K, B
      <4> QED BY <3>1, <2>2, LeadsNowhere
    <3>2. CASE ~Taken(i.op, a)
      BY <3>2, <1>2 DEF Pushes
    <3> QED BY <3>1, <3>2
  <2>4. Leads(far, K, A2, B)
    <3>1. CASE Taken(i.op, a)
      BY <3>1, <1>2 DEF Pushes
    <3>2. CASE ~Taken(i.op, a)
      <4> HIDE DEF K, B
      <4> QED BY <3>2, <2>2, LeadsNowhere
    <3> QED BY <3>1, <3>2
  <2>5. i.op \notin BinaryOps /\ Takes(i) = 1
    BY DEF BinaryOps, Takes
  <2>6. <<i, s>> \in K.can
    BY <2>1, <2>5 DEF Stacks, Divides
  <2>7. ASSUME NEW move \in K.moves, move[1] = i, move[2] = s
        PROVE  \/ move[3] = 1 /\ move[4] \in A1
               \/ move[3] = Len(near) + 2 /\ move[4] \in A2
    <3>1. move[3] = Distance(i, s) /\ move[4] = StackAfter(i, s, m)
      BY <2>7 DEF Stacks
    <3>2. move[4] = b
      BY <3>1, <2>1, <2>5 DEF StackAfter
    <3>3. Distance(i, s) = 1 + IF Taken(i.op, a) THEN i.arg ELSE 0
      BY <2>1 DEF Distance, Taken
    <3>4. CASE Taken(i.op, a)
      <4>1. 1 + i.arg = Len(near) + 2
        OBVIOUS
      <4> QED BY <4>1, <3>1, <3>2, <3>3, <3>4
    <3>5. CASE ~Taken(i.op, a)
      BY <3>1, <3>2, <3>3, <3>5
    <3> QED BY <3>4, <3>5
  <2> HIDE DEF K, B, A1, A2
  <2>8. Leads(Branches(i, near, far), K, {s}, B)
    <3>1. \A x \in {s} : <<i, x>> \in K.can
      BY <2>6
    <3>2. \A move \in K.moves :
             move[1] = i /\ move[2] \in {s} =>
                 \/ move[3] = 1 /\ move[4] \in A1
                 \/ move[3] = Len(near) + 2 /\ move[4] \in A2
      BY <2>7
    <3> QED BY <3>1, <3>2, <2>2, <2>3, <2>4, LeadsApart
  <2> QED BY <2>1, <2>8 DEF K, B
<1> HIDE DEF rest
<1>3. Pushes(first \o rest, m, v)
  BY <1>1, <1>2, PushesOn
<1> QED BY <1>3 DEF rest

\* IsTrue of a value.
LEMMA IsTrueType ==
    ASSUME NEW a \in Outcomes
    PROVE  /\ IsTrue(a) \in {0, 1, Undefined}
           /\ a \in {0, 1, Undefined} => IsTrue(a) = a
BY UndefinedAssumption DEF IsTrue, Bit

\* Code is normalised to C's truth value unless it is one already.
LEMMA PushesNormalised ==
    ASSUME NEW m, NEW second, NEW a \in Outcomes, Pushes(second, m, a),
           NEW isBoolean, isBoolean => a \in {0, 1, Undefined}
    PROVE  Pushes(Normalised(second, isBoolean), m, IsTrue(a))
<1>1. CASE isBoolean
  <2>1. IsTrue(a) = a
    BY <1>1, IsTrueType
  <2> QED BY <1>1, <2>1 DEF Normalised
<1>2. CASE ~isBoolean
  <2>1. second \in Seq(Instruction) /\ <<Code("not")>> \in Seq(Instruction)
    BY Instructions, Single DEF Pushes
  <2>2. Normalised(second, isBoolean) = second \o <<Code("not")>> \o <<Code("not")>>
    BY <1>2, <2>1, TwoNots DEF Normalised
  <2>3. PICK b : b = IF a = Undefined THEN Undefined ELSE Bit(a = 0)
    OBVIOUS
  <2>4. b \in Outcomes
    BY <2>3 DEF Outcomes, Bit
  <2>5. Pushes(second \o <<Code("not")>>, m, b)
    BY <2>3, PushesNot
  <2>6. IsTrue(a) = IF b = Undefined THEN Undefined ELSE Bit(b = 0)
    BY <2>3, UndefinedAssumption DEF IsTrue, Bit
  <2>7. Pushes(second \o <<Code("not")>> \o <<Code("not")>>, m, IsTrue(a))
    BY <2>4, <2>5, <2>6, PushesNot
  <2> QED BY <2>2, <2>7
<1> QED BY <1>1, <1>2

\* What the visitors make of an expression e with n_value_ m fits together.
Agrees(e, m, val, isBoolean, c) ==
    /\ val \in Outcomes
    /\ isBoolean => val \in {0, 1, Undefined}
    /\ Pushes(c, m, val)

\* The visitors agree on an expression if they do on its parts.
LEMMA AgreesOnWhole ==
    ASSUME NEW E, NEW N, NEW value, NEW boolean, NEW emit,
           Visits(E, N, value, boolean, emit), NEW m \in N, m \in Nat, NEW e \in E,
           \A f \in E : Len(emit[f]) < Len(emit[e]) =>
               Agrees(f, m, value[m][f], boolean[f], emit[f])
    PROVE  Agrees(e, m, value[m][e], boolean[e], emit[e])
<1>1. PICK val : val = value[m]
  OBVIOUS
<1>2. /\ emit[e] = Emitted(e, emit, boolean)
      /\ boolean[e] = BooleanByShape(e, boolean)
      /\ val[e] = Evaluated(e, m, val)
  BY <1>1 DEF Visits
<1>3. \A f \in E : Len(emit[f]) < Len(emit[e]) => Agrees(f, m, val[f], boolean[f], emit[f])
  BY <1>1
<1>4. SUFFICES Agrees(e, m, val[e], boolean[e], emit[e])
  BY <1>1
<1>5. CASE e.op = "constant" /\ e.value \in Nat
  <2>1. emit[e] = <<Push(e.value)>> /\ val[e] = e.value
    BY <1>2, <1>5 DEF Emitted, Evaluated, BinaryOps
  <2>2. boolean[e] => e.value \in {0, 1}
    BY <1>2, <1>5 DEF BooleanByShape
  <2>3. PICK i \in Instruction : i = Push(e.value) /\ i.op = "push" /\ i.arg = e.value
    BY <1>5, Instructions DEF Push
  <2>4. Pushes(<<i>>, m, e.value)
    BY <2>3, PushesValue
  <2> QED BY <1>5, <2>1, <2>2, <2>3, <2>4 DEF Agrees, Outcomes
<1>6. CASE e.op = "n_var"
  <2>1. emit[e] = <<Code("n")>> /\ val[e] = m /\ boolean[e] = FALSE
    BY <1>2, <1>6 DEF Emitted, Evaluated, BooleanByShape, BinaryOps
  <2>2. PICK i \in Instruction : i = Code("n") /\ i.op = "n"
    BY Instructions DEF Code
  <2>3. Pushes(<<i>>, m, m)
    BY <2>2, PushesValue
  <2> QED BY <2>1, <2>2, <2>3 DEF Agrees, Outcomes
<1>7. CASE Unary(e, E, emit)
  <2>1. e.op = "not" /\ Agrees(e.e1, m, val[e.e1], boolean[e.e1], emit[e.e1])
    BY <1>3, <1>7 DEF Unary
  <2>2. emit[e] = emit[e.e1] \o <<Code("not")>>
    BY <1>2, <2>1 DEF Emitted, BinaryOps
  <2>3. val[e] = IF val[e.e1] = Undefined THEN Undefined ELSE Bit(val[e.e1] = 0)
    BY <1>2, <2>1 DEF Evaluated, BinaryOps
  <2>4. val[e] \in {0, 1, Undefined}
    BY <2>3 DEF Bit
  <2>5. Pushes(emit[e], m, val[e])
    BY <2>1, <2>2, <2>3, PushesNot DEF Agrees
  <2> QED BY <2>4, <2>5 DEF Agrees, Outcomes
<1>8. CASE Binary2(e, E, emit, BinaryOps)
  <2>1. /\ e.op \in BinaryOps
        /\ Agrees(e.e1, m, val[e.e1], boolean[e.e1], emit[e.e1])
        /\ Agrees(e.e2, m, val[e.e2], boolean[e.e2], emit[e.e2])
    BY <1>3, <1>8 DEF Binary2
  <2>2. emit[e] = emit[e.e1] \o emit[e.e2] \o <<Code(e.op)>>
    BY <1>2, <2>1 DEF Emitted, BinaryOps
  <2>3. val[e] = Operation(e.op, val[e.e1], val[e.e2])
    BY <1>2, <2>1 DEF Evaluated, BinaryOps, Operation
  <2>4. val[e] \in Outcomes
    BY <2>1, <2>3, OperationType DEF Agrees
  <2>5. boolean[e] => val[e] \in {0, 1, Undefined}
    <3>1. CASE e.op = "mod"
      <4>1. boolean[e] = boolean[e.e1]
        BY <1>2, <3>1 DEF BooleanByShape
      <4> QED BY <4>1, <3>1, <2>1, <2>3, OperationType DEF Agrees
    <3>2. CASE e.op # "mod"
      BY <3>2, <2>1, <2>3, OperationType DEF Agrees
    <3> QED BY <3>1, <3>2
  <2>6. Pushes(emit[e], m, val[e])
    BY <2>1, <2>2, <2>3, PushesOperation DEF Agrees
  <2> QED BY <2>4, <2>5, <2>6 DEF Agrees
<1>9. ASSUME NEW k \in {0, 1}, NEW i \in Instruction, i.op \in {"skip_if", "skip_if_not"}, i.arg = 2,
             Binary2(e, E, emit, {"and", "or"}),
             emit[e] = emit[e.e1] \o Branches(i, <<Push(k)>>, Normalised(emit[e.e2], boolean[e.e2])),
             val[e] = IF val[e.e1] = Undefined THEN Undefined
                      ELSE IF Taken(i.op, val[e.e1]) THEN IsTrue(val[e.e2]) ELSE k
      PROVE  Agrees(e, m, val[e], boolean[e], emit[e])
  <2>1. /\ Agrees(e.e1, m, val[e.e1], boolean[e.e1], emit[e.e1])
        /\ Agrees(e.e2, m, val[e.e2], boolean[e.e2], emit[e.e2])
    BY <1>3, <1>9 DEF Binary2
  <2>2. PICK near : near = <<Push(k)>>
    OBVIOUS
  <2>3. near \in Seq(Instruction) /\ Len(near) = 1 /\ Pushes(near, m, k)
    <3>1. PICK j \in Instruction : j = Push(k) /\ j.op = "push" /\ j.arg = k
      <4>1. Push(k) \in Instruction
        BY Instructions
      <4> QED BY <4>1 DEF Push
    <3>2. Pushes(<<j>>, m, k)
      BY <3>1, PushesValue
    <3> QED BY <2>2, <3>1, <3>2, Single
  <2>4. PICK far : far = Normalised(emit[e.e2], boolean[e.e2])
    OBVIOUS
  <2>5. Pushes(far, m, IsTrue(val[e.e2])) /\ far \in Seq(Instruction)
    <3>1. PICK second, v, isBoolean : second = emit[e.e2] /\ v = val[e.e2] /\ isBoolean = boolean[e.e2]
      OBVIOUS
    <3>2. v \in Outcomes /\ (isBoolean => v \in {0, 1, Undefined}) /\ Pushes(second, m, v)
      BY <2>1, <3>1 DEF Agrees
    <3>3. Pushes(Normalised(second, isBoolean), m, IsTrue(v))
      BY <3>2, PushesNormalised
    <3>4. Pushes(far, m, IsTrue(v))
      BY <2>4, <3>1, <3>3
    <3>5. far \in Seq(Instruction)
      BY <3>4 DEF Pushes
    <3> QED BY <3>1, <3>4, <3>5
  <2>6. val[e] \in {0, 1, Undefined}
    BY <1>9, <2>1, IsTrueType DEF Agrees
  <2>7. val[e] \in Outcomes
    BY <2>6 DEF Outcomes
  <2>8. val[e.e1] # Undefined =>
          IF Taken(i.op, val[e.e1]) THEN Pushes(far, m, val[e]) ELSE Pushes(near, m, val[e])
    BY <1>9, <2>3, <2>5
  <2>9. i.arg = Len(near) + 1
    BY <1>9, <2>3
  <2>10. Pushes(emit[e.e1] \o Branches(i, near, far), m, val[e])
    <3>1. val[e.e1] \in Outcomes /\ Pushes(emit[e.e1], m, val[e.e1])
      BY <2>1 DEF Agrees
    <3>2. val[e.e1] = Undefined => val[e] = Undefined
      BY <1>9
    <3> QED BY <3>1, <3>2, <1>9, <2>3, <2>5, <2>7, <2>8, <2>9, PushesBranches
  <2> QED BY <1>9, <2>2, <2>4, <2>6, <2>7, <2>10 DEF Agrees
<1>10. CASE Binary2(e, E, emit, {"and"})
  <2>1. e.op = "and" /\ Binary2(e, E, emit, {"and", "or"})
    BY <1>10 DEF Binary2
  <2>2. emit[e] = EmitAnd(emit[e.e1], emit[e.e2], boolean[e.e2])
    BY <1>2, <2>1 DEF Emitted, BinaryOps
  <2>3. PICK i \in Instruction : i = SkipIf(2) /\ i.op = "skip_if" /\ i.arg = 2
    <3>1. SkipIf(2) \in Instruction
      BY Instructions
    <3> QED BY <3>1 DEF SkipIf
  <2>4. val[e] = IF val[e.e1] = Undefined THEN Undefined
                 ELSE IF val[e.e1] = 0 THEN 0 ELSE IsTrue(val[e.e2])
    BY <1>2, <2>1 DEF Evaluated, BinaryOps
  <2> QED BY <1>9, <2>1, <2>2, <2>3, <2>4 DEF EmitAnd, Taken
<1>11. CASE Binary2(e, E, emit, {"or"})
  <2>1. e.op = "or" /\ Binary2(e, E, emit, {"and", "or"})
    BY <1>11 DEF Binary2
  <2>2. emit[e] = EmitOr(emit[e.e1], emit[e.e2], boolean[e.e2])
    BY <1>2, <2>1 DEF Emitted, BinaryOps
  <2>3. PICK i \in Instruction : i = SkipIfNot(2) /\ i.op = "skip_if_not" /\ i.arg = 2
    <3>1. SkipIfNot(2) \in Instruction
      BY Instructions
    <3> QED BY <3>1 DEF SkipIfNot
  <2>4. val[e] = IF val[e.e1] = Undefined THEN Undefined
                 ELSE IF val[e.e1] # 0 THEN 1 ELSE IsTrue(val[e.e2])
    BY <1>2, <2>1 DEF Evaluated, BinaryOps
  <2> QED BY <1>9, <2>1, <2>2, <2>3, <2>4 DEF EmitOr, Taken
<1>12. CASE Conditional(e, E, emit)
  <2>1. /\ e.op = "ternary"
        /\ Agrees(e.e1, m, val[e.e1], boolean[e.e1], emit[e.e1])
        /\ Agrees(e.e2, m, val[e.e2], boolean[e.e2], emit[e.e2])
        /\ Agrees(e.e3, m, val[e.e3], boolean[e.e3], emit[e.e3])
    BY <1>3, <1>12 DEF Conditional
  <2>2. emit[e] = EmitTernary(emit[e.e1], emit[e.e2], emit[e.e3])
    BY <1>2, <2>1 DEF Emitted, BinaryOps
  <2>3. val[e] = IF val[e.e1] = Undefined THEN Undefined
                 ELSE IF val[e.e1] # 0 THEN val[e.e2] ELSE val[e.e3]
    BY <1>2, <2>1 DEF Evaluated, BinaryOps
  <2>4. val[e] \in Outcomes
    BY <2>1, <2>3 DEF Agrees, Outcomes
  <2>5. boolean[e] => val[e] \in {0, 1, Undefined}
    <3>1. boolean[e] = (boolean[e.e2] /\ boolean[e.e3])
      BY <1>2, <2>1 DEF BooleanByShape
    <3> QED BY <3>1, <2>1, <2>3 DEF Agrees
  <2>6. PICK a \in Seq(Instruction) : a = emit[e.e1] /\ Pushes(a, m, val[e.e1])
    BY <2>1 DEF Agrees, Pushes
  <2>7. PICK yes \in Seq(Instruction) : yes = emit[e.e2] /\ Pushes(yes, m, val[e.e2])
    BY <2>1 DEF Agrees, Pushes
  <2>8. PICK no \in Seq(Instruction) : no = emit[e.e3] /\ Pushes(no, m, val[e.e3])
    BY <2>1 DEF Agrees, Pushes
  <2>9. Len(no) + 1 \in Nat /\ Len(yes) + 1 \in Nat
    OBVIOUS
  <2>10. PICK i \in Instruction : i = SkipIf(Len(no) + 1) /\ i.op = "skip_if" /\ i.arg = Len(no) + 1
    BY <2>9, Instructions DEF SkipIf
  <2>11. PICK j \in Instruction :
            j = SkipIfNot(Len(yes) + 1) /\ j.op = "skip_if_not" /\ j.arg = Len(yes) + 1
    BY <2>9, Instructions DEF SkipIfNot
  <2>12. val[e.e1] \in Outcomes /\ (val[e.e1] = Undefined => val[e] = Undefined)
    BY <2>1, <2>3 DEF Agrees
  <2>13. Pushes(a \o Branches(i, no, yes), m, val[e])
    <3>1. val[e.e1] # Undefined =>
            IF Taken(i.op, val[e.e1]) THEN Pushes(yes, m, val[e]) ELSE Pushes(no, m, val[e])
      BY <2>3, <2>7, <2>8, <2>10 DEF Taken
    <3> QED BY <3>1, <2>4, <2>6, <2>10, <2>12, PushesBranches
  <2>14. Pushes(a \o Branches(j, yes, no), m, val[e])
    <3>1. val[e.e1] # Undefined =>
            IF Taken(j.op, val[e.e1]) THEN Pushes(no, m, val[e]) ELSE Pushes(yes, m, val[e])
      BY <2>3, <2>7, <2>8, <2>11 DEF Taken
    <3> QED BY <3>1, <2>4, <2>6, <2>11, <2>12, PushesBranches
  <2>15. emit[e] = a \o Branches(i, no, yes) \/ emit[e] = a \o Branches(j, yes, no)
    BY <2>2, <2>6, <2>7, <2>8, <2>10, <2>11 DEF EmitTernary
  <2> QED BY <2>4, <2>5, <2>13, <2>14, <2>15 DEF Agrees
<1> QED BY Kinds, <1>5, <1>6, <1>7, <1>8, <1>10, <1>11, <1>12

\* The emitter, is_boolean and the evaluator agree on every expression: what is
\* emitted computes what the expression means, from any stack and for every n,
\* and divides by zero only if the expression does; what is_boolean accepts is 0
\* or 1.
THEOREM EmittedCodeComputes ==
    ASSUME NEW E, NEW N \in SUBSET Nat, NEW value, NEW boolean, NEW emit,
           Visits(E, N, value, boolean, emit)
    PROVE  \A m \in N, e \in E :
               /\ boolean[e] => value[m][e] \in {0, 1, Undefined}
               /\ Pushes(emit[e], m, value[m][e])
<1> SUFFICES ASSUME NEW m \in N
             PROVE  \A e \in E : Agrees(e, m, value[m][e], boolean[e], emit[e])
  BY DEF Agrees
<1> DEFINE Good == {e \in E : Agrees(e, m, value[m][e], boolean[e], emit[e])}
<1>1. \A e \in E : (\A f \in E : Len(emit[f]) < Len(emit[e]) => f \in Good) => e \in Good
  <2>1. m \in Nat
    OBVIOUS
  <2> QED BY <2>1, AgreesOnWhole
<1>2. Good \subseteq E
  OBVIOUS
<1>3. Good = E
  <2> HIDE DEF Good
  <2> QED BY <1>1, <1>2, ByParts
<1> QED BY <1>3
-----------------------------------------------------------------------------
(* The machine is a plural-forms function *)

\* In the middle of a call the stack is one that leads to the answer.
OnCourse ==
    LET v == Value(source, n)
    IN  /\ n \in Numbers
        /\ \E P : /\ Outlines(P, code, Stacks(n, v = Undefined))
                  /\ P[Len(code)] \subseteq Result(<<>>, v)
                  /\ stack \in P[pc]

Course == Inv /\ (phase = "running" => OnCourse)

\* What the visitors made of the sources agrees.
LEMMA ProgramsCompute ==
    ASSUME NEW m \in Numbers, NEW e \in Sources
    PROVE  Pushes(Program(e), m, Value(e, m))
<1>1. Numbers \in SUBSET Nat
  BY ProgramAssumption
<1>2. values[m][e] = Value(e, m) /\ programs[e] = Program(e)
  BY DEF values, programs
<1>3. Pushes(programs[e], m, values[m][e])
  BY <1>1, CompilerAssumption, EmittedCodeComputes
<1> QED BY <1>2, <1>3

\* A call begins on course.
LEMMA CallOnCourse ==
    ASSUME Course, NEW m \in Numbers, Call(m)
    PROVE  Course'
<1>1. Inv'
  BY StepInv DEF Course, Next
<1>2. source \in Sources /\ source' = source /\ n' = m /\ pc' = 0 /\ stack' = <<>> /\ code' = code
  BY DEF Course, Inv, TypeOK, Call, ClearedStack, code
<1>3. PICK v : v = Value(source, m)
  OBVIOUS
<1>4. PICK u \in BOOLEAN : u = (v = Undefined)
  OBVIOUS
<1>5. Leads(code, Stacks(m, u), {<<>>}, Result(<<>>, v))
  <2>1. Pushes(code, m, v)
    BY <1>2, <1>3, ProgramsCompute DEF code
  <2>2. <<>> \in Seq(Nat)
    OBVIOUS
  <2> QED BY <2>1, <2>2, <1>4 DEF Pushes
<1>6. PICK P : /\ Outlines(P, code, Stacks(m, u))
               /\ {<<>>} \subseteq P[0] /\ P[Len(code)] \subseteq Result(<<>>, v)
  BY <1>5 DEF Leads
<1>7. Value(source, n)' = v
  BY <1>2, <1>3
<1>8. OnCourse'
  BY <1>2, <1>4, <1>6, <1>7 DEF OnCourse
<1> QED BY <1>1, <1>8 DEF Course

\* pop_one twice gives the two values on top.
LEMMA SecondFromTop ==
    ASSUME NEW s \in Seq(Nat), Len(s) >= 2
    PROVE  Back(Popped(s, 1)) = s[Len(s) - 1]
<1>1. PICK k \in Nat : k = Len(s) - 1
  OBVIOUS
<1>2. Popped(s, 1) = SubSeq(s, 1, k)
  BY <1>1 DEF Popped
<1>3. PICK t : t = SubSeq(s, 1, k)
  OBVIOUS
<1>4. \A q \in 1..k : s[q] \in Nat
  BY <1>1
<1>5. /\ Len(t) = IF 1 <= k THEN k - 1 + 1 ELSE 0
      /\ \A q \in 1..(k - 1 + 1) : t[q] = s[1 + q - 1]
  BY <1>3, <1>4, SubSeqProperties
<1>6. 1 <= k /\ k \in 1..(k - 1 + 1) /\ k - 1 + 1 = k /\ 1 + k - 1 = k
  BY <1>1
<1>7. Len(t) = k /\ t[k] = s[k]
  BY <1>5, <1>6
<1> QED BY <1>1, <1>2, <1>3, <1>7 DEF Back

\* Every action of the loop but the division by zero is the machine's move at its
\* instruction.
LEMMA ActionsAreMoves ==
    ASSUME Inv, Step, ~Return
    PROVE  /\ phase = "running" /\ pc < Len(code)
           /\ \/ DivideByZero /\ Divides(code[pc + 1], stack)
              \/ /\ ~Divides(code[pc + 1], stack)
                 /\ Continue(Distance(code[pc + 1], stack), StackAfter(code[pc + 1], stack, n))
<1> DEFINE i == code[pc + 1]
<1>1. phase = "running" /\ pc < Len(code)
  BY DEF Step, PushConstant, PushArgument, SkipAlways, SkipConditional, Negate, Binary,
         DivideByZero, At
<1>2. Len(stack) >= Takes(i) /\ stack \in Seq(Nat)
  BY <1>1, AtInstruction DEF Inv, TypeOK
<1>3. Top = Back(stack) /\ \A k : Pop(k) = Popped(stack, k)
  BY DEF Top, Back, Pop, Popped
<1>4. ASSUME i.op \in BinaryOps
      PROVE  Below = Back(Popped(stack, 1))
  <2>1. Takes(i) = 2
    BY <1>4 DEF Takes, BinaryOps
  <2> QED BY <2>1, <1>2, SecondFromTop DEF Below
<1>5. CASE PushConstant
  <2>1. i.op = "push" /\ Continue(1, Append(stack, i.arg))
    BY <1>5 DEF PushConstant, At, arg
  <2>2. Distance(i, stack) = 1 /\ StackAfter(i, stack, n) = Append(stack, i.arg) /\ ~Divides(i, stack)
    BY <2>1 DEF Distance, StackAfter, Divides, BinaryOps
  <2> HIDE DEF i
  <2>3. Continue(Distance(i, stack), StackAfter(i, stack, n))
    BY <2>1, <2>2
  <2> QED BY <1>1, <2>2, <2>3 DEF i
<1>6. CASE PushArgument
  <2>1. i.op = "n" /\ Continue(1, Append(stack, n))
    BY <1>6 DEF PushArgument, At
  <2>2. Distance(i, stack) = 1 /\ StackAfter(i, stack, n) = Append(stack, n) /\ ~Divides(i, stack)
    BY <2>1 DEF Distance, StackAfter, Divides, BinaryOps
  <2> HIDE DEF i
  <2>3. Continue(Distance(i, stack), StackAfter(i, stack, n))
    BY <2>1, <2>2
  <2> QED BY <1>1, <2>2, <2>3 DEF i
<1>7. CASE SkipAlways
  <2>1. i.op = "skip" /\ Continue(1 + i.arg, stack)
    BY <1>7 DEF SkipAlways, At, arg
  <2>2. Distance(i, stack) = 1 + i.arg /\ StackAfter(i, stack, n) = stack /\ ~Divides(i, stack)
    BY <2>1 DEF Distance, StackAfter, Divides, BinaryOps
  <2> HIDE DEF i
  <2>3. Continue(Distance(i, stack), StackAfter(i, stack, n))
    BY <2>1, <2>2
  <2> QED BY <1>1, <2>2, <2>3 DEF i
<1>8. CASE SkipConditional
  <2> DEFINE d == IF Taken(i.op, Top) THEN 1 + i.arg ELSE 1
  <2>1. i.op \in {"skip_if", "skip_if_not"} /\ Continue(d, Pop(1))
    BY <1>8 DEF SkipConditional, At, arg
  <2>2. StackAfter(i, stack, n) = Popped(stack, 1) /\ ~Divides(i, stack)
    BY <2>1 DEF StackAfter, Divides, BinaryOps
  <2>3. Distance(i, stack) = d
    <3>1. i.op = "skip_if" => Distance(i, stack) = 1 + IF Top # 0 THEN i.arg ELSE 0
      BY <1>3 DEF Distance
    <3>2. i.op = "skip_if_not" => Distance(i, stack) = 1 + IF Top = 0 THEN i.arg ELSE 0
      BY <1>3 DEF Distance
    <3> QED BY <3>1, <3>2, <2>1 DEF Taken
  <2> HIDE DEF i, d
  <2>4. Continue(Distance(i, stack), StackAfter(i, stack, n))
    BY <2>1, <2>2, <2>3, <1>3
  <2> QED BY <1>1, <2>2, <2>4 DEF i
<1>9. CASE Negate
  <2>1. i.op = "not" /\ Continue(1, Append(Pop(1), Bit(Top = 0)))
    BY <1>9 DEF Negate, At
  <2>2. /\ Distance(i, stack) = 1 /\ ~Divides(i, stack)
        /\ StackAfter(i, stack, n) = Append(Popped(stack, 1), Bit(Back(stack) = 0))
    BY <2>1 DEF Distance, StackAfter, Divides, BinaryOps
  <2> HIDE DEF i
  <2>3. Continue(Distance(i, stack), StackAfter(i, stack, n))
    BY <2>1, <2>2, <1>3
  <2> QED BY <1>1, <2>2, <2>3 DEF i
<1>10. CASE Binary
  <2>1. /\ i.op \in BinaryOps /\ Operate(i.op) # Undefined
        /\ Continue(1, Append(Pop(2), Operate(i.op)))
    BY <1>10 DEF Binary, At
  <2>2. Operate(i.op) = Apply(i.op, Back(Popped(stack, 1)), Back(stack))
    BY <2>1, <1>3, <1>4 DEF Operate
  <2>3. Distance(i, stack) = 1 /\ ~Divides(i, stack)
    BY <2>1, <2>2 DEF Distance, Divides, BinaryOps
  <2>4. StackAfter(i, stack, n)
          = Append(Popped(stack, 2), Apply(i.op, Back(Popped(stack, 1)), Back(stack)))
    BY <2>1 DEF StackAfter, BinaryOps
  <2> HIDE DEF i
  <2>5. Continue(Distance(i, stack), StackAfter(i, stack, n))
    BY <2>1, <2>2, <2>3, <2>4, <1>3
  <2> QED BY <1>1, <2>3, <2>5 DEF i
<1>11. CASE DivideByZero
  <2>1. i.op \in BinaryOps /\ Operate(i.op) = Undefined
    BY <1>11 DEF DivideByZero, At
  <2>2. Divides(i, stack)
    BY <2>1, <1>3, <1>4 DEF Operate, Divides
  <2> QED BY <1>1, <1>11, <2>2
<1> QED BY <1>5, <1>6, <1>7, <1>8, <1>9, <1>10, <1>11 DEF Step

\* A move at an instruction stays on course.
LEMMA MoveOnCourse ==
    ASSUME Course, phase = "running", pc < Len(code), Inv',
           ~Divides(code[pc + 1], stack),
           Continue(Distance(code[pc + 1], stack), StackAfter(code[pc + 1], stack, n))
    PROVE  Course'
<1>1. PICK i : i = code[pc + 1]
  OBVIOUS
<1>2. PICK v : v = Value(source, n)
  OBVIOUS
<1>3. PICK K : K = Stacks(n, v = Undefined)
  OBVIOUS
<1>4. PICK P : /\ Outlines(P, code, K)
               /\ P[Len(code)] \subseteq Result(<<>>, v)
               /\ stack \in P[pc]
  BY <1>2, <1>3 DEF Course, OnCourse
<1>5. /\ i \in Instruction /\ Len(stack) >= Takes(i)
      /\ pc \in 0..(Len(code) - 1)
  <2>1. Inv
    BY DEF Course
  <2>2. code \in Seq(Instruction)
    BY <2>1, ProgramAssumption DEF Inv, TypeOK, code
  <2> QED BY <2>1, <2>2, <1>1, AtInstruction DEF Inv, TypeOK
<1>6. /\ pc' = pc + Distance(i, stack) /\ stack' = StackAfter(i, stack, n)
      /\ source' = source /\ n' = n /\ phase' = phase /\ code' = code
  BY <1>1 DEF Continue, code
<1>7. /\ stack \in Seq(Nat) /\ stack' \in Seq(Nat)
  BY DEF Course, Inv, TypeOK
<1>8. Distance(i, stack) \in Nat
  BY <1>5 DEF Distance, Instruction
<1>9. <<i, stack, Distance(i, stack), stack'>> \in K.moves
  BY <1>1, <1>3, <1>5, <1>6, <1>7, <1>8 DEF Stacks
<1>10. stack' \in P[pc + Distance(i, stack)]
  BY <1>1, <1>4, <1>5, <1>9 DEF Outlines
<1>11. Value(source, n)' = v
  BY <1>2, <1>6
<1>12. stack' \in P[pc']
  BY <1>6, <1>10
<1>13. n' \in Numbers
  BY <1>6 DEF Course, OnCourse
<1>14. OnCourse'
  BY <1>3, <1>4, <1>6, <1>11, <1>12, <1>13 DEF OnCourse
<1> QED BY <1>14 DEF Course

\* Every step stays on course.
LEMMA StepOnCourse == Course /\ [Next]_vars => Course'
<1> SUFFICES ASSUME Course, [Next]_vars PROVE Course'
  OBVIOUS
<1>1. Inv'
  BY StepInv DEF Course
<1>2. CASE \E m \in Numbers : Call(m)
  BY <1>2, CallOnCourse
<1>3. CASE Return
  BY <1>1, <1>3 DEF Return, Course
<1>4. CASE Step /\ ~Return
  <2>1. CASE DivideByZero
    BY <1>1, <2>1 DEF DivideByZero, Course
  <2>2. CASE ~DivideByZero
    BY <1>1, <1>4, <2>2, ActionsAreMoves, MoveOnCourse DEF Course
  <2> QED BY <2>1, <2>2
<1>5. CASE UNCHANGED vars
  <2>1. source' = source /\ n' = n /\ pc' = pc /\ stack' = stack /\ phase' = phase /\ code' = code
    BY <1>5 DEF vars, code
  <2>2. Value(source, n)' = Value(source, n)
    BY <2>1
  <2>3. OnCourse => OnCourse'
    BY <2>1, <2>2 DEF OnCourse
  <2> QED BY <1>1, <2>1, <2>3 DEF Course
<1> QED BY <1>2, <1>3, <1>4, <1>5 DEF Next

\* A step of the machine is one of the function it implements, or none of its
\* business.
LEMMA StepImplements == Course /\ [Next]_vars => [Function!Next]_(Function!absVars)
<1> SUFFICES ASSUME Course, [Next]_vars PROVE [Function!Next]_(Function!absVars)
  OBVIOUS
<1>1. ASSUME NEW m \in Numbers, Call(m)
      PROVE  Function!Next
  BY <1>1 DEF Call, Function!Next, Function!Call
<1>2. PICK v : v = Value(source, n)
  OBVIOUS
<1>3. ASSUME phase = "running"
      PROVE  \E P : /\ Outlines(P, code, Stacks(n, v = Undefined))
                   /\ P[Len(code)] \subseteq Result(<<>>, v)
                   /\ stack \in P[pc]
  BY <1>2, <1>3 DEF Course, OnCourse
<1>4. CASE Return
  <2>1. phase = "running" /\ phase' = "idle" /\ result' = stack[1] /\ source' = source /\ n' = n
    BY <1>4 DEF Return
  <2>2. pc = Len(code)
    <3>1. code \in Seq(Instruction)
      BY ProgramAssumption DEF Course, Inv, TypeOK, code
    <3> QED BY <3>1, <1>4 DEF Return, Course, Inv, TypeOK
  <2>3. stack \in Result(<<>>, v)
    BY <2>1, <2>2, <1>3
  <2>4. v # Undefined /\ stack = Append(<<>>, v)
    BY <2>3 DEF Result
  <2>5. stack[1] = v
    BY <2>4
  <2>6. Function!Answer
    BY <2>1, <2>4, <2>5, <1>2 DEF Function!Answer
  <2> QED BY <2>6 DEF Function!Next
<1>5. CASE DivideByZero
  <2>1. /\ phase = "running" /\ pc < Len(code) /\ phase' = "undefined"
        /\ UNCHANGED <<source, n, result>>
    BY <1>5 DEF DivideByZero, At
  <2>2. Divides(code[pc + 1], stack)
    <3>1. Step /\ ~Return /\ Inv
      BY <1>5, <2>1 DEF Step, Return, Course
    <3>2. ~(\E d, s : Continue(d, s))
      BY <2>1 DEF Continue
    <3> QED BY <3>1, <3>2, ActionsAreMoves
  <2>3. v = Undefined
    <3>1. PICK P : Outlines(P, code, Stacks(n, v = Undefined)) /\ stack \in P[pc]
      BY <2>1, <1>3
    <3>2. pc \in 0..(Len(code) - 1)
      <4>1. code \in Seq(Instruction)
        BY ProgramAssumption DEF Course, Inv, TypeOK, code
      <4> QED BY <4>1, <2>1 DEF Course, Inv, TypeOK
    <3>3. <<code[pc + 1], stack>> \in Stacks(n, v = Undefined).can
      BY <3>1, <3>2 DEF Outlines
    <3> QED BY <3>3, <2>2 DEF Stacks
  <2>4. Function!Answer
    BY <2>1, <2>3, <1>2 DEF Function!Answer
  <2> QED BY <2>4 DEF Function!Next
<1>6. CASE Step /\ ~Return /\ ~DivideByZero
  <2>1. \E d, s : Continue(d, s)
    BY <1>6, ActionsAreMoves DEF Course
  <2> QED BY <2>1 DEF Continue, Function!absVars
<1>7. CASE UNCHANGED vars
  BY <1>7 DEF vars, Function!absVars
<1> QED BY <1>1, <1>4, <1>5, <1>6, <1>7 DEF Next

\* The machine answers each call with the value of its expression for that n,
\* whatever it was called with before, and meets n % 0 exactly where the
\* expression does: the safety half of ImplementsFunction.
THEOREM AnswersAreValues == Spec => Function!Init /\ [][Function!Next]_(Function!absVars)
<1>1. Init => Function!Init
  BY DEF Init, Function!Init
<1>2. Init => Course
  BY InitInv DEF Init, Course
<1> QED BY <1>1, <1>2, StepOnCourse, StepImplements, PTL DEF Spec
-----------------------------------------------------------------------------
(* A call alone *)

\* What is left when values are popped, and what they are.
LEMMA PoppedType ==
    ASSUME NEW s \in Seq(Nat), NEW k \in {1, 2}, Len(s) >= k
    PROVE  Popped(s, k) \in Seq(Nat) /\ Back(s) \in Nat
<1>1. PICK d \in Nat : d = Len(s) - k
  OBVIOUS
<1>2. \A q \in 1..d : s[q] \in Nat
  BY <1>1
<1>3. SubSeq(s, 1, d) \in Seq(Nat)
  BY <1>2, SubSeqProperties
<1>4. Len(s) \in 1..Len(s)
  OBVIOUS
<1> QED BY <1>1, <1>3, <1>4 DEF Popped, Back

\* Every instruction that has its operands, and does not divide by zero, leaves
\* numbers on the stack.
LEMMA StackAfterType ==
    ASSUME NEW m \in Nat, NEW i \in Instruction, NEW s \in Seq(Nat),
           Len(s) >= Takes(i), ~Divides(i, s)
    PROVE  StackAfter(i, s, m) \in Seq(Nat)
<1>1. CASE i.op = "push"
  <2>1. i.arg \in Nat /\ StackAfter(i, s, m) = Append(s, i.arg)
    BY <1>1 DEF StackAfter, Instruction, BinaryOps
  <2> QED BY <2>1, OnTop
<1>2. CASE i.op = "n"
  <2>1. StackAfter(i, s, m) = Append(s, m)
    BY <1>2 DEF StackAfter, BinaryOps
  <2> QED BY <2>1, OnTop
<1>3. CASE i.op = "skip"
  BY <1>3 DEF StackAfter, BinaryOps
<1>4. CASE i.op \in {"skip_if", "skip_if_not"}
  <2>1. Takes(i) = 1 /\ StackAfter(i, s, m) = Popped(s, 1)
    BY <1>4 DEF StackAfter, Takes, BinaryOps
  <2> QED BY <2>1, PoppedType
<1>5. CASE i.op = "not"
  <2>1. Takes(i) = 1 /\ StackAfter(i, s, m) = Append(Popped(s, 1), Bit(Back(s) = 0))
    BY <1>5 DEF StackAfter, Takes, BinaryOps
  <2>2. Popped(s, 1) \in Seq(Nat) /\ Bit(Back(s) = 0) \in Nat
    BY <2>1, PoppedType DEF Bit
  <2> QED BY <2>1, <2>2, OnTop
<1>6. CASE i.op \in BinaryOps
  <2>1. /\ Takes(i) = 2
        /\ StackAfter(i, s, m) = Append(Popped(s, 2), Apply(i.op, Back(Popped(s, 1)), Back(s)))
    BY <1>6 DEF StackAfter, Takes, BinaryOps
  <2>2. Popped(s, 2) \in Seq(Nat) /\ Popped(s, 1) \in Seq(Nat) /\ Back(s) \in Nat
    BY <2>1, PoppedType
  <2>3. Back(Popped(s, 1)) \in Nat
    <3>1. Back(Popped(s, 1)) = s[Len(s) - 1] /\ Len(s) - 1 \in 1..Len(s)
      BY <2>1, SecondFromTop
    <3> QED BY <3>1
  <2>4. PICK a \in Nat : a = Back(Popped(s, 1))
    BY <2>3
  <2>5. PICK v \in Nat : v = Back(s)
    BY <2>2
  <2>6. Apply(i.op, a, v) # Undefined
    BY <1>6, <2>4, <2>5 DEF Divides
  <2>7. Operation(i.op, a, v) = Apply(i.op, a, v) /\ Operation(i.op, a, v) \in Outcomes
    <3>1. a # Undefined /\ v # Undefined /\ a \in Outcomes /\ v \in Outcomes
      BY UndefinedAssumption DEF Outcomes
    <3> QED BY <1>6, <3>1, OperationType DEF Operation
  <2>8. Apply(i.op, a, v) \in Nat
    BY <2>6, <2>7 DEF Outcomes
  <2> QED BY <2>1, <2>2, <2>4, <2>5, <2>8, OnTop
<1> QED BY <1>1, <1>2, <1>3, <1>4, <1>5, <1>6 DEF Instruction, Skips

\* The rest of a lone call from pc on.
ComputesFrom(c, m, stk, v, q) ==
    /\ q \in DOMAIN stk /\ DOMAIN stk \subseteq q..Len(c)
    /\ \A r \in DOMAIN stk :
         IF r < Len(c)
         THEN /\ Len(stk[r]) >= Takes(c[r + 1])
              /\ r + Distance(c[r + 1], stk[r]) \in DOMAIN stk
              /\ stk[r + Distance(c[r + 1], stk[r])] = StackAfter(c[r + 1], stk[r], m)
         ELSE Len(stk[r]) = 1 /\ stk[r][1] = v

\* The call with stack s at q has a rest.
Ends(c, m, v, x) == \E stk : ComputesFrom(c, m, stk, v, x[1]) /\ stk[x[1]] = x[2]

\* One instruction, and the rest of the call behind it.
LEMMA OneMore ==
    ASSUME NEW c \in Seq(Instruction), NEW m, NEW v, NEW q \in 0..(Len(c) - 1), NEW s,
           Len(s) >= Takes(c[q + 1]),
           NEW r \in 0..Len(c), r = q + Distance(c[q + 1], s), q < r,
           NEW t, t = StackAfter(c[q + 1], s, m),
           Ends(c, m, v, <<r, t>>)
    PROVE  Ends(c, m, v, <<q, s>>)
<1>1. PICK stk : ComputesFrom(c, m, stk, v, r) /\ stk[r] = t
  BY DEF Ends
<1> DEFINE new == [p \in {q} \cup DOMAIN stk |-> IF p = q THEN s ELSE stk[p]]
<1>2. q \notin DOMAIN stk /\ q \in 0..Len(c) /\ q < Len(c)
  BY <1>1 DEF ComputesFrom
<1>3. DOMAIN new = {q} \cup DOMAIN stk /\ new[q] = s /\ \A p \in DOMAIN stk : new[p] = stk[p]
  BY <1>2
<1> HIDE DEF new
<1>4. DOMAIN new \subseteq q..Len(c)
  BY <1>1, <1>3 DEF ComputesFrom
<1>5. ASSUME NEW p \in DOMAIN new
      PROVE  IF p < Len(c)
             THEN /\ Len(new[p]) >= Takes(c[p + 1])
                  /\ p + Distance(c[p + 1], new[p]) \in DOMAIN new
                  /\ new[p + Distance(c[p + 1], new[p])] = StackAfter(c[p + 1], new[p], m)
             ELSE Len(new[p]) = 1 /\ new[p][1] = v
  <2>1. CASE p = q
    <3>1. r \in DOMAIN stk
      BY <1>1 DEF ComputesFrom
    <3> QED BY <2>1, <3>1, <1>1, <1>2, <1>3
  <2>2. CASE p # q
    <3>1. p \in DOMAIN stk /\ new[p] = stk[p]
      BY <2>2, <1>3, <1>5
    <3>2. IF p < Len(c)
          THEN /\ Len(stk[p]) >= Takes(c[p + 1])
               /\ p + Distance(c[p + 1], stk[p]) \in DOMAIN stk
               /\ stk[p + Distance(c[p + 1], stk[p])] = StackAfter(c[p + 1], stk[p], m)
          ELSE Len(stk[p]) = 1 /\ stk[p][1] = v
      BY <1>1, <3>1 DEF ComputesFrom
    <3> QED BY <3>1, <3>2, <1>3
  <2> QED BY <2>1, <2>2
<1>6. ComputesFrom(c, m, new, v, q)
  BY <1>3, <1>4, <1>5 DEF ComputesFrom
<1> QED BY <1>3, <1>6 DEF Ends

\* A call that has the machine to itself goes forward through an outline of its
\* code to the end.
LEMMA RunsThrough ==
    ASSUME NEW c \in Seq(Instruction), NEW m \in Nat, NEW v, v # Undefined, NEW P,
           Outlines(P, c, Stacks(m, FALSE)), P[Len(c)] \subseteq Result(<<>>, v),
           NEW s \in P[0]
    PROVE  Ends(c, m, v, <<0, s>>)
<1>1. PICK N \in Nat : N = Len(c)
  OBVIOUS
<1> DEFINE D == {x \in (0..N) \X Seq(Nat) : x[2] \in P[x[1]]}
           rank == [x \in D |-> N - x[1]]
           Good == {x \in D : Ends(c, m, v, x)}
<1>2. P \in [0..N -> SUBSET Seq(Nat)]
  BY <1>1 DEF Outlines, Stacks
<1>3. ASSUME NEW x \in D, \A y \in D : rank[y] < rank[x] => y \in Good
      PROVE  x \in Good
  <2>1. PICK q \in 0..N, t \in Seq(Nat) : x = <<q, t>> /\ t \in P[q]
    OBVIOUS
  <2>2. CASE q = N
    <3>1. t = Append(<<>>, v)
      BY <2>1, <2>2, <1>1 DEF Result
    <3>2. Len(t) = 1 /\ t[1] = v
      BY <3>1
    <3> DEFINE stk == [p \in {N} |-> t]
    <3>3. ComputesFrom(c, m, stk, v, N) /\ stk[N] = t
      BY <3>2, <1>1 DEF ComputesFrom
    <3>4. Ends(c, m, v, <<N, t>>)
      <4> HIDE DEF stk
      <4> QED BY <3>3 DEF Ends
    <3> QED BY <2>1, <2>2, <3>4
  <2>3. CASE q # N
    <3>1. q \in 0..(N - 1) /\ q \in 0..(Len(c) - 1)
      BY <2>3, <1>1
    <3>2. PICK i \in Instruction : i = c[q + 1]
      BY <3>1, <1>1
    <3>3. <<i, t>> \in Stacks(m, FALSE).can
      BY <2>1, <3>1, <3>2 DEF Outlines
    <3>4. Len(t) >= Takes(i) /\ ~Divides(i, t)
      BY <3>3 DEF Stacks
    <3>5. PICK d \in Nat : d = Distance(i, t) /\ d >= 1
      BY DEF Distance, Instruction
    <3>6. PICK u : u = StackAfter(i, t, m)
      OBVIOUS
    <3>7. u \in Seq(Nat)
      BY <3>4, <3>6, StackAfterType
    <3>8. <<i, t, d, u>> \in Stacks(m, FALSE).moves
      BY <3>4, <3>5, <3>6, <3>7 DEF Stacks
    <3>9. q + d \in 0..N /\ u \in P[q + d]
      BY <2>1, <3>1, <3>2, <3>8, <1>1 DEF Outlines
    <3>10. <<q + d, u>> \in Good
      <4>1. <<q + d, u>> \in D /\ rank[<<q + d, u>>] < rank[x]
        BY <3>5, <3>7, <3>9, <2>1
      <4> QED BY <4>1, <1>3
    <3>11. Ends(c, m, v, <<q + d, u>>)
      BY <3>10
    <3>12. PICK r \in 0..N : r = q + d /\ q < r
      BY <3>5, <3>9
    <3>13. Ends(c, m, v, <<q, t>>)
      BY <3>1, <3>2, <3>4, <3>5, <3>6, <3>11, <3>12, <1>1, OneMore
    <3> QED BY <3>13, <2>1
  <2> QED BY <2>2, <2>3
<1>4. rank \in [D -> Nat] /\ Good \subseteq D
  OBVIOUS
<1>5. Inherits(Good, D, rank)
  <2> HIDE DEF Good, D, rank
  <2> QED BY <1>3, <1>4 DEF Inherits
<1>6. Good = D
  <2> HIDE DEF Good, D, rank
  <2> QED BY <1>5, ByRank
<1>7. <<0, s>> \in D
  BY <1>1, <1>2
<1> QED BY <1>6, <1>7

\* A call of compute that has the machine to itself is answered with the value of
\* the expression: what LookupThreads assumes of its program.
THEOREM LoneCallsCompute ==
    ASSUME NEW E, NEW N \in SUBSET Nat, NEW value, NEW boolean, NEW emit,
           Visits(E, N, value, boolean, emit)
    PROVE  \A m \in N, e \in E : value[m][e] # Undefined =>
               \E stk : Computes(emit[e], m, stk, value[m][e])
<1> SUFFICES ASSUME NEW m \in N, NEW e \in E, value[m][e] # Undefined
             PROVE  \E stk : Computes(emit[e], m, stk, value[m][e])
  OBVIOUS
<1>1. PICK c : c = emit[e]
  OBVIOUS
<1>2. PICK v : v = value[m][e]
  OBVIOUS
<1>3. Pushes(c, m, v) /\ v # Undefined
  BY <1>1, <1>2, EmittedCodeComputes
<1>4. c \in Seq(Instruction) /\ m \in Nat /\ <<>> \in Seq(Nat)
  BY <1>3 DEF Pushes
<1>5. Leads(c, Stacks(m, FALSE), {<<>>}, Result(<<>>, v))
  BY <1>3, <1>4 DEF Pushes
<1>6. PICK P : /\ Outlines(P, c, Stacks(m, FALSE))
               /\ <<>> \in P[0] /\ P[Len(c)] \subseteq Result(<<>>, v)
  BY <1>5 DEF Leads
<1>8. Ends(c, m, v, <<0, <<>>>>)
  BY <1>3, <1>4, <1>6, RunsThrough
<1>9. PICK stk : ComputesFrom(c, m, stk, v, 0) /\ stk[0] = <<>>
  BY <1>8 DEF Ends
<1>10. Computes(c, m, stk, v)
  BY <1>9 DEF ComputesFrom, Computes
<1> QED BY <1>1, <1>2, <1>10
=============================================================================
