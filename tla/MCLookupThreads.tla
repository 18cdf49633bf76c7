-------------------------- MODULE MCLookupThreads --------------------------
(***************************************************************************)
(* A catalog with the plural forms n == 1 ? 0 : !(n % 2) && n < 3 ? 1 : 2. *)
(***************************************************************************)
EXTENDS LookupThreads, PluralCompiler

Expression ==
    Ternary(BinaryOp("eq", NVar, Constant(1)), Constant(0),
            Ternary(And(Not(BinaryOp("mod", NVar, Constant(2))),
                        BinaryOp("lt", NVar, Constant(3))),
                    Constant(1), Constant(2)))

MCProgram == Emit(Expression)
MCForm(n) == Eval(Expression, n)

\* The instructions one after the other; every one goes forward.
MCLoneStack(n) ==
    LET After(stop) ==
          LET i == Program[stop.pc + 1]
          IN  IF stop.pc >= Len(Program) THEN stop
              ELSE [pc |-> stop.pc + Distance(i, stop.stack),
                    stack |-> StackAfter(i, stop.stack, n)]
        Stop[k \in 0..Len(Program)] ==
          IF k = 0 THEN [pc |-> 0, stack |-> <<>>] ELSE After(Stop[k - 1])
        Stops == {Stop[k] : k \in 0..Len(Program)}
    IN  [pc \in {stop.pc : stop \in Stops} |->
           (CHOOSE stop \in Stops : stop.pc = pc).stack]
=============================================================================
