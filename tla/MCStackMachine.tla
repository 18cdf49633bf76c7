--------------------------- MODULE MCStackMachine ---------------------------
(***************************************************************************)
(* The stack machine with the programs of PluralExpr's emitter.            *)
(***************************************************************************)
EXTENDS StackMachine, PluralCompiler

MCNumbers == {0, 1, 2, 12}

\* One representative for each way an expression can matter to the one around
\* it: boolean by shape or not, long or short, and undefined for some n.
Part == {
    Constant(0), Constant(1), Constant(2), NVar,
    Not(NVar),
    BinaryOp("gt", NVar, Constant(1)),
    BinaryOp("mod", NVar, Constant(10)),
    BinaryOp("mod", Constant(1), NVar),
    And(NVar, BinaryOp("lt", NVar, Constant(3))),
    Or(Not(NVar), Constant(2)),
    Ternary(NVar, Constant(1), Constant(0)) }

\* The test of a ternary only stands before the skip: three values it can have
\* and one it has not.
Test == {
    NVar, Constant(0),
    BinaryOp("mod", Constant(1), NVar),
    Or(Not(NVar), Constant(2)) }

\* Every expression made of one operator and parts.
Composed ==
    {Not(e) : e \in Part}
    \cup {BinaryOp(op, e, f) : op \in BinaryOps, e \in Part, f \in Part}
    \cup {And(e, f) : e \in Part, f \in Part}
    \cup {Or(e, f) : e \in Part, f \in Part}
    \cup {Ternary(e, f, g) : e \in Test, f \in Part, g \in Part}

\* The Polish header of the README: n==1 ? 0 :
\* n%10>=2 && n%10<=4 && (n%100<10 || n%100>=20) ? 1 : 2
Polish ==
    LET Mod(k) == BinaryOp("mod", NVar, Constant(k))
        Cmp(op, e, k) == BinaryOp(op, e, Constant(k))
    IN  Ternary(Cmp("eq", NVar, 1), Constant(0),
                Ternary(And(Cmp("ge", Mod(10), 2),
                            And(Cmp("le", Mod(10), 4),
                                Or(Cmp("lt", Mod(100), 10), Cmp("ge", Mod(100), 20)))),
                        Constant(1), Constant(2)))

\* They, and their parts at every depth.
AllSources ==
    LET WithParts[depth \in 0..7] ==
          IF depth = 0 THEN Part \cup Composed \cup {Polish}
          ELSE LET E == WithParts[depth - 1]
               IN  E \cup UNION {Parts(e) : e \in E}
    IN  WithParts[7]

\* TLC evaluates AllSources once; what the .cfg names, again and again.
MCSources == AllSources
MCHeight(e) == Heights(Emit(e))
=============================================================================
