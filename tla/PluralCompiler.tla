--------------------------- MODULE PluralCompiler ---------------------------
(***************************************************************************)
(* The visitors of module PluralExpr, applied to the parts of expressions  *)
(* as boost::apply_visitor does it.                                        *)
(***************************************************************************)
EXTENDS PluralExpr

Parts(e) == {e[part] : part \in DOMAIN e \cap {"e1", "e2", "e3"}}

RECURSIVE Eval(_, _)
Eval(e, n) == Evaluated(e, n, [part \in Parts(e) |-> Eval(part, n)])

RECURSIVE IsBoolean(_)
IsBoolean(e) == BooleanByShape(e, [part \in Parts(e) |-> IsBoolean(part)])

RECURSIVE Emit(_)
Emit(e) == Emitted(e, [part \in Parts(e) |-> Emit(part)], [part \in Parts(e) |-> IsBoolean(part)])

\* The stack height before each instruction, from the first instruction that
\* leads to it; every instruction emitted is led to by an earlier one.
Heights(code) ==
    LET h[pc \in 0..Len(code)] ==
          IF pc = 0 THEN 0
          ELSE LET from == CHOOSE q \in 0..(pc - 1) : pc \in Successors(q, code[q + 1])
               IN  h[from] - Takes(code[from + 1]) + Leaves(code[from + 1])
    IN  h
=============================================================================
