--------------------------- MODULE PluralFunction ---------------------------
(***************************************************************************)
(* What a compiled plural-forms function promises its catalog: it answers  *)
(* every call with the value of the expression it was compiled from,       *)
(* whatever it was called with before.                                     *)
(***************************************************************************)
EXTENDS Naturals

CONSTANTS
    Sources,      \* plural-forms expressions
    Numbers,      \* the numbers n it is called with
    Value(_, _),  \* the value of an expression at n, or Undefined
    Undefined

VARIABLES
    source,       \* the expression this function was compiled from
    n,            \* the argument of the last call
    phase,        \* "idle", "running", or "undefined" after a division by zero
    result        \* the answer to the last call

absVars == <<source, n, phase, result>>

Init ==
    /\ source \in Sources
    /\ n = 0
    /\ phase = "idle"
    /\ result = 0

Call(m) ==
    /\ phase = "idle"
    /\ phase' = "running"
    /\ n' = m
    /\ UNCHANGED <<source, result>>

\* An answer, or undefined behaviour exactly where the expression has it.
Answer ==
    /\ phase = "running"
    /\ IF Value(source, n) = Undefined
       THEN phase' = "undefined" /\ result' = result
       ELSE phase' = "idle" /\ result' = Value(source, n)
    /\ UNCHANGED <<source, n>>

Next == (\E m \in Numbers : Call(m)) \/ Answer

\* Every call is answered.
Spec == Init /\ [][Next]_absVars /\ WF_absVars(Answer)
=============================================================================
