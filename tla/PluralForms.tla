---------------------------- MODULE PluralForms ----------------------------
(***************************************************************************)
(* From the text of a header to plural forms, catalog.hpp:171-189: what    *)
(* HeaderMetadata reads is compiled with the grammar of PluralGrammar.     *)
(***************************************************************************)
EXTENDS HeaderMetadata

CONSTANTS
    Numbers,     \* the numbers n that plural forms are asked for
    Undefined    \* the value of an expression that divides by zero

G == INSTANCE PluralGrammar

VARIABLE object  \* pf_function_object_: an expression, or an error

formsVars == <<vars, object>>
-----------------------------------------------------------------------------
\* The function object of an error, "uninitialized" or other, computes 0.
NoObject == [error |-> TRUE, e |-> G!Constant(0)]

FormsInit == Init /\ object = NoObject

\* The constructor goes on after parse_header only if there are plural forms.
Compile ==
    /\ stage = "returned"
    /\ ~error
    /\ metadata.num # 0
    /\ object' = G!Compiled(WithoutBlanks(metadata.forms))
    /\ stage' = "compiled"
    /\ UNCHANGED <<text, error, metadata>>

\* The constructor goes on with the answer.
Done == stage = "compiled" /\ UNCHANGED formsVars

FormsNext == (Next /\ UNCHANGED object) \/ Compile \/ Done

FormsSpec == FormsInit /\ [][FormsNext]_formsVars
-----------------------------------------------------------------------------
(* Properties *)

\* What the header says the plural form is.
Written == G!CRead(G!Expression(WithoutBlanks(metadata.forms)))

\* The compiler accepts the rest of a Plural-Forms line if it is a C expression in
\* which no two of one level of %, < > <= >=, and == != are chained: backtracking
\* rejects none, and none is read as a shorter one.  And it accepts nothing else
\* than C.
AcceptsUnchainedC ==
    stage = "compiled" =>
        /\ Written # G!Bad /\ ~G!Chained(WithoutBlanks(metadata.forms)) => ~object.error
        /\ ~object.error => Written # G!Bad

\* What default_plural_forms_compiler.hpp:41 says is supported, the pseudo-C of
\* gettext: every C expression of the operators that the grammar knows compiles.
\* Not so if operators of one level are chained.
AcceptsC == stage = "compiled" /\ Written # G!Bad => ~object.error

\* An accepted expression means what it means in C, for every n.
MeansWhatCMeans ==
    stage = "compiled" /\ ~object.error =>
        \A n \in Numbers : G!Eval(object.e, n) = G!Eval(Written, n)
=============================================================================
