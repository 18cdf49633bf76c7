--------------------------- MODULE LookupThreads ---------------------------
(***************************************************************************)
(* Threads that look up plurals in one catalog.  The lookups are const     *)
(* member functions, but operator() of the plural-forms function object    *)
(* runs a mutable stack machine (default_plural_forms_compiler.hpp:82):    *)
(* n_value_ and stack_ belong to all threads, pc to the call.              *)
(*                                                                         *)
(* The clients here know that, and hold a lock of theirs for the calls     *)
(* that need the machine; the other calls they make without it.            *)
(***************************************************************************)
EXTENDS PluralOps

CONSTANTS
    Thread,
    Numbers,    \* the numbers n that clients ask plural forms for
    Program,    \* instruction_seq_ of the machine
    Form(_),    \* the plural form that the expression has for n
    Strings,    \* the number of strings of the message
    NoThread,   \* the lock is free
    LoneStack(_)  \* LoneStack(n)[pc]: the stack of a call with n that has the
                  \* machine to itself, at every pc it comes by

ASSUME ThreadAssumption == NoThread \notin Thread

VARIABLES
    machine,    \* n_value_ and stack_
    call,       \* the call of each thread: its stage, its n, its pc, its answer
    lock        \* the thread that holds the clients' lock

vars == <<machine, call, lock>>
-----------------------------------------------------------------------------
Init ==
    /\ machine = [n |-> 0, stack |-> <<>>]
    /\ call = [t \in Thread |-> [stage |-> "idle", n |-> 0, pc |-> 0, answer |-> 0]]
    /\ lock = NoThread

\* Mutant: singular_index_ is not used.
MachineForAll(n) == TRUE

\* get(): the form of n = 1 is cached when the catalog is loaded.
NeedsMachine(n) == n # 1
SingularIndex == Form(1)

\* The clients' lock, which the library knows nothing of: who calls with another n
\* than 1 waits for it and has it until the call is over.
MayCall(n) == n # 1 => lock = NoThread
Taken(t, n) == IF n # 1 THEN t ELSE lock
Released(t) == IF lock = t THEN NoThread ELSE lock

\* A thread calls ngettext or npgettext.
Ask(t, n) ==
    /\ call[t].stage = "idle"
    /\ MayCall(n)
    /\ lock' = Taken(t, n)
    /\ call' = [call EXCEPT ![t] = [stage |-> "looking", n |-> n, pc |-> 0, answer |-> 0]]
    /\ UNCHANGED machine

\* An index past the last string is replaced by 0.
String(i) == IF i >= Strings THEN 0 ELSE i

Answered(t, i) ==
    call' = [call EXCEPT ![t].stage = "answered", ![t].answer = String(i)]

UseCache(t) ==
    /\ call[t].stage = "looking"
    /\ ~NeedsMachine(call[t].n)
    /\ Answered(t, SingularIndex)
    /\ UNCHANGED <<machine, lock>>

\* compute begins.
Start(t) ==
    /\ call[t].stage = "looking"
    /\ NeedsMachine(call[t].n)
    /\ machine' = [n |-> call[t].n, stack |-> <<>>]
    /\ call' = [call EXCEPT ![t].stage = "computing"]
    /\ UNCHANGED lock

\* A call that has the machine to itself comes to the form for its n.
ASSUME LoneCallAssumption ==
    /\ Program \in Seq(Instruction)
    /\ \A n \in Numbers : NeedsMachine(n) => Computes(Program, n, LoneStack(n), Form(n))

\* One instruction, on the stack as it is.
Execute(t) ==
    LET i == Program[call[t].pc + 1]
        s == machine.stack
    IN  /\ call[t].stage = "computing"
        /\ call[t].pc < Len(Program)
        /\ Len(s) >= Takes(i)
        /\ machine' = [machine EXCEPT !.stack = StackAfter(i, s, machine.n)]
        /\ call' = [call EXCEPT ![t].pc = @ + Distance(i, s)]
        /\ UNCHANGED lock

\* compute returns stack_[0].
Finish(t) ==
    /\ call[t].stage = "computing"
    /\ call[t].pc >= Len(Program)
    /\ machine.stack # <<>>
    /\ Answered(t, machine.stack[1])
    /\ UNCHANGED <<machine, lock>>

\* The client has its string.
Return(t) ==
    /\ call[t].stage = "answered"
    /\ call' = [call EXCEPT ![t].stage = "idle"]
    /\ lock' = Released(t)
    /\ UNCHANGED machine

\* What a thread does inside a call.
Step(t) == UseCache(t) \/ Start(t) \/ Execute(t) \/ Finish(t) \/ Return(t)

Next == \E t \in Thread : (\E n \in Numbers : Ask(t, n)) \/ Step(t)

Spec == Init /\ [][Next]_vars
-----------------------------------------------------------------------------
(* Properties *)

\* Every thread gets the string for its own n, whatever the others ask in the
\* meantime: calls with n = 1 do not disturb the call that has the machine.
AnswersTheirOwnN ==
    \A t \in Thread : call[t].stage = "answered" =>
        call[t].answer = String(Form(call[t].n))

\* No instruction finds less on the stack than it takes, and no call ends
\* without a result: otherwise a thread would read behind the stack.
NobodyTakesOperands ==
    \A t \in Thread : call[t].stage = "computing" =>
        IF call[t].pc < Len(Program)
        THEN Len(machine.stack) >= Takes(Program[call[t].pc + 1])
        ELSE Len(machine.stack) = 1
=============================================================================
