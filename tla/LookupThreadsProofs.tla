------------------------- MODULE LookupThreadsProofs -------------------------
(***************************************************************************)
(* Any number of threads that look up plurals in one catalog get the       *)
(* answers they would get alone, if those whose n is not 1 take turns: a   *)
(* call of compute that is right alone is right among them.                *)
(***************************************************************************)
EXTENDS LookupThreads, TLAPS

Stages == {"idle", "looking", "computing", "answered"}

TypeInv ==
    /\ machine = [n |-> machine.n, stack |-> machine.stack]
    /\ call = [t \in Thread |-> call[t]]
    /\ \A t \in Thread :
         /\ call[t] = [stage |-> call[t].stage, n |-> call[t].n,
                       pc |-> call[t].pc, answer |-> call[t].answer]
         /\ call[t].stage \in Stages
         /\ call[t].stage # "idle" => call[t].n \in Numbers
         /\ call[t].stage = "looking" => call[t].pc = 0

\* Whoever is in a call that needs the machine holds the lock.
LockHeld ==
    \A t \in Thread : call[t].stage # "idle" /\ NeedsMachine(call[t].n) => lock = t

\* A thread in compute finds n_value_ and stack_ as it would alone.
MachineIsMine ==
    \A t \in Thread : call[t].stage = "computing" =>
        LET n == call[t].n
        IN  /\ NeedsMachine(n)
            /\ machine.n = n
            /\ call[t].pc \in DOMAIN LoneStack(n)
            /\ machine.stack = LoneStack(n)[call[t].pc]

Inv == TypeInv /\ LockHeld /\ MachineIsMine /\ AnswersTheirOwnN

-----------------------------------------------------------------------------
\* What changes when thread t changes its call.
LEMMA CallChange ==
    ASSUME TypeInv, NEW t \in Thread, NEW c, call' = [call EXCEPT ![t] = c]
    PROVE  /\ call'[t] = c /\ \A u \in Thread \ {t} : call'[u] = call[u]
           /\ call' = [u \in Thread |-> call'[u]]
  BY DEF TypeInv

\* What changing a field of a call leaves of the others.
LEMMA CallFields ==
    ASSUME TypeInv, NEW t \in Thread, NEW x, NEW y
    PROVE  /\ [call[t] EXCEPT !.stage = x] =
                [stage |-> x, n |-> call[t].n, pc |-> call[t].pc,
                 answer |-> call[t].answer]
           /\ [call[t] EXCEPT !.pc = x] =
                [stage |-> call[t].stage, n |-> call[t].n, pc |-> x,
                 answer |-> call[t].answer]
           /\ [[call[t] EXCEPT !.stage = x] EXCEPT !.answer = y] =
                [stage |-> x, n |-> call[t].n, pc |-> call[t].pc, answer |-> y]
  <1> DEFINE s == call[t].stage
             n == call[t].n
             pc == call[t].pc
             a == call[t].answer
  <1>1. call[t] = [stage |-> s, n |-> n, pc |-> pc, answer |-> a]
    BY DEF TypeInv
  <1> HIDE DEF s, n, pc, a
  <1>2. [call[t] EXCEPT !.stage = x] = [stage |-> x, n |-> n, pc |-> pc, answer |-> a]
    BY <1>1
  <1>3. [call[t] EXCEPT !.pc = x] = [stage |-> s, n |-> n, pc |-> x, answer |-> a]
    BY <1>1
  <1>4. [[call[t] EXCEPT !.stage = x] EXCEPT !.answer = y] =
          [stage |-> x, n |-> n, pc |-> pc, answer |-> y]
    <2> DEFINE r == [call[t] EXCEPT !.stage = x]
    <2>1. r = [stage |-> x, n |-> n, pc |-> pc, answer |-> a]
      BY <1>2
    <2> HIDE DEF r
    <2>2. [r EXCEPT !.answer = y] = [stage |-> x, n |-> n, pc |-> pc, answer |-> y]
      BY <2>1
    <2> QED
      BY <2>2 DEF r
  <1> QED
    BY <1>2, <1>3, <1>4 DEF s, n, pc, a

\* Two threads are not in a call that needs the machine at the same time.
LEMMA Exclusive ==
    ASSUME LockHeld, NEW t \in Thread, NEW u \in Thread \ {t},
           call[t].stage # "idle", NeedsMachine(call[t].n)
    PROVE  call[u].stage = "idle" \/ ~NeedsMachine(call[u].n)
  BY DEF LockHeld

\* A step of t within its call, which keeps the lock, keeps the invariant if it
\* leaves t as it would be alone and changes the machine only where t has it.
LEMMA OwnStep ==
    ASSUME Inv, NEW t \in Thread, NEW c,
           call[t].stage # "idle", call' = [call EXCEPT ![t] = c], lock' = lock,
           c = [stage |-> c.stage, n |-> call[t].n, pc |-> c.pc, answer |-> c.answer],
           c.stage \in {"computing", "answered"},
           machine' = machine \/ NeedsMachine(call[t].n),
           machine' = [n |-> machine'.n, stack |-> machine'.stack],
           c.stage = "computing" =>
             /\ NeedsMachine(c.n) /\ machine'.n = c.n
             /\ c.pc \in DOMAIN LoneStack(c.n)
             /\ machine'.stack = LoneStack(c.n)[c.pc],
           c.stage = "answered" => c.answer = String(Form(c.n))
    PROVE  Inv'
  <1>1. /\ call'[t] = c /\ \A u \in Thread \ {t} : call'[u] = call[u]
        /\ call' = [u \in Thread |-> call'[u]]
    BY CallChange DEF Inv
  <1>2. c.n = call[t].n
    OBVIOUS
  <1>3. TypeInv'
    <2>1. \A u \in Thread :
             /\ call'[u] = [stage |-> call'[u].stage, n |-> call'[u].n,
                            pc |-> call'[u].pc, answer |-> call'[u].answer]
             /\ call'[u].stage \in Stages
             /\ call'[u].stage # "idle" => call'[u].n \in Numbers
             /\ call'[u].stage = "looking" => call'[u].pc = 0
      BY <1>1, <1>2 DEF Inv, TypeInv, Stages
    <2> QED
      BY <1>1, <2>1 DEF TypeInv
  <1>4. LockHeld'
    BY <1>1, <1>2 DEF Inv, LockHeld
  <1>5. MachineIsMine'
    <2>1. ASSUME NEW u \in Thread, call'[u].stage = "computing"
          PROVE  LET n == call'[u].n
                 IN  /\ NeedsMachine(n) /\ machine'.n = n
                     /\ call'[u].pc \in DOMAIN LoneStack(n)
                     /\ machine'.stack = LoneStack(n)[call'[u].pc]
      <3>1. CASE u = t
        BY <1>1, <2>1, <3>1
      <3>2. CASE u # t
        <4>1. call'[u] = call[u]
          BY <1>1, <3>2
        <4>2. machine' = machine
          BY <2>1, <3>2, <4>1, Exclusive DEF Inv, MachineIsMine
        <4> QED
          BY <2>1, <4>1, <4>2 DEF Inv, MachineIsMine
      <3> QED
        BY <3>1, <3>2
    <2> QED
      BY <2>1 DEF MachineIsMine
  <1>6. AnswersTheirOwnN'
    BY <1>1 DEF Inv, AnswersTheirOwnN, String
  <1> QED
    BY <1>3, <1>4, <1>5, <1>6 DEF Inv

\* No thread is in a call in the beginning.
LEMMA InitInv == Init => Inv
  BY DEF Init, Inv, TypeInv, Stages, LockHeld, MachineIsMine, AnswersTheirOwnN

\* Every step of a thread keeps the invariant, for this thread and all others.
LEMMA StepInv == Inv /\ [Next]_vars => Inv'
  <1> SUFFICES ASSUME Inv, [Next]_vars PROVE Inv'
    OBVIOUS
  <1>1. ASSUME NEW t \in Thread, NEW n \in Numbers, Ask(t, n)
        PROVE  Inv'
    <2> DEFINE c == [stage |-> "looking", n |-> n, pc |-> 0, answer |-> 0]
    <2>1. /\ call[t].stage = "idle" /\ machine' = machine
          /\ call' = [call EXCEPT ![t] = c]
          /\ n # 1 => lock = NoThread
          /\ lock' = IF n # 1 THEN t ELSE lock
      BY <1>1 DEF Ask, MayCall, Taken
    <2>2. /\ c.stage = "looking" /\ c.n = n /\ c.pc = 0
          /\ c = [stage |-> c.stage, n |-> c.n, pc |-> c.pc, answer |-> c.answer]
      OBVIOUS
    <2> HIDE DEF c
    <2>3. /\ call'[t] = c /\ \A u \in Thread \ {t} : call'[u] = call[u]
          /\ call' = [u \in Thread |-> call'[u]]
      BY <2>1, CallChange DEF Inv
    <2>4. TypeInv'
      <3>1. \A u \in Thread :
               /\ call'[u] = [stage |-> call'[u].stage, n |-> call'[u].n,
                              pc |-> call'[u].pc, answer |-> call'[u].answer]
               /\ call'[u].stage \in Stages
               /\ call'[u].stage # "idle" => call'[u].n \in Numbers
               /\ call'[u].stage = "looking" => call'[u].pc = 0
        BY <2>2, <2>3 DEF Inv, TypeInv, Stages
      <3> QED
        BY <2>1, <2>3, <3>1 DEF Inv, TypeInv
    <2>5. LockHeld'
      <3>1. ASSUME NEW u \in Thread, call'[u].stage # "idle", NeedsMachine(call'[u].n)
            PROVE  lock' = u
        <4>1. CASE u = t
          BY <2>1, <2>2, <2>3, <3>1, <4>1 DEF NeedsMachine
        <4>2. CASE u # t
          <5>1. lock = u
            BY <2>3, <3>1, <4>2 DEF Inv, LockHeld
          <5> QED
            BY <2>1, <5>1, ThreadAssumption
        <4> QED
          BY <4>1, <4>2
      <3> QED
        BY <3>1 DEF LockHeld
    <2>6. MachineIsMine'
      BY <2>1, <2>2, <2>3 DEF Inv, MachineIsMine
    <2>7. AnswersTheirOwnN'
      BY <2>2, <2>3 DEF Inv, AnswersTheirOwnN, String
    <2> QED
      BY <2>4, <2>5, <2>6, <2>7 DEF Inv
  <1>2. ASSUME NEW t \in Thread, UseCache(t)
        PROVE  Inv'
    <2> DEFINE c == [[call[t] EXCEPT !.stage = "answered"]
                       EXCEPT !.answer = String(SingularIndex)]
    <2>1. /\ call[t].stage = "looking" /\ ~NeedsMachine(call[t].n)
          /\ call' = [call EXCEPT ![t].stage = "answered", ![t].answer = String(SingularIndex)]
          /\ machine' = machine /\ lock' = lock
      BY <1>2 DEF UseCache, Answered
    <2>2. call' = [call EXCEPT ![t] = c]
      BY <2>1
    <2>3. /\ c = [stage |-> "answered", n |-> call[t].n, pc |-> call[t].pc,
                  answer |-> String(SingularIndex)]
          /\ machine' = [n |-> machine'.n, stack |-> machine'.stack]
      <3>1. machine' = [n |-> machine'.n, stack |-> machine'.stack]
        BY <2>1 DEF Inv, TypeInv
      <3> QED
        BY <3>1, CallFields, Zenon DEF Inv
    <2>4. String(SingularIndex) = String(Form(call[t].n))
      BY <2>1 DEF NeedsMachine, SingularIndex
    <2> HIDE DEF c
    <2> QED
      BY <2>1, <2>2, <2>3, <2>4, OwnStep
  <1>3. ASSUME NEW t \in Thread, Start(t)
        PROVE  Inv'
    <2> DEFINE c == [call[t] EXCEPT !.stage = "computing"]
               n == call[t].n
    <2>1. /\ call[t].stage = "looking" /\ NeedsMachine(n)
          /\ call' = [call EXCEPT ![t] = c]
          /\ machine' = [n |-> n, stack |-> <<>>] /\ lock' = lock
      BY <1>3 DEF Start
    <2>2. n \in Numbers /\ call[t].pc = 0
      BY <2>1 DEF Inv, TypeInv
    <2>3. c = [stage |-> "computing", n |-> n, pc |-> 0, answer |-> call[t].answer]
      BY <2>1, <2>2, CallFields DEF Inv, TypeInv
    <2>4. 0 \in DOMAIN LoneStack(n) /\ LoneStack(n)[0] = <<>>
      BY <2>1, <2>2, LoneCallAssumption DEF Computes
    <2> HIDE DEF c, n
    <2>5. c.stage = "computing" /\ c.n = n /\ c.pc = 0
      BY <2>3
    <2>6. machine'.n = n /\ machine'.stack = <<>>
      BY <2>1
    <2> QED
      BY <2>1, <2>3, <2>4, <2>5, <2>6, OwnStep DEF n
  <1>4. ASSUME NEW t \in Thread, Execute(t)
        PROVE  Inv'
    <2> DEFINE i == Program[call[t].pc + 1]
               s == machine.stack
               n == call[t].n
               next == call[t].pc + Distance(i, s)
               after == StackAfter(i, s, machine.n)
               c == [call[t] EXCEPT !.pc = next]
    <2>1. /\ call[t].stage = "computing" /\ call[t].pc < Len(Program)
          /\ machine' = [machine EXCEPT !.stack = after]
          /\ call' = [call EXCEPT ![t] = c] /\ lock' = lock
      BY <1>4 DEF Execute
    <2>2. /\ n \in Numbers /\ NeedsMachine(n) /\ machine.n = n
          /\ call[t].pc \in DOMAIN LoneStack(n) /\ s = LoneStack(n)[call[t].pc]
      BY <2>1 DEF Inv, TypeInv, MachineIsMine
    <2>3. next \in DOMAIN LoneStack(n) /\ LoneStack(n)[next] = after
      BY <2>1, <2>2, LoneCallAssumption DEF Computes
    <2>4. c = [stage |-> "computing", n |-> n, pc |-> next, answer |-> call[t].answer]
      BY <2>1, CallFields, Zenon DEF Inv
    <2>5. machine' = [n |-> n, stack |-> after]
      BY <2>1, <2>2 DEF Inv, TypeInv
    <2> HIDE DEF i, s, n, next, after, c
    <2>6. c.stage = "computing" /\ c.n = n /\ c.pc = next
      BY <2>4
    <2>7. machine'.n = n /\ machine'.stack = after
      BY <2>5
    <2> QED
      BY <2>1, <2>2, <2>3, <2>4, <2>5, <2>6, <2>7, OwnStep DEF n
  <1>5. ASSUME NEW t \in Thread, Finish(t)
        PROVE  Inv'
    <2> DEFINE n == call[t].n
               answer == String(machine.stack[1])
               c == [[call[t] EXCEPT !.stage = "answered"] EXCEPT !.answer = answer]
    <2>1. /\ call[t].stage = "computing" /\ call[t].pc >= Len(Program)
          /\ call' = [call EXCEPT ![t].stage = "answered", ![t].answer = answer]
          /\ machine' = machine /\ lock' = lock
      BY <1>5 DEF Finish, Answered
    <2>2. call' = [call EXCEPT ![t] = c]
      BY <2>1
    <2>3. /\ n \in Numbers /\ NeedsMachine(n)
          /\ call[t].pc \in DOMAIN LoneStack(n)
          /\ machine.stack = LoneStack(n)[call[t].pc]
      BY <2>1 DEF Inv, TypeInv, MachineIsMine
    <2>4. ~(call[t].pc < Len(Program))
      BY <2>1, <2>3, LoneCallAssumption DEF Computes
    <2>5. machine.stack[1] = Form(n)
      BY <2>3, <2>4, LoneCallAssumption DEF Computes
    <2>6. /\ c = [stage |-> "answered", n |-> n, pc |-> call[t].pc, answer |-> answer]
          /\ machine' = [n |-> machine'.n, stack |-> machine'.stack]
      <3>1. machine' = [n |-> machine'.n, stack |-> machine'.stack]
        BY <2>1 DEF Inv, TypeInv
      <3> QED
        BY <3>1, CallFields, Zenon DEF Inv
    <2>7. answer = String(Form(n))
      BY <2>5
    <2> HIDE DEF c, answer
    <2>8. c.stage = "answered" /\ c.n = n /\ c.answer = String(Form(n))
      BY <2>6, <2>7
    <2> QED
      BY <2>1, <2>2, <2>6, <2>8, OwnStep
  <1>6. ASSUME NEW t \in Thread, Return(t)
        PROVE  Inv'
    <2> DEFINE c == [call[t] EXCEPT !.stage = "idle"]
    <2>1. /\ call' = [call EXCEPT ![t] = c] /\ machine' = machine
          /\ lock' = IF lock = t THEN NoThread ELSE lock
      BY <1>6 DEF Return, Released
    <2>2. c = [stage |-> "idle", n |-> call[t].n, pc |-> call[t].pc,
               answer |-> call[t].answer]
      BY CallFields DEF Inv, TypeInv
    <2> HIDE DEF c
    <2>3. /\ call'[t] = c /\ \A u \in Thread \ {t} : call'[u] = call[u]
          /\ call' = [u \in Thread |-> call'[u]]
      BY <2>1, CallChange DEF Inv
    <2>4. TypeInv'
      <3>1. \A u \in Thread :
               /\ call'[u] = [stage |-> call'[u].stage, n |-> call'[u].n,
                              pc |-> call'[u].pc, answer |-> call'[u].answer]
               /\ call'[u].stage \in Stages
               /\ call'[u].stage # "idle" => call'[u].n \in Numbers
               /\ call'[u].stage = "looking" => call'[u].pc = 0
        BY <2>2, <2>3 DEF Inv, TypeInv, Stages
      <3> QED
        BY <2>1, <2>3, <3>1 DEF Inv, TypeInv
    <2>5. LockHeld'
      BY <2>1, <2>2, <2>3 DEF Inv, LockHeld
    <2>6. MachineIsMine'
      BY <2>1, <2>2, <2>3 DEF Inv, MachineIsMine
    <2>7. AnswersTheirOwnN'
      BY <2>2, <2>3 DEF Inv, AnswersTheirOwnN, String
    <2> QED
      BY <2>4, <2>5, <2>6, <2>7 DEF Inv
  <1>7. CASE UNCHANGED vars
    BY <1>7 DEF vars, Inv, TypeInv, LockHeld, MachineIsMine, AnswersTheirOwnN
  <1> QED
    BY <1>1, <1>2, <1>3, <1>4, <1>5, <1>6, <1>7 DEF Next, Step

\* In spite of the machine they share, every thread gets the string for its own n.
THEOREM OwnAnswers == Spec => []AnswersTheirOwnN
  BY InitInv, StepInv, PTL DEF Spec, Inv

\* No thread takes the operands of another.
THEOREM OperandsKept == Spec => []NobodyTakesOperands
  <1>1. Inv => NobodyTakesOperands
    <2> SUFFICES ASSUME Inv, NEW t \in Thread, call[t].stage = "computing"
                 PROVE  IF call[t].pc < Len(Program)
                        THEN Len(machine.stack) >= Takes(Program[call[t].pc + 1])
                        ELSE Len(machine.stack) = 1
      BY DEF NobodyTakesOperands
    <2> DEFINE n == call[t].n
    <2>1. /\ n \in Numbers /\ NeedsMachine(n)
          /\ call[t].pc \in DOMAIN LoneStack(n)
          /\ machine.stack = LoneStack(n)[call[t].pc]
      BY DEF Inv, TypeInv, MachineIsMine
    <2>2. Computes(Program, n, LoneStack(n), Form(n))
      BY <2>1, LoneCallAssumption
    <2> QED
      BY <2>1, <2>2 DEF Computes
  <1> QED
    BY <1>1, InitInv, StepInv, PTL DEF Spec
=============================================================================
