------------------------------ MODULE Descent ------------------------------
(***************************************************************************)
(* Facts about searches and recursive functions on positions.  The proofs  *)
(* about the grammars rest on them: a recursive definition means something *)
(* only if a function satisfies it, and that has to be shown first.        *)
(***************************************************************************)
EXTENDS Naturals, WellFoundedInduction, TLAPS

\* A set of numbers that is not empty has a least element.
LEMMA LeastNumber ==
    ASSUME NEW T \in SUBSET Nat, T # {}
    PROVE  \E q \in T : \A r \in T : q <= r
<1> DEFINE less == OpToRel(<, Nat)
<1>1. IsWellFoundedOn(less, Nat)
  BY NatLessThanWellFounded
<1>2. \A x, y \in Nat : x < y => <<x, y>> \in less
  BY DEF OpToRel
<1> HIDE DEF less
<1>3. PICK q \in T : \A r \in T : <<r, q>> \notin less
  BY <1>1, WFMin
<1>4. ASSUME NEW r \in T
      PROVE  q <= r
  <2>1. q \in Nat /\ r \in Nat /\ ~(r < q)
    BY <1>2, <1>3
  <2> QED BY <2>1
<1> QED BY <1>3, <1>4

\* A search from p on, up to and with a position, that fails before it.
LEMMA Least ==
    ASSUME NEW n \in Nat, NEW p \in 1..n, NEW T \in SUBSET Nat
    PROVE  \E q \in p..n : (q < n => q \in T) /\ \A r \in p..(q - 1) : r \notin T
<1> DEFINE U == {q \in p..n : q = n \/ q \in T}
<1>1. U \in SUBSET Nat /\ n \in U
  OBVIOUS
<1>2. PICK q \in U : \A r \in U : q <= r
  <2> HIDE DEF U
  <2> QED BY <1>1, LeastNumber
<1>3. ASSUME NEW r \in p..(q - 1)
      PROVE  r \notin T
  <2>1. r \in p..n /\ ~(q <= r)
    BY <1>2
  <2> QED BY <1>2, <2>1
<1> QED BY <1>2, <1>3

\* Each place of D is good if all places of lower rank are.
Inherits(Good, D, rank) ==
    /\ Good \subseteq D /\ rank \in [D -> Nat]
    /\ \A d \in D : (\A e \in D : rank[e] < rank[d] => e \in Good) => d \in Good

\* Then all places are.
LEMMA ByRank ==
    ASSUME NEW D, NEW rank, NEW Good, Inherits(Good, D, rank)
    PROVE  Good = D
<1> USE DEF Inherits
<1> SUFFICES ASSUME Good # D
             PROVE  FALSE
  OBVIOUS
<1> DEFINE Ranks == {rank[d] : d \in D \ Good}
<1>1. Ranks \in SUBSET Nat /\ Ranks # {}
  OBVIOUS
<1>2. PICK r \in Ranks : \A s \in Ranks : r <= s
  <2> HIDE DEF Ranks
  <2> QED BY <1>1, LeastNumber
<1>3. PICK d \in D \ Good : rank[d] = r
  BY <1>2
<1>4. ASSUME NEW e \in D, rank[e] < rank[d]
      PROVE  e \in Good
  <2>1. rank[e] \in Nat /\ r \in Nat /\ ~(r <= rank[e])
    BY <1>3, <1>4, <1>1, <1>2
  <2> QED BY <2>1, <1>2
<1> QED BY <1>3, <1>4

\* What a recursive definition on D with values in V is made of: where it stops
\* and with which value, where it looks elsewhere, and what it makes of the value
\* there.  The places have ranks, and it looks at places of lower rank.
Descends(D, V, stop, base, jump, step, rank, N) ==
    /\ N \in Nat /\ rank \in [D -> 0..N]
    /\ stop \in SUBSET D /\ base \in [D -> V] /\ jump \in [D -> D]
    /\ \A d \in D \ stop : rank[jump[d]] < rank[d]
    /\ step \in [D -> [V -> V]]

Solves(g, D, stop, base, jump, step) ==
    \A d \in D : g[d] = IF d \in stop THEN base[d] ELSE step[d][g[jump[d]]]

\* There is a function that satisfies such a definition.
LEMMA Recursion ==
    ASSUME NEW D, NEW V, NEW stop, NEW base, NEW jump, NEW step, NEW rank, NEW N,
           Descends(D, V, stop, base, jump, step, rank, N)
    PROVE  \E g \in [D -> V] : Solves(g, D, stop, base, jump, step)
<1> USE DEF Descends
<1> DEFINE Next(g, d) == IF d \in stop THEN base[d] ELSE step[d][g[jump[d]]]
           Below(m) == {d \in D : rank[d] < m}
           Undefined == {m \in Nat : ~ \E g \in [D -> V] : \A d \in Below(m) : g[d] = Next(g, d)}
<1>1. ASSUME NEW m \in Nat, NEW g \in [D -> V], \A d \in Below(m) : g[d] = Next(g, d)
      PROVE  m + 1 \notin Undefined
  <2> DEFINE h == [d \in D |-> IF d \in Below(m) THEN g[d] ELSE Next(g, d)]
  <2>1. \A d \in D : Next(g, d) \in V
    OBVIOUS
  <2>2. h \in [D -> V]
    BY <2>1
  <2>3. ASSUME NEW d \in Below(m + 1), d \notin stop
        PROVE  h[jump[d]] = g[jump[d]]
    <3>1. rank[jump[d]] < m /\ jump[d] \in D
      <4>1. rank[jump[d]] \in Nat /\ rank[d] \in Nat /\ rank[jump[d]] < rank[d] /\ rank[d] < m + 1
        BY <2>3
      <4> QED BY <4>1
    <3> QED BY <3>1
  <2>4. ASSUME NEW d \in Below(m + 1)
        PROVE  Next(h, d) = Next(g, d)
    BY <2>3, <2>4
  <2>5. ASSUME NEW d \in Below(m + 1)
        PROVE  h[d] = Next(h, d)
    <3>1. h[d] = Next(g, d)
      BY <1>1
    <3> QED BY <3>1, <2>4
  <2> QED BY <2>2, <2>5
<1>2. 0 \notin Undefined
  <2>1. base \in [D -> V] /\ Below(0) = {}
    OBVIOUS
  <2> QED BY <2>1
<1>3. Undefined = {}
  <2> SUFFICES ASSUME Undefined # {}
               PROVE  FALSE
    OBVIOUS
  <2>1. PICK k \in Undefined : \A r \in Undefined : k <= r
    <3>1. Undefined \in SUBSET Nat
      OBVIOUS
    <3> HIDE DEF Undefined
    <3> QED BY <3>1, LeastNumber
  <2>2. k \in Nat /\ k # 0 /\ k - 1 \in Nat /\ k - 1 \notin Undefined
    <3>1. k \in Nat /\ k # 0
      BY <1>2
    <3>2. k - 1 \in Nat /\ ~(k <= k - 1)
      BY <3>1
    <3> QED BY <3>1, <3>2, <2>1
  <2>3. PICK g \in [D -> V] : \A d \in Below(k - 1) : g[d] = Next(g, d)
    BY <2>2
  <2>4. (k - 1) + 1 \notin Undefined
    BY <1>1, <2>2, <2>3
  <2> QED BY <2>2, <2>4
<1>4. PICK g \in [D -> V] : \A d \in Below(N + 1) : g[d] = Next(g, d)
  <2>1. N + 1 \in Nat
    OBVIOUS
  <2>2. N + 1 \notin Undefined
    BY <1>3
  <2> QED BY <2>1, <2>2
<1>5. Below(N + 1) = D
  OBVIOUS
<1> QED BY <1>4, <1>5 DEF Solves

\* The kleene star and its like: from each position it goes on to the next one,
\* if there is one, and returns what base has at the last.
Steps(jump, base, n) ==
    /\ n \in Nat /\ jump \in [1..n -> 0..n]
    /\ \A q \in 1..n : jump[q] = 0 \/ q < jump[q]
    /\ base = [q \in 1..n |-> base[q]]

Iterates(g, jump, base, n) ==
    g = [q \in 1..n |-> IF jump[q] = 0 THEN base[q] ELSE g[jump[q]]]

\* There is such a function.
LEMMA Iteration ==
    ASSUME NEW n, NEW jump, NEW base, Steps(jump, base, n)
    PROVE  \E g : Iterates(g, jump, base, n)
<1> USE DEF Steps
<1> DEFINE D == 1..n
           V == {base[q] : q \in D}
           rank == [q \in D |-> n - q]
           stop == {q \in D : jump[q] = 0}
           forward == [q \in D |-> IF jump[q] = 0 THEN q ELSE jump[q]]
           step == [q \in D |-> [v \in V |-> v]]
<1>1. rank \in [D -> 0..n] /\ stop \in SUBSET D /\ base \in [D -> V] /\ step \in [D -> [V -> V]]
  OBVIOUS
<1>2. forward \in [D -> D]
  OBVIOUS
<1>3. \A q \in D \ stop : rank[forward[q]] < rank[q]
  <2> SUFFICES ASSUME NEW q \in D \ stop
               PROVE  rank[forward[q]] < rank[q]
    OBVIOUS
  <2>1. jump[q] \in 1..n /\ q < jump[q] /\ q \in 1..n /\ forward[q] = jump[q]
    OBVIOUS
  <2>2. rank[q] = n - q /\ rank[forward[q]] = n - jump[q]
    BY <2>1
  <2> QED BY <2>1, <2>2
<1>4. PICK g \in [D -> V] : Solves(g, D, stop, base, forward, step)
  <2> HIDE DEF D, V, rank, stop, forward, step
  <2>1. Descends(D, V, stop, base, forward, step, rank, n)
    BY <1>1, <1>2, <1>3 DEF Descends
  <2> QED BY <2>1, Recursion
<1>5. ASSUME NEW q \in D
      PROVE  g[q] = IF jump[q] = 0 THEN base[q] ELSE g[jump[q]]
  <2>0. g[q] = IF q \in stop THEN base[q] ELSE step[q][g[forward[q]]]
    BY <1>4 DEF Solves
  <2>1. CASE jump[q] = 0
    BY <2>0, <2>1
  <2>2. CASE jump[q] # 0
    <3>1. q \notin stop /\ forward[q] = jump[q] /\ jump[q] \in D /\ g[jump[q]] \in V
      BY <2>2
    <3>2. g[q] = step[q][g[forward[q]]]
      BY <2>0, <3>1
    <3>3. step[q][g[jump[q]]] = g[jump[q]]
      BY <3>1
    <3> QED BY <2>2, <3>1, <3>2, <3>3
  <2> QED BY <2>1, <2>2
<1>6. Iterates(g, jump, base, n)
  BY <1>5 DEF Iterates
<1> QED BY <1>6

\* What is true of the last position, and of each from which it goes on to one of
\* which it is true, is true of all of them.
LEMMA Backwards ==
    ASSUME NEW n \in Nat, NEW jump, NEW Good \in SUBSET (1..n),
           \A q \in 1..n : jump[q] = 0 \/ jump[q] \in (q + 1)..n,
           \A q \in 1..n : jump[q] = 0 \/ jump[q] \in Good => q \in Good
    PROVE  Good = 1..n
<1> DEFINE D == 1..n
           rank == [q \in D |-> n - q]
<1>1. \A q \in D : (\A e \in D : rank[e] < rank[q] => e \in Good) => q \in Good
  <2> SUFFICES ASSUME NEW q \in D, \A e \in D : rank[e] < rank[q] => e \in Good,
                      jump[q] \in (q + 1)..n
               PROVE  jump[q] \in Good
    OBVIOUS
  <2>1. jump[q] \in D /\ rank[jump[q]] < rank[q]
    OBVIOUS
  <2> QED BY <2>1
<1>2. Good \in SUBSET D /\ rank \in [D -> Nat]
  OBVIOUS
<1>3. Inherits(Good, D, rank)
  <2> HIDE DEF D, rank
  <2> QED BY <1>1, <1>2 DEF Inherits
<1> HIDE DEF rank
<1> QED BY <1>3, ByRank
=============================================================================
