----------------------------- MODULE Iteration -----------------------------
(***************************************************************************)
(* Induction as the provers can use it, over a set of numbers instead of a *)
(* predicate, and the run of a loop: what the proofs about the recursive   *)
(* definitions of Codec rest on.                                           *)
(***************************************************************************)
EXTENDS Integers, Sequences, WellFoundedInduction, TLAPS

\* a set of natural numbers that is not empty has a least element
LEMMA Least ==
  ASSUME NEW T \in SUBSET Nat, T # {}
  PROVE  \E n \in T : \A m \in T : n <= m
  <1>1. IsWellFoundedOn(OpToRel(<, Nat), Nat)
    BY NatLessThanWellFounded
  <1>2. PICK n \in T : \A m \in T : ~(<<m, n>> \in OpToRel(<, Nat))
    BY <1>1, WFMin
  <1>3. \A m \in T : ~(m < n)
    <2> SUFFICES ASSUME NEW m \in T, m < n PROVE FALSE
      OBVIOUS
    <2>1. <<m, n>> \in Nat \X Nat
      OBVIOUS
    <2>2. <<m, n>>[1] = m /\ <<m, n>>[2] = n
      OBVIOUS
    <2>3. <<m, n>> \in OpToRel(<, Nat)
      BY <2>1, <2>2 DEF OpToRel
    <2> QED BY <1>2, <2>3
  <1>4. \A m \in T : n <= m
    BY <1>3
  <1> QED BY <1>4

\* induction over a set: the operator version of NaturalsInduction is out of the
\* provers' reach, a set is not
LEMMA Induction ==
   ASSUME NEW T \in SUBSET Nat, 0 \in T, \A n \in T : n + 1 \in T
   PROVE  T = Nat
  <1> SUFFICES ASSUME Nat \ T # {} PROVE FALSE
    OBVIOUS
  <1>1. PICK n \in Nat \ T : \A m \in Nat \ T : n <= m
    <2>1. Nat \ T \in SUBSET Nat
      OBVIOUS
    <2> QED BY <2>1, Least
  <1>2. n # 0 /\ n - 1 \in Nat /\ ~(n <= n - 1)
    OBVIOUS
  <1>3. n - 1 \in T /\ (n - 1) + 1 = n
    BY <1>1, <1>2
  <1> QED BY <1>1, <1>3

\* induction over the steps 0..len of a loop
LEMMA UpTo ==
  ASSUME NEW len \in Nat, NEW T, 0 \in T, \A i \in 0..(len - 1) : i \in T => i + 1 \in T
  PROVE  \A i \in 0..len : i \in T
  <1> DEFINE U == {n \in Nat : n <= len => n \in T}
  <1>1. U \in SUBSET Nat /\ 0 \in U
    OBVIOUS
  <1>2. \A n \in U : n + 1 \in U
    OBVIOUS
  <1>3. U = Nat
    <2> HIDE DEF U
    <2> QED BY <1>1, <1>2, Induction
  <1> QED BY <1>3

\* f holds the state before the loop and after each of its len steps
IsRun(f, s0, len, next) == f[0] = s0 /\ \A i \in 1..len : f[i] = next[i][f[i - 1]]

\* a loop that goes from state to state has a run: the function that holds the state
\* after each step exists, so a recursive definition of it defines something
LEMMA Run ==
  ASSUME NEW S, NEW s0 \in S, NEW len \in Nat, NEW next \in [1..len -> [S -> S]]
  PROVE  \E f \in [0..len -> S] : IsRun(f, s0, len, next)
  <1> USE DEF IsRun
  <1> DEFINE Good(f, n) == f[0] = s0 /\ \A i \in 1..n : f[i] = next[i][f[i - 1]]
             T == {n \in Nat : \E f \in [0..n -> S] : Good(f, n)}
  <1>1. 0 \in T
    <2> DEFINE f == [i \in 0..0 |-> s0]
    <2>1. f \in [0..0 -> S] /\ f[0] = s0
      OBVIOUS
    <2>2. Good(f, 0)
      BY <2>1
    <2> QED BY <2>1, <2>2
  <1>2. \A n \in 0..(len - 1) : n \in T => n + 1 \in T
    <2> SUFFICES ASSUME NEW n \in 0..(len - 1), n \in T PROVE n + 1 \in T
      OBVIOUS
    <2>1. PICK f \in [0..n -> S] : Good(f, n)
      OBVIOUS
    <2>2. n \in Nat /\ next[n + 1][f[n]] \in S
      OBVIOUS
    <2> DEFINE s == next[n + 1][f[n]]
    <2> HIDE DEF s
    <2> DEFINE g == [i \in 0..(n + 1) |-> IF i = n + 1 THEN s ELSE f[i]]
    <2>3. g \in [0..(n + 1) -> S] /\ g[n + 1] = s /\ \A i \in 0..n : g[i] = f[i]
      <3>1. s \in S
        BY <2>2 DEF s
      <3>2. \A i \in 0..(n + 1) : i # n + 1 => i \in 0..n
        BY <2>2
      <3>3. n + 1 \in 0..(n + 1) /\ \A i \in 0..n : i \in 0..(n + 1) /\ i # n + 1
        BY <2>2
      <3> HIDE DEF T, Good
      <3>4. g \in [0..(n + 1) -> S]
        BY <3>1, <3>2
      <3> QED BY <3>3, <3>4
    <2> HIDE DEF g
    <2>4. g[0] = s0
      BY <2>2, <2>1, <2>3
    <2>5. ASSUME NEW i \in 1..(n + 1) PROVE g[i] = next[i][g[i - 1]]
      <3>1. i - 1 \in 0..n /\ g[i - 1] = f[i - 1]
        BY <2>3
      <3>2. CASE i = n + 1
        BY <3>1, <3>2, <2>3 DEF s
      <3>3. CASE i # n + 1
        <4>1. i \in 1..n /\ i \in 0..n
          BY <3>3
        <4> QED BY <4>1, <3>1, <2>1, <2>3
      <3> QED BY <3>2, <3>3
    <2>6. Good(g, n + 1)
      BY <2>4, <2>5
    <2>7. \E h \in [0..(n + 1) -> S] : Good(h, n + 1)
      <3> HIDE DEF Good, T
      <3> QED BY <2>3, <2>6, Zenon
    <2> QED BY <2>2, <2>7
  <1>3. len \in T
    <2> HIDE DEF T
    <2>1. \A i \in 0..len : i \in T
      BY <1>1, <1>2, UpTo, Zenon
    <2> QED BY <2>1
  <1> QED BY <1>3
=============================================================================
