-------------------------- MODULE Recursion_proofs --------------------------
(***************************************************************************)
(* Induction over the naturals for a set, and what follows of a recursive  *)
(* function over an interval.  A theorem that takes a set can be used      *)
(* where one that takes a predicate cannot.                                *)
(***************************************************************************)
EXTENDS Naturals, WellFoundedInduction, TLAPS

\* Numbers have a least one among them.
LEMMA LeastOfNat ==
  ASSUME NEW T \in SUBSET Nat, T # {}
  PROVE  \E x \in T : \A y \in T : ~(y < x)
  <1>1. PICK x \in T : \A y \in T : ~(<<y, x>> \in OpToRel(<, Nat))
    BY WFMin, NatLessThanWellFounded, Zenon
  <1>2. \A y \in T : ~(y < x)
    BY <1>1 DEF OpToRel
  <1> QED BY <1>2

\* A set with 0 in it, and with n + 1 for every n in it, holds every natural number.
LEMMA NatSetInduction ==
  ASSUME NEW T, 0 \in T, \A n \in Nat : n \in T => n + 1 \in T
  PROVE  Nat \subseteq T
  <1> DEFINE U == Nat \ T
  <1>1. SUFFICES ASSUME U # {} PROVE FALSE
    OBVIOUS
  <1>2. PICK x \in U : \A y \in U : ~(y < x)
    BY <1>1, LeastOfNat
  <1> QED BY <1>2

\* f is what a recursion makes of start, taking step for the next one.
Recurs(f, n, S, start, step) ==
  /\ f \in [0 .. n -> S]
  /\ f[0] = start
  /\ \A i \in 1 .. n : f[i] = step[<<i, f[i - 1]>>]

\* A recursion over an interval has a solution: start, and step for the next one.
LEMMA RecursionSolved ==
  ASSUME NEW n \in Nat, NEW S, NEW start \in S, NEW step \in [(1 .. n) \X S -> S]
  PROVE  \E f : Recurs(f, n, S, start, step)
  <1> DEFINE Solves(f, k) ==
               f[0] = start /\ \A i \in 1 .. k : f[i] = step[<<i, f[i - 1]>>]
             T == {k \in Nat : k <= n => \E f \in [0 .. k -> S] : Solves(f, k)}
  <1>1. 0 \in T
    <2>1. [i \in 0 .. 0 |-> start] \in [0 .. 0 -> S] /\ Solves([i \in 0 .. 0 |-> start], 0)
      OBVIOUS
    <2> QED BY <2>1
  <1>2. ASSUME NEW k \in Nat, k \in T PROVE k + 1 \in T
    <2>1. SUFFICES ASSUME k + 1 <= n PROVE \E f \in [0 .. k + 1 -> S] : Solves(f, k + 1)
      OBVIOUS
    <2>2. PICK f \in [0 .. k -> S] : Solves(f, k)
      BY <1>2, <2>1
    <2> DEFINE g == [i \in 0 .. k + 1 |-> IF i <= k THEN f[i] ELSE step[<<k + 1, f[k]>>]]
    <2>3. step[<<k + 1, f[k]>>] \in S
      BY <2>1
    <2>4. g \in [0 .. k + 1 -> S]
      BY <2>3
    <2>5. Solves(g, k + 1)
      <3>1. g[0] = start
        BY <2>2
      <3>2. ASSUME NEW i \in 1 .. k + 1 PROVE g[i] = step[<<i, g[i - 1]>>]
        <4>1. g[i - 1] = f[i - 1]
          OBVIOUS
        <4>2. CASE i = k + 1
          <5>1. g[k + 1] = step[<<k + 1, f[k]>>] /\ i - 1 = k
            BY <4>2
          <5> HIDE DEF g
          <5> QED BY <4>1, <4>2, <5>1
        <4>3. CASE i # k + 1
          <5>1. i \in 1 .. k /\ g[i] = f[i]
            BY <4>3
          <5> HIDE DEF g
          <5> QED BY <2>2, <4>1, <5>1
        <4> QED BY <4>2, <4>3
      <3> HIDE DEF g
      <3> QED BY <3>1, <3>2
    <2> HIDE DEF g
    <2> QED BY <2>4, <2>5
  <1>3. n \in T
    <2> HIDE DEF T
    <2> QED BY <1>1, <1>2, NatSetInduction
  <1> QED BY <1>3 DEF Recurs

=============================================================================
