-------------------------------- MODULE Loops --------------------------------
(***************************************************************************)
(* What the proofs need of a loop over a slice, which the models write as  *)
(* a recursive function of the number of turns: that there is such a       *)
(* function, and that what each turn keeps holds after the last.  The      *)
(* induction is over a set of naturals: of the provers none can            *)
(* instantiate one over an operator.                                       *)
(***************************************************************************)
EXTENDS Integers, WellFoundedInduction, TLAPS

\* Every set of naturals that has any has a least.
LEMMA LeastNatural ==
  ASSUME NEW T, T \subseteq Nat, T # {}
  PROVE  \E x \in T : \A y \in T : x <= y
<1>1. PICK x \in T : \A y \in T : ~(<<y, x>> \in OpToRel(<, Nat))
  BY NatLessThanWellFounded, WFMin
<1>2. ASSUME NEW y \in T PROVE x <= y
  <2>1. x \in Nat /\ y \in Nat
    OBVIOUS
  <2>2. y < x => <<y, x>> \in OpToRel(<, Nat)
    BY <2>1 DEF OpToRel
  <2>3. ~(<<y, x>> \in OpToRel(<, Nat))
    BY <1>1
  <2>4. ~(y < x)
    BY <2>2, <2>3
  <2>. QED  BY <2>1, <2>4
<1>. QED  BY <1>2

\* Induction over the naturals, for a set of them.
LEMMA SetInduction ==
  ASSUME NEW P, 0 \in P, \A n \in Nat : n \in P => n + 1 \in P
  PROVE  Nat \subseteq P
<1> SUFFICES ASSUME Nat \ P # {} PROVE FALSE
  OBVIOUS
<1>1. PICK n \in Nat \ P : \A m \in Nat \ P : n <= m
  <2>. DEFINE T == Nat \ P
  <2>1. T \subseteq Nat /\ T # {}
    OBVIOUS
  <2>. HIDE DEF T
  <2>2. \E x \in T : \A y \in T : x <= y
    BY <2>1, LeastNatural
  <2>. QED  BY <2>2 DEF T
<1>2. n # 0 /\ n - 1 \in Nat
  OBVIOUS
<1>3. n - 1 \in P
  BY <1>1, <1>2
<1>. QED  BY <1>2, <1>3

\* Every set of indices that has any has a greatest.
LEMMA GreatestIndex ==
  ASSUME NEW n \in Nat, NEW A, A \subseteq 1 .. n, A # {}
  PROVE  \E i \in A : \A j \in A : j <= i
<1>. DEFINE T == {m \in Nat : \A j \in A : j <= m}
<1>1. T \subseteq Nat /\ n \in T
  OBVIOUS
<1>2. \E x \in T : \A y \in T : x <= y
  <2>. HIDE DEF T
  <2>. QED  BY <1>1, LeastNatural
<1>3. PICK x \in T : \A y \in T : x <= y
  BY <1>2
<1>4. x \in A
  <2>1. SUFFICES ASSUME x \notin A PROVE FALSE
    OBVIOUS
  <2>2. \A j \in A : j <= x - 1 /\ j >= 1 /\ j \in Int
    BY <1>3, <2>1
  <2>3. x - 1 \in Nat /\ x \in Nat
    <3>1. PICK j : j \in A
      OBVIOUS
    <3>2. x \in Nat /\ j \in Int /\ j >= 1 /\ j <= x - 1
      BY <1>3, <2>2, <3>1
    <3>. QED  BY <3>2
  <2>4. x - 1 \in T
    <3>1. \A m \in Nat : (\A j \in A : j <= m) => m \in T
      OBVIOUS
    <3>. HIDE DEF T
    <3>. QED  BY <2>2, <2>3, <3>1
  <2>. QED  BY <1>3, <2>3, <2>4
<1>. QED  BY <1>3, <1>4

\* The functions of the turns of a loop of n turns over the values of S.
Loops(n, S, base, step) ==
  {g \in [0 .. n -> S] : g[0] = base /\ \A i \in 1 .. n : g[i] = step[<<i, g[i-1]>>]}

\* There is one for every number of turns, base and step.
LEMMA LoopExists ==
  ASSUME NEW n \in Nat, NEW S, NEW base \in S, NEW step \in [(1 .. n) \X S -> S]
  PROVE  \E g : g \in Loops(n, S, base, step)
<1>. DEFINE IsLoop(g, m) == g[0] = base /\ \A i \in 1 .. m : g[i] = step[<<i, g[i-1]>>]
            P == {m \in Nat : m <= n => \E g \in [0 .. m -> S] : IsLoop(g, m)}
<1>1. 0 \in P
  <2>. DEFINE g == [i \in 0 .. 0 |-> base]
  <2>1. g \in [0 .. 0 -> S] /\ IsLoop(g, 0)
    OBVIOUS
  <2>. QED  BY <2>1
<1>2. ASSUME NEW m \in Nat, m \in P PROVE m + 1 \in P
  <2> SUFFICES ASSUME m + 1 <= n PROVE \E h \in [0 .. m + 1 -> S] : IsLoop(h, m + 1)
    OBVIOUS
  <2>1. PICK g \in [0 .. m -> S] : IsLoop(g, m)
    BY <1>2
  <2>. DEFINE h == [i \in 0 .. m + 1 |-> IF i <= m THEN g[i] ELSE step[<<m + 1, g[m]>>]]
  <2>2. <<m + 1, g[m]>> \in (1 .. n) \X S
    BY <2>1
  <2>3. step[<<m + 1, g[m]>>] \in S
    BY <2>2
  <2>4. h \in [0 .. m + 1 -> S]
    BY <2>3
  <2>5. ASSUME NEW i \in 1 .. m + 1 PROVE h[i] = step[<<i, h[i-1]>>]
    <3>1. CASE i <= m
      BY <2>1, <3>1
    <3>2. CASE i = m + 1
      <4>1. h[i] = step[<<m + 1, g[m]>>] /\ h[i-1] = g[m]
        BY <3>2
      <4>. QED  BY <3>2, <4>1
    <3>. QED  BY <3>1, <3>2
  <2>6. h[0] = base
    BY <2>1
  <2>. QED  BY <2>4, <2>5, <2>6
<1>. HIDE DEF P
<1>3. n \in P
  BY <1>1, <1>2, SetInduction
<1>. QED  BY <1>3 DEF P, Loops

\* What the first value has and every turn keeps, all values have.
LEMMA LoopType ==
  ASSUME NEW n \in Nat, NEW S, NEW h, h[0] \in S,
         \A i \in 1 .. n : h[i-1] \in S => h[i] \in S
  PROVE  \A i \in 0 .. n : h[i] \in S
<1>. DEFINE P == {i \in Nat : i <= n => h[i] \in S}
<1>1. 0 \in P
  OBVIOUS
<1>2. \A i \in Nat : i \in P => i + 1 \in P
  OBVIOUS
<1>3. Nat \subseteq P
  <2>. HIDE DEF P
  <2>. QED  BY <1>1, <1>2, SetInduction
<1>. QED  BY <1>3
=============================================================================
