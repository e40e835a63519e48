---------------------------- MODULE StartupProofs ----------------------------
(***************************************************************************)
(* Theorems about Startup, for every set of command lines and files.  The  *)
(* inductive invariant says of each phase what it has made of its input:   *)
(* LoadedOnce of the file, ParsedSoFar of the arguments behind, whose last *)
(* occurrences stand, SelectedWell of the scenarios, SharedWell of the     *)
(* labels.  What the loops of Distribute and of the rule of one default    *)
(* return for every input is proved by induction over their turns.         *)
(***************************************************************************)
EXTENDS Startup, Loops, FiniteSetTheorems, TLAPS

\* The keys of maps of weights: any string, and those that the code writes itself, since
\* the provers do not know of a literal that it is a string.
Strings ==
  STRING \cup {"", "default", "headless", "node-port", "istio", "istio-quick-smoke"}

\* Weights, with these keys.
Keyed == {w \in Seq([key : Strings, weight : Int]) :
            \A i, j \in DOMAIN w : w[i].key = w[j].key => i = j}

\* Every map of weights has its keys in Strings.
LEMMA WeightsKeyed == Weights \subseteq Keyed
<1>1. \A r \in [key : STRING, weight : Int] : r \in [key : Strings, weight : Int]
  BY DEF Strings
<1>. DEFINE R == [key : STRING, weight : Int]  Q == [key : Strings, weight : Int]
<1>2. R \subseteq Q
  BY <1>1
<1>. HIDE DEF R, Q
<1>3. \A w \in Seq(R) : w \in Seq(Q)
  BY <1>2
<1>. QED  BY <1>3 DEF Weights, Keyed, R, Q

LEMMA WeightsFacts ==
  ASSUME NEW w \in Keyed
  PROVE  /\ Len(w) \in Nat /\ DOMAIN w = 1 .. Len(w)
         /\ \A i \in 1 .. Len(w) : w[i].key \in Strings /\ w[i].weight \in Int
         /\ \A i, j \in 1 .. Len(w) : w[i].key = w[j].key => i = j
<1>1. w \in Seq([key : Strings, weight : Int]) /\ \A i, j \in DOMAIN w : w[i].key = w[j].key => i = j
  BY DEF Keyed
<1>2. Len(w) \in Nat /\ DOMAIN w = 1 .. Len(w)
  BY <1>1
<1>3. \A i \in 1 .. Len(w) : w[i] \in [key : Strings, weight : Int]
  <2>. DEFINE R == [key : Strings, weight : Int]
  <2>1. w \in Seq(R)
    BY <1>1
  <2>. HIDE DEF R
  <2>2. \A i \in 1 .. Len(w) : w[i] \in R
    BY <2>1
  <2>. QED  BY <2>2 DEF R
<1>. QED  BY <1>1, <1>2, <1>3

\* The sum of the weights, turn by turn.
LEMMA TotalLoop ==
  ASSUME NEW w \in Keyed
  PROVE  \E g \in [0 .. Len(w) -> Int] :
           /\ g[0] = 0 /\ Total(w) = g[Len(w)]
           /\ \A i \in 1 .. Len(w) : g[i] = g[i-1] + w[i].weight
<1>. DEFINE n == Len(w)
            S == Int
            base == 0
            step == [p \in (1 .. n) \X Int |-> p[2] + w[p[1]].weight]
<1>1. n \in Nat /\ \A i \in 1 .. n : w[i].weight \in Int
  BY WeightsFacts
<1>2. base \in S /\ step \in [(1 .. n) \X S -> S]
  BY <1>1
<1>3. PICK g : g \in Loops(n, S, base, step)
  <2>. HIDE DEF n, S, base, step
  <2>. QED  BY <1>1, <1>2, LoopExists
<1>4. g \in [0 .. n -> Int] /\ g[0] = 0 /\ \A i \in 1 .. n : g[i] = step[<<i, g[i-1]>>]
  BY <1>3 DEF Loops
<1>5. ASSUME NEW i \in 1 .. n PROVE g[i] = g[i-1] + w[i].weight
  <2>1. g[i-1] \in Int
    BY <1>1, <1>4
  <2>2. step[<<i, g[i-1]>>] = g[i-1] + w[i].weight
    BY <2>1
  <2>. HIDE DEF step
  <2>. QED  BY <1>4, <2>2
<1>. HIDE DEF step
<1>. DEFINE F(f) == [i \in 0 .. Len(w) |-> IF i = 0 THEN 0 ELSE f[i-1] + w[i].weight]
            h == CHOOSE f : f = F(f)
<1>6. g = F(g)
  BY <1>1, <1>4, <1>5
<1>7. h = F(h)
  BY <1>6
<1>8. Total(w) = h[n]
  BY DEF Total
<1>. HIDE DEF h
<1>9. h[0] = 0 /\ \A i \in 1 .. n : h[i] = h[i-1] + w[i].weight
  BY <1>1, <1>7
<1>10. DOMAIN h = 0 .. n /\ h = [i \in 0 .. n |-> h[i]]
  BY <1>7
<1>11. h[0] \in Int /\ \A i \in 1 .. n : h[i-1] \in Int => h[i] \in Int
  BY <1>1, <1>9
<1>12. \A i \in 0 .. n : h[i] \in Int
  <2>. HIDE DEF n
  <2>. QED  BY <1>1, <1>11, LoopType
<1>13. h \in [0 .. n -> Int]
  BY <1>10, <1>12
<1>. HIDE DEF F
<1>. QED  BY <1>8, <1>9, <1>13

LEMMA CopiesFacts ==
  ASSUME NEW k \in Strings, NEW m \in Int
  PROVE  /\ Copies(k, m) \in Seq(Strings) /\ Len(Copies(k, m)) = Greater(m, 0)
         /\ \A i \in 1 .. Len(Copies(k, m)) : Copies(k, m)[i] = k
<1>. DEFINE c == Greater(m, 0)
<1>1. c \in Nat
  BY DEF Greater
<1>. HIDE DEF c
<1>2. Copies(k, m) = [i \in 1 .. c |-> k]
  BY DEF Copies, c
<1>3. Copies(k, m) \in Seq(Strings) /\ Len(Copies(k, m)) = c /\ \A i \in 1 .. c : Copies(k, m)[i] = k
  <2>. DEFINE S == Strings
  <2>1. k \in S
    OBVIOUS
  <2>. HIDE DEF S
  <2>2. Copies(k, m) \in [1 .. c -> S]
    BY <1>2, <2>1
  <2>. DEFINE f == Copies(k, m)
  <2>3. f \in Seq(S) /\ Len(f) = c
    <3>. HIDE DEF f
    <3>1. c \in Nat /\ f \in [1 .. c -> S]
      BY <1>1, <2>2 DEF f
    <3>2. f \in Seq(S)
      BY <3>1
    <3>. QED  BY <3>1, <3>2
  <2>4. \A i \in 1 .. c : Copies(k, m)[i] = k
    BY <1>2
  <2>. QED  BY <2>3, <2>4 DEF S
<1>. QED  BY <1>3 DEF c

LEMMA QuoFacts ==
  ASSUME NEW a \in Int, NEW b \in Int, b # 0
  PROVE  /\ Quo(a, b) \in Int
         /\ a >= 0 /\ b > 0 => Quo(a, b) \in Nat /\ Quo(a, b) * b <= a /\ a < (Quo(a, b) + 1) * b
<1>1. Abs(a) \in Nat /\ Abs(b) \in Nat \ {0}
  BY DEF Abs
<1>2. \A x \in Nat, y \in Nat \ {0} : x \div y \in Nat /\ (x \div y) * y <= x /\ x < (x \div y + 1) * y
  OBVIOUS
<1>3. Quo(a, b) \in Int
  BY <1>1, <1>2 DEF Quo
<1>4. ASSUME a >= 0, b > 0 PROVE Quo(a, b) = a \div b
  BY <1>4 DEF Quo, Abs
<1>. QED  BY <1>2, <1>3, <1>4

LEMMA ShareFacts ==
  ASSUME NEW w \in Keyed, NEW n \in Int, Total(w) # 0, NEW i \in 1 .. Len(w)
  PROVE  /\ Total(w) \in Int /\ Share(w[i], n, w) \in Int
         /\ n >= 0 /\ w[i].weight >= 0 /\ Total(w) > 0 =>
              /\ Share(w[i], n, w) \in Nat
              /\ Share(w[i], n, w) * Total(w) <= w[i].weight * n
              /\ w[i].weight * n < (Share(w[i], n, w) + 1) * Total(w)
<1>1. Total(w) \in Int
  BY TotalLoop, WeightsFacts
<1>2. w[i].weight \in Int /\ w[i].weight * n \in Int
  BY WeightsFacts
<1>3. n >= 0 /\ w[i].weight >= 0 => w[i].weight * n >= 0
  BY <1>2
<1>. QED  BY <1>1, <1>2, <1>3, QuoFacts DEF Share

\* The labels that the first i keys make, for each i.
LEMMA SharesLoop ==
  ASSUME NEW w \in Keyed, NEW n \in Int, Total(w) # 0
  PROVE  \E g \in [0 .. Len(w) -> Seq(Strings)] :
           /\ g[0] = <<>> /\ Shares(n, w) = g[Len(w)]
           /\ \A i \in 1 .. Len(w) : g[i] = g[i-1] \o Copies(w[i].key, Share(w[i], n, w))
<1>. DEFINE m == Len(w)
            S == Seq(Strings)
            base == <<>>
            C(i) == Copies(w[i].key, Share(w[i], n, w))
            step == [p \in (1 .. m) \X S |-> p[2] \o C(p[1])]
<1>1. m \in Nat /\ \A i \in 1 .. m : C(i) \in S
  BY WeightsFacts, ShareFacts, CopiesFacts
<1>. HIDE DEF C
<1>2. base \in S /\ step \in [(1 .. m) \X S -> S]
  BY <1>1
<1>3. PICK g : g \in Loops(m, S, base, step)
  <2>. HIDE DEF m, S, base, step
  <2>. QED  BY <1>1, <1>2, LoopExists
<1>4. g \in [0 .. m -> S] /\ g[0] = <<>> /\ \A i \in 1 .. m : g[i] = step[<<i, g[i-1]>>]
  BY <1>3 DEF Loops
<1>5. ASSUME NEW i \in 1 .. m PROVE g[i] = g[i-1] \o C(i)
  <2>1. g[i-1] \in S
    BY <1>1, <1>4
  <2>2. step[<<i, g[i-1]>>] = g[i-1] \o C(i)
    BY <2>1
  <2>. HIDE DEF step
  <2>. QED  BY <1>4, <2>2
<1>. HIDE DEF step
<1>. DEFINE F(f) == [i \in 0 .. Len(w) |-> IF i = 0 THEN <<>> ELSE f[i-1] \o C(i)]
            h == CHOOSE f : f = F(f)
<1>6. g = F(g)
  BY <1>1, <1>4, <1>5
<1>7. h = F(h)
  BY <1>6
<1>8. Shares(n, w) = h[m]
  BY DEF Shares, C
<1>. HIDE DEF h
<1>9. h[0] = <<>> /\ \A i \in 1 .. m : h[i] = h[i-1] \o C(i)
  <2>1. h[0] = <<>>
    BY <1>1, <1>7
  <2>2. ASSUME NEW i \in 1 .. m PROVE h[i] = h[i-1] \o C(i)
    <3>1. i \in 0 .. Len(w) /\ i # 0
      BY <1>1
    <3>. QED  BY <1>7, <3>1
  <2>. QED  BY <2>1, <2>2
<1>10. DOMAIN h = 0 .. m /\ h = [i \in 0 .. m |-> h[i]]
  BY <1>7
<1>11. h[0] \in S /\ \A i \in 1 .. m : h[i-1] \in S => h[i] \in S
  <2>1. ASSUME NEW i \in 1 .. m, h[i-1] \in S PROVE h[i] \in S
    <3>1. C(i) \in S /\ h[i] = h[i-1] \o C(i)
      BY <1>1, <1>9
    <3>. QED  BY <2>1, <3>1
  <2>. QED  BY <1>2, <1>9, <2>1
<1>12. \A i \in 0 .. m : h[i] \in S
  <2>. HIDE DEF m, S
  <2>. QED  BY <1>1, <1>11, LoopType
<1>13. h \in [0 .. m -> S]
  BY <1>10, <1>12
<1>. HIDE DEF F
<1>. QED  BY <1>8, <1>9, <1>13 DEF C

\* What Distribute returns has a label for each object at least, whatever the weights.
LEMMA DistributedSuffices ==
  ASSUME NEW w \in Keyed, NEW n \in Int, n # 0, w # <<>>, Total(w) # 0
  PROVE  Distributed(n, w) \in Seq(Strings) /\ Len(Distributed(n, w)) >= n
<1>1. Len(w) \in Nat /\ Len(w) # 0 /\ w[Len(w)].key \in Strings
  <2>. DEFINE R == [key : Strings, weight : Int]
  <2>1. w \in Seq(R)
    BY DEF Keyed
  <2>. HIDE DEF R
  <2>2. Len(w) # 0
    BY <2>1
  <2>. QED  BY <2>2, WeightsFacts
<1>2. Shares(n, w) \in Seq(Strings)
  <2>1. PICK g \in [0 .. Len(w) -> Seq(Strings)] : Shares(n, w) = g[Len(w)]
    BY SharesLoop
  <2>. QED  BY <1>1, <2>1
<1>. DEFINE last == w[Len(w)].key
            rest == Copies(last, n - Len(Shares(n, w)))
<1>3. rest \in Seq(Strings) /\ Len(rest) = Greater(n - Len(Shares(n, w)), 0)
  <2>1. last \in Strings /\ n - Len(Shares(n, w)) \in Int
    BY <1>1, <1>2
  <2>. QED  BY <2>1, CopiesFacts
<1>4. Distributed(n, w) = Shares(n, w) \o rest
  BY DEF Distributed
<1>. HIDE DEF rest
<1>. QED  BY <1>2, <1>3, <1>4 DEF Greater

\* Defaults: all that are marked, and only those.
LEMMA DefaultsFacts ==
  ASSUME NEW S, NEW scenarios \in Seq(S)
  PROVE  /\ Defaults(scenarios) \in Seq(S) /\ Len(Defaults(scenarios)) <= Len(scenarios)
         /\ \A i \in 1 .. Len(scenarios) : IsDefault(scenarios[i]) =>
              \E j \in 1 .. Len(Defaults(scenarios)) : Defaults(scenarios)[j] = scenarios[i]
         /\ \A j \in 1 .. Len(Defaults(scenarios)) :
              \E i \in 1 .. Len(scenarios) : Defaults(scenarios)[j] = scenarios[i]
<1>. DEFINE m == Len(scenarios)
            Q == Seq(S)
            base == <<>>
            Add(q, i) == IF IsDefault(scenarios[i]) THEN Append(q, scenarios[i]) ELSE q
            step == [p \in (1 .. m) \X Q |-> Add(p[2], p[1])]
<1>1. m \in Nat /\ \A i \in 1 .. m : scenarios[i] \in S
  OBVIOUS
<1>2. base \in Q /\ \A q \in Q, i \in 1 .. m : Add(q, i) \in Q
  BY <1>1
<1>. HIDE DEF Add
<1>3. step \in [(1 .. m) \X Q -> Q]
  BY <1>2
<1>4. PICK g : g \in Loops(m, Q, base, step)
  <2>. HIDE DEF m, Q, base, step
  <2>. QED  BY <1>1, <1>2, <1>3, LoopExists
<1>5. g \in [0 .. m -> Q] /\ g[0] = <<>> /\ \A i \in 1 .. m : g[i] = step[<<i, g[i-1]>>]
  BY <1>4 DEF Loops
<1>6. ASSUME NEW i \in 1 .. m PROVE g[i] = Add(g[i-1], i)
  <2>1. g[i-1] \in Q
    BY <1>1, <1>5
  <2>2. step[<<i, g[i-1]>>] = Add(g[i-1], i)
    BY <2>1
  <2>. HIDE DEF step
  <2>. QED  BY <1>5, <2>2
<1>. HIDE DEF step
<1>. DEFINE F(f) == [i \in 0 .. Len(scenarios) |-> IF i = 0 THEN <<>> ELSE Add(f[i-1], i)]
            h == CHOOSE f : f = F(f)
<1>7. g = F(g)
  BY <1>1, <1>5, <1>6
<1>8. h = F(h)
  BY <1>7
<1>9. Defaults(scenarios) = h[m]
  BY DEF Defaults, Add
<1>. HIDE DEF h
<1>10. h[0] = <<>> /\ \A i \in 1 .. m : h[i] = Add(h[i-1], i)
  BY <1>1, <1>8
<1>. DEFINE Holds(q, i) ==
              /\ Len(q) <= i
              /\ \A k \in 1 .. i : IsDefault(scenarios[k]) => \E j \in 1 .. Len(q) : q[j] = scenarios[k]
              /\ \A j \in 1 .. Len(q) : \E k \in 1 .. i : q[j] = scenarios[k]
            P == {i \in Nat : i <= m => h[i] \in Seq(S) /\ Holds(h[i], i)}
<1>11. 0 \in P
  <2>1. <<>> \in Seq(S) /\ Len(<<>>) = 0
    OBVIOUS
  <2>2. Holds(<<>>, 0)
    BY <2>1
  <2>3. h[0] \in Seq(S) /\ Holds(h[0], 0)
    <3>. HIDE DEF Holds
    <3>. QED  BY <1>10, <2>1, <2>2
  <2>. HIDE DEF Holds
  <2>. QED  BY <2>3
<1>12. ASSUME NEW i \in Nat, i \in P PROVE i + 1 \in P
  <2> SUFFICES ASSUME i + 1 <= m PROVE h[i+1] \in Seq(S) /\ Holds(h[i+1], i + 1)
    OBVIOUS
  <2>1. h[i] \in Seq(S) /\ Holds(h[i], i) /\ h[i+1] = Add(h[i], i + 1) /\ scenarios[i+1] \in S
    BY <1>1, <1>10, <1>12
  <2>2. CASE IsDefault(scenarios[i+1])
    <3>1. h[i+1] = Append(h[i], scenarios[i+1])
      BY <2>1, <2>2 DEF Add
    <3>2. /\ h[i+1] \in Seq(S) /\ Len(h[i+1]) = Len(h[i]) + 1 /\ h[i+1][Len(h[i]) + 1] = scenarios[i+1]
          /\ \A j \in 1 .. Len(h[i]) : h[i+1][j] = h[i][j]
      <4>. DEFINE q == h[i]  x == scenarios[i+1]
      <4>1. q \in Seq(S) /\ x \in S
        BY <2>1
      <4>. HIDE DEF q, x
      <4>2. /\ Append(q, x) \in Seq(S) /\ Len(Append(q, x)) = Len(q) + 1
            /\ Append(q, x)[Len(q) + 1] = x /\ \A j \in 1 .. Len(q) : Append(q, x)[j] = q[j]
        BY <4>1
      <4>. QED  BY <3>1, <4>2 DEF q, x
    <3>3. \A k \in 1 .. i + 1 : IsDefault(scenarios[k]) => \E j \in 1 .. Len(h[i+1]) : h[i+1][j] = scenarios[k]
      <4> SUFFICES ASSUME NEW k \in 1 .. i + 1, IsDefault(scenarios[k])
                   PROVE  \E j \in 1 .. Len(h[i+1]) : h[i+1][j] = scenarios[k]
        OBVIOUS
      <4>1. CASE k = i + 1
        BY <2>1, <3>2, <4>1
      <4>2. CASE k \in 1 .. i
        <5>1. PICK j \in 1 .. Len(h[i]) : h[i][j] = scenarios[k]
          BY <2>1, <4>2
        <5>. QED  BY <2>1, <3>2, <5>1
      <4>. QED  BY <4>1, <4>2
    <3>4. \A j \in 1 .. Len(h[i+1]) : \E k \in 1 .. i + 1 : h[i+1][j] = scenarios[k]
      <4> SUFFICES ASSUME NEW j \in 1 .. Len(h[i+1])
                   PROVE  \E k \in 1 .. i + 1 : h[i+1][j] = scenarios[k]
        OBVIOUS
      <4>1. CASE j = Len(h[i]) + 1
        BY <3>2, <4>1
      <4>2. CASE j \in 1 .. Len(h[i])
        BY <2>1, <3>2, <4>2
      <4>. QED  BY <2>1, <3>2, <4>1, <4>2
    <3>5. Len(h[i+1]) <= i + 1
      BY <2>1, <3>2
    <3>. QED  BY <3>2, <3>3, <3>4, <3>5
  <2>3. CASE ~IsDefault(scenarios[i+1])
    <3>1. h[i+1] = h[i]
      BY <2>1, <2>3 DEF Add
    <3>2. \A k \in 1 .. i + 1 : IsDefault(scenarios[k]) => k \in 1 .. i
      BY <2>3
    <3>3. \A k \in 1 .. i : k \in 1 .. i + 1
      OBVIOUS
    <3>4. Holds(h[i], i + 1)
      <4>1. \A k \in 1 .. i + 1 : IsDefault(scenarios[k]) =>
              \E j \in 1 .. Len(h[i]) : h[i][j] = scenarios[k]
        BY <2>1, <3>2
      <4>2. \A j \in 1 .. Len(h[i]) : \E k \in 1 .. i + 1 : h[i][j] = scenarios[k]
        BY <2>1, <3>3
      <4>3. Len(h[i]) <= i + 1
        BY <2>1
      <4>. QED  BY <4>1, <4>2, <4>3
    <3>. HIDE DEF Holds
    <3>. QED  BY <2>1, <3>1, <3>4
  <2>. QED  BY <2>2, <2>3
<1>13. m \in P
  <2>. HIDE DEF P, m
  <2>. QED  BY <1>1, <1>11, <1>12, SetInduction
<1>. QED  BY <1>1, <1>9, <1>13

LEMMA CountAppended ==
  ASSUME NEW s \in Seq(Strings), NEW k \in Strings, NEW c \in Strings, NEW m \in Int
  PROVE  /\ CountOf(k, s) \in Nat
         /\ CountOf(k, s \o Copies(c, m)) = CountOf(k, s) + (IF c = k THEN Greater(m, 0) ELSE 0)
<1>. DEFINE t == Copies(c, m)
            L == Len(s)
            M == Greater(m, 0)
            A == {i \in 1 .. L : s[i] = k}
            B == {i \in L + 1 .. L + M : c = k}
            C == {i \in DOMAIN (s \o t) : (s \o t)[i] = k}
<1>1. L \in Nat /\ M \in Nat /\ DOMAIN s = 1 .. L
  BY DEF Greater
<1>2. t \in Seq(Strings) /\ Len(t) = M /\ \A i \in 1 .. M : t[i] = c
  BY CopiesFacts
<1>. HIDE DEF t, M
<1>3. DOMAIN (s \o t) = 1 .. L + M
  BY <1>1, <1>2
<1>4. /\ \A i \in 1 .. L : (s \o t)[i] = s[i]
      /\ \A i \in L + 1 .. L + M : (s \o t)[i] = c
  <2>1. \A i \in 1 .. L + M : (s \o t)[i] = IF i <= L THEN s[i] ELSE t[i - L]
    BY <1>1, <1>2
  <2>2. ASSUME NEW i \in 1 .. L PROVE (s \o t)[i] = s[i]
    BY <1>1, <2>1
  <2>3. ASSUME NEW i \in L + 1 .. L + M PROVE (s \o t)[i] = c
    <3>1. i \in 1 .. L + M /\ ~(i <= L) /\ i - L \in 1 .. M
      BY <1>1
    <3>. QED  BY <1>2, <2>1, <3>1
  <2>. QED  BY <2>2, <2>3
<1>. HIDE DEF L
<1>5. C = A \cup B
  <2>1. \A i : i \in 1 .. L + M <=> i \in 1 .. L \/ i \in L + 1 .. L + M
    BY <1>1
  <2>. QED  BY <1>3, <1>4, <2>1
<1>6. A \cap B = {} /\ A \in SUBSET (1 .. L)
  <2>1. \A i : ~(i \in 1 .. L /\ i \in L + 1 .. L + M)
    BY <1>1
  <2>2. \A i \in A : i \in 1 .. L
    OBVIOUS
  <2>3. \A i \in B : i \in L + 1 .. L + M
    OBVIOUS
  <2>. HIDE DEF A, B
  <2>. QED  BY <2>1, <2>2, <2>3
<1>7. IsFiniteSet(A) /\ Cardinality(A) \in Nat
  <2>1. IsFiniteSet(1 .. L)
    BY <1>1, FS_Interval
  <2>. HIDE DEF A
  <2>2. IsFiniteSet(A)
    BY <1>6, <2>1, FS_Subset
  <2>. QED  BY <2>2, FS_CardinalityType
<1>8. IsFiniteSet(B) /\ Cardinality(B) = IF c = k THEN M ELSE 0
  <2>1. CASE c = k
    <3>1. B = L + 1 .. L + M
      BY <2>1
    <3>2. L + 1 \in Int /\ L + M \in Int
      BY <1>1
    <3>3. IsFiniteSet(L + 1 .. L + M) /\ Cardinality(L + 1 .. L + M) = M
      BY <1>1, <3>2, FS_Interval
    <3>. QED  BY <2>1, <3>1, <3>3
  <2>2. CASE c # k
    <3>1. B = {}
      BY <2>2
    <3>. QED  BY <2>2, <3>1, FS_EmptySet
  <2>. QED  BY <2>1, <2>2
<1>. HIDE DEF A, B
<1>9. Cardinality(A \cup B) = Cardinality(A) + Cardinality(B) - Cardinality(A \cap B)
  BY <1>7, <1>8, FS_Union
<1>10. Cardinality(A \cap B) = 0
  BY <1>6, FS_EmptySet
<1>11. CountOf(k, s) = Cardinality(A) /\ CountOf(k, s \o t) = Cardinality(C)
  BY <1>1 DEF CountOf, A
<1>12. Cardinality(B) \in Nat
  BY <1>8, FS_CardinalityType
<1>. HIDE DEF C
<1>13. Cardinality(C) = Cardinality(A) + Cardinality(B)
  BY <1>5, <1>7, <1>9, <1>10, <1>12
<1>. QED  BY <1>7, <1>8, <1>11, <1>13 DEF t, M

LEMMA Products == \A a, b, c \in Int : (a + b) * c = a * c + b * c /\ a * c \in Int
OBVIOUS

\* Of weights that are not negative and do not sum to zero, every object gets a label,
\* and every key its share.
LEMMA Layout ==
  ASSUME NEW w \in Keyed, NEW n \in Nat \ {0}, Total(w) > 0,
         \A i \in 1 .. Len(w) : w[i].weight >= 0
  PROVE  /\ Distributed(n, w) \in Seq(Strings) /\ Len(Distributed(n, w)) = n
         /\ \A i \in 1 .. Len(w) :
              LET excess == CountOf(w[i].key, Distributed(n, w)) * Total(w) - w[i].weight * n
              IN  IF i < Len(w) THEN excess <= 0 /\ -Total(w) < excess
                  ELSE excess >= 0 /\ excess <= Total(w) * (i - 1)
<1>. DEFINE T == Total(w)
            L == Len(w)
            q(i) == Share(w[i], n, w)
<1>1. PICK g \in [0 .. L -> Int] :
        g[0] = 0 /\ T = g[L] /\ \A i \in 1 .. L : g[i] = g[i-1] + w[i].weight
  BY TotalLoop
<1>2. L \in Nat /\ \A i \in 1 .. L : w[i].key \in Strings /\ w[i].weight \in Nat
  BY WeightsFacts
<1>3. T \in Nat \ {0}
  BY <1>1, <1>2
<1>4. L # 0
  BY <1>1, <1>3
<1>5. PICK r \in [0 .. L -> Seq(Strings)] :
        /\ r[0] = <<>> /\ Shares(n, w) = r[L]
        /\ \A i \in 1 .. L : r[i] = r[i-1] \o Copies(w[i].key, q(i))
  <2>1. n \in Int /\ Total(w) # 0
    BY <1>3
  <2>. QED  BY <2>1, SharesLoop
<1>6. \A i \in 1 .. L : q(i) \in Nat /\ q(i) * T <= w[i].weight * n /\ w[i].weight * n < (q(i) + 1) * T
  <2>1. n \in Int /\ n >= 0 /\ Total(w) # 0 /\ Total(w) > 0
    BY <1>3
  <2>. QED  BY <1>2, <2>1, ShareFacts
<1>. HIDE DEF q
<1>7. \A i \in 0 .. L : r[i] \in Seq(Strings) /\ Len(r[i]) \in Nat
  BY <1>2, <1>5
<1>8. \A i \in 1 .. L : Len(r[i]) = Len(r[i-1]) + q(i)
  <2> SUFFICES ASSUME NEW i \in 1 .. L PROVE Len(r[i]) = Len(r[i-1]) + q(i)
    OBVIOUS
  <2>. DEFINE c == Copies(w[i].key, q(i))
  <2>1. c \in Seq(Strings) /\ Len(c) = q(i)
    <3>1. q(i) \in Int /\ Greater(q(i), 0) = q(i) /\ w[i].key \in Strings
      BY <1>2, <1>6 DEF Greater
    <3>. QED  BY <3>1, CopiesFacts
  <2>2. r[i-1] \in Seq(Strings) /\ r[i] = r[i-1] \o c
    <3>1. i - 1 \in 0 .. L
      BY <1>2
    <3>. QED  BY <1>5, <1>7, <3>1
  <2>. DEFINE b == r[i-1]
  <2>3. b \in Seq(Strings) /\ r[i] = b \o c
    BY <2>2
  <2>. HIDE DEF b, c
  <2>4. Len(b \o c) = Len(b) + Len(c)
    <3>1. b \in Seq(Strings) /\ c \in Seq(Strings)
      BY <2>1, <2>3
    <3>. QED  BY <3>1
  <2>. QED  BY <2>1, <2>3, <2>4 DEF b
<1>. HIDE DEF T, L
\* What the first i keys fall short of, in units of 1/T.
<1>. DEFINE short(i) == g[i] * n - Len(r[i]) * T
            P == {i \in Nat : i <= L => 0 <= short(i) /\ short(i) <= i * T}
<1>9. ASSUME NEW i \in 1 .. L
      PROVE  /\ short(i) = short(i-1) + (w[i].weight * n - q(i) * T)
             /\ 0 <= w[i].weight * n - q(i) * T /\ w[i].weight * n - q(i) * T < T
             /\ short(i) \in Int /\ short(i-1) \in Int
  <2>1. i - 1 \in 0 .. L /\ i \in 0 .. L
    BY <1>2
  <2>2. /\ g[i] \in Int /\ g[i-1] \in Int /\ Len(r[i-1]) \in Nat /\ Len(r[i]) \in Nat
        /\ q(i) \in Nat /\ w[i].weight \in Nat
    BY <1>1, <1>2, <1>6, <1>7, <2>1
  <2>3. g[i] = g[i-1] + w[i].weight /\ Len(r[i]) = Len(r[i-1]) + q(i)
    BY <1>1, <1>8
  <2>. DEFINE x == g[i-1]  y == w[i].weight  u == Len(r[i-1])  v == q(i)
  <2>4. /\ x \in Int /\ y \in Nat /\ u \in Nat /\ v \in Nat /\ g[i] = x + y /\ Len(r[i]) = u + v
        /\ v * T <= y * n /\ y * n < (v + 1) * T
    BY <1>6, <2>2, <2>3
  <2>. HIDE DEF x, y, u, v
  <2>5. /\ (x + y) * n = x * n + y * n /\ (u + v) * T = u * T + v * T /\ (v + 1) * T = v * T + T
        /\ x * n \in Int /\ y * n \in Int /\ u * T \in Int /\ v * T \in Int
    BY <1>3, <2>4
  <2>6. short(i) = (x + y) * n - (u + v) * T /\ short(i-1) = x * n - u * T
    BY <2>4 DEF x, u
  <2>7. /\ short(i) = short(i-1) + (y * n - v * T) /\ short(i) \in Int /\ short(i-1) \in Int
        /\ 0 <= y * n - v * T /\ y * n - v * T < T
    <3>. HIDE DEF short
    <3>. QED  BY <1>3, <2>4, <2>5, <2>6
  <2>. QED  BY <2>7 DEF y, v
<1>. HIDE DEF short
<1>10. \A i \in 0 .. L : 0 <= short(i) /\ short(i) <= i * T
  <2>1. 0 \in P
    <3>1. g[0] = 0 /\ Len(r[0]) = 0
      BY <1>1, <1>5
    <3>. QED  BY <1>3, <3>1 DEF short
  <2>2. ASSUME NEW i \in Nat, i \in P PROVE i + 1 \in P
    <3> SUFFICES ASSUME i + 1 <= L PROVE 0 <= short(i+1) /\ short(i+1) <= (i+1) * T
      OBVIOUS
    <3>. DEFINE d == w[i+1].weight * n - q(i+1) * T
    <3>1. i + 1 \in 1 .. L /\ (i + 1) - 1 = i
      BY <1>2
    <3>2. short(i+1) = short(i) + d /\ 0 <= d /\ d < T /\ short(i) \in Int /\ short(i+1) \in Int
      BY <1>9, <3>1
    <3>3. 0 <= short(i) /\ short(i) <= i * T
      BY <1>2, <2>2
    <3>4. (i + 1) * T = i * T + T /\ i * T \in Int
      BY <1>3, Products
    <3>5. d \in Int
      <4>. DEFINE x == w[i+1].weight  y == q(i+1)
      <4>1. x \in Int
        BY <1>2, <3>1
      <4>2. y \in Int
        BY <1>6, <3>1
      <4>3. x * n \in Int /\ y * T \in Int
        <5>. HIDE DEF x, y
        <5>. QED  BY <1>3, <4>1, <4>2
      <4>. QED  BY <4>3
    <3>. HIDE DEF d
    <3>. QED  BY <1>3, <3>2, <3>3, <3>4, <3>5
  <2>3. Nat \subseteq P
    <3>. HIDE DEF P
    <3>. QED  BY <2>1, <2>2, SetInduction
  <2>. QED  BY <1>2, <2>3
<1>11. ASSUME NEW j \in 1 .. L PROVE CountOf(w[j].key, r[L]) = q(j)
  <2>. DEFINE k == w[j].key
              Q == {i \in Nat : i <= L => CountOf(k, r[i]) = IF i >= j THEN q(j) ELSE 0}
  <2>1. 0 \in Q
    <3>1. DOMAIN r[0] = {}
      BY <1>5
    <3>2. CountOf(k, r[0]) = Cardinality({})
      BY <3>1 DEF CountOf
    <3>3. CountOf(k, r[0]) = 0
      BY <3>2, FS_EmptySet
    <3>. QED  BY <1>2, <3>3
  <2>2. ASSUME NEW i \in Nat, i \in Q PROVE i + 1 \in Q
    <3> SUFFICES ASSUME i + 1 <= L PROVE CountOf(k, r[i+1]) = IF i + 1 >= j THEN q(j) ELSE 0
      OBVIOUS
    <3>. DEFINE c == w[i+1].key
    <3>1. i + 1 \in 1 .. L /\ i \in 0 .. L /\ (i + 1) - 1 = i
      BY <1>2
    <3>2. r[i+1] = r[i] \o Copies(c, q(i+1)) /\ r[i] \in Seq(Strings) /\ k \in Strings /\ c \in Strings /\ q(i+1) \in Nat
      BY <1>2, <1>5, <1>6, <1>7, <3>1
    <3>3. c = k <=> i + 1 = j
      BY <3>1, WeightsFacts DEF L
    <3>4. CountOf(k, r[i]) = IF i >= j THEN q(j) ELSE 0
      BY <1>2, <2>2
    <3>. HIDE DEF k, c
    <3>5. CountOf(k, r[i+1]) = CountOf(k, r[i]) + (IF c = k THEN Greater(q(i+1), 0) ELSE 0)
      BY <3>2, CountAppended
    <3>6. Greater(q(i+1), 0) = q(i+1)
      BY <3>2 DEF Greater
    <3>7. q(j) \in Nat /\ j \in Nat
      BY <1>6
    <3>. QED  BY <3>3, <3>4, <3>5, <3>6, <3>7
  <2>3. Nat \subseteq Q
    <3>. HIDE DEF Q
    <3>. QED  BY <2>1, <2>2, SetInduction
  <2>. QED  BY <1>2, <2>3
<1>. DEFINE last == w[L].key
            rest == n - Len(r[L])
<1>12. short(L) = T * n - Len(r[L]) * T /\ Len(r[L]) \in Nat /\ r[L] \in Seq(Strings) /\ L \in 1 .. L
  BY <1>1, <1>2, <1>4, <1>7 DEF short
<1>13. rest \in Nat
  <2>1. 0 <= T * n - Len(r[L]) * T
    BY <1>2, <1>10, <1>12
  <2>2. ASSUME Len(r[L]) >= n + 1 PROVE FALSE
    <3>. DEFINE e == Len(r[L])
    <3>0. e \in Nat /\ e >= n + 1
      BY <1>12, <2>2
    <3>1. e = (n + 1) + (e - (n + 1)) /\ e - (n + 1) \in Nat /\ n + 1 \in Int
      <4>. HIDE DEF e
      <4>. QED  BY <3>0
    <3>. HIDE DEF e
    <3>2. e * T = (n + 1) * T + (e - (n + 1)) * T /\ (n + 1) * T = n * T + T
      BY <1>3, <3>1, Products
    <3>3. (e - (n + 1)) * T >= 0 /\ T * n = n * T /\ n * T \in Int /\ (e - (n + 1)) * T \in Int
      BY <1>3, <3>1
    <3>. QED  BY <1>3, <2>1, <3>2, <3>3 DEF e
  <2>. QED  BY <1>12, <2>2
<1>14. Distributed(n, w) = r[L] \o Copies(last, rest)
  <2>1. w # <<>> /\ n # 0 /\ T # 0
    BY <1>3, <1>4 DEF L
  <2>. QED  BY <1>5, <2>1 DEF Distributed, T, L
<1>15. last \in Strings
  BY <1>2, <1>12
<1>. HIDE DEF rest, last
<1>16. Distributed(n, w) \in Seq(Strings) /\ Len(Distributed(n, w)) = n
  <2>. DEFINE c == Copies(last, rest)
  <2>1. c \in Seq(Strings) /\ Len(c) = rest
    <3>1. rest \in Int /\ Greater(rest, 0) = rest
      BY <1>13 DEF Greater
    <3>. QED  BY <1>15, <3>1, CopiesFacts
  <2>2. Distributed(n, w) = r[L] \o c
    BY <1>14
  <2>. HIDE DEF c
  <2>. QED  BY <1>12, <2>1, <2>2 DEF rest
<1>17. ASSUME NEW i \in 1 .. L
       PROVE  CountOf(w[i].key, Distributed(n, w)) = q(i) + (IF i = L THEN rest ELSE 0)
  <2>1. w[i].key \in Strings /\ (w[i].key = last <=> i = L)
    BY <1>2, <1>12, WeightsFacts DEF last, L
  <2>2. CountOf(w[i].key, Distributed(n, w)) =
          CountOf(w[i].key, r[L]) + (IF last = w[i].key THEN Greater(rest, 0) ELSE 0)
    <3>1. rest \in Int /\ r[L] \in Seq(Strings) /\ w[i].key \in Strings
      BY <1>12, <1>13, <2>1
    <3>2. CountOf(w[i].key, r[L] \o Copies(last, rest)) =
            CountOf(w[i].key, r[L]) + (IF last = w[i].key THEN Greater(rest, 0) ELSE 0)
      BY <1>15, <3>1, CountAppended
    <3>. QED  BY <1>14, <3>2
  <2>3. Greater(rest, 0) = rest
    BY <1>13 DEF Greater
  <2>. QED  BY <1>11, <2>1, <2>2, <2>3
<1>18. ASSUME NEW i \in 1 .. L
       PROVE  LET excess == CountOf(w[i].key, Distributed(n, w)) * T - w[i].weight * n
              IN  IF i < L THEN excess <= 0 /\ -T < excess
                  ELSE excess >= 0 /\ excess <= T * (i - 1)
  <2>1. /\ q(i) \in Nat /\ w[i].weight * n \in Int /\ q(i) * T \in Int
        /\ 0 <= w[i].weight * n - q(i) * T /\ w[i].weight * n - q(i) * T < T
    BY <1>2, <1>3, <1>6, <1>9
  <2>2. CASE i < L
    <3>1. CountOf(w[i].key, Distributed(n, w)) = q(i)
      BY <1>17, <2>1, <2>2
    <3>. QED  BY <1>3, <2>1, <2>2, <3>1
  <2>3. CASE i = L
    <3>1. CountOf(w[i].key, Distributed(n, w)) = q(i) + rest
      BY <1>17, <2>3
    <3>2. (q(i) + rest) * T = q(i) * T + rest * T /\ rest * T = n * T - Len(r[L]) * T
      <4>1. n = rest + Len(r[L])
        BY <1>12 DEF rest
      <4>2. n * T = rest * T + Len(r[L]) * T
        <5>. DEFINE e == Len(r[L])
        <5>1. e \in Int /\ rest \in Int /\ T \in Int /\ n = rest + e
          BY <1>3, <1>12, <1>13, <4>1
        <5>. HIDE DEF e
        <5>. QED  BY <5>1, Products DEF e
      <4>3. (q(i) + rest) * T = q(i) * T + rest * T
        BY <1>3, <1>13, <2>1, Products
      <4>4. rest * T \in Int /\ Len(r[L]) * T \in Int /\ n * T \in Int
        BY <1>3, <1>12, <1>13
      <4>. QED  BY <4>2, <4>3, <4>4
    <3>3. short(L) = short(L-1) + (w[L].weight * n - q(L) * T) /\ short(L-1) \in Int
      BY <1>9, <1>12
    <3>4. 0 <= short(L-1) /\ short(L-1) <= (L - 1) * T
      BY <1>2, <1>4, <1>10
    <3>5. n * T = T * n /\ n * T \in Int /\ rest * T \in Int /\ Len(r[L]) * T \in Int /\ (L - 1) * T = T * (L - 1)
      BY <1>2, <1>3, <1>12, <1>13
    <3>6. (q(i) + rest) * T - w[i].weight * n = short(L-1)
      <4>. DEFINE a == q(L) * T  b == w[L].weight * n  c == n * T  d == Len(r[L]) * T  x == rest * T
      <4>1. a \in Int /\ b \in Int /\ c \in Int /\ d \in Int /\ x \in Int
        BY <2>1, <2>3, <3>5
      <4>2. short(L) = c - d /\ (q(i) + rest) * T = a + x /\ x = c - d
        BY <1>12, <2>3, <3>2, <3>5
      <4>3. short(L) = short(L-1) + (b - a) /\ short(L-1) \in Int
        BY <3>3
      <4>4. w[i].weight * n = b
        BY <2>3
      <4>. DEFINE y == short(L)  z == short(L-1)  e == w[i].weight * n
      <4>5. y = c - d /\ x = c - d /\ y = z + (b - a) /\ z \in Int /\ e = b
        BY <4>2, <4>3, <4>4
      <4>6. (a + x) - e = z
        <5>. HIDE DEF a, b, c, d, x, y, z, e
        <5>. QED  BY <4>1, <4>5
      <4>. HIDE DEF a, x
      <4>. QED  BY <4>2, <4>6
    <3>. QED  BY <1>3, <2>3, <3>1, <3>4, <3>5, <3>6
  <2>. QED  BY <1>2, <2>2, <2>3
<1>. QED  BY <1>16, <1>18 DEF T, L

-----------------------------------------------------------------------------
\* What SharesFit says of the labels of one kind of object.
Fits(labels, res) ==
  LET n     == Greater(res.count, 0)
      total == Total(res.dist)
  IN  (\A i \in DOMAIN res.dist : res.dist[i].weight >= 0) =>
      /\ Len(labels) = n
      /\ total > 0 => \A i \in DOMAIN res.dist :
           LET excess == CountOf(res.dist[i].key, labels) * total - res.dist[i].weight * n
           IN  IF i < Len(res.dist) THEN excess <= 0 /\ -total < excess
               ELSE excess >= 0 /\ excess <= total * (i - 1)

LEMMA EmptyTotal == Total(<<>>) = 0 /\ <<>> \in Weights
<1>1. <<>> \in Weights /\ <<>> \in Keyed
  BY DEF Weights, Keyed
<1>2. Len(<<>>) = 0
  OBVIOUS
<1>. QED  BY <1>1, <1>2, TotalLoop

LEMMA OnlyTotal ==
  ASSUME NEW k \in Strings
  PROVE  <<[key |-> k, weight |-> 1]>> \in Keyed /\ Total(<<[key |-> k, weight |-> 1]>>) = 1
<1>. DEFINE w == <<[key |-> k, weight |-> 1]>>
<1>1. w \in Seq([key : Strings, weight : Int]) /\ DOMAIN w = {1} /\ Len(w) = 1
  OBVIOUS
<1>2. w \in Keyed
  BY <1>1 DEF Keyed
<1>3. w[1].weight = 1
  OBVIOUS
<1>. HIDE DEF w
<1>4. PICK g \in [0 .. Len(w) -> Int] :
        g[0] = 0 /\ Total(w) = g[Len(w)] /\ \A i \in 1 .. Len(w) : g[i] = g[i-1] + w[i].weight
  BY <1>2, TotalLoop
<1>5. g[1] = g[1-1] + w[1].weight
  BY <1>1, <1>4
<1>6. Total(w) = 1
  BY <1>1, <1>3, <1>4, <1>5
<1>. QED  BY <1>2, <1>6 DEF w

LEMMA NoneFit ==
  ASSUME NEW res \in ResourceCount, res.count <= 0
  PROVE  Fits(<<>>, res)
<1>1. res.dist \in Keyed /\ res.count \in Int
  BY WeightsKeyed DEF ResourceCount
<1>2. Greater(res.count, 0) = 0 /\ Len(<<>>) = 0
  BY <1>1 DEF Greater
<1>3. \A k : CountOf(k, <<>>) = 0
  <2>1. \A k : CountOf(k, <<>>) = Cardinality({})
    BY DEF CountOf
  <2>. QED  BY <2>1, FS_EmptySet
<1>4. Total(res.dist) \in Int /\ Len(res.dist) \in Nat /\ DOMAIN res.dist = 1 .. Len(res.dist)
  BY <1>1, TotalLoop, WeightsFacts
<1>5. ASSUME NEW i \in DOMAIN res.dist, Total(res.dist) > 0
      PROVE  LET excess == CountOf(res.dist[i].key, <<>>) * Total(res.dist) - res.dist[i].weight * 0
             IN  IF i < Len(res.dist) THEN excess <= 0 /\ -Total(res.dist) < excess
                 ELSE excess >= 0 /\ excess <= Total(res.dist) * (i - 1)
  <2>. DEFINE T == Total(res.dist)  v == res.dist[i].weight
  <2>1. v \in Int
    BY <1>1, <1>4, WeightsFacts
  <2>2. CountOf(res.dist[i].key, <<>>) * T - v * 0 = 0
    <3>. HIDE DEF T, v
    <3>1. v * 0 = 0
      BY <2>1
    <3>2. 0 * T = 0
      BY <1>4 DEF T
    <3>. QED  BY <1>3, <3>1, <3>2
  <2>3. T * (i - 1) >= 0
    <3>1. i - 1 \in Nat /\ T \in Nat
      BY <1>4, <1>5
    <3>. HIDE DEF T
    <3>. QED  BY <3>1
  <2>. QED  BY <1>5, <2>2, <2>3, <1>4
<1>. QED  BY <1>2, <1>5 DEF Fits

\* Labels by weight fit, and only weights that sum to zero leave an object without.
LEMMA SharedFit ==
  ASSUME NEW res \in ResourceCount, res.count > 0, res.dist # <<>>, Total(res.dist) # 0
  PROVE  /\ Distributed(res.count, res.dist) \in Seq(Strings)
         /\ Len(Distributed(res.count, res.dist)) >= res.count
         /\ Fits(Distributed(res.count, res.dist), res)
<1>. DEFINE w == res.dist  n == res.count
<1>1. w \in Keyed /\ n \in Nat \ {0}
  BY WeightsKeyed DEF ResourceCount
<1>2. Distributed(n, w) \in Seq(Strings) /\ Len(Distributed(n, w)) >= n
  BY <1>1, DistributedSuffices
<1>3. DOMAIN w = 1 .. Len(w) /\ Greater(n, 0) = n /\ Total(w) \in Int
  BY <1>1, WeightsFacts, TotalLoop DEF Greater
<1>4. ASSUME \A i \in DOMAIN w : w[i].weight >= 0 PROVE Total(w) > 0
  <2>1. Len(w) \in Nat /\ \A i \in 1 .. Len(w) : w[i].weight \in Nat
    BY <1>1, <1>3, <1>4, WeightsFacts
  <2>2. PICK g \in [0 .. Len(w) -> Int] :
          g[0] = 0 /\ Total(w) = g[Len(w)] /\ \A i \in 1 .. Len(w) : g[i] = g[i-1] + w[i].weight
    BY <1>1, TotalLoop
  <2>3. g[0] \in Nat /\ \A i \in 1 .. Len(w) : g[i-1] \in Nat => g[i] \in Nat
    BY <2>1, <2>2
  <2>4. \A i \in 0 .. Len(w) : g[i] \in Nat
    <3>. DEFINE m == Len(w)  S == Nat
    <3>1. m \in Nat /\ g[0] \in S /\ \A i \in 1 .. m : g[i-1] \in S => g[i] \in S
      BY <2>1, <2>3
    <3>. HIDE DEF m, S
    <3>2. \A i \in 0 .. m : g[i] \in S
      BY <3>1, LoopType
    <3>. QED  BY <3>2 DEF m, S
  <2>. QED  BY <1>3, <2>1, <2>2, <2>4
<1>5. ASSUME \A i \in DOMAIN w : w[i].weight >= 0
      PROVE  /\ Len(Distributed(n, w)) = n
             /\ \A i \in 1 .. Len(w) :
                  LET excess == CountOf(w[i].key, Distributed(n, w)) * Total(w) - w[i].weight * n
                  IN  IF i < Len(w) THEN excess <= 0 /\ -Total(w) < excess
                      ELSE excess >= 0 /\ excess <= Total(w) * (i - 1)
  BY <1>1, <1>3, <1>4, <1>5, Layout
<1>6. Fits(Distributed(n, w), res)
  BY <1>3, <1>5 DEF Fits
<1>. QED  BY <1>2, <1>6

LEMMA TypesFit ==
  ASSUME NEW res \in ResourceCount, NEW k \in Strings
  PROVE  /\ ~(Len(Types(res, k)) < res.count) => Fits(Types(res, k), res)
         /\ Len(Types(res, k)) < res.count => res.dist # <<>> /\ Total(res.dist) = 0
<1>1. res.dist \in Keyed /\ res.count \in Int
  BY WeightsKeyed DEF ResourceCount
<1>2. CASE res.count <= 0
  <2>1. Types(res, k) = <<>> /\ Len(<<>>) = 0
    BY <1>1, <1>2 DEF Types
  <2>. QED  BY <1>1, <1>2, <2>1, NoneFit
<1>3. CASE res.count > 0 /\ res.dist = <<>>
  <2>. DEFINE w == <<[key |-> k, weight |-> 1]>>
              n == res.count
  <2>1. Types(res, k) = Distributed(n, w)
    BY <1>3 DEF Types, OrOnly
  <2>2. w \in Keyed /\ Total(w) = 1 /\ n \in Nat \ {0}
    BY <1>1, <1>3, OnlyTotal
  <2>3. w[1].weight = 1 /\ Len(w) = 1
    OBVIOUS
  <2>. HIDE DEF w
  <2>4. \A i \in 1 .. Len(w) : w[i].weight >= 0
    BY <2>3
  <2>5. Len(Distributed(n, w)) = n
    BY <2>2, <2>4, Layout
  <2>6. DOMAIN res.dist = {} /\ Greater(n, 0) = n
    BY <1>3, <2>2 DEF Greater
  <2>7. Fits(Types(res, k), res)
    BY <2>1, <2>5, <2>6 DEF Fits
  <2>. QED  BY <2>1, <2>2, <2>5, <2>7
<1>4. CASE res.count > 0 /\ res.dist # <<>>
  <2>1. Types(res, k) = Distributed(res.count, res.dist)
    BY <1>4 DEF Types, OrOnly
  <2>2. CASE Total(res.dist) # 0
    BY <1>1, <1>4, <2>1, <2>2, SharedFit
  <2>3. CASE Total(res.dist) = 0
    <3>1. Types(res, k) = <<>> /\ Len(<<>>) = 0
      BY <2>1, <2>3 DEF Distributed
    <3>. QED  BY <1>1, <1>4, <2>3, <3>1
  <2>. QED  BY <2>2, <2>3
<1>. QED  BY <1>1, <1>2, <1>3, <1>4

LEMMA NsForIndexFits ==
  ASSUME NEW res \in ResourceCount, res.count >= 0
  PROVE  ~(Len(NsForIndex(res)) < res.count) /\ Fits(NsForIndex(res), res)
<1>. DEFINE n == res.count  w == res.dist  copies == Copies("default", n)
<1>1. w \in Keyed /\ n \in Nat /\ Total(w) \in Int
  <2>1. w \in Keyed /\ n \in Nat
    BY WeightsKeyed DEF ResourceCount
  <2>. QED  BY <2>1, WeightsFacts, TotalLoop
<1>2. copies \in Seq(Strings) /\ Len(copies) = n /\ Greater(n, 0) = n
  <2>1. Greater(n, 0) = n /\ n \in Int /\ "default" \in Strings
    BY <1>1 DEF Greater, Strings
  <2>2. copies \in Seq(Strings) /\ Len(copies) = Greater(n, 0)
    BY <2>1, CopiesFacts
  <2>. QED  BY <2>1, <2>2
<1>3. CASE n > 0 /\ w # <<>> /\ Total(w) # 0
  <2>1. /\ Distributed(n, w) \in Seq(Strings) /\ Len(Distributed(n, w)) >= n
        /\ Fits(Distributed(n, w), res)
    BY <1>3, SharedFit
  <2>2. Distributed(n, w) # <<>>
    BY <1>1, <1>3, <2>1
  <2>3. NsForIndex(res) = Distributed(n, w)
    BY <2>2 DEF NsForIndex
  <2>4. ~(Len(Distributed(n, w)) < n)
    <3>. DEFINE d == Distributed(n, w)
    <3>1. d \in Seq(Strings) /\ Len(d) >= n
      BY <2>1
    <3>. HIDE DEF d
    <3>2. Len(d) \in Nat
      BY <3>1
    <3>. QED  BY <1>1, <3>1, <3>2 DEF d
  <2>. QED  BY <2>1, <2>3, <2>4
<1>4. CASE ~(n > 0 /\ w # <<>> /\ Total(w) # 0)
  <2>1. Distributed(n, w) = <<>>
    BY <1>1, <1>4 DEF Distributed
  <2>2. NsForIndex(res) = copies
    BY <2>1 DEF NsForIndex
  <2>3. CASE n = 0
    <3>1. copies = <<>>
      BY <1>2, <2>3
    <3>. QED  BY <1>1, <2>2, <2>3, <3>1, NoneFit
  <2>4. CASE n > 0
    <3>1. Total(w) = 0
      BY <1>4, <2>4, EmptyTotal
    <3>2. Fits(copies, res)
      BY <1>2, <3>1 DEF Fits
    <3>. QED  BY <1>1, <1>2, <2>2, <3>2
  <2>. QED  BY <1>1, <2>3, <2>4
<1>. QED  BY <1>3, <1>4

-----------------------------------------------------------------------------
\* A scenario as it is in memory: every field is there and has its type.
Scenario ==
  [name : Strings, source : Strings, default : BOOLEAN, iterations : Int, gateways : Int,
   services : ResourceCount, pods : ResourceCount, dnsendpoints : ResourceCount]

LEMMA FieldsMakeScenario ==
  ASSUME NEW o,
         o = [f \in {"name", "source", "default", "iterations", "gateways", "services", "pods",
                     "dnsendpoints"} |-> o[f]],
         o.name \in Strings, o.source \in Strings, o.default \in BOOLEAN,
         o.iterations \in Int, o.gateways \in Int, o.services \in ResourceCount,
         o.pods \in ResourceCount, o.dnsendpoints \in ResourceCount
  PROVE  o \in Scenario
<1>1. o = [name |-> o.name, source |-> o.source, default |-> o.default, iterations |-> o.iterations,
          gateways |-> o.gateways, services |-> o.services, pods |-> o.pods,
          dnsendpoints |-> o.dnsendpoints]
  OBVIOUS
<1>. QED  BY <1>1 DEF Scenario

LEMMA ScenarioFacts ==
  /\ NoScenario \in Scenario /\ DefaultScenario \in Scenario
  /\ \A s \in Scenario : DOMAIN s = DOMAIN NoScenario
<1>1. Count(0) \in ResourceCount /\ Count(1) \in ResourceCount
  BY EmptyTotal DEF Count, ResourceCount
<1>2. NoScenario \in Scenario
  BY <1>1 DEF NoScenario, Scenario, Strings
<1>3. DefaultScenario \in Scenario
  <2>. DEFINE o == DefaultScenario
  <2>1. DOMAIN NoScenario = {"name", "source", "default", "iterations", "gateways", "services", "pods",
                             "dnsendpoints"}
    BY DEF NoScenario
  <2>2. /\ o.name = "istio-quick-smoke" /\ o.source = "istio" /\ o.default = TRUE
        /\ o.iterations = 10 /\ o.services = Count(1) /\ o.gateways = 10
        /\ o.pods = Count(0) /\ o.dnsendpoints = Count(0)
    BY <2>1 DEF DefaultScenario, NoScenario
  <2>3. o = [f \in DOMAIN NoScenario |-> o[f]]
    BY DEF DefaultScenario
  <2>. HIDE DEF o
  <2>4. /\ o.name \in Strings /\ o.source \in Strings /\ o.default \in BOOLEAN
        /\ o.iterations \in Int /\ o.gateways \in Int /\ o.services \in ResourceCount
        /\ o.pods \in ResourceCount /\ o.dnsendpoints \in ResourceCount
    <3>1. o.name \in Strings /\ o.source \in Strings
      BY <2>2 DEF Strings
    <3>2. o.default \in BOOLEAN
      BY <2>2
    <3>3. o.iterations \in Int /\ o.gateways \in Int
      BY <2>2
    <3>. QED  BY <1>1, <2>2, <3>1, <3>2, <3>3
  <2>5. o \in Scenario
    BY <2>1, <2>3, <2>4, FieldsMakeScenario
  <2>. QED  BY <2>5 DEF o
<1>4. \A s \in Scenario : DOMAIN s = DOMAIN NoScenario
  BY DEF Scenario, NoScenario
<1>. QED  BY <1>2, <1>3, <1>4

\* What encoding/json makes of a scenario that is written.
LEMMA OverFacts ==
  ASSUME NEW v, Written(v), NEW s \in Scenario
  PROVE  Over(v, s) \in Scenario
<1>1. DOMAIN s = {"name", "source", "default", "iterations", "gateways", "services", "pods", "dnsendpoints"}
  BY DEF Scenario
<1>2. \A f \in DOMAIN s : Over(v, s)[f] = IF Has(v, f) THEN v[f] ELSE s[f]
  BY DEF Over
<1>3. \A f \in DOMAIN v : f \in DOMAIN FieldTypes /\ v[f] \in FieldTypes[f]
  BY DEF Written
<1>. DEFINE Wide(f) == IF f \in {"name", "source"} THEN Strings ELSE FieldTypes[f]
<1>4. \A f \in DOMAIN s : s[f] \in Wide(f)
  BY <1>1 DEF FieldTypes, Scenario
<1>5. \A f \in DOMAIN s : Over(v, s)[f] \in Wide(f)
  <2>1. \A f \in DOMAIN v : v[f] \in Wide(f)
    BY <1>3 DEF FieldTypes, Strings
  <2>. HIDE DEF Wide
  <2>. QED  BY <1>2, <1>4, <2>1 DEF Has
<1>6. DOMAIN Over(v, s) = DOMAIN s /\ Over(v, s) = [f \in DOMAIN s |-> Over(v, s)[f]]
  BY DEF Over
<1>. DEFINE o == Over(v, s)
<1>7. /\ o.name \in Strings /\ o.source \in Strings /\ o.default \in BOOLEAN
      /\ o.iterations \in Int /\ o.gateways \in Int /\ o.services \in ResourceCount
      /\ o.pods \in ResourceCount /\ o.dnsendpoints \in ResourceCount
  BY <1>1, <1>5 DEF FieldTypes
<1>8. o = [f \in {"name", "source", "default", "iterations", "gateways", "services", "pods",
                  "dnsendpoints"} |-> o[f]]
  BY <1>1, <1>6
<1>. HIDE DEF o
<1>9. o \in Scenario
  BY <1>7, <1>8, FieldsMakeScenario
<1>. QED  BY <1>9 DEF o

\* The configuration that is loaded from a file which can be.
Loaded == IF Has(File(path), "absent") THEN DefaultConfig ELSE Decoded(File(path))
Decodable == ~Has(File(path), "absent") => Loadable(File(path))

LEMMA FileFacts ==
  ASSUME disk \in Disks, NEW p
  PROVE  LET w == File(p)
         IN  /\ Has(w, "absent") => DOMAIN w = {"absent"}
             /\ Has(w, "skipSetup") => w.skipSetup \in {"true", "false"}
             /\ Has(w, "scenarios") =>
                  /\ Len(w.scenarios) \in Nat /\ DOMAIN w.scenarios = 1 .. Len(w.scenarios)
                  /\ \A i \in DOMAIN w.scenarios : Written(w.scenarios[i])
<1>1. CASE p \in DOMAIN disk
  BY <1>1, DisksAssumption DEF File
<1>2. CASE p \notin DOMAIN disk
  BY <1>2 DEF File, Has
<1>. QED  BY <1>1, <1>2

LEMMA LoadedFacts ==
  ASSUME disk \in Disks, Decodable
  PROVE  /\ Loaded.skipSetup \in {"true", "false"} /\ IsInt(Loaded.latencyMs)
         /\ Loaded.scenarios \in Seq(Scenario)
         /\ ~Has(File(path), "scenarios") => Loaded.scenarios = <<DefaultScenario>>
         /\ Has(File(path), "scenarios") =>
              /\ Len(Loaded.scenarios) = Len(File(path).scenarios)
              /\ \A i \in 1 .. Len(Loaded.scenarios) :
                   Loaded.scenarios[i] =
                     Over(File(path).scenarios[i], IF i = 1 THEN DefaultScenario ELSE NoScenario)
<1>. DEFINE w == File(path)
<1>1. /\ DefaultConfig.skipSetup = "false" /\ DefaultConfig.latencyMs = "0"
      /\ DefaultConfig.scenarios = <<DefaultScenario>> /\ DefaultConfig.scenarios \in Seq(Scenario)
  BY ScenarioFacts DEF DefaultConfig
<1>2. CASE Has(w, "absent")
  <2>1. Loaded = DefaultConfig /\ ~Has(w, "scenarios")
    BY <1>2, FileFacts DEF Loaded, Has
  <2>. QED  BY <1>1, <2>1 DEF IsInt
<1>3. CASE ~Has(w, "absent")
  <2>1. Loaded = Decoded(w) /\ Loadable(w)
    BY <1>3 DEF Loaded, Decodable
  <2>2. Loaded.skipSetup \in {"true", "false"}
    BY <1>1, <2>1, FileFacts DEF Decoded
  <2>3. IsInt(Loaded.latencyMs)
    BY <1>1, <2>1 DEF Decoded, Loadable, Millis, IsMillis, IsInt
  <2>4. CASE ~Has(w, "scenarios")
    BY <1>1, <2>1, <2>2, <2>3, <2>4 DEF Decoded
  <2>5. CASE Has(w, "scenarios")
    <3>. DEFINE n == Len(w.scenarios)
                o(i) == Over(w.scenarios[i], IF i = 1 THEN DefaultScenario ELSE NoScenario)
    <3>1. n \in Nat /\ DOMAIN w.scenarios = 1 .. n /\ \A i \in 1 .. n : Written(w.scenarios[i])
      BY <2>5, FileFacts
    <3>2. \A i \in 1 .. n : o(i) \in Scenario
      BY <3>1, ScenarioFacts, OverFacts
    <3>3. Loaded.scenarios = [i \in 1 .. n |-> o(i)]
      BY <2>1, <2>5, <3>1 DEF Decoded
    <3>. DEFINE l == Loaded.scenarios
    <3>4. l \in [1 .. n -> Scenario] /\ \A i \in 1 .. n : l[i] = o(i)
      BY <3>2, <3>3
    <3>. HIDE DEF n, o, l
    <3>5. l \in Seq(Scenario) /\ Len(l) = n
      <4>1. l \in Seq(Scenario)
        BY <3>1, <3>4
      <4>. QED  BY <3>1, <3>4, <4>1
    <3>. QED  BY <2>2, <2>3, <2>5, <3>4, <3>5 DEF n, o, l
  <2>. QED  BY <2>4, <2>5
<1>. QED  BY <1>2, <1>3

-----------------------------------------------------------------------------
\* The value of the last of the first m arguments that names a flag.
LastUpto(n, m, otherwise) ==
  LET S == {i \in 1 .. m : args[i].name = n}
  IN  IF S = {} THEN otherwise ELSE args[CHOOSE i \in S : \A j \in S : j <= i].value

LEMMA LastUptoStep ==
  ASSUME NEW n, NEW otherwise, NEW m \in Nat
  PROVE  /\ LastUpto(n, 0, otherwise) = otherwise
         /\ LastUpto(n, m + 1, otherwise) =
              IF args[m + 1].name = n THEN args[m + 1].value ELSE LastUpto(n, m, otherwise)
<1>. DEFINE S(k) == {i \in 1 .. k : args[i].name = n}
<1>1. S(0) = {}
  OBVIOUS
<1>2. CASE args[m + 1].name = n
  <2>1. m + 1 \in S(m + 1) /\ \A j \in S(m + 1) : j <= m + 1
    BY <1>2
  <2>2. \A i \in S(m + 1) : (\A j \in S(m + 1) : j <= i) => i = m + 1
    <3>1. \A i \in S(m + 1) : i \in Int
      OBVIOUS
    <3>. HIDE DEF S
    <3>. QED  BY <2>1, <3>1
  <2>3. (CHOOSE i \in S(m + 1) : \A j \in S(m + 1) : j <= i) = m + 1
    <3>. HIDE DEF S
    <3>. QED  BY <2>1, <2>2
  <2>. QED  BY <1>1, <1>2, <2>1, <2>3 DEF LastUpto
<1>3. CASE args[m + 1].name # n
  <2>1. S(m + 1) = S(m)
    BY <1>3
  <2>2. \A k \in Nat : LastUpto(n, k, otherwise) =
          IF S(k) = {} THEN otherwise ELSE args[CHOOSE i \in S(k) : \A j \in S(k) : j <= i].value
    BY DEF LastUpto
  <2>. HIDE DEF S
  <2>. QED  BY <1>1, <1>3, <2>1, <2>2
<1>. QED  BY <1>2, <1>3

\* Every flag is written as -name=value.
AllEq == \A i \in DOMAIN args : args[i].form = "eq"

Reading == pc \in {"parse", "select"} \/ Selected

\* How many arguments are parsed.
Parsed == IF pc = "parse" THEN pos - 1 ELSE Len(args)

LoadedOnce ==
  /\ pc # "args" => path = ConfigFile
  /\ Reading => cfg = Loaded /\ Decodable /\ Len(Defaults(cfg.scenarios)) <= 1

ParsedSoFar ==
  /\ pc \in {"args", "load"} => pos = 1
  /\ Reading /\ AllEq =>
       \A n \in {"scenario", "skipSetup", "latencyMs"} :
         flags[n] = LastUpto(n, Parsed, FlagDefaults(cfg)[n])

SelectedWell ==
  Selected => selected = Selection /\ selected # <<>> /\ pos = 1

\* Labels are there when they fit: only then does a run go on to be measured.
SharedWell ==
  /\ pc \in {"args", "load", "parse", "select", "build", "split"} => shares = <<>>
  /\ pc \in {"steady", "done"} =>
       shares = <<>> \/ (shares = Split(Scen) /\ ~MakesNegative(Scen) /\ ~OutOfRange(Scen))
  /\ pc = "panic" => Scen.iterations < 1 \/ MakesNegative(Scen) \/ OutOfRange(Scen)

\* The inductive invariant.
IInv == TypeOK /\ LoadedOnce /\ ParsedSoFar /\ SelectedWell /\ SharedWell

LEMMA ArgsFacts ==
  ASSUME args \in CommandLines
  PROVE  /\ Len(args) \in Nat /\ DOMAIN args = 1 .. Len(args)
         /\ \A i \in 1 .. Len(args) : args[i].form \in {"eq", "bare", "word", "end"}
<1>. DEFINE R == [name : STRING, form : {"eq", "bare", "word", "end"}, value : STRING]
<1>1. args \in Seq(R)
  BY CommandLinesAssumption
<1>2. \A r \in R : r.form \in {"eq", "bare", "word", "end"}
  OBVIOUS
<1>. HIDE DEF R
<1>3. Len(args) \in Nat /\ DOMAIN args = 1 .. Len(args) /\ \A i \in 1 .. Len(args) : args[i] \in R
  BY <1>1
<1>. QED  BY <1>2, <1>3

\* A configuration that is loaded has typed scenarios, and one of them is selected.
LEMMA ScenarioSelected ==
  ASSUME cfg.scenarios \in Seq(Scenario), Len(Defaults(cfg.scenarios)) <= 1, Selection # <<>>
  PROVE  /\ Selection \in Seq(Scenario) /\ Len(Selection) = 1
         /\ \E i \in 1 .. Len(cfg.scenarios) : Selection[1] = cfg.scenarios[i]
         /\ IF flags.scenario # "" THEN Selection[1].name = flags.scenario
            ELSE \A i \in 1 .. Len(cfg.scenarios) :
                   IsDefault(cfg.scenarios[i]) => cfg.scenarios[i] = Selection[1]
<1>. DEFINE all == cfg.scenarios
<1>1. all \in Seq(Scenario) /\ Len(all) \in Nat /\ DOMAIN all = 1 .. Len(all)
  OBVIOUS
<1>2. CASE flags.scenario = ""
  <2>. DEFINE d == Defaults(all)
  <2>1. Selection = d
    BY <1>2 DEF Selection
  <2>2. d \in Seq(Scenario) /\ d # <<>> /\ Len(d) <= 1
    BY <2>1, DefaultsFacts
  <2>3. /\ \A i \in 1 .. Len(all) : IsDefault(all[i]) => \E j \in 1 .. Len(d) : d[j] = all[i]
        /\ \A j \in 1 .. Len(d) : \E i \in 1 .. Len(all) : d[j] = all[i]
    BY DefaultsFacts
  <2>. HIDE DEF d, all
  <2>4. Len(d) = 1 /\ 1 \in 1 .. Len(d)
    BY <2>2
  <2>5. (\E i \in 1 .. Len(all) : d[1] = all[i]) /\ \A i \in 1 .. Len(all) : IsDefault(all[i]) => all[i] = d[1]
    BY <2>3, <2>4
  <2>. QED  BY <1>2, <2>1, <2>2, <2>4, <2>5 DEF all
<1>3. CASE flags.scenario # ""
  <2>1. Named # {} /\ Selection = <<all[CHOOSE i \in Named : \A j \in Named : i <= j]>>
    BY <1>3 DEF Selection
  <2>2. Named \subseteq Nat /\ Named \subseteq 1 .. Len(all)
    BY <1>1 DEF Named
  <2>3. PICK i \in Named : \A j \in Named : ~(<<j, i>> \in OpToRel(<, Nat))
    BY <2>1, <2>2, NatLessThanWellFounded, WFMin
  <2>4. \A j \in Named : i <= j
    <3> SUFFICES ASSUME NEW j \in Named, j < i PROVE FALSE
      BY <2>2
    <3>1. <<j, i>> \in OpToRel(<, Nat)
      BY <2>2 DEF OpToRel
    <3>. QED  BY <2>3, <3>1
  <2>5. (CHOOSE c \in Named : \A j \in Named : c <= j) \in Named
    BY <2>4
  <2>6. PICK k \in Named : Selection = <<all[k]>>
    BY <2>1, <2>5
  <2>7. k \in 1 .. Len(all) /\ all[k].name = flags.scenario
    BY <2>2 DEF Named
  <2>8. Selection \in Seq(Scenario) /\ Len(Selection) = 1 /\ Selection[1] = all[k]
    <3>1. all[k] \in Scenario
      BY <1>1, <2>7
    <3>. HIDE DEF all
    <3>. QED  BY <2>6, <3>1
  <2>. QED  BY <1>3, <2>7, <2>8
<1>. QED  BY <1>2, <1>3

LEMMA SelectionFacts ==
  ASSUME IInv, Reading
  PROVE  /\ cfg.scenarios \in Seq(Scenario) /\ Len(Defaults(cfg.scenarios)) <= 1
         /\ cfg.skipSetup \in {"true", "false"} /\ IsInt(cfg.latencyMs)
         /\ Selected => /\ Len(selected) = 1 /\ pos = 1 /\ Scen = Selection[1]
                        /\ Scen \in Scenario
<1>1. cfg = Loaded /\ Decodable /\ disk \in Disks /\ Len(Defaults(cfg.scenarios)) <= 1
  BY DEF IInv, LoadedOnce, TypeOK
<1>2. cfg.scenarios \in Seq(Scenario) /\ cfg.skipSetup \in {"true", "false"} /\ IsInt(cfg.latencyMs)
  BY <1>1, LoadedFacts
<1>3. ASSUME Selected
      PROVE  Len(selected) = 1 /\ pos = 1 /\ Scen = Selection[1] /\ Scen \in Scenario
  <2>1. selected = Selection /\ Selection # <<>> /\ pos = 1
    BY <1>3 DEF IInv, SelectedWell
  <2>2. Selection \in Seq(Scenario) /\ Len(Selection) = 1
    BY <1>1, <1>2, <2>1, ScenarioSelected
  <2>. QED  BY <2>1, <2>2 DEF Scen
<1>. QED  BY <1>1, <1>2, <1>3

\* What the arguments and the files say does not change.
LEMMA InputStays ==
  ASSUME UNCHANGED <<args, disk>>
  PROVE  /\ ConfigFile' = ConfigFile /\ AllEq' = AllEq
         /\ \A n, m, o : LastUpto(n, m, o)' = LastUpto(n, m, o)
         /\ path' = path => Loaded' = Loaded /\ Decodable' = Decodable
         /\ path' = path => \A c : FlagDefaults(c)' = FlagDefaults(c)
         /\ cfg' = cfg /\ flags' = flags => Selection' = Selection
<1>1. ConfigFile' = ConfigFile /\ AllEq' = AllEq
  BY DEF ConfigFile, ConfigArgs, AllEq, Text
<1>2. \A n, m, o : LastUpto(n, m, o)' = LastUpto(n, m, o)
  BY DEF LastUpto
<1>3. path' = path => Loaded' = Loaded /\ Decodable' = Decodable
  BY DEF Loaded, Decodable, Decoded, File, Loadable
<1>4. path' = path => \A c : FlagDefaults(c)' = FlagDefaults(c)
  BY DEF FlagDefaults
<1>5. cfg' = cfg /\ flags' = flags => Selection' = Selection
  BY DEF Selection, Named
<1>. QED  BY <1>1, <1>2, <1>3, <1>4, <1>5

LEMMA InitIInv == Init => IInv
<1> SUFFICES ASSUME Init PROVE IInv
  OBVIOUS
<1>. USE DEF Init
<1>1. ~Reading /\ ~Selected
  BY DEF Reading, Selected
<1>2. TypeOK
  <2>2. args \in CommandLines
    OBVIOUS
  <2>3. pos \in 1 .. Len(args) + 1
    <3>1. Len(args) \in Nat
      BY <2>2, ArgsFacts
    <3>2. pos = 1
      OBVIOUS
    <3>. HIDE DEF Init
    <3>. QED  BY <3>1, <3>2
  <2>. QED  BY <1>1, <2>3 DEF TypeOK
<1>3. LoadedOnce /\ ParsedSoFar /\ SelectedWell /\ SharedWell
  BY <1>1 DEF LoadedOnce, ParsedSoFar, SelectedWell, SharedWell
<1>. QED  BY <1>2, <1>3 DEF IInv

LEMMA DefaultConfigFacts ==
  /\ DefaultConfig.scenarios = <<DefaultScenario>> /\ DefaultConfig.scenarios \in Seq(Scenario)
  /\ Len(Defaults(DefaultConfig.scenarios)) <= 1
<1>1. DefaultConfig.scenarios = <<DefaultScenario>>
  BY DEF DefaultConfig
<1>2. <<DefaultScenario>> \in Seq(Scenario) /\ Len(<<DefaultScenario>>) = 1
  BY ScenarioFacts
<1>. DEFINE d == <<DefaultScenario>>
<1>3. d \in Seq(Scenario) /\ Len(d) = 1
  BY <1>2
<1>. HIDE DEF d
<1>4. Defaults(d) \in Seq(Scenario) /\ Len(Defaults(d)) <= 1
  BY <1>3, DefaultsFacts
<1>. QED  BY <1>1, <1>3, <1>4 DEF d

LEMMA ConfigFileFromArgsIInv ==
  ASSUME IInv, ConfigFileFromArgs
  PROVE  IInv'
<1>. USE DEF ConfigFileFromArgs
<1>1. ~Reading' /\ ~Selected' /\ pc' = "load"
  BY DEF Reading, Selected
<1>2. TypeOK'
  BY <1>1 DEF IInv, TypeOK
<1>3. path' = ConfigFile' /\ UNCHANGED <<args, disk>>
  BY InputStays
<1>. QED  BY <1>1, <1>2, <1>3 DEF IInv, LoadedOnce, ParsedSoFar, SelectedWell, SharedWell

\* A configuration that is loaded, before any argument is parsed.
LEMMA LoadIInv ==
  ASSUME IInv, NEW c, Load(c), c = Loaded, Decodable, Len(Defaults(c.scenarios)) <= 1
  PROVE  IInv'
<1>. USE DEF Load
<1>1. /\ pc = "load" /\ pc' = "parse" /\ ~Selected' /\ ~Selected /\ Reading'
      /\ UNCHANGED <<args, disk, path, pos, selected, shares>> /\ cfg' = c
  BY DEF Reading, Selected
<1>2. /\ c.scenarios \in Seq(Scenario) /\ c.skipSetup \in {"true", "false"} /\ IsInt(c.latencyMs)
  BY LoadedFacts DEF IInv, TypeOK
<1>3. \A i \in DOMAIN c.scenarios : DOMAIN c.scenarios[i] = DOMAIN NoScenario
  <2>1. \A i \in DOMAIN c.scenarios : c.scenarios[i] \in Scenario
    BY <1>2
  <2>. QED  BY <2>1, ScenarioFacts
<1>4. flags' = FlagDefaults(c) /\ flags'.skipSetup = c.skipSetup /\ flags'.latencyMs = c.latencyMs
      /\ DOMAIN flags' = {"config", "scenario", "skipSetup", "latencyMs"}
  BY DEF FlagDefaults
<1>5. TypeOK'
  <2>1. /\ args' \in CommandLines /\ disk' \in Disks /\ pos' \in 1 .. Len(args') + 1
    BY <1>1 DEF IInv, TypeOK
  <2>2. IsInt(flags'.latencyMs) /\ flags'.skipSetup \in {"true", "false"}
    BY <1>2, <1>4
  <2>. QED  BY <1>1, <1>3, <1>4, <2>1, <2>2 DEF TypeOK
<1>6. LoadedOnce'
  <2>1. path' = ConfigFile' /\ Loaded' = c /\ Decodable'
    BY <1>1, InputStays DEF IInv, LoadedOnce
  <2>. QED  BY <1>1, <2>1 DEF LoadedOnce
<1>7. ParsedSoFar'
  <2>1. Parsed' = 0 /\ cfg' = c /\ flags' = FlagDefaults(cfg)'
    <3>1. pos = 1
      BY <1>1 DEF IInv, ParsedSoFar
    <3>2. Parsed' = pos' - 1 /\ pos' = 1
      BY <1>1, <3>1 DEF Parsed
    <3>3. flags' = FlagDefaults(cfg)'
      BY <1>1, <1>4 DEF FlagDefaults
    <3>. QED  BY <1>1, <3>2, <3>3
  <2>2. \A n, o : LastUpto(n, 0, o) = o
    BY LastUptoStep
  <2>3. \A n, m, o : LastUpto(n, m, o)' = LastUpto(n, m, o)
    BY <1>1, InputStays
  <2>4. ASSUME NEW n \in {"scenario", "skipSetup", "latencyMs"}
        PROVE  (flags[n] = LastUpto(n, Parsed, FlagDefaults(cfg)[n]))'
    <3>1. LastUpto(n, Parsed, FlagDefaults(cfg)[n])' = LastUpto(n, 0, FlagDefaults(c)[n])
      <4>1. FlagDefaults(cfg)'[n] = FlagDefaults(c)[n]
        BY <1>4, <2>1
      <4>. QED  BY <1>1, <2>1, <4>1 DEF LastUpto
    <3>. QED  BY <1>4, <2>2, <3>1
  <2>. QED  BY <1>1, <2>4 DEF ParsedSoFar
<1>. QED  BY <1>1, <1>5, <1>6, <1>7 DEF IInv, SelectedWell, SharedWell

LEMMA LoadConfigIInv ==
  ASSUME IInv, LoadNothing \/ LoadConfig
  PROVE  IInv'
<1>1. CASE LoadNothing
  <2>1. Load(DefaultConfig) /\ DefaultConfig = Loaded /\ Decodable
    BY <1>1 DEF LoadNothing, Loaded, Decodable
  <2>. QED  BY <2>1, DefaultConfigFacts, LoadIInv
<1>2. CASE LoadConfig
  <2>1. Load(Decoded(File(path))) /\ Decoded(File(path)) = Loaded /\ Decodable
        /\ Len(Defaults(Decoded(File(path)).scenarios)) <= 1
    BY <1>2 DEF LoadConfig, Loaded, Decodable
  <2>. QED  BY <2>1, LoadIInv
<1>. QED  BY <1>1, <1>2

\* A step that ends the run, or the first phase of it, and changes nothing else.
LEMMA EndIInv ==
  ASSUME IInv, pc' \in {"exit1", "exit2", "usage", "error"},
         UNCHANGED <<args, disk, pos, path, cfg, flags, selected, shares>>,
         pc' = "exit1" \/ Reading, pc # "args"
  PROVE  IInv'
<1>1. ~Reading' /\ ~Selected'
  BY DEF Reading, Selected
<1>2. TypeOK'
  <2>1. Reading => pc \notin {"args", "load", "exit1"}
    BY DEF Reading, Selected
  <2>. QED  BY <1>1, <2>1 DEF IInv, TypeOK
<1>3. path' = ConfigFile'
  BY InputStays DEF IInv, LoadedOnce
<1>. QED  BY <1>1, <1>2, <1>3 DEF IInv, LoadedOnce, ParsedSoFar, SelectedWell, SharedWell

LEMMA ParseFlagIInv ==
  ASSUME IInv, ParseFlag
  PROVE  IInv'
<1>. USE DEF ParseFlag
<1>1. /\ pc = "parse" /\ pc' = "parse" /\ ~Selected' /\ ~Selected /\ Reading /\ Reading'
      /\ UNCHANGED <<args, disk, path, cfg, selected, shares>>
      /\ IsFlag /\ HasValue /\ Accepts(Arg.name, Value)
      /\ flags' = [flags EXCEPT ![Arg.name] = Value]
      /\ pos' = IF Arg.form = "eq" \/ IsBool(Arg.name) THEN pos + 1 ELSE pos + 2
  BY DEF Reading, Selected
<1>2. Len(args) \in Nat /\ pos \in 1 .. Len(args) /\ DOMAIN args = 1 .. Len(args)
  BY <1>1, ArgsFacts DEF IInv, TypeOK, IsFlag
<1>3. /\ DOMAIN flags = {"config", "scenario", "skipSetup", "latencyMs"}
      /\ flags.skipSetup \in {"true", "false"} /\ IsInt(flags.latencyMs)
      /\ \A i \in DOMAIN cfg.scenarios : DOMAIN cfg.scenarios[i] = DOMAIN NoScenario
  BY <1>1 DEF IInv, TypeOK
<1>4. TypeOK'
  <2>1. pos' \in 1 .. Len(args) + 1
    BY <1>1, <1>2 DEF HasValue
  <2>2. /\ DOMAIN flags' = {"config", "scenario", "skipSetup", "latencyMs"}
        /\ flags'.skipSetup \in {"true", "false"} /\ IsInt(flags'.latencyMs)
    <3>. DEFINE n == Arg.name  v == Value
    <3>1. /\ n \in {"config", "scenario", "skipSetup", "latencyMs"}
          /\ n = "skipSetup" => v \in {"true", "false"}
          /\ n = "latencyMs" => IsInt(v)
      BY <1>1 DEF Accepts
    <3>2. flags' = [flags EXCEPT ![n] = v]
      BY <1>1
    <3>. HIDE DEF n, v
    <3>. QED  BY <1>3, <3>1, <3>2
  <2>3. args' \in CommandLines /\ disk' \in Disks
    BY <1>1 DEF IInv, TypeOK
  <2>. QED  BY <1>1, <1>3, <2>1, <2>2, <2>3 DEF TypeOK
<1>5. LoadedOnce'
  <2>1. path' = ConfigFile' /\ Loaded' = Loaded /\ Decodable' = Decodable
    BY <1>1, InputStays DEF IInv, LoadedOnce
  <2>. QED  BY <1>1, <2>1 DEF IInv, LoadedOnce
<1>6. ParsedSoFar'
  <2> SUFFICES ASSUME AllEq', NEW n \in {"scenario", "skipSetup", "latencyMs"}
               PROVE  (flags[n] = LastUpto(n, Parsed, FlagDefaults(cfg)[n]))'
    BY <1>1 DEF ParsedSoFar
  <2>. DEFINE m == pos - 1  o == FlagDefaults(cfg)[n]
  <2>1. AllEq /\ Arg = args[m + 1] /\ Arg.form = "eq" /\ m \in Nat /\ m + 1 = pos
    BY <1>1, <1>2, InputStays DEF AllEq, Arg
  <2>2. Parsed = m /\ Parsed' = m + 1
    BY <1>1, <1>2, <2>1 DEF Parsed
  <2>3. flags[n] = LastUpto(n, m, o)
    BY <1>1, <2>1, <2>2 DEF IInv, ParsedSoFar
  <2>4. LastUpto(n, Parsed, FlagDefaults(cfg)[n])' = LastUpto(n, m + 1, o)
    BY <1>1, <2>2 DEF LastUpto, FlagDefaults
  <2>5. LastUpto(n, m + 1, o) = IF args[m + 1].name = n THEN args[m + 1].value ELSE LastUpto(n, m, o)
    BY <2>1, LastUptoStep
  <2>6. Value = args[m + 1].value
    BY <2>1 DEF Value
  <2>7. flags'[n] = IF args[m + 1].name = n THEN args[m + 1].value ELSE flags[n]
    BY <1>1, <1>3, <2>1, <2>6
  <2>. QED  BY <2>3, <2>4, <2>5, <2>7
<1>. QED  BY <1>1, <1>4, <1>5, <1>6 DEF IInv, SelectedWell, SharedWell

LEMMA ParseEndsIInv ==
  ASSUME IInv, ParseEnds
  PROVE  IInv'
<1>1. /\ pc = "parse" /\ pc' = "select" /\ ~Selected' /\ Reading /\ Reading' /\ ~IsFlag
      /\ UNCHANGED <<args, disk, pos, path, cfg, flags, selected, shares>>
  BY DEF ParseEnds, Reading, Selected
<1>2. TypeOK'
  BY <1>1 DEF IInv, TypeOK
<1>3. LoadedOnce'
  <2>1. path' = ConfigFile' /\ Loaded' = Loaded /\ Decodable' = Decodable
    BY <1>1, InputStays DEF IInv, LoadedOnce
  <2>. QED  BY <1>1, <2>1 DEF IInv, LoadedOnce
<1>4. ParsedSoFar'
  <2> SUFFICES ASSUME AllEq', NEW n \in {"scenario", "skipSetup", "latencyMs"}
               PROVE  (flags[n] = LastUpto(n, Parsed, FlagDefaults(cfg)[n]))'
    BY <1>1 DEF ParsedSoFar
  <2>1. AllEq
    BY <1>1, InputStays
  <2>2. pos = Len(args) + 1
    BY <1>1, <2>1, ArgsFacts DEF IInv, TypeOK, IsFlag, Arg, AllEq
  <2>3. Parsed = Len(args) /\ Parsed' = Len(args)
    BY <1>1, <2>2, ArgsFacts DEF Parsed, IInv, TypeOK
  <2>4. flags[n] = LastUpto(n, Len(args), FlagDefaults(cfg)[n])
    BY <1>1, <2>1, <2>3 DEF IInv, ParsedSoFar
  <2>5. LastUpto(n, Parsed, FlagDefaults(cfg)[n])' = LastUpto(n, Len(args), FlagDefaults(cfg)[n])
    BY <1>1, <2>3 DEF LastUpto, FlagDefaults
  <2>. QED  BY <1>1, <2>4, <2>5
<1>. QED  BY <1>1, <1>2, <1>3, <1>4 DEF IInv, SelectedWell, SharedWell

LEMMA SelectScenariosIInv ==
  ASSUME IInv, SelectScenarios
  PROVE  IInv'
<1>1. /\ pc = "select" /\ pc' = "build" /\ Selected' /\ ~Selected /\ Reading /\ Reading'
      /\ Selection # <<>> /\ selected' = Selection /\ pos' = 1
      /\ UNCHANGED <<args, disk, path, cfg, flags, shares>>
  BY DEF SelectScenarios, Reading, Selected
<1>2. Selection \in Seq(Scenario) /\ Len(Selection) = 1
  BY <1>1, SelectionFacts, ScenarioSelected
<1>3. TypeOK'
  <2>1. pos' \in 1 .. Len(args') + 1
    <3>1. Len(args) \in Nat
      BY ArgsFacts DEF IInv, TypeOK
    <3>. QED  BY <1>1, <3>1
  <2>2. pos' \in DOMAIN selected'
    <3>1. 1 \in DOMAIN Selection
      BY <1>2
    <3>. QED  BY <1>1, <3>1
  <2>. QED  BY <1>1, <2>1, <2>2 DEF IInv, TypeOK
<1>4. LoadedOnce'
  <2>1. path' = ConfigFile' /\ Loaded' = Loaded /\ Decodable' = Decodable
    BY <1>1, InputStays DEF IInv, LoadedOnce
  <2>. QED  BY <1>1, <2>1 DEF IInv, LoadedOnce
<1>5. ParsedSoFar'
  <2> SUFFICES ASSUME AllEq', NEW n \in {"scenario", "skipSetup", "latencyMs"}
               PROVE  (flags[n] = LastUpto(n, Parsed, FlagDefaults(cfg)[n]))'
    BY <1>1 DEF ParsedSoFar
  <2>1. AllEq /\ Parsed = Len(args) /\ Parsed' = Len(args)
    BY <1>1, InputStays DEF Parsed
  <2>2. flags[n] = LastUpto(n, Len(args), FlagDefaults(cfg)[n])
    BY <1>1, <2>1 DEF IInv, ParsedSoFar
  <2>3. LastUpto(n, Parsed, FlagDefaults(cfg)[n])' = LastUpto(n, Len(args), FlagDefaults(cfg)[n])
    BY <1>1, <2>1 DEF LastUpto, FlagDefaults
  <2>. QED  BY <1>1, <2>2, <2>3
<1>6. SelectedWell'
  BY <1>1, InputStays DEF SelectedWell
<1>7. SharedWell'
  BY <1>1 DEF IInv, SharedWell
<1>. QED  BY <1>3, <1>4, <1>5, <1>6, <1>7 DEF IInv

\* A step of a run that goes on with its scenario.
LEMMA RunIInv ==
  ASSUME IInv, Selected, Selected', SharedWell',
         UNCHANGED <<args, disk, pos, path, cfg, flags, selected>>
  PROVE  IInv'
<1>1. Reading /\ Reading' /\ pc # "parse" /\ pc' # "parse" /\ pc # "args" /\ pc' \notin {"args", "load", "exit1"}
      /\ pc \notin {"args", "load", "exit1"}
      /\ pc' \in {"build", "split", "steady", "done", "panic"}
  BY DEF Reading, Selected
<1>2. TypeOK'
  BY <1>1 DEF IInv, TypeOK
<1>3. LoadedOnce'
  <2>1. path' = ConfigFile' /\ Loaded' = Loaded /\ Decodable' = Decodable
    BY <1>1, InputStays DEF IInv, LoadedOnce
  <2>. QED  BY <1>1, <2>1 DEF IInv, LoadedOnce
<1>4. ParsedSoFar'
  <2> SUFFICES ASSUME AllEq', NEW n \in {"scenario", "skipSetup", "latencyMs"}
               PROVE  (flags[n] = LastUpto(n, Parsed, FlagDefaults(cfg)[n]))'
    BY <1>1 DEF ParsedSoFar
  <2>1. AllEq /\ Parsed = Len(args) /\ Parsed' = Len(args)
    BY <1>1, InputStays DEF Parsed
  <2>2. flags[n] = LastUpto(n, Len(args), FlagDefaults(cfg)[n])
    BY <1>1, <2>1 DEF IInv, ParsedSoFar
  <2>3. LastUpto(n, Parsed, FlagDefaults(cfg)[n])' = LastUpto(n, Len(args), FlagDefaults(cfg)[n])
    BY <1>1, <2>1 DEF LastUpto, FlagDefaults
  <2>. QED  BY <2>2, <2>3
<1>5. SelectedWell'
  <2>1. Selection' = Selection
    BY InputStays
  <2>. QED  BY <2>1 DEF IInv, SelectedWell
<1>. QED  BY <1>2, <1>3, <1>4, <1>5 DEF IInv

LEMMA RunStepIInv ==
  ASSUME IInv, SelectFails \/ BuildRunners \/ SetupFixtures \/ Steady
  PROVE  IInv'
<1>1. CASE SelectFails
  BY <1>1, EndIInv DEF SelectFails, Reading
<1>2. CASE BuildRunners
  <2>. USE DEF BuildRunners
  <2>1. Selected /\ Reading /\ shares = <<>> /\ shares' = <<>>
    BY <1>2 DEF Selected, Reading, IInv, SharedWell
  <2>2. CASE pc' = "error"
    BY <1>2, <2>1, <2>2, EndIInv
  <2>3. CASE pc' \in {"steady", "split"}
    <3>1. Selected' /\ SharedWell'
      BY <2>1, <2>3 DEF Selected, SharedWell
    <3>. QED  BY <1>2, <2>1, <3>1, RunIInv
  <2>. QED  BY <1>2, <2>2, <2>3
<1>3. CASE SetupFixtures
  <2>. USE DEF SetupFixtures
  <2>1. Selected /\ Selected' /\ Scen' = Scen /\ shares' = Split(Scen) /\ pc' \in {"panic", "steady"}
        /\ (pc' = "panic" <=> MakesNegative(Scen) \/ OutOfRange(Scen))
    BY <1>3 DEF Selected, Scen
  <2>2. SharedWell'
    <3>1. MakesNegative(Scen)' = MakesNegative(Scen) /\ OutOfRange(Scen)' = OutOfRange(Scen)
          /\ Split(Scen)' = Split(Scen)
      BY <2>1
    <3>. QED  BY <2>1, <3>1 DEF SharedWell
  <2>. QED  BY <1>3, <2>1, <2>2, RunIInv
<1>4. CASE Steady
  <2>. USE DEF Steady
  <2>1. Selected /\ Reading /\ pc = "steady"
    BY <1>4 DEF Selected, Reading
  <2>2. Len(selected) = 1 /\ pos = 1
    BY <2>1, SelectionFacts
  <2>3. /\ pc' = IF Scen.iterations < 1 THEN "panic" ELSE "done"
        /\ UNCHANGED <<args, disk, pos, path, cfg, flags, selected, shares>>
    BY <1>4, <2>2
  <2>4. Selected' /\ Scen' = Scen
    BY <2>3 DEF Selected, Scen
  <2>5. SharedWell'
    <3>1. MakesNegative(Scen)' = MakesNegative(Scen) /\ OutOfRange(Scen)' = OutOfRange(Scen)
          /\ Split(Scen)' = Split(Scen)
      BY <2>4
    <3>2. pc' = "panic" => Scen'.iterations < 1
      BY <2>3, <2>4
    <3>. QED  BY <2>1, <2>3, <2>4, <3>1, <3>2 DEF IInv, SharedWell
  <2>. QED  BY <2>1, <2>3, <2>4, <2>5, RunIInv
<1>. QED  BY <1>1, <1>2, <1>3, <1>4

LEMMA StepIInv == IInv /\ [Next]_vars => IInv'
<1> SUFFICES ASSUME IInv, [Next]_vars PROVE IInv'
  OBVIOUS
<1>1. CASE ConfigFileFromArgs
  BY <1>1, ConfigFileFromArgsIInv
<1>2. CASE LoadNothing \/ LoadConfig
  BY <1>2, LoadConfigIInv
<1>3. CASE LoadFails
  BY <1>3, EndIInv DEF LoadFails
<1>4. CASE ParseFlag
  BY <1>4, ParseFlagIInv
<1>5. CASE ParseExits
  BY <1>5, EndIInv DEF ParseExits, Reading
<1>6. CASE ParseEnds
  BY <1>6, ParseEndsIInv
<1>7. CASE SelectScenarios
  BY <1>7, SelectScenariosIInv
<1>8. CASE SelectFails \/ BuildRunners \/ SetupFixtures \/ Steady
  BY <1>8, RunStepIInv
<1>9. CASE UNCHANGED vars
  <2>1. UNCHANGED <<args, disk, pc, pos, path, cfg, flags, selected, shares>>
    BY <1>9 DEF vars
  <2>2. /\ ConfigFile' = ConfigFile /\ AllEq' = AllEq /\ Loaded' = Loaded /\ Decodable' = Decodable
        /\ Selection' = Selection
    BY <2>1, InputStays
  <2>3. Selected' = Selected /\ Reading' = Reading /\ Scen' = Scen /\ Parsed' = Parsed
    BY <2>1 DEF Selected, Reading, Scen, Parsed
  <2>4. TypeOK'
    BY <2>1, <2>3 DEF IInv, TypeOK
  <2>5. LoadedOnce' /\ SelectedWell'
    BY <2>1, <2>2, <2>3 DEF IInv, LoadedOnce, SelectedWell
  <2>6. ParsedSoFar'
    <3>1. \A n, m, c : LastUpto(n, m, FlagDefaults(c)[n])' = LastUpto(n, m, FlagDefaults(c)[n])
      BY <2>1 DEF LastUpto, FlagDefaults
    <3>. QED  BY <2>1, <2>2, <2>3, <3>1 DEF IInv, ParsedSoFar
  <2>7. SharedWell'
    BY <2>1, <2>3 DEF IInv, SharedWell
  <2>. QED  BY <2>4, <2>5, <2>6, <2>7 DEF IInv
<1>. QED  BY <1>1, <1>2, <1>3, <1>4, <1>5, <1>6, <1>7, <1>8, <1>9 DEF Next, MustParse, Run, Ended

\* In every state each phase has made of the arguments and the file what it should
\* (flags.go:35-89, config.go:189-235, app.go:24-28 and 168-194).
THEOREM Invariance == Spec => []IInv
BY InitIInv, StepIInv, PTL DEF Spec

\* Every variable keeps its type; the selected scenario that app.Run works on exists, and the
\* flags have values that fs.Bool and fs.Int accept (flags.go:46-65).
THEOREM Typed == Spec => []TypeOK
<1>1. IInv => TypeOK
  BY DEF IInv
<1>. QED  BY <1>1, Invariance, PTL

\* What goes on to be measured is exactly one scenario, the one that was asked for, because
\* LoadConfig refuses a file with two defaults (config.go:201-208, 216-235).
THEOREM OneIsSelected == Spec => []SelectedOne
<1>1. ASSUME IInv PROVE SelectedOne
  <2> SUFFICES ASSUME Selected
               PROVE  /\ Len(selected) = 1
                      /\ IF flags.scenario # "" THEN Scen.name = flags.scenario
                         ELSE \A i \in DOMAIN cfg.scenarios :
                                IsDefault(cfg.scenarios[i]) => cfg.scenarios[i] = Scen
    BY DEF SelectedOne
  <2>1. Reading /\ selected = Selection /\ Selection # <<>>
    BY <1>1 DEF Reading, IInv, SelectedWell
  <2>2. /\ cfg.scenarios \in Seq(Scenario) /\ Len(Defaults(cfg.scenarios)) <= 1
        /\ Len(selected) = 1 /\ Scen = Selection[1]
    BY <1>1, <2>1, SelectionFacts
  <2>3. DOMAIN cfg.scenarios = 1 .. Len(cfg.scenarios)
    BY <2>2
  <2>. QED  BY <2>1, <2>2, <2>3, ScenarioSelected
<1>. QED  BY <1>1, Invariance, PTL

\* Of command lines in which every flag has its value, the config file among them.
LEMMA ConfigFileIsLast ==
  ASSUME args \in CommandLines, AllEq,
         \A i, j \in DOMAIN args : args[i].name = "config" /\ args[j].name = "config" => i = j
  PROVE  LastValue("config", "bench.yaml") = ConfigFile
<1>. DEFINE S == {i \in DOMAIN args : args[i].name = "config"}
<1>1. S = ConfigArgs
  BY DEF ConfigArgs, AllEq
<1>2. LastValue("config", "bench.yaml") =
        IF S = {} THEN "bench.yaml" ELSE args[CHOOSE i \in S : \A j \in S : j <= i].value
  BY DEF LastValue
<1>3. CASE S = {}
  BY <1>1, <1>2, <1>3 DEF ConfigFile
<1>4. CASE S # {}
  <2>1. PICK k \in S : \A i \in S : i = k
    BY <1>4
  <2>2. k \in Nat /\ k <= k /\ k \in DOMAIN args
    BY ArgsFacts
  <2>3. args[k].form = "eq"
    BY <2>2 DEF AllEq
  <2>. HIDE DEF S
  <2>4. (CHOOSE i \in S : \A j \in S : j <= i) = k
    BY <2>1, <2>2
  <2>5. (CHOOSE i \in S : \A j \in S : i <= j) = k
    BY <2>1, <2>2
  <2>. QED  BY <1>1, <1>2, <1>4, <2>3, <2>4, <2>5 DEF ConfigFile
<1>. QED  BY <1>3, <1>4

\* The command line overrides the file, and the file the built-in values
\* (cli-flags.md:7, flags.go:46-66).
THEOREM FlagsPrecede == Spec => []Precedence
<1>1. ASSUME IInv PROVE Precedence
  <2> SUFFICES ASSUME pc = "select" \/ Selected, AllEq,
                      \A i, j \in DOMAIN args :
                        args[i].name = "config" /\ args[j].name = "config" => i = j
               PROVE  /\ flags.scenario = LastValue("scenario", "")
                      /\ flags.skipSetup = LastValue("skipSetup", FileValue("skipSetup"))
                      /\ flags.latencyMs = Millis(LastValue("latencyMs", FileValue("latencyMs")))
    BY DEF Precedence, AllEq
  <2>1. Reading /\ pc \notin {"args", "load", "parse", "exit1"}
    BY DEF Reading, Selected
  <2>2. \A n, o : LastValue(n, o) = LastUpto(n, Len(args), o)
    BY <1>1, ArgsFacts DEF LastValue, LastUpto, IInv, TypeOK
  <2>3. \A n \in {"scenario", "skipSetup", "latencyMs"} : flags[n] = LastValue(n, FlagDefaults(cfg)[n])
    BY <1>1, <2>1, <2>2 DEF IInv, ParsedSoFar, Parsed
  <2>4. FlagDefaults(cfg).scenario = "" /\ FlagDefaults(cfg).skipSetup = cfg.skipSetup
        /\ FlagDefaults(cfg).latencyMs = cfg.latencyMs
    BY DEF FlagDefaults
  <2>5. cfg = Loaded /\ Decodable /\ disk \in Disks /\ path = LastValue("config", "bench.yaml")
    BY <1>1, <2>1, ConfigFileIsLast DEF IInv, LoadedOnce, TypeOK
  <2>6. FileValue("skipSetup") = cfg.skipSetup /\ Millis(FileValue("latencyMs")) = cfg.latencyMs
    <3>. DEFINE w == File(path)
    <3>1. DefaultConfig.skipSetup = "false" /\ DefaultConfig.latencyMs = "0" /\ Millis("0") = "0"
      BY DEF DefaultConfig, Millis
    <3>2. \A n : FileValue(n) = IF Has(w, n) THEN w[n] ELSE DefaultConfig[n]
      BY <2>5 DEF FileValue
    <3>3. CASE Has(w, "absent")
      <4>1. cfg = DefaultConfig /\ ~Has(w, "skipSetup") /\ ~Has(w, "latencyMs")
        BY <2>5, <3>3, FileFacts DEF Loaded, Has
      <4>. QED  BY <3>1, <3>2, <4>1
    <3>4. CASE ~Has(w, "absent")
      <4>1. cfg = Decoded(w)
        BY <2>5, <3>4 DEF Loaded
      <4>. HIDE DEF w
      <4>. QED  BY <3>1, <3>2, <4>1 DEF Decoded
    <3>. QED  BY <3>3, <3>4
  <2>7. LastValue("latencyMs", cfg.latencyMs) = Millis(LastValue("latencyMs", FileValue("latencyMs")))
    <3>. DEFINE S == {i \in DOMAIN args : args[i].name = "latencyMs"}
                last == args[CHOOSE i \in S : \A j \in S : j <= i].value
    <3>1. \A o : LastValue("latencyMs", o) = IF S = {} THEN o ELSE last
      BY DEF LastValue
    <3>2. flags.latencyMs = LastValue("latencyMs", cfg.latencyMs) /\ IsInt(flags.latencyMs)
      BY <1>1, <2>1, <2>3, <2>4 DEF IInv, TypeOK
    <3>. HIDE DEF S, last
    <3>3. S # {} => Millis(last) = last
      BY <3>1, <3>2 DEF IsInt, Millis
    <3>. QED  BY <2>6, <3>1, <3>3
  <2>. QED  BY <2>3, <2>4, <2>6, <2>7
<1>. QED  BY <1>1, Invariance, PTL

\* What Split makes of a scenario: labels that fit, or too few of weights that sum to zero.
LEMMA SplitFits ==
  ASSUME NEW s \in Scenario, ~MakesNegative(s), NEW k \in DOMAIN Split(s)
  PROVE  /\ Len(Split(s)[k]) < Resources(s)[k].count =>
              \E f \in {"services", "pods"} : s[f].dist # <<>> /\ Total(s[f].dist) = 0
         /\ ~(Len(Split(s)[k]) < Resources(s)[k].count) => Fits(Split(s)[k], Resources(s)[k])
<1>1. s.services \in ResourceCount /\ s.pods \in ResourceCount /\ s.dnsendpoints \in ResourceCount
  BY DEF Scenario
<1>2. CASE s.source = "service"
  <2>1. Split(s) = <<Types(s.services, "node-port"), Types(s.pods, "headless")>>
        /\ Resources(s) = <<s.services, s.pods>>
    BY <1>2 DEF Split, Resources
  <2>2. "node-port" \in Strings /\ "headless" \in Strings
    BY DEF Strings
  <2>3. CASE k = 1
    BY <1>1, <2>1, <2>2, <2>3, TypesFit
  <2>4. CASE k = 2
    BY <1>1, <2>1, <2>2, <2>4, TypesFit
  <2>. QED  BY <2>1, <2>3, <2>4
<1>3. CASE s.source = "dnsendpoint"
  <2>1. Split(s) = <<NsForIndex(s.dnsendpoints)>> /\ Resources(s) = <<s.dnsendpoints>>
    BY <1>3 DEF Split, Resources
  <2>2. s.dnsendpoints.count >= 0
    BY <1>1, <1>3 DEF MakesNegative, ResourceCount
  <2>. QED  BY <1>1, <2>1, <2>2, NsForIndexFits
<1>4. CASE s.source \notin {"service", "dnsendpoint"}
  BY <1>4 DEF Split
<1>. QED  BY <1>2, <1>3, <1>4

\* Every object has its label, each key its share and the last key the rest, for all counts
\* and weights that are not negative (distribute.go:18-42).
THEOREM SharesAlwaysFit == Spec => []SharesFit
<1>1. ASSUME IInv PROVE SharesFit
  <2> SUFFICES ASSUME pc \in {"steady", "done"}, NEW k \in DOMAIN shares
               PROVE  Fits(shares[k], Resources(Scen)[k])
    BY DEF SharesFit, Fits
  <2>1. Selected /\ Reading
    BY DEF Selected, Reading
  <2>2. Scen \in Scenario
    BY <1>1, <2>1, SelectionFacts
  <2>3. shares = Split(Scen) /\ ~MakesNegative(Scen) /\ ~OutOfRange(Scen)
    BY <1>1 DEF IInv, SharedWell
  <2>4. ~(Len(shares[k]) < Resources(Scen)[k].count)
    BY <2>3 DEF OutOfRange
  <2>. QED  BY <2>2, <2>3, <2>4, SplitFits
<1>. QED  BY <1>1, Invariance, PTL

\* Only what the file says of the selected scenario makes a run panic (bench.go:77,
\* service.go:132, dnsendpoint.go:47); the built-in configuration never does.
THEOREM PanicsAreWritten == Spec => []PanicOnlyIfWritten
<1>1. ASSUME IInv PROVE PanicOnlyIfWritten
  <2> SUFFICES ASSUME pc = "panic"
               PROVE  /\ Has(File(path), "scenarios")
                      /\ \E i \in DOMAIN File(path).scenarios :
                           LET w == File(path).scenarios[i]
                           IN  /\ cfg.scenarios[i] = Scen
                               /\ \/ Has(w, "iterations") /\ w.iterations < 1
                                  \/ i > 1 /\ ~Has(w, "iterations")
                                  \/ \E f \in {"services", "pods", "dnsendpoints"} :
                                       /\ Has(w, f)
                                       /\ \/ w[f].dist # <<>> /\ Total(w[f].dist) = 0
                                          \/ f = "dnsendpoints" /\ w[f].count < 0
    BY DEF PanicOnlyIfWritten
  <2>. DEFINE F == File(path)
  <2>1. Selected /\ Reading
    BY DEF Selected, Reading
  <2>2. Scen \in Scenario /\ selected = Selection /\ Selection # <<>> /\ Scen = Selection[1]
    BY <1>1, <2>1, SelectionFacts DEF IInv, SelectedWell
  <2>3. cfg = Loaded /\ Decodable /\ disk \in Disks
    BY <1>1, <2>1 DEF IInv, LoadedOnce, TypeOK
  <2>4. PICK i \in 1 .. Len(cfg.scenarios) : Scen = cfg.scenarios[i]
    BY <1>1, <2>1, <2>2, SelectionFacts, ScenarioSelected
  <2>5. /\ Scen.iterations < 1
        \/ MakesNegative(Scen) \/ OutOfRange(Scen)
    BY <1>1 DEF IInv, SharedWell
  <2>6. \/ Scen.iterations < 1 \/ (Scen.dnsendpoints.count < 0)
        \/ \E f \in {"services", "pods"} : Scen[f].dist # <<>> /\ Total(Scen[f].dist) = 0
    <3>1. CASE Scen.iterations < 1 \/ MakesNegative(Scen)
      BY <3>1 DEF MakesNegative
    <3>2. CASE OutOfRange(Scen) /\ ~MakesNegative(Scen)
      BY <2>2, <3>2, SplitFits DEF OutOfRange
    <3>. QED  BY <2>5, <3>1, <3>2
  <2>7. /\ DefaultScenario.iterations = 10 /\ NoScenario.iterations = 0
        /\ \A f \in {"services", "pods", "dnsendpoints"} :
             /\ DefaultScenario[f].dist = <<>> /\ NoScenario[f].dist = <<>>
        /\ DefaultScenario.dnsendpoints.count = 0 /\ NoScenario.dnsendpoints.count = 0
    BY DEF DefaultScenario, NoScenario, Count
  <2>8. Has(F, "scenarios")
    <3> SUFFICES ASSUME ~Has(F, "scenarios") PROVE FALSE
      OBVIOUS
    <3>1. cfg.scenarios = <<DefaultScenario>>
      BY <2>3, LoadedFacts
    <3>2. Scen = DefaultScenario
      BY <2>4, <3>1
    <3>. QED  BY <2>6, <2>7, <3>2
  <2>. DEFINE w == F.scenarios[i]  held == IF i = 1 THEN DefaultScenario ELSE NoScenario
  <2>9. i \in DOMAIN F.scenarios /\ Scen = Over(w, held)
    BY <2>3, <2>4, <2>8, LoadedFacts, FileFacts
  <2>10. DOMAIN held = {"name", "source", "default", "iterations", "gateways", "services", "pods", "dnsendpoints"}
    BY ScenarioFacts DEF NoScenario
  <2>0. /\ held.dnsendpoints.count = 0 /\ held.services.dist = <<>> /\ held.pods.dist = <<>>
        /\ i = 1 => held.iterations = 10
    BY <2>7
  <2>11. \A f \in {"iterations", "services", "pods", "dnsendpoints"} :
           Scen[f] = IF Has(w, f) THEN w[f] ELSE held[f]
    BY <2>9, <2>10 DEF Over
  <2>. HIDE DEF held
  <2>12. CASE Scen.iterations < 1
    <3>1. CASE Has(w, "iterations")
      BY <2>4, <2>8, <2>9, <2>11, <2>12, <3>1
    <3>2. CASE ~Has(w, "iterations")
      <4>1. i # 1 /\ i > 1
        BY <2>0, <2>4, <2>11, <2>12, <3>2
      <4>. QED  BY <2>4, <2>8, <2>9, <3>2, <4>1
    <3>. QED  BY <3>1, <3>2
  <2>13. CASE Scen.dnsendpoints.count < 0
    <3>1. Has(w, "dnsendpoints") /\ w.dnsendpoints.count < 0
      BY <2>0, <2>11, <2>13
    <3>. QED  BY <2>4, <2>8, <2>9, <3>1
  <2>14. CASE \E f \in {"services", "pods"} : Scen[f].dist # <<>> /\ Total(Scen[f].dist) = 0
    <3>1. PICK f \in {"services", "pods"} : Scen[f].dist # <<>> /\ Total(Scen[f].dist) = 0
      BY <2>14
    <3>2. Has(w, f) /\ w[f].dist # <<>> /\ Total(w[f].dist) = 0
      BY <2>0, <2>11, <3>1
    <3>. QED  BY <2>4, <2>8, <2>9, <3>2
  <2>. QED  BY <2>6, <2>12, <2>13, <2>14
<1>. QED  BY <1>1, Invariance, PTL
=============================================================================
