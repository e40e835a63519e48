----------------------------- MODULE Distribute -----------------------------
(***************************************************************************)
(* distribute.Distribute: n labels, shared out in proportion to weights.   *)
(* The weights are the entries of the Go map in the order of their sorted  *)
(* keys, each a record [key, weight].  Each loop is a function of the      *)
(* number of its turns.                                                    *)
(***************************************************************************)
EXTENDS Integers, Sequences

Total(weights) ==
  LET total[i \in 0 .. Len(weights)] == IF i = 0 THEN 0 ELSE total[i-1] + weights[i].weight
  IN  total[Len(weights)]

\* Go's division truncates towards zero.
Abs(a) == IF a < 0 THEN -a ELSE a
Quo(a, b) == IF (a < 0) = (b < 0) THEN Abs(a) \div Abs(b) ELSE -(Abs(a) \div Abs(b))

Greater(a, b) == IF a > b THEN a ELSE b
Copies(k, count) == [i \in 1 .. Greater(count, 0) |-> k]

ShareRoundedUp(w, n, weights) == Quo(w.weight * n + Total(weights) - 1, Total(weights))
Share(w, n, weights) == Quo(w.weight * n, Total(weights))

Shares(n, weights) ==
  LET result[i \in 0 .. Len(weights)] ==
        IF i = 0 THEN <<>>
        ELSE result[i-1] \o Copies(weights[i].key, Share(weights[i], n, weights))
  IN  result[Len(weights)]

\* The empty sequence stands for nil as well.  The slots that rounding leaves
\* open go to the last key.
Distributed(n, weights) ==
  IF weights = <<>> \/ n = 0 \/ Total(weights) = 0 THEN <<>>
  ELSE Shares(n, weights) \o Copies(weights[Len(weights)].key, n - Len(Shares(n, weights)))
=============================================================================
