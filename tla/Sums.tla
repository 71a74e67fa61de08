-------------------------------- MODULE Sums --------------------------------
(***************************************************************************)
(* The aggregates the accounting functions compute with SQL sum(): the     *)
(* total of an integer-valued function over the first n rows of a table,   *)
(* and the greedy split of an amount over rows taken in a given order.     *)
(* Written with a recursive function so that TLC can evaluate it and       *)
(* AccountProofs can prove its laws.                                       *)
(***************************************************************************)
EXTENDS Integers

\* f[1] + ... + f[n]
SumTo(f, n) ==
  LET s[i \in 0..n] == IF i = 0 THEN 0 ELSE s[i-1] + f[i]
  IN  s[n]

Least(a, b) == IF a <= b THEN a ELSE b

Greatest(a, b) == IF a >= b THEN a ELSE b

(***************************************************************************)
(* The loop "take LEAST(remaining, available) from each row, in order,     *)
(* EXIT WHEN remaining <= 0": row l gives what is left of amount after     *)
(* every row of a smaller rank has given all it has.                       *)
(***************************************************************************)
AheadOf(avail, rank, l, n) ==
  SumTo([j \in 1..n |-> IF rank[j] < rank[l] THEN avail[j] ELSE 0], n)

Fill(avail, rank, amount, n) ==
  [l \in 1..n |->
     Least(avail[l], Greatest(0, amount - AheadOf(avail, rank, l, n)))]
=============================================================================
