--------------------------- MODULE AccountProofs ---------------------------
(***************************************************************************)
(* Proofs about one account: first its ledger (CreditLedger), then the     *)
(* charges and leases that post to it (UsageAdmission).                    *)
(*                                                                         *)
(* For every catalog, set of keys, amounts and lag, the ledger is well     *)
(* typed, its entries chain to the cached balance, no key posts twice, the *)
(* balance is what the lots hold less what the account owes, and every     *)
(* credit is explained; credits past their expiry are gone, as long as no  *)
(* call applies late.                                                      *)
(*                                                                         *)
(* Sound holds the first four together, because a posting's bookkeeping is *)
(* only arithmetic when the account it starts from is well typed.          *)
(* Explained says where every credit went.  Its parts are not inductive    *)
(* without two more: ConsumedIsOutstanding, by which a refund finds in a   *)
(* lot what it restores to it, and Referential, by which a new entry is    *)
(* referred to by none and a lot has one source.                           *)
(*                                                                         *)
(* Both are predicates of an account, not of the state: a handler makes    *)
(* several postings in one step (expiries, then the posting asked for), so *)
(* each kind of posting is shown to keep them, a loop of them by induction *)
(* on its iterations, and each action by composing these.                  *)
(*                                                                         *)
(* For every plan, allowance, period and lease lifetime as well, allowance *)
(* windows agree with the leases, charges with the leases and the ledger,  *)
(* and a usage charge leaves what other leases hold; a lease in flight can *)
(* settle, as long as nothing else takes from the account.                 *)
(***************************************************************************)
EXTENDS UsageAdmission, FiniteSetTheorems, WellFoundedInduction, TLAPS

\* The entries and lots of an account, their chain, keys and reconciliation.
Sound(b) ==
  /\ b \in AccountSet
  /\ ChainOK(b)
  /\ KeysUnique(b)
  /\ BalanceExplained(b)

\* Entries refer to earlier entries and move credits of lots that exist, by
\* amounts that are not negative; every lot has an entry of its own.
Referential(b) ==
  /\ \A i \in 1..Len(b.entries) :
       /\ b.entries[i].ref < i
       /\ Len(b.entries[i].moves) <= NumLots(b)
       /\ \A l \in 1..Len(b.entries[i].moves) : b.entries[i].moves[l] >= 0
  /\ \A l \in 1..NumLots(b) : b.lots[l].source \in 1..Len(b.entries)
  /\ \A l, k \in 1..NumLots(b) : b.lots[l].source = b.lots[k].source => l = k

\* What entry i took from lot l and its refunds have not restored.
Outstanding(b, i, l) ==
  IF b.entries[i].amount < 0 THEN Moved(b.entries[i], l) - Restored(b, i, l) ELSE 0

\* consumed of a lot, debit by debit: no debit can be refunded more than the lot
\* has lost.
ConsumedIsOutstanding(b) ==
  \A l \in 1..NumLots(b) :
    b.lots[l].consumed =
      SumTo([i \in 1..Len(b.entries) |-> Outstanding(b, i, l)], Len(b.entries))

\* Every credit of the account is explained.
Explained(b) ==
  /\ Referential(b)
  /\ LotsInBounds(b)
  /\ ConsumedIsAllocated(b)
  /\ ConsumedIsOutstanding(b)
  /\ EntryFullySplit(b)
  /\ DebtNeverOverpaid(b)
  /\ CorrectionsBounded(b)

\* The keys that are not a usage charge's.
DebitKeys == KeySet \ {UsageLedgerKey(c) : c \in Nat}

\* An entry that is not a usage charge's.
Quiet(e) == e.kind # "usage" /\ \A n \in Nat : e.key # UsageLedgerKey(n)

\* The entries of b are kept, and those that follow them in c are quiet.
Grew(b, c) ==
  /\ Len(b.entries) <= Len(c.entries)
  /\ \A i \in 1..Len(b.entries) : c.entries[i] = b.entries[i]
  /\ \A i \in 1..Len(c.entries) : i > Len(b.entries) => Quiet(c.entries[i])

\* The debits that loops pass to targeted_lot_debit.
DebitSet(n) ==
  [lot : 1..n, kind : {"expiry", "revocation"}, amount : Nat \ {0}, key : DebitKeys]
-----------------------------------------------------------------------------
(***************************************************************************)
(* The laws of SumTo and Fill.  Each is proved by the least-counterexample *)
(* form of induction: a non-empty set of naturals has a least element      *)
(* (LeastNat, from the well-foundedness of strict inclusion on finite      *)
(* sets), so a statement about n that fails first at m is refuted at m by  *)
(* the truth of the statement at m - 1.                                    *)
(***************************************************************************)

\* A non-empty set of natural numbers has a least element.
LEMMA LeastNat ==
  ASSUME NEW T, T \subseteq Nat, T # {}
  PROVE  \E x \in T : \A y \in T : x <= y
<1> DEFINE I == {0..x : x \in T}
           R == StrictSubsetOrdering(Nat)
<1>1. IsWellFoundedOn(R, FiniteSubsetsOf(Nat))
  BY FS_StrictSubsetOrderingWellFounded, Zenon
<1>2. I \subseteq FiniteSubsetsOf(Nat)
  <2> SUFFICES ASSUME NEW x \in T PROVE 0..x \in FiniteSubsetsOf(Nat)
    OBVIOUS
  <2>1. x \in Nat /\ 0 \in Int /\ x \in Int
    OBVIOUS
  <2>2. IsFiniteSet(0..x)
    BY <2>1, FS_Interval
  <2>3. 0..x \subseteq Nat
    BY <2>1
  <2> QED BY <2>2, <2>3 DEF FiniteSubsetsOf
<1>3. I # {}
  OBVIOUS
<1>4. PICK U \in I : \A V \in I : ~ (<<V, U>> \in R)
  <2> HIDE DEF I, R
  <2> QED BY <1>1, <1>2, <1>3, WFMin, Zenon
<1>5. PICK x \in T : U = 0..x
  OBVIOUS
<1>6. ASSUME NEW y \in T PROVE x <= y
  <2>1. x \in Nat /\ y \in Nat
    OBVIOUS
  <2> SUFFICES ASSUME y < x PROVE FALSE
    BY <2>1
  <2>2. 0..y \subseteq 0..x /\ x \in 0..x /\ x \notin 0..y
    BY <2>1
  <2>3. <<0..y, 0..x>> \in R
    BY <2>1, <2>2 DEF StrictSubsetOrdering
  <2> QED BY <1>4, <1>5, <2>3
<1> QED BY <1>6

\* s is the table of the partial sums of f up to n.
IsPrefixSum(s, f, n) ==
  s = [i \in 0..n |-> IF i = 0 THEN 0 ELSE s[i-1] + f[i]]

\* The recursive definition inside SumTo has a solution.
LEMMA PrefixSumExists ==
  ASSUME NEW f, NEW n \in Nat
  PROVE  \E s : IsPrefixSum(s, f, n)
<1> DEFINE T == {k \in Nat : ~ \E s : IsPrefixSum(s, f, k)}
<1> SUFFICES ASSUME T # {} PROVE FALSE
  OBVIOUS
<1>1. PICK m \in T : \A k \in T : m <= k
  BY LeastNat
<1>2. CASE m = 0
  <2>1. IsPrefixSum([i \in 0..0 |-> 0], f, 0)
    BY DEF IsPrefixSum
  <2> QED BY <2>1, <1>1, <1>2
<1>3. CASE m # 0
  <2>1. m - 1 \in Nat /\ m - 1 \notin T
    BY <1>1, <1>3
  <2>2. PICK s : IsPrefixSum(s, f, m-1)
    BY <2>1
  <2> DEFINE r == [i \in 0..m |-> IF i = m THEN s[m-1] + f[m] ELSE s[i]]
  <2>3. IsPrefixSum(r, f, m)
    BY <2>1, <2>2, <1>3 DEF IsPrefixSum
  <2> QED BY <2>3, <1>1
<1> QED BY <1>2, <1>3

\* SumTo reads the last entry of a table of partial sums.
LEMMA SumToIsPrefix ==
  ASSUME NEW f, NEW n \in Nat
  PROVE  \E s : IsPrefixSum(s, f, n) /\ SumTo(f, n) = s[n]
<1>1. \E s : IsPrefixSum(s, f, n)
  BY PrefixSumExists
<1> QED BY <1>1 DEF SumTo, IsPrefixSum

\* Two tables of partial sums agree as far as their functions do.
LEMMA PrefixSumAgree ==
  ASSUME NEW f, NEW g, NEW n \in Nat, NEW m \in Nat, NEW s, NEW r,
         IsPrefixSum(s, f, n), IsPrefixSum(r, g, m),
         NEW k \in Nat, k <= n, k <= m,
         \A i \in 1..k : f[i] = g[i]
  PROVE  s[k] = r[k]
<1> DEFINE T == {i \in 0..k : s[i] # r[i]}
<1> SUFFICES ASSUME T # {} PROVE FALSE
  OBVIOUS
<1>1. PICK j \in T : \A i \in T : j <= i
  <2>1. T \subseteq Nat
    OBVIOUS
  <2> QED BY <2>1, LeastNat
<1>2. j # 0
  BY <1>1 DEF IsPrefixSum
<1>3. j - 1 \in 0..k /\ j - 1 \notin T
  BY <1>1, <1>2
<1>4. s[j] = s[j-1] + f[j] /\ r[j] = r[j-1] + g[j]
  BY <1>1, <1>2 DEF IsPrefixSum
<1> QED BY <1>1, <1>2, <1>3, <1>4

\* An empty sum is zero.
LEMMA SumToZero ==
  ASSUME NEW f
  PROVE  SumTo(f, 0) = 0
<1>1. PICK s : IsPrefixSum(s, f, 0) /\ SumTo(f, 0) = s[0]
  BY SumToIsPrefix
<1> QED BY <1>1 DEF IsPrefixSum

\* A sum of n + 1 terms is the sum of the first n plus the last.
LEMMA SumToStep ==
  ASSUME NEW f, NEW n \in Nat
  PROVE  SumTo(f, n + 1) = SumTo(f, n) + f[n + 1]
<1>1. PICK s : IsPrefixSum(s, f, n) /\ SumTo(f, n) = s[n]
  BY SumToIsPrefix
<1>2. n + 1 \in Nat
  OBVIOUS
<1>3. PICK r : IsPrefixSum(r, f, n + 1) /\ SumTo(f, n + 1) = r[n + 1]
  BY <1>2, SumToIsPrefix
<1>4. s[n] = r[n]
  BY <1>1, <1>2, <1>3, PrefixSumAgree
<1>5. r[n + 1] = r[n] + f[n + 1]
  BY <1>3 DEF IsPrefixSum
<1> QED BY <1>1, <1>3, <1>4, <1>5

\* Equal terms have equal sums.
LEMMA SumToEqual ==
  ASSUME NEW f, NEW g, NEW n \in Nat, \A i \in 1..n : f[i] = g[i]
  PROVE  SumTo(f, n) = SumTo(g, n)
<1>1. PICK s : IsPrefixSum(s, f, n) /\ SumTo(f, n) = s[n]
  BY SumToIsPrefix
<1>2. PICK r : IsPrefixSum(r, g, n) /\ SumTo(g, n) = r[n]
  BY SumToIsPrefix
<1>3. s[n] = r[n]
  BY <1>1, <1>2, PrefixSumAgree
<1> QED BY <1>1, <1>2, <1>3

\* A sum of integers is an integer.
LEMMA SumToInt ==
  ASSUME NEW f, NEW n \in Nat, \A i \in 1..n : f[i] \in Int
  PROVE  SumTo(f, n) \in Int
<1> DEFINE T == {k \in 0..n : SumTo(f, k) \notin Int}
<1> SUFFICES ASSUME T # {} PROVE FALSE
  OBVIOUS
<1>1. PICK m \in T : \A k \in T : m <= k
  <2>1. T \subseteq Nat
    OBVIOUS
  <2> QED BY <2>1, LeastNat
<1>2. m # 0
  BY <1>1, SumToZero
<1>3. m - 1 \in 0..n /\ m - 1 \notin T /\ m - 1 \in Nat /\ (m - 1) + 1 = m
  BY <1>1, <1>2
<1>4. SumTo(f, m) = SumTo(f, m - 1) + f[m]
  BY <1>3, SumToStep
<1> QED BY <1>1, <1>3, <1>4

\* A sum of natural numbers is a natural number.
LEMMA SumToNat ==
  ASSUME NEW f, NEW n \in Nat, \A i \in 1..n : f[i] \in Nat
  PROVE  SumTo(f, n) \in Nat
<1> DEFINE T == {k \in 0..n : SumTo(f, k) \notin Nat}
<1> SUFFICES ASSUME T # {} PROVE FALSE
  OBVIOUS
<1>1. PICK m \in T : \A k \in T : m <= k
  <2>1. T \subseteq Nat
    OBVIOUS
  <2> QED BY <2>1, LeastNat
<1>2. m # 0
  BY <1>1, SumToZero
<1>3. m - 1 \in 0..n /\ m - 1 \notin T /\ m - 1 \in Nat /\ (m - 1) + 1 = m
  BY <1>1, <1>2
<1>4. SumTo(f, m) = SumTo(f, m - 1) + f[m]
  BY <1>3, SumToStep
<1> QED BY <1>1, <1>3, <1>4

\* The sum of a termwise difference is the difference of the sums.
LEMMA SumToMinus ==
  ASSUME NEW f, NEW g, NEW h, NEW n \in Nat,
         \A i \in 1..n : f[i] \in Int /\ g[i] \in Int /\ h[i] = f[i] - g[i]
  PROVE  SumTo(h, n) = SumTo(f, n) - SumTo(g, n)
<1> DEFINE T == {k \in 0..n : SumTo(h, k) # SumTo(f, k) - SumTo(g, k)}
<1> SUFFICES ASSUME T # {} PROVE FALSE
  OBVIOUS
<1>1. PICK m \in T : \A k \in T : m <= k
  <2>1. T \subseteq Nat
    OBVIOUS
  <2> QED BY <2>1, LeastNat
<1>2. m # 0
  BY <1>1, SumToZero
<1>3. m - 1 \in 0..n /\ m - 1 \notin T /\ m - 1 \in Nat /\ (m - 1) + 1 = m
  BY <1>1, <1>2
<1>4. /\ SumTo(f, m) = SumTo(f, m - 1) + f[m]
      /\ SumTo(g, m) = SumTo(g, m - 1) + g[m]
      /\ SumTo(h, m) = SumTo(h, m - 1) + h[m]
  BY <1>3, SumToStep
<1>5. SumTo(f, m - 1) \in Int /\ SumTo(g, m - 1) \in Int
  BY <1>3, SumToInt
<1>6. m \in 1..n
  BY <1>1, <1>2
<1> QED BY <1>1, <1>3, <1>4, <1>5, <1>6

\* A function that is zero but at one place sums to its value there.
LEMMA SumToSingle ==
  ASSUME NEW f, NEW n \in Nat, NEW x \in 1..n, f[x] \in Int,
         \A i \in 1..n : i # x => f[i] = 0
  PROVE  SumTo(f, n) = f[x]
<1> DEFINE T == {k \in 0..n : SumTo(f, k) # IF k < x THEN 0 ELSE f[x]}
<1>1. ASSUME T # {} PROVE FALSE
  <2>1. PICK m \in T : \A k \in T : m <= k
    <3>1. T \subseteq Nat
      OBVIOUS
    <3> QED BY <1>1, <3>1, LeastNat
  <2>2. m # 0
    BY <2>1, SumToZero
  <2>3. m - 1 \in 0..n /\ m - 1 \notin T /\ m - 1 \in Nat /\ (m - 1) + 1 = m
    BY <2>1, <2>2
  <2>4. SumTo(f, m) = SumTo(f, m - 1) + f[m]
    BY <2>3, SumToStep
  <2>5. m \in 1..n
    BY <2>1, <2>2
  <2> QED BY <2>1, <2>3, <2>4, <2>5
<1>2. n \in 0..n /\ n \notin T
  BY <1>1
<1> QED BY <1>2

\* A function that is zero everywhere sums to zero.
LEMMA SumToNone ==
  ASSUME NEW f, NEW n \in Nat, \A i \in 1..n : f[i] = 0
  PROVE  SumTo(f, n) = 0
<1>1. \A i \in 1..n : f[i] \in Int /\ f[i] = f[i] - f[i]
  OBVIOUS
<1>2. SumTo(f, n) \in Int
  BY <1>1, SumToInt
<1>3. SumTo(f, n) = SumTo(f, n) - SumTo(f, n)
  BY <1>1, SumToMinus
<1> QED BY <1>2, <1>3

\* Changing one term changes the sum by as much.
LEMMA SumToChanged ==
  ASSUME NEW f, NEW g, NEW n \in Nat, NEW x \in 1..n, NEW c \in Int,
         \A i \in 1..n : f[i] \in Int /\ g[i] \in Int,
         g[x] = f[x] + c,
         \A i \in 1..n : i # x => g[i] = f[i]
  PROVE  SumTo(g, n) = SumTo(f, n) + c
<1> DEFINE h == [i \in 1..n |-> g[i] - f[i]]
<1>1. \A i \in 1..n : h[i] = g[i] - f[i]
  OBVIOUS
<1>2. h[x] = c /\ \A i \in 1..n : i # x => h[i] = 0
  BY <1>1
<1> HIDE DEF h
<1>3. SumTo(h, n) = c
  BY <1>2, SumToSingle
<1>4. SumTo(h, n) = SumTo(g, n) - SumTo(f, n)
  BY <1>1, SumToMinus
<1>5. SumTo(f, n) \in Int /\ SumTo(g, n) \in Int
  BY SumToInt
<1> QED BY <1>3, <1>4, <1>5

\* A term of a sum of natural numbers is at most the sum.
LEMMA SumToMember ==
  ASSUME NEW f, NEW n \in Nat, NEW x \in 1..n, \A i \in 1..n : f[i] \in Nat
  PROVE  f[x] <= SumTo(f, n)
<1> DEFINE h == [i \in 1..n |-> IF i = x THEN 0 ELSE f[i]]
<1>1. /\ \A i \in 1..n : h[i] \in Nat /\ h[i] \in Int /\ f[i] \in Int
      /\ f[x] = h[x] + f[x] /\ f[x] \in Int
      /\ \A i \in 1..n : i # x => f[i] = h[i]
  OBVIOUS
<1> HIDE DEF h
<1>2. SumTo(f, n) = SumTo(h, n) + f[x]
  BY <1>1, SumToChanged
<1>3. SumTo(h, n) \in Nat
  BY <1>1, SumToNat
<1> QED BY <1>1, <1>2, <1>3
-----------------------------------------------------------------------------
(* The greedy split *)

\* The terms of f whose rank is below r.
Below(f, rank, r, n) == [j \in 1..n |-> IF rank[j] < r THEN f[j] ELSE 0]

\* What a row gives is between nothing and all it has.
LEMMA FillBounds ==
  ASSUME NEW avail, NEW rank, NEW amount \in Nat, NEW n \in Nat,
         \A l \in 1..n : avail[l] \in Nat
  PROVE  \A l \in 1..n : /\ Fill(avail, rank, amount, n)[l] \in Nat
                         /\ Fill(avail, rank, amount, n)[l] <= avail[l]
<1> SUFFICES ASSUME NEW l \in 1..n
             PROVE  /\ Fill(avail, rank, amount, n)[l] \in Nat
                    /\ Fill(avail, rank, amount, n)[l] <= avail[l]
  OBVIOUS
<1> DEFINE a == AheadOf(avail, rank, l, n)
           g == [j \in 1..n |-> IF rank[j] < rank[l] THEN avail[j] ELSE 0]
<1>1. \A j \in 1..n : g[j] \in Nat
  OBVIOUS
<1> HIDE DEF g
<1>2. SumTo(g, n) \in Nat
  BY <1>1, SumToNat
<1>3. a \in Nat
  BY <1>2 DEF AheadOf, g
<1>4. Fill(avail, rank, amount, n)[l] = Least(avail[l], Greatest(0, amount - a))
  BY DEF Fill
<1>5. avail[l] \in Nat
  OBVIOUS
<1> HIDE DEF a
<1> QED BY <1>3, <1>4, <1>5 DEF Least, Greatest

\* The rows of the ranks below r give at most the amount, and at most what they
\* have, when no two rows have the same rank.
LEMMA FillBelow ==
  ASSUME NEW avail, NEW rank, NEW amount \in Nat, NEW n \in Nat,
         \A l \in 1..n : avail[l] \in Nat,
         \A l \in 1..n : rank[l] \in Nat,
         \A i, j \in 1..n : rank[i] = rank[j] => i = j,
         NEW r \in Nat
  PROVE  /\ SumTo(Below(Fill(avail, rank, amount, n), rank, r, n), n) <= amount
         /\ SumTo(Below(Fill(avail, rank, amount, n), rank, r, n), n)
              <= SumTo(Below(avail, rank, r, n), n)
<1> DEFINE fill == Fill(avail, rank, amount, n)
           F(k) == SumTo(Below(fill, rank, k, n), n)
           A(k) == SumTo(Below(avail, rank, k, n), n)
           T == {k \in Nat : ~(F(k) <= amount /\ F(k) <= A(k))}
<1>1. \A l \in 1..n : fill[l] \in Nat /\ fill[l] <= avail[l]
  BY FillBounds
<1>2. \A l \in 1..n : fill[l] = Least(avail[l], Greatest(0, amount - A(rank[l])))
  BY DEF Fill, AheadOf, Below
<1> HIDE DEF fill
<1>3. ASSUME NEW k \in Nat
      PROVE  /\ \A j \in 1..n : Below(fill, rank, k, n)[j] \in Nat
             /\ \A j \in 1..n : Below(avail, rank, k, n)[j] \in Nat
             /\ F(k) \in Nat /\ A(k) \in Nat
  <2>1. \A j \in 1..n : Below(fill, rank, k, n)[j] \in Nat
    BY <1>1 DEF Below
  <2>2. \A j \in 1..n : Below(avail, rank, k, n)[j] \in Nat
    BY DEF Below
  <2> QED BY <2>1, <2>2, SumToNat
<1>4. F(0) = 0
  <2>1. \A j \in 1..n : Below(fill, rank, 0, n)[j] = 0
    BY DEF Below
  <2> QED BY <2>1, SumToNone
<1>5. ASSUME NEW k \in Nat, F(k) <= amount, F(k) <= A(k)
      PROVE  F(k+1) <= amount /\ F(k+1) <= A(k+1)
  <2>0. k + 1 \in Nat
    OBVIOUS
  <2>1. CASE \E l \in 1..n : rank[l] = k
    <3>1. PICK l \in 1..n : rank[l] = k
      BY <2>1
    <3>2. \A j \in 1..n : j # l => (rank[j] < k + 1 <=> rank[j] < k)
      BY <3>1
    <3>3. /\ \A j \in 1..n : j # l => Below(fill, rank, k+1, n)[j] = Below(fill, rank, k, n)[j]
          /\ \A j \in 1..n : j # l => Below(avail, rank, k+1, n)[j] = Below(avail, rank, k, n)[j]
      BY <3>2 DEF Below
    <3>4. /\ Below(fill, rank, k+1, n)[l] = Below(fill, rank, k, n)[l] + fill[l]
          /\ Below(avail, rank, k+1, n)[l] = Below(avail, rank, k, n)[l] + avail[l]
      BY <1>1, <3>1 DEF Below
    <3>5. fill[l] \in Int /\ avail[l] \in Int
      BY <1>1
    <3>6. /\ \A j \in 1..n : /\ Below(fill, rank, k, n)[j] \in Int
                             /\ Below(fill, rank, k+1, n)[j] \in Int
          /\ \A j \in 1..n : /\ Below(avail, rank, k, n)[j] \in Int
                             /\ Below(avail, rank, k+1, n)[j] \in Int
      <4>1. \A j \in 1..n : Below(fill, rank, k, n)[j] \in Nat /\ Below(avail, rank, k, n)[j] \in Nat
        BY <1>3
      <4>2. \A j \in 1..n : Below(fill, rank, k+1, n)[j] \in Nat /\ Below(avail, rank, k+1, n)[j] \in Nat
        <5> HIDE DEF F, A
        <5> QED BY <1>3, <2>0
      <4> QED BY <4>1, <4>2
    <3>7. F(k+1) = F(k) + fill[l] /\ A(k+1) = A(k) + avail[l]
      BY <3>3, <3>4, <3>5, <3>6, SumToChanged
    <3>8. fill[l] = Least(avail[l], Greatest(0, amount - A(k)))
      BY <1>2, <3>1
    <3>9. F(k) \in Nat /\ A(k) \in Nat /\ avail[l] \in Nat
      BY <1>3
    <3> HIDE DEF F, A
    <3> QED BY <1>5, <3>7, <3>8, <3>9 DEF Least, Greatest
  <2>2. CASE \A l \in 1..n : rank[l] # k
    <3>1. \A j \in 1..n : (rank[j] < k + 1 <=> rank[j] < k)
      BY <2>2
    <3>2. Below(fill, rank, k+1, n) = Below(fill, rank, k, n)
      BY <3>1 DEF Below
    <3>3. Below(avail, rank, k+1, n) = Below(avail, rank, k, n)
      BY <3>1 DEF Below
    <3> QED BY <1>5, <3>2, <3>3
  <2> QED BY <2>1, <2>2
<1>6. F(0) <= amount /\ F(0) <= A(0)
  <2>1. A(0) \in Nat
    BY <1>3
  <2> QED BY <1>4, <2>1
<1> HIDE DEF F, A
<1>7. ASSUME T # {} PROVE FALSE
  <2>1. PICK m \in T : \A k \in T : m <= k
    BY <1>7, LeastNat
  <2>2. m # 0
    BY <1>6, <2>1
  <2>3. m - 1 \in Nat /\ m - 1 \notin T /\ (m - 1) + 1 = m
    BY <2>1, <2>2
  <2> QED BY <1>5, <2>1, <2>3
<1>8. r \notin T
  BY <1>7
<1>9. F(r) <= amount /\ F(r) <= A(r)
  BY <1>8
<1> QED BY <1>9 DEF F, A, fill

\* No more is given than the amount.
LEMMA FillAtMost ==
  ASSUME NEW avail, NEW rank, NEW amount \in Nat, NEW n \in Nat,
         \A l \in 1..n : avail[l] \in Nat,
         \A l \in 1..n : rank[l] \in 0..n,
         \A i, j \in 1..n : rank[i] = rank[j] => i = j
  PROVE  SumTo(Fill(avail, rank, amount, n), n) <= amount
<1> DEFINE f == Fill(avail, rank, amount, n)
           g == Below(f, rank, n + 1, n)
<1>1. n + 1 \in Nat /\ \A l \in 1..n : rank[l] \in Nat /\ rank[l] < n + 1
  OBVIOUS
<1>2. SumTo(g, n) <= amount
  BY <1>1, FillBelow
<1>3. \A l \in 1..n : f[l] = g[l]
  BY <1>1 DEF Below
<1> HIDE DEF f, g
<1>4. SumTo(f, n) = SumTo(g, n)
  BY <1>3, SumToEqual
<1> QED BY <1>2, <1>4 DEF f
-----------------------------------------------------------------------------
(* Sequences and records *)

\* A function on 1..n is a sequence of length n.
LEMMA FunIsSeq ==
  ASSUME NEW S, NEW n, NEW f, n \in Nat, f \in [1..n -> S]
  PROVE  f \in Seq(S) /\ Len(f) = n
OBVIOUS

\* The parts of a well-typed account.
LEMMA AccountParts ==
  ASSUME NEW b \in AccountSet
  PROVE  /\ b.balance \in Int
         /\ b.entries \in Seq(EntrySet)
         /\ b.lots \in Seq(LotSet)
         /\ Len(b.entries) \in Nat
         /\ NumLots(b) \in Nat
         /\ \A i \in 1..Len(b.entries) : b.entries[i] \in EntrySet
         /\ \A l \in 1..NumLots(b) : b.lots[l] \in LotSet
         /\ \A l \in 1..NumLots(b) : Rem(b, l) \in Int
<1>1. b.balance \in Int /\ b.entries \in Seq(EntrySet) /\ b.lots \in Seq(LotSet)
  BY DEF AccountSet
<1>2. \A i \in 1..Len(b.entries) : b.entries[i] \in EntrySet
  BY <1>1
<1>3. \A l \in 1..NumLots(b) : b.lots[l] \in LotSet
  BY <1>1 DEF NumLots
<1>4. \A l \in 1..NumLots(b) : Rem(b, l) \in Int
  BY <1>3 DEF LotSet, Rem
<1> QED BY <1>1, <1>2, <1>3, <1>4 DEF NumLots

\* The table of what is left in the lots sums to an integer.
LEMMA RemTotalInt ==
  ASSUME NEW b \in AccountSet
  PROVE  RemTotal(b) \in Int
<1> DEFINE f == [l \in 1..NumLots(b) |-> Rem(b, l)]
<1>1. NumLots(b) \in Nat /\ \A l \in 1..NumLots(b) : f[l] \in Int
  BY AccountParts
<1>2. SumTo(f, NumLots(b)) \in Int
  BY <1>1, SumToInt
<1> QED BY <1>2 DEF RemTotal

\* The fields of an entry that the arithmetic reads.
LEMMA EntryParts ==
  ASSUME NEW e \in EntrySet
  PROVE  /\ e.amount \in Int
         /\ e.after \in Int
         /\ e.debt \in Int
         /\ DebtOf(e) \in Int
         /\ \A l \in Nat \ {0} : Moved(e, l) \in Int
<1>1. e.amount \in Int /\ e.after \in Int /\ e.debt \in Int /\ e.moves \in Seq(Int)
  BY DEF EntrySet
<1>2. DebtOf(e) \in Int
  BY <1>1 DEF DebtOf
<1>3. \A l \in Nat \ {0} : Moved(e, l) \in Int
  BY <1>1 DEF Moved
<1> QED BY <1>1, <1>2, <1>3

\* A debit's debt counts as it is, a credit's as a repayment.
LEMMA DebtOfSign ==
  ASSUME NEW e \in EntrySet
  PROVE  /\ e.amount < 0 => DebtOf(e) = e.debt
         /\ ~(e.amount < 0) => DebtOf(e) = -e.debt
         /\ e.debt = 0 => DebtOf(e) = 0
<1>1. e.amount \in Int /\ e.debt \in Int
  BY EntryParts
<1> QED BY <1>1 DEF DebtOf

\* The table of debts sums to an integer.
LEMMA DebtInt ==
  ASSUME NEW b \in AccountSet
  PROVE  Debt(b) \in Int
<1> DEFINE f == [i \in 1..Len(b.entries) |-> DebtOf(b.entries[i])]
<1>1. Len(b.entries) \in Nat /\ \A i \in 1..Len(b.entries) : b.entries[i] \in EntrySet
  BY AccountParts
<1>2. \A i \in 1..Len(b.entries) : f[i] \in Int
  BY <1>1, EntryParts
<1>3. SumTo(f, Len(b.entries)) \in Int
  BY <1>1, <1>2, SumToInt
<1> QED BY <1>3 DEF Debt
-----------------------------------------------------------------------------
(* What the writers do to the lots *)

\* What is left in a sequence of lots.
LotsRem(lots) ==
  SumTo([l \in 1..Len(lots) |-> lots[l].granted - lots[l].consumed], Len(lots))

\* A lot with its consumption replaced.
LEMMA LotWith ==
  ASSUME NEW x \in LotSet, NEW c \in Int
  PROVE  /\ [x EXCEPT !.consumed = c] \in LotSet
         /\ [x EXCEPT !.consumed = c].granted = x.granted
         /\ [x EXCEPT !.consumed = c].consumed = c
BY DEF LotSet

\* A new lot adds what it was granted.
LEMMA AppendedLot ==
  ASSUME NEW lots \in Seq(LotSet), NEW x \in LotSet
  PROVE  /\ Append(lots, x) \in Seq(LotSet)
         /\ LotsRem(Append(lots, x)) = LotsRem(lots) + (x.granted - x.consumed)
<1> DEFINE n == Len(lots)
           m == Append(lots, x)
           f == [l \in 1..n |-> lots[l].granted - lots[l].consumed]
           g == [l \in 1..(n+1) |-> m[l].granted - m[l].consumed]
<1>1. n \in Nat /\ Len(m) = n + 1 /\ m \in Seq(LotSet)
  OBVIOUS
<1>2. \A l \in 1..n : g[l] = f[l]
  OBVIOUS
<1>3. g[n+1] = x.granted - x.consumed
  OBVIOUS
<1> HIDE DEF f, g
<1>4. SumTo(g, n + 1) = SumTo(g, n) + g[n+1]
  BY <1>1, SumToStep
<1>5. SumTo(g, n) = SumTo(f, n)
  BY <1>1, <1>2, SumToEqual
<1>6. LotsRem(m) = SumTo(g, n + 1) /\ LotsRem(lots) = SumTo(f, n)
  BY <1>1 DEF LotsRem, f, g
<1> QED BY <1>1, <1>3, <1>4, <1>5, <1>6

\* Taking from the lots keeps them well typed and takes the total.
LEMMA ConsumedLots ==
  ASSUME NEW b \in AccountSet, NEW take,
         \A l \in 1..NumLots(b) : take[l] \in Int
  PROVE  /\ Consumed(b, take) \in Seq(LotSet)
         /\ Len(Consumed(b, take)) = NumLots(b)
         /\ LotsRem(Consumed(b, take)) = RemTotal(b) - SumTo(take, NumLots(b))
<1> DEFINE n == NumLots(b)
           c == Consumed(b, take)
           f == [l \in 1..n |-> Rem(b, l)]
           h == [l \in 1..n |-> c[l].granted - c[l].consumed]
<1>1. n \in Nat /\ \A l \in 1..n : b.lots[l] \in LotSet /\ f[l] \in Int
  BY AccountParts
<1>2. \A l \in 1..n : /\ c[l] = [b.lots[l] EXCEPT !.consumed = b.lots[l].consumed + take[l]]
                     /\ f[l] = b.lots[l].granted - b.lots[l].consumed
                     /\ h[l] = c[l].granted - c[l].consumed
  BY DEF Consumed, Rem
<1>3. c = [l \in 1..n |-> c[l]]
  BY DEF Consumed
<1> HIDE DEF c, f, h
<1>4. ASSUME NEW l \in 1..n
      PROVE  c[l] \in LotSet /\ h[l] = f[l] - take[l]
  <2> DEFINE x == b.lots[l]
             y == x.consumed + take[l]
  <2>1. x \in LotSet /\ take[l] \in Int
    BY <1>1
  <2>2. x.granted \in Int /\ x.consumed \in Int /\ y \in Int
    BY <2>1 DEF LotSet
  <2>3. c[l] = [x EXCEPT !.consumed = y]
    BY <1>2
  <2>4. f[l] = x.granted - x.consumed /\ h[l] = c[l].granted - c[l].consumed
    BY <1>2
  <2> HIDE DEF x, y
  <2>5. c[l] \in LotSet /\ c[l].granted = x.granted /\ c[l].consumed = y
    BY <2>1, <2>2, <2>3, LotWith
  <2>6. y = x.consumed + take[l]
    BY DEF y
  <2> QED BY <2>1, <2>2, <2>4, <2>5, <2>6
<1>5. c \in Seq(LotSet) /\ Len(c) = n
  <2>1. c \in [1..n -> LotSet]
    BY <1>3, <1>4
  <2> QED BY <1>1, <2>1, FunIsSeq
<1>6. SumTo(h, n) = SumTo(f, n) - SumTo(take, n)
  BY <1>1, <1>4, SumToMinus
<1>7. LotsRem(c) = SumTo(h, n) /\ RemTotal(b) = SumTo(f, n)
  BY <1>5 DEF LotsRem, RemTotal, f, h
<1> QED BY <1>5, <1>6, <1>7 DEF c

\* Giving back to the lots keeps them well typed and gives the total.
LEMMA GaveBackLots ==
  ASSUME NEW b \in AccountSet, NEW give,
         \A l \in 1..NumLots(b) : give[l] \in Int
  PROVE  /\ GaveBack(b, give) \in Seq(LotSet)
         /\ Len(GaveBack(b, give)) = NumLots(b)
         /\ LotsRem(GaveBack(b, give)) = RemTotal(b) + SumTo(give, NumLots(b))
<1> DEFINE n == NumLots(b)
           c == GaveBack(b, give)
           f == [l \in 1..n |-> Rem(b, l)]
           h == [l \in 1..n |-> c[l].granted - c[l].consumed]
<1>1. n \in Nat /\ \A l \in 1..n : b.lots[l] \in LotSet /\ f[l] \in Int
  BY AccountParts
<1>2. \A l \in 1..n : /\ c[l] = [b.lots[l] EXCEPT !.consumed = b.lots[l].consumed - give[l]]
                     /\ f[l] = b.lots[l].granted - b.lots[l].consumed
                     /\ h[l] = c[l].granted - c[l].consumed
  BY DEF GaveBack, Rem
<1>3. c = [l \in 1..n |-> c[l]]
  BY DEF GaveBack
<1> HIDE DEF c, f, h
<1>4. ASSUME NEW l \in 1..n
      PROVE  c[l] \in LotSet /\ h[l] \in Int /\ f[l] = h[l] - give[l]
  <2> DEFINE x == b.lots[l]
             y == x.consumed - give[l]
  <2>1. x \in LotSet /\ give[l] \in Int
    BY <1>1
  <2>2. x.granted \in Int /\ x.consumed \in Int /\ y \in Int
    BY <2>1 DEF LotSet
  <2>3. c[l] = [x EXCEPT !.consumed = y]
    BY <1>2
  <2>4. f[l] = x.granted - x.consumed /\ h[l] = c[l].granted - c[l].consumed
    BY <1>2
  <2> HIDE DEF x, y
  <2>5. c[l] \in LotSet /\ c[l].granted = x.granted /\ c[l].consumed = y
    BY <2>1, <2>2, <2>3, LotWith
  <2>6. y = x.consumed - give[l]
    BY DEF y
  <2> QED BY <2>1, <2>2, <2>4, <2>5, <2>6
<1>5. c \in Seq(LotSet) /\ Len(c) = n
  <2>1. c \in [1..n -> LotSet]
    BY <1>3, <1>4
  <2> QED BY <1>1, <2>1, FunIsSeq
<1>6. SumTo(f, n) = SumTo(h, n) - SumTo(give, n)
  BY <1>1, <1>4, SumToMinus
<1>7. SumTo(h, n) \in Int /\ SumTo(give, n) \in Int
  BY <1>1, <1>4, SumToInt
<1>8. LotsRem(c) = SumTo(h, n) /\ RemTotal(b) = SumTo(f, n)
  BY <1>5 DEF LotsRem, RemTotal, f, h
<1> QED BY <1>5, <1>6, <1>7, <1>8 DEF c
-----------------------------------------------------------------------------
(* One posting *)

\* A posting under a fresh key that accounts for its amount keeps the account
\* sound: lots must gain the amount plus the debt incurred.
LEMMA PostedSound ==
  ASSUME NEW b, Sound(b), NEW e \in EntrySet, NEW lots \in Seq(LotSet),
         e.after = b.balance + e.amount,
         ~KeyUsed(b, e.key),
         LotsRem(lots) = RemTotal(b) + e.amount + DebtOf(e)
  PROVE  Sound(Posted(b, e, lots))
<1> DEFINE p == Posted(b, e, lots)
           n == Len(b.entries)
<1>1. /\ b \in AccountSet /\ ChainOK(b) /\ KeysUnique(b) /\ BalanceExplained(b)
      /\ n \in Nat /\ b.entries \in Seq(EntrySet) /\ b.balance \in Int
      /\ \A i \in 1..n : b.entries[i] \in EntrySet
  BY AccountParts DEF Sound
<1>2. /\ p.balance = b.balance + e.amount
      /\ p.entries = Append(b.entries, e)
      /\ p.lots = lots
      /\ p = [balance |-> p.balance, entries |-> p.entries, lots |-> p.lots]
  BY DEF Posted
<1>3. e.amount \in Int /\ e.after \in Int /\ DebtOf(e) \in Int
  BY EntryParts
<1> HIDE DEF p
<1>4. /\ Len(p.entries) = n + 1
      /\ p.entries[n+1] = e
      /\ \A i \in 1..n : p.entries[i] = b.entries[i]
      /\ p.entries \in Seq(EntrySet)
  BY <1>1, <1>2
<1>5. p \in AccountSet
  <2>1. p.balance \in Int /\ p.lots \in Seq(LotSet)
    BY <1>1, <1>2, <1>3
  <2> QED BY <1>2, <1>4, <2>1 DEF AccountSet
<1>6. ChainOK(p)
  <2>1. p.entries # <<>> /\ p.balance = p.entries[Len(p.entries)].after
    BY <1>1, <1>2, <1>4
  <2>2. ASSUME NEW i \in 1..(n+1)
        PROVE  p.entries[i].after =
                 (IF i = 1 THEN 0 ELSE p.entries[i-1].after) + p.entries[i].amount
    <3>1. CASE i <= n
      <4>1. i \in 1..n /\ p.entries[i] = b.entries[i]
        BY <1>1, <1>4, <3>1
      <4>2. i # 1 => i - 1 \in 1..n /\ p.entries[i-1] = b.entries[i-1]
        BY <1>1, <1>4, <3>1
      <4> QED BY <1>1, <4>1, <4>2 DEF ChainOK
    <3>2. CASE i = n + 1
      <4>1. CASE n = 0
        <5>1. b.entries = <<>> /\ b.balance = 0
          BY <1>1, <4>1 DEF ChainOK
        <5> QED BY <1>3, <1>4, <3>2, <4>1, <5>1
      <4>2. CASE n # 0
        <5>1. b.entries # <<>> /\ i # 1 /\ i - 1 = n /\ n \in 1..n
          BY <1>1, <3>2, <4>2
        <5>2. b.balance = b.entries[n].after
          BY <1>1, <5>1 DEF ChainOK
        <5> QED BY <1>4, <3>2, <5>1, <5>2
      <4> QED BY <4>1, <4>2
    <3> QED BY <1>1, <3>1, <3>2
  <2> QED BY <1>4, <2>1, <2>2 DEF ChainOK
<1>7. KeysUnique(p)
  <2>1. \A i \in 1..n : b.entries[i].key # e.key
    BY DEF KeyUsed
  <2>2. \A i \in 1..(n+1) : i \in 1..n \/ i = n + 1
    BY <1>1
  <2>3. \A i, j \in 1..n : b.entries[i].key = b.entries[j].key => i = j
    BY <1>1 DEF KeysUnique
  <2>4. ASSUME NEW i \in 1..(n+1), NEW j \in 1..(n+1),
               p.entries[i].key = p.entries[j].key
        PROVE  i = j
    BY <1>4, <2>1, <2>2, <2>3, <2>4
  <2> QED BY <1>4, <2>4 DEF KeysUnique
<1>8. BalanceExplained(p)
  <2> DEFINE f == [i \in 1..n |-> DebtOf(b.entries[i])]
             g == [i \in 1..(n+1) |-> DebtOf(p.entries[i])]
  <2>1. \A i \in 1..n : g[i] = f[i]
    BY <1>1, <1>4
  <2>2. g[n+1] = DebtOf(e)
    BY <1>1, <1>4
  <2> HIDE DEF f, g
  <2>3. SumTo(g, n+1) = SumTo(g, n) + g[n+1] /\ SumTo(g, n) = SumTo(f, n)
    BY <1>1, <2>1, SumToStep, SumToEqual
  <2>4. Debt(b) = SumTo(f, n) /\ Debt(p) = SumTo(g, n+1)
    BY <1>4 DEF Debt, f, g
  <2>5. RemTotal(p) = LotsRem(lots)
    BY <1>2 DEF RemTotal, LotsRem, Rem, NumLots
  <2>6. Debt(b) \in Int /\ RemTotal(b) \in Int /\ b.balance = RemTotal(b) - Debt(b)
    BY <1>1, DebtInt, RemTotalInt DEF BalanceExplained
  <2> QED BY <1>1, <1>2, <1>3, <2>2, <2>3, <2>4, <2>5, <2>6 DEF BalanceExplained
<1> QED BY <1>5, <1>6, <1>7, <1>8 DEF Sound, p

\* The entry a posting builds, and its fields.
LEMMA EntryTyped ==
  ASSUME NEW b, NEW amount, NEW key, NEW req, NEW ref, NEW moves, NEW debt,
         NEW e, e = Entry(b, amount, key, req, ref, moves, debt),
         b \in AccountSet, amount \in Int, key \in KeySet, req \in RequestSet,
         ref \in Nat, moves \in Seq(Int), debt \in Int
  PROVE  /\ e \in EntrySet
         /\ e.after = b.balance + e.amount
         /\ e.amount = amount
         /\ e.key = key
         /\ e.debt = debt
<1>1. b.balance + amount \in Int
  BY AccountParts
<1>2. req.kind \in Kinds
  BY DEF RequestSet
<1> QED BY <1>1, <1>2 DEF Entry, EntrySet

\* The parts of an account after a posting.
LEMMA PostedParts ==
  ASSUME NEW b \in AccountSet, NEW e, NEW lots
  PROVE  LET p == Posted(b, e, lots)
             n == Len(b.entries)
         IN  /\ n \in Nat
             /\ Len(p.entries) = n + 1
             /\ p.entries[n+1] = e
             /\ \A i \in 1..n : p.entries[i] = b.entries[i]
             /\ \A i \in 1..(n+1) : i \in 1..n \/ i = n + 1
             /\ p.lots = lots
             /\ NumLots(p) = Len(lots)
<1>1. b.entries \in Seq(EntrySet) /\ Len(b.entries) \in Nat
  BY AccountParts
<1>2. Posted(b, e, lots).entries = Append(b.entries, e) /\ Posted(b, e, lots).lots = lots
  BY DEF Posted
<1> QED BY <1>1, <1>2 DEF NumLots

\* A posting uses up its own key only.
LEMMA PostedKeys ==
  ASSUME NEW b \in AccountSet, NEW e, NEW lots, NEW k,
         ~KeyUsed(b, k), k # e.key
  PROVE  ~KeyUsed(Posted(b, e, lots), k)
<1> DEFINE p == Posted(b, e, lots)
           n == Len(b.entries)
<1>1. b.entries \in Seq(EntrySet) /\ n \in Nat
  BY AccountParts
<1>2. p.entries = Append(b.entries, e)
  BY DEF Posted
<1>3. /\ Len(p.entries) = n + 1
      /\ p.entries[n+1] = e
      /\ \A i \in 1..n : p.entries[i] = b.entries[i]
  BY <1>1, <1>2
<1>4. \A i \in 1..n : b.entries[i].key # k
  BY DEF KeyUsed
<1>5. \A i \in 1..(n+1) : i \in 1..n \/ i = n + 1
  BY <1>1
<1> HIDE DEF p
<1>6. ~KeyUsed(p, k)
  BY <1>3, <1>4, <1>5 DEF KeyUsed
<1> QED BY <1>6 DEF p

\* Requests are well typed.
LEMMA RequestTyped ==
  ASSUME NEW kind \in Kinds, NEW amount \in Nat, NEW op \in OperationNames,
         NEW target \in Nat, NEW bucket \in Buckets \cup {NoBucket},
         NEW expires \in Nat, NEW floor \in Int
  PROVE  Request(kind, amount, op, target, bucket, expires, floor) \in RequestSet
BY DEF Request, RequestSet

\* NoExpiry, the bound of the clock plus one, is a time.
LEMMA NoExpiryNat == NoExpiry \in Nat
BY BoundsAssumption DEF NoExpiry

\* targeted_lot_debit keeps the account sound, adds no lot and uses no key but
\* its own.
LEMMA TargetedSound ==
  ASSUME NEW b, Sound(b), NEW d \in DebitSet(NumLots(b))
  PROVE  /\ Sound(Targeted(b, d))
         /\ NumLots(Targeted(b, d)) = NumLots(b)
         /\ \A k : (k # d.key /\ ~KeyUsed(b, k)) => ~KeyUsed(Targeted(b, d), k)
<1>1. CASE KeyUsed(b, d.key)
  BY <1>1 DEF Targeted
<1>2. CASE ~KeyUsed(b, d.key)
  <2> DEFINE n == NumLots(b)
             take == [l \in 1..n |-> IF l = d.lot THEN d.amount ELSE 0]
             req == TargetedRequest(d)
             e == Entry(b, -d.amount, d.key, req, NoEntry, take, 0)
  <2>1. b \in AccountSet /\ n \in Nat /\ RemTotal(b) \in Int
    BY AccountParts, RemTotalInt DEF Sound
  <2>2. /\ d.lot \in 1..n /\ d.amount \in Nat /\ d.key \in KeySet /\ d.kind \in Kinds
    BY DEF DebitSet, DebitKeys, Kinds
  <2>3. req \in RequestSet
    BY <2>1, <2>2, NoExpiryNat
      DEF TargetedRequest, Request, RequestSet, OperationNames, NoBucket, NoFloor
  <2>4. take \in Seq(Int) /\ \A l \in 1..n : take[l] \in Int
    <3>1. take \in [1..n -> Int]
      BY <2>2
    <3> QED BY <2>1, <3>1, FunIsSeq
  <2>5. /\ take[d.lot] = d.amount
        /\ \A l \in 1..n : l # d.lot => take[l] = 0
    BY <2>2
  <2>6. Targeted(b, d) = Posted(b, e, Consumed(b, take))
    BY <1>2 DEF Targeted
  <2> HIDE DEF take
  <2>7. SumTo(take, n) = d.amount
    BY <2>1, <2>2, <2>5, SumToSingle
  <2>8. /\ e \in EntrySet /\ e.after = b.balance + e.amount
        /\ e.amount = -d.amount /\ e.key = d.key /\ e.debt = 0
    <3> DEFINE amt == -d.amount  none == 0
    <3>1. amt \in Int /\ NoEntry \in Nat /\ none \in Int
      BY <2>2 DEF NoEntry
    <3>2. e = Entry(b, amt, d.key, req, NoEntry, take, none)
      OBVIOUS
    <3> HIDE DEF req, e, amt, none
    <3>3. /\ e \in EntrySet /\ e.after = b.balance + e.amount
          /\ e.amount = amt /\ e.key = d.key /\ e.debt = none
      <4>1. b \in AccountSet /\ d.key \in KeySet /\ take \in Seq(Int)
        BY <2>1, <2>2, <2>4
      <4> QED BY <2>3, <3>1, <3>2, <4>1, EntryTyped
    <3> QED BY <3>3 DEF amt, none
  <2> HIDE DEF e
  <2>9. /\ Consumed(b, take) \in Seq(LotSet)
        /\ Len(Consumed(b, take)) = n
        /\ LotsRem(Consumed(b, take)) = RemTotal(b) - d.amount
    BY <2>1, <2>4, <2>7, ConsumedLots
  <2>10. DebtOf(e) = 0
    BY <2>8, DebtOfSign
  <2>11. LotsRem(Consumed(b, take)) = RemTotal(b) + e.amount + DebtOf(e)
    BY <2>1, <2>2, <2>8, <2>9, <2>10
  <2>12. Sound(Posted(b, e, Consumed(b, take)))
    BY <1>2, <2>8, <2>9, <2>11, PostedSound
  <2>13. NumLots(Posted(b, e, Consumed(b, take))) = n
    BY <2>9 DEF NumLots, Posted
  <2>14. \A k : (k # d.key /\ ~KeyUsed(b, k))
                  => ~KeyUsed(Posted(b, e, Consumed(b, take)), k)
    BY <2>1, <2>8, PostedKeys
  <2> QED BY <2>6, <2>12, <2>13, <2>14
<1> QED BY <1>1, <1>2

\* Posting a quiet entry makes the account grow.
LEMMA PostedGrew ==
  ASSUME NEW b \in AccountSet, NEW e, Quiet(e), NEW lots
  PROVE  Grew(b, Posted(b, e, lots))
<1> DEFINE p == Posted(b, e, lots)
           n == Len(b.entries)
<1>1. /\ n \in Nat /\ Len(p.entries) = n + 1 /\ p.entries[n+1] = e
      /\ \A i \in 1..n : p.entries[i] = b.entries[i]
      /\ \A i \in 1..(n+1) : i \in 1..n \/ i = n + 1
  BY PostedParts
<1> HIDE DEF p
<1>2. Grew(b, p)
  BY <1>1 DEF Grew
<1> QED BY <1>2 DEF p

\* An account that grew twice grew.
LEMMA GrewTwice ==
  ASSUME NEW b \in AccountSet, NEW c \in AccountSet, NEW d \in AccountSet,
         Grew(b, c), Grew(c, d)
  PROVE  Grew(b, d)
<1>1. Len(b.entries) \in Nat /\ Len(c.entries) \in Nat /\ Len(d.entries) \in Nat
  BY AccountParts
<1> QED BY <1>1 DEF Grew

\* An account grew from itself.
LEMMA GrewNot ==
  ASSUME NEW b \in AccountSet
  PROVE  Grew(b, b)
<1>1. Len(b.entries) \in Nat
  BY AccountParts
<1> QED BY <1>1 DEF Grew

\* A key that is not a usage charge's, on an entry of another kind.
LEMMA EntryQuiet ==
  ASSUME NEW b, NEW amount, NEW key, NEW req, NEW ref, NEW moves, NEW debt,
         req.kind # "usage", key \in DebitKeys
  PROVE  Quiet(Entry(b, amount, key, req, ref, moves, debt))
<1> DEFINE e == Entry(b, amount, key, req, ref, moves, debt)
<1>1. e.kind = req.kind /\ e.key = key
  BY DEF Entry
<1>2. \A n \in Nat : key # UsageLedgerKey(n)
  BY DEF DebitKeys
<1> HIDE DEF e
<1>3. Quiet(e)
  BY <1>1, <1>2 DEF Quiet
<1> QED BY <1>3 DEF e

\* targeted_lot_debit posts nothing, or a quiet entry.
LEMMA TargetedGrew ==
  ASSUME NEW b \in AccountSet, NEW d \in DebitSet(NumLots(b))
  PROVE  Grew(b, Targeted(b, d))
<1> DEFINE take == [l \in 1..NumLots(b) |-> IF l = d.lot THEN d.amount ELSE 0]
           e == Entry(b, -d.amount, d.key, TargetedRequest(d), NoEntry, take, 0)
<1>1. d.kind # "usage" /\ d.key \in DebitKeys
  BY DEF DebitSet
<1>2. TargetedRequest(d).kind = d.kind
  BY DEF TargetedRequest, Request
<1>3. Quiet(e)
  BY <1>1, <1>2, EntryQuiet
<1>4. Targeted(b, d) \in {b, Posted(b, e, Consumed(b, take))}
  BY DEF Targeted
<1> HIDE DEF e
<1> QED BY <1>3, <1>4, PostedGrew, GrewNot
-----------------------------------------------------------------------------
(* A loop of targeted debits *)

\* s is the table of the accounts after each of the first n debits of ds.
IsRun(s, b, ds, n) ==
  s = [i \in 0..n |-> IF i = 0 THEN b ELSE Targeted(s[i-1], ds[i])]

\* The recursive definition of TargetedRun has a solution.
LEMMA RunExists ==
  ASSUME NEW b, NEW ds, NEW n \in Nat
  PROVE  \E s : IsRun(s, b, ds, n)
<1> DEFINE T == {k \in Nat : ~ \E s : IsRun(s, b, ds, k)}
<1> SUFFICES ASSUME T # {} PROVE FALSE
  OBVIOUS
<1>1. PICK m \in T : \A k \in T : m <= k
  BY LeastNat
<1>2. CASE m = 0
  <2>1. IsRun([i \in 0..0 |-> b], b, ds, 0)
    BY DEF IsRun
  <2> QED BY <2>1, <1>1, <1>2
<1>3. CASE m # 0
  <2>1. m - 1 \in Nat /\ m - 1 \notin T
    BY <1>1, <1>3
  <2>2. PICK s : IsRun(s, b, ds, m-1)
    BY <2>1
  <2> DEFINE r == [i \in 0..m |-> IF i = m THEN Targeted(s[m-1], ds[m]) ELSE s[i]]
  <2>3. IsRun(r, b, ds, m)
    BY <2>1, <2>2, <1>3 DEF IsRun
  <2> QED BY <2>3, <1>1
<1> QED BY <1>2, <1>3

\* TargetedRun unrolls: it starts at b and each step is one targeted debit.
LEMMA RunSteps ==
  ASSUME NEW b, NEW ds, Len(ds) \in Nat
  PROVE  /\ TargetedRun(b, ds)[0] = b
         /\ \A i \in 1..Len(ds) :
              TargetedRun(b, ds)[i] = Targeted(TargetedRun(b, ds)[i-1], ds[i])
<1> DEFINE s == TargetedRun(b, ds)
           n == Len(ds)
<1>1. \E r : IsRun(r, b, ds, n)
  BY RunExists
<1>2. IsRun(s, b, ds, n)
  BY <1>1 DEF TargetedRun, IsRun
<1> HIDE DEF s
<1>3. s[0] = b /\ \A i \in 1..n : s[i] = Targeted(s[i-1], ds[i])
  BY <1>2 DEF IsRun
<1> QED BY <1>3 DEF s

\* What holds of an account throughout a loop that starts at b.
Kept(b, c, ds) ==
  /\ Sound(c)
  /\ Grew(b, c)
  /\ NumLots(c) = NumLots(b)
  /\ \A k : (~KeyUsed(b, k) /\ \A i \in 1..Len(ds) : ds[i].key # k) => ~KeyUsed(c, k)

\* A loop of debits of the account's lots keeps it sound, appends quiet entries,
\* adds no lot, and uses no key but those of the debits, at every iteration.
LEMMA RunSound ==
  ASSUME NEW b, Sound(b), NEW ds, Len(ds) \in Nat,
         \A i \in 1..Len(ds) : ds[i] \in DebitSet(NumLots(b))
  PROVE  \A k \in 0..Len(ds) : Kept(b, TargetedRun(b, ds)[k], ds)
<1> DEFINE s == TargetedRun(b, ds)
           n == Len(ds)
           T == {k \in 0..n : ~Kept(b, s[k], ds)}
<1>1. s[0] = b /\ \A i \in 1..n : s[i] = Targeted(s[i-1], ds[i])
  BY RunSteps
<1> HIDE DEF s
<1>2. ASSUME T # {} PROVE FALSE
  <2>1. PICK m \in T : \A k \in T : m <= k
    <3>1. T \subseteq Nat
      OBVIOUS
    <3> HIDE DEF T
    <3> QED BY <1>2, <3>1, LeastNat
  <2>2. m # 0
    <3>1. Kept(b, b, ds)
      BY GrewNot DEF Kept, Sound
    <3> QED BY <1>1, <2>1, <3>1
  <2>3. m \in 1..n /\ m - 1 \in 0..n /\ m - 1 \notin T
    BY <2>1, <2>2
  <2> DEFINE c == s[m-1]
  <2>4. Kept(b, c, ds) /\ s[m] = Targeted(c, ds[m])
    BY <1>1, <2>3
  <2> HIDE DEF c
  <2>5. Sound(c) /\ NumLots(c) = NumLots(b) /\ Grew(b, c)
    BY <2>4 DEF Kept
  <2>6. ds[m] \in DebitSet(NumLots(c))
    BY <2>3, <2>5
  <2>7. /\ Sound(Targeted(c, ds[m]))
        /\ NumLots(Targeted(c, ds[m])) = NumLots(b)
        /\ \A k : (k # ds[m].key /\ ~KeyUsed(c, k)) => ~KeyUsed(Targeted(c, ds[m]), k)
    BY <2>5, <2>6, TargetedSound
  <2>7a. Grew(b, Targeted(c, ds[m]))
    <3>1. Grew(c, Targeted(c, ds[m]))
      BY <2>5, <2>6, TargetedGrew DEF Sound
    <3> QED BY <2>5, <2>7, <3>1, GrewTwice DEF Sound
  <2>8. Kept(b, s[m], ds)
    BY <2>3, <2>4, <2>7, <2>7a DEF Kept
  <2> QED BY <2>1, <2>8
<1>3. \A k \in 0..n : Kept(b, s[k], ds)
  BY <1>2
<1> QED BY <1>3 DEF s

\* So does the whole loop.
LEMMA AfterTargetedSound ==
  ASSUME NEW b, Sound(b), NEW ds, Len(ds) \in Nat,
         \A i \in 1..Len(ds) : ds[i] \in DebitSet(NumLots(b))
  PROVE  Kept(b, AfterTargeted(b, ds), ds)
<1>1. Len(ds) \in 0..Len(ds)
  OBVIOUS
<1> QED BY <1>1, RunSound DEF AfterTargeted
-----------------------------------------------------------------------------
(* The loops of the handlers *)

\* A set of lots has a number of elements, and an order of it lists them.
LEMMA OrderParts ==
  ASSUME NEW n \in Nat, NEW S, S \subseteq 1..n, NEW q \in Orders(S)
  PROVE  /\ Len(q) \in Nat
         /\ DOMAIN q = 1..Len(q)
         /\ \A i \in 1..Len(q) : q[i] \in S
<1>1. Cardinality(S) \in Nat
  <2>1. IsFiniteSet(1..n)
    BY FS_Interval
  <2>2. IsFiniteSet(S)
    BY <2>1, FS_Subset
  <2> QED BY <2>2, FS_CardinalityType
<1>2. q \in [1..Cardinality(S) -> S]
  BY DEF Orders
<1> QED BY <1>1, <1>2

\* A debit built from its fields.
LEMMA DebitTyped ==
  ASSUME NEW n, NEW lot, NEW kind, NEW amount, NEW key, NEW d,
         d = [lot |-> lot, kind |-> kind, amount |-> amount, key |-> key],
         lot \in 1..n, kind \in {"expiry", "revocation"}, amount \in Nat \ {0},
         key \in DebitKeys
  PROVE  d \in DebitSet(n) /\ d.key = key
BY DEF DebitSet

\* Lots of an account that have something left can be expired in full.
LEMMA ExpiryDebitsTyped ==
  ASSUME NEW b \in AccountSet, NEW q, Len(q) \in Nat,
         \A i \in 1..Len(q) : q[i] \in 1..NumLots(b) /\ Rem(b, q[i]) > 0
  PROVE  /\ Len(ExpiryDebits(b, q)) = Len(q)
         /\ \A i \in 1..Len(q) :
              /\ ExpiryDebits(b, q)[i] \in DebitSet(NumLots(b))
              /\ ExpiryDebits(b, q)[i].key = ExpiryKey(q[i])
<1> DEFINE ds == ExpiryDebits(b, q)
<1>1. NumLots(b) \in Nat /\ \A l \in 1..NumLots(b) : Rem(b, l) \in Int
  BY AccountParts
<1>2. ds = [i \in 1..Len(q) |-> ds[i]]
  BY DEF ExpiryDebits
<1>3. ASSUME NEW i \in 1..Len(q)
      PROVE  ds[i] \in DebitSet(NumLots(b)) /\ ds[i].key = ExpiryKey(q[i])
  <2>1. ds[i] = [lot |-> q[i], kind |-> "expiry", amount |-> Rem(b, q[i]),
                 key |-> ExpiryKey(q[i])]
    BY DEF ExpiryDebits
  <2>2. q[i] \in 1..NumLots(b) /\ Rem(b, q[i]) \in Nat \ {0}
    BY <1>1
  <2>3. ExpiryKey(q[i]) \in DebitKeys
    BY <1>1, <2>2 DEF ExpiryKey, KeySet, DebitKeys, UsageLedgerKey
  <2> HIDE DEF ds
  <2> QED BY <2>1, <2>2, <2>3, DebitTyped
<1> HIDE DEF ds
<1>4. ds \in [1..Len(q) -> DebitSet(NumLots(b))]
  BY <1>2, <1>3
<1>5. Len(ds) = Len(q)
  BY <1>4, FunIsSeq
<1> QED BY <1>3, <1>5 DEF ds

\* The same lots can be revoked in full.
LEMMA RevocationDebitsTyped ==
  ASSUME NEW b \in AccountSet, NEW q, Len(q) \in Nat,
         \A i \in 1..Len(q) : q[i] \in 1..NumLots(b) /\ Rem(b, q[i]) > 0
  PROVE  /\ Len(RevocationDebits(b, q)) = Len(q)
         /\ \A i \in 1..Len(q) : RevocationDebits(b, q)[i] \in DebitSet(NumLots(b))
<1> DEFINE ds == RevocationDebits(b, q)
<1>1. NumLots(b) \in Nat /\ \A l \in 1..NumLots(b) : Rem(b, l) \in Int
  BY AccountParts
<1>2. ds = [i \in 1..Len(q) |-> ds[i]]
  BY DEF RevocationDebits
<1>3. ASSUME NEW i \in 1..Len(q)
      PROVE  ds[i] \in DebitSet(NumLots(b))
  <2>1. ds[i] = [lot |-> q[i], kind |-> "revocation", amount |-> Rem(b, q[i]),
                 key |-> RevocationKey(q[i])]
    BY DEF RevocationDebits
  <2>2. q[i] \in 1..NumLots(b) /\ Rem(b, q[i]) \in Nat \ {0}
    BY <1>1
  <2>3. RevocationKey(q[i]) \in DebitKeys
    BY <1>1, <2>2 DEF RevocationKey, KeySet, DebitKeys, UsageLedgerKey
  <2> HIDE DEF ds
  <2> QED BY <2>1, <2>2, <2>3, DebitTyped
<1> HIDE DEF ds
<1>4. ds \in [1..Len(q) -> DebitSet(NumLots(b))]
  BY <1>2, <1>3
<1>5. Len(ds) = Len(q)
  BY <1>4, FunIsSeq
<1> QED BY <1>3, <1>5 DEF ds

\* What a refund restored to a late lot can be expired from the lots it left.
LEMMA RefundExpiryDebitsTyped ==
  ASSUME NEW b \in AccountSet, NEW n, n \in Nat, NEW give, NEW q, Len(q) \in Nat,
         \A i \in 1..Len(q) : q[i] \in 1..n /\ give[q[i]] \in Nat \ {0}
  PROVE  /\ Len(RefundExpiryDebits(b, give, q)) = Len(q)
         /\ \A i \in 1..Len(q) : RefundExpiryDebits(b, give, q)[i] \in DebitSet(n)
<1> DEFINE ds == RefundExpiryDebits(b, give, q)
<1>1. Len(b.entries) + 1 \in Nat
  BY AccountParts
<1>2. ds = [i \in 1..Len(q) |-> ds[i]]
  BY DEF RefundExpiryDebits
<1>3. ASSUME NEW i \in 1..Len(q)
      PROVE  ds[i] \in DebitSet(n)
  <2>1. ds[i] = [lot |-> q[i], kind |-> "expiry", amount |-> give[q[i]],
                 key |-> RefundExpiryKey(Len(b.entries) + 1, q[i])]
    BY DEF RefundExpiryDebits
  <2>2. q[i] \in 1..n /\ give[q[i]] \in Nat \ {0}
    OBVIOUS
  <2>3. RefundExpiryKey(Len(b.entries) + 1, q[i]) \in DebitKeys
    BY <1>1, <2>2 DEF RefundExpiryKey, KeySet, DebitKeys, UsageLedgerKey
  <2> HIDE DEF ds
  <2> QED BY <2>1, <2>2, <2>3, DebitTyped
<1> HIDE DEF ds
<1>4. ds \in [1..Len(q) -> DebitSet(n)]
  BY <1>2, <1>3
<1>5. Len(ds) = Len(q)
  BY <1>4, FunIsSeq
<1> QED BY <1>3, <1>5 DEF ds

\* Expiring the due lots keeps the account sound, appends quiet entries and uses
\* no caller's key.
LEMMA AfterExpirySound ==
  ASSUME NEW b, Sound(b), NEW t, NEW c \in AfterExpiry(b, t)
  PROVE  /\ Sound(c)
         /\ Grew(b, c)
         /\ \A k : (~KeyUsed(b, k) /\ \A l \in Nat : k # ExpiryKey(l)) => ~KeyUsed(c, k)
<1>1. PICK q \in ExpiryOrders(b, Due(b, t)) : c = AfterTargeted(b, ExpiryDebits(b, q))
  BY DEF AfterExpiry
<1>2. b \in AccountSet /\ NumLots(b) \in Nat
  BY AccountParts DEF Sound
<1>3. Due(b, t) \subseteq 1..NumLots(b) /\ \A l \in Due(b, t) : Rem(b, l) > 0
  BY DEF Due, IsDue
<1>4. q \in Orders(Due(b, t))
  BY DEF ExpiryOrders
<1>5. Len(q) \in Nat /\ \A i \in 1..Len(q) : q[i] \in Due(b, t)
  BY <1>2, <1>3, <1>4, OrderParts
<1>6. \A i \in 1..Len(q) : q[i] \in 1..NumLots(b) /\ Rem(b, q[i]) > 0
  BY <1>3, <1>5
<1> DEFINE ds == ExpiryDebits(b, q)
<1>7. /\ Len(ds) = Len(q)
      /\ \A i \in 1..Len(q) : ds[i] \in DebitSet(NumLots(b)) /\ ds[i].key = ExpiryKey(q[i])
  BY <1>2, <1>5, <1>6, ExpiryDebitsTyped
<1> HIDE DEF ds
<1>8. Kept(b, AfterTargeted(b, ds), ds)
  BY <1>5, <1>7, AfterTargetedSound
<1>9. \A i \in 1..Len(q) : q[i] \in Nat
  BY <1>6
<1> QED BY <1>1, <1>7, <1>8, <1>9 DEF Kept, ds
-----------------------------------------------------------------------------
(* The postings of the handlers *)

\* A greedy split of integers is a table of integers.
LEMMA FillInt ==
  ASSUME NEW avail, NEW rank, NEW amount \in Int, NEW n \in Nat,
         \A l \in 1..n : avail[l] \in Int
  PROVE  /\ Fill(avail, rank, amount, n) \in Seq(Int)
         /\ \A l \in 1..n : Fill(avail, rank, amount, n)[l] \in Int
         /\ SumTo(Fill(avail, rank, amount, n), n) \in Int
<1> DEFINE f == Fill(avail, rank, amount, n)
<1>1. f = [l \in 1..n |-> f[l]]
  BY DEF Fill
<1>2. ASSUME NEW l \in 1..n PROVE f[l] \in Int
  <2> DEFINE a == AheadOf(avail, rank, l, n)
             g == [j \in 1..n |-> IF rank[j] < rank[l] THEN avail[j] ELSE 0]
  <2>1. \A j \in 1..n : g[j] \in Int
    OBVIOUS
  <2> HIDE DEF g
  <2>2. SumTo(g, n) \in Int
    BY <2>1, SumToInt
  <2>3. a \in Int
    BY <2>2 DEF AheadOf, g
  <2>4. f[l] = Least(avail[l], Greatest(0, amount - a))
    BY DEF Fill
  <2>5. avail[l] \in Int
    OBVIOUS
  <2> HIDE DEF f, a
  <2> QED BY <2>3, <2>4, <2>5 DEF Least, Greatest
<1> HIDE DEF f
<1>3. f \in [1..n -> Int]
  BY <1>1, <1>2
<1>4. f \in Seq(Int)
  BY <1>3, FunIsSeq
<1>5. SumTo(f, n) \in Int
  BY <1>2, SumToInt
<1> QED BY <1>2, <1>4, <1>5 DEF f

\* A debit splits its amount between lots and debt.
LEMMA DebitedSound ==
  ASSUME NEW b, Sound(b), NEW r, r \in RequestSet, r.amount > 0, NEW key, key \in KeySet,
         ~KeyUsed(b, key), NEW t
  PROVE  Sound(Debited(b, r, key, t))
<1> DEFINE n == NumLots(b)
           avail == Spendable(b, t, DebitBucket(r))
           take == Fill(avail, SpendRank(b), r.amount, n)
           debt == r.amount - SumTo(take, n)
           amt == -r.amount
           e == Entry(b, amt, key, r, NoEntry, take, debt)
<1>1. b \in AccountSet /\ n \in Nat /\ RemTotal(b) \in Int
  BY AccountParts, RemTotalInt DEF Sound
<1>2. r.amount \in Int /\ amt \in Int /\ NoEntry \in Nat
  BY DEF RequestSet, NoEntry
<1>3. \A l \in 1..n : avail[l] \in Int
  BY <1>1, AccountParts DEF Spendable
<1> HIDE DEF avail
<1>4. take \in Seq(Int) /\ (\A l \in 1..n : take[l] \in Int) /\ SumTo(take, n) \in Int
  BY <1>1, <1>2, <1>3, FillInt
<1>5. Debited(b, r, key, t) = Posted(b, e, Consumed(b, take))
  BY DEF Debited, avail
<1> HIDE DEF take
<1>6. debt \in Int
  BY <1>2, <1>4
<1> HIDE DEF debt, amt
<1>7. take \in Seq(Int)
  BY <1>4
<1>8. /\ e \in EntrySet /\ e.after = b.balance + e.amount
      /\ e.amount = amt /\ e.key = key /\ e.debt = debt
  BY <1>1, <1>2, <1>6, <1>7, EntryTyped
<1> HIDE DEF e
<1>9. /\ Consumed(b, take) \in Seq(LotSet)
      /\ LotsRem(Consumed(b, take)) = RemTotal(b) - SumTo(take, n)
  BY <1>1, <1>4, ConsumedLots
<1>10. DebtOf(e) = debt
  BY <1>2, <1>8, DebtOfSign DEF amt
<1>11. LotsRem(Consumed(b, take)) = RemTotal(b) + e.amount + DebtOf(e)
  BY <1>1, <1>2, <1>4, <1>8, <1>9, <1>10 DEF amt, debt
<1> QED BY <1>5, <1>8, <1>9, <1>11, PostedSound

\* A new lot is well typed and holds what it is granted.
LEMMA NewLotTyped ==
  ASSUME NEW source, NEW bucket, NEW granted, NEW expires,
         source \in Nat, bucket \in Buckets, granted \in Nat, expires \in Nat
  PROVE  LET x == NewLot(source, bucket, granted, expires)
         IN  /\ x \in LotSet
             /\ x.granted - x.consumed = granted
BY DEF NewLot, LotSet

\* A credit splits its amount between repayment and a lot.
LEMMA CreditedSound ==
  ASSUME NEW b, Sound(b), NEW r, r \in RequestSet, r.amount > 0, NEW key, key \in KeySet,
         ~KeyUsed(b, key)
  PROVE  Sound(Credited(b, r, key))
<1> DEFINE n == NumLots(b)
           repay == Least(r.amount, Greatest(-b.balance, 0))
           bucket == IF r.bucket = NoBucket THEN DefaultBucket ELSE r.bucket
           lot == NewLot(Len(b.entries) + 1, bucket, r.amount - repay, r.expires)
           moves == NoMoves(b)
           amt == r.amount
           lots == IF amt > repay THEN Append(b.lots, lot) ELSE b.lots
           e == Entry(b, amt, key, r, NoEntry, moves, repay)
<1>1. /\ b \in AccountSet /\ n \in Nat /\ RemTotal(b) \in Int /\ b.balance \in Int
      /\ b.lots \in Seq(LotSet) /\ Len(b.entries) + 1 \in Nat
  BY AccountParts, RemTotalInt DEF Sound
<1>2. amt \in Int /\ amt > 0 /\ NoEntry \in Nat /\ r.expires \in Nat
  BY DEF RequestSet, NoEntry
<1>3. repay \in Int /\ (amt > repay \/ amt = repay)
  BY <1>1, <1>2 DEF Least, Greatest
<1>4. bucket \in Buckets
  BY CatalogAssumption DEF RequestSet
<1>5. moves \in Seq(Int)
  <2>1. moves \in [1..n -> Int]
    BY DEF NoMoves
  <2> HIDE DEF moves
  <2> QED BY <1>1, <2>1, FunIsSeq
<1>6. Credited(b, r, key) = Posted(b, e, lots)
  BY DEF Credited
<1>7. RemTotal(b) = LotsRem(b.lots)
  BY DEF RemTotal, LotsRem, NumLots, Rem
<1> HIDE DEF repay, bucket, moves
<1>8. amt > repay => lot \in LotSet /\ lot.granted - lot.consumed = amt - repay
  <2>1. amt > repay => amt - repay \in Nat
    BY <1>2, <1>3
  <2> QED BY <1>1, <1>2, <1>4, <2>1, NewLotTyped
<1> HIDE DEF lot
<1>9. lots \in Seq(LotSet) /\ LotsRem(lots) = RemTotal(b) + (amt - repay)
  <2>1. CASE amt > repay
    BY <1>1, <1>7, <1>8, <2>1, AppendedLot
  <2>2. CASE amt = repay
    BY <1>1, <1>2, <1>3, <1>7, <2>2
  <2> QED BY <1>3, <2>1, <2>2
<1> HIDE DEF amt, lots
<1>10. /\ e \in EntrySet /\ e.after = b.balance + e.amount
       /\ e.amount = amt /\ e.key = key /\ e.debt = repay
  <2>1. e = Entry(b, amt, key, r, NoEntry, moves, repay)
    OBVIOUS
  <2>2. b \in AccountSet /\ amt \in Int /\ NoEntry \in Nat /\ moves \in Seq(Int) /\ repay \in Int
    BY <1>1, <1>2, <1>3, <1>5
  <2> HIDE DEF e
  <2> QED BY <2>1, <2>2, EntryTyped
<1> HIDE DEF e
<1>11. DebtOf(e) = -repay
  BY <1>2, <1>10, DebtOfSign
<1>12. LotsRem(lots) = RemTotal(b) + e.amount + DebtOf(e)
  BY <1>1, <1>2, <1>3, <1>9, <1>10, <1>11
<1> QED BY <1>6, <1>9, <1>10, <1>12, PostedSound

\* Totals over the entries that reference an entry are integers.
LEMMA ReferencedInt ==
  ASSUME NEW b \in AccountSet, NEW e, NEW kind
  PROVE  ReferencedBy(b, e, kind) \in Int
<1> DEFINE n == Len(b.entries)
           f == [i \in 1..n |-> IF b.entries[i].ref = e /\ b.entries[i].kind = kind
                                  THEN b.entries[i].amount ELSE 0]
<1>1. n \in Nat /\ \A i \in 1..n : b.entries[i].amount \in Int
  BY AccountParts, EntryParts
<1>2. \A i \in 1..n : f[i] \in Int
  BY <1>1
<1> HIDE DEF f
<1>3. SumTo(f, n) \in Int
  BY <1>1, <1>2, SumToInt
<1> QED BY <1>3 DEF ReferencedBy, f

\* So is what the refunds of an entry have restored to a lot.
LEMMA RestoredInt ==
  ASSUME NEW b \in AccountSet, NEW e, NEW l \in Nat \ {0}
  PROVE  Restored(b, e, l) \in Int
<1> DEFINE n == Len(b.entries)
           f == [i \in 1..n |-> IF b.entries[i].ref = e /\ b.entries[i].kind = "refund"
                                  THEN Moved(b.entries[i], l) ELSE 0]
<1>1. n \in Nat /\ \A i \in 1..n : Moved(b.entries[i], l) \in Int
  BY AccountParts, EntryParts
<1>2. \A i \in 1..n : f[i] \in Int
  BY <1>1
<1> HIDE DEF f
<1>3. SumTo(f, n) \in Int
  BY <1>1, <1>2, SumToInt
<1> QED BY <1>3 DEF Restored, f

\* What a refund gives back to the lots is a table of integers.
LEMMA GiveInt ==
  ASSUME NEW b \in AccountSet, NEW e \in 1..Len(b.entries), NEW amount \in Int,
         NEW rank
  PROVE  /\ Give(b, e, amount, rank) \in Seq(Int)
         /\ \A l \in 1..NumLots(b) : Give(b, e, amount, rank)[l] \in Int
         /\ SumTo(Give(b, e, amount, rank), NumLots(b)) \in Int
<1> DEFINE n == NumLots(b)
           open == OpenAllocation(b, e)
<1>1. n \in Nat /\ b.entries[e] \in EntrySet
  BY AccountParts
<1>2. \A l \in 1..n : l \in Nat \ {0}
  BY <1>1
<1>3. \A l \in 1..n : Moved(b.entries[e], l) \in Int /\ Restored(b, e, l) \in Int
  BY <1>1, <1>2, EntryParts, RestoredInt
<1>4. \A l \in 1..n : open[l] \in Int
  BY <1>3 DEF OpenAllocation
<1> HIDE DEF open
<1>5. /\ Fill(open, rank, amount, n) \in Seq(Int)
      /\ \A l \in 1..n : Fill(open, rank, amount, n)[l] \in Int
      /\ SumTo(Fill(open, rank, amount, n), n) \in Int
  BY <1>1, <1>4, FillInt
<1> QED BY <1>5 DEF Give, open

\* A refund splits its amount between restorations, repayment and a lot.
LEMMA RefundedSound ==
  ASSUME NEW b, Sound(b), NEW e \in 1..Len(b.entries), NEW amount \in Int, amount > 0,
         NEW key, key \in KeySet, ~KeyUsed(b, key), NEW req, req \in RequestSet, NEW rank
  PROVE  /\ Sound(Refunded(b, e, amount, key, req, rank))
         /\ NumLots(Refunded(b, e, amount, key, req, rank))
              \in {NumLots(b), NumLots(b) + 1}
<1> DEFINE n == NumLots(b)
           give == Give(b, e, amount, rank)
           back == GaveBack(b, give)
           left == amount - SumTo(give, n)
           repay == Least(left, Greatest(-b.balance, 0))
           lot == NewLot(Len(b.entries) + 1, DefaultBucket, left - repay, NoExpiry)
           lots == IF left > repay THEN Append(back, lot) ELSE back
           x == Entry(b, amount, key, req, e, give, repay)
<1>1. /\ b \in AccountSet /\ n \in Nat /\ RemTotal(b) \in Int /\ b.balance \in Int
      /\ Len(b.entries) + 1 \in Nat /\ e \in Nat /\ DefaultBucket \in Buckets
  BY AccountParts, RemTotalInt, CatalogAssumption DEF Sound
<1>2. /\ give \in Seq(Int) /\ (\A l \in 1..n : give[l] \in Int)
      /\ SumTo(give, n) \in Int
  BY <1>1, GiveInt
<1>3. Refunded(b, e, amount, key, req, rank) = Posted(b, x, lots)
  BY DEF Refunded
<1> HIDE DEF give
<1>4. /\ back \in Seq(LotSet) /\ Len(back) = n
      /\ LotsRem(back) = RemTotal(b) + SumTo(give, n)
  BY <1>1, <1>2, GaveBackLots
<1>5. left \in Int
  BY <1>2
<1>6. repay \in Int /\ (left > repay \/ left = repay)
  BY <1>1, <1>5 DEF Least, Greatest
<1> HIDE DEF back, repay
<1>7. left > repay => lot \in LotSet /\ lot.granted - lot.consumed = left - repay
  <2>1. left > repay => left - repay \in Nat
    BY <1>5, <1>6
  <2> QED BY <1>1, <2>1, NoExpiryNat, NewLotTyped
<1> HIDE DEF lot
<1>8. /\ lots \in Seq(LotSet) /\ Len(lots) \in {n, n + 1}
      /\ LotsRem(lots) = RemTotal(b) + SumTo(give, n) + (left - repay)
  <2>0. LotsRem(back) \in Int
    BY <1>1, <1>2, <1>4
  <2>1. CASE left > repay
    <3>1. lots = Append(back, lot) /\ lot \in LotSet
      BY <1>7, <2>1
    <3>2. lots \in Seq(LotSet) /\ LotsRem(lots) = LotsRem(back) + (lot.granted - lot.consumed)
      BY <1>4, <3>1, AppendedLot
    <3>3. Len(lots) = n + 1
      BY <1>4, <3>1
    <3> QED BY <1>1, <1>4, <1>7, <2>1, <3>2, <3>3
  <2>2. CASE left = repay
    <3>1. lots = back
      BY <1>5, <2>2
    <3>2. left - repay = 0
      BY <1>5, <2>2
    <3> QED BY <1>1, <1>2, <1>4, <3>1, <3>2
  <2> QED BY <1>6, <2>1, <2>2
<1>9. SumTo(give, n) + (left - repay) = amount - repay
  BY <1>2, <1>6
<1> HIDE DEF lots, left
<1>10. /\ x \in EntrySet /\ x.after = b.balance + x.amount
       /\ x.amount = amount /\ x.key = key /\ x.debt = repay
  <2>1. x = Entry(b, amount, key, req, e, give, repay)
    OBVIOUS
  <2>2. b \in AccountSet /\ amount \in Int /\ e \in Nat /\ give \in Seq(Int) /\ repay \in Int
    BY <1>1, <1>2, <1>6
  <2> HIDE DEF x
  <2> QED BY <2>1, <2>2, EntryTyped
<1> HIDE DEF x
<1>11. DebtOf(x) = -repay
  BY <1>10, DebtOfSign
<1>12. LotsRem(lots) = RemTotal(b) + x.amount + DebtOf(x)
  <2> DEFINE given == SumTo(give, n)
             kept == left - repay
             all == RemTotal(b)
  <2>1. given \in Int /\ kept \in Int /\ all \in Int
    BY <1>1, <1>2, <1>5, <1>6
  <2>2. LotsRem(lots) = all + given + kept /\ given + kept = amount - repay
    BY <1>8, <1>9
  <2>3. x.amount = amount /\ DebtOf(x) = -repay /\ repay \in Int
    BY <1>6, <1>10, <1>11
  <2> HIDE DEF given, kept, all
  <2>4. LotsRem(lots) = all + x.amount + DebtOf(x)
    BY <2>1, <2>2, <2>3
  <2> QED BY <2>4 DEF all
<1>13. Sound(Posted(b, x, lots))
  BY <1>8, <1>10, <1>12, PostedSound
<1>14. NumLots(Posted(b, x, lots)) = Len(lots)
  BY DEF NumLots, Posted
<1> QED BY <1>3, <1>8, <1>13, <1>14

\* A clawback splits its amount between the source's lots and debt.
LEMMA ClawedBackSound ==
  ASSUME NEW b, Sound(b), NEW e \in 1..Len(b.entries), NEW amount \in Int, amount > 0,
         NEW key, key \in KeySet, ~KeyUsed(b, key), NEW req, req \in RequestSet
  PROVE  Sound(ClawedBack(b, e, amount, key, req))
<1> DEFINE n == NumLots(b)
           take == [l \in 1..n |->
                      IF b.lots[l].source = e THEN Least(amount, Rem(b, l)) ELSE 0]
           debt == amount - SumTo(take, n)
           amt == -amount
           x == Entry(b, amt, key, req, e, take, debt)
<1>1. /\ b \in AccountSet /\ n \in Nat /\ RemTotal(b) \in Int /\ e \in Nat
      /\ \A l \in 1..n : Rem(b, l) \in Int
  BY AccountParts, RemTotalInt DEF Sound
<1>2. \A l \in 1..n : take[l] \in Int
  BY <1>1 DEF Least
<1>3. take \in [1..n -> Int]
  BY <1>2
<1>4. ClawedBack(b, e, amount, key, req) = Posted(b, x, Consumed(b, take))
  BY DEF ClawedBack
<1> HIDE DEF take
<1>5. take \in Seq(Int) /\ SumTo(take, n) \in Int
  BY <1>1, <1>2, <1>3, FunIsSeq, SumToInt
<1>6. debt \in Int /\ amt \in Int /\ amt < 0
  BY <1>5
<1>7. /\ x \in EntrySet /\ x.after = b.balance + x.amount
      /\ x.amount = amt /\ x.key = key /\ x.debt = debt
  <2>1. x = Entry(b, amt, key, req, e, take, debt)
    OBVIOUS
  <2>2. b \in AccountSet /\ amt \in Int /\ e \in Nat /\ take \in Seq(Int) /\ debt \in Int
    BY <1>1, <1>5, <1>6
  <2> HIDE DEF x, amt, debt
  <2> QED BY <2>1, <2>2, EntryTyped
<1> HIDE DEF x
<1>8. /\ Consumed(b, take) \in Seq(LotSet)
      /\ LotsRem(Consumed(b, take)) = RemTotal(b) - SumTo(take, n)
  BY <1>1, <1>2, ConsumedLots
<1>9. DebtOf(x) = debt
  BY <1>6, <1>7, DebtOfSign
<1>10. LotsRem(Consumed(b, take)) = RemTotal(b) + x.amount + DebtOf(x)
  BY <1>1, <1>5, <1>7, <1>8, <1>9
<1> QED BY <1>4, <1>7, <1>8, <1>10, PostedSound
-----------------------------------------------------------------------------
(* What a posting does to the totals *)

\* A posting adds its amount to the total of its kind for the entry it corrects.
LEMMA ReferencedPosted ==
  ASSUME NEW b \in AccountSet, NEW e \in EntrySet, NEW lots, NEW i, NEW kind
  PROVE  ReferencedBy(Posted(b, e, lots), i, kind) =
           ReferencedBy(b, i, kind)
             + (IF e.ref = i /\ e.kind = kind THEN e.amount ELSE 0)
<1> DEFINE p == Posted(b, e, lots)
           n == Len(b.entries)
           f == [j \in 1..n |-> IF b.entries[j].ref = i /\ b.entries[j].kind = kind
                                  THEN b.entries[j].amount ELSE 0]
           g == [j \in 1..(n+1) |-> IF p.entries[j].ref = i /\ p.entries[j].kind = kind
                                  THEN p.entries[j].amount ELSE 0]
<1>1. /\ n \in Nat /\ Len(p.entries) = n + 1 /\ p.entries[n+1] = e
      /\ \A j \in 1..n : p.entries[j] = b.entries[j]
  BY PostedParts
<1> HIDE DEF p
<1>2. \A j \in 1..n : g[j] = f[j]
  BY <1>1
<1>3. g[n+1] = IF e.ref = i /\ e.kind = kind THEN e.amount ELSE 0
  BY <1>1
<1>4. ReferencedBy(b, i, kind) = SumTo(f, n) /\ ReferencedBy(p, i, kind) = SumTo(g, n+1)
  BY <1>1 DEF ReferencedBy
<1> HIDE DEF f, g
<1>5. SumTo(g, n+1) = SumTo(g, n) + g[n+1] /\ SumTo(g, n) = SumTo(f, n)
  BY <1>1, <1>2, SumToStep, SumToEqual
<1> QED BY <1>3, <1>4, <1>5 DEF p

\* A refund adds what it moves to the restorations of the entry it corrects.
LEMMA RestoredPosted ==
  ASSUME NEW b \in AccountSet, NEW e \in EntrySet, NEW lots, NEW i, NEW l
  PROVE  Restored(Posted(b, e, lots), i, l) =
           Restored(b, i, l)
             + (IF e.ref = i /\ e.kind = "refund" THEN Moved(e, l) ELSE 0)
<1> DEFINE p == Posted(b, e, lots)
           n == Len(b.entries)
           f == [j \in 1..n |-> IF b.entries[j].ref = i /\ b.entries[j].kind = "refund"
                                  THEN Moved(b.entries[j], l) ELSE 0]
           g == [j \in 1..(n+1) |-> IF p.entries[j].ref = i /\ p.entries[j].kind = "refund"
                                  THEN Moved(p.entries[j], l) ELSE 0]
<1>1. /\ n \in Nat /\ Len(p.entries) = n + 1 /\ p.entries[n+1] = e
      /\ \A j \in 1..n : p.entries[j] = b.entries[j]
  BY PostedParts
<1> HIDE DEF p
<1>2. \A j \in 1..n : g[j] = f[j]
  BY <1>1
<1>3. g[n+1] = IF e.ref = i /\ e.kind = "refund" THEN Moved(e, l) ELSE 0
  BY <1>1
<1>4. Restored(b, i, l) = SumTo(f, n) /\ Restored(p, i, l) = SumTo(g, n+1)
  BY <1>1 DEF Restored
<1> HIDE DEF f, g
<1>5. SumTo(g, n+1) = SumTo(g, n) + g[n+1] /\ SumTo(g, n) = SumTo(f, n)
  BY <1>1, <1>2, SumToStep, SumToEqual
<1> QED BY <1>3, <1>4, <1>5 DEF p

\* An entry adds its debt, or takes off its repayment.
LEMMA DebtPosted ==
  ASSUME NEW b \in AccountSet, NEW e \in EntrySet, NEW lots
  PROVE  Debt(Posted(b, e, lots)) = Debt(b) + DebtOf(e)
<1> DEFINE p == Posted(b, e, lots)
           n == Len(b.entries)
           f == [i \in 1..n |-> DebtOf(b.entries[i])]
           g == [i \in 1..(n+1) |-> DebtOf(p.entries[i])]
<1>1. /\ n \in Nat /\ Len(p.entries) = n + 1 /\ p.entries[n+1] = e
      /\ \A j \in 1..n : p.entries[j] = b.entries[j]
  BY PostedParts
<1> HIDE DEF p
<1>2. (\A j \in 1..n : g[j] = f[j]) /\ g[n+1] = DebtOf(e)
  BY <1>1
<1>3. Debt(b) = SumTo(f, n) /\ Debt(p) = SumTo(g, n+1)
  BY <1>1 DEF Debt
<1> HIDE DEF f, g
<1>4. SumTo(g, n+1) = SumTo(g, n) + g[n+1] /\ SumTo(g, n) = SumTo(f, n)
  BY <1>1, <1>2, SumToStep, SumToEqual
<1> QED BY <1>2, <1>3, <1>4 DEF p

\* No entry corrects one that is not yet in the ledger.
LEMMA NotYetReferenced ==
  ASSUME NEW b \in AccountSet, Referential(b)
  PROVE  /\ \A kind : ReferencedBy(b, Len(b.entries) + 1, kind) = 0
         /\ \A l : Restored(b, Len(b.entries) + 1, l) = 0
<1> DEFINE n == Len(b.entries)
<1>1. n \in Nat /\ \A j \in 1..n : b.entries[j].ref # n + 1
  <2>1. n \in Nat /\ \A j \in 1..n : b.entries[j].ref \in Nat /\ b.entries[j].ref < j
    BY AccountParts DEF Referential, EntrySet
  <2> QED BY <2>1
<1>2. ASSUME NEW kind PROVE ReferencedBy(b, n + 1, kind) = 0
  <2> DEFINE f == [j \in 1..n |-> IF b.entries[j].ref = n + 1 /\ b.entries[j].kind = kind
                                    THEN b.entries[j].amount ELSE 0]
  <2>1. \A j \in 1..n : f[j] = 0
    BY <1>1
  <2>2. ReferencedBy(b, n + 1, kind) = SumTo(f, n)
    BY DEF ReferencedBy
  <2> HIDE DEF f
  <2> QED BY <1>1, <2>1, <2>2, SumToNone
<1>3. ASSUME NEW l PROVE Restored(b, n + 1, l) = 0
  <2> DEFINE f == [j \in 1..n |-> IF b.entries[j].ref = n + 1 /\ b.entries[j].kind = "refund"
                                    THEN Moved(b.entries[j], l) ELSE 0]
  <2>1. \A j \in 1..n : f[j] = 0
    BY <1>1
  <2>2. Restored(b, n + 1, l) = SumTo(f, n)
    BY DEF Restored
  <2> HIDE DEF f
  <2> QED BY <1>1, <2>1, <2>2, SumToNone
<1> QED BY <1>2, <1>3

\* No entry has moved credits of a lot that does not exist yet.
LEMMA NotYetMoved ==
  ASSUME NEW b \in AccountSet, Referential(b), NEW l \in Nat, l > NumLots(b)
  PROVE  /\ \A i \in 1..Len(b.entries) : Moved(b.entries[i], l) = 0
         /\ \A i : Restored(b, i, l) = 0
<1> DEFINE n == Len(b.entries)
<1>1. n \in Nat /\ NumLots(b) \in Nat
      /\ \A i \in 1..n : b.entries[i].moves \in Seq(Int) /\ Len(b.entries[i].moves) <= NumLots(b)
  BY AccountParts DEF Referential, EntrySet
<1>2. \A i \in 1..n : Moved(b.entries[i], l) = 0
  <2> SUFFICES ASSUME NEW i \in 1..n PROVE Moved(b.entries[i], l) = 0
    OBVIOUS
  <2>1. Len(b.entries[i].moves) \in Nat /\ Len(b.entries[i].moves) <= NumLots(b)
    BY <1>1
  <2> QED BY <1>1, <2>1 DEF Moved
<1>3. ASSUME NEW i PROVE Restored(b, i, l) = 0
  <2> DEFINE f == [j \in 1..n |-> IF b.entries[j].ref = i /\ b.entries[j].kind = "refund"
                                    THEN Moved(b.entries[j], l) ELSE 0]
  <2>1. \A j \in 1..n : f[j] = 0
    BY <1>2
  <2>2. Restored(b, i, l) = SumTo(f, n)
    BY DEF Restored
  <2> HIDE DEF f
  <2> QED BY <1>1, <2>1, <2>2, SumToNone
<1> QED BY <1>2, <1>3

-----------------------------------------------------------------------------
(* When a posting keeps every credit explained *)

\* What an entry adds to the consumption of a lot.
Takes(e, l) == IF e.amount < 0 THEN Moved(e, l) ELSE -Moved(e, l)

\* lots is what the lots of b become when e moves credits between them.
MovesLots(b, e, lots) ==
  /\ lots \in Seq(LotSet)
  /\ Len(lots) = NumLots(b) \/ Len(lots) = NumLots(b) + 1
  /\ Len(e.moves) = NumLots(b)
  /\ \A l \in 1..NumLots(b) :
       /\ e.moves[l] >= 0
       /\ lots[l].source = b.lots[l].source
       /\ lots[l].granted = b.lots[l].granted
       /\ lots[l].consumed = b.lots[l].consumed + Takes(e, l)
       /\ 0 <= lots[l].consumed
       /\ lots[l].consumed <= lots[l].granted
  /\ Len(lots) = NumLots(b) + 1 =>
       /\ lots[NumLots(b) + 1].source = Len(b.entries) + 1
       /\ lots[NumLots(b) + 1].consumed = 0

\* What e grants as a lot of its own.
OwnLot(b, lots) == IF Len(lots) = NumLots(b) THEN 0 ELSE lots[NumLots(b) + 1].granted

\* e is split without remainder and repays no more than is owed.
SplitsUp(b, e, lots) ==
  /\ e.debt >= 0
  /\ (IF e.amount < 0 THEN -e.amount ELSE e.amount)
       = SumTo(e.moves, NumLots(b)) + e.debt + OwnLot(b, lots)
  /\ Debt(b) + DebtOf(e) >= 0

\* e corrects at most what is left to correct of the entry it names.
Corrects(b, e) ==
  /\ e.ref <= Len(b.entries)
  /\ e.kind = "refund" =>
       /\ e.ref > 0
       /\ e.amount > 0
       /\ b.entries[e.ref].amount < 0
       /\ ReferencedBy(b, e.ref, "refund") + e.amount <= -b.entries[e.ref].amount
       /\ \A l \in 1..NumLots(b) :
            Restored(b, e.ref, l) + e.moves[l] <= Moved(b.entries[e.ref], l)
  /\ e.kind # "refund" /\ ~(e.amount < 0) => \A l \in 1..NumLots(b) : e.moves[l] = 0
  /\ e.kind = "refund_clawback" =>
       /\ e.ref > 0
       /\ -ReferencedBy(b, e.ref, "refund_clawback") - e.amount <= b.entries[e.ref].amount

\* The lots an entry of the ledger created are those it already had, and a new
\* lot is the new entry's.
LEMMA LotFromPosted ==
  ASSUME NEW b \in AccountSet, NEW e \in EntrySet, NEW lots, Referential(b),
         MovesLots(b, e, lots)
  PROVE  /\ \A i \in 1..Len(b.entries) : LotFrom(Posted(b, e, lots), i) = LotFrom(b, i)
         /\ LotFrom(Posted(b, e, lots), Len(b.entries) + 1) = OwnLot(b, lots)
<1> DEFINE p == Posted(b, e, lots)
           n == Len(b.entries)
           m == NumLots(b)
           f(i) == [l \in 1..m |-> IF b.lots[l].source = i THEN b.lots[l].granted ELSE 0]
           g(i) == [l \in 1..Len(lots) |-> IF lots[l].source = i THEN lots[l].granted ELSE 0]
<1>1. n \in Nat /\ m \in Nat /\ \A l \in 1..m : b.lots[l].source \in 1..n
  BY AccountParts DEF Referential
<1>2. p.lots = lots /\ NumLots(p) = Len(lots)
  BY PostedParts
<1> HIDE DEF p
<1>3. \A i : LotFrom(p, i) = SumTo(g(i), Len(lots)) /\ LotFrom(b, i) = SumTo(f(i), m)
  BY <1>2 DEF LotFrom
<1>4. \A i : \A l \in 1..m : g(i)[l] = f(i)[l]
  BY <1>1 DEF MovesLots
<1>5. \A i : SumTo(g(i), m) = SumTo(f(i), m)
  <2> HIDE DEF f, g
  <2> QED BY <1>1, <1>4, SumToEqual
<1>6. SumTo(f(n+1), m) = 0
  <2>1. \A l \in 1..m : f(n+1)[l] = 0
    BY <1>1
  <2> HIDE DEF f
  <2> QED BY <1>1, <2>1, SumToNone
<1>7. CASE Len(lots) = m
  <2> HIDE DEF f, g
  <2>1. \A i : LotFrom(p, i) = LotFrom(b, i)
    BY <1>3, <1>5, <1>7
  <2>2. LotFrom(p, n + 1) = 0
    BY <1>3, <1>5, <1>6, <1>7
  <2>3. OwnLot(b, lots) = 0
    BY <1>7 DEF OwnLot
  <2> QED BY <2>1, <2>2, <2>3 DEF p
<1>8. CASE Len(lots) = m + 1
  <2>1. lots[m+1].source = n + 1 /\ lots[m+1].granted \in Nat
    <3>1. lots \in Seq(LotSet) /\ m + 1 \in 1..Len(lots)
      BY <1>1, <1>8 DEF MovesLots
    <3>2. lots[m+1] \in LotSet
      BY <3>1
    <3> QED BY <1>8, <3>2 DEF MovesLots, LotSet
  <2>2. \A i : g(i)[m+1] = IF i = n + 1 THEN lots[m+1].granted ELSE 0
    BY <1>1, <1>8, <2>1
  <2>3. \A i : SumTo(g(i), m + 1) = SumTo(g(i), m) + g(i)[m+1]
    <3> HIDE DEF g
    <3> QED BY <1>1, SumToStep
  <2>4. \A i \in 1..n : SumTo(f(i), m) \in Int /\ i # n + 1
    <3> SUFFICES ASSUME NEW i \in 1..n PROVE SumTo(f(i), m) \in Int /\ i # n + 1
      OBVIOUS
    <3>1. \A l \in 1..m : f(i)[l] \in Int
      BY <1>1, AccountParts DEF LotSet
    <3> HIDE DEF f
    <3> QED BY <1>1, <3>1, SumToInt
  <2> HIDE DEF f, g
  <2>5. \A i \in 1..n : LotFrom(p, i) = LotFrom(b, i)
    BY <1>3, <1>5, <1>8, <2>2, <2>3, <2>4
  <2>6. LotFrom(p, n + 1) = lots[m+1].granted
    BY <1>3, <1>5, <1>6, <1>8, <2>1, <2>2, <2>3
  <2>7. OwnLot(b, lots) = lots[m+1].granted
    BY <1>1, <1>8 DEF OwnLot
  <2> QED BY <2>5, <2>6, <2>7 DEF p
<1> QED BY <1>7, <1>8 DEF MovesLots

\* References stay in order.
LEMMA PostedReferential ==
  ASSUME NEW b \in AccountSet, NEW e \in EntrySet, NEW lots, Referential(b),
         MovesLots(b, e, lots), e.ref <= Len(b.entries)
  PROVE  Referential(Posted(b, e, lots))
<1> DEFINE p == Posted(b, e, lots)
           n == Len(b.entries)
           m == NumLots(b)
           k == Len(lots)
<1>1. /\ n \in Nat /\ Len(p.entries) = n + 1 /\ p.entries[n+1] = e
      /\ \A j \in 1..n : p.entries[j] = b.entries[j]
      /\ \A i \in 1..(n+1) : i \in 1..n \/ i = n + 1
      /\ p.lots = lots /\ NumLots(p) = k
  BY PostedParts
<1>2. m \in Nat /\ (k = m \/ k = m + 1) /\ Len(e.moves) = m /\ e.ref \in Nat
  BY AccountParts DEF MovesLots, EntrySet
<1> HIDE DEF p
<1>3. ASSUME NEW i \in 1..(n+1)
      PROVE  /\ p.entries[i].ref < i
             /\ Len(p.entries[i].moves) <= k
             /\ \A l \in 1..Len(p.entries[i].moves) : p.entries[i].moves[l] >= 0
  <2>1. CASE i \in 1..n
    <3>1. b.entries[i] \in EntrySet
      BY <2>1, AccountParts
    <3>2. Len(b.entries[i].moves) \in Nat
      <4>1. b.entries[i].moves \in Seq(Int)
        BY <3>1 DEF EntrySet
      <4> QED BY <4>1
    <3>3. /\ b.entries[i].ref < i /\ Len(b.entries[i].moves) <= m
          /\ \A l \in 1..Len(b.entries[i].moves) : b.entries[i].moves[l] >= 0
      BY <2>1 DEF Referential
    <3>4. p.entries[i] = b.entries[i]
      BY <1>1, <2>1
    <3>5. Len(b.entries[i].moves) <= k
      BY <1>2, <3>2, <3>3
    <3> QED BY <3>3, <3>4, <3>5
  <2>2. CASE i = n + 1
    <3>1. p.entries[i] = e
      BY <1>1, <2>2
    <3>2. e.ref < i /\ Len(e.moves) <= k
      BY <1>1, <1>2, <2>2
    <3>3. \A l \in 1..Len(e.moves) : e.moves[l] >= 0
      BY <1>2 DEF MovesLots
    <3> QED BY <3>1, <3>2, <3>3
  <2> QED BY <1>1, <2>1, <2>2
<1>4. \A l \in 1..m : lots[l].source = b.lots[l].source /\ b.lots[l].source \in 1..n
  BY DEF MovesLots, Referential
<1>5. k = m + 1 => lots[m+1].source = n + 1
  BY DEF MovesLots
<1>6. \A l \in 1..k : l \in 1..m \/ (k = m + 1 /\ l = m + 1)
  BY <1>2
<1>7. \A l \in 1..k : lots[l].source \in 1..(n+1)
  BY <1>1, <1>4, <1>5, <1>6
<1>8. ASSUME NEW l \in 1..k, NEW j \in 1..k, lots[l].source = lots[j].source
      PROVE  l = j
  <2>1. \A x, y \in 1..m : b.lots[x].source = b.lots[y].source => x = y
    BY DEF Referential
  <2>2. \A x \in 1..m : lots[x].source # n + 1
    BY <1>1, <1>4
  <2> QED BY <1>4, <1>5, <1>6, <1>8, <2>1, <2>2
<1>9. Referential(p)
  BY <1>1, <1>3, <1>7, <1>8 DEF Referential
<1> QED BY <1>9 DEF p

\* The lots stay within bounds.
LEMMA PostedInBounds ==
  ASSUME NEW b \in AccountSet, NEW e \in EntrySet, NEW lots, MovesLots(b, e, lots)
  PROVE  LotsInBounds(Posted(b, e, lots))
<1> DEFINE p == Posted(b, e, lots)
           m == NumLots(b)
           k == Len(lots)
<1>1. p.lots = lots
  BY PostedParts
<1>2. m \in Nat /\ \A l \in 1..k : l \in 1..m \/ (k = m + 1 /\ l = m + 1)
  BY AccountParts DEF MovesLots
<1>3. \A l \in 1..k : lots[l].granted \in Nat
  <2>1. lots \in Seq(LotSet)
    BY DEF MovesLots
  <2>2. \A l \in 1..k : lots[l] \in LotSet
    BY <2>1
  <2> QED BY <2>2 DEF LotSet
<1> HIDE DEF p
<1>4. ASSUME NEW l \in 1..k
      PROVE  0 <= lots[l].consumed /\ lots[l].consumed <= lots[l].granted
  <2>1. CASE l \in 1..m
    BY <2>1 DEF MovesLots
  <2>2. CASE k = m + 1 /\ l = m + 1
    BY <1>3, <2>2 DEF MovesLots
  <2> QED BY <1>2, <2>1, <2>2
<1>5. LotsInBounds(p)
  BY <1>1, <1>4 DEF LotsInBounds
<1> QED BY <1>5 DEF p

\* What a posting moves, lot by lot.
LEMMA MovedParts ==
  ASSUME NEW b \in AccountSet, NEW e \in EntrySet, NEW lots, MovesLots(b, e, lots)
  PROVE  /\ \A l \in 1..NumLots(b) :
              Moved(e, l) = e.moves[l] /\ Moved(e, l) \in Nat /\ Takes(e, l) \in Int
         /\ Moved(e, NumLots(b) + 1) = 0
         /\ Takes(e, NumLots(b) + 1) = 0
<1>1. /\ NumLots(b) \in Nat /\ Len(e.moves) = NumLots(b) /\ e.moves \in Seq(Int)
      /\ \A l \in 1..NumLots(b) : e.moves[l] >= 0
  BY AccountParts DEF MovesLots, EntrySet
<1>2. \A l \in 1..NumLots(b) : Moved(e, l) = e.moves[l] /\ Moved(e, l) \in Nat
  BY <1>1 DEF Moved
<1>3. Moved(e, NumLots(b) + 1) = 0
  BY <1>1 DEF Moved
<1> QED BY <1>2, <1>3 DEF Takes

\* consumed stays what the entries took and restored.
LEMMA PostedAllocated ==
  ASSUME NEW b \in AccountSet, NEW e \in EntrySet, NEW lots, Referential(b),
         MovesLots(b, e, lots), ConsumedIsAllocated(b)
  PROVE  ConsumedIsAllocated(Posted(b, e, lots))
<1> DEFINE p == Posted(b, e, lots)
           n == Len(b.entries)
           m == NumLots(b)
           k == Len(lots)
           f(l) == [i \in 1..n |-> Takes(b.entries[i], l)]
           g(l) == [i \in 1..(n+1) |-> Takes(p.entries[i], l)]
<1>1. /\ n \in Nat /\ Len(p.entries) = n + 1 /\ p.entries[n+1] = e
      /\ \A j \in 1..n : p.entries[j] = b.entries[j]
      /\ p.lots = lots /\ NumLots(p) = k
  BY PostedParts
<1>2. m \in Nat /\ \A l \in 1..k : l \in 1..m \/ (k = m + 1 /\ l = m + 1)
  BY AccountParts DEF MovesLots
<1> HIDE DEF p
<1>3. \A l : (\A i \in 1..n : g(l)[i] = f(l)[i]) /\ g(l)[n+1] = Takes(e, l)
  BY <1>1
<1>4. \A l \in 1..m : b.lots[l].consumed = SumTo(f(l), n)
  BY DEF ConsumedIsAllocated, Takes
<1>5. (\A l \in 1..k : lots[l].consumed = SumTo(g(l), n + 1)) => ConsumedIsAllocated(p)
  BY <1>1 DEF ConsumedIsAllocated, Takes
<1>6. \A i \in 1..n : f(m+1)[i] = 0
  <2>1. m + 1 \in Nat /\ m + 1 > m
    BY <1>2
  <2>2. \A i \in 1..n : Moved(b.entries[i], m + 1) = 0
    BY <2>1, NotYetMoved
  <2> QED BY <2>2 DEF Takes
<1> HIDE DEF f, g
<1>7. \A l : SumTo(g(l), n + 1) = SumTo(f(l), n) + Takes(e, l)
  <2> SUFFICES ASSUME NEW l PROVE SumTo(g(l), n + 1) = SumTo(f(l), n) + Takes(e, l)
    OBVIOUS
  <2>1. SumTo(g(l), n+1) = SumTo(g(l), n) + g(l)[n+1]
    BY <1>1, SumToStep
  <2>2. SumTo(g(l), n) = SumTo(f(l), n)
    BY <1>1, <1>3, SumToEqual
  <2> QED BY <1>3, <2>1, <2>2
<1>8. SumTo(f(m+1), n) = 0
  BY <1>1, <1>6, SumToNone
<1>9. ASSUME NEW l \in 1..k PROVE lots[l].consumed = SumTo(g(l), n + 1)
  <2>1. CASE l \in 1..m
    <3>1. lots[l].consumed = b.lots[l].consumed + Takes(e, l)
      BY <2>1 DEF MovesLots
    <3> QED BY <1>4, <1>7, <2>1, <3>1
  <2>2. CASE k = m + 1 /\ l = m + 1
    <3>1. lots[l].consumed = 0
      BY <2>2 DEF MovesLots
    <3>2. Takes(e, m + 1) = 0
      BY MovedParts
    <3> QED BY <1>7, <1>8, <2>2, <3>1, <3>2
  <2> QED BY <1>2, <2>1, <2>2
<1> QED BY <1>5, <1>9 DEF p

\* What the entries moved and restored are integers.
LEMMA OutstandingInt ==
  ASSUME NEW b \in AccountSet, NEW i \in 1..Len(b.entries), NEW l \in Nat \ {0}
  PROVE  Moved(b.entries[i], l) \in Int /\ Restored(b, i, l) \in Int /\ Outstanding(b, i, l) \in Int
<1>1. b.entries[i] \in EntrySet
  BY AccountParts
<1>2. Moved(b.entries[i], l) \in Int /\ Restored(b, i, l) \in Int
  BY <1>1, EntryParts, RestoredInt
<1> QED BY <1>2 DEF Outstanding

\* What is outstanding of each entry after a posting.
LEMMA OutstandingPosted ==
  ASSUME NEW b \in AccountSet, NEW e \in EntrySet, NEW lots, Referential(b),
         MovesLots(b, e, lots), Corrects(b, e), NEW l \in 1..(NumLots(b) + 1)
  PROVE  /\ \A i \in 1..Len(b.entries) :
              Outstanding(Posted(b, e, lots), i, l) =
                Outstanding(b, i, l)
                  - (IF e.ref = i /\ e.kind = "refund" THEN Moved(e, l) ELSE 0)
         /\ Outstanding(Posted(b, e, lots), Len(b.entries) + 1, l) =
              IF e.kind = "refund" THEN 0 ELSE Takes(e, l)
<1> DEFINE p == Posted(b, e, lots)
           n == Len(b.entries)
           m == NumLots(b)
<1>1. /\ n \in Nat /\ Len(p.entries) = n + 1 /\ p.entries[n+1] = e
      /\ \A j \in 1..n : p.entries[j] = b.entries[j]
  BY PostedParts
<1>2. m \in Nat /\ l \in Nat \ {0} /\ (l \in 1..m \/ l = m + 1)
  BY AccountParts
<1>3. \A i : Restored(p, i, l) =
               Restored(b, i, l) + (IF e.ref = i /\ e.kind = "refund" THEN Moved(e, l) ELSE 0)
  BY RestoredPosted
<1>4. Moved(e, l) \in Int
  BY <1>2, EntryParts
<1>5. e.ref \in Nat /\ e.ref <= n
  BY DEF Corrects, EntrySet
<1> HIDE DEF p
<1>6. ASSUME NEW i \in 1..n
      PROVE  Outstanding(p, i, l) =
               Outstanding(b, i, l) - (IF e.ref = i /\ e.kind = "refund" THEN Moved(e, l) ELSE 0)
  <2>1. Moved(b.entries[i], l) \in Int /\ Restored(b, i, l) \in Int
    BY <1>2, OutstandingInt
  <2>2. p.entries[i] = b.entries[i]
    BY <1>1
  <2>3. CASE e.ref = i /\ e.kind = "refund"
    <3>1. b.entries[i].amount < 0
      BY <2>3 DEF Corrects
    <3>2. Restored(p, i, l) = Restored(b, i, l) + Moved(e, l)
      BY <1>3, <2>3
    <3> QED BY <1>4, <2>1, <2>2, <2>3, <3>1, <3>2 DEF Outstanding
  <2>4. CASE ~(e.ref = i /\ e.kind = "refund")
    <3>1. Restored(p, i, l) = Restored(b, i, l)
      BY <1>3, <2>1, <2>4
    <3> QED BY <2>1, <2>2, <2>4, <3>1 DEF Outstanding
  <2> QED BY <2>3, <2>4
<1>7. Outstanding(p, n + 1, l) = IF e.kind = "refund" THEN 0 ELSE Takes(e, l)
  <2>1. Restored(b, n + 1, l) = 0
    BY NotYetReferenced
  <2>2. Restored(p, n + 1, l) = 0
    BY <1>1, <1>3, <1>5, <2>1
  <2>3. Outstanding(p, n + 1, l) = IF e.amount < 0 THEN Moved(e, l) ELSE 0
    BY <1>1, <1>4, <2>2 DEF Outstanding
  <2>4. e.amount \in Int
    BY EntryParts
  <2>5. CASE e.kind = "refund"
    <3>1. ~(e.amount < 0)
      BY <2>4, <2>5 DEF Corrects
    <3> QED BY <2>3, <2>5, <3>1
  <2>6. CASE e.kind # "refund" /\ ~(e.amount < 0)
    <3>1. Moved(e, l) = 0
      BY <1>2, <2>6, MovedParts DEF Corrects
    <3> QED BY <2>3, <2>6, <3>1 DEF Takes
  <2>7. CASE e.kind # "refund" /\ e.amount < 0
    BY <2>3, <2>7 DEF Takes
  <2> QED BY <2>5, <2>6, <2>7
<1> QED BY <1>6, <1>7 DEF p

\* consumed stays what the debits took and their refunds have not restored.
LEMMA PostedOutstanding ==
  ASSUME NEW b \in AccountSet, NEW e \in EntrySet, NEW lots, Referential(b),
         MovesLots(b, e, lots), Corrects(b, e), ConsumedIsOutstanding(b)
  PROVE  ConsumedIsOutstanding(Posted(b, e, lots))
<1> DEFINE p == Posted(b, e, lots)
           n == Len(b.entries)
           m == NumLots(b)
           k == Len(lots)
           f(l) == [i \in 1..n |-> Outstanding(b, i, l)]
           g(l) == [i \in 1..(n+1) |-> Outstanding(p, i, l)]
<1>1. n \in Nat /\ Len(p.entries) = n + 1 /\ p.lots = lots /\ NumLots(p) = k
  BY PostedParts
<1>2. m \in Nat /\ \A l \in 1..k : l \in 1..m \/ (k = m + 1 /\ l = m + 1)
  BY AccountParts DEF MovesLots
<1> HIDE DEF p
<1>3. \A l \in 1..m : b.lots[l].consumed = SumTo(f(l), n)
  BY DEF ConsumedIsOutstanding
<1>4. (\A l \in 1..k : lots[l].consumed = SumTo(g(l), n + 1)) => ConsumedIsOutstanding(p)
  BY <1>1 DEF ConsumedIsOutstanding
<1>5. ASSUME NEW l \in 1..(m+1)
      PROVE  SumTo(g(l), n + 1) = SumTo(f(l), n) + Takes(e, l)
  <2>0. l \in Nat \ {0} /\ Moved(e, l) \in Int
    BY <1>2, EntryParts
  <2>1. \A i \in 1..n : f(l)[i] \in Int /\ f(l)[i] = Outstanding(b, i, l)
    BY <2>0, OutstandingInt
  <2>2. /\ \A i \in 1..n : g(l)[i] = Outstanding(p, i, l)
        /\ g(l)[n+1] = Outstanding(p, n + 1, l)
    BY <1>1
  <2>3. /\ \A i \in 1..n : Outstanding(p, i, l) =
             Outstanding(b, i, l) - (IF e.ref = i /\ e.kind = "refund" THEN Moved(e, l) ELSE 0)
        /\ Outstanding(p, n + 1, l) = IF e.kind = "refund" THEN 0 ELSE Takes(e, l)
    BY OutstandingPosted DEF p
  <2> HIDE DEF f, g
  <2>4. SumTo(g(l), n + 1) = SumTo(g(l), n) + g(l)[n+1] /\ SumTo(f(l), n) \in Int
    BY <1>1, <2>1, SumToStep, SumToInt
  <2>5. CASE e.kind = "refund"
    <3>1. e.ref \in 1..n /\ ~(e.amount < 0)
      BY <2>5, EntryParts DEF Corrects, EntrySet
    <3> DEFINE x == e.ref
               c == -Moved(e, l)
    <3>2. c \in Int /\ x \in 1..n
      BY <2>0, <3>1
    <3>3. /\ g(l)[x] = f(l)[x] + c
          /\ \A i \in 1..n : i # x => g(l)[i] = f(l)[i]
          /\ \A i \in 1..n : f(l)[i] \in Int /\ g(l)[i] \in Int
      <4> SUFFICES ASSUME NEW i \in 1..n
                   PROVE  /\ f(l)[i] \in Int /\ g(l)[i] \in Int
                          /\ g(l)[i] = IF i = x THEN f(l)[i] + c ELSE f(l)[i]
        BY <3>2
      <4>1. g(l)[i] = f(l)[i] - (IF e.ref = i /\ e.kind = "refund" THEN Moved(e, l) ELSE 0)
        BY <2>1, <2>2, <2>3
      <4>2. f(l)[i] \in Int
        BY <2>1
      <4> QED BY <2>0, <2>5, <4>1, <4>2
    <3>4. Takes(e, l) = c
      BY <3>1 DEF Takes
    <3> HIDE DEF x, c
    <3>5. SumTo(g(l), n) = SumTo(f(l), n) + c
      BY <1>1, <3>2, <3>3, SumToChanged
    <3>6. g(l)[n+1] = 0
      BY <2>2, <2>3, <2>5
    <3> QED BY <2>4, <3>2, <3>4, <3>5, <3>6
  <2>6. CASE e.kind # "refund"
    <3>1. \A i \in 1..n : g(l)[i] = f(l)[i]
      BY <2>1, <2>2, <2>3, <2>6
    <3>2. SumTo(g(l), n) = SumTo(f(l), n)
      BY <1>1, <3>1, SumToEqual
    <3> QED BY <2>2, <2>3, <2>4, <2>6, <3>2
  <2> QED BY <2>5, <2>6
<1>6. SumTo(f(m+1), n) = 0
  <2>1. m + 1 \in Nat /\ m + 1 > m
    BY <1>2
  <2>2. \A i \in 1..n : Moved(b.entries[i], m + 1) = 0 /\ Restored(b, i, m + 1) = 0
    BY <2>1, NotYetMoved
  <2>3. \A i \in 1..n : f(m+1)[i] = 0
    BY <2>2 DEF Outstanding
  <2> HIDE DEF f
  <2> QED BY <1>1, <2>3, SumToNone
<1> HIDE DEF f, g
<1>7. ASSUME NEW l \in 1..k PROVE lots[l].consumed = SumTo(g(l), n + 1)
  <2>1. CASE l \in 1..m
    <3>1. lots[l].consumed = b.lots[l].consumed + Takes(e, l)
      BY <2>1 DEF MovesLots
    <3>2. l \in 1..(m+1)
      BY <1>2, <2>1
    <3> QED BY <1>3, <1>5, <2>1, <3>1, <3>2
  <2>2. CASE k = m + 1 /\ l = m + 1
    <3>1. lots[l].consumed = 0
      BY <2>2 DEF MovesLots
    <3>2. Takes(e, m + 1) = 0
      BY MovedParts
    <3>3. m + 1 \in 1..(m+1)
      BY <1>2
    <3> QED BY <1>5, <1>6, <2>2, <3>1, <3>2, <3>3
  <2> QED BY <1>2, <2>1, <2>2
<1> QED BY <1>4, <1>7 DEF p

\* Every entry stays split without remainder.
LEMMA PostedSplit ==
  ASSUME NEW b \in AccountSet, NEW e \in EntrySet, NEW lots, Referential(b),
         MovesLots(b, e, lots), SplitsUp(b, e, lots), EntryFullySplit(b)
  PROVE  EntryFullySplit(Posted(b, e, lots))
<1> DEFINE p == Posted(b, e, lots)
           n == Len(b.entries)
<1>1. /\ n \in Nat /\ Len(p.entries) = n + 1 /\ p.entries[n+1] = e
      /\ \A j \in 1..n : p.entries[j] = b.entries[j]
      /\ \A i \in 1..(n+1) : i \in 1..n \/ i = n + 1
  BY PostedParts
<1>2. /\ \A i \in 1..n : LotFrom(p, i) = LotFrom(b, i)
      /\ LotFrom(p, n + 1) = OwnLot(b, lots)
  BY LotFromPosted
<1> HIDE DEF p
<1>3. ASSUME NEW i \in 1..(n+1)
      PROVE  /\ p.entries[i].debt >= 0
             /\ (IF p.entries[i].amount < 0 THEN -p.entries[i].amount ELSE p.entries[i].amount)
                  = SumTo(p.entries[i].moves, Len(p.entries[i].moves)) + p.entries[i].debt
                      + LotFrom(p, i)
  <2>1. CASE i \in 1..n
    BY <1>1, <1>2, <2>1 DEF EntryFullySplit
  <2>2. CASE i = n + 1
    BY <1>1, <1>2, <2>2 DEF SplitsUp, MovesLots
  <2> QED BY <1>1, <2>1, <2>2
<1>4. EntryFullySplit(p)
  BY <1>1, <1>3 DEF EntryFullySplit
<1> QED BY <1>4 DEF p

\* Corrections stay within what they correct.
LEMMA PostedCorrections ==
  ASSUME NEW b \in AccountSet, NEW e \in EntrySet, NEW lots, Referential(b),
         MovesLots(b, e, lots), Corrects(b, e), CorrectionsBounded(b)
  PROVE  CorrectionsBounded(Posted(b, e, lots))
<1> DEFINE p == Posted(b, e, lots)
           n == Len(b.entries)
           m == NumLots(b)
           k == Len(lots)
           R(i) == ReferencedBy(b, i, "refund")
           C(i) == ReferencedBy(b, i, "refund_clawback")
<1>1. /\ n \in Nat /\ Len(p.entries) = n + 1 /\ p.entries[n+1] = e
      /\ \A j \in 1..n : p.entries[j] = b.entries[j]
      /\ \A i \in 1..(n+1) : i \in 1..n \/ i = n + 1
      /\ NumLots(p) = k
  BY PostedParts
<1>2. m \in Nat /\ \A l \in 1..k : l \in 1..m \/ (k = m + 1 /\ l = m + 1)
  BY AccountParts DEF MovesLots
<1>3. \A i, kind : ReferencedBy(p, i, kind) =
        ReferencedBy(b, i, kind) + (IF e.ref = i /\ e.kind = kind THEN e.amount ELSE 0)
  BY ReferencedPosted
<1>4. \A i, l : Restored(p, i, l) =
        Restored(b, i, l) + (IF e.ref = i /\ e.kind = "refund" THEN Moved(e, l) ELSE 0)
  BY RestoredPosted
<1>5. e.ref \in Nat /\ e.ref <= n /\ e.amount \in Int
  BY EntryParts DEF Corrects, EntrySet
<1>6. \A i, kind : ReferencedBy(b, i, kind) \in Int
  BY ReferencedInt
<1>7. \A l \in 1..m : Moved(e, l) = e.moves[l] /\ Moved(e, l) \in Nat
  BY MovedParts
<1>8. Moved(e, m + 1) = 0
  BY MovedParts
<1> HIDE DEF p
<1>9. ASSUME NEW i \in 1..n
      PROVE  /\ p.entries[i].amount < 0 =>
                  /\ ReferencedBy(p, i, "refund") <= -p.entries[i].amount
                  /\ \A l \in 1..k : Restored(p, i, l) <= Moved(p.entries[i], l)
             /\ p.entries[i].amount > 0 =>
                  -ReferencedBy(p, i, "refund_clawback") <= p.entries[i].amount
  <2>1. p.entries[i] = b.entries[i] /\ b.entries[i].amount \in Int
    BY <1>1, AccountParts, EntryParts
  <2>2. ASSUME b.entries[i].amount < 0
        PROVE  ReferencedBy(p, i, "refund") <= -b.entries[i].amount
    <3>1. CASE e.ref = i /\ e.kind = "refund"
      BY <1>3, <3>1 DEF Corrects
    <3>2. CASE ~(e.ref = i /\ e.kind = "refund")
      <4>1. ReferencedBy(p, i, "refund") = ReferencedBy(b, i, "refund")
        BY <1>3, <1>6, <3>2
      <4> QED BY <2>2, <4>1 DEF CorrectionsBounded
    <3> QED BY <3>1, <3>2
  <2>3. ASSUME b.entries[i].amount < 0, NEW l \in 1..k
        PROVE  Restored(p, i, l) <= Moved(b.entries[i], l)
    <3>1. CASE l \in 1..m
      <4>1. l \in Nat \ {0}
        BY <1>2, <3>1
      <4>2. Restored(b, i, l) \in Int
        BY <4>1, OutstandingInt
      <4>3. Restored(b, i, l) <= Moved(b.entries[i], l)
        BY <2>3, <3>1 DEF CorrectionsBounded
      <4>4. CASE e.ref = i /\ e.kind = "refund"
        <5>1. Restored(b, i, l) + e.moves[l] <= Moved(b.entries[i], l)
          BY <3>1, <4>4 DEF Corrects
        <5> QED BY <1>4, <1>7, <3>1, <4>4, <5>1
      <4>5. CASE ~(e.ref = i /\ e.kind = "refund")
        <5>1. Restored(p, i, l) = Restored(b, i, l)
          BY <1>4, <4>2, <4>5
        <5> QED BY <4>3, <5>1
      <4> QED BY <4>4, <4>5
    <3>2. CASE k = m + 1 /\ l = m + 1
      <4>1. m + 1 \in Nat /\ m + 1 > m
        BY <1>2
      <4>2. Moved(b.entries[i], m + 1) = 0 /\ Restored(b, i, m + 1) = 0
        BY <4>1, NotYetMoved
      <4>3. Restored(p, i, m + 1) = 0
        BY <1>4, <1>8, <4>2
      <4> QED BY <3>2, <4>2, <4>3
    <3> QED BY <1>2, <3>1, <3>2
  <2>4. ASSUME b.entries[i].amount > 0
        PROVE  -ReferencedBy(p, i, "refund_clawback") <= b.entries[i].amount
    <3>1. CASE e.ref = i /\ e.kind = "refund_clawback"
      <4>1. -C(i) - e.amount <= b.entries[i].amount
        BY <3>1 DEF Corrects
      <4>2. ReferencedBy(p, i, "refund_clawback") = C(i) + e.amount
        BY <1>3, <3>1
      <4>3. C(i) \in Int
        BY <1>6
      <4> HIDE DEF C
      <4> QED BY <1>5, <2>1, <4>1, <4>2, <4>3
    <3>2. CASE ~(e.ref = i /\ e.kind = "refund_clawback")
      <4>1. ReferencedBy(p, i, "refund_clawback") = ReferencedBy(b, i, "refund_clawback")
        BY <1>3, <1>6, <3>2
      <4> QED BY <2>4, <4>1 DEF CorrectionsBounded
    <3> QED BY <3>1, <3>2
  <2> QED BY <2>1, <2>2, <2>3, <2>4
<1>10. /\ e.amount < 0 =>
            /\ ReferencedBy(p, n + 1, "refund") <= -e.amount
            /\ \A l \in 1..k : Restored(p, n + 1, l) <= Moved(e, l)
       /\ e.amount > 0 => -ReferencedBy(p, n + 1, "refund_clawback") <= e.amount
  <2>1. /\ \A kind : ReferencedBy(b, n + 1, kind) = 0
        /\ \A l : Restored(b, n + 1, l) = 0
    BY NotYetReferenced
  <2>2. e.ref # n + 1
    BY <1>1, <1>5
  <2>3. /\ ReferencedBy(p, n + 1, "refund") = 0
        /\ ReferencedBy(p, n + 1, "refund_clawback") = 0
        /\ \A l : Restored(p, n + 1, l) = 0
    BY <1>3, <1>4, <2>1, <2>2
  <2>4. \A l \in 1..k : Moved(e, l) \in Nat
    BY <1>2, <1>7, <1>8
  <2> QED BY <1>5, <2>3, <2>4
<1>11. CorrectionsBounded(p)
  BY <1>1, <1>9, <1>10 DEF CorrectionsBounded
<1> QED BY <1>11 DEF p

\* A posting that moves credits it accounts for, and corrects no more than is
\* left, keeps every credit explained.
LEMMA PostedExplained ==
  ASSUME NEW b \in AccountSet, Explained(b), NEW e \in EntrySet, NEW lots,
         MovesLots(b, e, lots), SplitsUp(b, e, lots), Corrects(b, e)
  PROVE  Explained(Posted(b, e, lots))
<1>1. /\ Referential(b) /\ ConsumedIsAllocated(b) /\ ConsumedIsOutstanding(b)
      /\ EntryFullySplit(b) /\ CorrectionsBounded(b)
  BY DEF Explained
<1>2. Referential(Posted(b, e, lots))
  BY <1>1, PostedReferential DEF Corrects
<1>3. LotsInBounds(Posted(b, e, lots))
  BY PostedInBounds
<1>4. ConsumedIsAllocated(Posted(b, e, lots)) /\ ConsumedIsOutstanding(Posted(b, e, lots))
  BY <1>1, PostedAllocated, PostedOutstanding
<1>5. EntryFullySplit(Posted(b, e, lots))
  BY <1>1, PostedSplit
<1>6. DebtNeverOverpaid(Posted(b, e, lots))
  BY DebtPosted DEF SplitsUp, DebtNeverOverpaid
<1>7. CorrectionsBounded(Posted(b, e, lots))
  BY <1>1, PostedCorrections
<1> QED BY <1>2, <1>3, <1>4, <1>5, <1>6, <1>7 DEF Explained

-----------------------------------------------------------------------------
(* The order in which lots are spent *)

\* Of two lots one precedes the other, and none precedes itself.
LEMMA PrecedesOrder ==
  ASSUME NEW b \in AccountSet
  PROVE  /\ \A j \in 1..NumLots(b) : ~Precedes(b, j, j)
         /\ \A j, l \in 1..NumLots(b) : j # l => Precedes(b, j, l) \/ Precedes(b, l, j)
         /\ \A i, j, l \in 1..NumLots(b) :
              Precedes(b, i, j) /\ Precedes(b, j, l) => Precedes(b, i, l)
<1> DEFINE n == NumLots(b)
           P(l) == Priority[b.lots[l].bucket]
           X(l) == b.lots[l].expires
<1>1. n \in Nat /\ \A l \in 1..n : P(l) \in Nat /\ X(l) \in Nat
  <2>1. n \in Nat /\ \A l \in 1..n : b.lots[l] \in LotSet
    BY AccountParts
  <2> QED BY <2>1, CatalogAssumption DEF LotSet
<1>2. \A j, l : Precedes(b, j, l) <=>
        \/ P(j) < P(l)
        \/ P(j) = P(l) /\ X(j) < X(l)
        \/ P(j) = P(l) /\ X(j) = X(l) /\ j < l
  BY DEF Precedes
<1> HIDE DEF P, X
<1>3. \A j \in 1..n : ~Precedes(b, j, j)
  BY <1>1, <1>2
<1>4. \A j, l \in 1..n : j # l => Precedes(b, j, l) \/ Precedes(b, l, j)
  BY <1>1, <1>2
<1>5. ASSUME NEW i \in 1..n, NEW j \in 1..n, NEW l \in 1..n,
             Precedes(b, i, j), Precedes(b, j, l)
      PROVE  Precedes(b, i, l)
  BY <1>1, <1>2, <1>5
<1> QED BY <1>3, <1>4, <1>5

\* No two lots have the same place in the order.
LEMMA SpendRankParts ==
  ASSUME NEW b \in AccountSet
  PROVE  /\ \A l \in 1..NumLots(b) : SpendRank(b)[l] \in 0..NumLots(b)
         /\ \A i, j \in 1..NumLots(b) : SpendRank(b)[i] = SpendRank(b)[j] => i = j
<1> DEFINE n == NumLots(b)
           S(l) == {j \in 1..n : Precedes(b, j, l)}
<1>1. n \in Nat /\ IsFiniteSet(1..n) /\ Cardinality(1..n) = n
  <2>1. n \in Nat
    BY AccountParts
  <2>2. IsFiniteSet(1..n) /\ Cardinality(1..n) = IF 1 > n THEN 0 ELSE n - 1 + 1
    BY <2>1, FS_Interval
  <2> QED BY <2>1, <2>2
<1>2. \A l \in 1..n : SpendRank(b)[l] = Cardinality(S(l))
  BY DEF SpendRank
<1>3. \A l : IsFiniteSet(S(l)) /\ Cardinality(S(l)) <= n /\ Cardinality(S(l)) \in Nat
  <2> SUFFICES ASSUME NEW l
               PROVE  IsFiniteSet(S(l)) /\ Cardinality(S(l)) <= n /\ Cardinality(S(l)) \in Nat
    OBVIOUS
  <2>1. S(l) \subseteq 1..n
    OBVIOUS
  <2> HIDE DEF S
  <2>2. IsFiniteSet(S(l)) /\ Cardinality(S(l)) <= Cardinality(1..n)
    BY <1>1, <2>1, FS_Subset
  <2>3. Cardinality(S(l)) \in Nat
    BY <2>2, FS_CardinalityType
  <2> QED BY <1>1, <2>2, <2>3
<1>4. ASSUME NEW i \in 1..n, NEW j \in 1..n, Precedes(b, i, j)
      PROVE  Cardinality(S(i)) # Cardinality(S(j))
  <2>1. S(i) \subseteq S(j) /\ i \in S(j) /\ i \notin S(i)
    BY <1>4, PrecedesOrder
  <2> HIDE DEF S
  <2>2. S(i) # S(j)
    BY <2>1
  <2> QED BY <1>3, <2>1, <2>2, FS_Subset
<1> HIDE DEF S
<1>5. \A l \in 1..n : SpendRank(b)[l] \in 0..n
  BY <1>1, <1>2, <1>3
<1>6. ASSUME NEW i \in 1..n, NEW j \in 1..n, SpendRank(b)[i] = SpendRank(b)[j], i # j
      PROVE  FALSE
  <2>1. Precedes(b, i, j) \/ Precedes(b, j, i)
    BY <1>6, PrecedesOrder
  <2> QED BY <1>2, <1>4, <1>6, <2>1
<1> QED BY <1>5, <1>6
-----------------------------------------------------------------------------
(* The debits *)

\* A lot within bounds has lost something between nothing and all it was granted.
LEMMA LotParts ==
  ASSUME NEW b \in AccountSet, LotsInBounds(b), NEW l \in 1..NumLots(b)
  PROVE  /\ b.lots[l].granted \in Int
         /\ b.lots[l].consumed \in Int
         /\ 0 <= b.lots[l].consumed
         /\ b.lots[l].consumed <= b.lots[l].granted
<1>1. b.lots[l] \in LotSet
  BY AccountParts
<1>2. 0 <= b.lots[l].consumed /\ b.lots[l].consumed <= b.lots[l].granted
  BY DEF LotsInBounds, NumLots
<1> QED BY <1>1, <1>2 DEF LotSet

\* What is left in the lots of an explained account is not negative.
LEMMA RemNat ==
  ASSUME NEW b \in AccountSet, LotsInBounds(b)
  PROVE  /\ \A l \in 1..NumLots(b) : Rem(b, l) \in Nat
         /\ RemTotal(b) \in Nat
<1> DEFINE f == [l \in 1..NumLots(b) |-> Rem(b, l)]
<1>1. NumLots(b) \in Nat /\ \A l \in 1..NumLots(b) : b.lots[l] \in LotSet
  BY AccountParts
<1>2. \A l \in 1..NumLots(b) : Rem(b, l) \in Nat
  BY <1>1 DEF LotSet, LotsInBounds, Rem, NumLots
<1>3. \A l \in 1..NumLots(b) : f[l] \in Nat
  BY <1>2
<1>4. RemTotal(b) = SumTo(f, NumLots(b))
  BY DEF RemTotal
<1> HIDE DEF f
<1> QED BY <1>1, <1>2, <1>3, <1>4, SumToNat

\* A debit that takes no more than the lots have, and owes the rest, keeps every
\* credit explained.
LEMMA DebitExplained ==
  ASSUME NEW b, Sound(b), Explained(b), NEW e \in EntrySet, NEW take,
         e.moves = take, e.amount < 0, Len(take) = NumLots(b),
         \A l \in 1..NumLots(b) : take[l] \in Nat /\ take[l] <= Rem(b, l),
         e.debt = -e.amount - SumTo(take, NumLots(b)),
         SumTo(take, NumLots(b)) <= -e.amount,
         Corrects(b, e)
  PROVE  Explained(Posted(b, e, Consumed(b, take)))
<1> DEFINE n == NumLots(b)
           c == Consumed(b, take)
<1>1. b \in AccountSet /\ LotsInBounds(b) /\ DebtNeverOverpaid(b)
  BY DEF Sound, Explained
<1>2. n \in Nat /\ \A l \in 1..n : b.lots[l] \in LotSet
  BY <1>1, AccountParts
<1>3. e.amount \in Int /\ e.debt \in Int
  BY EntryParts
<1>4. \A l \in 1..n : take[l] \in Int
  OBVIOUS
<1>5. c \in Seq(LotSet) /\ Len(c) = n
  BY <1>1, <1>4, ConsumedLots
<1>6. ASSUME NEW l \in 1..n
      PROVE  /\ c[l].source = b.lots[l].source
             /\ c[l].granted = b.lots[l].granted
             /\ c[l].consumed = b.lots[l].consumed + take[l]
  <2>1. c[l] = [b.lots[l] EXCEPT !.consumed = b.lots[l].consumed + take[l]]
    BY DEF Consumed
  <2> HIDE DEF c
  <2> QED BY <1>2, <2>1 DEF LotSet
<1> HIDE DEF c
<1>7. ASSUME NEW l \in 1..n
      PROVE  /\ e.moves[l] >= 0
             /\ c[l].consumed = b.lots[l].consumed + Takes(e, l)
             /\ 0 <= c[l].consumed
             /\ c[l].consumed <= c[l].granted
  <2>1. Takes(e, l) = take[l] /\ take[l] \in Nat /\ e.moves[l] = take[l]
    BY <1>2 DEF Takes, Moved
  <2>2. take[l] <= b.lots[l].granted - b.lots[l].consumed
    BY DEF Rem
  <2>3. /\ b.lots[l].granted \in Int /\ b.lots[l].consumed \in Int
        /\ 0 <= b.lots[l].consumed
    BY <1>1, LotParts
  <2>4. c[l].consumed = b.lots[l].consumed + take[l] /\ c[l].granted = b.lots[l].granted
    BY <1>6
  <2>5. e.moves[l] >= 0 /\ 0 <= c[l].consumed /\ c[l].consumed <= c[l].granted
    BY <2>1, <2>2, <2>3, <2>4
  <2> QED BY <2>1, <2>4, <2>5
<1>8. MovesLots(b, e, c)
  BY <1>2, <1>5, <1>6, <1>7 DEF MovesLots
<1>9. SplitsUp(b, e, c)
  <2>1. OwnLot(b, c) = 0
    BY <1>5 DEF OwnLot
  <2>2. SumTo(take, n) \in Int /\ Debt(b) \in Int /\ Debt(b) >= 0
    BY <1>1, <1>2, <1>4, SumToInt, DebtInt DEF DebtNeverOverpaid
  <2>3. DebtOf(e) = e.debt /\ e.debt >= 0
    BY <1>3, <2>2, DebtOfSign
  <2> QED BY <1>3, <2>1, <2>2, <2>3 DEF SplitsUp
<1>10. Explained(Posted(b, e, c))
  BY <1>1, <1>8, <1>9, PostedExplained
<1> QED BY <1>10 DEF c

\* The fields of the entry a posting builds.
LEMMA EntryFields ==
  ASSUME NEW b, NEW amount, NEW key, NEW req, NEW ref, NEW moves, NEW debt
  PROVE  LET e == Entry(b, amount, key, req, ref, moves, debt)
         IN  e.kind = req.kind /\ e.ref = ref /\ e.moves = moves
BY DEF Entry

\* An entry that is neither a refund nor a clawback, and takes from the lots,
\* corrects nothing.
LEMMA PlainDebit ==
  ASSUME NEW b \in AccountSet, NEW e, e.ref = NoEntry, e.amount < 0,
         e.kind # "refund", e.kind # "refund_clawback"
  PROVE  Corrects(b, e)
<1>1. Len(b.entries) \in Nat
  BY AccountParts
<1> QED BY <1>1 DEF Corrects, NoEntry

\* targeted_lot_debit keeps every credit explained, unless it raises.
LEMMA TargetedExplained ==
  ASSUME NEW b, Sound(b), Explained(b), NEW d \in DebitSet(NumLots(b)),
         ~TargetedRaises(b, d)
  PROVE  Explained(Targeted(b, d))
<1>1. CASE KeyUsed(b, d.key)
  BY <1>1 DEF Targeted
<1>2. CASE ~KeyUsed(b, d.key)
  <2> DEFINE n == NumLots(b)
             take == [l \in 1..n |-> IF l = d.lot THEN d.amount ELSE 0]
             req == TargetedRequest(d)
             amt == -d.amount
             none == 0
             e == Entry(b, amt, d.key, req, NoEntry, take, none)
  <2>1. /\ b \in AccountSet /\ n \in Nat /\ LotsInBounds(b)
    BY AccountParts DEF Sound, Explained
  <2>2. /\ d.lot \in 1..n /\ d.amount \in Nat /\ d.amount > 0 /\ d.key \in KeySet
        /\ d.kind \in Kinds /\ amt \in Int /\ none \in Int /\ NoEntry \in Nat
    BY DEF DebitSet, DebitKeys, Kinds, NoEntry
  <2>3. req \in RequestSet /\ req.kind = d.kind
    BY <2>1, <2>2, NoExpiryNat
      DEF TargetedRequest, Request, RequestSet, OperationNames, NoBucket, NoFloor
  <2>4. take \in Seq(Int) /\ Len(take) = n
    <3>1. take \in [1..n -> Int]
      BY <2>2
    <3> QED BY <2>1, <3>1, FunIsSeq
  <2>5. /\ take[d.lot] = d.amount
        /\ \A l \in 1..n : l # d.lot => take[l] = 0
    BY <2>2
  <2>6. Targeted(b, d) = Posted(b, e, Consumed(b, take))
    BY <1>2 DEF Targeted
  <2> HIDE DEF take, req
  <2>7. SumTo(take, n) = d.amount
    BY <2>1, <2>2, <2>5, SumToSingle
  <2>8. d.amount <= Rem(b, d.lot) /\ \A l \in 1..n : Rem(b, l) \in Nat
    <3>1. ~(Rem(b, d.lot) < d.amount)
      BY <1>2 DEF TargetedRaises
    <3>2. \A l \in 1..n : Rem(b, l) \in Nat
      BY <2>1, RemNat
    <3>3. Rem(b, d.lot) \in Nat
      BY <2>2, <3>2
    <3> QED BY <2>2, <3>1, <3>2, <3>3
  <2>9. \A l \in 1..n : take[l] \in Nat /\ take[l] <= Rem(b, l)
    BY <2>2, <2>5, <2>8
  <2>10. e.kind = d.kind /\ e.ref = NoEntry /\ e.moves = take
    BY <2>3, EntryFields
  <2>11. e \in EntrySet /\ e.amount = amt /\ e.debt = none
    <3>1. e = Entry(b, amt, d.key, req, NoEntry, take, none)
      OBVIOUS
    <3> HIDE DEF e, amt, none
    <3>2. b \in AccountSet /\ d.key \in KeySet /\ take \in Seq(Int) /\ amt \in Int
          /\ none \in Int /\ NoEntry \in Nat
      BY <2>1, <2>2, <2>4
    <3> QED BY <2>3, <3>1, <3>2, EntryTyped
  <2> HIDE DEF e
  <2>12. e.amount < 0 /\ e.debt = -e.amount - SumTo(take, n) /\ SumTo(take, n) <= -e.amount
    BY <2>2, <2>7, <2>11
  <2>13. e.kind # "refund" /\ e.kind # "refund_clawback"
    BY <2>10 DEF DebitSet
  <2>14. Corrects(b, e)
    BY <2>1, <2>10, <2>12, <2>13, PlainDebit
  <2>15. Explained(Posted(b, e, Consumed(b, take)))
    BY <2>4, <2>9, <2>10, <2>11, <2>12, <2>14, DebitExplained
  <2> QED BY <2>6, <2>15
<1> QED BY <1>1, <1>2

\* post_credit's debit takes from the lots in spend order and owes the rest.
LEMMA DebitedExplained ==
  ASSUME NEW b, Sound(b), Explained(b), NEW r, r \in RequestSet, r.amount > 0,
         r.kind # "refund", r.kind # "refund_clawback",
         NEW key, key \in KeySet, NEW t
  PROVE  Explained(Debited(b, r, key, t))
<1> DEFINE n == NumLots(b)
           avail == Spendable(b, t, DebitBucket(r))
           rank == SpendRank(b)
           take == Fill(avail, rank, r.amount, n)
           debt == r.amount - SumTo(take, n)
           amt == -r.amount
           e == Entry(b, amt, key, r, NoEntry, take, debt)
<1>1. b \in AccountSet /\ n \in Nat /\ LotsInBounds(b)
  BY AccountParts DEF Sound, Explained
<1>2. r.amount \in Nat /\ r.amount \in Int /\ amt \in Int /\ NoEntry \in Nat
  BY DEF RequestSet, NoEntry
<1>3. \A l \in 1..n : Rem(b, l) \in Nat
  BY <1>1, RemNat
<1>4. \A l \in 1..n : avail[l] \in Nat /\ avail[l] \in Int /\ avail[l] <= Rem(b, l)
  BY <1>3 DEF Spendable
<1>5. /\ \A l \in 1..n : rank[l] \in 0..n
      /\ \A i, j \in 1..n : rank[i] = rank[j] => i = j
  BY <1>1, SpendRankParts
<1>6. Debited(b, r, key, t) = Posted(b, e, Consumed(b, take))
  BY DEF Debited
<1>7. DOMAIN take = 1..n
  BY DEF Fill
<1> HIDE DEF avail, rank
<1>8. take \in Seq(Int) /\ SumTo(take, n) \in Int
  BY <1>1, <1>2, <1>4, FillInt
<1>9. \A l \in 1..n : take[l] \in Nat /\ take[l] <= avail[l]
  BY <1>1, <1>2, <1>4, FillBounds
<1>10. SumTo(take, n) <= r.amount
  BY <1>1, <1>2, <1>4, <1>5, FillAtMost
<1> HIDE DEF take
<1>11. Len(take) = n
  BY <1>1, <1>7, <1>8
<1>12. \A l \in 1..n : take[l] \in Nat /\ take[l] <= Rem(b, l)
  BY <1>3, <1>4, <1>9
<1>13. e.kind = r.kind /\ e.ref = NoEntry /\ e.moves = take
  BY EntryFields
<1>14. debt \in Int /\ debt = -amt - SumTo(take, n) /\ SumTo(take, n) <= -amt /\ amt < 0
  BY <1>2, <1>8, <1>10
<1> HIDE DEF debt, amt
<1>15. e \in EntrySet /\ e.amount = amt /\ e.debt = debt
  BY <1>1, <1>2, <1>8, <1>14, EntryTyped
<1> HIDE DEF e
<1>16. Corrects(b, e)
  BY <1>1, <1>13, <1>14, <1>15, PlainDebit
<1>17. Explained(Posted(b, e, Consumed(b, take)))
  BY <1>11, <1>12, <1>13, <1>14, <1>15, <1>16, DebitExplained
<1> QED BY <1>6, <1>17

\* A clawback takes from the source's own lot and owes the rest.
LEMMA ClawedBackExplained ==
  ASSUME NEW b, Sound(b), Explained(b), NEW e \in 1..Len(b.entries), NEW amount \in Nat,
         amount > 0, ClawbackError(b, e, amount) = "ok",
         NEW key, key \in KeySet, NEW req, req \in RequestSet, req.kind = "refund_clawback"
  PROVE  Explained(ClawedBack(b, e, amount, key, req))
<1> DEFINE n == NumLots(b)
           take == [l \in 1..n |->
                      IF b.lots[l].source = e THEN Least(amount, Rem(b, l)) ELSE 0]
           debt == amount - SumTo(take, n)
           amt == -amount
           x == Entry(b, amt, key, req, e, take, debt)
<1>1. /\ b \in AccountSet /\ n \in Nat /\ LotsInBounds(b) /\ Referential(b)
      /\ e \in Nat /\ Len(b.entries) \in Nat /\ amt \in Int
  BY AccountParts DEF Sound, Explained
<1>2. \A l \in 1..n : Rem(b, l) \in Nat
  BY <1>1, RemNat
<1>3. \A l \in 1..n : /\ take[l] \in Nat /\ take[l] <= Rem(b, l) /\ take[l] <= amount
                      /\ take[l] \in Int
                      /\ b.lots[l].source # e => take[l] = 0
  BY <1>2 DEF Least
<1>4. take \in Seq(Int) /\ Len(take) = n
  <2>1. take \in [1..n -> Int]
    BY <1>3
  <2> HIDE DEF take
  <2> QED BY <1>1, <2>1, FunIsSeq
<1>5. ClawedBack(b, e, amount, key, req) = Posted(b, x, Consumed(b, take))
  BY DEF ClawedBack
<1> HIDE DEF take
<1>6. SumTo(take, n) \in Int /\ SumTo(take, n) <= amount
  <2>1. CASE \E l \in 1..n : b.lots[l].source = e
    <3>1. PICK l \in 1..n : b.lots[l].source = e
      BY <2>1
    <3>2. \A j \in 1..n : j # l => b.lots[j].source # e
      BY <1>1, <3>1 DEF Referential
    <3>3. \A j \in 1..n : j # l => take[j] = 0
      BY <1>3, <3>2
    <3>4. SumTo(take, n) = take[l]
      BY <1>1, <1>3, <3>3, SumToSingle
    <3> QED BY <1>3, <3>4
  <2>2. CASE \A l \in 1..n : b.lots[l].source # e
    <3>1. SumTo(take, n) = 0
      BY <1>1, <1>3, <2>2, SumToNone
    <3> QED BY <3>1
  <2> QED BY <2>1, <2>2
<1>7. x.kind = req.kind /\ x.ref = e /\ x.moves = take
  BY EntryFields
<1>8. debt \in Int /\ debt = -amt - SumTo(take, n) /\ SumTo(take, n) <= -amt /\ amt < 0
      /\ -amt = amount
  BY <1>6
<1> HIDE DEF debt, amt
<1>9. x \in EntrySet /\ x.amount = amt /\ x.debt = debt
  BY <1>1, <1>4, <1>8, EntryTyped
<1> HIDE DEF x
<1>10. Corrects(b, x)
  <2> DEFINE R == ReferencedBy(b, e, "refund_clawback")
             S == b.entries[e].amount
  <2>1. R \in Int /\ S \in Int
    BY <1>1, ReferencedInt, AccountParts, EntryParts
  <2>2. ~(-R + amount > S)
    BY DEF ClawbackError
  <2>3. x.kind = "refund_clawback" /\ x.ref = e /\ x.amount = amt
    BY <1>7, <1>9
  <2> HIDE DEF R, S
  <2>4. -R - amt <= S
    BY <1>1, <1>8, <2>1, <2>2
  <2>5. e <= Len(b.entries) /\ e > 0
    BY <1>1
  <2>6. -ReferencedBy(b, x.ref, "refund_clawback") - x.amount <= b.entries[x.ref].amount
    BY <2>3, <2>4 DEF R, S
  <2> QED BY <1>8, <2>3, <2>5, <2>6 DEF Corrects
<1>11. Explained(Posted(b, x, Consumed(b, take)))
  BY <1>3, <1>4, <1>7, <1>8, <1>9, <1>10, DebitExplained
<1> QED BY <1>5, <1>11

-----------------------------------------------------------------------------
(* The credits *)

\* A credit whose restored amounts, repayment and own lot make up its amount is
\* split without remainder.
LEMMA CreditSplitsUp ==
  ASSUME NEW b, NEW e, NEW lots,
         e.amount \in Int, e.amount > 0, e.debt \in Int, e.debt >= 0,
         Debt(b) \in Int, DebtOf(e) = -e.debt, Debt(b) - e.debt >= 0,
         SumTo(e.moves, NumLots(b)) \in Int,
         OwnLot(b, lots) = e.amount - SumTo(e.moves, NumLots(b)) - e.debt
  PROVE  SplitsUp(b, e, lots)
BY DEF SplitsUp

\* A credit that restores what was consumed, repays what is owed and makes a lot
\* of the rest keeps every credit explained.
LEMMA CreditExplained ==
  ASSUME NEW b, Sound(b), Explained(b), NEW e \in EntrySet, NEW give, NEW back, NEW lot,
         NEW left, NEW lots,
         e.moves = give, e.amount > 0, Len(give) = NumLots(b),
         back \in Seq(LotSet), Len(back) = NumLots(b),
         \A l \in 1..NumLots(b) :
           /\ give[l] \in Nat /\ give[l] <= b.lots[l].consumed
           /\ back[l].source = b.lots[l].source
           /\ back[l].granted = b.lots[l].granted
           /\ back[l].consumed = b.lots[l].consumed - give[l],
         SumTo(give, NumLots(b)) <= e.amount,
         left = e.amount - SumTo(give, NumLots(b)),
         e.debt = Least(left, Greatest(-b.balance, 0)),
         left > e.debt =>
           /\ lot \in LotSet /\ lot.source = Len(b.entries) + 1
           /\ lot.consumed = 0 /\ lot.granted = left - e.debt,
         lots = IF left > e.debt THEN Append(back, lot) ELSE back,
         Corrects(b, e)
  PROVE  Explained(Posted(b, e, lots))
<1> DEFINE n == NumLots(b)
<1>1. b \in AccountSet /\ LotsInBounds(b) /\ DebtNeverOverpaid(b) /\ BalanceExplained(b)
  BY DEF Sound, Explained
<1>2. /\ n \in Nat /\ b.balance \in Int /\ Debt(b) \in Int /\ RemTotal(b) \in Nat
      /\ \A l \in 1..n : b.lots[l] \in LotSet
  BY <1>1, AccountParts, DebtInt, RemNat
<1>3. e.amount \in Int /\ e.debt \in Int
  BY EntryParts
<1>4. SumTo(give, n) \in Int /\ left \in Nat
  <2>1. \A l \in 1..n : give[l] \in Int
    OBVIOUS
  <2>2. SumTo(give, n) \in Int
    BY <1>2, <2>1, SumToInt
  <2> QED BY <1>3, <2>2
<1>5. e.debt >= 0 /\ e.debt <= left /\ Debt(b) - e.debt >= 0
  <2>1. b.balance = RemTotal(b) - Debt(b) /\ Debt(b) >= 0
    BY <1>1 DEF BalanceExplained, DebtNeverOverpaid
  <2> QED BY <1>2, <1>4, <2>1 DEF Least, Greatest
<1>6. DebtOf(e) = -e.debt
  BY <1>3, DebtOfSign
<1>7. ASSUME NEW l \in 1..n
      PROVE  /\ e.moves[l] >= 0
             /\ back[l].consumed = b.lots[l].consumed + Takes(e, l)
             /\ 0 <= back[l].consumed
             /\ back[l].consumed <= back[l].granted
  <2>1. Takes(e, l) = -give[l] /\ give[l] \in Nat /\ e.moves[l] = give[l]
    BY <1>2, <1>3 DEF Takes, Moved
  <2>2. /\ b.lots[l].granted \in Int /\ b.lots[l].consumed \in Int
        /\ b.lots[l].consumed <= b.lots[l].granted
    BY <1>1, LotParts
  <2> QED BY <2>1, <2>2
<1>8. CASE left > e.debt
  <2>1. lot \in LotSet /\ lots = Append(back, lot)
    BY <1>8
  <2>2. /\ lots \in Seq(LotSet) /\ Len(lots) = n + 1 /\ lots[n+1] = lot
        /\ \A l \in 1..n : lots[l] = back[l]
    BY <1>2, <2>1
  <2>3. MovesLots(b, e, lots)
    <3>1. /\ lots[n+1].source = Len(b.entries) + 1 /\ lots[n+1].consumed = 0
      BY <1>8, <2>2
    <3>2. ASSUME NEW l \in 1..n
          PROVE  /\ e.moves[l] >= 0
                 /\ lots[l].source = b.lots[l].source
                 /\ lots[l].granted = b.lots[l].granted
                 /\ lots[l].consumed = b.lots[l].consumed + Takes(e, l)
                 /\ 0 <= lots[l].consumed
                 /\ lots[l].consumed <= lots[l].granted
      BY <1>7, <2>2
    <3> QED BY <2>2, <3>1, <3>2 DEF MovesLots
  <2>4. OwnLot(b, lots) = left - e.debt
    BY <1>2, <1>8, <2>2 DEF OwnLot
  <2>5. OwnLot(b, lots) = e.amount - SumTo(e.moves, n) - e.debt
    BY <1>3, <1>4, <2>4
  <2>6. SplitsUp(b, e, lots)
    BY <1>2, <1>3, <1>4, <1>5, <1>6, <2>5, CreditSplitsUp
  <2> QED BY <1>1, <2>3, <2>6, PostedExplained
<1>9. CASE left = e.debt
  <2>1. lots = back
    BY <1>3, <1>4, <1>9
  <2>2. MovesLots(b, e, lots)
    BY <1>2, <1>7, <2>1 DEF MovesLots
  <2>3. OwnLot(b, lots) = 0
    BY <2>1 DEF OwnLot
  <2>4. OwnLot(b, lots) = e.amount - SumTo(e.moves, n) - e.debt
    BY <1>3, <1>4, <1>9, <2>3
  <2>5. SplitsUp(b, e, lots)
    BY <1>2, <1>3, <1>4, <1>5, <1>6, <2>4, CreditSplitsUp
  <2> QED BY <1>1, <2>2, <2>5, PostedExplained
<1> QED BY <1>3, <1>4, <1>5, <1>8, <1>9

\* A new lot is unspent.
LEMMA NewLotFields ==
  ASSUME NEW source, NEW bucket, NEW granted, NEW expires
  PROVE  LET x == NewLot(source, bucket, granted, expires)
         IN  x.source = source /\ x.consumed = 0 /\ x.granted = granted
BY DEF NewLot

\* post_credit's credit.
LEMMA CreditedExplained ==
  ASSUME NEW b, Sound(b), Explained(b), NEW r, r \in RequestSet, r.amount > 0,
         r.kind # "refund", r.kind # "refund_clawback",
         NEW key, key \in KeySet
  PROVE  Explained(Credited(b, r, key))
<1> DEFINE n == NumLots(b)
           amt == r.amount
           repay == Least(amt, Greatest(-b.balance, 0))
           bucket == IF r.bucket = NoBucket THEN DefaultBucket ELSE r.bucket
           lot == NewLot(Len(b.entries) + 1, bucket, amt - repay, r.expires)
           moves == NoMoves(b)
           lots == IF amt > repay THEN Append(b.lots, lot) ELSE b.lots
           e == Entry(b, amt, key, r, NoEntry, moves, repay)
<1>1. /\ b \in AccountSet /\ n \in Nat /\ b.balance \in Int /\ LotsInBounds(b)
      /\ b.lots \in Seq(LotSet) /\ Len(b.entries) + 1 \in Nat /\ Len(b.lots) = n
      /\ Len(b.entries) \in Nat
      /\ \A l \in 1..n : b.lots[l] \in LotSet
  BY AccountParts DEF Sound, Explained, NumLots
<1>2. amt \in Int /\ amt > 0 /\ NoEntry \in Nat /\ r.expires \in Nat
  BY DEF RequestSet, NoEntry
<1>3. repay \in Int /\ (amt > repay \/ amt = repay)
  BY <1>1, <1>2 DEF Least, Greatest
<1>4. bucket \in Buckets
  BY CatalogAssumption DEF RequestSet
<1>5. moves \in Seq(Int) /\ Len(moves) = n /\ \A l \in 1..n : moves[l] = 0
  <2>1. moves \in [1..n -> Int] /\ \A l \in 1..n : moves[l] = 0
    BY DEF NoMoves
  <2> HIDE DEF moves
  <2> QED BY <1>1, <2>1, FunIsSeq
<1>6. Credited(b, r, key) = Posted(b, e, lots)
  BY DEF Credited
<1>7. repay = Least(amt, Greatest(-b.balance, 0))
  OBVIOUS
<1> HIDE DEF repay, bucket, moves
<1>8. amt > repay => /\ lot \in LotSet /\ lot.source = Len(b.entries) + 1
                     /\ lot.consumed = 0 /\ lot.granted = amt - repay
  <2>1. amt > repay => amt - repay \in Nat
    BY <1>2, <1>3
  <2> QED BY <1>1, <1>2, <1>4, <2>1, NewLotTyped, NewLotFields
<1> HIDE DEF lot
<1>9. lots = IF amt > repay THEN Append(b.lots, lot) ELSE b.lots
  OBVIOUS
<1> HIDE DEF amt, lots
<1>10. e.kind = r.kind /\ e.ref = NoEntry /\ e.moves = moves
  BY EntryFields
<1>11. e \in EntrySet /\ e.amount = amt /\ e.debt = repay
  <2>1. e = Entry(b, amt, key, r, NoEntry, moves, repay)
    OBVIOUS
  <2>2. b \in AccountSet /\ amt \in Int /\ NoEntry \in Nat /\ moves \in Seq(Int) /\ repay \in Int
    BY <1>1, <1>2, <1>3, <1>5
  <2> HIDE DEF e
  <2> QED BY <2>1, <2>2, EntryTyped
<1> HIDE DEF e
<1>12. SumTo(moves, n) = 0
  BY <1>1, <1>5, SumToNone
<1>13. Corrects(b, e)
  BY <1>1, <1>5, <1>10 DEF Corrects, NoEntry
<1>14. \A l \in 1..n : /\ moves[l] \in Nat /\ moves[l] <= b.lots[l].consumed
                       /\ b.lots[l].consumed = b.lots[l].consumed - moves[l]
  <2> SUFFICES ASSUME NEW l \in 1..n
               PROVE  /\ moves[l] \in Nat /\ moves[l] <= b.lots[l].consumed
                      /\ b.lots[l].consumed = b.lots[l].consumed - moves[l]
    OBVIOUS
  <2>1. b.lots[l].consumed \in Int /\ 0 <= b.lots[l].consumed /\ moves[l] = 0
    BY <1>1, <1>5, LotParts
  <2> QED BY <2>1
<1>15. SumTo(moves, n) <= e.amount /\ amt = e.amount - SumTo(moves, n) /\ e.amount > 0
  BY <1>2, <1>11, <1>12
<1>16. /\ e.debt = Least(amt, Greatest(-b.balance, 0))
       /\ amt > e.debt => /\ lot \in LotSet /\ lot.source = Len(b.entries) + 1
                          /\ lot.consumed = 0 /\ lot.granted = amt - e.debt
       /\ lots = IF amt > e.debt THEN Append(b.lots, lot) ELSE b.lots
  BY <1>7, <1>8, <1>9, <1>11
<1>17. Explained(Posted(b, e, lots))
  BY <1>1, <1>5, <1>10, <1>11, <1>13, <1>14, <1>15, <1>16, CreditExplained
<1> QED BY <1>6, <1>17

\* What is outstanding of a debit is at most what its lots have lost.
LEMMA OutstandingBounds ==
  ASSUME NEW b \in AccountSet, Explained(b), NEW e \in 1..Len(b.entries),
         b.entries[e].amount < 0, NEW l \in 1..NumLots(b)
  PROVE  OpenAllocation(b, e)[l] \in Nat /\ OpenAllocation(b, e)[l] <= b.lots[l].consumed
<1> DEFINE n == Len(b.entries)
           f == [i \in 1..n |-> Outstanding(b, i, l)]
<1>1. n \in Nat /\ l \in Nat \ {0}
  BY AccountParts
<1>2. ASSUME NEW i \in 1..n PROVE f[i] \in Nat
  <2>1. Moved(b.entries[i], l) \in Int /\ Restored(b, i, l) \in Int
    BY <1>1, OutstandingInt
  <2>2. b.entries[i].amount < 0 => Restored(b, i, l) <= Moved(b.entries[i], l)
    BY DEF Explained, CorrectionsBounded
  <2>3. f[i] = Outstanding(b, i, l)
    OBVIOUS
  <2> HIDE DEF f
  <2> QED BY <2>1, <2>2, <2>3 DEF Outstanding
<1>3. OpenAllocation(b, e)[l] = f[e]
  BY DEF OpenAllocation, Outstanding
<1>4. b.lots[l].consumed = SumTo(f, n)
  BY DEF Explained, ConsumedIsOutstanding
<1> HIDE DEF f
<1> QED BY <1>1, <1>2, <1>3, <1>4, SumToMember

\* refund_credit restores, repays and makes a lot of the rest.
LEMMA RefundedExplained ==
  ASSUME NEW b, Sound(b), Explained(b), NEW e \in 1..Len(b.entries), NEW amount \in Int,
         b.entries[e].amount < 0, RefundError(b, e, amount) = "ok",
         NEW key, key \in KeySet, NEW req, req \in RequestSet, req.kind = "refund",
         NEW rank \in RestoreRanks(b)
  PROVE  /\ Explained(Refunded(b, e, amount, key, req, rank))
         /\ \A l \in 1..NumLots(b) : Give(b, e, amount, rank)[l] \in Nat
<1> DEFINE n == NumLots(b)
           open == OpenAllocation(b, e)
           give == Give(b, e, amount, rank)
           back == GaveBack(b, give)
           left == amount - SumTo(give, n)
           repay == Least(left, Greatest(-b.balance, 0))
           lot == NewLot(Len(b.entries) + 1, DefaultBucket, left - repay, NoExpiry)
           lots == IF left > repay THEN Append(back, lot) ELSE back
           x == Entry(b, amount, key, req, e, give, repay)
<1>1. /\ b \in AccountSet /\ n \in Nat /\ b.balance \in Int
      /\ Len(b.entries) \in Nat /\ Len(b.entries) + 1 \in Nat /\ e \in Nat
      /\ DefaultBucket \in Buckets
      /\ \A l \in 1..n : b.lots[l] \in LotSet
  BY AccountParts, CatalogAssumption DEF Sound
<1>2. amount \in Nat /\ amount > 0
      /\ ReferencedBy(b, e, "refund") + amount <= -b.entries[e].amount
  <2>1. ReferencedBy(b, e, "refund") \in Int /\ b.entries[e].amount \in Int
    BY <1>1, ReferencedInt, AccountParts, EntryParts
  <2>2. ~(amount <= 0)
    BY DEF RefundError
  <2>3. ~(ReferencedBy(b, e, "refund") + amount > -b.entries[e].amount)
    BY <2>2 DEF RefundError
  <2> QED BY <2>1, <2>2, <2>3
<1>3. \A l \in 1..n : open[l] \in Nat /\ open[l] \in Int /\ open[l] <= b.lots[l].consumed
  BY <1>1, OutstandingBounds
<1>4. /\ \A l \in 1..n : rank[l] \in 0..n
      /\ \A i, j \in 1..n : rank[i] = rank[j] => i = j
  BY <1>1 DEF RestoreRanks
<1>5. give \in Seq(Int) /\ SumTo(give, n) \in Int
  BY <1>1, GiveInt
<1>6. give = Fill(open, rank, amount, n) /\ DOMAIN give = 1..n
  BY DEF Give, Fill
<1>7. \A l \in 1..n : open[l] = Moved(b.entries[e], l) - Restored(b, e, l)
  BY DEF OpenAllocation
<1>8. Refunded(b, e, amount, key, req, rank) = Posted(b, x, lots)
  BY DEF Refunded
<1> HIDE DEF open
<1>9. \A l \in 1..n : give[l] \in Nat /\ give[l] <= open[l]
  <2>1. \A l \in 1..n : /\ Fill(open, rank, amount, n)[l] \in Nat
                        /\ Fill(open, rank, amount, n)[l] <= open[l]
    BY <1>1, <1>2, <1>3, FillBounds
  <2> HIDE DEF give
  <2> QED BY <1>6, <2>1
<1>10. SumTo(give, n) <= amount
  <2>1. SumTo(Fill(open, rank, amount, n), n) <= amount
    BY <1>1, <1>2, <1>3, <1>4, FillAtMost
  <2> HIDE DEF give
  <2> QED BY <1>6, <2>1
<1>11. \A l \in 1..n : back[l] = [b.lots[l] EXCEPT !.consumed = b.lots[l].consumed - give[l]]
  BY DEF GaveBack
<1> HIDE DEF give
<1>12. Len(give) = n
  BY <1>1, <1>5, <1>6
<1>13. back \in Seq(LotSet) /\ Len(back) = n
  <2>1. \A l \in 1..n : give[l] \in Int
    BY <1>9
  <2> QED BY <1>1, <2>1, GaveBackLots
<1> HIDE DEF back
<1>14. ASSUME NEW l \in 1..n
       PROVE  /\ give[l] \in Nat /\ give[l] <= b.lots[l].consumed
              /\ back[l].source = b.lots[l].source
              /\ back[l].granted = b.lots[l].granted
              /\ back[l].consumed = b.lots[l].consumed - give[l]
  <2>1. b.lots[l].consumed \in Int
    BY <1>1 DEF LotSet
  <2>2. give[l] \in Nat /\ give[l] <= b.lots[l].consumed
    BY <1>3, <1>9, <2>1
  <2> QED BY <1>1, <1>11, <2>2 DEF LotSet
<1>15. left \in Int /\ repay \in Int /\ (left > repay \/ left = repay)
  <2>1. left \in Int
    BY <1>5
  <2> HIDE DEF left
  <2> QED BY <1>1, <2>1 DEF Least, Greatest
<1>16. repay = Least(left, Greatest(-b.balance, 0)) /\ left = amount - SumTo(give, n)
  OBVIOUS
<1> HIDE DEF repay, left
<1>17. left > repay => /\ lot \in LotSet /\ lot.source = Len(b.entries) + 1
                       /\ lot.consumed = 0 /\ lot.granted = left - repay
  <2>1. left > repay => left - repay \in Nat
    BY <1>15
  <2> QED BY <1>1, <2>1, NoExpiryNat, NewLotTyped, NewLotFields
<1> HIDE DEF lot
<1>18. lots = IF left > repay THEN Append(back, lot) ELSE back
  OBVIOUS
<1> HIDE DEF lots
<1>19. x.kind = req.kind /\ x.ref = e /\ x.moves = give
  BY EntryFields
<1>20. x \in EntrySet /\ x.amount = amount /\ x.debt = repay
  <2>1. x = Entry(b, amount, key, req, e, give, repay)
    OBVIOUS
  <2>2. b \in AccountSet /\ amount \in Int /\ e \in Nat /\ give \in Seq(Int) /\ repay \in Int
    BY <1>1, <1>5, <1>15
  <2> HIDE DEF x
  <2> QED BY <2>1, <2>2, EntryTyped
<1> HIDE DEF x
<1>21. Corrects(b, x)
  <2>1. ASSUME NEW l \in 1..n
        PROVE  Restored(b, e, l) + give[l] <= Moved(b.entries[e], l)
    <3>1. l \in Nat \ {0}
      BY <1>1
    <3>2. Moved(b.entries[e], l) \in Int /\ Restored(b, e, l) \in Int
      BY <1>1, <3>1, OutstandingInt
    <3>3. give[l] \in Nat /\ give[l] <= Moved(b.entries[e], l) - Restored(b, e, l)
      BY <1>7, <1>9
    <3> QED BY <3>2, <3>3
  <2>2. x.kind = "refund" /\ x.ref = e /\ x.moves = give /\ x.amount = amount
    BY <1>19, <1>20
  <2>3. e <= Len(b.entries) /\ e > 0
    BY <1>1
  <2> QED BY <1>2, <2>1, <2>2, <2>3 DEF Corrects
<1>22. /\ x.moves = give /\ x.amount > 0 /\ SumTo(give, n) <= x.amount
       /\ left = x.amount - SumTo(give, n)
       /\ x.debt = Least(left, Greatest(-b.balance, 0))
       /\ left > x.debt => /\ lot \in LotSet /\ lot.source = Len(b.entries) + 1
                           /\ lot.consumed = 0 /\ lot.granted = left - x.debt
       /\ lots = IF left > x.debt THEN Append(back, lot) ELSE back
  BY <1>2, <1>10, <1>16, <1>17, <1>18, <1>19, <1>20
<1>23. Explained(Posted(b, x, lots))
  BY <1>12, <1>13, <1>14, <1>20, <1>21, <1>22, CreditExplained
<1> QED BY <1>8, <1>9, <1>23 DEF give
-----------------------------------------------------------------------------
(* A loop of targeted debits that does not raise *)

\* A loop keeps every credit explained.
LEMMA AfterTargetedExplained ==
  ASSUME NEW b, Sound(b), Explained(b), NEW ds, Len(ds) \in Nat,
         \A i \in 1..Len(ds) : ds[i] \in DebitSet(NumLots(b)),
         ~RunRaises(b, ds)
  PROVE  Explained(AfterTargeted(b, ds))
<1> DEFINE s == TargetedRun(b, ds)
           n == Len(ds)
           T == {k \in 0..n : ~Explained(s[k])}
<1>1. s[0] = b /\ \A i \in 1..n : s[i] = Targeted(s[i-1], ds[i])
  BY RunSteps
<1>2. \A k \in 0..n : Sound(s[k]) /\ NumLots(s[k]) = NumLots(b)
  BY RunSound DEF Kept
<1>3. \A i \in 1..n : ~TargetedRaises(s[i-1], ds[i])
  BY DEF RunRaises
<1> HIDE DEF s
<1>4. ASSUME T # {} PROVE FALSE
  <2>1. PICK m \in T : \A k \in T : m <= k
    <3>1. T \subseteq Nat
      OBVIOUS
    <3> HIDE DEF T
    <3> QED BY <1>4, <3>1, LeastNat
  <2>2. m # 0
    BY <1>1, <2>1
  <2>3. m \in 1..n /\ m - 1 \in 0..n /\ m - 1 \notin T
    BY <2>1, <2>2
  <2> DEFINE c == s[m-1]
  <2>4. /\ Explained(c) /\ Sound(c) /\ NumLots(c) = NumLots(b)
        /\ s[m] = Targeted(c, ds[m]) /\ ~TargetedRaises(c, ds[m])
    BY <1>1, <1>2, <1>3, <2>3
  <2> HIDE DEF c
  <2>5. ds[m] \in DebitSet(NumLots(c))
    BY <2>3, <2>4
  <2>6. Explained(s[m])
    BY <2>4, <2>5, TargetedExplained
  <2> QED BY <2>1, <2>6
<1>5. n \in 0..n
  OBVIOUS
<1>6. Explained(s[n])
  BY <1>4, <1>5
<1> QED BY <1>6 DEF AfterTargeted, s

\* So does expiring the due lots.
LEMMA AfterExpiryExplained ==
  ASSUME NEW b, Sound(b), Explained(b), NEW t, NEW c \in AfterExpiry(b, t)
  PROVE  Explained(c)
<1>1. PICK q \in ExpiryOrders(b, Due(b, t)) :
        c = AfterTargeted(b, ExpiryDebits(b, q)) /\ ~RunRaises(b, ExpiryDebits(b, q))
  BY DEF AfterExpiry
<1>2. b \in AccountSet /\ NumLots(b) \in Nat
  BY AccountParts DEF Sound
<1>3. Due(b, t) \subseteq 1..NumLots(b) /\ \A l \in Due(b, t) : Rem(b, l) > 0
  BY DEF Due, IsDue
<1>4. q \in Orders(Due(b, t))
  BY DEF ExpiryOrders
<1>5. Len(q) \in Nat /\ \A i \in 1..Len(q) : q[i] \in Due(b, t)
  BY <1>2, <1>3, <1>4, OrderParts
<1>6. \A i \in 1..Len(q) : q[i] \in 1..NumLots(b) /\ Rem(b, q[i]) > 0
  BY <1>3, <1>5
<1> DEFINE ds == ExpiryDebits(b, q)
<1>7. Len(ds) = Len(q) /\ \A i \in 1..Len(q) : ds[i] \in DebitSet(NumLots(b))
  BY <1>2, <1>5, <1>6, ExpiryDebitsTyped
<1>8. ~RunRaises(b, ds) /\ c = AfterTargeted(b, ds)
  BY <1>1
<1> HIDE DEF ds
<1> QED BY <1>5, <1>7, <1>8, AfterTargetedExplained
-----------------------------------------------------------------------------
(* The actions *)

\* The caller's keys are keys, and no expiry posting uses one.
LEMMA CallerKeys ==
  ASSUME NEW k \in Keys
  PROVE  /\ CallerKey(k) \in KeySet
         /\ CallerKey(k) \in DebitKeys
         /\ \A l \in Nat : CallerKey(k) # ExpiryKey(l)
<1>1. CallerKey(k) \in KeySet
  BY DEF KeySet
<1>3. \A c \in Nat : CallerKey(k) # UsageLedgerKey(c)
  BY DEF CallerKey, UsageLedgerKey
<1>2. \A l \in Nat : CallerKey(k) # ExpiryKey(l)
  BY DEF CallerKey, ExpiryKey
<1> QED BY <1>1, <1>2, <1>3 DEF DebitKeys

\* The requests of the environment are well typed and ask for something.
LEMMA RequestsTyped ==
  ASSUME NEW r \in Grants \cup Usages \cup Adjustments
  PROVE  /\ r \in RequestSet /\ r.amount > 0
         /\ r.kind # "refund" /\ r.kind # "refund_clawback"
<1>1. /\ \A a \in Amounts : a \in Nat /\ a > 0
      /\ \A u \in BucketArgs : u \in Buckets \cup {NoBucket}
      /\ DefaultBucket \in Buckets \cup {NoBucket}
      /\ \A x \in Expiries \cup {NoExpiry} : x \in Nat
      /\ NoExpiry \in Nat /\ NoEntry \in Nat /\ 0 \in Int /\ NoFloor \in Int
  BY CatalogAssumption, BoundsAssumption, NoExpiryNat DEF NoBucket, NoEntry, NoFloor
<1>2. /\ {"grant", "usage", "adjustment"} \subseteq Kinds
      /\ Operations \subseteq OperationNames
      /\ Kinds \subseteq OperationNames
  BY DEF Kinds, OperationNames
<1>3. CASE r \in Grants
  <2>1. PICK a \in Amounts, op \in Operations, u \in BucketArgs, x \in Expiries \cup {NoExpiry} :
          r = Request("grant", a, op, NoEntry, u, x, 0)
    BY <1>3 DEF Grants
  <2>2. r \in RequestSet
    BY <1>1, <1>2, <2>1 DEF Request, RequestSet
  <2>3. r.amount = a /\ r.kind \in {"grant", "usage", "adjustment"}
    BY <2>1 DEF Request
  <2> QED BY <1>1, <2>2, <2>3
<1>4. CASE r \in Usages
  <2>1. PICK a \in Amounts :
          r = Request("usage", a, "usage", NoEntry, DefaultBucket, NoExpiry, NoFloor)
    BY <1>4 DEF Usages
  <2>2. r \in RequestSet
    BY <1>1, <1>2, <2>1 DEF Request, RequestSet
  <2>3. r.amount = a /\ r.kind \in {"grant", "usage", "adjustment"}
    BY <2>1 DEF Request
  <2> QED BY <1>1, <2>2, <2>3
<1>5. CASE r \in Adjustments
  <2>1. PICK a \in Amounts, u \in BucketArgs :
          r = Request("adjustment", a, "adjustment", NoEntry, u, NoExpiry, 0)
    BY <1>5 DEF Adjustments
  <2>2. r \in RequestSet
    BY <1>1, <1>2, <2>1 DEF Request, RequestSet
  <2>3. r.amount = a /\ r.kind \in {"grant", "usage", "adjustment"}
    BY <2>1 DEF Request
  <2> QED BY <1>1, <2>2, <2>3
<1> QED BY <1>3, <1>4, <1>5

\* post_credit, either half.
LEMMA PostSound ==
  ASSUME Sound(acct), Explained(acct), NEW t, NEW k \in Keys, NEW r \in Grants \cup Usages \cup Adjustments,
         NEW held, PostCredit(t, k, r) \/ PostDebit(t, k, r, held)
  PROVE  /\ Sound(acct') /\ Explained(acct')
         /\ r.kind # "usage" => Grew(acct, acct')
<1> DEFINE key == CallerKey(k)
<1>1. /\ r \in RequestSet /\ r.amount > 0
      /\ r.kind # "refund" /\ r.kind # "refund_clawback"
  BY RequestsTyped
<1>2. key \in KeySet /\ key \in DebitKeys /\ \A l \in Nat : key # ExpiryKey(l)
  BY CallerKeys
<1>3. ~KeyUsed(acct, key)
  BY DEF PostCredit, PostDebit
<1>4. PICK b \in AfterExpiry(acct, t) :
        acct' \in {CreditOutcome(b, t, key, r).acct, DebitOutcome(b, t, key, r, held).acct}
  BY DEF PostCredit, PostDebit
<1> HIDE DEF key
<1>5. Sound(b) /\ Explained(b) /\ ~KeyUsed(b, key) /\ Grew(acct, b)
  BY <1>2, <1>3, AfterExpirySound, AfterExpiryExplained
<1>6. acct' \in {b, Credited(b, r, key), Debited(b, r, key, t)}
  BY <1>4 DEF CreditOutcome, DebitOutcome
<1>7. Sound(Credited(b, r, key)) /\ Explained(Credited(b, r, key))
  BY <1>1, <1>2, <1>5, CreditedSound, CreditedExplained
<1>8. Sound(Debited(b, r, key, t)) /\ Explained(Debited(b, r, key, t))
  BY <1>1, <1>2, <1>5, DebitedSound, DebitedExplained
<1>9. ASSUME r.kind # "usage" PROVE Grew(b, Credited(b, r, key)) /\ Grew(b, Debited(b, r, key, t))
  BY <1>2, <1>5, <1>9, PostedGrew, EntryQuiet DEF Credited, Debited, Sound
<1>10. Sound(acct') /\ Explained(acct')
  BY <1>5, <1>6, <1>7, <1>8
<1>11. ASSUME r.kind # "usage" PROVE Grew(acct, acct')
  <2>1. Grew(b, acct')
    BY <1>5, <1>6, <1>9, <1>11, GrewNot DEF Sound
  <2> QED BY <1>5, <1>10, <2>1, GrewTwice DEF Sound
<1> QED BY <1>10, <1>11

\* refund_credit, with the expiry of what it restored to lots already late.
LEMMA RefundSound ==
  ASSUME Sound(acct), Explained(acct), NEW t, NEW k \in Keys, NEW e \in 1..Len(acct.entries),
         NEW a \in Amounts \cup {0}, Refund(t, k, e, a)
  PROVE  Sound(acct') /\ Explained(acct') /\ Grew(acct, acct')
<1> DEFINE b == acct
           key == CallerKey(k)
           req == Request("refund", a, "refund", e, NoBucket, NoExpiry, NoFloor)
           amt == RefundAmount(b, e, a)
<1>1. b \in AccountSet /\ NumLots(b) \in Nat /\ b.entries[e].amount \in Int /\ e \in Nat
  BY AccountParts, EntryParts DEF Sound
<1>2. amt \in Int
  <2>1. ReferencedBy(b, e, "refund") \in Int /\ a \in Int
    BY <1>1, ReferencedInt, BoundsAssumption
  <2> QED BY <1>1, <2>1 DEF RefundAmount
<1>3. req \in RequestSet /\ req.kind = "refund"
  <2>1. "refund" \in Kinds /\ "refund" \in OperationNames
    BY DEF Kinds, OperationNames
  <2>2. a \in Nat /\ NoBucket \in Buckets \cup {NoBucket} /\ NoFloor \in Int
    BY BoundsAssumption DEF NoFloor
  <2>3. req.kind = "refund"
    BY DEF Request
  <2> QED BY <1>1, <2>1, <2>2, <2>3, NoExpiryNat, RequestTyped
<1>4. key \in KeySet /\ key \in DebitKeys /\ ~KeyUsed(b, key)
  BY CallerKeys DEF Refund
<1>5. amt > 0 /\ RefundError(b, e, amt) = "ok" /\ b.entries[e].amount < 0
  <2>1. RefundError(b, e, amt) = "ok" /\ b.entries[e].amount < 0
    BY DEF Refund, IsRefundable
  <2> HIDE DEF amt
  <2>2. ~(amt <= 0)
    BY <2>1 DEF RefundError
  <2> QED BY <1>2, <2>1, <2>2
<1>6. PICK rank \in RestoreRanks(b) :
        \E q \in Orders({l \in 1..NumLots(b) :
                           Give(b, e, amt, rank)[l] > 0 /\ b.lots[l].expires <= t}) :
          /\ ~RunRaises(Refunded(b, e, amt, key, req, rank),
                        RefundExpiryDebits(b, Give(b, e, amt, rank), q))
          /\ acct' = AfterTargeted(Refunded(b, e, amt, key, req, rank),
                                   RefundExpiryDebits(b, Give(b, e, amt, rank), q))
  BY DEF Refund
<1> DEFINE give == Give(b, e, amt, rank)
           mid == Refunded(b, e, amt, key, req, rank)
           late == {l \in 1..NumLots(b) : give[l] > 0 /\ b.lots[l].expires <= t}
<1>7. PICK q \in Orders(late) :
        /\ ~RunRaises(mid, RefundExpiryDebits(b, give, q))
        /\ acct' = AfterTargeted(mid, RefundExpiryDebits(b, give, q))
  BY <1>6
<1> HIDE DEF amt, key, req
<1>8. Sound(mid) /\ NumLots(mid) \in {NumLots(b), NumLots(b) + 1} /\ Explained(mid)
  BY <1>2, <1>3, <1>4, <1>5, RefundedSound, RefundedExplained
<1>8a. Grew(b, mid)
  BY <1>1, <1>3, <1>4, PostedGrew, EntryQuiet DEF Refunded
<1>9. \A l \in 1..NumLots(b) : give[l] \in Int
  BY <1>1, <1>2, GiveInt
<1> HIDE DEF give, mid
<1>10. late \subseteq 1..NumLots(b) /\ \A l \in late : give[l] \in Nat \ {0}
  BY <1>9
<1> HIDE DEF late
<1>11. Len(q) \in Nat /\ \A i \in 1..Len(q) : q[i] \in late
  BY <1>1, <1>7, <1>10, OrderParts
<1>12. NumLots(mid) \in Nat /\ 1..NumLots(b) \subseteq 1..NumLots(mid)
  BY <1>1, <1>8
<1>13. \A i \in 1..Len(q) : q[i] \in 1..NumLots(mid) /\ give[q[i]] \in Nat \ {0}
  BY <1>10, <1>11, <1>12
<1> DEFINE ds == RefundExpiryDebits(b, give, q)
           m == NumLots(mid)
<1>14. Len(ds) = Len(q) /\ \A i \in 1..Len(q) : ds[i] \in DebitSet(m)
  <2> HIDE DEF m, b
  <2>1. m \in Nat /\ \A i \in 1..Len(q) : q[i] \in 1..m /\ give[q[i]] \in Nat \ {0}
    BY <1>12, <1>13 DEF m
  <2> QED BY <1>1, <1>11, <2>1, RefundExpiryDebitsTyped
<1>15. ~RunRaises(mid, ds) /\ acct' = AfterTargeted(mid, ds)
  BY <1>7
<1> HIDE DEF ds
<1>16. Kept(mid, AfterTargeted(mid, ds), ds) /\ Explained(AfterTargeted(mid, ds))
  BY <1>8, <1>11, <1>14, <1>15, AfterTargetedSound, AfterTargetedExplained
<1>17. Sound(acct') /\ Explained(acct') /\ Grew(mid, acct')
  BY <1>15, <1>16 DEF Kept
<1>18. Grew(acct, acct')
  BY <1>1, <1>8, <1>8a, <1>17, GrewTwice DEF Sound
<1> QED BY <1>17, <1>18

\* clawback_credit_source.
LEMMA ClawbackSound ==
  ASSUME Sound(acct), Explained(acct), NEW k \in Keys, NEW e \in 1..Len(acct.entries), NEW a \in Amounts,
         Clawback(k, e, a)
  PROVE  Sound(acct') /\ Explained(acct') /\ Grew(acct, acct')
<1> DEFINE req == Request("refund_clawback", a, "billing_refund_clawback", e,
                          NoBucket, NoExpiry, NoFloor)
           key == CallerKey(k)
<1>1. a \in Nat /\ a \in Int /\ a > 0
  BY BoundsAssumption
<1>2. req \in RequestSet /\ req.kind = "refund_clawback"
  <2>1. "refund_clawback" \in Kinds /\ "billing_refund_clawback" \in OperationNames
    BY DEF Kinds, OperationNames
  <2>2. e \in Nat /\ NoBucket \in Buckets \cup {NoBucket} /\ NoFloor \in Int
    BY AccountParts DEF NoFloor, Sound
  <2>3. req.kind = "refund_clawback"
    BY DEF Request
  <2> QED BY <1>1, <2>1, <2>2, <2>3, NoExpiryNat, RequestTyped
<1>3. key \in KeySet /\ key \in DebitKeys /\ ~KeyUsed(acct, key)
  BY CallerKeys DEF Clawback
<1>4. acct' = ClawedBack(acct, e, a, key, req) /\ ClawbackError(acct, e, a) = "ok"
  BY DEF Clawback
<1> HIDE DEF key, req
<1>5. Grew(acct, ClawedBack(acct, e, a, key, req))
  BY <1>2, <1>3, PostedGrew, EntryQuiet DEF ClawedBack, Sound
<1> QED BY <1>1, <1>2, <1>3, <1>4, <1>5, ClawedBackSound, ClawedBackExplained

\* revoke_lot.
LEMMA RevokeLotSound ==
  ASSUME Sound(acct), Explained(acct), NEW k \in Keys, NEW l \in 1..NumLots(acct), NEW a \in Amounts,
         RevokeLot(k, l, a)
  PROVE  Sound(acct') /\ Explained(acct')
<1> DEFINE d == [lot |-> l, kind |-> "revocation", amount |-> a, key |-> CallerKey(k)]
           n == NumLots(acct)
<1>1. acct' = Targeted(acct, d) /\ ~TargetedRaises(acct, d)
  BY DEF RevokeLot
<1>2. d \in DebitSet(n)
  <2>1. a \in Nat \ {0} /\ CallerKey(k) \in DebitKeys /\ l \in 1..n
    BY BoundsAssumption, CallerKeys
  <2>2. d = [lot |-> l, kind |-> "revocation", amount |-> a, key |-> CallerKey(k)]
    OBVIOUS
  <2> HIDE DEF d, n
  <2> QED BY <2>1, <2>2, DebitTyped
<1> HIDE DEF d
<1> QED BY <1>1, <1>2, TargetedSound, TargetedExplained

\* revoke_subject_credits_by_operation.
LEMMA RevokeByOperationSound ==
  ASSUME Sound(acct), Explained(acct), NEW op, RevokeByOperation(op)
  PROVE  Sound(acct') /\ Explained(acct')
<1> DEFINE S == LotsOfOperation(acct, op)
<1>1. PICK q \in SpendOrders(acct, S) :
        /\ ~RunRaises(acct, RevocationDebits(acct, q))
        /\ acct' = AfterTargeted(acct, RevocationDebits(acct, q))
  BY DEF RevokeByOperation
<1>2. acct \in AccountSet /\ NumLots(acct) \in Nat
  BY AccountParts DEF Sound
<1>3. S \subseteq 1..NumLots(acct) /\ \A l \in S : Rem(acct, l) > 0
  BY DEF LotsOfOperation
<1> HIDE DEF S
<1>4. q \in Orders(S)
  BY DEF SpendOrders
<1>5. Len(q) \in Nat /\ \A i \in 1..Len(q) : q[i] \in S
  BY <1>2, <1>3, <1>4, OrderParts
<1>6. \A i \in 1..Len(q) : q[i] \in 1..NumLots(acct) /\ Rem(acct, q[i]) > 0
  BY <1>3, <1>5
<1> DEFINE ds == RevocationDebits(acct, q)
<1>7. Len(ds) = Len(q) /\ \A i \in 1..Len(q) : ds[i] \in DebitSet(NumLots(acct))
  BY <1>2, <1>5, <1>6, RevocationDebitsTyped
<1>8. ~RunRaises(acct, ds) /\ acct' = AfterTargeted(acct, ds)
  BY <1>1
<1> HIDE DEF ds
<1>9. Kept(acct, AfterTargeted(acct, ds), ds) /\ Explained(AfterTargeted(acct, ds))
  BY <1>5, <1>7, <1>8, AfterTargetedSound, AfterTargetedExplained
<1> QED BY <1>8, <1>9 DEF Kept

\* sweep_expired_lots: a batch of the due lots.
LEMMA SweepSound ==
  ASSUME Sound(acct), Explained(acct), NEW t, NEW limit \in 1..2, Sweep(t, limit)
  PROVE  Sound(acct') /\ Explained(acct') /\ Grew(acct, acct')
<1> DEFINE S == Due(acct, t)
<1>1. PICK q \in ExpiryOrders(acct, S) :
        LET batch == SubSeq(q, 1, Least(limit, Len(q)))
        IN  /\ ~RunRaises(acct, ExpiryDebits(acct, batch))
            /\ acct' = AfterTargeted(acct, ExpiryDebits(acct, batch))
  BY DEF Sweep
<1>2. acct \in AccountSet /\ NumLots(acct) \in Nat
  BY AccountParts DEF Sound
<1>3. S \subseteq 1..NumLots(acct) /\ \A l \in S : Rem(acct, l) > 0
  BY DEF Due, IsDue
<1> HIDE DEF S
<1>4. q \in Orders(S)
  BY DEF ExpiryOrders
<1>5. Len(q) \in Nat /\ DOMAIN q = 1..Len(q) /\ \A i \in 1..Len(q) : q[i] \in S
  BY <1>2, <1>3, <1>4, OrderParts
<1> DEFINE m == Least(limit, Len(q))
           w == SubSeq(q, 1, m)
<1>6. m \in Nat /\ m <= Len(q)
  BY <1>5 DEF Least
<1>7. q \in Seq(S)
  <2>1. q \in [1..Cardinality(S) -> S]
    BY <1>4 DEF Orders
  <2>2. q \in [1..Len(q) -> S]
    BY <1>5, <2>1
  <2> QED BY <1>5, <2>2, FunIsSeq
<1>7a. ~RunRaises(acct, ExpiryDebits(acct, w)) /\ acct' = AfterTargeted(acct, ExpiryDebits(acct, w))
  BY <1>1
<1> HIDE DEF m
<1>8. Len(w) = m /\ \A i \in 1..m : w[i] = q[i]
  BY <1>5, <1>6, <1>7
<1> HIDE DEF w
<1>9. Len(w) \in Nat /\ \A i \in 1..Len(w) : w[i] \in S
  BY <1>5, <1>6, <1>8
<1>10. \A i \in 1..Len(w) : w[i] \in 1..NumLots(acct) /\ Rem(acct, w[i]) > 0
  BY <1>3, <1>9
<1> DEFINE ds == ExpiryDebits(acct, w)
<1>11. Len(ds) = Len(w) /\ \A i \in 1..Len(w) : ds[i] \in DebitSet(NumLots(acct))
  BY <1>2, <1>9, <1>10, ExpiryDebitsTyped
<1>12. ~RunRaises(acct, ds) /\ acct' = AfterTargeted(acct, ds)
  BY <1>7a
<1> HIDE DEF ds
<1>13. Kept(acct, AfterTargeted(acct, ds), ds) /\ Explained(AfterTargeted(acct, ds))
  BY <1>9, <1>11, <1>12, AfterTargetedSound, AfterTargetedExplained
<1> QED BY <1>12, <1>13 DEF Kept
-----------------------------------------------------------------------------
(* The specification *)

\* The inductive invariant.
IInv ==
  /\ now \in 0..MaxNow
  /\ policyMin \in Floors
  /\ Sound(acct)
  /\ Explained(acct)

\* The new account is sound: no entry, no lot, nothing owed.
LEMMA EmptySound ==
  ASSUME NEW b, b = [balance |-> 0, entries |-> <<>>, lots |-> <<>>]
  PROVE  Sound(b) /\ Explained(b)
<1>1. b.balance = 0 /\ b.entries = <<>> /\ b.lots = <<>>
  OBVIOUS
<1>2. b \in AccountSet
  BY DEF AccountSet
<1>3. Len(b.entries) = 0 /\ Len(b.lots) = 0
  BY <1>1
<1>4. ChainOK(b) /\ KeysUnique(b)
  BY <1>1, <1>3 DEF ChainOK, KeysUnique
<1>5. RemTotal(b) = 0 /\ Debt(b) = 0
  BY <1>3, SumToZero DEF RemTotal, Debt, NumLots
<1>6. Explained(b)
  BY <1>3, <1>5 DEF Explained, Referential, LotsInBounds, ConsumedIsAllocated,
    ConsumedIsOutstanding, EntryFullySplit, DebtNeverOverpaid, CorrectionsBounded, NumLots
<1> QED BY <1>1, <1>2, <1>4, <1>5, <1>6 DEF Sound, BalanceExplained

\* So is the first state.
LEMMA InitSound == Init => IInv
<1> SUFFICES ASSUME Init PROVE IInv
  OBVIOUS
<1>1. now \in 0..MaxNow /\ policyMin \in Floors
  BY BoundsAssumption, CatalogAssumption DEF Init
<1>2. Sound(acct) /\ Explained(acct)
  BY EmptySound DEF Init
<1> QED BY <1>1, <1>2 DEF IInv

\* Every step keeps the invariant.
LEMMA NextSound == IInv /\ [Next]_vars => IInv'
<1> SUFFICES ASSUME IInv, [Next]_vars PROVE IInv'
  OBVIOUS
<1>1. now \in 0..MaxNow /\ policyMin \in Floors /\ Sound(acct) /\ Explained(acct)
  BY DEF IInv
<1>2. ASSUME UNCHANGED <<now, policyMin>>, Sound(acct'), Explained(acct') PROVE IInv'
  BY <1>1, <1>2 DEF IInv
<1>3. ASSUME NEW t \in Stamps, NEW k \in Keys, NEW r \in Grants, PostCredit(t, k, r)
      PROVE  IInv'
  <2>1. UNCHANGED <<now, policyMin>>
    BY <1>3 DEF PostCredit
  <2>2. Sound(acct') /\ Explained(acct')
    BY <1>1, <1>3, PostSound
  <2> QED BY <1>2, <2>1, <2>2
<1>4. ASSUME NEW t \in Stamps, NEW k \in Keys, NEW r \in Usages \cup Adjustments,
             PostDebit(t, k, r, 0)
      PROVE  IInv'
  <2>1. UNCHANGED <<now, policyMin>>
    BY <1>4 DEF PostDebit
  <2>2. Sound(acct') /\ Explained(acct')
    BY <1>1, <1>4, PostSound
  <2> QED BY <1>2, <2>1, <2>2
<1>5. ASSUME NEW t \in Stamps, NEW k \in Keys, NEW e \in 1..Len(acct.entries),
             NEW a \in Amounts \cup {0}, Refund(t, k, e, a)
      PROVE  IInv'
  <2>1. UNCHANGED <<now, policyMin>>
    BY <1>5 DEF Refund
  <2>2. Sound(acct') /\ Explained(acct')
    BY <1>1, <1>5, RefundSound
  <2> QED BY <1>2, <2>1, <2>2
<1>6. ASSUME NEW k \in Keys, NEW e \in 1..Len(acct.entries), NEW a \in Amounts,
             Clawback(k, e, a)
      PROVE  IInv'
  <2>1. UNCHANGED <<now, policyMin>>
    BY <1>6 DEF Clawback
  <2>2. Sound(acct') /\ Explained(acct')
    BY <1>1, <1>6, ClawbackSound
  <2> QED BY <1>2, <2>1, <2>2
<1>7. ASSUME NEW k \in Keys, NEW l \in 1..NumLots(acct), NEW a \in Amounts,
             RevokeLot(k, l, a)
      PROVE  IInv'
  <2>1. UNCHANGED <<now, policyMin>>
    BY <1>7 DEF RevokeLot
  <2>2. Sound(acct') /\ Explained(acct')
    BY <1>1, <1>7, RevokeLotSound
  <2> QED BY <1>2, <2>1, <2>2
<1>8. ASSUME NEW op \in Operations, RevokeByOperation(op)
      PROVE  IInv'
  <2>1. UNCHANGED <<now, policyMin>>
    BY <1>8 DEF RevokeByOperation
  <2>2. Sound(acct') /\ Explained(acct')
    BY <1>1, <1>8, RevokeByOperationSound
  <2> QED BY <1>2, <2>1, <2>2
<1>9. ASSUME NEW t \in Stamps, NEW limit \in 1..2, Sweep(t, limit)
      PROVE  IInv'
  <2>1. UNCHANGED <<now, policyMin>>
    BY <1>9 DEF Sweep
  <2>2. Sound(acct') /\ Explained(acct')
    BY <1>1, <1>9, SweepSound
  <2> QED BY <1>2, <2>1, <2>2
<1>10. ASSUME NEW f \in Floors, AssignPlan(f)
       PROVE  IInv'
  BY <1>1, <1>10 DEF AssignPlan, IInv
<1>11. CASE Tick
  BY <1>1, <1>11, BoundsAssumption DEF Tick, IInv
<1>12. CASE UNCHANGED vars
  BY <1>1, <1>12 DEF vars, IInv
<1> QED
  BY <1>3, <1>4, <1>5, <1>6, <1>7, <1>8, <1>9, <1>10, <1>11, <1>12 DEF Next, SweepAny

\* What the invariant says of a state.
LEMMA IInvImplies ==
  IInv => TypeOK /\ LedgerChain /\ KeysPostOnce /\ BalanceIsLotsLessDebt /\ LotsExplained
BY DEF IInv, Sound, Explained, TypeOK, LedgerChain, KeysPostOnce, BalanceIsLotsLessDebt,
  LotsExplained

\* The variables keep their types: every entry, request and lot that any
\* sequence of calls writes is well formed.
THEOREM LedgerTyped == Spec => []TypeOK
BY InitSound, NextSound, IInvImplies, PTL DEF Spec

\* The balance chain of check_ledger_balance holds over every entry, also of
\* calls that post several.
THEOREM LedgerChained == Spec => []LedgerChain
BY InitSound, NextSound, IInvImplies, PTL DEF Spec

\* No idempotency key posts twice, the keys the loops derive included.
THEOREM LedgerIdempotent == Spec => []KeysPostOnce
BY InitSound, NextSound, IInvImplies, PTL DEF Spec

\* The cached balance is what the lots hold less what the account owes.
THEOREM LedgerReconciles == Spec => []BalanceIsLotsLessDebt
BY InitSound, NextSound, IInvImplies, PTL DEF Spec

\* Every credit is explained: no lot is overdrawn or restored past its grant,
\* consumed is what the debits took and no refund restored, every entry is split
\* without remainder, repayments never exceed what is owed, and refunds and
\* clawbacks never exceed what they correct.
THEOREM LedgerExplained == Spec => []LotsExplained
BY InitSound, NextSound, IInvImplies, PTL DEF Spec

-----------------------------------------------------------------------------
(***************************************************************************)
(* Expiry.  A lot is expired under a key of its own, which works once: a   *)
(* later expiry of the same lot is a replay and takes nothing.  So the     *)
(* proof has to show that a lot once expired never has anything again      *)
(* (ExpiryKeysSpent), which is true as long as no refund is judged by an   *)
(* older time than that expiry; and that the keys under which a refund     *)
(* expires what it gives back are fresh (RefundKeysPast).                  *)
(***************************************************************************)

\* The keys under which refunds expire what they restored name entries of the
\* account, so that the next refund's are fresh.
RefundKeysPast(b) ==
  \A e, l \in Nat : KeyUsed(b, RefundExpiryKey(e, l)) => e <= Len(b.entries)

\* A lot whose expiry key is used is past its expiry at t and has nothing left,
\* so the key never shadows an expiry that is due.
ExpiryKeysSpent(b, t) ==
  \A l \in Nat : KeyUsed(b, ExpiryKey(l)) =>
    l \in 1..NumLots(b) /\ b.lots[l].expires <= t /\ Rem(b, l) = 0

\* From b to c no lot gained, and the only keys used for expiry are S's.
Follows(b, c, S) ==
  /\ NumLots(b) <= NumLots(c)
  /\ \A l \in 1..NumLots(b) :
       c.lots[l].expires = b.lots[l].expires /\ Rem(c, l) <= Rem(b, l)
  /\ Len(b.entries) <= Len(c.entries)
  /\ \A e, l \in Nat : KeyUsed(c, RefundExpiryKey(e, l)) => KeyUsed(b, RefundExpiryKey(e, l))
  /\ \A l \in Nat : KeyUsed(c, ExpiryKey(l)) => KeyUsed(b, ExpiryKey(l)) \/ l \in S

\* An account follows itself.
LEMMA FollowsNot ==
  ASSUME NEW b \in AccountSet, NEW S
  PROVE  Follows(b, b, S)
<1>1. NumLots(b) \in Nat /\ Len(b.entries) \in Nat /\ \A l \in 1..NumLots(b) : Rem(b, l) \in Int
  BY AccountParts
<1> QED BY <1>1 DEF Follows

\* What follows in two steps follows.
LEMMA FollowsTwice ==
  ASSUME NEW b \in AccountSet, NEW c \in AccountSet, NEW d \in AccountSet, NEW S,
         Follows(b, c, S), Follows(c, d, S)
  PROVE  Follows(b, d, S)
<1>1. /\ NumLots(b) \in Nat /\ NumLots(c) \in Nat /\ NumLots(d) \in Nat
      /\ Len(b.entries) \in Nat /\ Len(c.entries) \in Nat /\ Len(d.entries) \in Nat
  BY AccountParts
<1>2. NumLots(b) <= NumLots(c) /\ NumLots(c) <= NumLots(d)
      /\ Len(b.entries) <= Len(c.entries) /\ Len(c.entries) <= Len(d.entries)
  BY DEF Follows
<1>3. ASSUME NEW l \in 1..NumLots(b)
      PROVE  d.lots[l].expires = b.lots[l].expires /\ Rem(d, l) <= Rem(b, l)
  <2>1. l \in 1..NumLots(c) /\ l \in 1..NumLots(d)
    BY <1>1, <1>2
  <2>2. c.lots[l].expires = b.lots[l].expires /\ Rem(c, l) <= Rem(b, l)
    BY DEF Follows
  <2>3. d.lots[l].expires = c.lots[l].expires /\ Rem(d, l) <= Rem(c, l)
    BY <2>1 DEF Follows
  <2>4. Rem(b, l) \in Int /\ Rem(c, l) \in Int /\ Rem(d, l) \in Int
    BY <2>1, AccountParts
  <2> QED BY <2>2, <2>3, <2>4
<1>4. \A e, l \in Nat : KeyUsed(d, RefundExpiryKey(e, l)) => KeyUsed(b, RefundExpiryKey(e, l))
  BY DEF Follows
<1>5. \A l \in Nat : KeyUsed(d, ExpiryKey(l)) => KeyUsed(b, ExpiryKey(l)) \/ l \in S
  BY DEF Follows
<1> QED BY <1>1, <1>2, <1>3, <1>4, <1>5 DEF Follows

\* A posting under another key, after which no lot has more.
LEMMA PostedFollows ==
  ASSUME NEW b \in AccountSet, NEW e, NEW lots, NEW S,
         Len(lots) \in Nat, NumLots(b) <= Len(lots),
         \A l \in 1..NumLots(b) :
           /\ lots[l].expires = b.lots[l].expires
           /\ lots[l].granted - lots[l].consumed <= Rem(b, l),
         \A x, l \in Nat : e.key # RefundExpiryKey(x, l),
         \A l \in Nat : e.key = ExpiryKey(l) => l \in S
  PROVE  Follows(b, Posted(b, e, lots), S)
<1> DEFINE p == Posted(b, e, lots)
<1>1. /\ Len(b.entries) \in Nat /\ Len(p.entries) = Len(b.entries) + 1
      /\ p.lots = lots /\ NumLots(p) = Len(lots)
  BY PostedParts
<1>2. \A k : k # e.key /\ ~KeyUsed(b, k) => ~KeyUsed(p, k)
  BY PostedKeys
<1> HIDE DEF p
<1>3. \A l \in 1..NumLots(b) : Rem(p, l) <= Rem(b, l)
  BY <1>1 DEF Rem
<1>4. Follows(b, p, S)
  BY <1>1, <1>2, <1>3 DEF Follows
<1> QED BY <1>4 DEF p

\* What a debit leaves in each lot.
LEMMA ConsumedEach ==
  ASSUME NEW b \in AccountSet, NEW take, NEW l \in 1..NumLots(b), take[l] \in Int
  PROVE  LET c == Consumed(b, take)[l]
         IN  c.expires = b.lots[l].expires /\ c.granted - c.consumed = Rem(b, l) - take[l]
<1> DEFINE c == Consumed(b, take)[l]
<1>1. c = [b.lots[l] EXCEPT !.consumed = b.lots[l].consumed + take[l]]
  BY DEF Consumed
<1>2. b.lots[l] \in LotSet
  BY AccountParts
<1> HIDE DEF c
<1>3. /\ c.expires = b.lots[l].expires /\ c.granted = b.lots[l].granted
      /\ c.consumed = b.lots[l].consumed + take[l]
      /\ b.lots[l].granted \in Int /\ b.lots[l].consumed \in Int
  BY <1>1, <1>2 DEF LotSet
<1>4. c.granted - c.consumed = b.lots[l].granted - b.lots[l].consumed - take[l]
  BY <1>3
<1> QED BY <1>3, <1>4 DEF c, Rem

\* What a refund leaves in each lot.
LEMMA GaveBackEach ==
  ASSUME NEW b \in AccountSet, NEW give, NEW l \in 1..NumLots(b), give[l] \in Int
  PROVE  LET c == GaveBack(b, give)[l]
         IN  c.expires = b.lots[l].expires /\ c.granted - c.consumed = Rem(b, l) + give[l]
<1> DEFINE c == GaveBack(b, give)[l]
<1>1. c = [b.lots[l] EXCEPT !.consumed = b.lots[l].consumed - give[l]]
  BY DEF GaveBack
<1>2. b.lots[l] \in LotSet
  BY AccountParts
<1> HIDE DEF c
<1>3. /\ c.expires = b.lots[l].expires /\ c.granted = b.lots[l].granted
      /\ c.consumed = b.lots[l].consumed - give[l]
      /\ b.lots[l].granted \in Int /\ b.lots[l].consumed \in Int
  BY <1>1, <1>2 DEF LotSet
<1>4. c.granted - c.consumed = b.lots[l].granted - b.lots[l].consumed + give[l]
  BY <1>3
<1> QED BY <1>3, <1>4 DEF c, Rem

\* A debit follows: it takes from lots, under a caller's key.
LEMMA DebitFollows ==
  ASSUME NEW b \in AccountSet, NEW e, NEW take, NEW S,
         \A l \in 1..NumLots(b) : take[l] \in Nat,
         \A x, l \in Nat : e.key # RefundExpiryKey(x, l),
         \A l \in Nat : e.key = ExpiryKey(l) => l \in S
  PROVE  Follows(b, Posted(b, e, Consumed(b, take)), S)
<1> DEFINE lots == Consumed(b, take)
<1>1. NumLots(b) \in Nat /\ \A l \in 1..NumLots(b) : Rem(b, l) \in Int
  BY AccountParts
<1>2. Len(lots) = NumLots(b)
  BY ConsumedLots
<1>3. ASSUME NEW l \in 1..NumLots(b)
      PROVE  /\ lots[l].expires = b.lots[l].expires
             /\ lots[l].granted - lots[l].consumed <= Rem(b, l)
  <2>1. take[l] \in Nat /\ Rem(b, l) \in Int
    BY <1>1
  <2>2. /\ lots[l].expires = b.lots[l].expires
        /\ lots[l].granted - lots[l].consumed = Rem(b, l) - take[l]
    BY <2>1, ConsumedEach
  <2> QED BY <2>1, <2>2
<1> HIDE DEF lots
<1>4. Follows(b, Posted(b, e, lots), S)
  BY <1>1, <1>2, <1>3, PostedFollows
<1> QED BY <1>4 DEF lots

\* targeted_lot_debit takes its amount from its lot, and nothing from others.
LEMMA TargetedTakes ==
  ASSUME NEW b \in AccountSet, NEW d \in DebitSet(NumLots(b)), ~KeyUsed(b, d.key)
  PROVE  /\ \A l \in 1..NumLots(b) : Targeted(b, d).lots[l].expires = b.lots[l].expires
         /\ Rem(Targeted(b, d), d.lot) = Rem(b, d.lot) - d.amount
         /\ \A l \in 1..NumLots(b) : l # d.lot => Rem(Targeted(b, d), l) = Rem(b, l)
<1> DEFINE take == [l \in 1..NumLots(b) |-> IF l = d.lot THEN d.amount ELSE 0]
           e == Entry(b, -d.amount, d.key, TargetedRequest(d), NoEntry, take, 0)
           c == Targeted(b, d)
<1>1. d.lot \in 1..NumLots(b) /\ d.amount \in Nat
  BY DEF DebitSet
<1>2. c.lots = Consumed(b, take)
  BY DEF Targeted, Posted
<1>3. \A l \in 1..NumLots(b) : take[l] \in Int /\ Rem(b, l) \in Int
  BY <1>1, AccountParts
<1>4. take[d.lot] = d.amount /\ \A l \in 1..NumLots(b) : l # d.lot => take[l] = 0
  BY <1>1
<1> HIDE DEF take, c
<1>5. \A l \in 1..NumLots(b) :
        c.lots[l].expires = b.lots[l].expires /\ Rem(c, l) = Rem(b, l) - take[l]
  BY <1>2, <1>3, ConsumedEach DEF Rem
<1>6. \A l \in 1..NumLots(b) : l # d.lot => Rem(c, l) = Rem(b, l)
  BY <1>3, <1>4, <1>5
<1>7. Rem(c, d.lot) = Rem(b, d.lot) - d.amount
  BY <1>1, <1>4, <1>5
<1> QED BY <1>5, <1>6, <1>7 DEF c

\* The keys of a loop that posts no refund's expiry, and S's expiries only.
ExpiresOnly(ds, S) ==
  \A i \in 1..Len(ds) :
    /\ \A x, l \in Nat : ds[i].key # RefundExpiryKey(x, l)
    /\ \A l \in Nat : ds[i].key = ExpiryKey(l) => l \in S

\* A targeted debit follows.
LEMMA TargetedFollows ==
  ASSUME NEW b \in AccountSet, NEW d \in DebitSet(NumLots(b)), NEW S,
         \A x, l \in Nat : d.key # RefundExpiryKey(x, l),
         \A l \in Nat : d.key = ExpiryKey(l) => l \in S
  PROVE  Follows(b, Targeted(b, d), S)
<1> DEFINE take == [l \in 1..NumLots(b) |-> IF l = d.lot THEN d.amount ELSE 0]
           e == Entry(b, -d.amount, d.key, TargetedRequest(d), NoEntry, take, 0)
<1>1. Targeted(b, d) \in {b, Posted(b, e, Consumed(b, take))}
  BY DEF Targeted
<1>2. \A l \in 1..NumLots(b) : take[l] \in Nat
  BY DEF DebitSet
<1>3. e.key = d.key
  BY DEF Entry
<1> HIDE DEF take, e
<1>4. Follows(b, Posted(b, e, Consumed(b, take)), S)
  BY <1>2, <1>3, DebitFollows
<1> QED BY <1>1, <1>4, FollowsNot

\* A loop of targeted debits follows.
LEMMA RunFollows ==
  ASSUME NEW b, Sound(b), NEW ds, Len(ds) \in Nat, NEW S,
         \A i \in 1..Len(ds) : ds[i] \in DebitSet(NumLots(b)),
         ExpiresOnly(ds, S)
  PROVE  Follows(b, AfterTargeted(b, ds), S)
<1> DEFINE s == TargetedRun(b, ds)
           n == Len(ds)
           T == {k \in 0..n : ~Follows(b, s[k], S)}
<1>1. s[0] = b /\ \A i \in 1..n : s[i] = Targeted(s[i-1], ds[i])
  BY RunSteps
<1>2. \A k \in 0..n : s[k] \in AccountSet /\ NumLots(s[k]) = NumLots(b)
  BY RunSound DEF Kept, Sound
<1> HIDE DEF s
<1>3. ASSUME T # {} PROVE FALSE
  <2>1. PICK m \in T : \A k \in T : m <= k
    <3>1. T \subseteq Nat
      OBVIOUS
    <3> HIDE DEF T
    <3> QED BY <1>3, <3>1, LeastNat
  <2>2. m # 0
    BY <1>1, <2>1, FollowsNot DEF Sound
  <2>3. m \in 1..n /\ m \in 0..n /\ m - 1 \in 0..n /\ m - 1 \notin T
    BY <2>1, <2>2
  <2> DEFINE c == s[m-1]
  <2>4. /\ Follows(b, c, S) /\ c \in AccountSet /\ NumLots(c) = NumLots(b)
        /\ s[m] = Targeted(c, ds[m]) /\ s[m] \in AccountSet
    BY <1>1, <1>2, <2>3
  <2> HIDE DEF c
  <2>5. ds[m] \in DebitSet(NumLots(c))
    BY <2>3, <2>4
  <2>6. Follows(c, s[m], S)
    BY <2>3, <2>4, <2>5, TargetedFollows DEF ExpiresOnly
  <2>7. Follows(b, s[m], S)
    BY <2>4, <2>6, FollowsTwice DEF Sound
  <2> QED BY <2>1, <2>7
<1>4. n \in 0..n
  OBVIOUS
<1>5. Follows(b, s[n], S)
  BY <1>3, <1>4
<1> QED BY <1>5 DEF AfterTargeted, s

\* What the first k debits of ds have done to b in c, if none is a replay.
Took(b, c, ds, k) ==
  /\ \A l \in 1..NumLots(b) : c.lots[l].expires = b.lots[l].expires
  /\ \A i \in 1..Len(ds) : i <= k => Rem(c, ds[i].lot) = Rem(b, ds[i].lot) - ds[i].amount
  /\ \A l \in 1..NumLots(b) :
       (\A i \in 1..Len(ds) : i <= k => ds[i].lot # l) => Rem(c, l) = Rem(b, l)
  /\ \A i \in 1..Len(ds) : i > k => ~KeyUsed(c, ds[i].key)

\* Debits of different lots under fresh keys.
Separate(b, ds) ==
  \A i \in 1..Len(ds) :
    /\ ~KeyUsed(b, ds[i].key)
    /\ \A j \in 1..Len(ds) : i # j => ds[i].lot # ds[j].lot /\ ds[i].key # ds[j].key

\* One more debit of the loop.
LEMMA TookMore ==
  ASSUME NEW b \in AccountSet, NEW c, Sound(c), NumLots(c) = NumLots(b),
         NEW ds, Len(ds) \in Nat,
         \A i \in 1..Len(ds) : ds[i] \in DebitSet(NumLots(b)), Separate(b, ds),
         NEW m \in 1..Len(ds), Took(b, c, ds, m - 1)
  PROVE  Took(b, Targeted(c, ds[m]), ds, m)
<1> DEFINE d == ds[m]
           x == Targeted(c, d)
<1>1. d \in DebitSet(NumLots(c)) /\ d.lot \in 1..NumLots(b) /\ c \in AccountSet
  BY DEF DebitSet, Sound
<1>2. ~KeyUsed(c, d.key)
  BY DEF Took
<1>3. /\ \A l \in 1..NumLots(b) : x.lots[l].expires = c.lots[l].expires
      /\ Rem(x, d.lot) = Rem(c, d.lot) - d.amount
      /\ \A l \in 1..NumLots(b) : l # d.lot => Rem(x, l) = Rem(c, l)
  BY <1>1, <1>2, TargetedTakes
<1>4. \A k : (k # d.key /\ ~KeyUsed(c, k)) => ~KeyUsed(x, k)
  BY <1>1, TargetedSound
<1>5. \A i \in 1..Len(ds) : i # m => ds[i].lot # d.lot /\ ds[i].key # d.key /\ ds[i].lot \in 1..NumLots(b)
  BY DEF Separate, DebitSet
<1>6. \A i \in 1..Len(ds) : i <= m => i = m \/ i <= m - 1
  OBVIOUS
<1>7. \A i \in 1..Len(ds) : i <= m - 1 => i # m /\ i <= m
  OBVIOUS
<1> HIDE DEF d, x
<1>8. \A l \in 1..NumLots(b) : x.lots[l].expires = b.lots[l].expires
  BY <1>3 DEF Took
<1>9. ASSUME NEW i \in 1..Len(ds), i <= m
      PROVE  Rem(x, ds[i].lot) = Rem(b, ds[i].lot) - ds[i].amount
  <2>1. CASE i = m
    <3>1. \A j \in 1..Len(ds) : j <= m - 1 => ds[j].lot # d.lot
      BY <1>5, <1>7
    <3>2. Rem(c, d.lot) = Rem(b, d.lot)
      BY <1>1, <3>1 DEF Took
    <3> QED BY <1>3, <2>1, <3>2 DEF d
  <2>2. CASE i <= m - 1
    <3>1. Rem(c, ds[i].lot) = Rem(b, ds[i].lot) - ds[i].amount
      BY <2>2 DEF Took
    <3>2. ds[i].lot # d.lot /\ ds[i].lot \in 1..NumLots(b)
      BY <1>5, <1>7, <2>2
    <3> QED BY <1>3, <3>1, <3>2
  <2> QED BY <1>6, <1>9, <2>1, <2>2
<1>10. ASSUME NEW l \in 1..NumLots(b), \A i \in 1..Len(ds) : i <= m => ds[i].lot # l
       PROVE  Rem(x, l) = Rem(b, l)
  <2>1. \A i \in 1..Len(ds) : i <= m - 1 => ds[i].lot # l
    BY <1>7, <1>10
  <2>2. Rem(c, l) = Rem(b, l)
    BY <2>1 DEF Took
  <2>3. l # d.lot
    BY <1>10 DEF d
  <2> QED BY <1>3, <2>2, <2>3
<1>11. ASSUME NEW i \in 1..Len(ds), i > m
       PROVE  ~KeyUsed(x, ds[i].key)
  <2>1. i # m /\ i > m - 1
    BY <1>11
  <2>2. ~KeyUsed(c, ds[i].key) /\ ds[i].key # d.key
    BY <1>5, <2>1 DEF Took
  <2> QED BY <1>4, <2>2
<1>12. Took(b, x, ds, m)
  BY <1>8, <1>9, <1>10, <1>11 DEF Took
<1> QED BY <1>12 DEF d, x

\* The whole loop.
LEMMA RunTook ==
  ASSUME NEW b, Sound(b), NEW ds, Len(ds) \in Nat,
         \A i \in 1..Len(ds) : ds[i] \in DebitSet(NumLots(b)), Separate(b, ds)
  PROVE  Took(b, AfterTargeted(b, ds), ds, Len(ds))
<1> DEFINE s == TargetedRun(b, ds)
           n == Len(ds)
           T == {k \in 0..n : ~Took(b, s[k], ds, k)}
<1>1. s[0] = b /\ \A i \in 1..n : s[i] = Targeted(s[i-1], ds[i])
  BY RunSteps
<1>2. \A k \in 0..n : Sound(s[k]) /\ NumLots(s[k]) = NumLots(b)
  BY RunSound DEF Kept
<1> HIDE DEF s
<1>3. ASSUME T # {} PROVE FALSE
  <2>1. PICK m \in T : \A k \in T : m <= k
    <3>1. T \subseteq Nat
      OBVIOUS
    <3> HIDE DEF T
    <3> QED BY <1>3, <3>1, LeastNat
  <2>2. m # 0
    <3>1. \A i \in 1..n : ~(i <= 0)
      OBVIOUS
    <3>2. Took(b, b, ds, 0)
      BY <3>1 DEF Took, Separate
    <3> QED BY <1>1, <2>1, <3>2
  <2>3. m \in 1..n /\ m - 1 \in 0..n /\ m - 1 \notin T
    BY <2>1, <2>2
  <2> DEFINE c == s[m-1]
  <2>4. /\ Took(b, c, ds, m - 1) /\ Sound(c) /\ NumLots(c) = NumLots(b)
        /\ s[m] = Targeted(c, ds[m])
    BY <1>1, <1>2, <2>3
  <2> HIDE DEF c
  <2>5. Took(b, s[m], ds, m)
    BY <2>3, <2>4, TookMore DEF Sound
  <2> QED BY <2>1, <2>5
<1>4. n \in 0..n
  OBVIOUS
<1>5. Took(b, s[n], ds, n)
  BY <1>3, <1>4
<1> QED BY <1>5 DEF AfterTargeted, s

\* From b to c no lot that is past its expiry at t gained, and the only lots
\* expired are S's.
LateKept(b, c, t, S) ==
  /\ NumLots(b) <= NumLots(c)
  /\ \A l \in 1..NumLots(b) :
       /\ c.lots[l].expires = b.lots[l].expires
       /\ b.lots[l].expires <= t => Rem(c, l) <= Rem(b, l)
  /\ \A l \in Nat : KeyUsed(c, ExpiryKey(l)) => KeyUsed(b, ExpiryKey(l)) \/ l \in S

\* A lot that was expired stays empty, if those expired now are.
LEMMA SpentKept ==
  ASSUME NEW b \in AccountSet, NEW c \in AccountSet, LotsInBounds(b), LotsInBounds(c),
         NEW t, NEW S, LateKept(b, c, t, S), ExpiryKeysSpent(b, t),
         \A l \in S : l \in 1..NumLots(b) /\ b.lots[l].expires <= t /\ Rem(c, l) = 0
  PROVE  ExpiryKeysSpent(c, t)
<1> SUFFICES ASSUME NEW l \in Nat, KeyUsed(c, ExpiryKey(l))
             PROVE  l \in 1..NumLots(c) /\ c.lots[l].expires <= t /\ Rem(c, l) = 0
  BY DEF ExpiryKeysSpent
<1>1. NumLots(b) \in Nat /\ NumLots(c) \in Nat /\ NumLots(b) <= NumLots(c)
  BY AccountParts DEF LateKept
<1>2. \A k \in 1..NumLots(c) : Rem(c, k) \in Nat
  BY RemNat
<1>3. CASE l \in S
  <2>1. l \in 1..NumLots(b) /\ b.lots[l].expires <= t /\ Rem(c, l) = 0
    BY <1>3
  <2> QED BY <1>1, <2>1 DEF LateKept
<1>4. CASE KeyUsed(b, ExpiryKey(l))
  <2>1. l \in 1..NumLots(b) /\ b.lots[l].expires <= t /\ Rem(b, l) = 0
    BY <1>4 DEF ExpiryKeysSpent
  <2>2. c.lots[l].expires = b.lots[l].expires /\ Rem(c, l) <= Rem(b, l)
    BY <2>1 DEF LateKept
  <2>3. l \in 1..NumLots(c) /\ Rem(c, l) \in Nat
    BY <1>1, <1>2, <2>1
  <2> QED BY <2>1, <2>2, <2>3
<1> QED BY <1>3, <1>4 DEF LateKept

\* What a step of the account at time t does about expiry.
Expires(b, c, t) ==
  /\ RefundKeysPast(c)
  /\ \A l \in 1..NumLots(b) : b.lots[l].expires <= t => Rem(c, l) <= Rem(b, l)
  /\ ExpiryKeysSpent(b, t) => ExpiryKeysSpent(c, t)

\* An account that follows by expiring lots in full.
LEMMA FollowsExpires ==
  ASSUME NEW b \in AccountSet, NEW c \in AccountSet, LotsInBounds(b), LotsInBounds(c),
         NEW t, NEW S, Follows(b, c, S), RefundKeysPast(b),
         ExpiryKeysSpent(b, t) =>
           \A l \in S : l \in 1..NumLots(b) /\ b.lots[l].expires <= t /\ Rem(c, l) = 0
  PROVE  Expires(b, c, t)
<1>1. LateKept(b, c, t, S)
  BY DEF Follows, LateKept
<1>2. ExpiryKeysSpent(b, t) => ExpiryKeysSpent(c, t)
  BY <1>1, SpentKept
<1>3. RefundKeysPast(c)
  <2>1. Len(b.entries) \in Nat /\ Len(c.entries) \in Nat /\ Len(b.entries) <= Len(c.entries)
    BY AccountParts DEF Follows
  <2> SUFFICES ASSUME NEW e \in Nat, NEW l \in Nat, KeyUsed(c, RefundExpiryKey(e, l))
               PROVE  e <= Len(c.entries)
    BY DEF RefundKeysPast
  <2>2. e <= Len(b.entries)
    BY DEF Follows, RefundKeysPast
  <2> QED BY <2>1, <2>2
<1> QED BY <1>2, <1>3 DEF Expires, Follows

\* q lists the lots of S, each once.
Lists(q, S) ==
  /\ Len(q) \in Nat
  /\ \A i \in 1..Len(q) : q[i] \in S
  /\ \A i, j \in 1..Len(q) : q[i] = q[j] => i = j
  /\ \A l \in S : \E i \in 1..Len(q) : q[i] = l

\* So does an order of them.
LEMMA OrderLists ==
  ASSUME NEW n \in Nat, NEW S, S \subseteq 1..n, NEW q \in Orders(S)
  PROVE  Lists(q, S)
<1> DEFINE m == Cardinality(S)
<1>1. IsFiniteSet(S) /\ m \in Nat
  <2>1. IsFiniteSet(1..n)
    BY FS_Interval
  <2>2. IsFiniteSet(S)
    BY <2>1, FS_Subset
  <2> QED BY <2>2, FS_CardinalityType
<1>2. q \in [1..m -> S] /\ \A i, j \in 1..m : q[i] = q[j] => i = j
  BY DEF Orders
<1>3. Len(q) = m
  BY <1>1, <1>2
<1>4. Cardinality(1..m) = m
  BY <1>1, FS_Interval
<1> HIDE DEF m
<1>5. q \in Injection(1..m, S)
  BY <1>2 DEF Injection, IsInjective
<1>6. q \in Surjection(1..m, S)
  BY <1>1, <1>4, <1>5, FS_Injection DEF m
<1> QED BY <1>1, <1>2, <1>3, <1>6 DEF Surjection, Lists, m

\* Expiring lots in full: what is left in them, unless their keys are used.
LEMMA ExpiryLoop ==
  ASSUME NEW b, Sound(b), NEW t, NEW S, S \subseteq Due(b, t), NEW q, Lists(q, S),
         NEW c, c = AfterTargeted(b, ExpiryDebits(b, q))
  PROVE  /\ Follows(b, c, S)
         /\ ExpiryKeysSpent(b, t) => \A l \in S : Rem(c, l) = 0
<1> DEFINE ds == ExpiryDebits(b, q)
<1>1. c = AfterTargeted(b, ds)
  OBVIOUS
<1>2. b \in AccountSet /\ NumLots(b) \in Nat /\ \A l \in 1..NumLots(b) : Rem(b, l) \in Int
  BY AccountParts DEF Sound
<1>3. /\ Len(q) \in Nat /\ \A i \in 1..Len(q) : q[i] \in S
      /\ \A i, j \in 1..Len(q) : q[i] = q[j] => i = j
      /\ \A l \in S : \E i \in 1..Len(q) : q[i] = l
  BY DEF Lists
<1>4. \A i \in 1..Len(q) : q[i] \in 1..NumLots(b) /\ Rem(b, q[i]) > 0 /\ q[i] \in Nat
  <2> SUFFICES ASSUME NEW i \in 1..Len(q)
               PROVE  q[i] \in 1..NumLots(b) /\ Rem(b, q[i]) > 0 /\ q[i] \in Nat
    OBVIOUS
  <2>1. q[i] \in Due(b, t)
    BY <1>3
  <2>2. q[i] \in 1..NumLots(b) /\ Rem(b, q[i]) > 0
    BY <2>1 DEF Due, IsDue
  <2> QED BY <1>2, <2>2
<1>5. /\ Len(ds) = Len(q)
      /\ \A i \in 1..Len(q) : ds[i] \in DebitSet(NumLots(b)) /\ ds[i].key = ExpiryKey(q[i])
  BY <1>2, <1>4, <1>3, ExpiryDebitsTyped
<1>6. \A i \in 1..Len(q) : ds[i].lot = q[i] /\ ds[i].amount = Rem(b, q[i])
  BY DEF ExpiryDebits
<1>7. /\ \A l, x, y \in Nat : ExpiryKey(l) # RefundExpiryKey(x, y)
      /\ \A l, k \in Nat : ExpiryKey(l) = ExpiryKey(k) => l = k
  BY DEF ExpiryKey, RefundExpiryKey
<1> HIDE DEF ds
<1>8. Follows(b, c, S)
  <2>1. ASSUME NEW i \in 1..Len(ds)
        PROVE  /\ \A x, l \in Nat : ds[i].key # RefundExpiryKey(x, l)
               /\ \A l \in Nat : ds[i].key = ExpiryKey(l) => l \in S
    <3>1. ds[i].key = ExpiryKey(q[i]) /\ q[i] \in Nat /\ q[i] \in S
      BY <1>4, <1>5, <1>3
    <3> QED BY <1>7, <3>1
  <2>2. ExpiresOnly(ds, S)
    BY <2>1 DEF ExpiresOnly
  <2> QED BY <1>1, <1>5, <1>3, <2>2, RunFollows
<1>9. ASSUME ExpiryKeysSpent(b, t), NEW l \in S PROVE Rem(c, l) = 0
  <2>1. PICK i \in 1..Len(q) : l = q[i]
    BY <1>3
  <2>2. \A j \in 1..Len(q) : ~KeyUsed(b, ExpiryKey(q[j]))
    <3> SUFFICES ASSUME NEW j \in 1..Len(q), KeyUsed(b, ExpiryKey(q[j])) PROVE FALSE
      OBVIOUS
    <3>1. q[j] \in Nat /\ Rem(b, q[j]) > 0
      BY <1>4
    <3>2. Rem(b, q[j]) = 0
      BY <1>9, <3>1 DEF ExpiryKeysSpent
    <3> QED BY <3>1, <3>2
  <2>3. Separate(b, ds)
    <3>1. \A j, k \in 1..Len(q) : j # k => q[j] # q[k] /\ ExpiryKey(q[j]) # ExpiryKey(q[k])
      BY <1>4, <1>7, <1>3
    <3> QED BY <1>5, <1>6, <2>2, <3>1 DEF Separate
  <2>4. Took(b, c, ds, Len(ds))
    BY <1>1, <1>5, <1>3, <2>3, RunTook
  <2>5. Rem(c, ds[i].lot) = Rem(b, ds[i].lot) - ds[i].amount
    BY <1>5, <2>4 DEF Took
  <2>6. Rem(c, l) = Rem(b, l) - Rem(b, l) /\ Rem(b, l) \in Int
    BY <1>2, <1>4, <1>6, <2>1, <2>5
  <2> QED BY <2>6
<1> QED BY <1>8, <1>9

\* Two steps at one time.
LEMMA ExpiresTwice ==
  ASSUME NEW b \in AccountSet, NEW c \in AccountSet, NEW d \in AccountSet, NEW t, NEW S,
         Follows(b, c, S), Expires(b, c, t), Expires(c, d, t), NumLots(c) <= NumLots(d)
  PROVE  Expires(b, d, t)
<1>1. NumLots(b) \in Nat /\ NumLots(c) \in Nat /\ NumLots(d) \in Nat /\ NumLots(b) <= NumLots(c)
  BY AccountParts DEF Follows
<1>2. ASSUME NEW l \in 1..NumLots(b), b.lots[l].expires <= t
      PROVE  Rem(d, l) <= Rem(b, l)
  <2>1. l \in 1..NumLots(c) /\ l \in 1..NumLots(d) /\ c.lots[l].expires <= t
    BY <1>1, <1>2 DEF Follows
  <2>2. Rem(c, l) <= Rem(b, l) /\ Rem(d, l) <= Rem(c, l)
    BY <1>2, <2>1 DEF Expires
  <2>3. Rem(b, l) \in Int /\ Rem(c, l) \in Int /\ Rem(d, l) \in Int
    BY <2>1, AccountParts
  <2> QED BY <2>2, <2>3
<1> QED BY <1>2 DEF Expires

\* Expiring the due lots leaves none due.
LEMMA AfterExpiryExpires ==
  ASSUME NEW b, Sound(b), Explained(b), RefundKeysPast(b), NEW t, NEW c \in AfterExpiry(b, t)
  PROVE  /\ Follows(b, c, Due(b, t))
         /\ Expires(b, c, t)
         /\ ExpiryKeysSpent(b, t) => Due(c, t) = {}
<1>1. PICK q \in ExpiryOrders(b, Due(b, t)) : c = AfterTargeted(b, ExpiryDebits(b, q))
  BY DEF AfterExpiry
<1>2. b \in AccountSet /\ NumLots(b) \in Nat /\ LotsInBounds(b)
  BY AccountParts DEF Sound, Explained
<1>3. /\ Due(b, t) \subseteq 1..NumLots(b)
      /\ \A l \in Due(b, t) : Rem(b, l) > 0 /\ b.lots[l].expires <= t
  BY DEF Due, IsDue
<1>4. q \in Orders(Due(b, t))
  BY DEF ExpiryOrders
<1>5. Lists(q, Due(b, t))
  BY <1>2, <1>3, <1>4, OrderLists
<1>6. Len(q) \in Nat /\ \A i \in 1..Len(q) : q[i] \in Due(b, t)
  BY <1>5 DEF Lists
<1>7. Due(b, t) \subseteq Due(b, t)
  OBVIOUS
<1>8. /\ Follows(b, c, Due(b, t))
      /\ ExpiryKeysSpent(b, t) => \A l \in Due(b, t) : Rem(c, l) = 0
  BY <1>1, <1>5, <1>7, ExpiryLoop
<1>9. c \in AccountSet /\ LotsInBounds(c)
  BY AfterExpirySound, AfterExpiryExplained DEF Sound, Explained
<1>10. NumLots(c) = NumLots(b)
  <2> DEFINE ds == ExpiryDebits(b, q)
  <2>1. \A i \in 1..Len(q) : q[i] \in 1..NumLots(b) /\ Rem(b, q[i]) > 0
    BY <1>3, <1>6
  <2>2. Len(ds) = Len(q) /\ \A i \in 1..Len(q) : ds[i] \in DebitSet(NumLots(b))
    BY <1>2, <1>6, <2>1, ExpiryDebitsTyped
  <2>3. c = AfterTargeted(b, ds)
    BY <1>1
  <2> HIDE DEF ds
  <2> QED BY <1>6, <2>2, <2>3, AfterTargetedSound DEF Kept
<1>11. Expires(b, c, t)
  BY <1>2, <1>3, <1>8, <1>9, FollowsExpires
<1>12. ASSUME ExpiryKeysSpent(b, t), NEW l \in Due(c, t) PROVE FALSE
  <2>1. l \in 1..NumLots(b) /\ c.lots[l].expires <= t /\ Rem(c, l) > 0
    BY <1>10, <1>12 DEF Due, IsDue
  <2>2. b.lots[l].expires <= t /\ Rem(c, l) <= Rem(b, l)
    BY <1>8, <2>1 DEF Follows
  <2>3. Rem(b, l) \in Int /\ Rem(c, l) \in Int
    BY <1>2, <1>9, <1>10, <2>1, AccountParts
  <2>4. l \in Due(b, t)
    BY <2>1, <2>2, <2>3 DEF Due, IsDue
  <2>5. Rem(c, l) = 0
    BY <1>8, <1>12, <2>4
  <2> QED BY <2>1, <2>5
<1> QED BY <1>8, <1>11, <1>12

\* A caller's key expires nothing.
LEMMA CallerKeyPlain ==
  ASSUME NEW k
  PROVE  /\ \A x, l \in Nat : CallerKey(k) # RefundExpiryKey(x, l)
         /\ \A l \in Nat : CallerKey(k) # ExpiryKey(l)
BY DEF CallerKey, RefundExpiryKey, ExpiryKey

\* A credit changes no lot that was there.
LEMMA CreditedFollows ==
  ASSUME NEW b \in AccountSet, NEW r, NEW k
  PROVE  Follows(b, Credited(b, r, CallerKey(k)), {})
<1> DEFINE key == CallerKey(k)
           repay == Least(r.amount, Greatest(-b.balance, 0))
           bucket == IF r.bucket = NoBucket THEN DefaultBucket ELSE r.bucket
           lot == NewLot(Len(b.entries) + 1, bucket, r.amount - repay, r.expires)
           lots == IF r.amount > repay THEN Append(b.lots, lot) ELSE b.lots
           e == Entry(b, r.amount, key, r, NoEntry, NoMoves(b), repay)
<1>1. Credited(b, r, key) = Posted(b, e, lots)
  BY DEF Credited
<1>2. /\ NumLots(b) \in Nat /\ b.lots \in Seq(LotSet) /\ NumLots(b) = Len(b.lots)
      /\ \A l \in 1..NumLots(b) : Rem(b, l) \in Int
  BY AccountParts DEF NumLots
<1>3. e.key = key
  BY DEF Entry
<1> HIDE DEF lot, e, repay
<1>4. Len(lots) \in Nat /\ NumLots(b) <= Len(lots) /\ \A l \in 1..NumLots(b) : lots[l] = b.lots[l]
  BY <1>2
<1> HIDE DEF lots
<1>5. \A l \in 1..NumLots(b) :
        lots[l].expires = b.lots[l].expires /\ lots[l].granted - lots[l].consumed <= Rem(b, l)
  BY <1>2, <1>4 DEF Rem
<1>6. Follows(b, Posted(b, e, lots), {})
  BY <1>3, <1>4, <1>5, CallerKeyPlain, PostedFollows
<1> QED BY <1>1, <1>6

\* A debit takes from lots.
LEMMA DebitedFollows ==
  ASSUME NEW b \in AccountSet, LotsInBounds(b), NEW r \in RequestSet, NEW k, NEW t
  PROVE  Follows(b, Debited(b, r, CallerKey(k), t), {})
<1> DEFINE n == NumLots(b)
           avail == Spendable(b, t, DebitBucket(r))
           take == Fill(avail, SpendRank(b), r.amount, n)
           e == Entry(b, -r.amount, CallerKey(k), r, NoEntry, take, r.amount - SumTo(take, n))
<1>1. n \in Nat /\ r.amount \in Nat /\ \A l \in 1..n : Rem(b, l) \in Nat
  BY AccountParts, RemNat DEF RequestSet
<1>2. \A l \in 1..n : avail[l] \in Nat
  BY <1>1 DEF Spendable
<1>3. Debited(b, r, CallerKey(k), t) = Posted(b, e, Consumed(b, take))
  BY DEF Debited
<1>4. e.key = CallerKey(k)
  BY DEF Entry
<1> HIDE DEF avail, e
<1>5. \A l \in 1..n : take[l] \in Nat
  BY <1>1, <1>2, FillBounds
<1> HIDE DEF take
<1> QED BY <1>3, <1>4, <1>5, CallerKeyPlain, DebitFollows

\* post_credit, either half.
LEMMA PostExpires ==
  ASSUME Sound(acct), Explained(acct), RefundKeysPast(acct), NEW t, NEW k \in Keys,
         NEW r \in Grants \cup Usages \cup Adjustments, NEW held,
         PostCredit(t, k, r) \/ PostDebit(t, k, r, held)
  PROVE  Expires(acct, acct', t)
<1> DEFINE key == CallerKey(k)
<1>1. r \in RequestSet
  BY RequestsTyped
<1>2. PICK b \in AfterExpiry(acct, t) :
        acct' \in {CreditOutcome(b, t, key, r).acct, DebitOutcome(b, t, key, r, held).acct}
  BY DEF PostCredit, PostDebit
<1>3. acct' \in {b, Credited(b, r, key), Debited(b, r, key, t)}
  BY <1>2 DEF CreditOutcome, DebitOutcome
<1>4. /\ acct \in AccountSet /\ b \in AccountSet /\ LotsInBounds(b)
      /\ Follows(acct, b, Due(acct, t)) /\ Expires(acct, b, t)
  BY AfterExpiryExpires, AfterExpirySound, AfterExpiryExplained DEF Sound, Explained
<1>5. acct' \in AccountSet /\ LotsInBounds(acct')
  BY PostSound DEF Sound, Explained
<1>6. Follows(b, acct', {})
  BY <1>1, <1>3, <1>4, CreditedFollows, DebitedFollows, FollowsNot
<1>7. RefundKeysPast(b)
  BY <1>4 DEF Expires
<1>8. Expires(b, acct', t)
  <2> DEFINE S == {}
  <2>1. \A l \in S : FALSE
    OBVIOUS
  <2>2. Follows(b, acct', S)
    BY <1>6
  <2> HIDE DEF S
  <2> QED BY <1>4, <1>5, <1>7, <2>1, <2>2, FollowsExpires
<1> QED BY <1>4, <1>5, <1>6, <1>8, ExpiresTwice DEF Follows

\* A refund gives back to each lot, and changes no other.
LEMMA RefundedEach ==
  ASSUME NEW b \in AccountSet, NEW e \in 1..Len(b.entries), NEW amount \in Int,
         NEW key, NEW req, NEW rank, NEW give, give = Give(b, e, amount, rank),
         NEW mid, mid = Refunded(b, e, amount, key, req, rank)
  PROVE  /\ \A l \in 1..NumLots(b) :
              mid.lots[l].expires = b.lots[l].expires /\ Rem(mid, l) = Rem(b, l) + give[l]
         /\ Len(mid.entries) = Len(b.entries) + 1
         /\ \A k : KeyUsed(mid, k) => KeyUsed(b, k) \/ k = key
<1> DEFINE n == NumLots(b)
           back == GaveBack(b, give)
           left == amount - SumTo(give, n)
           repay == Least(left, Greatest(-b.balance, 0))
           lot == NewLot(Len(b.entries) + 1, DefaultBucket, left - repay, NoExpiry)
           lots == IF left > repay THEN Append(back, lot) ELSE back
           x == Entry(b, amount, key, req, e, give, repay)
<1>1. mid = Posted(b, x, lots)
  BY DEF Refunded
<1>2. n \in Nat /\ \A l \in 1..n : give[l] \in Int
  BY AccountParts, GiveInt
<1>3. x.key = key
  BY DEF Entry
<1>4. back \in Seq(LotSet) /\ Len(back) = n
  BY <1>2, GaveBackLots
<1>5. \A l \in 1..n : /\ back[l].expires = b.lots[l].expires
                     /\ back[l].granted - back[l].consumed = Rem(b, l) + give[l]
  BY <1>2, GaveBackEach
<1> HIDE DEF x, lot, repay, left, back
<1>6. \A l \in 1..n : lots[l] = back[l]
  BY <1>2, <1>4
<1> HIDE DEF lots
<1>7. mid.lots = lots /\ Len(mid.entries) = Len(b.entries) + 1
  BY <1>1, PostedParts
<1>8. \A k : KeyUsed(mid, k) => KeyUsed(b, k) \/ k = key
  BY <1>1, <1>3, PostedKeys
<1>9. \A l \in 1..n : mid.lots[l].expires = b.lots[l].expires /\ Rem(mid, l) = Rem(b, l) + give[l]
  BY <1>5, <1>6, <1>7 DEF Rem
<1> QED BY <1>7, <1>8, <1>9

\* refund_credit expires at once what it gives back to a lot that is late.
LEMMA RefundExpires ==
  ASSUME Sound(acct), Explained(acct), RefundKeysPast(acct), NEW t, NEW k \in Keys,
         NEW e \in 1..Len(acct.entries), NEW a \in Amounts \cup {0}, Refund(t, k, e, a)
  PROVE  Expires(acct, acct', t)
<1> DEFINE b == acct
           key == CallerKey(k)
           req == Request("refund", a, "refund", e, NoBucket, NoExpiry, NoFloor)
           amt == RefundAmount(b, e, a)
<1>1. b \in AccountSet /\ NumLots(b) \in Nat /\ b.entries[e].amount \in Int /\ e \in Nat
  BY AccountParts, EntryParts DEF Sound
<1>2. amt \in Int
  <2>1. ReferencedBy(b, e, "refund") \in Int /\ a \in Int
    BY <1>1, ReferencedInt, BoundsAssumption
  <2> QED BY <1>1, <2>1 DEF RefundAmount
<1>3. req \in RequestSet
  <2>1. "refund" \in Kinds /\ "refund" \in OperationNames
    BY DEF Kinds, OperationNames
  <2>2. a \in Nat /\ NoBucket \in Buckets \cup {NoBucket} /\ NoFloor \in Int
    BY BoundsAssumption DEF NoFloor
  <2> QED BY <1>1, <2>1, <2>2, NoExpiryNat, RequestTyped
<1>4. /\ key \in KeySet /\ ~KeyUsed(b, key)
      /\ \A x, l \in Nat : key # RefundExpiryKey(x, l)
      /\ \A l \in Nat : key # ExpiryKey(l)
  BY CallerKeys, CallerKeyPlain DEF Refund
<1>5. amt > 0
  <2>1. RefundError(b, e, amt) = "ok"
    BY DEF Refund
  <2> HIDE DEF amt
  <2>2. ~(amt <= 0)
    BY <2>1 DEF RefundError
  <2> QED BY <1>2, <2>2
<1>6. PICK rank \in RestoreRanks(b) :
        \E q \in Orders({l \in 1..NumLots(b) :
                           Give(b, e, amt, rank)[l] > 0 /\ b.lots[l].expires <= t}) :
          acct' = AfterTargeted(Refunded(b, e, amt, key, req, rank),
                                RefundExpiryDebits(b, Give(b, e, amt, rank), q))
  BY DEF Refund
<1> DEFINE give == Give(b, e, amt, rank)
           mid == Refunded(b, e, amt, key, req, rank)
           late == {l \in 1..NumLots(b) : give[l] > 0 /\ b.lots[l].expires <= t}
<1>7. PICK q \in Orders(late) : acct' = AfterTargeted(mid, RefundExpiryDebits(b, give, q))
  BY <1>6
<1> HIDE DEF amt, key, req
<1>8. Sound(mid) /\ NumLots(mid) \in {NumLots(b), NumLots(b) + 1}
  BY <1>1, <1>2, <1>3, <1>4, <1>5, RefundedSound
<1>9. \A l \in 1..NumLots(b) : give[l] \in Int
  BY <1>1, <1>2, GiveInt
<1>10. /\ \A l \in 1..NumLots(b) :
            mid.lots[l].expires = b.lots[l].expires /\ Rem(mid, l) = Rem(b, l) + give[l]
       /\ Len(mid.entries) = Len(b.entries) + 1
       /\ \A x : KeyUsed(mid, x) => KeyUsed(b, x) \/ x = key
  BY <1>1, <1>2, RefundedEach
<1> HIDE DEF give, mid
<1>11. late \subseteq 1..NumLots(b) /\ \A l \in late : give[l] \in Nat \ {0}
  BY <1>9
<1>12. \A l \in 1..NumLots(b) : l \in late <=> give[l] > 0 /\ b.lots[l].expires <= t
  OBVIOUS
<1> HIDE DEF late
<1>13. /\ Len(q) \in Nat /\ \A i \in 1..Len(q) : q[i] \in late
       /\ \A i, j \in 1..Len(q) : q[i] = q[j] => i = j
       /\ \A l \in late : \E i \in 1..Len(q) : q[i] = l
  <2>1. NumLots(b) \in Nat /\ late \subseteq 1..NumLots(b) /\ q \in Orders(late)
    BY <1>1, <1>7, <1>11
  <2>2. Lists(q, late)
    BY <2>1, OrderLists
  <2> QED BY <2>2 DEF Lists
<1>14. NumLots(mid) \in Nat /\ 1..NumLots(b) \subseteq 1..NumLots(mid) /\ NumLots(b) <= NumLots(mid)
  BY <1>1, <1>8
<1>15. \A i \in 1..Len(q) : q[i] \in 1..NumLots(b) /\ q[i] \in 1..NumLots(mid) /\ q[i] \in Nat
                            /\ give[q[i]] \in Nat \ {0}
  <2> SUFFICES ASSUME NEW i \in 1..Len(q)
               PROVE  /\ q[i] \in 1..NumLots(b) /\ q[i] \in 1..NumLots(mid) /\ q[i] \in Nat
                      /\ give[q[i]] \in Nat \ {0}
    OBVIOUS
  <2>1. q[i] \in late
    BY <1>13
  <2>2. q[i] \in 1..NumLots(b) /\ give[q[i]] \in Nat \ {0}
    BY <1>11, <2>1
  <2> QED BY <1>1, <1>14, <2>2
<1> DEFINE ds == RefundExpiryDebits(b, give, q)
           m == NumLots(mid)
<1>16. Len(ds) = Len(q) /\ \A i \in 1..Len(q) : ds[i] \in DebitSet(m)
  <2> HIDE DEF m, b
  <2>1. m \in Nat /\ \A i \in 1..Len(q) : q[i] \in 1..m /\ give[q[i]] \in Nat \ {0}
    BY <1>14, <1>15 DEF m
  <2> QED BY <1>1, <1>13, <2>1, RefundExpiryDebitsTyped
<1>17. acct' = AfterTargeted(mid, ds)
  BY <1>7
<1>18. /\ Separate(mid, ds)
       /\ \A i \in 1..Len(ds) : /\ ds[i].lot = q[i] /\ ds[i].amount = give[q[i]]
                                /\ ds[i].key = RefundExpiryKey(Len(b.entries) + 1, q[i])
  <2> DEFINE x == Len(b.entries) + 1
  <2>1. x \in Nat /\ ~(x <= Len(b.entries))
    BY <1>1, AccountParts
  <2>2. \A i \in 1..Len(ds) : ds[i].lot = q[i] /\ ds[i].amount = give[q[i]]
                              /\ ds[i].key = RefundExpiryKey(x, q[i])
    BY <1>16 DEF RefundExpiryDebits
  <2> HIDE DEF x, ds
  <2>3. \A l \in Nat : ~KeyUsed(mid, RefundExpiryKey(x, l))
    BY <1>4, <1>10, <2>1 DEF RefundKeysPast
  <2>4. \A l, y \in Nat : RefundExpiryKey(x, l) = RefundExpiryKey(x, y) => l = y
    BY DEF RefundExpiryKey
  <2>5. \A i \in 1..Len(ds) : ~KeyUsed(mid, ds[i].key)
    BY <1>15, <1>16, <2>2, <2>3
  <2>6. \A i, j \in 1..Len(ds) : i # j => ds[i].lot # ds[j].lot /\ ds[i].key # ds[j].key
    <3>1. \A i, j \in 1..Len(ds) : i # j => q[i] # q[j] /\ q[i] \in Nat /\ q[j] \in Nat
      BY <1>13, <1>15, <1>16
    <3> QED BY <2>2, <2>4, <3>1
  <2> QED BY <2>2, <2>5, <2>6 DEF Separate, x
<1> HIDE DEF ds
<1>19. Kept(mid, acct', ds)
  BY <1>8, <1>13, <1>16, <1>17, AfterTargetedSound
<1>20. Took(mid, acct', ds, Len(ds))
  BY <1>8, <1>13, <1>16, <1>17, <1>18, RunTook
<1> HIDE DEF b, m
<1>21. ASSUME NEW l \in 1..NumLots(b)
       PROVE  /\ acct'.lots[l].expires = b.lots[l].expires
              /\ b.lots[l].expires <= t => Rem(acct', l) <= Rem(b, l)
  <2>1. l \in 1..NumLots(mid)
    BY <1>14
  <2>2. acct'.lots[l].expires = b.lots[l].expires
    BY <1>10, <1>20, <2>1 DEF Took
  <2>3. Rem(b, l) \in Int /\ give[l] \in Int /\ Rem(mid, l) = Rem(b, l) + give[l]
    BY <1>1, <1>9, <1>10, AccountParts
  <2>4. CASE l \in late
    <3>1. PICK i \in 1..Len(ds) : q[i] = l
      BY <1>13, <1>16, <2>4
    <3>2. Rem(acct', l) = Rem(mid, l) - give[l]
      BY <1>16, <1>18, <1>20, <3>1 DEF Took
    <3> QED BY <2>2, <2>3, <3>2
  <2>5. CASE l \notin late
    <3>1. \A i \in 1..Len(ds) : ds[i].lot # l
      BY <1>13, <1>16, <1>18, <2>5
    <3>2. Rem(acct', l) = Rem(mid, l)
      BY <1>20, <2>1, <3>1 DEF Took
    <3>3. b.lots[l].expires <= t => ~(give[l] > 0)
      BY <1>12, <2>5
    <3> QED BY <2>2, <2>3, <3>2, <3>3
  <2> QED BY <2>4, <2>5
<1>22. \A x : (~KeyUsed(b, x) /\ x # key /\ \A i \in 1..Len(ds) : ds[i].key # x) => ~KeyUsed(acct', x)
  BY <1>10, <1>19 DEF Kept
<1>23. RefundKeysPast(acct')
  <2>1. /\ Len(b.entries) \in Nat /\ Len(acct'.entries) \in Nat
        /\ Len(b.entries) + 1 <= Len(acct'.entries)
    BY <1>1, <1>10, <1>19, AccountParts DEF Kept, Grew, Sound
  <2> SUFFICES ASSUME NEW x \in Nat, NEW l \in Nat, KeyUsed(acct', RefundExpiryKey(x, l))
               PROVE  x <= Len(acct'.entries)
    BY DEF RefundKeysPast
  <2>2. CASE KeyUsed(b, RefundExpiryKey(x, l))
    <3>1. x <= Len(b.entries)
      BY <2>2 DEF RefundKeysPast, b
    <3> QED BY <2>1, <3>1
  <2>3. CASE \E i \in 1..Len(ds) : ds[i].key = RefundExpiryKey(x, l)
    <3>1. PICK i \in 1..Len(ds) : RefundExpiryKey(Len(b.entries) + 1, q[i]) = RefundExpiryKey(x, l)
      BY <1>18, <2>3
    <3>2. x = Len(b.entries) + 1
      BY <3>1 DEF RefundExpiryKey
    <3> QED BY <2>1, <3>2
  <2> QED BY <1>4, <1>22, <2>2, <2>3
<1>24. LateKept(b, acct', t, {})
  <2>1. NumLots(b) <= NumLots(acct')
    BY <1>14, <1>19 DEF Kept
  <2>2. \A x, y, l \in Nat : RefundExpiryKey(x, y) # ExpiryKey(l)
    BY DEF RefundExpiryKey, ExpiryKey
  <2>3. Len(b.entries) + 1 \in Nat
    BY <1>1, AccountParts
  <2>4. ASSUME NEW l \in Nat PROVE KeyUsed(acct', ExpiryKey(l)) => KeyUsed(b, ExpiryKey(l))
    <3>1. \A i \in 1..Len(ds) : ds[i].key # ExpiryKey(l)
      BY <1>15, <1>16, <1>18, <2>2, <2>3
    <3> QED BY <1>4, <1>22, <3>1
  <2> QED BY <1>21, <2>1, <2>4 DEF LateKept
<1>25. ExpiryKeysSpent(b, t) => ExpiryKeysSpent(acct', t)
  <2>1. acct' \in AccountSet /\ LotsInBounds(acct') /\ LotsInBounds(b)
    BY RefundSound DEF Sound, Explained, b
  <2> DEFINE S == {}
  <2>2. LateKept(b, acct', t, S) /\ \A l \in S : FALSE
    BY <1>24
  <2> HIDE DEF S
  <2> QED BY <1>1, <2>1, <2>2, SpentKept
<1>26. Expires(b, acct', t)
  BY <1>21, <1>23, <1>25 DEF Expires
<1> QED BY <1>26 DEF b

\* A step that follows and expires nothing.
LEMMA PlainExpires ==
  ASSUME NEW b, Sound(b), Explained(b), RefundKeysPast(b), NEW c, Sound(c), Explained(c),
         Follows(b, c, {}), NEW t
  PROVE  Expires(b, c, t)
<1> DEFINE S == {}
<1>1. Follows(b, c, S) /\ \A l \in S : FALSE
  OBVIOUS
<1>2. b \in AccountSet /\ c \in AccountSet /\ LotsInBounds(b) /\ LotsInBounds(c)
  BY DEF Sound, Explained
<1> HIDE DEF S
<1> QED BY <1>1, <1>2, FollowsExpires

\* clawback_credit_source.
LEMMA ClawbackExpires ==
  ASSUME Sound(acct), Explained(acct), RefundKeysPast(acct), NEW t, NEW k \in Keys,
         NEW e \in 1..Len(acct.entries), NEW a \in Amounts, Clawback(k, e, a)
  PROVE  Expires(acct, acct', t)
<1> DEFINE b == acct
           n == NumLots(b)
           req == Request("refund_clawback", a, "billing_refund_clawback", e,
                          NoBucket, NoExpiry, NoFloor)
           take == [l \in 1..n |-> IF b.lots[l].source = e THEN Least(a, Rem(b, l)) ELSE 0]
           x == Entry(b, -a, CallerKey(k), req, e, take, a - SumTo(take, n))
<1>1. b \in AccountSet /\ \A l \in 1..n : Rem(b, l) \in Nat
  BY RemNat DEF Sound, Explained
<1>2. acct' = Posted(b, x, Consumed(b, take))
  BY DEF Clawback, ClawedBack
<1>3. x.key = CallerKey(k)
  BY DEF Entry
<1>4. \A l \in 1..n : take[l] \in Nat
  BY <1>1, BoundsAssumption DEF Least
<1> HIDE DEF x, take
<1>5. Follows(b, acct', {})
  BY <1>1, <1>2, <1>3, <1>4, CallerKeyPlain, DebitFollows
<1> QED BY <1>5, ClawbackSound, PlainExpires

\* revoke_lot.
LEMMA RevokeLotExpires ==
  ASSUME Sound(acct), Explained(acct), RefundKeysPast(acct), NEW t, NEW k \in Keys,
         NEW l \in 1..NumLots(acct), NEW a \in Amounts, RevokeLot(k, l, a)
  PROVE  Expires(acct, acct', t) /\ Grew(acct, acct')
<1> DEFINE d == [lot |-> l, kind |-> "revocation", amount |-> a, key |-> CallerKey(k)]
           n == NumLots(acct)
<1>1. acct' = Targeted(acct, d) /\ acct \in AccountSet
  BY DEF RevokeLot, Sound
<1>2. d \in DebitSet(n) /\ d.key = CallerKey(k)
  <2>1. a \in Nat \ {0} /\ CallerKey(k) \in DebitKeys /\ l \in 1..n
    BY BoundsAssumption, CallerKeys
  <2>2. d = [lot |-> l, kind |-> "revocation", amount |-> a, key |-> CallerKey(k)]
    OBVIOUS
  <2> HIDE DEF d, n
  <2> QED BY <2>1, <2>2, DebitTyped
<1> HIDE DEF d
<1>3. Follows(acct, acct', {})
  BY <1>1, <1>2, CallerKeyPlain, TargetedFollows
<1>4. Grew(acct, acct')
  BY <1>1, <1>2, TargetedGrew
<1> QED BY <1>3, <1>4, RevokeLotSound, PlainExpires

\* revoke_subject_credits_by_operation.
LEMMA RevokeByOperationExpires ==
  ASSUME Sound(acct), Explained(acct), RefundKeysPast(acct), NEW t, NEW op,
         RevokeByOperation(op)
  PROVE  Expires(acct, acct', t) /\ Grew(acct, acct')
<1> DEFINE S == LotsOfOperation(acct, op)
<1>1. PICK q \in SpendOrders(acct, S) : acct' = AfterTargeted(acct, RevocationDebits(acct, q))
  BY DEF RevokeByOperation
<1>2. acct \in AccountSet /\ NumLots(acct) \in Nat
  BY AccountParts DEF Sound
<1>3. S \subseteq 1..NumLots(acct) /\ \A l \in S : Rem(acct, l) > 0
  BY DEF LotsOfOperation
<1> HIDE DEF S
<1>4. q \in Orders(S)
  BY DEF SpendOrders
<1>5. Len(q) \in Nat /\ \A i \in 1..Len(q) : q[i] \in S
  BY <1>2, <1>3, <1>4, OrderParts
<1>6. \A i \in 1..Len(q) : q[i] \in 1..NumLots(acct) /\ Rem(acct, q[i]) > 0
  BY <1>3, <1>5
<1> DEFINE ds == RevocationDebits(acct, q)
<1>7. Len(ds) = Len(q) /\ \A i \in 1..Len(q) : ds[i] \in DebitSet(NumLots(acct))
  BY <1>2, <1>5, <1>6, RevocationDebitsTyped
<1>8. \A i \in 1..Len(q) : ds[i].key = RevocationKey(q[i])
  BY DEF RevocationDebits
<1>9. acct' = AfterTargeted(acct, ds)
  BY <1>1
<1> HIDE DEF ds
<1>10. ExpiresOnly(ds, {})
  <2>1. \A l : (\A x, y \in Nat : RevocationKey(l) # RefundExpiryKey(x, y))
               /\ \A x \in Nat : RevocationKey(l) # ExpiryKey(x)
    BY DEF RevocationKey, RefundExpiryKey, ExpiryKey
  <2> QED BY <1>7, <1>8, <2>1 DEF ExpiresOnly
<1>11. Follows(acct, acct', {})
  BY <1>5, <1>7, <1>9, <1>10, RunFollows
<1>12. Grew(acct, acct')
  BY <1>5, <1>7, <1>9, AfterTargetedSound DEF Kept
<1> QED BY <1>11, <1>12, RevokeByOperationSound, PlainExpires

\* sweep_expired_lots: a batch of the due lots.
LEMMA SweepExpires ==
  ASSUME Sound(acct), Explained(acct), RefundKeysPast(acct), NEW t, NEW limit \in 1..2,
         Sweep(t, limit)
  PROVE  Expires(acct, acct', t)
<1> DEFINE S == Due(acct, t)
<1>1. PICK q \in ExpiryOrders(acct, S) :
        LET batch == SubSeq(q, 1, Least(limit, Len(q)))
        IN  acct' = AfterTargeted(acct, ExpiryDebits(acct, batch))
  BY DEF Sweep
<1>2. acct \in AccountSet /\ NumLots(acct) \in Nat
  BY AccountParts DEF Sound
<1>3. S \subseteq 1..NumLots(acct) /\ \A l \in S : acct.lots[l].expires <= t
  BY DEF Due, IsDue
<1>4. q \in Orders(S)
  BY DEF ExpiryOrders
<1> HIDE DEF S
<1>5. /\ Len(q) \in Nat /\ DOMAIN q = 1..Len(q) /\ \A i \in 1..Len(q) : q[i] \in S
      /\ \A i, j \in 1..Len(q) : q[i] = q[j] => i = j
  BY <1>2, <1>3, <1>4, OrderParts, OrderLists DEF Lists
<1> DEFINE m == Least(limit, Len(q))
           w == SubSeq(q, 1, m)
<1>6. m \in Nat /\ m <= Len(q)
  BY <1>5 DEF Least
<1>7. q \in Seq(S)
  <2>1. q \in [1..Cardinality(S) -> S]
    BY <1>4 DEF Orders
  <2>2. q \in [1..Len(q) -> S]
    BY <1>5, <2>1
  <2> QED BY <1>5, <2>2, FunIsSeq
<1>7a. acct' = AfterTargeted(acct, ExpiryDebits(acct, w))
  BY <1>1
<1> HIDE DEF m
<1>8. Len(w) = m /\ \A i \in 1..m : w[i] = q[i]
  BY <1>5, <1>6, <1>7
<1> HIDE DEF w
<1>9. /\ Len(w) \in Nat /\ \A i \in 1..Len(w) : w[i] \in S
      /\ \A i, j \in 1..Len(w) : w[i] = w[j] => i = j
  BY <1>5, <1>6, <1>8
<1> DEFINE R == {w[i] : i \in 1..Len(w)}
<1>10. R \subseteq Due(acct, t) /\ Lists(w, R)
  BY <1>9 DEF Lists, S
<1> HIDE DEF R
<1>11. Follows(acct, acct', R) /\ (ExpiryKeysSpent(acct, t) => \A l \in R : Rem(acct', l) = 0)
  BY <1>7a, <1>10, ExpiryLoop
<1>12. \A l \in R : l \in 1..NumLots(acct) /\ acct.lots[l].expires <= t
  BY <1>3, <1>10 DEF S
<1>13. acct' \in AccountSet /\ LotsInBounds(acct) /\ LotsInBounds(acct')
  BY SweepSound DEF Sound, Explained
<1> QED BY <1>2, <1>11, <1>12, <1>13, FollowsExpires

\* A usage posting is admitted on a balance that has no expired credit left in it.
LEMMA UsageCovered ==
  ASSUME Sound(acct), Explained(acct), RefundKeysPast(acct), policyMin \in Floors,
         NEW t, ExpiryKeysSpent(acct, t), NEW k \in Keys, NEW r \in Usages,
         PostDebit(t, k, r, 0), Len(acct'.entries) > Len(acct.entries),
         acct'.entries[Len(acct'.entries)].kind = "usage"
  PROVE  acct'.balance - DueTotal(acct', t) >= policyMin
<1> DEFINE key == CallerKey(k)
<1>1. PICK b \in AfterExpiry(acct, t) : acct' = DebitOutcome(b, t, key, r, 0).acct
  BY DEF PostDebit
<1>2. r \in RequestSet /\ r.amount \in Int /\ r.floor = NoFloor
  <2>1. r \in RequestSet
    BY RequestsTyped
  <2>2. r.floor = NoFloor
    BY DEF Usages, Request
  <2> QED BY <2>1, <2>2 DEF RequestSet
<1>3. /\ acct \in AccountSet /\ b \in AccountSet /\ b.balance \in Int /\ LotsInBounds(b)
      /\ NumLots(b) \in Nat
  BY AfterExpirySound, AfterExpiryExplained, AccountParts DEF Sound, Explained
<1>4. Grew(acct, b) /\ Due(b, t) = {}
  BY AfterExpirySound, AfterExpiryExpires
<1>5. policyMin \in Int
  BY CatalogAssumption
<1>6. acct' # b
  <2> SUFFICES ASSUME acct' = b PROVE FALSE
    OBVIOUS
  <2>1. Len(acct.entries) \in Nat /\ Len(b.entries) \in Nat
    BY <1>3, AccountParts
  <2>2. Len(b.entries) \in 1..Len(b.entries)
    BY <2>1
  <2>3. b.entries[Len(b.entries)].kind # "usage"
    BY <1>4, <2>2 DEF Grew, Quiet
  <2> QED BY <2>3
<1>7. DebitError(b, r, t, 0) = "ok" /\ acct' = Debited(b, r, key, t)
  BY <1>1, <1>6 DEF DebitOutcome
<1>8. b.balance - r.amount >= policyMin
  <2> DEFINE avail == SumTo(Spendable(b, t, DebitBucket(r)), NumLots(b))
             reserved == IF r.kind = "usage" THEN 0 ELSE 0
  <2>1. Floor(r) = policyMin /\ reserved = 0
    BY <1>2 DEF Floor
  <2>2. ~(b.balance - r.amount - reserved < Floor(r))
    BY <1>7 DEF DebitError
  <2> HIDE DEF reserved
  <2> QED BY <1>2, <1>3, <1>5, <2>1, <2>2
<1>9. acct'.balance = b.balance - r.amount
  <2> DEFINE take == Fill(Spendable(b, t, DebitBucket(r)), SpendRank(b), r.amount, NumLots(b))
             e == Entry(b, -r.amount, key, r, NoEntry, take, r.amount - SumTo(take, NumLots(b)))
  <2>1. acct' = Posted(b, e, Consumed(b, take))
    BY <1>7 DEF Debited
  <2>2. e.amount = -r.amount
    BY DEF Entry
  <2> HIDE DEF e
  <2>3. acct'.balance = b.balance + e.amount
    BY <2>1 DEF Posted
  <2> QED BY <1>2, <1>3, <2>2, <2>3
<1>10. acct' \in AccountSet /\ NumLots(acct') \in Nat /\ \A l \in 1..NumLots(acct') : Rem(acct', l) \in Int
  <2>1. acct' \in AccountSet
    BY PostSound DEF Sound
  <2> QED BY <2>1, AccountParts
<1>11. NumLots(acct') = NumLots(b)
  <2> DEFINE take == Fill(Spendable(b, t, DebitBucket(r)), SpendRank(b), r.amount, NumLots(b))
  <2>1. acct'.lots = Consumed(b, take)
    BY <1>7 DEF Debited, Posted
  <2>2. Consumed(b, take) = [l \in 1..NumLots(b) |-> Consumed(b, take)[l]]
    BY DEF Consumed
  <2>3. acct'.lots \in Seq(LotSet) /\ DOMAIN acct'.lots = 1..NumLots(b)
    BY <1>10, <2>1, <2>2 DEF AccountSet
  <2> QED BY <1>3, <2>3 DEF NumLots
<1>12. Follows(b, acct', {})
  BY <1>2, <1>3, <1>7, DebitedFollows
<1>13. ASSUME NEW l \in 1..NumLots(acct') PROVE ~IsDue(acct', l, t)
  <2>1. acct'.lots[l].expires = b.lots[l].expires /\ Rem(acct', l) <= Rem(b, l)
    BY <1>11, <1>12 DEF Follows
  <2>2. ~IsDue(b, l, t)
    BY <1>4, <1>11 DEF Due
  <2>3. Rem(acct', l) \in Int /\ Rem(b, l) \in Int
    BY <1>3, <1>10, <1>11, AccountParts
  <2> QED BY <2>1, <2>2, <2>3 DEF IsDue
<1> DEFINE f == [l \in 1..NumLots(acct') |-> IF IsDue(acct', l, t) THEN Rem(acct', l) ELSE 0]
<1>14. \A l \in 1..NumLots(acct') : f[l] = 0
  BY <1>13
<1>15. DueTotal(acct', t) = SumTo(f, NumLots(acct'))
  BY DEF DueTotal
<1> HIDE DEF f
<1>16. DueTotal(acct', t) = 0
  BY <1>10, <1>14, <1>15, SumToNone
<1> QED BY <1>2, <1>3, <1>5, <1>8, <1>9, <1>16

\* Every step is at some time that the lag allows.
LEMMA NextExpires ==
  ASSUME IInv, RefundKeysPast(acct), [Next]_vars
  PROVE  /\ \E t \in Stamps : Expires(acct, acct', t)
         /\ now <= now'
<1>1. now \in 0..MaxNow /\ policyMin \in Floors /\ Sound(acct) /\ Explained(acct)
  BY DEF IInv
<1>2. now \in Stamps /\ now \in Int /\ now <= now
  BY <1>1, BoundsAssumption DEF Stamps
<1>3. Expires(acct, acct, now)
  BY <1>1, FollowsNot, PlainExpires DEF Sound
<1>4. ASSUME NEW t \in Stamps, NEW k \in Keys, NEW r \in Grants, PostCredit(t, k, r)
      PROVE  Expires(acct, acct', t) /\ now' = now
  BY <1>1, <1>4, PostExpires DEF PostCredit
<1>5. ASSUME NEW t \in Stamps, NEW k \in Keys, NEW r \in Usages \cup Adjustments,
             PostDebit(t, k, r, 0)
      PROVE  Expires(acct, acct', t) /\ now' = now
  BY <1>1, <1>5, PostExpires DEF PostDebit
<1>6. ASSUME NEW t \in Stamps, NEW k \in Keys, NEW e \in 1..Len(acct.entries),
             NEW a \in Amounts \cup {0}, Refund(t, k, e, a)
      PROVE  Expires(acct, acct', t) /\ now' = now
  BY <1>1, <1>6, RefundExpires DEF Refund
<1>7. ASSUME NEW k \in Keys, NEW e \in 1..Len(acct.entries), NEW a \in Amounts,
             Clawback(k, e, a)
      PROVE  Expires(acct, acct', now) /\ now' = now
  BY <1>1, <1>7, ClawbackExpires DEF Clawback
<1>8. ASSUME NEW k \in Keys, NEW l \in 1..NumLots(acct), NEW a \in Amounts, RevokeLot(k, l, a)
      PROVE  Expires(acct, acct', now) /\ now' = now
  BY <1>1, <1>8, RevokeLotExpires DEF RevokeLot
<1>9. ASSUME NEW op \in Operations, RevokeByOperation(op)
      PROVE  Expires(acct, acct', now) /\ now' = now
  BY <1>1, <1>9, RevokeByOperationExpires DEF RevokeByOperation
<1>10. ASSUME NEW t \in Stamps, NEW limit \in 1..2, Sweep(t, limit)
       PROVE  Expires(acct, acct', t) /\ now' = now
  BY <1>1, <1>10, SweepExpires DEF Sweep
<1>11. ASSUME NEW f \in Floors, AssignPlan(f)
       PROVE  Expires(acct, acct', now) /\ now' = now
  BY <1>3, <1>11 DEF AssignPlan
<1>12. CASE Tick
  BY <1>2, <1>3, <1>12 DEF Tick
<1>13. CASE UNCHANGED vars
  BY <1>2, <1>3, <1>13 DEF vars
<1> QED
  BY <1>2, <1>4, <1>5, <1>6, <1>7, <1>8, <1>9, <1>10, <1>11, <1>12, <1>13 DEF Next, SweepAny

\* The refunds' expiry keys name entries of the account.
ExpiryInv == IInv /\ RefundKeysPast(acct)

\* Without lag, a lot that was expired is empty.
SpentInv == ExpiryInv /\ ExpiryKeysSpent(acct, now)

\* No entry yet, so no key is used.
LEMMA InitExpires == Init => ExpiryInv /\ SpentInv
<1> SUFFICES ASSUME Init PROVE ExpiryInv /\ SpentInv
  OBVIOUS
<1>1. IInv
  BY InitSound
<1>2. Len(acct.entries) = 0
  BY DEF Init
<1>3. \A x : ~KeyUsed(acct, x)
  BY <1>2 DEF KeyUsed
<1> QED BY <1>1, <1>3 DEF ExpiryInv, SpentInv, RefundKeysPast, ExpiryKeysSpent

\* What a step may do to lots past their expiry.
NeverRegains ==
  \A l \in 1..NumLots(acct) :
    acct.lots[l].expires <= now - MaxLag => Rem(acct', l) <= Rem(acct, l)

\* Every step keeps the keys in the past and adds nothing to late lots.
LEMMA ExpiryNext == ExpiryInv /\ [Next]_vars => ExpiryInv' /\ NeverRegains
<1> SUFFICES ASSUME ExpiryInv, [Next]_vars PROVE ExpiryInv' /\ NeverRegains
  OBVIOUS
<1>1. IInv /\ RefundKeysPast(acct)
  BY DEF ExpiryInv
<1>2. PICK t \in Stamps : Expires(acct, acct', t)
  BY <1>1, NextExpires
<1>3. now \in Int /\ t \in Int /\ now - MaxLag <= t /\ MaxLag \in Int
  BY <1>1, BoundsAssumption DEF IInv, Stamps
<1>4. IInv' /\ RefundKeysPast(acct')
  BY <1>1, <1>2, NextSound DEF Expires
<1>5. ASSUME NEW l \in 1..NumLots(acct), acct.lots[l].expires <= now - MaxLag
      PROVE  Rem(acct', l) <= Rem(acct, l)
  <2>1. acct.lots[l] \in LotSet
    BY <1>1, AccountParts DEF IInv, Sound
  <2>2. acct.lots[l].expires \in Int
    BY <2>1 DEF LotSet
  <2>3. acct.lots[l].expires <= t
    BY <1>3, <1>5, <2>2
  <2> QED BY <1>2, <2>3 DEF Expires
<1> QED BY <1>4, <1>5 DEF ExpiryInv, NeverRegains

\* What a step that posts usage leaves.
CoversUsage ==
  (/\ Len(acct'.entries) > Len(acct.entries)
   /\ acct'.entries[Len(acct'.entries)].kind = "usage")
    => acct'.balance - DueTotal(acct', now) >= policyMin

\* An account that grew, or did not change, has no new usage entry at its end.
LEMMA GrewCovers ==
  ASSUME acct \in AccountSet, acct' \in AccountSet, Grew(acct, acct')
  PROVE  CoversUsage
<1>1. Len(acct.entries) \in Nat /\ Len(acct'.entries) \in Nat
  BY AccountParts
<1> SUFFICES ASSUME Len(acct'.entries) > Len(acct.entries)
             PROVE  acct'.entries[Len(acct'.entries)].kind # "usage"
  BY DEF CoversUsage
<1>2. Len(acct'.entries) \in 1..Len(acct'.entries)
  BY <1>1
<1> QED BY <1>2 DEF Grew, Quiet

\* Without lag, every step keeps expired lots empty, and usage is posted on
\* credits that have not expired.
LEMMA SpentNext ==
  ASSUME MaxLag = 0, SpentInv, [Next]_vars
  PROVE  SpentInv' /\ CoversUsage
<1>1. /\ IInv /\ RefundKeysPast(acct) /\ ExpiryInv /\ ExpiryKeysSpent(acct, now)
      /\ Sound(acct) /\ Explained(acct) /\ policyMin \in Floors /\ now \in Int
  BY BoundsAssumption DEF SpentInv, ExpiryInv, IInv
<1>2. \A t \in Stamps : t = now
  BY <1>1 DEF Stamps
<1>3. Expires(acct, acct', now) /\ now <= now'
  BY <1>1, <1>2, NextExpires
<1>4. IInv' /\ ExpiryInv'
  BY <1>1, ExpiryNext DEF ExpiryInv
<1>5. ExpiryKeysSpent(acct', now')
  <2>1. ExpiryKeysSpent(acct', now)
    BY <1>1, <1>3 DEF Expires
  <2> SUFFICES ASSUME NEW l \in Nat, KeyUsed(acct', ExpiryKey(l))
               PROVE  l \in 1..NumLots(acct') /\ acct'.lots[l].expires <= now' /\ Rem(acct', l) = 0
    BY DEF ExpiryKeysSpent
  <2>2. l \in 1..NumLots(acct') /\ acct'.lots[l].expires <= now /\ Rem(acct', l) = 0
    BY <2>1 DEF ExpiryKeysSpent
  <2>3. acct'.lots[l] \in LotSet
    BY <1>4, <2>2, AccountParts DEF IInv, Sound
  <2>4. acct'.lots[l].expires \in Int /\ now' \in Int
    BY <1>4, <2>3, BoundsAssumption DEF LotSet, IInv
  <2> QED BY <1>1, <1>3, <2>2, <2>4
<1>6. CoversUsage
  <2>1. acct \in AccountSet /\ acct' \in AccountSet
    BY <1>1, <1>4 DEF IInv, Sound
  <2>2. ASSUME Grew(acct, acct') PROVE CoversUsage
    BY <2>1, <2>2, GrewCovers
  <2>3. ASSUME acct' = acct PROVE CoversUsage
    BY <2>1, <2>2, <2>3, GrewNot
  <2>4. ASSUME NEW t \in Stamps, NEW k \in Keys, NEW r \in Grants, PostCredit(t, k, r)
        PROVE  CoversUsage
    <3>1. r.kind # "usage"
      BY DEF Grants, Request
    <3> QED BY <1>1, <2>2, <2>4, <3>1, PostSound
  <2>5. ASSUME NEW t \in Stamps, NEW k \in Keys, NEW r \in Adjustments, PostDebit(t, k, r, 0)
        PROVE  CoversUsage
    <3>1. r.kind # "usage"
      BY DEF Adjustments, Request
    <3> QED BY <1>1, <2>2, <2>5, <3>1, PostSound
  <2>6. ASSUME NEW t \in Stamps, NEW k \in Keys, NEW r \in Usages, PostDebit(t, k, r, 0)
        PROVE  CoversUsage
    BY <1>1, <1>2, <2>6, UsageCovered DEF CoversUsage
  <2>7. ASSUME NEW t \in Stamps, NEW k \in Keys, NEW e \in 1..Len(acct.entries),
               NEW a \in Amounts \cup {0}, Refund(t, k, e, a)
        PROVE  CoversUsage
    BY <1>1, <2>2, <2>7, RefundSound
  <2>8. ASSUME NEW k \in Keys, NEW e \in 1..Len(acct.entries), NEW a \in Amounts,
               Clawback(k, e, a)
        PROVE  CoversUsage
    BY <1>1, <2>2, <2>8, ClawbackSound
  <2>9. ASSUME NEW k \in Keys, NEW l \in 1..NumLots(acct), NEW a \in Amounts, RevokeLot(k, l, a)
        PROVE  CoversUsage
    BY <1>1, <2>2, <2>9, RevokeLotExpires
  <2>10. ASSUME NEW op \in Operations, RevokeByOperation(op)
         PROVE  CoversUsage
    BY <1>1, <2>2, <2>10, RevokeByOperationExpires
  <2>11. ASSUME NEW t \in Stamps, NEW limit \in 1..2, Sweep(t, limit)
         PROVE  CoversUsage
    BY <1>1, <2>2, <2>11, SweepSound
  <2>12. ASSUME NEW f \in Floors, AssignPlan(f)
         PROVE  CoversUsage
    BY <2>3, <2>12 DEF AssignPlan
  <2>13. CASE Tick
    BY <2>3, <2>13 DEF Tick
  <2>14. CASE UNCHANGED vars
    BY <2>3, <2>14 DEF vars
  <2> QED
    BY <2>4, <2>5, <2>6, <2>7, <2>8, <2>9, <2>10, <2>11, <2>12, <2>13, <2>14 DEF Next, SweepAny
<1> QED BY <1>4, <1>5, <1>6 DEF SpentInv

\* Whatever the lag, no step adds to a lot that every call in flight judges
\* expired: a refund expires at once what it gives back to it.
THEOREM LedgerNeverRegains == Spec => ExpiredNeverRegains
<1>1. ExpiryInv /\ [Next]_vars =>
        [\A l \in 1..NumLots(acct) :
           acct.lots[l].expires <= now - MaxLag => Rem(acct', l) <= Rem(acct, l)]_vars
  BY ExpiryNext DEF NeverRegains
<1> QED BY <1>1, InitExpires, ExpiryNext, PTL DEF Spec, ExpiredNeverRegains

\* When calls apply in the order of their timestamps, credits past their expiry
\* are gone: no refund brings them back, and no usage is admitted on them.
THEOREM LedgerExpiredGone ==
  ASSUME MaxLag = 0
  PROVE  Spec => ExpiredStaysGone
<1>1. SpentInv /\ [Next]_vars => SpentInv'
  BY SpentNext
<1>2. SpentInv /\ [Next]_vars =>
        [(/\ Len(acct'.entries) > Len(acct.entries)
          /\ acct'.entries[Len(acct'.entries)].kind = "usage")
           => acct'.balance - DueTotal(acct', now) >= policyMin]_vars
  BY SpentNext DEF CoversUsage
<1> QED BY <1>1, <1>2, InitExpires, LedgerNeverRegains, PTL
         DEF Spec, ExpiredStaysGone, UsageNeverSpendsExpired

-----------------------------------------------------------------------------
(***************************************************************************)
(* Charges and leases                                                      *)
(***************************************************************************)

\* Allowance that the active leases of ls have reserved in window x.
HeldIn(ls, x) ==
  SumTo([j \in 1..Len(ls) |->
           IF ls[j].status = "active" /\ ls[j].window = x THEN ls[j].allowance ELSE 0],
        Len(ls))

\* A lease reserves no more allowance than its amount.
LeasesOK(ls) ==
  /\ ls \in Seq(LeaseSet)
  /\ \A j \in 1..Len(ls) : ls[j].allowance <= ls[j].amount

\* A window with what leases and charges made of it.
WindowOK(ls, x, w) ==
  /\ w \in [reserved : Nat, consumed : Nat]
  /\ w.reserved = HeldIn(ls, x)
  /\ w.reserved + w.consumed <= Allowance[x[1]]

WindowsOK(ls, ws) ==
  /\ DOMAIN ws \subseteq Floors \X Nat
  /\ \A x \in DOMAIN ws : WindowOK(ls, x, ws[x])
  /\ \A j \in 1..Len(ls) : ls[j].window \in DOMAIN ws
-----------------------------------------------------------------------------
(* Windows and leases *)

\* The fields of a lease.
LEMMA LeaseParts ==
  ASSUME NEW ls, LeasesOK(ls)
  PROVE  /\ Len(ls) \in Nat
         /\ \A j \in 1..Len(ls) :
              /\ ls[j] \in LeaseSet
              /\ ls[j].window \in Floors \X Nat
              /\ ls[j].amount \in Nat /\ ls[j].allowance \in Nat
              /\ ls[j].allowance <= ls[j].amount
              /\ ls[j].floor \in Floors /\ ls[j].expires \in Nat
<1>1. ls \in Seq(LeaseSet) /\ Len(ls) \in Nat
  BY DEF LeasesOK
<1>2. \A j \in 1..Len(ls) : ls[j] \in LeaseSet
  BY <1>1
<1> QED BY <1>1, <1>2 DEF LeasesOK, LeaseSet

\* A window has some allowance.
LEMMA AllowanceNat ==
  ASSUME NEW x \in Floors \X Nat
  PROVE  x[1] \in Floors /\ x[2] \in Nat /\ Allowance[x[1]] \in Nat
BY AdmissionAssumption

\* What leases have reserved in a window is a number.
LEMMA HeldInNat ==
  ASSUME NEW ls, LeasesOK(ls), NEW x
  PROVE  HeldIn(ls, x) \in Nat
<1> DEFINE n == Len(ls)
           f == [j \in 1..n |-> IF ls[j].status = "active" /\ ls[j].window = x
                                  THEN ls[j].allowance ELSE 0]
<1>1. n \in Nat /\ \A j \in 1..n : f[j] \in Nat
  BY LeaseParts
<1> HIDE DEF f, n
<1>2. SumTo(f, n) \in Nat
  BY <1>1, SumToNat
<1> QED BY <1>2 DEF HeldIn, f, n

\* A window inserted on first use agrees with the leases: none of them has it.
LEMMA WithWindowOK ==
  ASSUME NEW ls, LeasesOK(ls), NEW ws, WindowsOK(ls, ws), NEW x \in Floors \X Nat
  PROVE  WindowsOK(ls, WithWindow(ws, x)) /\ x \in DOMAIN WithWindow(ws, x)
<1> DEFINE w == WithWindow(ws, x)
           new == [reserved |-> 0, consumed |-> 0]
<1>1. /\ DOMAIN w = DOMAIN ws \cup {x}
      /\ \A y \in DOMAIN ws : w[y] = ws[y]
      /\ x \notin DOMAIN ws => w[x] = new
  BY DEF WithWindow
<1> HIDE DEF w
<1>2. ASSUME x \notin DOMAIN ws PROVE WindowOK(ls, x, new)
  <2> DEFINE n == Len(ls)
             f == [j \in 1..n |-> IF ls[j].status = "active" /\ ls[j].window = x
                                    THEN ls[j].allowance ELSE 0]
  <2>1. n \in Nat /\ \A j \in 1..n : f[j] = 0
    BY <1>2, LeaseParts DEF WindowsOK
  <2> HIDE DEF f, n
  <2>2. SumTo(f, n) = 0
    BY <2>1, SumToNone
  <2>3. HeldIn(ls, x) = 0
    BY <2>2 DEF HeldIn, f, n
  <2> QED BY <2>3, AllowanceNat DEF WindowOK
<1>3. WindowsOK(ls, w)
  BY <1>1, <1>2 DEF WindowsOK
<1> QED BY <1>1, <1>3 DEF w

\* Taking from a window what its plan still includes keeps it.
LEMMA TakenOK ==
  ASSUME NEW ls, NEW ws, WindowsOK(ls, ws), NEW period, NEW free \in Nat
  PROVE  WindowsOK(ls, Taken(ws, period, free))
<1> DEFINE w == Taken(ws, period, free)
<1>1. /\ DOMAIN w = DOMAIN ws
      /\ \A x \in DOMAIN ws :
           \/ w[x] = ws[x]
           \/ /\ w[x] = [ws[x] EXCEPT !.consumed = ws[x].consumed + free]
              /\ ws[x].consumed + ws[x].reserved + free <= Allowance[x[1]]
  BY DEF Taken
<1> HIDE DEF w
<1>2. ASSUME NEW x \in DOMAIN ws PROVE WindowOK(ls, x, w[x])
  <2>1. WindowOK(ls, x, ws[x]) /\ x \in Floors \X Nat
    BY DEF WindowsOK
  <2>2. Allowance[x[1]] \in Nat
    BY <2>1, AllowanceNat
  <2> QED BY <1>1, <2>1, <2>2 DEF WindowOK
<1>3. WindowsOK(ls, w)
  BY <1>1, <1>2 DEF WindowsOK
<1> QED BY <1>3 DEF w

\* Putting back no more than was consumed keeps it.
LEMMA PutBackOK ==
  ASSUME NEW ls, NEW ws, WindowsOK(ls, ws), NEW period, NEW free \in Nat
  PROVE  WindowsOK(ls, PutBack(ws, period, free))
<1> DEFINE w == PutBack(ws, period, free)
<1>1. /\ DOMAIN w = DOMAIN ws
      /\ \A x \in DOMAIN ws :
           \/ w[x] = ws[x]
           \/ /\ w[x] = [ws[x] EXCEPT !.consumed = ws[x].consumed - free]
              /\ ws[x].consumed >= free
  BY DEF PutBack
<1> HIDE DEF w
<1>2. ASSUME NEW x \in DOMAIN ws PROVE WindowOK(ls, x, w[x])
  <2>1. WindowOK(ls, x, ws[x]) /\ x \in Floors \X Nat
    BY DEF WindowsOK
  <2>2. Allowance[x[1]] \in Nat
    BY <2>1, AllowanceNat
  <2> QED BY <1>1, <2>1, <2>2 DEF WindowOK
<1>3. WindowsOK(ls, w)
  BY <1>1, <1>2 DEF WindowsOK
<1> QED BY <1>3 DEF w

\* The leases after some of them ended: the rest keep what they have.
LEMMA WithStatusParts ==
  ASSUME LeasesOK(leases), NEW S, NEW st, st \in {"settled", "released", "expired"}
  PROVE  LET ls == WithStatus(S, st)
         IN  /\ LeasesOK(ls)
             /\ Len(ls) = Len(leases)
             /\ \A j \in 1..Len(leases) :
                  /\ ls[j].window = leases[j].window
                  /\ ls[j].allowance = leases[j].allowance
                  /\ ls[j].amount = leases[j].amount
                  /\ ls[j].expires = leases[j].expires
                  /\ ls[j].status = IF j \in S THEN st ELSE leases[j].status
                  /\ j \notin S => ls[j] = leases[j]
<1> DEFINE ls == WithStatus(S, st)
           n == Len(leases)
<1>1. n \in Nat /\ \A j \in 1..n : leases[j] \in LeaseSet
  BY LeaseParts
<1>2. ASSUME NEW j \in 1..n
      PROVE  /\ ls[j] \in LeaseSet
             /\ ls[j].window = leases[j].window
             /\ ls[j].allowance = leases[j].allowance
             /\ ls[j].amount = leases[j].amount
             /\ ls[j].expires = leases[j].expires
             /\ ls[j].status = IF j \in S THEN st ELSE leases[j].status
             /\ j \notin S => ls[j] = leases[j]
  <2>1. ls[j] = IF j \in S THEN [leases[j] EXCEPT !.status = st] ELSE leases[j]
    BY DEF WithStatus
  <2> HIDE DEF ls
  <2> QED BY <1>1, <2>1 DEF LeaseSet
<1>3. ls = [j \in 1..n |-> ls[j]]
  BY DEF WithStatus
<1> HIDE DEF ls
<1>4. ls \in [1..n -> LeaseSet]
  BY <1>2, <1>3
<1>5. ls \in Seq(LeaseSet) /\ Len(ls) = n
  BY <1>1, <1>4, FunIsSeq
<1>6. LeasesOK(ls)
  BY <1>2, <1>5, LeaseParts DEF LeasesOK
<1> QED BY <1>2, <1>5, <1>6 DEF ls

\* Active leases that end take out of a window what they reserved in it.
LEMMA HeldInEnded ==
  ASSUME LeasesOK(leases), NEW S, S \subseteq ActiveLeases, NEW x,
         NEW st, st \in {"settled", "released", "expired"}
  PROVE  /\ HeldIn(WithStatus(S, st), x) = HeldIn(leases, x) - ReservedBy(S, x)
         /\ HeldIn(leases, x) \in Nat
         /\ ReservedBy(S, x) \in Nat
         /\ HeldIn(WithStatus(S, st), x) \in Nat
<1> DEFINE n == Len(leases)
           ls == WithStatus(S, st)
           f == [j \in 1..n |-> IF leases[j].status = "active" /\ leases[j].window = x
                                  THEN leases[j].allowance ELSE 0]
           g == [j \in 1..n |-> IF j \in S /\ leases[j].window = x
                                  THEN leases[j].allowance ELSE 0]
           h == [j \in 1..n |-> IF ls[j].status = "active" /\ ls[j].window = x
                                  THEN ls[j].allowance ELSE 0]
<1>1. n \in Nat /\ \A j \in 1..n : leases[j].allowance \in Nat
  BY LeaseParts
<1>2. /\ LeasesOK(ls) /\ Len(ls) = n
      /\ \A j \in 1..n : /\ ls[j].window = leases[j].window
                         /\ ls[j].allowance = leases[j].allowance
                         /\ ls[j].status = IF j \in S THEN st ELSE leases[j].status
  BY WithStatusParts
<1> HIDE DEF ls
<1>3. \A j \in S : leases[j].status = "active"
  BY DEF ActiveLeases
<1>4. ASSUME NEW j \in 1..n
      PROVE  f[j] \in Nat /\ g[j] \in Nat /\ h[j] = f[j] - g[j]
  <2>1. CASE j \in S
    BY <1>1, <1>2, <1>3, <2>1
  <2>2. CASE j \notin S
    BY <1>1, <1>2, <2>2
  <2> QED BY <2>1, <2>2
<1> HIDE DEF f, g, h
<1>5. SumTo(h, n) = SumTo(f, n) - SumTo(g, n)
  <2>1. \A j \in 1..n : f[j] \in Int /\ g[j] \in Int /\ h[j] = f[j] - g[j]
    BY <1>4
  <2> QED BY <1>1, <2>1, SumToMinus
<1>6. SumTo(g, n) \in Nat
  BY <1>1, <1>4, SumToNat
<1>7. /\ HeldIn(ls, x) = SumTo(h, n)
      /\ HeldIn(leases, x) = SumTo(f, n)
      /\ ReservedBy(S, x) = SumTo(g, n)
  BY <1>2 DEF HeldIn, ReservedBy, f, g, h
<1>8. HeldIn(ls, x) \in Nat /\ HeldIn(leases, x) \in Nat
  BY <1>2, HeldInNat
<1> QED BY <1>5, <1>6, <1>7, <1>8 DEF ls

\* Ending active leases gives each reservation back once, and never raises.
LEMMA EndedOK ==
  ASSUME LeasesOK(leases), WindowsOK(leases, windows), NEW S, S \subseteq ActiveLeases,
         NEW st, st \in {"settled", "released", "expired"}
  PROVE  /\ WindowsOK(WithStatus(S, st), Released(S))
         /\ CanRelease(S)
         /\ DOMAIN Released(S) = DOMAIN windows
         /\ \A x \in DOMAIN windows : Released(S)[x].consumed = windows[x].consumed
<1> DEFINE ls == WithStatus(S, st)
           w == Released(S)
<1>1. /\ DOMAIN w = DOMAIN windows
      /\ \A x \in DOMAIN windows :
           w[x] = [windows[x] EXCEPT !.reserved = windows[x].reserved - ReservedBy(S, x)]
  BY DEF Released
<1>2. \A x : /\ HeldIn(ls, x) = HeldIn(leases, x) - ReservedBy(S, x)
             /\ HeldIn(leases, x) \in Nat /\ ReservedBy(S, x) \in Nat /\ HeldIn(ls, x) \in Nat
  BY HeldInEnded
<1>3. /\ Len(ls) = Len(leases)
      /\ \A j \in 1..Len(leases) : ls[j].window = leases[j].window
  BY WithStatusParts
<1> HIDE DEF w, ls
<1>4. ASSUME NEW x \in DOMAIN windows
      PROVE  /\ WindowOK(ls, x, w[x])
             /\ ReservedBy(S, x) <= windows[x].reserved
             /\ w[x].consumed = windows[x].consumed
  <2>1. WindowOK(leases, x, windows[x]) /\ x \in Floors \X Nat
    BY DEF WindowsOK
  <2>2. Allowance[x[1]] \in Nat
    BY <2>1, AllowanceNat
  <2> QED BY <1>1, <1>2, <2>1, <2>2 DEF WindowOK
<1>5. WindowsOK(ls, w)
  BY <1>1, <1>3, <1>4 DEF WindowsOK
<1> QED BY <1>1, <1>4, <1>5 DEF w, ls, CanRelease

\* A new lease reserves in its window what the plan still includes.
LEMMA LeasedOK ==
  ASSUME NEW ls, LeasesOK(ls), NEW ws, WindowsOK(ls, ws),
         NEW l, l \in LeaseSet, l.status = "active", l.allowance <= l.amount,
         l.window \in DOMAIN ws,
         ws[l.window].reserved + ws[l.window].consumed + l.allowance
           <= Allowance[l.window[1]]
  PROVE  LET x == l.window
         IN  /\ LeasesOK(Append(ls, l))
             /\ WindowsOK(Append(ls, l),
                          [ws EXCEPT ![x].reserved = ws[x].reserved + l.allowance])
<1> DEFINE n == Len(ls)
           ms == Append(ls, l)
           x == l.window
           w == [ws EXCEPT ![x].reserved = ws[x].reserved + l.allowance]
<1>1. /\ n \in Nat /\ ls \in Seq(LeaseSet)
      /\ \A j \in 1..n : ls[j].allowance \in Nat
  BY LeaseParts DEF LeasesOK
<1>2. /\ ms \in Seq(LeaseSet) /\ Len(ms) = n + 1 /\ ms[n+1] = l
      /\ \A j \in 1..n : ms[j] = ls[j]
      /\ \A j \in 1..(n+1) : j \in 1..n \/ j = n + 1
  BY <1>1
<1>3. /\ DOMAIN w = DOMAIN ws
      /\ w[x] = [ws[x] EXCEPT !.reserved = ws[x].reserved + l.allowance]
      /\ \A y \in DOMAIN ws : y # x => w[y] = ws[y]
  OBVIOUS
<1>4. l.allowance \in Nat
  BY DEF LeaseSet
<1> HIDE DEF ms, w
<1>5. LeasesOK(ms)
  BY <1>2 DEF LeasesOK
<1>6. ASSUME NEW y
      PROVE  HeldIn(ms, y) = HeldIn(ls, y) + (IF y = x THEN l.allowance ELSE 0)
  <2> DEFINE f == [j \in 1..n |-> IF ls[j].status = "active" /\ ls[j].window = y
                                    THEN ls[j].allowance ELSE 0]
             g == [j \in 1..(n+1) |-> IF ms[j].status = "active" /\ ms[j].window = y
                                        THEN ms[j].allowance ELSE 0]
  <2>1. \A j \in 1..n : g[j] = f[j]
    BY <1>1, <1>2
  <2>2. g[n+1] = IF y = x THEN l.allowance ELSE 0
    <3>1. n + 1 \in 1..(n+1)
      BY <1>1
    <3> QED BY <1>2, <3>1
  <2> HIDE DEF f, g
  <2>3. SumTo(g, n) = SumTo(f, n)
    BY <1>1, <2>1, SumToEqual
  <2>4. SumTo(g, n + 1) = SumTo(g, n) + g[n + 1]
    BY <1>1, SumToStep
  <2>5. HeldIn(ms, y) = SumTo(g, n + 1) /\ HeldIn(ls, y) = SumTo(f, n)
    BY <1>2 DEF HeldIn, f, g
  <2> QED BY <2>2, <2>3, <2>4, <2>5
<1>7. ASSUME NEW y \in DOMAIN ws PROVE WindowOK(ms, y, w[y])
  <2>1. WindowOK(ls, y, ws[y]) /\ y \in Floors \X Nat
    BY DEF WindowsOK
  <2>2. Allowance[y[1]] \in Nat
    BY <2>1, AllowanceNat
  <2>3. CASE y = x
    <3>1. HeldIn(ms, y) = HeldIn(ls, y) + l.allowance
      BY <1>6, <2>3
    <3> QED BY <1>3, <1>4, <2>1, <2>2, <2>3, <3>1 DEF WindowOK
  <2>4. CASE y # x
    <3>1. HeldIn(ms, y) = HeldIn(ls, y)
      BY <1>6, <2>1, <2>4 DEF WindowOK
    <3> QED BY <1>3, <2>1, <2>4, <3>1 DEF WindowOK
  <2> QED BY <2>3, <2>4
<1>8. WindowsOK(ms, w)
  BY <1>2, <1>3, <1>7 DEF WindowsOK
<1> QED BY <1>5, <1>8 DEF ms, w

\* Consuming in one window what its plan still includes keeps them all.
LEMMA ConsumedOK ==
  ASSUME NEW ls, NEW ws, WindowsOK(ls, ws), NEW x \in DOMAIN ws, NEW c \in Nat,
         ws[x].reserved + c <= Allowance[x[1]]
  PROVE  WindowsOK(ls, [ws EXCEPT ![x].consumed = c])
<1> DEFINE w == [ws EXCEPT ![x].consumed = c]
<1>1. /\ DOMAIN w = DOMAIN ws
      /\ w[x] = [ws[x] EXCEPT !.consumed = c]
      /\ \A y \in DOMAIN ws : y # x => w[y] = ws[y]
  OBVIOUS
<1> HIDE DEF w
<1>2. WindowOK(ls, x, w[x])
  <2>1. WindowOK(ls, x, ws[x])
    BY DEF WindowsOK
  <2> QED BY <1>1, <2>1 DEF WindowOK
<1>3. WindowsOK(ls, w)
  BY <1>1, <1>2 DEF WindowsOK
<1> QED BY <1>3 DEF w

\* Renewal changes when a lease expires, and nothing a window knows of it.
LEMMA RenewedOK ==
  ASSUME NEW ls, LeasesOK(ls), NEW ws, WindowsOK(ls, ws), NEW i \in 1..Len(ls),
         NEW u \in Nat
  PROVE  LET ms == [ls EXCEPT ![i].expires = u]
         IN  /\ LeasesOK(ms) /\ WindowsOK(ms, ws) /\ Len(ms) = Len(ls)
             /\ \A j \in 1..Len(ls) : ms[j].status = ls[j].status
<1> DEFINE ms == [ls EXCEPT ![i].expires = u]
           n == Len(ls)
<1>1. n \in Nat /\ ls \in Seq(LeaseSet) /\ \A j \in 1..n : ls[j] \in LeaseSet
  BY LeaseParts DEF LeasesOK
<1>2. /\ ms[i] = [ls[i] EXCEPT !.expires = u]
      /\ \A j \in 1..n : j # i => ms[j] = ls[j]
  BY <1>1
<1>2a. [ls[i] EXCEPT !.expires = u] \in LeaseSet
  BY <1>1 DEF LeaseSet
<1>3. ms \in Seq(LeaseSet) /\ Len(ms) = n
  <2> DEFINE l == [ls[i] EXCEPT !.expires = u]
  <2>1. ms = [ls EXCEPT ![i] = l]
    OBVIOUS
  <2> HIDE DEF l, ms
  <2>2. l \in LeaseSet
    BY <1>2a DEF l
  <2> QED BY <1>1, <2>1, <2>2
<1> HIDE DEF ms
<1>4. ASSUME NEW j \in 1..n
      PROVE  /\ ms[j].window = ls[j].window
             /\ ms[j].allowance = ls[j].allowance
             /\ ms[j].amount = ls[j].amount
             /\ ms[j].status = ls[j].status
  <2>1. CASE j = i
    <3>1. ls[i] \in LeaseSet
      BY <1>1
    <3> QED BY <1>2, <2>1, <3>1 DEF LeaseSet
  <2>2. CASE j # i
    BY <1>2, <2>2
  <2> QED BY <2>1, <2>2
<1>5. LeasesOK(ms)
  BY <1>3, <1>4 DEF LeasesOK
<1>6. \A x : HeldIn(ms, x) = HeldIn(ls, x)
  <2> TAKE x
  <2> DEFINE f == [j \in 1..n |-> IF ls[j].status = "active" /\ ls[j].window = x
                                    THEN ls[j].allowance ELSE 0]
             g == [j \in 1..n |-> IF ms[j].status = "active" /\ ms[j].window = x
                                    THEN ms[j].allowance ELSE 0]
  <2>1. f = g
    BY <1>4
  <2> QED BY <1>3, <2>1 DEF HeldIn
<1>7. WindowsOK(ms, ws)
  BY <1>3, <1>4, <1>6 DEF WindowsOK, WindowOK
<1> QED BY <1>3, <1>4, <1>5, <1>7 DEF ms
-----------------------------------------------------------------------------
(* Holds and cover *)

\* What the other leases hold at a time is a number, and more of it is held at
\* an earlier time.
LEMMA HeldExceptParts ==
  ASSUME NEW ls, LeasesOK(ls), NEW t \in Int, NEW u \in Int, t <= u, NEW i
  PROVE  /\ HeldExcept(ls, t, i) \in Nat
         /\ HeldExcept(ls, u, i) \in Nat
         /\ HeldExcept(ls, u, i) <= HeldExcept(ls, t, i)
<1> DEFINE n == Len(ls)
           f == [j \in 1..n |-> IF j # i /\ IsHolding(ls[j], t) THEN Hold(ls[j]) ELSE 0]
           g == [j \in 1..n |-> IF j # i /\ IsHolding(ls[j], u) THEN Hold(ls[j]) ELSE 0]
           h == [j \in 1..n |-> f[j] - g[j]]
<1>1. n \in Nat /\ \A j \in 1..n : Hold(ls[j]) \in Nat /\ ls[j].expires \in Nat
  BY LeaseParts DEF Hold
<1>2. \A j \in 1..n : IsHolding(ls[j], u) => IsHolding(ls[j], t)
  BY <1>1 DEF IsHolding
<1>3. \A j \in 1..n : f[j] \in Nat /\ g[j] \in Nat /\ g[j] <= f[j]
  BY <1>1, <1>2
<1> HIDE DEF f, g
<1>4. \A j \in 1..n : f[j] \in Int /\ g[j] \in Int /\ h[j] = f[j] - g[j] /\ h[j] \in Nat
  BY <1>3
<1> HIDE DEF h
<1>5. SumTo(h, n) \in Nat /\ SumTo(f, n) \in Nat /\ SumTo(g, n) \in Nat
  BY <1>1, <1>3, <1>4, SumToNat
<1>6. SumTo(h, n) = SumTo(f, n) - SumTo(g, n)
  BY <1>1, <1>4, SumToMinus
<1>7. HeldExcept(ls, t, i) = SumTo(f, n) /\ HeldExcept(ls, u, i) = SumTo(g, n)
  BY DEF HeldExcept, f, g
<1> QED BY <1>5, <1>6, <1>7

\* Credit ahead of the allowance is a number.
LEMMA CreditBeforeNat ==
  ASSUME acct \in AccountSet, LeasesOK(leases), NEW t \in Int, NEW i
  PROVE  CreditBeforeAllowance(t, i) \in Nat
<1> DEFINE n == NumLots(acct)
           f == [l \in 1..n |-> IF /\ acct.lots[l].expires > t
                                   /\ Priority[acct.lots[l].bucket] < AllowancePriority
                                  THEN Rem(acct, l) ELSE 0]
<1>1. n \in Nat /\ \A l \in 1..n : f[l] \in Int
  BY AccountParts
<1> HIDE DEF f
<1>2. SumTo(f, n) \in Int
  BY <1>1, SumToInt
<1>3. HeldExcept(leases, t, i) \in Nat
  BY HeldExceptParts
<1>4. CreditBeforeAllowance(t, i) = Greatest(SumTo(f, n) - HeldExcept(leases, t, i), 0)
  BY DEF CreditBeforeAllowance, f
<1> QED BY <1>2, <1>3, <1>4 DEF Greatest

\* What the allowance covers is part of the amount and of the room.
LEMMA CoveredParts ==
  ASSUME NEW amount \in Nat, NEW room \in Int, NEW before \in Nat
  PROVE  /\ Covered(amount, room, before) \in Nat
         /\ Covered(amount, room, before) <= amount
         /\ Covered(amount, room, before) <= Greatest(room, 0)
BY DEF Covered, Least, Greatest

-----------------------------------------------------------------------------
(* Charges *)

\* What a charge was not given free.
Net(c) == c.requested - c.covered

\* Leases and charges: the settled leases are those that have a charge, and each
\* has one.
LeasesCharged(cs, ls) ==
  /\ \A c \in 1..Len(cs) : cs[c].lease # 0 =>
       cs[c].lease \in 1..Len(ls) /\ ls[cs[c].lease].status = "settled"
  /\ \A c, d \in 1..Len(cs) : (cs[c].lease = cs[d].lease /\ cs[c].lease # 0) => c = d
  /\ \A i \in 1..Len(ls) : ls[i].status = "settled" =>
       \E c \in 1..Len(cs) : cs[c].lease = i

\* Charges and ledger: the key of a charge posted its net amount, if there is
\* one, and keys of later charges are free.
ChargesPosted(cs, b) ==
  /\ \A c \in 1..Len(cs) :
       /\ cs[c].covered <= cs[c].requested
       /\ Net(cs[c]) = 0 => ~KeyUsed(b, UsageLedgerKey(c))
       /\ Net(cs[c]) > 0 => \E i \in 1..Len(b.entries) :
            b.entries[i].key = UsageLedgerKey(c) /\ b.entries[i].amount = -Net(cs[c])
  /\ \A c \in Nat : c > Len(cs) => ~KeyUsed(b, UsageLedgerKey(c))

\* The minimum balance a request is held to.
FloorOf(f) == IF f = NoFloor THEN policyMin ELSE f

\* c is the account after the n-th charge posted net, with held left above the
\* minimum.
UsagePosted(c, n, net, floor, held) ==
  \E b \in AccountSet, e \in EntrySet, lots \in Seq(LotSet) :
    /\ Grew(acct, b)
    /\ c = Posted(b, e, lots)
    /\ e.kind = "usage" /\ e.key = UsageLedgerKey(n)
    /\ e.amount = -net /\ e.req.floor = floor
    /\ b.balance - net - held >= FloorOf(floor)

\* The keys of charges are keys of their own.
LEMMA UsageKeys ==
  ASSUME NEW n \in Nat
  PROVE  /\ UsageLedgerKey(n) \in KeySet
         /\ \A l \in Nat : UsageLedgerKey(n) # ExpiryKey(l)
         /\ \A m \in Nat : UsageLedgerKey(n) = UsageLedgerKey(m) => n = m
<1>1. UsageLedgerKey(n) \in KeySet
  BY DEF UsageLedgerKey, KeySet
<1>2. \A l \in Nat : UsageLedgerKey(n) # ExpiryKey(l)
  BY DEF UsageLedgerKey, ExpiryKey
<1>3. \A m \in Nat : UsageLedgerKey(n) = UsageLedgerKey(m) => n = m
  BY DEF UsageLedgerKey
<1> QED BY <1>1, <1>2, <1>3

\* Requests of usage charges are well typed.
LEMMA UsageRequestTyped ==
  ASSUME NEW net \in Nat, NEW floor \in Int
  PROVE  LET r == UsageRequest(net, floor)
         IN  r \in RequestSet /\ r.amount = net /\ r.kind = "usage" /\ r.floor = floor
<1>1. "usage" \in Kinds /\ "usage" \in OperationNames
  BY DEF Kinds, OperationNames
<1>2. DefaultBucket \in Buckets \cup {NoBucket} /\ NoEntry \in Nat
  BY CatalogAssumption DEF NoEntry
<1>3. UsageRequest(net, floor) \in RequestSet
  BY <1>1, <1>2, NoExpiryNat, RequestTyped DEF UsageRequest
<1> QED BY <1>3 DEF UsageRequest, Request

\* What a charge does to the account: nothing when it is covered, expiries when
\* it is refused, expiries and its entry when it is posted.
LEMMA ChargeOutcomeParts ==
  ASSUME Sound(acct), Explained(acct), policyMin \in Floors, NEW t, NEW net \in Nat,
         NEW floor \in Int, NEW held \in Int, Len(charges) \in Nat,
         ~KeyUsed(acct, UsageLedgerKey(Len(charges) + 1)),
         NEW o \in ChargeOutcomes(t, net, floor, held)
  PROVE  /\ Sound(o.acct) /\ Explained(o.acct)
         /\ o.error # "ok" => Grew(acct, o.acct)
         /\ (o.error = "ok" /\ net = 0) => o.acct = acct
         /\ (o.error = "ok" /\ net # 0)
              => UsagePosted(o.acct, Len(charges) + 1, net, floor, held)
<1>1. CASE net = 0
  <2>1. o = [acct |-> acct, error |-> "ok"]
    BY <1>1 DEF ChargeOutcomes
  <2> QED BY <1>1, <2>1
<1>2. CASE net # 0
  <2> DEFINE n == Len(charges) + 1
             key == UsageLedgerKey(n)
             r == UsageRequest(net, floor)
  <2>1. PICK b \in AfterExpiry(acct, t) : o = DebitOutcome(b, t, key, r, held)
    BY <1>2 DEF ChargeOutcomes
  <2>2. n \in Nat /\ key \in KeySet /\ \A l \in Nat : key # ExpiryKey(l)
    BY UsageKeys
  <2>3. r \in RequestSet /\ r.amount = net /\ r.kind = "usage" /\ r.floor = floor
    BY UsageRequestTyped
  <2>4. ~KeyUsed(acct, key)
    OBVIOUS
  <2> HIDE DEF key, r
  <2>5. Sound(b) /\ Explained(b) /\ Grew(acct, b) /\ ~KeyUsed(b, key)
    BY <2>2, <2>4, AfterExpirySound, AfterExpiryExplained
  <2>6. /\ o.error = DebitError(b, r, t, held)
        /\ o.acct = IF o.error = "ok" THEN Debited(b, r, key, t) ELSE b
    BY <2>1 DEF DebitOutcome
  <2>7. r.amount > 0 /\ r.kind # "refund" /\ r.kind # "refund_clawback"
    BY <1>2, <2>3
  <2>8. Sound(Debited(b, r, key, t)) /\ Explained(Debited(b, r, key, t))
    BY <2>2, <2>3, <2>5, <2>7, DebitedSound, DebitedExplained
  <2>9. ASSUME o.error = "ok" PROVE UsagePosted(o.acct, n, net, floor, held)
    <3> DEFINE take == Fill(Spendable(b, t, DebitBucket(r)), SpendRank(b), r.amount, NumLots(b))
               e == Entry(b, -r.amount, key, r, NoEntry, take,
                          r.amount - SumTo(take, NumLots(b)))
               lots == Consumed(b, take)
               p == Posted(b, e, lots)
    <3>1. o.acct = p
      BY <2>6, <2>9 DEF Debited
    <3>2. e.kind = r.kind /\ e.key = key /\ e.amount = -r.amount /\ e.req = r
      BY DEF Entry
    <3>3. p.lots = lots /\ p.entries = Append(b.entries, e)
      BY DEF Posted
    <3>4. Sound(p)
      BY <2>6, <2>8, <2>9, <3>1
    <3> HIDE DEF e, lots
    <3>5. b \in AccountSet /\ b.balance \in Int /\ p \in AccountSet
      BY <2>5, <3>4, AccountParts DEF Sound
    <3>6. lots \in Seq(LotSet)
      BY <3>3, <3>5, AccountParts
    <3>7. e \in EntrySet
      <4>1. p.entries[Len(b.entries) + 1] = e /\ Len(p.entries) = Len(b.entries) + 1
              /\ Len(b.entries) \in Nat
        BY <3>5, PostedParts
      <4>2. Len(b.entries) + 1 \in 1..Len(p.entries)
        BY <4>1
      <4> HIDE DEF p
      <4> QED BY <3>5, <4>1, <4>2, AccountParts
    <3>8. b.balance - net - held >= FloorOf(floor)
      <4>1. DebitError(b, r, t, held) = "ok"
        BY <2>6, <2>9
      <4>2. ~(b.balance - r.amount - held < Floor(r))
        BY <2>3, <4>1 DEF DebitError
      <4>3. Floor(r) = FloorOf(floor)
        BY <2>3 DEF Floor, FloorOf
      <4>4. FloorOf(floor) \in Int
        BY CatalogAssumption DEF FloorOf
      <4> QED BY <2>3, <3>5, <4>2, <4>3, <4>4
    <3> QED BY <2>3, <2>5, <3>1, <3>2, <3>5, <3>6, <3>7, <3>8 DEF UsagePosted, key
  <2> QED BY <1>2, <2>5, <2>6, <2>8, <2>9
<1> QED BY <1>1, <1>2

\* Keys of charges are used in an account that grew if they were before.
LEMMA GrewKeys ==
  ASSUME NEW b \in AccountSet, NEW d \in AccountSet, Grew(b, d), NEW n \in Nat,
         ~KeyUsed(b, UsageLedgerKey(n))
  PROVE  ~KeyUsed(d, UsageLedgerKey(n))
<1>1. Len(b.entries) \in Nat /\ Len(d.entries) \in Nat
  BY AccountParts
<1>2. ASSUME NEW i \in 1..Len(d.entries) PROVE d.entries[i].key # UsageLedgerKey(n)
  <2>1. CASE i <= Len(b.entries)
    <3>1. i \in 1..Len(b.entries)
      BY <1>1, <2>1
    <3> QED BY <3>1 DEF Grew, KeyUsed
  <2>2. CASE i > Len(b.entries)
    BY <2>2 DEF Grew, Quiet
  <2> QED BY <1>1, <2>1, <2>2
<1> QED BY <1>2 DEF KeyUsed

\* A ledger call, or a refused charge, changes nothing of what charges posted.
LEMMA GrewPosted ==
  ASSUME NEW b \in AccountSet, NEW d \in AccountSet, Grew(b, d),
         NEW cs, ChargesPosted(cs, b), Len(cs) \in Nat
  PROVE  ChargesPosted(cs, d)
<1>1. Len(b.entries) \in Nat /\ Len(d.entries) \in Nat
  BY AccountParts
<1>2. ASSUME NEW c \in Nat, ~KeyUsed(b, UsageLedgerKey(c)) PROVE ~KeyUsed(d, UsageLedgerKey(c))
  BY <1>2, GrewKeys
<1>3. ASSUME NEW c \in 1..Len(cs), Net(cs[c]) > 0
      PROVE  \E i \in 1..Len(d.entries) :
               d.entries[i].key = UsageLedgerKey(c) /\ d.entries[i].amount = -Net(cs[c])
  <2>1. PICK i \in 1..Len(b.entries) :
          b.entries[i].key = UsageLedgerKey(c) /\ b.entries[i].amount = -Net(cs[c])
    BY <1>3 DEF ChargesPosted
  <2>2. i \in 1..Len(d.entries) /\ d.entries[i] = b.entries[i]
    BY <1>1 DEF Grew
  <2> QED BY <2>1, <2>2
<1>4. \A c \in 1..Len(cs) : c \in Nat
  OBVIOUS
<1> QED BY <1>2, <1>3, <1>4 DEF ChargesPosted

\* A charge that the allowance covered posts nothing.
LEMMA CoveredPosted ==
  ASSUME NEW cs \in Seq(ChargeSet), NEW b, ChargesPosted(cs, b), NEW c \in ChargeSet,
         c.covered <= c.requested, Net(c) = 0
  PROVE  ChargesPosted(Append(cs, c), b)
<1> DEFINE ds == Append(cs, c)
           n == Len(cs)
<1>1. /\ n \in Nat /\ Len(ds) = n + 1 /\ ds[n+1] = c
      /\ \A i \in 1..n : ds[i] = cs[i]
      /\ \A i \in 1..(n+1) : i \in 1..n \/ i = n + 1
  OBVIOUS
<1> HIDE DEF ds
<1>2. ~KeyUsed(b, UsageLedgerKey(n + 1))
  BY <1>1 DEF ChargesPosted
<1>3. \A m \in Nat : m > n + 1 => m > n
  BY <1>1
<1>4. ~(Net(c) > 0)
  OBVIOUS
<1>5. ChargesPosted(ds, b)
  BY <1>1, <1>2, <1>3, <1>4 DEF ChargesPosted
<1> QED BY <1>5 DEF ds

\* A charge that was not covered posts its entry, and its key is no other's.
LEMMA UncoveredPosted ==
  ASSUME acct \in AccountSet, NEW d \in AccountSet, NEW cs \in Seq(ChargeSet),
         ChargesPosted(cs, acct), NEW c \in ChargeSet, c.covered <= c.requested,
         Net(c) # 0, NEW floor, NEW held, UsagePosted(d, Len(cs) + 1, Net(c), floor, held)
  PROVE  ChargesPosted(Append(cs, c), d)
<1> DEFINE ds == Append(cs, c)
           n == Len(cs)
<1>1. /\ n \in Nat /\ Len(ds) = n + 1 /\ ds[n+1] = c
      /\ \A i \in 1..n : ds[i] = cs[i]
      /\ \A i \in 1..(n+1) : i \in 1..n \/ i = n + 1
  OBVIOUS
<1> HIDE DEF ds
<1>2. PICK b \in AccountSet, e \in EntrySet, lots \in Seq(LotSet) :
        /\ Grew(acct, b) /\ d = Posted(b, e, lots)
        /\ e.key = UsageLedgerKey(n + 1) /\ e.amount = -Net(c)
  BY DEF UsagePosted
<1>3. ChargesPosted(cs, b)
  BY <1>1, <1>2, GrewPosted
<1> DEFINE m == Len(b.entries)
<1>4. /\ m \in Nat /\ Len(d.entries) = m + 1 /\ d.entries[m+1] = e
      /\ \A i \in 1..m : d.entries[i] = b.entries[i]
  BY <1>2, PostedParts
<1> HIDE DEF m
<1>4a. m + 1 \in 1..Len(d.entries) /\ \A i \in 1..m : i \in 1..Len(d.entries)
  BY <1>4
<1>5. ASSUME NEW k \in Nat, k # n + 1, ~KeyUsed(b, UsageLedgerKey(k))
      PROVE  ~KeyUsed(d, UsageLedgerKey(k))
  <2>1. UsageLedgerKey(k) # e.key
    BY <1>1, <1>2, <1>5, UsageKeys
  <2> QED BY <1>2, <1>5, <2>1, PostedKeys
<1>6. ASSUME NEW k \in 1..n
      PROVE  /\ cs[k].covered <= cs[k].requested
             /\ Net(cs[k]) = 0 => ~KeyUsed(d, UsageLedgerKey(k))
             /\ Net(cs[k]) > 0 => \E i \in 1..Len(d.entries) :
                  d.entries[i].key = UsageLedgerKey(k) /\ d.entries[i].amount = -Net(cs[k])
  <2>1. k \in Nat /\ k # n + 1
    BY <1>1
  <2>2. ASSUME Net(cs[k]) > 0
        PROVE \E i \in 1..Len(d.entries) :
                d.entries[i].key = UsageLedgerKey(k) /\ d.entries[i].amount = -Net(cs[k])
    <3>1. PICK i \in 1..m :
            b.entries[i].key = UsageLedgerKey(k) /\ b.entries[i].amount = -Net(cs[k])
      BY <1>3, <2>2 DEF ChargesPosted, m
    <3> QED BY <1>4, <1>4a, <3>1
  <2> QED BY <1>3, <1>5, <2>1, <2>2 DEF ChargesPosted
<1>7. ASSUME NEW k \in Nat, k > n + 1 PROVE ~KeyUsed(d, UsageLedgerKey(k))
  <2>1. k > n /\ k # n + 1
    BY <1>1, <1>7
  <2> QED BY <1>3, <1>5, <2>1 DEF ChargesPosted
<1>8. \E i \in 1..Len(d.entries) :
        d.entries[i].key = UsageLedgerKey(n + 1) /\ d.entries[i].amount = -Net(c)
  BY <1>2, <1>4, <1>4a
<1>9. ChargesPosted(ds, d)
  BY <1>1, <1>6, <1>7, <1>8 DEF ChargesPosted
<1> QED BY <1>9 DEF ds

\* Steps that settle no lease keep leases and charges in agreement.
LEMMA ChargedKept ==
  ASSUME NEW cs, NEW ls, NEW ms, Len(ls) \in Nat, Len(ms) \in Nat, LeasesCharged(cs, ls),
         Len(ls) <= Len(ms),
         \A j \in 1..Len(ls) : ms[j].status = "settled" <=> ls[j].status = "settled",
         \A j \in 1..Len(ms) : j > Len(ls) => ms[j].status # "settled"
  PROVE  LeasesCharged(cs, ms)
<1>1. ASSUME NEW c \in 1..Len(cs), cs[c].lease # 0
      PROVE  cs[c].lease \in 1..Len(ms) /\ ms[cs[c].lease].status = "settled"
  <2>1. cs[c].lease \in 1..Len(ls) /\ ls[cs[c].lease].status = "settled"
    BY <1>1 DEF LeasesCharged
  <2> QED BY <2>1
<1>2. ASSUME NEW i \in 1..Len(ms), ms[i].status = "settled"
      PROVE  \E c \in 1..Len(cs) : cs[c].lease = i
  <2>1. i \in 1..Len(ls) /\ ls[i].status = "settled"
    BY <1>2
  <2> QED BY <2>1 DEF LeasesCharged
<1> QED BY <1>1, <1>2 DEF LeasesCharged

\* A direct charge is no lease's.
LEMMA DirectCharged ==
  ASSUME NEW cs \in Seq(ChargeSet), NEW ls, LeasesCharged(cs, ls), NEW c \in ChargeSet,
         c.lease = 0
  PROVE  LeasesCharged(Append(cs, c), ls)
<1> DEFINE ds == Append(cs, c)
           n == Len(cs)
<1>1. /\ n \in Nat /\ Len(ds) = n + 1 /\ ds[n+1] = c
      /\ \A i \in 1..n : ds[i] = cs[i]
      /\ \A i \in 1..(n+1) : i \in 1..n \/ i = n + 1
      /\ \A i \in 1..n : i \in 1..(n+1)
  OBVIOUS
<1> HIDE DEF ds
<1>2. \A i \in 1..Len(ls) : ls[i].status = "settled" => \E k \in 1..Len(ds) : ds[k].lease = i
  <2> TAKE i \in 1..Len(ls)
  <2> HAVE ls[i].status = "settled"
  <2>1. PICK k \in 1..n : cs[k].lease = i
    BY DEF LeasesCharged
  <2> QED BY <1>1, <2>1
<1>3. \A k, m \in 1..Len(ds) : (ds[k].lease = ds[m].lease /\ ds[k].lease # 0) => k = m
  BY <1>1 DEF LeasesCharged
<1>4. \A k \in 1..Len(ds) : ds[k].lease # 0 =>
        ds[k].lease \in 1..Len(ls) /\ ls[ds[k].lease].status = "settled"
  BY <1>1 DEF LeasesCharged
<1>5. LeasesCharged(ds, ls)
  BY <1>2, <1>3, <1>4 DEF LeasesCharged
<1> QED BY <1>5 DEF ds

\* A lease that settles had no charge and gets one.
LEMMA SettledCharged ==
  ASSUME NEW cs \in Seq(ChargeSet), LeasesOK(leases), LeasesCharged(cs, leases),
         NEW i \in 1..Len(leases), leases[i].status = "active",
         NEW c \in ChargeSet, c.lease = i
  PROVE  LeasesCharged(Append(cs, c), WithStatus({i}, "settled"))
<1> DEFINE ds == Append(cs, c)
           n == Len(cs)
           ls == WithStatus({i}, "settled")
<1>1. /\ n \in Nat /\ Len(ds) = n + 1 /\ ds[n+1] = c
      /\ \A k \in 1..n : ds[k] = cs[k]
      /\ \A k \in 1..(n+1) : k \in 1..n \/ k = n + 1
      /\ \A k \in 1..n : k \in 1..(n+1)
      /\ n + 1 \in 1..(n+1)
  OBVIOUS
<1>2. /\ Len(ls) = Len(leases) /\ Len(leases) \in Nat
      /\ \A j \in 1..Len(leases) :
           ls[j].status = IF j \in {i} THEN "settled" ELSE leases[j].status
  BY WithStatusParts, LeaseParts
<1> HIDE DEF ds, ls
<1>3. \A k \in 1..n : cs[k].lease # i
  BY DEF LeasesCharged
<1>4. \A j \in 1..Len(ls) : ls[j].status = "settled" => \E k \in 1..Len(ds) : ds[k].lease = j
  <2> TAKE j \in 1..Len(ls)
  <2> HAVE ls[j].status = "settled"
  <2>1. CASE j = i
    BY <1>1, <2>1
  <2>2. CASE j # i
    <3>1. j \in 1..Len(leases) /\ leases[j].status = "settled"
      BY <1>2, <2>2
    <3>2. PICK k \in 1..n : cs[k].lease = j
      BY <3>1 DEF LeasesCharged
    <3> QED BY <1>1, <3>2
  <2> QED BY <2>1, <2>2
<1>5. \A k, m \in 1..Len(ds) : (ds[k].lease = ds[m].lease /\ ds[k].lease # 0) => k = m
  BY <1>1, <1>3 DEF LeasesCharged
<1>6. \A k \in 1..Len(ds) : ds[k].lease # 0 =>
        ds[k].lease \in 1..Len(ls) /\ ls[ds[k].lease].status = "settled"
  <2> TAKE k \in 1..Len(ds)
  <2> HAVE ds[k].lease # 0
  <2>1. CASE k \in 1..n
    <3>1. cs[k].lease \in 1..Len(leases) /\ leases[cs[k].lease].status = "settled"
      BY <1>1, <2>1 DEF LeasesCharged
    <3> QED BY <1>1, <1>2, <2>1, <3>1
  <2>2. CASE k = n + 1
    BY <1>1, <1>2, <2>2
  <2> QED BY <1>1, <2>1, <2>2
<1>7. LeasesCharged(ds, ls)
  BY <1>4, <1>5, <1>6 DEF LeasesCharged
<1> QED BY <1>7 DEF ds, ls

-----------------------------------------------------------------------------
(* The actions *)

\* The inductive invariant.
UsageInv ==
  /\ IInv
  /\ LeasesOK(leases)
  /\ WindowsOK(leases, windows)
  /\ charges \in Seq(ChargeSet)
  /\ LeasesCharged(charges, leases)
  /\ ChargesPosted(charges, acct)

\* The step of ChargesRespectHolds.
RespectsHolds ==
  \A i \in 1..Len(acct'.entries) :
    (i > Len(acct.entries) /\ acct'.entries[i].kind = "usage")
      => acct'.balance - HeldExcept(leases', now, 0)
           >= LET f == acct'.entries[i].req.floor
              IN  IF f = NoFloor THEN policyMin ELSE f

\* An account that grew has no new usage entry.
LEMMA GrewRespects ==
  ASSUME Grew(acct, acct')
  PROVE  RespectsHolds
BY DEF RespectsHolds, Grew, Quiet

\* The entry of a charge leaves held above the minimum, and so whatever is less.
LEMMA PostedRespects ==
  ASSUME acct \in AccountSet, policyMin \in Floors, NEW n, NEW net \in Nat,
         NEW floor \in Int, NEW held \in Int,
         UsagePosted(acct', n, net, floor, held),
         HeldExcept(leases', now, 0) \in Int, HeldExcept(leases', now, 0) <= held
  PROVE  RespectsHolds
<1>1. PICK b \in AccountSet, e \in EntrySet, lots \in Seq(LotSet) :
        /\ Grew(acct, b) /\ acct' = Posted(b, e, lots)
        /\ e.amount = -net /\ e.req.floor = floor
        /\ b.balance - net - held >= FloorOf(floor)
  BY DEF UsagePosted
<1> DEFINE m == Len(b.entries)
           h == HeldExcept(leases', now, 0)
<1>2. /\ m \in Nat /\ Len(acct'.entries) = m + 1 /\ acct'.entries[m+1] = e
      /\ \A i \in 1..m : acct'.entries[i] = b.entries[i]
      /\ \A i \in 1..(m+1) : i \in 1..m \/ i = m + 1
  BY <1>1, PostedParts
<1>3. acct'.balance = b.balance - net /\ b.balance \in Int
  BY <1>1, AccountParts DEF Posted
<1>4. \A i \in 1..m : i > Len(acct.entries) => b.entries[i].kind # "usage"
  BY <1>1 DEF Grew, Quiet
<1>5. FloorOf(floor) \in Int
  BY CatalogAssumption DEF FloorOf
<1>6. h \in Int /\ h <= held
  OBVIOUS
<1> HIDE DEF h, m
<1>7. acct'.balance - h >= FloorOf(floor)
  BY <1>1, <1>3, <1>5, <1>6
<1>8. acct'.balance - h >= IF e.req.floor = NoFloor THEN policyMin ELSE e.req.floor
  BY <1>1, <1>7 DEF FloorOf
<1>9. ASSUME NEW i \in 1..Len(acct'.entries), i > Len(acct.entries),
             acct'.entries[i].kind = "usage"
      PROVE  i = m + 1
  BY <1>2, <1>4, <1>9
<1>10. ASSUME NEW i \in 1..Len(acct'.entries), i > Len(acct.entries),
              acct'.entries[i].kind = "usage"
       PROVE  acct'.balance - h
                >= IF acct'.entries[i].req.floor = NoFloor
                     THEN policyMin ELSE acct'.entries[i].req.floor
  <2>1. acct'.entries[i] = e
    BY <1>2, <1>9, <1>10
  <2> QED BY <1>8, <2>1
<1> QED BY <1>10 DEF RespectsHolds, h

\* The ledger calls beside charging and leasing.
LEMMA LedgerCallKeeps ==
  ASSUME UsageInv, LedgerCall, UNCHANGED usage
  PROVE  UsageInv' /\ Grew(acct, acct')
<1>1. now \in 0..MaxNow /\ policyMin \in Floors /\ Sound(acct) /\ Explained(acct)
  BY DEF UsageInv, IInv
<1>2. ASSUME UNCHANGED <<now, policyMin>>, Sound(acct'), Explained(acct'), Grew(acct, acct')
      PROVE  IInv' /\ Grew(acct, acct')
  BY <1>1, <1>2 DEF IInv
<1>3. ASSUME UNCHANGED acct PROVE Grew(acct, acct')
  BY <1>1, <1>3, GrewNot DEF Sound
<1>4. ASSUME NEW t \in Stamps, NEW k \in Keys, NEW r \in Grants, PostCredit(t, k, r)
      PROVE  IInv' /\ Grew(acct, acct')
  <2>1. UNCHANGED <<now, policyMin>>
    BY <1>4 DEF PostCredit
  <2>2. r.kind # "usage"
    BY <1>4 DEF Grants, Request
  <2>3. Sound(acct') /\ Explained(acct') /\ Grew(acct, acct')
    BY <1>1, <1>4, <2>2, PostSound
  <2> QED BY <1>2, <2>1, <2>3
<1>5. ASSUME NEW t \in Stamps, NEW k \in Keys, NEW r \in Adjustments,
             PostDebit(t, k, r, HeldExcept(leases, t, 0))
      PROVE  IInv' /\ Grew(acct, acct')
  <2> DEFINE held == HeldExcept(leases, t, 0)
  <2>1. UNCHANGED <<now, policyMin>>
    BY <1>5 DEF PostDebit
  <2>2. r.kind # "usage"
    BY <1>5 DEF Adjustments, Request
  <2>3. PostDebit(t, k, r, held)
    BY <1>5
  <2> HIDE DEF held
  <2>4. Sound(acct') /\ Explained(acct') /\ Grew(acct, acct')
    BY <1>1, <2>2, <2>3, PostSound
  <2> QED BY <1>2, <2>1, <2>4
<1>6. ASSUME NEW t \in Stamps, NEW k \in Keys, NEW e \in 1..Len(acct.entries),
             Refund(t, k, e, 0)
      PROVE  IInv' /\ Grew(acct, acct')
  <2>1. UNCHANGED <<now, policyMin>>
    BY <1>6 DEF Refund
  <2>2. Sound(acct') /\ Explained(acct') /\ Grew(acct, acct')
    BY <1>1, <1>6, RefundSound
  <2> QED BY <1>2, <2>1, <2>2
<1>7. ASSUME NEW k \in Keys, NEW e \in 1..Len(acct.entries), NEW a \in Amounts,
             Clawback(k, e, a)
      PROVE  IInv' /\ Grew(acct, acct')
  <2>1. UNCHANGED <<now, policyMin>>
    BY <1>7 DEF Clawback
  <2>2. Sound(acct') /\ Explained(acct') /\ Grew(acct, acct')
    BY <1>1, <1>7, ClawbackSound
  <2> QED BY <1>2, <2>1, <2>2
<1>8. ASSUME NEW t \in Stamps, NEW limit \in 1..2, Sweep(t, limit)
      PROVE  IInv' /\ Grew(acct, acct')
  <2>1. UNCHANGED <<now, policyMin>>
    BY <1>8 DEF Sweep
  <2>2. Sound(acct') /\ Explained(acct') /\ Grew(acct, acct')
    BY <1>1, <1>8, SweepSound
  <2> QED BY <1>2, <2>1, <2>2
<1>9. ASSUME NEW f \in PlanChanges, AssignPlan(f)
      PROVE  IInv' /\ Grew(acct, acct')
  <2>1. f \in Floors
    BY <1>9, AdmissionAssumption
  <2>2. IInv'
    BY <1>1, <1>9, <2>1 DEF AssignPlan, IInv
  <2>3. UNCHANGED acct
    BY <1>9 DEF AssignPlan
  <2> QED BY <1>3, <2>2, <2>3
<1>10. ASSUME Tick PROVE IInv' /\ Grew(acct, acct')
  <2>1. IInv'
    BY <1>1, <1>10, BoundsAssumption DEF Tick, IInv
  <2>2. UNCHANGED acct
    BY <1>10 DEF Tick
  <2> QED BY <1>3, <2>1, <2>2
<1>11. IInv' /\ Grew(acct, acct')
  BY <1>4, <1>5, <1>6, <1>7, <1>8, <1>9, <1>10 DEF LedgerCall, SweepAny
<1>12. ChargesPosted(charges, acct')
  <2>1. acct \in AccountSet /\ acct' \in AccountSet
    BY <1>1, <1>11 DEF IInv, Sound
  <2>2. Len(charges) \in Nat /\ ChargesPosted(charges, acct)
    BY DEF UsageInv
  <2> QED BY <1>11, <2>1, <2>2, GrewPosted
<1> QED BY <1>11, <1>12 DEF UsageInv, usage

\* Times a call may run at.
LEMMA StampParts ==
  ASSUME now \in 0..MaxNow, NEW t \in Stamps
  PROVE  t \in Nat /\ now \in Nat /\ t <= now
BY BoundsAssumption DEF Stamps

\* The window of the plan in force at a time.
LEMMA CurrentWindowParts ==
  ASSUME policyMin \in Floors, NEW t \in Nat
  PROVE  /\ CurrentWindow(t) \in Floors \X Nat
         /\ CurrentWindow(t)[1] = policyMin
         /\ Allowance[policyMin] \in Nat
<1>1. PeriodOf(t) \in Nat
  BY AdmissionAssumption DEF PeriodOf
<1>2. Allowance[policyMin] \in Nat
  BY AdmissionAssumption
<1> QED BY <1>1, <1>2 DEF CurrentWindow

\* The parts of the invariant that charging and leasing start from.
LEMMA UsageParts ==
  ASSUME UsageInv
  PROVE  /\ now \in 0..MaxNow /\ policyMin \in Floors /\ Sound(acct) /\ Explained(acct)
         /\ acct \in AccountSet /\ LeasesOK(leases) /\ WindowsOK(leases, windows)
         /\ charges \in Seq(ChargeSet) /\ Len(charges) \in Nat /\ Len(leases) \in Nat
         /\ LeasesCharged(charges, leases) /\ ChargesPosted(charges, acct)
         /\ ~KeyUsed(acct, UsageLedgerKey(Len(charges) + 1))
<1>1. /\ now \in 0..MaxNow /\ policyMin \in Floors /\ Sound(acct) /\ Explained(acct)
      /\ LeasesOK(leases) /\ WindowsOK(leases, windows)
      /\ charges \in Seq(ChargeSet)
      /\ LeasesCharged(charges, leases) /\ ChargesPosted(charges, acct)
  BY DEF UsageInv, IInv
<1>2. Len(charges) \in Nat /\ acct \in AccountSet /\ Len(leases) \in Nat
  BY <1>1, LeaseParts DEF Sound
<1>3. ~KeyUsed(acct, UsageLedgerKey(Len(charges) + 1))
  BY <1>1, <1>2 DEF ChargesPosted
<1> QED BY <1>1, <1>2, <1>3

\* A charge of some parts is a charge.
LEMMA ChargeTyped ==
  ASSUME NEW k, NEW requested, NEW covered, NEW windowed, NEW window, NEW leaseNo,
         NEW c, c = Charge(k, requested, covered, windowed, window, leaseNo),
         k \in ChargeKeys, requested \in Nat, covered \in Nat, windowed \in BOOLEAN,
         window \in Floors \X Nat, leaseNo \in Nat
  PROVE  /\ c \in ChargeSet /\ c.lease = leaseNo
         /\ c.requested = requested /\ c.covered = covered
         /\ Net(c) = requested - covered
BY DEF Charge, ChargeSet, Net

\* What an outcome of a charge makes of the ledger and the list of charges.
LEMMA OutcomeKeeps ==
  ASSUME UsageInv, NEW t, NEW c \in ChargeSet, c.covered <= c.requested,
         NEW floor \in Int, NEW held \in Int,
         NEW o \in ChargeOutcomes(t, Net(c), floor, held),
         acct' = o.acct, UNCHANGED <<now, policyMin>>,
         o.error = "ok" => /\ HeldExcept(leases', now, 0) \in Int
                           /\ HeldExcept(leases', now, 0) <= held
  PROVE  /\ IInv' /\ RespectsHolds
         /\ o.error # "ok" => ChargesPosted(charges, acct')
         /\ o.error = "ok" => ChargesPosted(Append(charges, c), acct')
<1>1. /\ now \in 0..MaxNow /\ policyMin \in Floors /\ Sound(acct) /\ Explained(acct)
      /\ acct \in AccountSet /\ charges \in Seq(ChargeSet) /\ Len(charges) \in Nat
      /\ ChargesPosted(charges, acct)
      /\ ~KeyUsed(acct, UsageLedgerKey(Len(charges) + 1))
  BY UsageParts
<1> DEFINE net == Net(c)
<1>2. net \in Nat
  BY DEF Net, ChargeSet
<1>3. /\ Sound(o.acct) /\ Explained(o.acct)
      /\ o.error # "ok" => Grew(acct, o.acct)
      /\ (o.error = "ok" /\ net = 0) => o.acct = acct
      /\ (o.error = "ok" /\ net # 0)
           => UsagePosted(o.acct, Len(charges) + 1, net, floor, held)
  <2> HIDE DEF net
  <2>1. o \in ChargeOutcomes(t, net, floor, held)
    BY DEF net
  <2> QED BY <1>1, <1>2, <2>1, ChargeOutcomeParts
<1>4. IInv' /\ acct' \in AccountSet
  BY <1>1, <1>3 DEF IInv, Sound
<1>5. CASE o.error # "ok"
  BY <1>1, <1>3, <1>4, <1>5, GrewPosted, GrewRespects
<1>6. CASE o.error = "ok" /\ net = 0
  <2>1. acct' = acct
    BY <1>3, <1>6
  <2>2. ChargesPosted(Append(charges, c), acct)
    BY <1>1, <1>6, CoveredPosted
  <2>3. Grew(acct, acct')
    BY <1>1, <2>1, GrewNot
  <2> QED BY <1>4, <1>6, <2>1, <2>2, <2>3, GrewRespects
<1>7. CASE o.error = "ok" /\ net # 0
  <2>1. UsagePosted(acct', Len(charges) + 1, net, floor, held)
    BY <1>3, <1>7
  <2>2. ChargesPosted(Append(charges, c), acct')
    BY <1>1, <1>4, <1>7, <2>1, UncoveredPosted
  <2>3. RespectsHolds
    <3> HIDE DEF net
    <3>1. HeldExcept(leases', now, 0) \in Int /\ HeldExcept(leases', now, 0) <= held
      BY <1>7
    <3> QED BY <1>1, <1>2, <2>1, <3>1, PostedRespects
  <2> QED BY <1>4, <1>7, <2>2, <2>3
<1> QED BY <1>5, <1>6, <1>7

\* charge_usage_for_operation.
LEMMA ChargeKeeps ==
  ASSUME UsageInv, NEW t \in Stamps, NEW k \in ChargeKeys, NEW a \in Amounts,
         ChargeForOperation(t, k, a)
  PROVE  UsageInv' /\ RespectsHolds
<1> DEFINE x == CurrentWindow(t)
           w == WithWindow(windows, x)
           room == Allowance[x[1]] - w[x].reserved - w[x].consumed
           before == CreditBeforeAllowance(t, 0)
           free == Covered(a, room, before)
           taken == IF free > 0 THEN Taken(w, x[2], free) ELSE w
           held == HeldExcept(leases, t, 0)
           c == Charge(k, a, free, free > 0, x, 0)
<1>1. /\ now \in 0..MaxNow /\ policyMin \in Floors /\ acct \in AccountSet
      /\ LeasesOK(leases) /\ WindowsOK(leases, windows)
      /\ charges \in Seq(ChargeSet)
      /\ LeasesCharged(charges, leases)
  BY UsageParts
<1>2. t \in Nat /\ now \in Nat /\ t <= now /\ a \in Nat
  BY <1>1, StampParts, BoundsAssumption
<1>3. x \in Floors \X Nat /\ x[1] = policyMin /\ Allowance[x[1]] \in Nat
  BY <1>1, <1>2, CurrentWindowParts
<1>4. \E o \in ChargeOutcomes(t, a - free, NoFloor, held) :
        /\ acct' = o.acct
        /\ \/ o.error = "ok" /\ windows' = taken /\ charges' = Append(charges, c)
           \/ /\ o.error # "ok" /\ charges' = charges
              /\ windows' = IF free > 0 THEN PutBack(taken, x[2], free) ELSE w
  BY DEF ChargeForOperation
<1>5. UNCHANGED <<now, policyMin, leases>>
  BY DEF ChargeForOperation
<1> HIDE DEF x
<1>6. WindowsOK(leases, w) /\ x \in DOMAIN w
  BY <1>1, <1>3, WithWindowOK
<1>7. room \in Int
  <2>1. WindowOK(leases, x, w[x])
    BY <1>6 DEF WindowsOK
  <2> QED BY <1>3, <2>1 DEF WindowOK
<1>8. before \in Nat
  BY <1>1, <1>2, CreditBeforeNat
<1> HIDE DEF w, room, before
<1>9. free \in Nat /\ free <= a
  BY <1>2, <1>7, <1>8, CoveredParts
<1> HIDE DEF free
<1>10. WindowsOK(leases, taken) /\ WindowsOK(leases, PutBack(taken, x[2], free))
  <2>1. WindowsOK(leases, taken)
    BY <1>6, <1>9, TakenOK
  <2> HIDE DEF taken
  <2> QED BY <1>9, <2>1, PutBackOK
<1>11. c \in ChargeSet /\ c.lease = 0 /\ c.covered <= c.requested /\ Net(c) = a - free
  <2> DEFINE windowed == (free > 0)
             leaseNo == 0
  <2>1. windowed \in BOOLEAN /\ leaseNo \in Nat
    OBVIOUS
  <2>2. c = Charge(k, a, free, windowed, x, leaseNo)
    OBVIOUS
  <2> HIDE DEF windowed, leaseNo, c
  <2>3. /\ c \in ChargeSet /\ c.lease = leaseNo /\ Net(c) = a - free
        /\ c.requested = a /\ c.covered = free
    BY <1>2, <1>3, <1>9, <2>1, <2>2, ChargeTyped
  <2> QED BY <1>9, <2>3 DEF leaseNo
<1>12. held \in Int /\ HeldExcept(leases', now, 0) \in Int
       /\ HeldExcept(leases', now, 0) <= held /\ NoFloor \in Int
  BY <1>1, <1>2, <1>5, HeldExceptParts DEF NoFloor
<1> HIDE DEF taken, held, c
<1>13. PICK o \in ChargeOutcomes(t, Net(c), NoFloor, held) :
         /\ acct' = o.acct
         /\ \/ o.error = "ok" /\ windows' = taken /\ charges' = Append(charges, c)
            \/ /\ o.error # "ok" /\ charges' = charges
               /\ windows' = IF free > 0 THEN PutBack(taken, x[2], free) ELSE w
  BY <1>4, <1>11
<1>14. /\ IInv' /\ RespectsHolds
       /\ o.error # "ok" => ChargesPosted(charges, acct')
       /\ o.error = "ok" => ChargesPosted(Append(charges, c), acct')
  BY <1>5, <1>11, <1>12, <1>13, OutcomeKeeps
<1>15. WindowsOK(leases', windows') /\ LeasesOK(leases')
  BY <1>1, <1>5, <1>6, <1>10, <1>13
<1>16. CASE o.error = "ok"
  <2>1. charges' = Append(charges, c) /\ charges' \in Seq(ChargeSet)
    BY <1>1, <1>11, <1>13, <1>16
  <2>2. LeasesCharged(charges', leases')
    BY <1>1, <1>5, <1>11, <2>1, DirectCharged
  <2> QED BY <1>14, <1>15, <1>16, <2>1, <2>2 DEF UsageInv
<1>17. CASE o.error # "ok"
  <2>1. charges' = charges
    BY <1>13, <1>17
  <2> QED BY <1>1, <1>5, <1>14, <1>15, <1>17, <2>1 DEF UsageInv
<1> QED BY <1>16, <1>17

\* Ending active leases: release_lease, the reaper, and calls that find a lease late.
LEMMA EndKeeps ==
  ASSUME UsageInv, NEW S, S \subseteq ActiveLeases, NEW st, st \in {"released", "expired"},
         EndLeases(S, st)
  PROVE  UsageInv' /\ RespectsHolds
<1>1. /\ acct \in AccountSet /\ LeasesOK(leases) /\ WindowsOK(leases, windows)
      /\ LeasesCharged(charges, leases) /\ ChargesPosted(charges, acct)
      /\ Len(leases) \in Nat /\ charges \in Seq(ChargeSet)
  BY UsageParts
<1>2. /\ leases' = WithStatus(S, st) /\ windows' = Released(S)
      /\ UNCHANGED <<now, acct, policyMin, charges>>
  BY DEF EndLeases, ledger
<1>3. WindowsOK(leases', windows')
  BY <1>1, <1>2, EndedOK
<1> DEFINE ls == WithStatus(S, st)
<1>4. /\ LeasesOK(ls) /\ Len(ls) = Len(leases)
      /\ \A j \in 1..Len(leases) :
           ls[j].status = IF j \in S THEN st ELSE leases[j].status
  BY <1>1, WithStatusParts
<1>5. leases' = ls
  BY <1>2
<1> HIDE DEF ls
<1>6. \A j \in 1..Len(leases) : ls[j].status = "settled" <=> leases[j].status = "settled"
  BY <1>4 DEF ActiveLeases
<1>7. LeasesCharged(charges, ls)
  <2>1. \A j \in 1..Len(ls) : ~(j > Len(leases))
    BY <1>1, <1>4
  <2> QED BY <1>1, <1>4, <1>6, <2>1, ChargedKept
<1>8. Grew(acct, acct')
  BY <1>1, <1>2, GrewNot
<1>9. IInv'
  BY <1>2 DEF UsageInv, IInv
<1> QED BY <1>1, <1>2, <1>3, <1>4, <1>5, <1>7, <1>8, <1>9, GrewRespects DEF UsageInv

\* Leases that are due are active.
LEMMA DueActive ==
  ASSUME NEW t
  PROVE  DueLeases(t) \subseteq ActiveLeases
BY DEF DueLeases, ActiveLeases

\* create_lease, whatever becomes of the request.
LEMMA CreateKeeps ==
  ASSUME UsageInv, NEW t \in Stamps, NEW k \in LeaseKeys, NEW a \in Amounts, NEW d \in TTLs,
         CreateLease(t, k, a, d)
  PROVE  UsageInv' /\ RespectsHolds
<1> DEFINE stale == DueLeases(t)
           ls == WithStatus(stale, "expired")
           back == Released(stale)
           x == CurrentWindow(t)
           w == WithWindow(back, x)
           room == Allowance[x[1]] - w[x].reserved - w[x].consumed
           before == CreditBeforeAllowance(t, 0)
           hold == Covered(a, room, before)
           fresh == [key |-> k, window |-> x, amount |-> a, allowance |-> hold,
                     floor |-> policyMin, expires |-> t + d, status |-> "active"]
           added == [w EXCEPT ![x].reserved = w[x].reserved + hold]
<1>1. /\ now \in 0..MaxNow /\ policyMin \in Floors /\ acct \in AccountSet
      /\ LeasesOK(leases) /\ WindowsOK(leases, windows) /\ Len(leases) \in Nat
      /\ charges \in Seq(ChargeSet)
      /\ LeasesCharged(charges, leases) /\ ChargesPosted(charges, acct)
  BY UsageParts
<1>2. t \in Nat /\ a \in Nat /\ d \in Nat
  BY <1>1, StampParts, BoundsAssumption, AdmissionAssumption
<1>3. x \in Floors \X Nat /\ x[1] = policyMin /\ Allowance[x[1]] \in Nat
  BY <1>1, <1>2, CurrentWindowParts
<1>4. /\ UNCHANGED <<now, acct, policyMin, charges>>
      /\ \/ leases' = ls /\ windows' = back
         \/ leases' = ls /\ windows' = w
         \/ /\ LeaseError(t, a, hold, w[x]) = "ok"
            /\ leases' = Append(ls, fresh) /\ windows' = added
  BY DEF CreateLease, ledger
<1>5. WindowsOK(ls, back)
  BY <1>1, DueActive, EndedOK
<1>6. /\ LeasesOK(ls) /\ Len(ls) = Len(leases)
      /\ \A j \in 1..Len(leases) :
           ls[j].status = IF j \in stale THEN "expired" ELSE leases[j].status
  BY <1>1, WithStatusParts
<1>7. \A j \in 1..Len(leases) : ls[j].status = "settled" <=> leases[j].status = "settled"
  BY <1>6 DEF DueLeases
<1> HIDE DEF ls, back, x
<1>8. WindowsOK(ls, w) /\ x \in DOMAIN w
  BY <1>3, <1>5, <1>6, WithWindowOK
<1>9. WindowOK(ls, x, w[x])
  BY <1>8 DEF WindowsOK
<1>10. room \in Int
  BY <1>3, <1>9 DEF WindowOK
<1>11. before \in Nat
  BY <1>1, <1>2, CreditBeforeNat
<1> HIDE DEF w, room, before
<1>12. hold \in Nat /\ hold <= a
  BY <1>2, <1>10, <1>11, CoveredParts
<1> HIDE DEF hold
<1>13. /\ fresh \in LeaseSet /\ fresh.status = "active" /\ fresh.allowance = hold
       /\ fresh.amount = a /\ fresh.window = x
  BY <1>1, <1>2, <1>3, <1>12 DEF LeaseSet
<1>14. ASSUME LeaseError(t, a, hold, w[x]) = "ok"
       PROVE  LeasesOK(Append(ls, fresh)) /\ WindowsOK(Append(ls, fresh), added)
  <2>1. ~(w[x].reserved + w[x].consumed + hold > Allowance[policyMin])
    BY <1>14 DEF LeaseError
  <2>2. w[x].reserved + w[x].consumed + hold <= Allowance[x[1]]
    BY <1>3, <1>9, <1>12, <2>1 DEF WindowOK
  <2> HIDE DEF fresh
  <2> QED BY <1>6, <1>8, <1>12, <1>13, <2>2, LeasedOK
<1> HIDE DEF fresh, added
<1>15. LeasesOK(leases') /\ WindowsOK(leases', windows')
  BY <1>4, <1>5, <1>6, <1>8, <1>14
<1>16. LeasesCharged(charges, leases')
  <2> DEFINE n == Len(leases)
  <2>1. leases' = ls \/ leases' = Append(ls, fresh)
    BY <1>4
  <2>2. CASE leases' = ls
    <3>1. \A j \in 1..Len(ls) : ~(j > Len(leases))
      BY <1>1, <1>6
    <3>2. LeasesCharged(charges, ls)
      BY <1>1, <1>6, <1>7, <3>1, ChargedKept
    <3> QED BY <2>2, <3>2
  <2>3. CASE leases' = Append(ls, fresh)
    <3> DEFINE ms == Append(ls, fresh)
    <3>1. ls \in Seq(LeaseSet)
      BY <1>6 DEF LeasesOK
    <3>2. /\ Len(ms) = n + 1 /\ ms[n + 1] = fresh
          /\ \A j \in 1..n : ms[j] = ls[j]
      BY <1>1, <1>6, <1>13, <3>1
    <3> HIDE DEF ms
    <3>3. /\ \A j \in 1..n : ms[j].status = "settled" <=> leases[j].status = "settled"
          /\ \A j \in 1..Len(ms) : j > n => ms[j].status # "settled"
      BY <1>1, <1>7, <1>13, <3>2
    <3>4. n \in Nat /\ Len(ms) \in Nat /\ n <= Len(ms)
      BY <1>1, <3>2
    <3>5. LeasesCharged(charges, ms)
      BY <1>1, <3>3, <3>4, ChargedKept
    <3> QED BY <2>3, <3>5 DEF ms
  <2> QED BY <2>1, <2>2, <2>3
<1>17. Grew(acct, acct') /\ IInv'
  <2>1. Grew(acct, acct')
    BY <1>1, <1>4, GrewNot
  <2>2. IInv'
    BY <1>4 DEF UsageInv, IInv
  <2> QED BY <2>1, <2>2
<1> QED BY <1>1, <1>4, <1>15, <1>16, <1>17, GrewRespects DEF UsageInv

\* renew_lease.
LEMMA RenewKeeps ==
  ASSUME UsageInv, NEW t \in Stamps, NEW i \in 1..Len(leases), NEW d \in TTLs,
         Renew(t, i, d)
  PROVE  UsageInv' /\ RespectsHolds
<1> DEFINE u == Greatest(leases[i].expires, t + d)
           ms == [leases EXCEPT ![i].expires = u]
<1>1. /\ now \in 0..MaxNow /\ acct \in AccountSet /\ LeasesOK(leases)
      /\ WindowsOK(leases, windows) /\ Len(leases) \in Nat
      /\ LeasesCharged(charges, leases)
  BY UsageParts
<1>2. u \in Nat
  <2>1. t \in Nat /\ d \in Nat /\ leases[i].expires \in Nat
    BY <1>1, StampParts, LeaseParts, AdmissionAssumption
  <2> QED BY <2>1 DEF Greatest
<1>3. leases' = ms /\ UNCHANGED <<now, acct, policyMin, windows, charges>>
  BY DEF Renew, ledger
<1> HIDE DEF u
<1>4. /\ LeasesOK(ms) /\ WindowsOK(ms, windows) /\ Len(ms) = Len(leases)
      /\ \A j \in 1..Len(leases) : ms[j].status = leases[j].status
  BY <1>1, <1>2, RenewedOK
<1> HIDE DEF ms
<1>5. LeasesCharged(charges, ms)
  <2>1. \A j \in 1..Len(ms) : ~(j > Len(leases))
    BY <1>1, <1>4
  <2> QED BY <1>1, <1>4, <2>1, ChargedKept
<1>6. Grew(acct, acct')
  BY <1>1, <1>3, GrewNot
<1>7. IInv'
  BY <1>3 DEF UsageInv, IInv
<1> QED BY <1>3, <1>4, <1>5, <1>6, <1>7, GrewRespects DEF UsageInv

\* Once lease i has settled, what is held is what the others hold.
LEMMA HeldSettled ==
  ASSUME LeasesOK(leases), NEW i \in 1..Len(leases), NEW t
  PROVE  HeldExcept(WithStatus({i}, "settled"), t, 0) = HeldExcept(leases, t, i)
<1> DEFINE n == Len(leases)
           ls == WithStatus({i}, "settled")
           f == [j \in 1..n |-> IF j # i /\ IsHolding(leases[j], t) THEN Hold(leases[j]) ELSE 0]
           g == [j \in 1..n |-> IF j # 0 /\ IsHolding(ls[j], t) THEN Hold(ls[j]) ELSE 0]
<1>1. n \in Nat
  BY LeaseParts
<1>2. /\ Len(ls) = n
      /\ \A j \in 1..n : /\ ls[j].status = IF j \in {i} THEN "settled" ELSE leases[j].status
                         /\ j \notin {i} => ls[j] = leases[j]
  BY WithStatusParts
<1> HIDE DEF ls
<1>3. ASSUME NEW j \in 1..n PROVE f[j] = g[j]
  <2>1. CASE j = i
    BY <1>1, <1>2, <2>1 DEF IsHolding
  <2>2. CASE j # i
    BY <1>1, <1>2, <2>2
  <2> QED BY <2>1, <2>2
<1> HIDE DEF f, g
<1>4. SumTo(f, n) = SumTo(g, n)
  BY <1>1, <1>3, SumToEqual
<1>5. HeldExcept(ls, t, 0) = SumTo(g, n) /\ HeldExcept(leases, t, i) = SumTo(f, n)
  BY <1>2 DEF HeldExcept, f, g
<1> QED BY <1>4, <1>5 DEF ls

\* A lease alone reserved its allowance.
LEMMA ReservedByOne ==
  ASSUME LeasesOK(leases), NEW i \in 1..Len(leases)
  PROVE  ReservedBy({i}, leases[i].window) = leases[i].allowance
<1> DEFINE n == Len(leases)
           x == leases[i].window
           f == [j \in 1..n |-> IF j \in {i} /\ leases[j].window = x
                                  THEN leases[j].allowance ELSE 0]
<1>1. n \in Nat /\ leases[i].allowance \in Nat
  BY LeaseParts
<1>2. f[i] = leases[i].allowance /\ \A j \in 1..n : j # i => f[j] = 0
  OBVIOUS
<1> HIDE DEF f
<1>3. SumTo(f, n) = f[i]
  BY <1>1, <1>2, SumToSingle
<1> QED BY <1>2, <1>3 DEF ReservedBy, f

\* settle_lease, charged or refused.
LEMMA SettleKeeps ==
  ASSUME UsageInv, NEW t \in Stamps, NEW i \in 1..Len(leases), NEW k \in ChargeKeys,
         NEW a \in Amounts \cup {0}, Settle(t, i, k, a)
  PROVE  UsageInv' /\ RespectsHolds
<1> DEFINE x == leases[i].window
           room == Allowance[x[1]] - windows[x].consumed
                     - (windows[x].reserved - leases[i].allowance)
           before == CreditBeforeAllowance(t, i)
           cover == SettlementCover(t, i, a)
           held == HeldExcept(leases, t, i)
           floor == leases[i].floor
           ls == WithStatus({i}, "settled")
           back == Released({i})
           c == Charge(k, a, cover, FALSE, x, i)
           used == windows[x].consumed + cover
<1>1. /\ now \in 0..MaxNow /\ policyMin \in Floors /\ acct \in AccountSet
      /\ LeasesOK(leases) /\ WindowsOK(leases, windows)
      /\ charges \in Seq(ChargeSet)
      /\ LeasesCharged(charges, leases) /\ ChargesPosted(charges, acct)
  BY UsageParts
<1>2. t \in Nat /\ now \in Nat /\ t <= now /\ a \in Nat
  BY <1>1, StampParts, BoundsAssumption
<1>3. /\ x \in Floors \X Nat /\ leases[i].allowance \in Nat /\ floor \in Int /\ i \in Nat
      /\ leases[i].status = "active"
  <2>1. x \in Floors \X Nat /\ leases[i].allowance \in Nat /\ leases[i].floor \in Floors
        /\ Len(leases) \in Nat
    BY <1>1, LeaseParts
  <2>2. leases[i].status = "active"
    BY DEF Settle, IsHolding
  <2> QED BY <2>1, <2>2, CatalogAssumption
<1>4. x \in DOMAIN windows /\ WindowOK(leases, x, windows[x]) /\ Allowance[x[1]] \in Nat
  BY <1>1, <1>3, AllowanceNat DEF WindowsOK
<1>5. \E o \in ChargeOutcomes(t, a - cover, floor, held) :
        /\ acct' = o.acct
        /\ \/ /\ o.error = "ok"
              /\ used <= Allowance[x[1]] - (windows[x].reserved - leases[i].allowance)
              /\ leases' = ls /\ windows' = [back EXCEPT ![x].consumed = used]
              /\ charges' = Append(charges, c)
           \/ o.error # "ok" /\ UNCHANGED <<leases, windows, charges>>
  BY DEF Settle, SettleOutcomes, usage
<1>6. UNCHANGED <<now, policyMin>>
  BY DEF Settle
<1>7. cover \in Nat /\ cover <= a
  <2>1. room \in Int
    BY <1>3, <1>4 DEF WindowOK
  <2>2. before \in Nat
    BY <1>1, <1>2, CreditBeforeNat
  <2>3. cover = Covered(a, room, before)
    BY DEF SettlementCover
  <2> HIDE DEF room, before, cover
  <2> QED BY <1>2, <2>1, <2>2, <2>3, CoveredParts
<1> HIDE DEF cover
<1>8. c \in ChargeSet /\ c.lease = i /\ c.covered <= c.requested /\ Net(c) = a - cover
  <2> DEFINE windowed == FALSE
  <2>1. windowed \in BOOLEAN
    OBVIOUS
  <2>2. c = Charge(k, a, cover, windowed, x, i)
    OBVIOUS
  <2> HIDE DEF windowed, c, x
  <2>3. /\ c \in ChargeSet /\ c.lease = i /\ Net(c) = a - cover
        /\ c.requested = a /\ c.covered = cover
    BY <1>2, <1>3, <1>7, <2>1, <2>2, ChargeTyped
  <2> QED BY <1>7, <2>3
<1>9. /\ held \in Int /\ HeldExcept(ls, now, 0) \in Int /\ HeldExcept(ls, now, 0) <= held
  <2>1. /\ held \in Nat /\ HeldExcept(leases, now, i) \in Nat
        /\ HeldExcept(leases, now, i) <= held
    BY <1>1, <1>2, HeldExceptParts
  <2>2. HeldExcept(ls, now, 0) = HeldExcept(leases, now, i)
    BY <1>1, HeldSettled
  <2> QED BY <2>1, <2>2
<1>10. {i} \subseteq ActiveLeases
  BY <1>3 DEF ActiveLeases
<1>11. /\ WindowsOK(ls, back)
       /\ DOMAIN back = DOMAIN windows
       /\ back[x].consumed = windows[x].consumed
       /\ back[x].reserved = windows[x].reserved - leases[i].allowance
  <2>1. /\ WindowsOK(ls, back) /\ DOMAIN back = DOMAIN windows
        /\ back[x].consumed = windows[x].consumed
    BY <1>1, <1>4, <1>10, EndedOK
  <2>2. back[x] = [windows[x] EXCEPT !.reserved = windows[x].reserved - ReservedBy({i}, x)]
    BY <1>4 DEF Released
  <2>3. ReservedBy({i}, x) = leases[i].allowance
    BY <1>1, ReservedByOne
  <2> HIDE DEF back, x
  <2> QED BY <1>4, <2>1, <2>2, <2>3 DEF WindowOK
<1>12. LeasesOK(ls) /\ Len(ls) = Len(leases)
  BY <1>1, WithStatusParts
<1> HIDE DEF c, held, floor, x, used
<1>13. PICK o \in ChargeOutcomes(t, Net(c), floor, held) :
        /\ acct' = o.acct
        /\ \/ /\ o.error = "ok"
              /\ used <= Allowance[x[1]] - (windows[x].reserved - leases[i].allowance)
              /\ leases' = ls /\ windows' = [back EXCEPT ![x].consumed = used]
              /\ charges' = Append(charges, c)
           \/ o.error # "ok" /\ UNCHANGED <<leases, windows, charges>>
  BY <1>5, <1>8
<1> HIDE DEF back
<1>14. o.error = "ok" => /\ HeldExcept(leases', now, 0) \in Int
                         /\ HeldExcept(leases', now, 0) <= held
  BY <1>9, <1>13
<1>15. /\ IInv' /\ RespectsHolds
       /\ o.error # "ok" => ChargesPosted(charges, acct')
       /\ o.error = "ok" => ChargesPosted(Append(charges, c), acct')
  BY <1>3, <1>6, <1>8, <1>9, <1>13, <1>14, OutcomeKeeps
<1>16. CASE o.error = "ok"
  <2>1. /\ used <= Allowance[x[1]] - (windows[x].reserved - leases[i].allowance)
        /\ leases' = ls /\ windows' = [back EXCEPT ![x].consumed = used]
        /\ charges' = Append(charges, c)
    BY <1>13, <1>16
  <2>2. used \in Nat /\ back[x].reserved + used <= Allowance[x[1]]
    <3>1. windows[x].reserved \in Nat /\ windows[x].consumed \in Nat
      BY <1>4 DEF WindowOK
    <3>2. Allowance[x[1]] \in Int /\ leases[i].allowance \in Int
      BY <1>3, <1>4
    <3>3. /\ used = windows[x].consumed + cover
          /\ back[x].reserved = windows[x].reserved - leases[i].allowance
          /\ used <= Allowance[x[1]] - (windows[x].reserved - leases[i].allowance)
      BY <1>11, <2>1 DEF used
    <3> HIDE DEF ls
    <3>4. used \in Nat
      BY <1>7, <3>1, <3>3
    <3>5. back[x].reserved + used <= Allowance[x[1]]
      BY <3>1, <3>2, <3>3, <3>4
    <3> QED BY <3>4, <3>5
  <2>3. WindowsOK(ls, [back EXCEPT ![x].consumed = used])
    <3> HIDE DEF ls
    <3>1. x \in DOMAIN back
      BY <1>4, <1>11
    <3> QED BY <1>11, <2>2, <3>1, ConsumedOK
  <2>4. charges' \in Seq(ChargeSet)
    BY <1>1, <1>8, <2>1
  <2>5. LeasesCharged(charges', leases')
    BY <1>1, <1>3, <1>8, <2>1, SettledCharged
  <2> QED BY <1>12, <1>15, <1>16, <2>1, <2>3, <2>4, <2>5 DEF UsageInv
<1>17. CASE o.error # "ok"
  BY <1>1, <1>13, <1>15, <1>17 DEF UsageInv
<1> QED BY <1>16, <1>17
-----------------------------------------------------------------------------
(* The specification *)

\* The new account has no lease, window or charge.
LEMMA UsageInitOK == UsageInit => UsageInv
<1> SUFFICES ASSUME UsageInit PROVE UsageInv
  OBVIOUS
<1>1. now \in 0..MaxNow /\ policyMin \in Floors
  BY BoundsAssumption DEF UsageInit
<1>2. /\ acct = [balance |-> 0, entries |-> <<>>, lots |-> <<>>]
      /\ leases = <<>> /\ windows = <<>> /\ charges = <<>>
  BY DEF UsageInit
<1>3. Sound(acct) /\ Explained(acct)
  BY <1>2, EmptySound
<1>4. acct.entries = <<>> /\ Len(acct.entries) = 0 /\ Len(leases) = 0 /\ Len(charges) = 0
  BY <1>2
<1>5. LeasesOK(leases) /\ charges \in Seq(ChargeSet)
  BY <1>2, <1>4 DEF LeasesOK
<1>6. WindowsOK(leases, windows)
  BY <1>2, <1>4 DEF WindowsOK
<1>7. LeasesCharged(charges, leases) /\ ChargesPosted(charges, acct)
  BY <1>4 DEF LeasesCharged, ChargesPosted, KeyUsed
<1> QED BY <1>1, <1>3, <1>5, <1>6, <1>7 DEF UsageInv, IInv

\* Every step keeps the invariant and the holds.
LEMMA UsageNextOK == UsageInv /\ [UsageNext]_allVars => UsageInv' /\ RespectsHolds
<1> SUFFICES ASSUME UsageInv, [UsageNext]_allVars PROVE UsageInv' /\ RespectsHolds
  OBVIOUS
<1>1. ASSUME LedgerCall, UNCHANGED usage PROVE UsageInv' /\ RespectsHolds
  BY <1>1, LedgerCallKeeps, GrewRespects
<1>2. ASSUME NEW t \in Stamps, NEW k \in ChargeKeys, NEW a \in Amounts,
             ChargeForOperation(t, k, a)
      PROVE  UsageInv' /\ RespectsHolds
  BY <1>2, ChargeKeeps
<1>3. ASSUME NEW t \in Stamps, NEW k \in LeaseKeys, NEW a \in Amounts, NEW d \in TTLs,
             CreateLease(t, k, a, d)
      PROVE  UsageInv' /\ RespectsHolds
  BY <1>3, CreateKeeps
<1>4. ASSUME NEW t, NEW i \in DueLeases(t), EndLeases({i}, "expired")
      PROVE  UsageInv' /\ RespectsHolds
  <2>1. {i} \subseteq ActiveLeases
    BY <1>4, DueActive
  <2> QED BY <1>4, <2>1, EndKeeps
<1>5. ASSUME NEW t \in Stamps, NEW i \in 1..Len(leases), NEW k \in ChargeKeys,
             NEW a \in Amounts \cup {0}, SettleLease(t, i, k, a)
      PROVE  UsageInv' /\ RespectsHolds
  <2>1. CASE Settle(t, i, k, a)
    BY <2>1, SettleKeeps
  <2>2. CASE i \in DueLeases(t) /\ EndLeases({i}, "expired")
    BY <2>2, <1>4
  <2> QED BY <1>5, <2>1, <2>2 DEF SettleLease
<1>6. ASSUME NEW t \in Stamps, NEW i \in 1..Len(leases), NEW d \in TTLs, RenewLease(t, i, d)
      PROVE  UsageInv' /\ RespectsHolds
  <2>1. CASE Renew(t, i, d)
    BY <2>1, RenewKeeps
  <2>2. CASE i \in DueLeases(t) /\ EndLeases({i}, "expired")
    BY <2>2, <1>4
  <2> QED BY <1>6, <2>1, <2>2 DEF RenewLease
<1>7. ASSUME NEW i \in 1..Len(leases), ReleaseLease(i)
      PROVE  UsageInv' /\ RespectsHolds
  <2>1. {i} \subseteq ActiveLeases /\ EndLeases({i}, "released")
    BY <1>7 DEF ReleaseLease, ActiveLeases
  <2> QED BY <2>1, EndKeeps
<1>8. ASSUME NEW t \in Stamps, ExpireLeases(t) PROVE UsageInv' /\ RespectsHolds
  <2>1. PICK S \in SUBSET DueLeases(t) : EndLeases(S, "expired")
    BY <1>8 DEF ExpireLeases
  <2>2. S \subseteq ActiveLeases
    BY <2>1, DueActive
  <2> QED BY <2>1, <2>2, EndKeeps
<1>9. CASE UNCHANGED allVars
  <2>1. UNCHANGED <<now, acct, policyMin, leases, windows, charges>>
    BY <1>9 DEF allVars
  <2>2. acct \in AccountSet
    BY UsageParts
  <2>3. UsageInv'
    BY <2>1 DEF UsageInv, IInv
  <2>4. Grew(acct, acct')
    BY <2>1, <2>2, GrewNot
  <2> QED BY <2>3, <2>4, GrewRespects
<1> QED
  BY <1>1, <1>2, <1>3, <1>5, <1>6, <1>7, <1>8, <1>9 DEF UsageNext, ExpireAny

\* A lease that has ended is not touched.
LEMMA EndedKept ==
  ASSUME UsageInv, [UsageNext]_allVars, NEW i \in 1..Len(leases),
         leases[i].status # "active"
  PROVE  leases'[i] = leases[i]
<1>1. /\ LeasesOK(leases) /\ Len(leases) \in Nat /\ leases \in Seq(LeaseSet)
  BY UsageParts DEF LeasesOK
<1>2. i \notin ActiveLeases
  BY DEF ActiveLeases
<1>3. ASSUME NEW S, S \subseteq ActiveLeases,
             NEW st, st \in {"settled", "released", "expired"}
      PROVE  WithStatus(S, st)[i] = leases[i]
  BY <1>1, <1>2, <1>3, WithStatusParts
<1>4. ASSUME NEW t, NEW j \in DueLeases(t) PROVE {j} \subseteq ActiveLeases
  BY <1>4, DueActive
<1>5. CASE LedgerCall /\ UNCHANGED usage
  BY <1>5 DEF usage
<1>6. ASSUME NEW t, NEW k, NEW a, ChargeForOperation(t, k, a) PROVE leases'[i] = leases[i]
  BY <1>6 DEF ChargeForOperation
<1>7. ASSUME NEW t, NEW k, NEW a, NEW d, CreateLease(t, k, a, d) PROVE leases'[i] = leases[i]
  <2> DEFINE ls == WithStatus(DueLeases(t), "expired")
  <2>1. leases' = ls \/ \E l : leases' = Append(ls, l)
    BY <1>7 DEF CreateLease
  <2>2. ls[i] = leases[i]
    BY <1>3, DueActive
  <2>3. ls \in Seq(LeaseSet) /\ Len(ls) = Len(leases)
    BY <1>1, WithStatusParts DEF LeasesOK
  <2> HIDE DEF ls
  <2>4. \A l : Append(ls, l)[i] = ls[i]
    BY <1>1, <2>3
  <2> QED BY <2>1, <2>2, <2>4
<1>8. ASSUME NEW S, S \subseteq ActiveLeases, NEW st, st \in {"released", "expired"},
             EndLeases(S, st)
      PROVE  leases'[i] = leases[i]
  BY <1>3, <1>8 DEF EndLeases
<1>9. ASSUME NEW t, NEW j \in 1..Len(leases), NEW k, NEW a, SettleLease(t, j, k, a)
      PROVE  leases'[i] = leases[i]
  <2>1. CASE Settle(t, j, k, a)
    <3>1. {j} \subseteq ActiveLeases
      BY <2>1 DEF Settle, IsHolding, ActiveLeases
    <3>2. leases' = WithStatus({j}, "settled") \/ leases' = leases
      BY <2>1 DEF Settle, usage
    <3> QED BY <1>3, <3>1, <3>2
  <2>2. CASE j \in DueLeases(t) /\ EndLeases({j}, "expired")
    BY <1>4, <1>8, <2>2
  <2> QED BY <1>9, <2>1, <2>2 DEF SettleLease
<1>10. ASSUME NEW t, NEW j \in 1..Len(leases), NEW d, RenewLease(t, j, d)
       PROVE  leases'[i] = leases[i]
  <2>1. CASE Renew(t, j, d)
    <3>1. j # i
      BY <2>1 DEF Renew, IsHolding
    <3> QED BY <1>1, <2>1, <3>1 DEF Renew
  <2>2. CASE j \in DueLeases(t) /\ EndLeases({j}, "expired")
    BY <1>4, <1>8, <2>2
  <2> QED BY <1>10, <2>1, <2>2 DEF RenewLease
<1>11. ASSUME NEW j \in 1..Len(leases), ReleaseLease(j) PROVE leases'[i] = leases[i]
  <2>1. {j} \subseteq ActiveLeases /\ EndLeases({j}, "released")
    BY <1>11 DEF ReleaseLease, ActiveLeases
  <2> QED BY <1>8, <2>1
<1>12. ASSUME NEW t, ExpireLeases(t) PROVE leases'[i] = leases[i]
  <2>1. PICK S \in SUBSET DueLeases(t) : EndLeases(S, "expired")
    BY <1>12 DEF ExpireLeases
  <2>2. S \subseteq ActiveLeases
    BY <2>1, DueActive
  <2> QED BY <1>8, <2>1, <2>2
<1>13. CASE UNCHANGED allVars
  BY <1>13 DEF allVars
<1> QED
  BY <1>5, <1>6, <1>7, <1>9, <1>10, <1>11, <1>12, <1>13 DEF UsageNext, ExpireAny

\* What the invariant says of leases and windows.
LEMMA UsageWindows == UsageInv => UsageTypeOK /\ WindowsReconcile
<1> SUFFICES ASSUME UsageInv PROVE UsageTypeOK /\ WindowsReconcile
  OBVIOUS
<1>1. /\ LeasesOK(leases) /\ WindowsOK(leases, windows) /\ charges \in Seq(ChargeSet)
      /\ Len(leases) \in Nat
  BY UsageParts
<1>2. TypeOK
  BY IInvImplies DEF UsageInv
<1>3. UsageTypeOK
  BY <1>1, <1>2 DEF UsageTypeOK, LeasesOK, WindowsOK, WindowOK
<1>4. \A x : ReservedBy(ActiveLeases, x) = HeldIn(leases, x)
  <2> TAKE x
  <2> DEFINE n == Len(leases)
             f == [j \in 1..n |-> IF j \in ActiveLeases /\ leases[j].window = x
                                    THEN leases[j].allowance ELSE 0]
             g == [j \in 1..n |-> IF leases[j].status = "active" /\ leases[j].window = x
                                    THEN leases[j].allowance ELSE 0]
  <2>1. \A j \in 1..n : f[j] = g[j]
    BY DEF ActiveLeases
  <2> HIDE DEF f, g
  <2>2. SumTo(f, n) = SumTo(g, n)
    BY <1>1, <2>1, SumToEqual
  <2> QED BY <2>2 DEF ReservedBy, HeldIn, f, g
<1>5. WindowsReconcile
  BY <1>1, <1>4 DEF WindowsReconcile, ReservedIsHeld, AllowanceNeverExceeded, WindowsOK, WindowOK
<1> QED BY <1>3, <1>5

\* What the invariant says of charges: the sets that are counted have one element
\* or none.
LEMMA UsageCharges == UsageInv => ChargesReconcile
<1> SUFFICES ASSUME UsageInv PROVE ChargesReconcile
  OBVIOUS
<1>1. /\ Sound(acct) /\ charges \in Seq(ChargeSet) /\ Len(charges) \in Nat
      /\ LeasesCharged(charges, leases) /\ ChargesPosted(charges, acct)
  BY UsageParts
<1>2. ASSUME NEW i \in 1..Len(leases)
      PROVE  Cardinality({c \in 1..Len(charges) : charges[c].lease = i})
               = IF leases[i].status = "settled" THEN 1 ELSE 0
  <2> DEFINE C == {c \in 1..Len(charges) : charges[c].lease = i}
  <2>1. CASE leases[i].status = "settled"
    <3>1. PICK c \in 1..Len(charges) : charges[c].lease = i
      BY <1>1, <2>1 DEF LeasesCharged
    <3>2. i # 0
      OBVIOUS
    <3>3. C = {c}
      BY <1>1, <3>1, <3>2 DEF LeasesCharged
    <3> HIDE DEF C
    <3>4. Cardinality(C) = 1
      BY <3>3, FS_Singleton
    <3> QED BY <2>1, <3>4 DEF C
  <2>2. CASE leases[i].status # "settled"
    <3>1. C = {}
      BY <1>1, <2>2 DEF LeasesCharged
    <3> HIDE DEF C
    <3>2. Cardinality(C) = 0
      BY <3>1, FS_EmptySet
    <3> QED BY <2>2, <3>2 DEF C
  <2> QED BY <2>1, <2>2
<1>3. ASSUME NEW c \in 1..Len(charges)
      PROVE  LET net == charges[c].requested - charges[c].covered
                 posted == {i \in 1..Len(acct.entries) :
                              acct.entries[i].key = UsageLedgerKey(c)}
             IN  /\ net >= 0
                 /\ Cardinality(posted) = IF net = 0 THEN 0 ELSE 1
                 /\ \A i \in posted : acct.entries[i].amount = -net
  <2> DEFINE net == charges[c].requested - charges[c].covered
             posted == {i \in 1..Len(acct.entries) :
                          acct.entries[i].key = UsageLedgerKey(c)}
  <2>1. charges[c] \in ChargeSet
    BY <1>1
  <2>2. charges[c].covered <= charges[c].requested
    BY <1>1 DEF ChargesPosted
  <2>3. net \in Nat /\ net = Net(charges[c])
    BY <2>1, <2>2 DEF ChargeSet, Net
  <2> HIDE DEF net
  <2>4. CASE net = 0
    <3>1. posted = {}
      BY <1>1, <2>3, <2>4 DEF ChargesPosted, KeyUsed
    <3> HIDE DEF posted
    <3>2. Cardinality(posted) = 0
      BY <3>1, FS_EmptySet
    <3> QED BY <2>3, <2>4, <3>1, <3>2 DEF posted, net
  <2>5. CASE net # 0
    <3>1. net > 0
      BY <2>3, <2>5
    <3>2. PICK i \in 1..Len(acct.entries) :
            acct.entries[i].key = UsageLedgerKey(c) /\ acct.entries[i].amount = -net
      BY <1>1, <2>3, <3>1 DEF ChargesPosted
    <3>3. KeysUnique(acct)
      BY <1>1 DEF Sound
    <3>4. posted = {i}
      BY <3>2, <3>3 DEF KeysUnique
    <3> HIDE DEF posted
    <3>5. Cardinality(posted) = 1
      BY <3>4, FS_Singleton
    <3>6. \A j \in posted : acct.entries[j].amount = -net
      BY <3>2, <3>4
    <3> QED BY <2>3, <2>5, <3>5, <3>6 DEF posted, net
  <2> QED BY <2>4, <2>5
<1>4. SettledExactlyOnce
  BY <1>2 DEF SettledExactlyOnce
<1>5. ChargesMatchLedger
  BY <1>3 DEF ChargesMatchLedger
<1> QED BY <1>4, <1>5 DEF ChargesReconcile

\* The variables keep their types.
THEOREM UsageTyped == UsageSpec => []UsageTypeOK
BY UsageInitOK, UsageNextOK, UsageWindows, PTL DEF UsageSpec

\* Charging and leasing keep the books of the ledger: chain, keys, balance, and
\* where every credit went.
THEOREM UsageKeepsBooks ==
  UsageSpec => [](LedgerChain /\ KeysPostOnce /\ BalanceIsLotsLessDebt /\ LotsExplained)
<1>1. UsageInv => LedgerChain /\ KeysPostOnce /\ BalanceIsLotsLessDebt /\ LotsExplained
  BY IInvImplies DEF UsageInv
<1> QED BY <1>1, UsageInitOK, UsageNextOK, PTL DEF UsageSpec

\* What windows have reserved is what active leases hold there, and no window
\* gives more than its plan includes.
THEOREM UsageWindowsReconcile == UsageSpec => []WindowsReconcile
BY UsageInitOK, UsageNextOK, UsageWindows, PTL DEF UsageSpec

\* A lease has one charge if and only if it settled, and a charge one usage entry
\* for what it was not given free.
THEOREM UsageChargesReconcile == UsageSpec => []ChargesReconcile
BY UsageInitOK, UsageNextOK, UsageCharges, PTL DEF UsageSpec

\* A charge leaves the other leases' holds above its minimum balance, also when
\* it judges them by an older time.
THEOREM UsageRespectsHolds == UsageSpec => ChargesRespectHolds
<1>1. UsageInv /\ [UsageNext]_allVars =>
        [\A i \in 1..Len(acct'.entries) :
           (i > Len(acct.entries) /\ acct'.entries[i].kind = "usage")
             => acct'.balance - HeldExcept(leases', now, 0)
                  >= LET f == acct'.entries[i].req.floor
                     IN  IF f = NoFloor THEN policyMin ELSE f]_allVars
  BY UsageNextOK DEF RespectsHolds
<1> QED BY <1>1, UsageInitOK, UsageNextOK, PTL DEF UsageSpec, ChargesRespectHolds

\* No call reopens or changes a lease that has settled, been released or expired.
THEOREM UsageEndsLeases == UsageSpec => EndedLeasesStay
<1>1. UsageInv /\ [UsageNext]_allVars =>
        [\A i \in 1..Len(leases) :
           leases[i].status # "active" => leases'[i] = leases[i]]_allVars
  BY EndedKept
<1> QED BY <1>1, UsageInitOK, UsageNextOK, PTL DEF UsageSpec, EndedLeasesStay

-----------------------------------------------------------------------------
(* What leases hold is there when they settle.  That the balance covers the holds down to the    *)
(* minimum is not enough: a settlement may find that credit granted since goes before its        *)
(* allowance, and then takes credit instead of what it reserved.  It can, because usage spends   *)
(* lots before it runs up debts: what the account owes never exceeds what the minimum allows     *)
(* (Backed), so credit that lots have beyond the holds is headroom.                              *)

\* Smaller terms have a smaller sum.
LEMMA SumToAtMost ==
  ASSUME NEW f, NEW g, NEW n \in Nat,
         \A i \in 1..n : f[i] \in Int /\ g[i] \in Int /\ f[i] <= g[i]
  PROVE  SumTo(f, n) <= SumTo(g, n)
<1> DEFINE h == [i \in 1..n |-> g[i] - f[i]]
<1>1. \A i \in 1..n : g[i] \in Int /\ f[i] \in Int /\ h[i] = g[i] - f[i] /\ h[i] \in Nat
  OBVIOUS
<1> HIDE DEF h
<1>2. SumTo(h, n) \in Nat /\ SumTo(f, n) \in Int /\ SumTo(g, n) \in Int
  BY <1>1, SumToNat, SumToInt
<1>3. SumTo(h, n) = SumTo(g, n) - SumTo(f, n)
  BY <1>1, SumToMinus
<1> QED BY <1>2, <1>3

\* A split that gives less than the amount takes all that the rows have: of the
\* rows that keep something, the first in order leaves nothing to be asked for.
LEMMA FillExhausts ==
  ASSUME NEW avail, NEW rank, NEW amount \in Nat, NEW n \in Nat,
         \A l \in 1..n : avail[l] \in Nat,
         \A l \in 1..n : rank[l] \in Nat,
         SumTo(Fill(avail, rank, amount, n), n) < amount
  PROVE  \A l \in 1..n : Fill(avail, rank, amount, n)[l] = avail[l]
<1> DEFINE fill == Fill(avail, rank, amount, n)
           T == {rank[l] : l \in {j \in 1..n : fill[j] # avail[j]}}
<1>1. \A l \in 1..n : fill[l] \in Nat /\ fill[l] <= avail[l]
  BY FillBounds
<1> SUFFICES ASSUME T # {} PROVE FALSE
  OBVIOUS
<1>2. PICK x \in T : \A y \in T : x <= y
  <2>1. T \subseteq Nat
    OBVIOUS
  <2> HIDE DEF T
  <2> QED BY <2>1, LeastNat
<1>3. PICK l \in 1..n : fill[l] # avail[l] /\ x = rank[l]
  BY <1>2
<1>4. ASSUME NEW j \in 1..n, rank[j] < rank[l] PROVE fill[j] = avail[j]
  <2> SUFFICES ASSUME fill[j] # avail[j] PROVE FALSE
    OBVIOUS
  <2>1. rank[j] \in T
    OBVIOUS
  <2>2. rank[l] <= rank[j] /\ rank[l] \in Nat /\ rank[j] \in Nat
    BY <1>2, <1>3, <2>1
  <2> QED BY <1>4, <2>2
<1> DEFINE g == [j \in 1..n |-> IF rank[j] < rank[l] THEN avail[j] ELSE 0]
           h == [j \in 1..n |-> IF j = l THEN fill[l] ELSE g[j]]
           A == SumTo(g, n)
<1>5. fill[l] = Least(avail[l], Greatest(0, amount - A))
  BY DEF Fill, AheadOf
<1> HIDE DEF fill
<1>6. \A j \in 1..n : g[j] \in Int /\ g[j] \in Nat /\ (rank[j] < rank[l] => g[j] = fill[j])
                      /\ (~(rank[j] < rank[l]) => g[j] = 0)
  BY <1>4
<1>7. g[l] = 0
  <2>1. rank[l] \in Nat
    OBVIOUS
  <2> QED BY <2>1
<1> HIDE DEF g
<1>8. \A j \in 1..n : h[j] \in Int /\ fill[j] \in Int /\ h[j] <= fill[j]
  BY <1>1, <1>6
<1>9. h[l] = g[l] + fill[l] /\ fill[l] \in Int /\ \A j \in 1..n : j # l => h[j] = g[j]
  BY <1>1, <1>7
<1> HIDE DEF h
<1>10. SumTo(h, n) = A + fill[l]
  <2> DEFINE c == fill[l]
  <2>1. h[l] = g[l] + c /\ c \in Int /\ \A j \in 1..n : j # l => h[j] = g[j]
    BY <1>9
  <2>2. \A j \in 1..n : g[j] \in Int /\ h[j] \in Int
    BY <1>6, <1>8
  <2> HIDE DEF c
  <2>3. SumTo(h, n) = SumTo(g, n) + c
    BY <2>1, <2>2, SumToChanged
  <2> QED BY <2>3 DEF c
<1>11. SumTo(h, n) <= SumTo(fill, n)
  BY <1>8, SumToAtMost
<1>12. A \in Nat /\ SumTo(h, n) \in Int /\ SumTo(fill, n) \in Int
  BY <1>6, <1>8, SumToNat, SumToInt
<1>13. A + fill[l] >= amount
  <2>1. avail[l] \in Nat /\ fill[l] \in Nat /\ fill[l] # avail[l]
    BY <1>1, <1>3
  <2> HIDE DEF A
  <2> QED BY <1>5, <1>12, <2>1 DEF Least, Greatest
<1>14. SumTo(fill, n) < amount
  BY DEF fill
<1> QED BY <1>10, <1>11, <1>12, <1>13, <1>14
-----------------------------------------------------------------------------
\* Lots without expiry.
Lasting(b) == \A l \in 1..NumLots(b) : b.lots[l].expires = NoExpiry

\* A loop without debits does nothing.
LEMMA NoDebits ==
  ASSUME NEW b, NEW ds, Len(ds) = 0
  PROVE  AfterTargeted(b, ds) = b
BY RunSteps DEF AfterTargeted

\* Nothing is due then, and expiring what is due does nothing.
LEMMA LastingExpiry ==
  ASSUME NEW b \in AccountSet, Lasting(b), NEW t \in Nat, t <= MaxNow
  PROVE  /\ Due(b, t) = {}
         /\ \A c \in AfterExpiry(b, t) : c = b
<1>1. \A l \in 1..NumLots(b) : ~(b.lots[l].expires <= t)
  BY BoundsAssumption DEF Lasting, NoExpiry
<1>2. Due(b, t) = {}
  BY <1>1 DEF Due, IsDue
<1>3. ASSUME NEW c \in AfterExpiry(b, t) PROVE c = b
  <2>1. PICK q \in Orders(Due(b, t)) : c = AfterTargeted(b, ExpiryDebits(b, q))
    BY DEF AfterExpiry, ExpiryOrders
  <2>2. Len(q) \in Nat /\ \A i \in 1..Len(q) : q[i] \in Due(b, t)
    BY <1>2, <2>1, OrderParts, AccountParts
  <2>3. Len(q) = 0
    BY <1>2, <2>2
  <2>4. Len(ExpiryDebits(b, q)) = 0
    BY <2>3 DEF ExpiryDebits
  <2> QED BY <2>1, <2>4, NoDebits
<1> QED BY <1>2, <1>3

\* Credits that last, debts within the plan's minimum m and a balance in range:
\* what lots hold can be spent, and what is owed was admitted.
Backed(b, m) ==
  /\ Lasting(b)
  /\ Debt(b) <= -m
  /\ b.balance <= MaxCredit

\* Usage that leaves the minimum is backed: it owes only once the lots are empty,
\* and then no more than the balance is below nothing.
LEMMA DebitBacked ==
  ASSUME NEW b, Sound(b), Explained(b), NEW m \in Int, Backed(b, m),
         NEW t \in Nat, t <= MaxNow, NEW net \in Nat \ {0}, NEW floor \in Int,
         NEW key \in KeySet, ~KeyUsed(b, key), b.balance - net >= m,
         NEW p, p = Debited(b, UsageRequest(net, floor), key, t)
  PROVE  Backed(p, m) /\ p.balance = b.balance - net
<1> DEFINE n == NumLots(b)
           r == UsageRequest(net, floor)
           avail == Spendable(b, t, DebitBucket(r))
           take == Fill(avail, SpendRank(b), net, n)
           e == Entry(b, -r.amount, key, r, NoEntry, take, r.amount - SumTo(take, n))
           left == [l \in 1..n |-> Rem(b, l)]
<1>1. /\ b \in AccountSet /\ n \in Nat /\ b.balance \in Int /\ RemTotal(b) \in Nat /\ Debt(b) \in Int
      /\ \A l \in 1..n : Rem(b, l) \in Nat
  BY AccountParts, RemNat, DebtInt DEF Sound, Explained
<1>2. r \in RequestSet /\ r.amount = net /\ r.kind = "usage"
  BY UsageRequestTyped
<1>3. \A l \in 1..n : avail[l] = Rem(b, l)
  <2>1. DebitBucket(r) = NoBucket
    BY <1>2 DEF DebitBucket
  <2>2. \A l \in 1..n : b.lots[l].expires > t
    BY BoundsAssumption DEF Backed, Lasting, NoExpiry
  <2> HIDE DEF r
  <2> QED BY <2>1, <2>2 DEF Spendable
<1>4. p = Posted(b, e, Consumed(b, take))
  BY <1>2 DEF Debited
<1>5. e.amount = -net
  BY <1>2 DEF Entry
<1>6. Sound(p)
  <2> HIDE DEF r
  <2> QED BY <1>2, DebitedSound DEF r
<1> HIDE DEF e, r, avail
<1>7. p.balance = b.balance - net
  <2>1. p.balance = b.balance + e.amount
    BY <1>4 DEF Posted
  <2> QED BY <1>1, <1>5, <2>1
<1>8. /\ \A l \in 1..n : SpendRank(b)[l] \in 0..n /\ SpendRank(b)[l] \in Nat
      /\ \A i, j \in 1..n : SpendRank(b)[i] = SpendRank(b)[j] => i = j
  BY <1>1, SpendRankParts
<1>9. \A l \in 1..n : avail[l] \in Nat
  BY <1>1, <1>3
<1>10. /\ \A l \in 1..n : take[l] \in Nat
       /\ SumTo(take, n) <= net
       /\ SumTo(take, n) < net => \A l \in 1..n : take[l] = avail[l]
  <2> DEFINE rank == SpendRank(b)
  <2>1. /\ \A l \in 1..n : rank[l] \in 0..n
        /\ \A l \in 1..n : rank[l] \in Nat
        /\ \A i, j \in 1..n : rank[i] = rank[j] => i = j
    BY <1>8
  <2>2. net \in Nat
    OBVIOUS
  <2> HIDE DEF rank, n
  <2>3. \A l \in 1..n : take[l] \in Nat
    BY <1>1, <1>9, <2>2, FillBounds DEF n
  <2>4. SumTo(take, n) <= net
    BY <1>1, <1>9, <2>1, <2>2, FillAtMost DEF rank
  <2>5. SumTo(take, n) < net => \A l \in 1..n : take[l] = avail[l]
    BY <1>1, <1>9, <2>1, <2>2, FillExhausts DEF rank
  <2> QED BY <2>3, <2>4, <2>5
<1> HIDE DEF take
<1>11. SumTo(take, n) \in Nat
  BY <1>1, <1>10, SumToNat
<1>12. /\ p.lots = Consumed(b, take) /\ Len(p.lots) = n
       /\ LotsRem(p.lots) = RemTotal(b) - SumTo(take, n)
  <2>1. p.lots = Consumed(b, take)
    BY <1>4 DEF Posted
  <2>2. \A l \in 1..NumLots(b) : take[l] \in Int
    BY <1>10
  <2>3. /\ Len(Consumed(b, take)) = NumLots(b)
        /\ LotsRem(Consumed(b, take)) = RemTotal(b) - SumTo(take, NumLots(b))
    BY <1>1, <2>2, ConsumedLots
  <2> QED BY <2>1, <2>3
<1>13. RemTotal(p) = RemTotal(b) - SumTo(take, n)
  BY <1>12 DEF RemTotal, LotsRem, NumLots, Rem
<1>14. Debt(b) = RemTotal(b) - b.balance /\ Debt(p) = RemTotal(p) - p.balance
  <2>1. b.balance = RemTotal(b) - Debt(b) /\ p.balance = RemTotal(p) - Debt(p)
    BY <1>6 DEF Sound, BalanceExplained
  <2>2. Debt(p) \in Int
    BY <1>6, DebtInt DEF Sound
  <2> QED BY <1>1, <1>11, <1>13, <2>1, <2>2
<1>15. Debt(p) <= -m
  <2>1. CASE SumTo(take, n) = net
    BY <1>1, <1>7, <1>13, <1>14, <2>1 DEF Backed
  <2>2. CASE SumTo(take, n) < net
    <3>1. \A l \in 1..n : take[l] = left[l]
      BY <1>3, <1>10, <2>2
    <3>2. SumTo(take, n) = RemTotal(b)
      <4>1. RemTotal(b) = SumTo(left, n)
        BY DEF RemTotal
      <4> HIDE DEF left
      <4> QED BY <1>1, <3>1, <4>1, SumToEqual
    <3>3. RemTotal(p) = 0
      BY <1>1, <1>13, <3>2
    <3> QED BY <1>1, <1>7, <1>14, <3>3
  <2> QED BY <1>10, <1>11, <2>1, <2>2
<1>16. Lasting(p)
  <2> SUFFICES ASSUME NEW l \in 1..NumLots(p) PROVE p.lots[l].expires = NoExpiry
    BY DEF Lasting
  <2>1. l \in 1..n /\ take[l] \in Int
    BY <1>10, <1>12 DEF NumLots
  <2>2. Consumed(b, take)[l].expires = b.lots[l].expires
    BY <1>1, <2>1, ConsumedEach
  <2> QED BY <1>12, <2>1, <2>2 DEF Backed, Lasting
<1>17. p.balance <= MaxCredit
  BY <1>1, <1>7, BoundsAssumption DEF Backed
<1> QED BY <1>7, <1>15, <1>16, <1>17 DEF Backed

\* A credit owes no more.
LEMMA CreditOwesLess ==
  ASSUME NEW b \in AccountSet, NEW e, NEW lots, NEW p, p = Posted(b, e, lots),
         Sound(p), Explained(p), ~(e.amount < 0)
  PROVE  Debt(p) <= Debt(b)
<1>1. /\ Len(b.entries) \in Nat /\ Len(p.entries) = Len(b.entries) + 1
      /\ p.entries[Len(b.entries) + 1] = e
  BY PostedParts
<1>2. Len(b.entries) + 1 \in 1..Len(p.entries)
  BY <1>1
<1>3. e \in EntrySet
  BY <1>1, <1>2, AccountParts DEF Sound
<1>4. e.debt >= 0
  BY <1>1, <1>2 DEF Explained, EntryFullySplit
<1>5. e.debt \in Int /\ DebtOf(e) = -e.debt /\ Debt(b) \in Int
  BY <1>3, EntryParts, DebtOfSign, DebtInt
<1>6. Debt(p) = Debt(b) + DebtOf(e)
  BY <1>3, DebtPosted
<1> QED BY <1>4, <1>5, <1>6

\* A grant without expiry is backed.
LEMMA CreditBacked ==
  ASSUME NEW b, Sound(b), Explained(b), NEW m \in Int, Backed(b, m),
         Expiries = {}, NEW r \in Grants, NEW key \in KeySet, ~KeyUsed(b, key),
         InRange(b.balance + r.amount), NEW p, p = Credited(b, r, key)
  PROVE  Backed(p, m) /\ b.balance <= p.balance
<1> DEFINE repay == Least(r.amount, Greatest(-b.balance, 0))
           bucket == IF r.bucket = NoBucket THEN DefaultBucket ELSE r.bucket
           lot == NewLot(Len(b.entries) + 1, bucket, r.amount - repay, r.expires)
           lots == IF r.amount > repay THEN Append(b.lots, lot) ELSE b.lots
           e == Entry(b, r.amount, key, r, NoEntry, NoMoves(b), repay)
<1>1. /\ r \in RequestSet /\ r.amount > 0
      /\ r.kind # "refund" /\ r.kind # "refund_clawback"
  BY RequestsTyped
<1>2. r.expires = NoExpiry /\ r.amount \in Nat
  BY <1>1 DEF Grants, Request, RequestSet
<1>3. b \in AccountSet /\ b.balance \in Int /\ b.lots \in Seq(LotSet) /\ Debt(b) \in Int
  BY AccountParts, DebtInt DEF Sound
<1>4. Sound(p) /\ Explained(p)
  BY <1>1, CreditedSound, CreditedExplained
<1>5. p = Posted(b, e, lots)
  BY DEF Credited
<1>6. e.amount = r.amount
  BY DEF Entry
<1>7. lot.expires = NoExpiry
  BY <1>2 DEF NewLot
<1>7a. lots = b.lots \/ lots = Append(b.lots, lot)
  OBVIOUS
<1> HIDE DEF e, lot, lots, repay
<1>8. p.lots = lots /\ p.balance = b.balance + r.amount
  BY <1>5, <1>6 DEF Posted
<1>9. Debt(p) <= Debt(b)
  BY <1>1, <1>2, <1>3, <1>4, <1>5, <1>6, CreditOwesLess
<1>10. Debt(p) \in Int
  BY <1>4, DebtInt DEF Sound
<1>11. Lasting(p)
  <2>1. \A l \in 1..Len(b.lots) : b.lots[l].expires = NoExpiry
    BY DEF Backed, Lasting, NumLots
  <2>2. \A l \in 1..Len(lots) : lots[l].expires = NoExpiry
    <3>1. CASE lots = b.lots
      BY <2>1, <3>1
    <3>2. CASE lots = Append(b.lots, lot)
      <4>1. lots \in Seq(LotSet) /\ Len(b.lots) \in Nat
        BY <1>3, <1>4, <1>8, AccountParts DEF Sound
      <4>2. Len(lots) = Len(b.lots) + 1 /\ \A l \in 1..Len(b.lots) : lots[l] = b.lots[l]
        BY <1>3, <3>2
      <4>3. lots[Len(b.lots) + 1] = lot
        BY <1>3, <3>2
      <4> QED BY <1>7, <2>1, <4>1, <4>2, <4>3
    <3> QED BY <1>7a, <3>1, <3>2
  <2> QED BY <1>8, <2>2 DEF Lasting, NumLots
<1>12. p.balance <= MaxCredit /\ b.balance <= p.balance
  BY <1>2, <1>3, <1>8 DEF InRange
<1> QED BY <1>3, <1>9, <1>10, <1>11, <1>12 DEF Backed

\* A refund is backed: it restores to lots that last, and expires nothing.
LEMMA RefundBacked ==
  ASSUME Sound(acct), Explained(acct), NEW m \in Int, Backed(acct, m),
         NEW t \in Nat, t <= MaxNow, NEW k \in Keys, NEW e \in 1..Len(acct.entries),
         NEW a \in Amounts \cup {0}, Refund(t, k, e, a)
  PROVE  Backed(acct', m) /\ acct.balance <= acct'.balance
<1> DEFINE b == acct
           key == CallerKey(k)
           req == Request("refund", a, "refund", e, NoBucket, NoExpiry, NoFloor)
           amt == RefundAmount(b, e, a)
<1>1. /\ b \in AccountSet /\ NumLots(b) \in Nat /\ b.balance \in Int /\ Debt(b) \in Int
      /\ Len(b.entries) + 1 \in Nat
  BY AccountParts, DebtInt DEF Sound
<1>2. amt \in Int
  <2>1. ReferencedBy(b, e, "refund") \in Int /\ a \in Int /\ b.entries[e].amount \in Int
    <3>1. b.entries[e] \in EntrySet
      BY <1>1, AccountParts
    <3> QED BY <1>1, <3>1, EntryParts, ReferencedInt, BoundsAssumption
  <2> QED BY <2>1 DEF RefundAmount
<1>3. amt > 0 /\ InRange(b.balance + amt)
  <2>1. RefundError(b, e, amt) = "ok"
    BY DEF Refund
  <2> HIDE DEF amt
  <2>2. ~(amt <= 0) /\ InRange(b.balance + amt)
    BY <2>1 DEF RefundError
  <2> QED BY <1>2, <2>2
<1>4. PICK rank \in RestoreRanks(b) :
        \E q \in Orders({l \in 1..NumLots(b) :
                           Give(b, e, amt, rank)[l] > 0 /\ b.lots[l].expires <= t}) :
          acct' = AfterTargeted(Refunded(b, e, amt, key, req, rank),
                                RefundExpiryDebits(b, Give(b, e, amt, rank), q))
  BY DEF Refund
<1> DEFINE n == NumLots(b)
           give == Give(b, e, amt, rank)
           mid == Refunded(b, e, amt, key, req, rank)
           late == {l \in 1..n : give[l] > 0 /\ b.lots[l].expires <= t}
<1>5. PICK q \in Orders(late) : acct' = AfterTargeted(mid, RefundExpiryDebits(b, give, q))
  BY <1>4
<1>6. late = {}
  BY BoundsAssumption DEF Backed, Lasting, NoExpiry
<1>7. acct' = mid
  <2> HIDE DEF mid, late, give
  <2>1. Len(q) \in Nat /\ \A i \in 1..Len(q) : q[i] \in late
    BY <1>1, <1>5, <1>6, OrderParts
  <2>2. Len(q) = 0
    BY <1>6, <2>1
  <2>3. Len(RefundExpiryDebits(b, give, q)) = 0
    BY <2>2 DEF RefundExpiryDebits
  <2> QED BY <1>5, <2>3, NoDebits
<1>8. Sound(acct') /\ Explained(acct')
  BY RefundSound
<1> DEFINE back == GaveBack(b, give)
           left == amt - SumTo(give, n)
           repay == Least(left, Greatest(-b.balance, 0))
           lot == NewLot(Len(b.entries) + 1, DefaultBucket, left - repay, NoExpiry)
           lots == IF left > repay THEN Append(back, lot) ELSE back
           x == Entry(b, amt, key, req, e, give, repay)
<1>9. acct' = Posted(b, x, lots)
  BY <1>7 DEF Refunded
<1>10. x.amount = amt /\ lot.expires = NoExpiry
  BY DEF Entry, NewLot
<1>11. \A l \in 1..n : give[l] \in Int
  BY <1>1, <1>2, GiveInt
<1>12. back \in Seq(LotSet) /\ Len(back) = n
  BY <1>1, <1>11, GaveBackLots
<1>13. \A l \in 1..n : back[l].expires = NoExpiry
  <2> SUFFICES ASSUME NEW l \in 1..n PROVE back[l].expires = NoExpiry
    OBVIOUS
  <2>1. back[l].expires = b.lots[l].expires
    BY <1>1, <1>11, GaveBackEach
  <2> QED BY <2>1 DEF Backed, Lasting
<1>14. lots = back \/ lots = Append(back, lot)
  OBVIOUS
<1> HIDE DEF x, lot, repay, left, back, lots, give, mid, amt, key, req
<1>15. acct'.lots = lots /\ acct'.balance = b.balance + amt
  BY <1>9, <1>10 DEF Posted
<1>16. Debt(acct') <= Debt(b) /\ Debt(acct') \in Int
  <2>1. ~(x.amount < 0)
    BY <1>2, <1>3, <1>10
  <2>2. Debt(acct') <= Debt(b)
    BY <1>1, <1>8, <1>9, <2>1, CreditOwesLess
  <2> QED BY <1>8, <2>2, DebtInt DEF Sound
<1>17. \A l \in 1..Len(lots) : lots[l].expires = NoExpiry
  <2>1. CASE lots = back
    BY <1>12, <1>13, <2>1
  <2>2. CASE lots = Append(back, lot)
    <3>1. Len(lots) = n + 1 /\ lots[n + 1] = lot /\ \A l \in 1..n : lots[l] = back[l]
      BY <1>12, <2>2
    <3> QED BY <1>1, <1>10, <1>13, <3>1
  <2> QED BY <1>14, <2>1, <2>2
<1>18. Lasting(acct')
  BY <1>15, <1>17 DEF Lasting, NumLots
<1>19. acct'.balance <= MaxCredit /\ b.balance <= acct'.balance
  BY <1>1, <1>2, <1>3, <1>15 DEF InRange
<1> QED BY <1>1, <1>16, <1>18, <1>19 DEF Backed

\* A sweep finds nothing to expire.
LEMMA SweepBacked ==
  ASSUME Sound(acct), NEW m \in Int, Backed(acct, m), NEW t \in Nat, t <= MaxNow,
         NEW limit \in 1..2, Sweep(t, limit)
  PROVE  acct' = acct
<1>1. acct \in AccountSet /\ NumLots(acct) \in Nat
  BY AccountParts DEF Sound
<1>2. Due(acct, t) = {}
  BY <1>1, LastingExpiry DEF Backed
<1>3. PICK q \in Orders(Due(acct, t)) :
        acct' = AfterTargeted(acct, ExpiryDebits(acct, SubSeq(q, 1, Least(limit, Len(q)))))
  BY DEF Sweep, ExpiryOrders
<1>4. Len(q) \in Nat /\ \A i \in 1..Len(q) : q[i] \in Due(acct, t)
  BY <1>1, <1>2, OrderParts
<1>5. Len(q) = 0
  BY <1>2, <1>4
<1> DEFINE batch == SubSeq(q, 1, Least(limit, Len(q)))
<1>6. Len(batch) = 0
  BY <1>5 DEF Least
<1> HIDE DEF batch
<1>7. Len(ExpiryDebits(acct, batch)) = 0
  BY <1>6 DEF ExpiryDebits
<1> QED BY <1>3, <1>7, NoDebits DEF batch
-----------------------------------------------------------------------------
\* What is held is no less than nothing.
LEMMA HeldNat ==
  ASSUME NEW ls, LeasesOK(ls), NEW t \in Int
  PROVE  HeldExcept(ls, t, 0) \in Nat
<1> DEFINE i == 0
<1> HIDE DEF i
<1>1. HeldExcept(ls, t, i) \in Nat
  BY HeldExceptParts
<1> QED BY <1>1 DEF i

\* What is held besides lease i, and by it.
LEMMA HeldAlone ==
  ASSUME NEW ls, LeasesOK(ls), NEW t \in Int, NEW i \in 1..Len(ls), IsHolding(ls[i], t)
  PROVE  HeldExcept(ls, t, 0) = HeldExcept(ls, t, i) + Hold(ls[i])
<1> DEFINE n == Len(ls)
           f == [j \in 1..n |-> IF j # i /\ IsHolding(ls[j], t) THEN Hold(ls[j]) ELSE 0]
           g == [j \in 1..n |-> IF j # 0 /\ IsHolding(ls[j], t) THEN Hold(ls[j]) ELSE 0]
           c == Hold(ls[i])
<1>1. n \in Nat /\ \A j \in 1..n : Hold(ls[j]) \in Int
  BY LeaseParts DEF Hold
<1>2. \A j \in 1..n : f[j] \in Int /\ g[j] \in Int
  BY <1>1
<1>3. g[i] = f[i] + c /\ c \in Int /\ \A j \in 1..n : j # i => g[j] = f[j]
  BY <1>1
<1>4. HeldExcept(ls, t, 0) = SumTo(g, n) /\ HeldExcept(ls, t, i) = SumTo(f, n)
  BY DEF HeldExcept
<1> HIDE DEF f, g, c
<1>5. SumTo(g, n) = SumTo(f, n) + c
  <2>1. n \in Nat /\ i \in 1..n
    BY <1>1
  <2> HIDE DEF n
  <2> QED BY <1>2, <1>3, <2>1, SumToChanged
<1> QED BY <1>4, <1>5 DEF c

\* No more is held when the leases that hold held as much before.
LEMMA HeldAtMost ==
  ASSUME NEW ls, LeasesOK(ls), NEW ms, LeasesOK(ms), Len(ms) = Len(ls), NEW t \in Int,
         \A j \in 1..Len(ls) :
           IsHolding(ms[j], t) => IsHolding(ls[j], t) /\ Hold(ms[j]) = Hold(ls[j])
  PROVE  HeldExcept(ms, t, 0) <= HeldExcept(ls, t, 0)
<1> DEFINE n == Len(ls)
           f == [j \in 1..n |-> IF j # 0 /\ IsHolding(ms[j], t) THEN Hold(ms[j]) ELSE 0]
           g == [j \in 1..n |-> IF j # 0 /\ IsHolding(ls[j], t) THEN Hold(ls[j]) ELSE 0]
<1>1. n \in Nat /\ \A j \in 1..n : Hold(ls[j]) \in Nat
  BY LeaseParts DEF Hold
<1>2. \A j \in 1..n : f[j] \in Int /\ g[j] \in Int /\ f[j] <= g[j]
  BY <1>1
<1>3. HeldExcept(ls, t, 0) = SumTo(g, n) /\ HeldExcept(ms, t, 0) = SumTo(f, n)
  BY DEF HeldExcept
<1> HIDE DEF f, g
<1> QED BY <1>1, <1>2, <1>3, SumToAtMost

\* A new lease holds its amount less its allowance.
LEMMA HeldLeased ==
  ASSUME NEW ls, LeasesOK(ls), NEW l \in LeaseSet, l.allowance <= l.amount, NEW t \in Int
  PROVE  HeldExcept(Append(ls, l), t, 0) <= HeldExcept(ls, t, 0) + Hold(l)
<1> DEFINE n == Len(ls)
           ms == Append(ls, l)
           f == [j \in 1..(n+1) |-> IF j # 0 /\ IsHolding(ms[j], t) THEN Hold(ms[j]) ELSE 0]
           g == [j \in 1..n |-> IF j # 0 /\ IsHolding(ls[j], t) THEN Hold(ls[j]) ELSE 0]
<1>1. n \in Nat /\ ls \in Seq(LeaseSet) /\ \A j \in 1..n : Hold(ls[j]) \in Nat
  BY LeaseParts DEF Hold, LeasesOK
<1>2. Len(ms) = n + 1 /\ ms[n+1] = l /\ \A j \in 1..n : ms[j] = ls[j]
  BY <1>1
<1>3. Hold(l) \in Nat
  BY DEF Hold, LeaseSet
<1>4. HeldExcept(ls, t, 0) = SumTo(g, n)
  BY DEF HeldExcept
<1> HIDE DEF ms
<1>5. HeldExcept(ms, t, 0) = SumTo(f, n + 1)
  BY <1>2 DEF HeldExcept
<1>6. /\ \A j \in 1..n : f[j] = g[j] /\ g[j] \in Int
      /\ f[n+1] \in Int /\ f[n+1] <= Hold(l)
  BY <1>1, <1>2, <1>3
<1> HIDE DEF f, g
<1>7. SumTo(f, n + 1) = SumTo(f, n) + f[n+1] /\ SumTo(f, n) = SumTo(g, n)
  BY <1>1, <1>6, SumToStep, SumToEqual
<1>8. SumTo(g, n) \in Int
  BY <1>1, <1>6, SumToInt
<1> QED BY <1>3, <1>4, <1>5, <1>6, <1>7, <1>8 DEF ms

\* Leases that end hold nothing, and keep their floors.
LEMMA EndedHolds ==
  ASSUME LeasesOK(leases), NEW S, NEW st, st \in {"settled", "released", "expired"},
         now \in Int, \A j \in 1..Len(leases) : leases[j].floor = policyMin,
         NEW ls, ls = WithStatus(S, st)
  PROVE  /\ HeldExcept(ls, now, 0) <= HeldExcept(leases, now, 0)
         /\ \A j \in 1..Len(ls) : ls[j].floor = policyMin
<1>1. /\ LeasesOK(ls) /\ Len(ls) = Len(leases)
      /\ \A j \in 1..Len(leases) :
           /\ ls[j].status = IF j \in S THEN st ELSE leases[j].status
           /\ j \notin S => ls[j] = leases[j]
  BY WithStatusParts
<1>2. \A j \in 1..Len(leases) :
        IsHolding(ls[j], now) => IsHolding(leases[j], now) /\ Hold(ls[j]) = Hold(leases[j])
  BY <1>1 DEF IsHolding
<1>3. ASSUME NEW j \in 1..Len(ls) PROVE ls[j].floor = policyMin
  <2>1. ls[j] = IF j \in S THEN [leases[j] EXCEPT !.status = st] ELSE leases[j]
    BY <1>1 DEF WithStatus
  <2>2. leases[j] \in LeaseSet /\ leases[j].floor = policyMin
    BY <1>1, LeaseParts
  <2> QED BY <2>1, <2>2 DEF LeaseSet
<1> QED BY <1>1, <1>2, <1>3, HeldAtMost

\* A lease that is renewed while it holds goes on holding as much.
LEMMA RenewedHolds ==
  ASSUME LeasesOK(leases), WindowsOK(leases, windows), NEW i \in 1..Len(leases),
         now \in Int, IsHolding(leases[i], now), NEW u \in Nat,
         \A j \in 1..Len(leases) : leases[j].floor = policyMin
  PROVE  LET ms == [leases EXCEPT ![i].expires = u]
         IN  /\ HeldExcept(ms, now, 0) <= HeldExcept(leases, now, 0)
             /\ \A j \in 1..Len(ms) : ms[j].floor = policyMin
<1> DEFINE ms == [leases EXCEPT ![i].expires = u]
<1>1. LeasesOK(ms) /\ Len(ms) = Len(leases)
  BY RenewedOK
<1>2. leases \in Seq(LeaseSet) /\ \A j \in 1..Len(leases) : leases[j] \in LeaseSet
  BY LeaseParts DEF LeasesOK
<1>3. ms[i] = [leases[i] EXCEPT !.expires = u] /\ \A j \in 1..Len(leases) : j # i => ms[j] = leases[j]
  BY <1>2
<1> HIDE DEF ms
<1>4. Hold(ms[i]) = Hold(leases[i]) /\ ms[i].floor = leases[i].floor
  BY <1>2, <1>3 DEF Hold, LeaseSet
<1>5. \A j \in 1..Len(leases) :
        IsHolding(ms[j], now) => IsHolding(leases[j], now) /\ Hold(ms[j]) = Hold(leases[j])
  BY <1>3, <1>4
<1>6. \A j \in 1..Len(ms) : ms[j].floor = policyMin
  BY <1>1, <1>3, <1>4
<1> QED BY <1>1, <1>5, <1>6, HeldAtMost DEF ms
-----------------------------------------------------------------------------
\* Nothing but leases, charges and credits: calls apply in the order of their
\* timestamps, the plan stays, credits last, nothing else debits the account, and
\* plans allow no balance out of range.
Undisturbed ==
  /\ MaxLag = 0
  /\ PlanChanges = {}
  /\ Expiries = {}
  /\ LedgerCalls \subseteq {"grant", "refund", "sweep"}
  /\ \A f \in Floors : InRange(f)

\* The holds are there: the balance covers them down to the minimum they were
\* admitted under, with credits that last and debts within that minimum.
HoldsInv ==
  /\ UsageInv
  /\ Backed(acct, policyMin)
  /\ acct.balance - HeldExcept(leases, now, 0) >= policyMin
  /\ \A j \in 1..Len(leases) : leases[j].floor = policyMin

\* The parts of the invariant.
LEMMA HoldsParts ==
  ASSUME HoldsInv
  PROVE  /\ now \in Nat /\ now <= MaxNow /\ policyMin \in Floors /\ policyMin \in Int
         /\ policyMin <= 0
         /\ Sound(acct) /\ Explained(acct) /\ acct \in AccountSet /\ acct.balance \in Int
         /\ LeasesOK(leases) /\ WindowsOK(leases, windows) /\ Len(charges) \in Nat
         /\ ~KeyUsed(acct, UsageLedgerKey(Len(charges) + 1))
         /\ \A i : HeldExcept(leases, now, i) \in Nat
<1>1. UsageInv
  BY DEF HoldsInv
<1>2. /\ now \in 0..MaxNow /\ policyMin \in Floors /\ Sound(acct) /\ Explained(acct)
      /\ acct \in AccountSet /\ LeasesOK(leases) /\ WindowsOK(leases, windows)
      /\ Len(charges) \in Nat /\ ~KeyUsed(acct, UsageLedgerKey(Len(charges) + 1))
  BY <1>1, UsageParts
<1>3. now \in Nat /\ now <= MaxNow /\ policyMin \in Int /\ policyMin <= 0
  BY <1>2, BoundsAssumption, CatalogAssumption
<1>4. acct.balance \in Int
  BY <1>2, AccountParts
<1>5. \A i : HeldExcept(leases, now, i) \in Nat
  BY <1>2, <1>3, HeldExceptParts
<1> QED BY <1>2, <1>3, <1>4, <1>5

\* Without lag every call runs at the present time.
LEMMA StampNow ==
  ASSUME Undisturbed, now \in Nat, NEW t \in Stamps
  PROVE  t = now
BY DEF Undisturbed, Stamps

\* Grants, refunds and sweeps leave the holds covered, and time releases them.
LEMMA LedgerHolds ==
  ASSUME Undisturbed, HoldsInv, LedgerCall, UNCHANGED usage
  PROVE  HoldsInv'
<1>1. /\ now \in Nat /\ now <= MaxNow /\ policyMin \in Floors /\ policyMin \in Int
      /\ Sound(acct) /\ Explained(acct) /\ acct \in AccountSet /\ acct.balance \in Int
      /\ LeasesOK(leases) /\ HeldExcept(leases, now, 0) \in Nat
  BY HoldsParts
<1>2. /\ Backed(acct, policyMin) /\ UsageInv
      /\ acct.balance - HeldExcept(leases, now, 0) >= policyMin
      /\ \A j \in 1..Len(leases) : leases[j].floor = policyMin
  BY DEF HoldsInv
<1>3. UsageInv'
  BY <1>2, LedgerCallKeeps
<1>4. acct'.balance \in Int
  BY <1>3, AccountParts DEF UsageInv, IInv, Sound
<1>5. UNCHANGED leases
  BY DEF usage
<1>6. ASSUME UNCHANGED <<now, policyMin>>, Backed(acct', policyMin), acct.balance <= acct'.balance
      PROVE  HoldsInv'
  <2>1. acct'.balance - HeldExcept(leases, now, 0) >= policyMin
    BY <1>1, <1>2, <1>4, <1>6
  <2> QED BY <1>2, <1>3, <1>5, <1>6, <2>1 DEF HoldsInv
<1>7. ASSUME NEW t \in Stamps, NEW k \in Keys, NEW r \in Grants, PostCredit(t, k, r)
      PROVE  HoldsInv'
  <2> DEFINE key == CallerKey(k)
  <2>1. UNCHANGED <<now, policyMin>> /\ t = now /\ ~KeyUsed(acct, key)
    BY <1>1, <1>7, StampNow DEF PostCredit
  <2>2. PICK b \in AfterExpiry(acct, t) : acct' = CreditOutcome(b, t, key, r).acct
    BY <1>7 DEF PostCredit
  <2>3. b = acct
    BY <1>1, <1>2, <2>1, <2>2, LastingExpiry DEF Backed
  <2>4. key \in KeySet
    BY CallerKeys
  <2> HIDE DEF key
  <2>5. CASE CreditError(acct, r, t) = "ok"
    <3>1. InRange(acct.balance + r.amount)
      BY <2>5 DEF CreditError
    <3>2. acct' = Credited(acct, r, key)
      BY <2>2, <2>3, <2>5 DEF CreditOutcome
    <3>3. Backed(acct', policyMin) /\ acct.balance <= acct'.balance
      BY <1>1, <1>2, <2>1, <2>4, <3>1, <3>2, CreditBacked DEF Undisturbed
    <3> QED BY <1>6, <2>1, <3>3
  <2>6. CASE CreditError(acct, r, t) # "ok"
    <3>1. acct' = acct
      BY <2>2, <2>3, <2>6 DEF CreditOutcome
    <3> QED BY <1>1, <1>2, <1>6, <2>1, <3>1
  <2> QED BY <2>5, <2>6
<1>8. ASSUME NEW t \in Stamps, NEW k \in Keys, NEW e \in 1..Len(acct.entries),
             Refund(t, k, e, 0)
      PROVE  HoldsInv'
  <2>1. UNCHANGED <<now, policyMin>> /\ t = now
    BY <1>1, <1>8, StampNow DEF Refund
  <2>2. 0 \in Amounts \cup {0} /\ t \in Nat /\ t <= MaxNow
    BY <1>1, <2>1
  <2>3. Backed(acct', policyMin) /\ acct.balance <= acct'.balance
    BY <1>1, <1>2, <1>8, <2>2, RefundBacked
  <2> QED BY <1>6, <2>1, <2>3
<1>9. ASSUME NEW t \in Stamps, NEW limit \in 1..2, Sweep(t, limit)
      PROVE  HoldsInv'
  <2>1. UNCHANGED <<now, policyMin>> /\ t = now
    BY <1>1, <1>9, StampNow DEF Sweep
  <2>2. acct' = acct
    BY <1>1, <1>2, <1>9, <2>1, SweepBacked
  <2> QED BY <1>1, <1>2, <1>6, <2>1, <2>2
<1>10. ASSUME Tick PROVE HoldsInv'
  <2>1. now' = now + 1 /\ UNCHANGED <<acct, policyMin>>
    BY <1>10 DEF Tick
  <2>2. /\ HeldExcept(leases, now', 0) \in Nat
        /\ HeldExcept(leases, now', 0) <= HeldExcept(leases, now, 0)
    <3> DEFINE u == now'
               i == 0
    <3>1. u \in Int /\ now \in Int /\ now <= u
      BY <1>1, <2>1
    <3> HIDE DEF u, i
    <3>2. HeldExcept(leases, u, i) \in Nat /\ HeldExcept(leases, u, i) <= HeldExcept(leases, now, i)
      BY <1>1, <3>1, HeldExceptParts
    <3> QED BY <3>2 DEF u, i
  <2>3. acct'.balance - HeldExcept(leases, now', 0) >= policyMin
    BY <1>1, <1>2, <2>1, <2>2
  <2> QED BY <1>2, <1>3, <1>5, <2>1, <2>3 DEF HoldsInv
<1>11. "adjustment" \notin LedgerCalls /\ "clawback" \notin LedgerCalls /\ PlanChanges = {}
  BY DEF Undisturbed
<1> QED BY <1>7, <1>8, <1>9, <1>10, <1>11 DEF LedgerCall, SweepAny

\* A charge under the plan's minimum leaves what others hold, or is refused and
\* leaves the account as it is.
LEMMA OutcomeHolds ==
  ASSUME HoldsInv, NEW net \in Nat, NEW floor \in Int, FloorOf(floor) = policyMin,
         NEW held \in Nat, NEW o \in ChargeOutcomes(now, net, floor, held)
  PROVE  /\ Backed(o.acct, policyMin)
         /\ (o.error # "ok" \/ net = 0) => o.acct = acct
         /\ (o.error = "ok" /\ net # 0) => o.acct.balance - held >= policyMin
<1>1. /\ now \in Nat /\ now <= MaxNow /\ policyMin \in Int
      /\ Sound(acct) /\ Explained(acct) /\ acct \in AccountSet /\ acct.balance \in Int
      /\ Len(charges) \in Nat /\ ~KeyUsed(acct, UsageLedgerKey(Len(charges) + 1))
  BY HoldsParts
<1>2. Backed(acct, policyMin)
  BY DEF HoldsInv
<1>3. CASE net = 0
  <2>1. o = [acct |-> acct, error |-> "ok"]
    BY <1>3 DEF ChargeOutcomes
  <2> QED BY <1>2, <1>3, <2>1
<1>4. CASE net # 0
  <2> DEFINE key == UsageLedgerKey(Len(charges) + 1)
             r == UsageRequest(net, floor)
  <2>1. PICK b \in AfterExpiry(acct, now) : o = DebitOutcome(b, now, key, r, held)
    BY <1>4 DEF ChargeOutcomes
  <2>2. b = acct
    BY <1>1, <1>2, <2>1, LastingExpiry DEF Backed
  <2>3. key \in KeySet /\ ~KeyUsed(acct, key)
    BY <1>1, UsageKeys
  <2>4. r.amount = net /\ r.kind = "usage" /\ r.floor = floor
    BY UsageRequestTyped
  <2> HIDE DEF key
  <2>5. /\ o.error = DebitError(acct, r, now, held)
        /\ o.acct = IF o.error = "ok" THEN Debited(acct, r, key, now) ELSE acct
    BY <2>1, <2>2 DEF DebitOutcome
  <2>6. CASE o.error # "ok"
    BY <1>2, <1>4, <2>5, <2>6
  <2>7. CASE o.error = "ok"
    <3>1. acct.balance - net - held >= policyMin
      <4> HIDE DEF r
      <4>1. ~(acct.balance - r.amount - held < Floor(r))
        BY <2>4, <2>5, <2>7 DEF DebitError
      <4>2. Floor(r) = policyMin
        BY <2>4 DEF Floor, FloorOf
      <4> QED BY <1>1, <2>4, <4>1, <4>2
    <3>2. acct.balance - net >= policyMin
      BY <1>1, <3>1
    <3>3. o.acct = Debited(acct, UsageRequest(net, floor), key, now)
      BY <2>5, <2>7
    <3>4. Backed(o.acct, policyMin) /\ o.acct.balance = acct.balance - net
      BY <1>1, <1>2, <1>4, <2>3, <3>2, <3>3, DebitBacked
    <3> QED BY <1>1, <1>4, <2>7, <3>1, <3>4
  <2> QED BY <2>6, <2>7
<1> QED BY <1>3, <1>4

\* charge_usage_for_operation.
LEMMA ChargeHolds ==
  ASSUME Undisturbed, HoldsInv, NEW t \in Stamps, NEW k \in ChargeKeys, NEW a \in Amounts,
         ChargeForOperation(t, k, a)
  PROVE  HoldsInv'
<1> DEFINE x == CurrentWindow(t)
           w == WithWindow(windows, x)
           room == Allowance[x[1]] - w[x].reserved - w[x].consumed
           before == CreditBeforeAllowance(t, 0)
           free == Covered(a, room, before)
           held == HeldExcept(leases, t, 0)
<1>1. /\ now \in Nat /\ policyMin \in Floors /\ policyMin \in Int
      /\ acct \in AccountSet /\ acct.balance \in Int
      /\ LeasesOK(leases) /\ WindowsOK(leases, windows) /\ HeldExcept(leases, now, 0) \in Nat
  BY HoldsParts
<1>2. /\ UsageInv /\ acct.balance - HeldExcept(leases, now, 0) >= policyMin
      /\ \A j \in 1..Len(leases) : leases[j].floor = policyMin
  BY DEF HoldsInv
<1>3. UsageInv'
  BY <1>2, ChargeKeeps
<1>4. t = now /\ a \in Nat
  BY <1>1, StampNow, BoundsAssumption
<1>5. PICK o \in ChargeOutcomes(t, a - free, NoFloor, held) : acct' = o.acct
  BY DEF ChargeForOperation
<1>6. UNCHANGED <<now, policyMin, leases>>
  BY DEF ChargeForOperation
<1>7. free \in Nat /\ free <= a
  <2>1. x \in Floors \X Nat /\ Allowance[x[1]] \in Nat
    BY <1>1, <1>4, CurrentWindowParts
  <2> HIDE DEF x
  <2>2. WindowsOK(leases, w) /\ x \in DOMAIN w
    BY <1>1, <2>1, WithWindowOK
  <2>3. room \in Int
    <3>1. WindowOK(leases, x, w[x])
      BY <2>2 DEF WindowsOK
    <3> QED BY <2>1, <3>1 DEF WindowOK
  <2>4. before \in Nat
    BY <1>1, <1>4, CreditBeforeNat
  <2> HIDE DEF room, before
  <2> QED BY <1>4, <2>3, <2>4, CoveredParts
<1> HIDE DEF free
<1>8. a - free \in Nat /\ NoFloor \in Int /\ FloorOf(NoFloor) = policyMin
  BY <1>4, <1>7 DEF NoFloor, FloorOf
<1> DEFINE net == a - free
           floor == NoFloor
<1>9. /\ net \in Nat /\ floor \in Int /\ FloorOf(floor) = policyMin /\ held \in Nat
      /\ o \in ChargeOutcomes(now, net, floor, held)
  BY <1>1, <1>4, <1>5, <1>8
<1>10. held = HeldExcept(leases, now, 0)
  BY <1>4
<1> HIDE DEF net, floor, held
<1>11. /\ Backed(acct', policyMin)
       /\ (o.error # "ok" \/ net = 0) => acct' = acct
       /\ (o.error = "ok" /\ net # 0) => acct'.balance - held >= policyMin
  BY <1>5, <1>9, OutcomeHolds
<1>12. acct'.balance - HeldExcept(leases, now, 0) >= policyMin
  BY <1>2, <1>10, <1>11
<1> QED BY <1>2, <1>3, <1>6, <1>11, <1>12 DEF HoldsInv

\* Leases that end free what they held.
LEMMA EndHolds ==
  ASSUME HoldsInv, NEW S, S \subseteq ActiveLeases, NEW st, st \in {"released", "expired"},
         EndLeases(S, st)
  PROVE  HoldsInv'
<1>1. /\ now \in Nat /\ policyMin \in Int /\ acct.balance \in Int /\ LeasesOK(leases)
      /\ HeldExcept(leases, now, 0) \in Nat
  BY HoldsParts
<1>2. /\ UsageInv /\ Backed(acct, policyMin)
      /\ acct.balance - HeldExcept(leases, now, 0) >= policyMin
      /\ \A j \in 1..Len(leases) : leases[j].floor = policyMin
  BY DEF HoldsInv
<1>3. UsageInv'
  BY <1>2, EndKeeps
<1>4. leases' = WithStatus(S, st) /\ UNCHANGED <<now, acct, policyMin>>
  BY DEF EndLeases, ledger
<1>5. /\ HeldExcept(leases', now, 0) <= HeldExcept(leases, now, 0)
      /\ \A j \in 1..Len(leases') : leases'[j].floor = policyMin
  BY <1>1, <1>2, <1>4, EndedHolds
<1>6. HeldExcept(leases', now, 0) \in Nat
  <2>1. LeasesOK(leases')
    BY <1>3 DEF UsageInv
  <2> QED BY <1>1, <2>1, HeldNat
<1>7. acct.balance - HeldExcept(leases', now, 0) >= policyMin
  BY <1>1, <1>2, <1>5, <1>6
<1> QED BY <1>2, <1>3, <1>4, <1>5, <1>7 DEF HoldsInv

\* renew_lease extends a hold that is there.
LEMMA RenewHolds ==
  ASSUME Undisturbed, HoldsInv, NEW t \in Stamps, NEW i \in 1..Len(leases), NEW d \in TTLs,
         Renew(t, i, d)
  PROVE  HoldsInv'
<1> DEFINE u == Greatest(leases[i].expires, t + d)
           ms == [leases EXCEPT ![i].expires = u]
<1>1. /\ now \in Nat /\ policyMin \in Int /\ acct.balance \in Int /\ LeasesOK(leases)
      /\ WindowsOK(leases, windows) /\ HeldExcept(leases, now, 0) \in Nat
  BY HoldsParts
<1>2. /\ UsageInv /\ Backed(acct, policyMin)
      /\ acct.balance - HeldExcept(leases, now, 0) >= policyMin
      /\ \A j \in 1..Len(leases) : leases[j].floor = policyMin
  BY DEF HoldsInv
<1>3. UsageInv'
  BY <1>2, RenewKeeps
<1>4. t = now
  BY <1>1, StampNow
<1>5. /\ leases' = ms /\ UNCHANGED <<now, acct, policyMin>>
      /\ IsHolding(leases[i], now)
  BY <1>4 DEF Renew, ledger
<1>6. u \in Nat
  <2>1. d \in Nat /\ leases[i].expires \in Nat
    BY <1>1, LeaseParts, AdmissionAssumption
  <2> QED BY <1>1, <1>4, <2>1 DEF Greatest
<1> HIDE DEF u
<1>7. /\ HeldExcept(leases', now, 0) <= HeldExcept(leases, now, 0)
      /\ \A j \in 1..Len(leases') : leases'[j].floor = policyMin
  <2>1. now \in Int
    BY <1>1
  <2>2. /\ LeasesOK(leases) /\ WindowsOK(leases, windows) /\ IsHolding(leases[i], now)
        /\ \A j \in 1..Len(leases) : leases[j].floor = policyMin
    BY <1>1, <1>2, <1>5
  <2>3. /\ HeldExcept(ms, now, 0) <= HeldExcept(leases, now, 0)
        /\ \A j \in 1..Len(ms) : ms[j].floor = policyMin
    BY <1>6, <2>1, <2>2, RenewedHolds, Zenon
  <2> HIDE DEF ms
  <2> QED BY <1>5, <2>3
<1>8. HeldExcept(leases', now, 0) \in Nat
  <2>1. LeasesOK(leases')
    BY <1>3 DEF UsageInv
  <2> QED BY <1>1, <2>1, HeldNat
<1>9. acct.balance - HeldExcept(leases', now, 0) >= policyMin
  BY <1>1, <1>2, <1>7, <1>8
<1> QED BY <1>2, <1>3, <1>5, <1>7, <1>9 DEF HoldsInv

\* Credits that are due are no less than nothing.
LEMMA DueTotalNat ==
  ASSUME NEW b \in AccountSet, LotsInBounds(b), NEW t
  PROVE  DueTotal(b, t) \in Nat
<1> DEFINE n == NumLots(b)
           f == [l \in 1..n |-> IF IsDue(b, l, t) THEN Rem(b, l) ELSE 0]
<1>1. n \in Nat /\ \A l \in 1..n : f[l] \in Nat
  BY AccountParts, RemNat
<1>2. DueTotal(b, t) = SumTo(f, n)
  BY DEF DueTotal
<1> HIDE DEF f
<1> QED BY <1>1, <1>2, SumToNat

\* create_lease admits what the balance covers besides the other holds.
LEMMA CreateHolds ==
  ASSUME Undisturbed, HoldsInv, NEW t \in Stamps, NEW k \in LeaseKeys, NEW a \in Amounts,
         NEW d \in TTLs, CreateLease(t, k, a, d)
  PROVE  HoldsInv'
<1> DEFINE stale == DueLeases(t)
           ls == WithStatus(stale, "expired")
           x == CurrentWindow(t)
           w == WithWindow(Released(stale), x)
           hold == Covered(a, Allowance[x[1]] - w[x].reserved - w[x].consumed,
                           CreditBeforeAllowance(t, 0))
           fresh == [key |-> k, window |-> x, amount |-> a, allowance |-> hold,
                     floor |-> policyMin, expires |-> t + d, status |-> "active"]
<1>1. /\ now \in Nat /\ policyMin \in Int /\ acct.balance \in Int /\ LeasesOK(leases)
      /\ acct \in AccountSet /\ Explained(acct) /\ HeldExcept(leases, now, 0) \in Nat
  BY HoldsParts
<1>2. /\ UsageInv /\ Backed(acct, policyMin)
      /\ acct.balance - HeldExcept(leases, now, 0) >= policyMin
      /\ \A j \in 1..Len(leases) : leases[j].floor = policyMin
  BY DEF HoldsInv
<1>3. UsageInv'
  BY <1>2, CreateKeeps
<1>4. t = now /\ a \in Nat
  BY <1>1, StampNow, BoundsAssumption
<1>5. /\ UNCHANGED <<now, acct, policyMin>>
      /\ \/ leases' = ls
         \/ LeaseError(t, a, hold, w[x]) = "ok" /\ leases' = Append(ls, fresh)
  BY DEF CreateLease, ledger
<1>6. /\ HeldExcept(ls, now, 0) <= HeldExcept(leases, now, 0)
      /\ \A j \in 1..Len(ls) : ls[j].floor = policyMin
  BY <1>1, <1>2, EndedHolds
<1>7. LeasesOK(ls) /\ HeldExcept(ls, now, 0) \in Nat
  <2>1. LeasesOK(ls)
    BY <1>1, WithStatusParts
  <2> HIDE DEF ls
  <2> QED BY <1>1, <2>1, HeldExceptParts
<1>8. LeasesOK(leases') /\ HeldExcept(leases', now, 0) \in Nat
  <2>1. LeasesOK(leases')
    BY <1>3 DEF UsageInv
  <2> QED BY <1>1, <2>1, HeldNat
<1>9. fresh.floor = policyMin /\ fresh.amount = a /\ fresh.allowance = hold
  OBVIOUS
<1> HIDE DEF ls, hold, fresh, w, x, stale
<1>10. ASSUME LeaseError(t, a, hold, w[x]) = "ok", leases' = Append(ls, fresh)
       PROVE  /\ acct.balance - HeldExcept(leases', now, 0) >= policyMin
              /\ \A j \in 1..Len(leases') : leases'[j].floor = policyMin
  <2>1. Len(ls) \in Nat /\ ls \in Seq(LeaseSet)
    BY <1>7, LeaseParts DEF LeasesOK
  <2>2. Len(leases') = Len(ls) + 1 /\ leases'[Len(ls) + 1] = fresh
        /\ \A j \in 1..Len(ls) : leases'[j] = ls[j]
    BY <1>10, <2>1
  <2>3. fresh \in LeaseSet /\ fresh.allowance <= fresh.amount /\ hold \in Nat
    <3>1. Len(ls) + 1 \in 1..Len(leases')
      BY <2>1, <2>2
    <3>2. /\ leases'[Len(ls) + 1] \in LeaseSet
          /\ leases'[Len(ls) + 1].allowance <= leases'[Len(ls) + 1].amount
      <4> DEFINE ms == leases'
                 j == Len(ls) + 1
      <4>1. LeasesOK(ms) /\ j \in 1..Len(ms)
        BY <1>8, <3>1
      <4> HIDE DEF ms, j
      <4>2. ms[j] \in LeaseSet /\ ms[j].allowance <= ms[j].amount
        BY <4>1, LeaseParts
      <4> QED BY <4>2 DEF ms, j
    <3> QED BY <1>9, <2>2, <3>2 DEF LeaseSet
  <2>4. HeldExcept(leases', now, 0) <= HeldExcept(ls, now, 0) + Hold(fresh)
    BY <1>1, <1>7, <1>10, <2>3, HeldLeased
  <2>5. Hold(fresh) = a - hold
    BY <1>9 DEF Hold
  <2>6. acct.balance - DueTotal(acct, now) - HeldExcept(leases, now, 0) - (a - hold) >= policyMin
    <3> DEFINE headroom == acct.balance - DueTotal(acct, t) - HeldExcept(leases, t, 0)
    <3>1. ~(headroom - (a - hold) < policyMin)
      BY <1>10 DEF LeaseError
    <3>2. DueTotal(acct, now) \in Nat
      BY <1>1, DueTotalNat DEF Explained
    <3> QED BY <1>1, <1>4, <2>3, <3>1, <3>2
  <2>7. DueTotal(acct, now) \in Nat
    BY <1>1, DueTotalNat DEF Explained
  <2>8. acct.balance - HeldExcept(leases', now, 0) >= policyMin
    BY <1>1, <1>4, <1>6, <1>7, <1>8, <2>3, <2>4, <2>5, <2>6, <2>7
  <2>9. \A j \in 1..Len(leases') : leases'[j].floor = policyMin
    BY <1>6, <1>9, <2>1, <2>2
  <2> QED BY <2>8, <2>9
<1>11. CASE leases' = ls
  <2>1. acct.balance - HeldExcept(leases', now, 0) >= policyMin
    BY <1>1, <1>2, <1>6, <1>7, <1>11
  <2> QED BY <1>2, <1>3, <1>5, <1>6, <1>11, <2>1 DEF HoldsInv
<1>12. CASE LeaseError(t, a, hold, w[x]) = "ok" /\ leases' = Append(ls, fresh)
  BY <1>2, <1>3, <1>5, <1>10, <1>12 DEF HoldsInv
<1> QED BY <1>5, <1>11, <1>12

\* What a settlement is given free.
LEMMA CoverParts ==
  ASSUME acct \in AccountSet, LeasesOK(leases), WindowsOK(leases, windows),
         NEW t \in Nat, NEW i \in 1..Len(leases), NEW a \in Nat
  PROVE  SettlementCover(t, i, a) \in Nat /\ SettlementCover(t, i, a) <= a
<1> DEFINE x == leases[i].window
           room == Allowance[x[1]] - windows[x].consumed
                     - (windows[x].reserved - leases[i].allowance)
           before == CreditBeforeAllowance(t, i)
<1>1. x \in Floors \X Nat /\ leases[i].allowance \in Nat
  BY LeaseParts
<1>2. WindowOK(leases, x, windows[x]) /\ Allowance[x[1]] \in Nat
  BY <1>1, AllowanceNat DEF WindowsOK
<1>3. room \in Int
  <2>1. windows[x].reserved \in Nat /\ windows[x].consumed \in Nat
    BY <1>2 DEF WindowOK
  <2> HIDE DEF x
  <2> QED BY <1>1, <1>2, <2>1
<1>4. before \in Nat
  BY CreditBeforeNat
<1>5. SettlementCover(t, i, a) = Covered(a, room, before)
  BY DEF SettlementCover
<1> HIDE DEF room, before
<1> QED BY <1>3, <1>4, <1>5, CoveredParts

\* settle_lease charges under the floor of the lease, the plan's minimum, and
\* leaves what the other leases hold.
LEMMA SettleHolds ==
  ASSUME Undisturbed, HoldsInv, NEW t \in Stamps, NEW i \in 1..Len(leases),
         NEW k \in ChargeKeys, NEW a \in Amounts \cup {0}, Settle(t, i, k, a)
  PROVE  HoldsInv'
<1> DEFINE x == leases[i].window
           cover == SettlementCover(t, i, a)
           held == HeldExcept(leases, now, i)
           floor == leases[i].floor
           net == a - cover
           ls == WithStatus({i}, "settled")
<1>1. /\ now \in Nat /\ policyMin \in Int /\ policyMin <= 0 /\ acct.balance \in Int
      /\ acct \in AccountSet /\ LeasesOK(leases) /\ WindowsOK(leases, windows)
      /\ held \in Nat /\ HeldExcept(leases, now, 0) \in Nat
  BY HoldsParts
<1>2. /\ UsageInv /\ Backed(acct, policyMin)
      /\ acct.balance - HeldExcept(leases, now, 0) >= policyMin
      /\ \A j \in 1..Len(leases) : leases[j].floor = policyMin
  BY DEF HoldsInv
<1>3. UsageInv'
  BY <1>2, SettleKeeps
<1>4. t = now /\ a \in Nat
  BY <1>1, StampNow, BoundsAssumption
<1>5. PICK o \in ChargeOutcomes(now, net, floor, held) :
        /\ acct' = o.acct
        /\ \/ o.error = "ok" /\ leases' = ls
           \/ o.error # "ok" /\ leases' = leases
  BY <1>4 DEF Settle, SettleOutcomes, usage
<1>6. UNCHANGED <<now, policyMin>> /\ IsHolding(leases[i], now)
  BY <1>4 DEF Settle
<1>7. cover \in Nat /\ cover <= a
  BY <1>1, <1>4, CoverParts
<1>8. floor \in Int /\ FloorOf(floor) = policyMin
  BY <1>1, <1>2 DEF FloorOf, NoFloor
<1>9. net \in Nat
  BY <1>4, <1>7
<1>10. /\ HeldExcept(ls, now, 0) = held /\ \A j \in 1..Len(ls) : ls[j].floor = policyMin
  <2> DEFINE S == {i}
             st == "settled"
  <2>1. now \in Int /\ LeasesOK(leases) /\ st \in {"settled", "released", "expired"}
    BY <1>1
  <2>2. HeldExcept(ls, now, 0) = held
    BY <1>1, HeldSettled
  <2> HIDE DEF S, st
  <2>3. \A j \in 1..Len(WithStatus(S, st)) : WithStatus(S, st)[j].floor = policyMin
    BY <1>2, <2>1, EndedHolds
  <2> QED BY <2>2, <2>3 DEF S, st
<1>11. Hold(leases[i]) \in Nat
  BY <1>1, LeaseParts DEF Hold
<1>12. HeldExcept(leases, now, 0) = held + Hold(leases[i])
  BY <1>1, <1>6, HeldAlone
<1> HIDE DEF net, floor, held, ls, cover
<1>13. /\ Backed(acct', policyMin)
       /\ (o.error # "ok" \/ net = 0) => acct' = acct
       /\ (o.error = "ok" /\ net # 0) => acct'.balance - held >= policyMin
  BY <1>1, <1>5, <1>8, <1>9, OutcomeHolds
<1>14. CASE o.error = "ok" /\ leases' = ls
  <2>1. acct'.balance - held >= policyMin
    <3>1. CASE net = 0
      BY <1>1, <1>2, <1>11, <1>12, <1>13, <3>1
    <3>2. CASE net # 0
      BY <1>13, <1>14, <3>2
    <3> QED BY <3>1, <3>2
  <2>2. acct'.balance - HeldExcept(leases', now, 0) >= policyMin
    BY <1>10, <1>14, <2>1
  <2> QED BY <1>3, <1>6, <1>10, <1>13, <1>14, <2>2 DEF HoldsInv
<1>15. CASE o.error # "ok" /\ leases' = leases
  <2>1. acct' = acct
    BY <1>13, <1>15
  <2> QED BY <1>2, <1>3, <1>6, <1>15, <2>1 DEF HoldsInv
<1> QED BY <1>5, <1>14, <1>15

\* A new account owes nothing.
LEMMA HoldsInitOK == UsageInit => HoldsInv
<1> SUFFICES ASSUME UsageInit PROVE HoldsInv
  OBVIOUS
<1>1. UsageInv /\ policyMin \in Floors
  BY UsageInitOK DEF UsageInit
<1>2. /\ acct = [balance |-> 0, entries |-> <<>>, lots |-> <<>>] /\ leases = <<>>
      /\ policyMin \in Int /\ policyMin <= 0
  BY CatalogAssumption DEF UsageInit
<1>3. /\ acct.balance = 0 /\ Len(acct.entries) = 0 /\ NumLots(acct) = 0
      /\ Len(leases) = 0 /\ Len(acct.lots) = 0
  BY <1>2 DEF NumLots
<1>4. Debt(acct) = 0
  BY <1>3, SumToZero DEF Debt
<1>5. HeldExcept(leases, now, 0) = 0
  BY <1>3, SumToZero DEF HeldExcept
<1>6. Backed(acct, policyMin)
  BY <1>2, <1>3, <1>4, BoundsAssumption DEF Backed, Lasting
<1>7. acct.balance - HeldExcept(leases, now, 0) >= policyMin
  BY <1>2, <1>3, <1>5
<1>8. \A j \in 1..Len(leases) : leases[j].floor = policyMin
  BY <1>3
<1> QED BY <1>1, <1>6, <1>7, <1>8 DEF HoldsInv

\* Every step keeps the holds covered.
LEMMA HoldsNextOK ==
  ASSUME Undisturbed
  PROVE  HoldsInv /\ [UsageNext]_allVars => HoldsInv'
<1> SUFFICES ASSUME HoldsInv, [UsageNext]_allVars PROVE HoldsInv'
  OBVIOUS
<1>1. ASSUME LedgerCall, UNCHANGED usage PROVE HoldsInv'
  BY <1>1, LedgerHolds
<1>2. ASSUME NEW t \in Stamps, NEW k \in ChargeKeys, NEW a \in Amounts,
             ChargeForOperation(t, k, a)
      PROVE  HoldsInv'
  BY <1>2, ChargeHolds
<1>3. ASSUME NEW t \in Stamps, NEW k \in LeaseKeys, NEW a \in Amounts, NEW d \in TTLs,
             CreateLease(t, k, a, d)
      PROVE  HoldsInv'
  BY <1>3, CreateHolds
<1>4. ASSUME NEW t, NEW i \in DueLeases(t), EndLeases({i}, "expired") PROVE HoldsInv'
  <2>1. {i} \subseteq ActiveLeases
    BY <1>4, DueActive
  <2> QED BY <1>4, <2>1, EndHolds
<1>5. ASSUME NEW t \in Stamps, NEW i \in 1..Len(leases), NEW k \in ChargeKeys,
             NEW a \in Amounts \cup {0}, SettleLease(t, i, k, a)
      PROVE  HoldsInv'
  <2>1. CASE Settle(t, i, k, a)
    BY <2>1, SettleHolds
  <2>2. CASE i \in DueLeases(t) /\ EndLeases({i}, "expired")
    BY <2>2, <1>4
  <2> QED BY <1>5, <2>1, <2>2 DEF SettleLease
<1>6. ASSUME NEW t \in Stamps, NEW i \in 1..Len(leases), NEW d \in TTLs, RenewLease(t, i, d)
      PROVE  HoldsInv'
  <2>1. CASE Renew(t, i, d)
    BY <2>1, RenewHolds
  <2>2. CASE i \in DueLeases(t) /\ EndLeases({i}, "expired")
    BY <2>2, <1>4
  <2> QED BY <1>6, <2>1, <2>2 DEF RenewLease
<1>7. ASSUME NEW i \in 1..Len(leases), ReleaseLease(i) PROVE HoldsInv'
  <2>1. {i} \subseteq ActiveLeases /\ EndLeases({i}, "released")
    BY <1>7 DEF ReleaseLease, ActiveLeases
  <2> QED BY <2>1, EndHolds
<1>8. ASSUME NEW t \in Stamps, ExpireLeases(t) PROVE HoldsInv'
  <2>1. PICK S \in SUBSET DueLeases(t) : EndLeases(S, "expired")
    BY <1>8 DEF ExpireLeases
  <2>2. S \subseteq ActiveLeases
    BY <2>1, DueActive
  <2> QED BY <2>1, <2>2, EndHolds
<1>9. CASE UNCHANGED allVars
  <2>1. UNCHANGED <<now, acct, policyMin, leases, windows, charges>>
    BY <1>9 DEF allVars
  <2>2. UsageInv'
    BY UsageNextOK DEF HoldsInv
  <2> QED BY <2>1, <2>2 DEF HoldsInv
<1> QED
  BY <1>1, <1>2, <1>3, <1>5, <1>6, <1>7, <1>8, <1>9 DEF UsageNext, ExpireAny
-----------------------------------------------------------------------------
\* What the allowance leaves of an amount is no more than the lease holds besides
\* its reservation, or no more than the credit that goes before the allowance.
LEMMA CoverLeaves ==
  ASSUME NEW amount \in Nat, NEW allowance \in Nat, allowance <= amount,
         NEW room \in Int, allowance <= room, NEW before \in Nat
  PROVE  \/ amount - Covered(amount, room, before) <= amount - allowance
         \/ amount - Covered(amount, room, before) <= before
BY DEF Covered, Least, Greatest

\* Credit that goes before the allowance is credit that lots have, besides the holds.
LEMMA CreditBeforeHas ==
  ASSUME acct \in AccountSet, LotsInBounds(acct), LeasesOK(leases), NEW t \in Int, NEW i,
         NEW net \in Nat \ {0}, net <= CreditBeforeAllowance(t, i)
  PROVE  net <= RemTotal(acct) - HeldExcept(leases, t, i)
<1> DEFINE n == NumLots(acct)
           f == [l \in 1..n |-> IF /\ acct.lots[l].expires > t
                                   /\ Priority[acct.lots[l].bucket] < AllowancePriority
                                  THEN Rem(acct, l) ELSE 0]
           g == [l \in 1..n |-> Rem(acct, l)]
           held == HeldExcept(leases, t, i)
<1>1. n \in Nat /\ \A l \in 1..n : f[l] \in Int /\ g[l] \in Int /\ f[l] <= g[l]
  BY AccountParts, RemNat
<1>2. CreditBeforeAllowance(t, i) = Greatest(SumTo(f, n) - held, 0) /\ RemTotal(acct) = SumTo(g, n)
  BY DEF CreditBeforeAllowance, RemTotal
<1>3. held \in Nat
  BY HeldExceptParts
<1> HIDE DEF f, g, held
<1>4. SumTo(f, n) \in Int /\ SumTo(g, n) \in Int /\ SumTo(f, n) <= SumTo(g, n)
  BY <1>1, SumToInt, SumToAtMost
<1>5. SumTo(f, n) - held >= net
  BY <1>2, <1>3, <1>4 DEF Greatest
<1> QED BY <1>2, <1>3, <1>4, <1>5 DEF held

\* A charge that leaves the minimum and the holds is admitted.
LEMMA Admitted ==
  ASSUME Undisturbed, HoldsInv, NEW net \in Nat, NEW held \in Nat,
         acct.balance - net - held >= policyMin,
         NEW o \in ChargeOutcomes(now, net, policyMin, held)
  PROVE  o.error = "ok"
<1>1. /\ now \in Nat /\ now <= MaxNow /\ policyMin \in Floors /\ policyMin \in Int
      /\ policyMin <= 0
      /\ Sound(acct) /\ Explained(acct) /\ acct \in AccountSet /\ acct.balance \in Int
  BY HoldsParts
<1>2. Backed(acct, policyMin)
  BY DEF HoldsInv
<1>3. CASE net = 0
  BY <1>3 DEF ChargeOutcomes
<1>4. CASE net # 0
  <2> DEFINE key == UsageLedgerKey(Len(charges) + 1)
             r == UsageRequest(net, policyMin)
             n == NumLots(acct)
             spend == Spendable(acct, now, DebitBucket(r))
             left == [l \in 1..n |-> Rem(acct, l)]
  <2>1. PICK b \in AfterExpiry(acct, now) : o = DebitOutcome(b, now, key, r, held)
    BY <1>4 DEF ChargeOutcomes
  <2>2. b = acct
    BY <1>1, <1>2, <2>1, LastingExpiry DEF Backed
  <2>3. r.amount = net /\ r.kind = "usage" /\ r.floor = policyMin
    BY <1>1, UsageRequestTyped
  <2> HIDE DEF key, r
  <2>4. o.error = DebitError(acct, r, now, held)
    BY <2>1, <2>2 DEF DebitOutcome
  <2>5. Floor(r) = policyMin
    BY <2>3 DEF Floor
  <2>6. \A l \in 1..n : spend[l] = left[l] /\ left[l] \in Int
    <3>1. DebitBucket(r) = NoBucket
      BY <2>3 DEF DebitBucket
    <3>2. \A l \in 1..n : acct.lots[l].expires > now
      BY <1>1, <1>2, BoundsAssumption DEF Backed, Lasting, NoExpiry
    <3>3. \A l \in 1..n : Rem(acct, l) \in Int
      BY <1>1, AccountParts
    <3> QED BY <3>1, <3>2, <3>3 DEF Spendable
  <2>7. SumTo(spend, n) = RemTotal(acct)
    <3>1. n \in Nat /\ RemTotal(acct) = SumTo(left, n)
      BY <1>1, AccountParts DEF RemTotal
    <3> HIDE DEF spend, left
    <3> QED BY <2>6, <3>1, SumToEqual
  <2>8. SumTo(spend, n) >= acct.balance /\ SumTo(spend, n) \in Int
    <3>1. /\ acct.balance = RemTotal(acct) - Debt(acct) /\ Debt(acct) >= 0
          /\ Debt(acct) \in Int /\ RemTotal(acct) \in Int
      BY <1>1, RemNat, DebtInt DEF Sound, BalanceExplained, Explained, DebtNeverOverpaid
    <3> HIDE DEF spend
    <3> QED BY <1>1, <2>7, <3>1
  <2>9. InRange(acct.balance - net)
    <3>1. -MaxCredit <= policyMin /\ acct.balance <= MaxCredit /\ MaxCredit \in Nat
      BY <1>1, <1>2, BoundsAssumption DEF Undisturbed, InRange, Backed
    <3> QED BY <1>1, <3>1 DEF InRange
  <2>10. ~(acct.balance - net - held < policyMin) /\ ~(policyMin < policyMin)
    BY <1>1
  <2>11. ~(policyMin >= 0 /\ SumTo(spend, n) - held < net)
    <3> HIDE DEF spend
    <3> QED BY <1>1, <2>8
  <2>12. DebitError(acct, r, now, held) = "ok"
    BY <2>3, <2>5, <2>9, <2>10, <2>11 DEF DebitError
  <2> QED BY <2>4, <2>12
<1> QED BY <1>3, <1>4

\* A lease in flight settles for its estimate: from its hold, or from credit that
\* was granted since and goes before the allowance.
LEMMA HoldsSettle ==
  ASSUME Undisturbed, HoldsInv
  PROVE  LeasesCanSettle
<1> SUFFICES ASSUME NEW i \in 1..Len(leases), IsHolding(leases[i], now),
                    NEW o \in SettleOutcomes(now, i, leases[i].amount)
             PROVE  o.error = "ok"
  BY DEF LeasesCanSettle
<1> DEFINE x == leases[i].window
           amount == leases[i].amount
           allowance == leases[i].allowance
           room == Allowance[x[1]] - windows[x].consumed - (windows[x].reserved - allowance)
           before == CreditBeforeAllowance(now, i)
           cover == SettlementCover(now, i, amount)
           held == HeldExcept(leases, now, i)
           net == amount - cover
<1>1. /\ now \in Nat /\ policyMin \in Int /\ policyMin <= 0
      /\ Sound(acct) /\ Explained(acct) /\ acct \in AccountSet /\ acct.balance \in Int
      /\ LeasesOK(leases) /\ WindowsOK(leases, windows)
      /\ held \in Nat /\ HeldExcept(leases, now, 0) \in Nat
  BY HoldsParts
<1>2. /\ Backed(acct, policyMin)
      /\ acct.balance - HeldExcept(leases, now, 0) >= policyMin
      /\ leases[i].floor = policyMin
  BY DEF HoldsInv
<1>3. /\ amount \in Nat /\ allowance \in Nat /\ allowance <= amount
      /\ x \in Floors \X Nat
  BY <1>1, LeaseParts
<1>4. room \in Int /\ allowance <= room
  <2>1. x \in DOMAIN windows /\ WindowOK(leases, x, windows[x]) /\ Allowance[x[1]] \in Nat
    BY <1>1, <1>3, AllowanceNat DEF WindowsOK
  <2>2. /\ windows[x].reserved \in Nat /\ windows[x].consumed \in Nat
        /\ windows[x].reserved + windows[x].consumed <= Allowance[x[1]]
    BY <2>1 DEF WindowOK
  <2> HIDE DEF x, allowance
  <2> QED BY <1>3, <2>1, <2>2
<1>5. before \in Nat
  BY <1>1, CreditBeforeNat
<1>6. cover = Covered(amount, room, before)
  BY DEF SettlementCover
<1>7. HeldExcept(leases, now, 0) = held + (amount - allowance)
  BY <1>1, HeldAlone DEF Hold
<1>8. o \in ChargeOutcomes(now, net, policyMin, held)
  BY <1>2 DEF SettleOutcomes
<1> HIDE DEF x, amount, allowance, room, before, cover, held
<1>9. cover \in Nat /\ cover <= amount /\ (net <= amount - allowance \/ net <= before)
  BY <1>3, <1>4, <1>5, <1>6, CoveredParts, CoverLeaves
<1>10. net \in Nat
  BY <1>3, <1>9
<1> HIDE DEF net
<1>11. acct.balance - net - held >= policyMin \/ net = 0
  <2>1. CASE net <= amount - allowance
    <3> DEFINE all == HeldExcept(leases, now, 0)
               balance == acct.balance
    <3>1. balance \in Int /\ balance - all >= policyMin /\ policyMin \in Int
      BY <1>1, <1>2
    <3>2. all = held + (amount - allowance) /\ held \in Nat
      BY <1>1, <1>7
    <3> HIDE DEF all, balance
    <3>3. balance - net - held >= policyMin
      BY <1>3, <1>10, <2>1, <3>1, <3>2
    <3> QED BY <3>3 DEF balance
  <2>2. CASE net <= before /\ net # 0
    <3>1. net <= RemTotal(acct) - held
      BY <1>1, <1>10, <2>2, CreditBeforeHas DEF before, held, Explained
    <3>2. /\ acct.balance = RemTotal(acct) - Debt(acct) /\ Debt(acct) <= -policyMin
          /\ Debt(acct) \in Int /\ RemTotal(acct) \in Int
      BY <1>1, <1>2, RemNat, DebtInt DEF Sound, BalanceExplained, Explained, Backed
    <3> QED BY <1>1, <1>10, <3>1, <3>2
  <2> QED BY <1>9, <2>1, <2>2
<1>12. CASE net = 0
  BY <1>8, <1>12 DEF ChargeOutcomes
<1>13. CASE acct.balance - net - held >= policyMin
  BY <1>1, <1>8, <1>10, <1>13, Admitted
<1> QED BY <1>11, <1>12, <1>13

\* A lease in flight can be settled for its estimate (settle_lease): on an account
\* that is not otherwise disturbed, no charge, lease, grant, refund or sweep takes
\* what create_lease put aside, whatever allowance and lots the lease was judged by.
THEOREM UsageLeasesSettle ==
  ASSUME Undisturbed
  PROVE  UsageSpec => []LeasesCanSettle
<1>1. HoldsInv => LeasesCanSettle
  BY HoldsSettle
<1>2. HoldsInv /\ [UsageNext]_allVars => HoldsInv'
  BY HoldsNextOK
<1> QED BY <1>1, <1>2, HoldsInitOK, PTL DEF UsageSpec
=============================================================================
