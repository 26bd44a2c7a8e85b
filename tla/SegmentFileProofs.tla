-------------------------- MODULE SegmentFileProofs --------------------------
(***************************************************************************)
(* The coding functions, for every base and word size, and the size that a *)
(* PosixWritableFile reports, for any magic, any batches and any way the   *)
(* kernel cuts the writes.                                                 *)
(*                                                                         *)
(* The codec comes first: numbers and their digits, fixed words, varints.  *)
(* Then a batch: dataLen never exceeds the records it is to hold, so what  *)
(* Append hands to the file is a sequence of bytes.                        *)
(***************************************************************************)
EXTENDS SegmentFile, FoldLemmas, FiniteSetTheorems, SequenceTheorems

-----------------------------------------------------------------------------
(* Sequences *)

\* A function on 1..n is a sequence.
LEMMA FunIsSeq ==
  ASSUME NEW E, NEW n \in Nat, NEW f, f = [i \in 1..n |-> f[i]], \A i \in 1..n : f[i] \in E
  PROVE  f \in Seq(E) /\ Len(f) = n
<1>1. f \in [1..n -> E]
  BY Zenon
<1> QED BY <1>1

\* A sequence over a larger set.
LEMMA WiderSeq ==
  ASSUME NEW E, NEW F, E \subseteq F, NEW s \in Seq(E)
  PROVE  s \in Seq(F)
<1>1. PICK n \in Nat : s \in [1..n -> E]
  OBVIOUS
<1>2. s \in [1..n -> F]
  BY <1>1
<1> QED BY <1>2

\* Two sequences with the same elements.
LEMMA SameSeq ==
  ASSUME NEW E, NEW s \in Seq(E), NEW t \in Seq(E), Len(s) = Len(t), \A i \in 1..Len(s) : s[i] = t[i]
  PROVE  s = t
<1>1. PICK n \in Nat : n = Len(s)
  OBVIOUS
<1>2. s \in [1..n -> E] /\ t \in [1..n -> E]
  BY <1>1
<1> QED BY <1>1, <1>2

\* The elements of SubSeq,
LEMMA SubSeqIs ==
  ASSUME NEW E, NEW s \in Seq(E), NEW m \in Nat, m > 0, NEW n \in Nat, n <= Len(s), m <= n + 1
  PROVE  /\ SubSeq(s, m, n) \in Seq(E) /\ Len(SubSeq(s, m, n)) = n - m + 1
         /\ \A i \in 1..n - m + 1 : SubSeq(s, m, n)[i] = s[m + i - 1]
OBVIOUS

\* without the first m,
LEMMA MiddleIs ==
  ASSUME NEW E, NEW s \in Seq(E), NEW m \in Nat, NEW n \in Nat, m <= n, n <= Len(s)
  PROVE  /\ SubSeq(s, m + 1, n) \in Seq(E) /\ Len(SubSeq(s, m + 1, n)) = n - m
         /\ \A i \in 1..n - m : SubSeq(s, m + 1, n)[i] = s[m + i]
OBVIOUS

\* up to the n-th,
LEMMA FrontIs ==
  ASSUME NEW E, NEW s \in Seq(E), NEW n \in Nat, n <= Len(s)
  PROVE  /\ SubSeq(s, 1, n) \in Seq(E) /\ Len(SubSeq(s, 1, n)) = n
         /\ \A i \in 1..n : SubSeq(s, 1, n)[i] = s[i]
OBVIOUS

\* and of a concatenation.
LEMMA ConcatIs ==
  ASSUME NEW E, NEW s \in Seq(E), NEW t \in Seq(E)
  PROVE  /\ s \o t \in Seq(E) /\ Len(s \o t) = Len(s) + Len(t)
         /\ \A i \in 1..Len(s) : (s \o t)[i] = s[i]
         /\ \A i \in 1..Len(t) : (s \o t)[Len(s) + i] = t[i]
OBVIOUS

-----------------------------------------------------------------------------
(* Arithmetic *)

\* Division with a remainder,
LEMMA DivMod ==
  ASSUME NEW v \in Nat, NEW p \in Nat, p > 0
  PROVE  v \div p \in Nat /\ v % p \in 0..p - 1 /\ v = p * (v \div p) + (v % p)
OBVIOUS

\* which is unique,
LEMMA DivUnique ==
  ASSUME NEW p \in Nat, p > 0, NEW q \in Nat, NEW r \in 0..p - 1
  PROVE  (p * q + r) \div p = q /\ (p * q + r) % p = r
OBVIOUS

\* and in two steps.
LEMMA DivTwice ==
  ASSUME NEW v \in Nat, NEW p \in Nat, p > 0, NEW b \in Nat, b > 0
  PROVE  /\ v % (p * b) = (v % p) + p * ((v \div p) % b)
         /\ v \div (p * b) = (v \div p) \div b
<1>1. PICK q \in Nat, r \in 0..p - 1 : v \div p = q /\ v % p = r /\ v = p * q + r
  BY DivMod
<1>2. PICK s \in Nat, d \in 0..b - 1 : q \div b = s /\ q % b = d /\ q = b * s + d
  BY DivMod
<1> DEFINE m == p * b
           e == p * d + r
<1>3. m \in Nat /\ m > 0 /\ e \in Nat
  OBVIOUS
<1>4. e < m
  <2>1. p * d <= p * (b - 1)
    OBVIOUS
  <2>2. p * (b - 1) = p * b - p
    OBVIOUS
  <2> QED BY <2>1, <2>2
<1>5. v = m * s + e
  BY <1>1, <1>2
<1> HIDE DEF m, e
<1>6. v \div m = s /\ v % m = e
  BY <1>3, <1>4, <1>5, DivUnique
<1> QED BY <1>1, <1>2, <1>6 DEF m, e

\* The numbers SumSeq adds.
Same == [n \in Nat |-> n]

IsTotal(g, s) == g = [i \in 0..Len(s) |-> IF i = 0 THEN 0 ELSE g[i - 1] + s[i]]

\* SumSeq is the fold of addition.
LEMMA SumIsFold ==
  ASSUME NEW s \in Seq(Nat)
  PROVE  Same \in [Nat -> Nat] /\ SumSeq(s) = FoldBy(Adds(Same, Nat), 0, s)
<1> DEFINE f == Adds(Same, Nat)
<1>a. Same \in [Nat -> Nat]
  BY DEF Same
<1>0. Foldable(f, Nat, Nat, 0, s)
  BY <1>a, AddsFoldable
<1>f. \A v, e \in Nat : f[<<v, e>>] = v + e
  BY DEF Adds, Same
<1>e. \A k \in 1..Len(s) : s[k] \in Nat
  OBVIOUS
<1> HIDE DEF f
<1>1. PICK g \in [0..Len(s) -> Nat] : IsChain(g, f, 0, s, Len(s))
  BY <1>0, StepsExist, Zenon
<1>2. IsTotal(g, s)
  <2>1. ASSUME NEW i \in 0..Len(s), i # 0 PROVE g[i] = g[i - 1] + s[i]
    <3>1. i \in 1..Len(s) /\ i - 1 \in 0..Len(s)
      BY <2>1
    <3>2. g[i] = f[<<g[i - 1], s[i]>>]
      BY <1>1, <3>1 DEF IsChain
    <3>3. g[i - 1] \in Nat /\ s[i] \in Nat
      BY <1>e, <3>1
    <3> QED BY <1>f, <3>2, <3>3
  <2> QED BY <1>1, <2>1 DEF IsTotal, IsChain
<1> DEFINE it == CHOOSE h : IsTotal(h, s)
<1>3. IsTotal(it, s)
  BY <1>2, Zenon
<1>4. SumSeq(s) = it[Len(s)]
  BY Zenon DEF SumSeq, FoldLeft, IsTotal
<1> HIDE DEF it
<1>5. IsRun(it, Nat, f, 0, s)
  <2>1. ASSUME NEW k \in 1..Len(s), it[k - 1] \in Nat PROVE it[k] = f[<<it[k - 1], s[k]>>]
    <3>1. k \in 0..Len(s) /\ k # 0
      OBVIOUS
    <3>2. it[k] = it[k - 1] + s[k]
      BY <1>3, <3>1, Zenon DEF IsTotal
    <3> QED BY <1>e, <1>f, <2>1, <3>2
  <2>2. it[0] = 0
    BY <1>3 DEF IsTotal
  <2> QED BY <2>1, <2>2 DEF IsRun
<1>6. FoldBy(f, 0, s) = it[Len(s)]
  BY <1>0, <1>5, StepsAreFold
<1> QED BY <1>4, <1>6, <1>a DEF f

\* Sums.
LEMMA SumFacts ==
  /\ SumSeq(<< >>) = 0
  /\ \A s \in Seq(Nat) : SumSeq(s) \in Nat
  /\ \A s \in Seq(Nat), n \in Nat : SumSeq(Append(s, n)) = SumSeq(s) + n
  /\ \A s, t \in Seq(Nat) : SumSeq(s \o t) = SumSeq(s) + SumSeq(t)
<1> DEFINE f == Adds(Same, Nat)
<1>0. \A b \in Nat, s \in Seq(Nat) : Foldable(f, Nat, Nat, b, s)
  BY AddsFoldable DEF Same
<1>f. \A v, e \in Nat : f[<<v, e>>] = v + e
  BY DEF Adds, Same
<1>s. \A s \in Seq(Nat) : SumSeq(s) = FoldBy(f, 0, s)
  BY SumIsFold
<1>b. \A b \in Nat, s \in Seq(Nat) : FoldBy(f, 0, s) \in Nat /\ FoldBy(f, b, s) = b + FoldBy(f, 0, s)
  BY AddsShift DEF Same
<1> HIDE DEF f
<1>1. SumSeq(<< >>) = 0
  <2>1. << >> \in Seq(Nat)
    OBVIOUS
  <2>2. Foldable(f, Nat, Nat, 0, << >>)
    BY <1>0, <2>1
  <2> QED BY <1>s, <2>1, <2>2, FoldByEmpty, Zenon
<1>2. ASSUME NEW s \in Seq(Nat) PROVE SumSeq(s) \in Nat
  BY <1>b, <1>s
<1>3. ASSUME NEW s \in Seq(Nat), NEW n \in Nat PROVE SumSeq(Append(s, n)) = SumSeq(s) + n
  <2>1. Foldable(f, Nat, Nat, 0, s) /\ Append(s, n) \in Seq(Nat)
    BY <1>0
  <2>2. FoldBy(f, 0, Append(s, n)) = f[<<FoldBy(f, 0, s), n>>]
    BY <2>1, FoldByAppend
  <2> QED BY <1>b, <1>f, <1>s, <2>1, <2>2
<1>4. ASSUME NEW s \in Seq(Nat), NEW t \in Seq(Nat) PROVE SumSeq(s \o t) = SumSeq(s) + SumSeq(t)
  <2>1. Foldable(f, Nat, Nat, 0, s) /\ s \o t \in Seq(Nat)
    BY <1>0
  <2>2. FoldBy(f, 0, s \o t) = FoldBy(f, FoldBy(f, 0, s), t)
    BY <2>1, FoldByConcat
  <2>3. FoldBy(f, 0, s) \in Nat
    BY <1>b
  <2>4. FoldBy(f, FoldBy(f, 0, s), t) = FoldBy(f, 0, s) + FoldBy(f, 0, t)
    BY <1>b, <2>3, Zenon
  <2> QED BY <1>s, <2>1, <2>2, <2>4
<1> QED BY <1>1, <1>2, <1>3, <1>4

-----------------------------------------------------------------------------
(* Powers and digits *)

Times == [p \in Nat \X Nat |-> p[1] * p[2]]

IsPower(g, s) == g = [i \in 0..Len(s) |-> IF i = 0 THEN 1 ELSE g[i - 1] * s[i]]

\* Pow is the fold of multiplication.
LEMMA PowIsFold ==
  ASSUME NEW b \in Nat, NEW n \in Nat, NEW s, s = [i \in 1..n |-> b]
  PROVE  /\ Foldable(Times, Nat, Nat, 1, s)
         /\ Pow(b, n) = FoldBy(Times, 1, s)
<1>s. s \in Seq(Nat) /\ Len(s) = n
  OBVIOUS
<1>0. Foldable(Times, Nat, Nat, 1, s)
  <2>1. \A x, y \in Nat : x * y \in Nat
    OBVIOUS
  <2>2. Times \in [Nat \X Nat -> Nat]
    BY <2>1 DEF Times
  <2> QED BY <1>s, <2>2 DEF Foldable
<1>f. \A v, e \in Nat : Times[<<v, e>>] = v * e
  BY DEF Times
<1>e. \A k \in 1..Len(s) : s[k] \in Nat
  BY <1>s
<1>1. PICK g \in [0..Len(s) -> Nat] : IsChain(g, Times, 1, s, Len(s))
  BY <1>0, StepsExist, Zenon
<1>2. IsPower(g, s)
  <2>1. ASSUME NEW i \in 0..Len(s), i # 0 PROVE g[i] = g[i - 1] * s[i]
    <3>1. i \in 1..Len(s) /\ i - 1 \in 0..Len(s)
      BY <1>s, <2>1
    <3>2. g[i] = Times[<<g[i - 1], s[i]>>]
      BY <1>1, <3>1 DEF IsChain
    <3>3. g[i - 1] \in Nat /\ s[i] \in Nat
      BY <1>e, <3>1
    <3> QED BY <1>f, <3>2, <3>3
  <2> QED BY <1>1, <2>1 DEF IsPower, IsChain
<1> DEFINE it == CHOOSE h : IsPower(h, s)
<1>3. IsPower(it, s)
  BY <1>2, Zenon
<1>4. Pow(b, n) = it[Len(s)]
  BY Zenon DEF Pow, FoldLeft, IsPower
<1> HIDE DEF it
<1>5. IsRun(it, Nat, Times, 1, s)
  <2>1. ASSUME NEW k \in 1..Len(s), it[k - 1] \in Nat PROVE it[k] = Times[<<it[k - 1], s[k]>>]
    <3>1. k \in 0..Len(s) /\ k # 0
      BY <1>s
    <3>2. it[k] = it[k - 1] * s[k]
      BY <1>3, <3>1, Zenon DEF IsPower
    <3> QED BY <1>e, <1>f, <2>1, <3>2
  <2>2. it[0] = 1
    BY <1>3, <1>s DEF IsPower
  <2> QED BY <2>1, <2>2 DEF IsRun
<1>6. FoldBy(Times, 1, s) = it[Len(s)]
  BY <1>0, <1>5, StepsAreFold
<1> QED BY <1>0, <1>4, <1>6

\* A power of a positive number.
LEMMA PowFacts ==
  ASSUME NEW b \in Nat, b > 0
  PROVE  /\ Pow(b, 0) = 1
         /\ \A n \in Nat : Pow(b, n) \in Nat /\ Pow(b, n) > 0 /\ Pow(b, n + 1) = Pow(b, n) * b
<1>1. Pow(b, 0) = 1
  <2>1. PICK s : s = [i \in 1..0 |-> b]
    OBVIOUS
  <2>2. Foldable(Times, Nat, Nat, 1, s) /\ Pow(b, 0) = FoldBy(Times, 1, s)
    BY <2>1, PowIsFold
  <2>3. s = << >>
    BY <2>1
  <2> QED BY <2>2, <2>3, FoldByEmpty, Zenon
<1>2. ASSUME NEW n \in Nat PROVE Pow(b, n) \in Nat /\ Pow(b, n + 1) = Pow(b, n) * b
  <2>1. PICK s : s = [i \in 1..n |-> b]
    OBVIOUS
  <2>2. PICK t : t = [i \in 1..n + 1 |-> b]
    OBVIOUS
  <2>3. Foldable(Times, Nat, Nat, 1, s) /\ Pow(b, n) = FoldBy(Times, 1, s)
    BY <2>1, PowIsFold
  <2>4. n + 1 \in Nat
    OBVIOUS
  <2>5. Pow(b, n + 1) = FoldBy(Times, 1, t)
    BY <2>2, <2>4, PowIsFold
  <2>6. t = Append(s, b)
    BY <2>1, <2>2
  <2>7. FoldBy(Times, 1, t) = Times[<<FoldBy(Times, 1, s), b>>]
    BY <2>3, <2>6, FoldByAppend
  <2>8. FoldBy(Times, 1, s) \in Nat
    BY <2>3, FoldByType
  <2> QED BY <2>3, <2>5, <2>7, <2>8 DEF Times
<1> DEFINE S == {n \in Nat : Pow(b, n) > 0}
<1>3. 0 \in S
  BY <1>1
<1>4. ASSUME NEW n \in Nat, n \in S PROVE n + 1 \in S
  <2>1. PICK p \in Nat : p = Pow(b, n) /\ p > 0
    BY <1>2, <1>4
  <2>2. p * b > 0
    BY <2>1
  <2> QED BY <1>2, <2>1, <2>2
<1> HIDE DEF S
<1>5. \A n \in Nat : n \in S
  BY <1>3, <1>4, SetInduction
<1> QED BY <1>1, <1>2, <1>5 DEF S

\* The same, without the product.
LEMMA PowType ==
  ASSUME NEW b \in Nat, b > 0, NEW n \in Nat
  PROVE  Pow(b, n) \in Nat /\ Pow(b, n) > 0
BY PowFacts

\* Greater exponents.
LEMMA PowGrows ==
  ASSUME NEW b \in Nat, b > 1, NEW m \in Nat, NEW n \in Nat, m <= n
  PROVE  Pow(b, m) <= Pow(b, n) /\ (m < n => Pow(b, m) < Pow(b, n))
<1>0. \A k \in Nat : Pow(b, k) \in Nat /\ Pow(b, k) > 0 /\ Pow(b, k + 1) = Pow(b, k) * b
  BY PowFacts
<1>1. \A k \in Nat : Pow(b, k) < Pow(b, k + 1)
  <2> SUFFICES ASSUME NEW k \in Nat PROVE Pow(b, k) < Pow(b, k + 1)
    OBVIOUS
  <2>1. PICK p \in Nat : p = Pow(b, k) /\ p > 0
    BY <1>0
  <2>2. p * b > p
    BY <2>1
  <2> QED BY <1>0, <2>1, <2>2
<1> DEFINE S == {d \in Nat : Pow(b, m) <= Pow(b, m + d) /\ (d > 0 => Pow(b, m) < Pow(b, m + d))}
<1>2. 0 \in S
  BY <1>0
<1>3. ASSUME NEW d \in Nat, d \in S PROVE d + 1 \in S
  <2>1. m + d \in Nat /\ m + (d + 1) = (m + d) + 1
    OBVIOUS
  <2>2. Pow(b, m + d) < Pow(b, m + (d + 1)) /\ Pow(b, m + d) \in Nat /\ Pow(b, m + (d + 1)) \in Nat
    BY <1>0, <1>1, <2>1
  <2>3. Pow(b, m) <= Pow(b, m + d) /\ Pow(b, m) \in Nat
    BY <1>0, <1>3
  <2> QED BY <2>2, <2>3
<1> HIDE DEF S
<1>4. n - m \in S
  BY <1>2, <1>3, SetInduction
<1>5. m + (n - m) = n /\ (m < n => n - m > 0)
  OBVIOUS
<1> QED BY <1>4, <1>5 DEF S

\* One more digit.
LEMMA PlacedAppend ==
  ASSUME NEW b \in Nat, b > 0, NEW d \in Seq(Nat), NEW x \in Nat
  PROVE  /\ Placed(<< >>, b) = 0
         /\ Placed(d, b) \in Nat
         /\ Placed(Append(d, x), b) = Placed(d, b) + x * Pow(b, Len(d))
<1> DEFINE n == Len(d)
           e == Append(d, x)
           s == [i \in DOMAIN d |-> d[i] * Pow(b, i - 1)]
           t == [i \in DOMAIN e |-> e[i] * Pow(b, i - 1)]
           y == x * Pow(b, n)
<1>n. n \in Nat /\ DOMAIN d = 1..n
  OBVIOUS
<1>e. e \in Seq(Nat) /\ DOMAIN e = 1..n + 1 /\ e[n + 1] = x /\ \A i \in 1..n : e[i] = d[i]
  OBVIOUS
<1>p. \A k \in Nat : Pow(b, k) \in Nat
  BY PowFacts
<1> HIDE DEF n, e
<1>1. ASSUME NEW i \in 1..n PROVE s[i] \in Nat
  <2>1. i - 1 \in Nat /\ d[i] \in Nat
    BY <1>n
  <2>2. PICK p \in Nat : p = Pow(b, i - 1)
    BY <1>p, <2>1
  <2>3. d[i] * p \in Nat
    BY <2>1
  <2> QED BY <1>n, <2>2, <2>3
<1>2. s \in Seq(Nat) /\ Len(s) = n
  <2>1. s = [i \in 1..n |-> s[i]]
    BY <1>n, Zenon
  <2> HIDE DEF s
  <2> QED BY <1>1, <1>n, <2>1, FunIsSeq
<1>3. y \in Nat
  <2>1. PICK p \in Nat : p = Pow(b, n)
    BY <1>n, <1>p
  <2> QED BY <2>1
<1>4. t[n + 1] = y
  <2>1. n + 1 \in DOMAIN e /\ (n + 1) - 1 = n
    BY <1>e, <1>n
  <2> QED BY <1>e, <2>1
<1>5. ASSUME NEW i \in 1..n PROVE t[i] = s[i]
  <2>1. i \in DOMAIN e /\ i \in DOMAIN d /\ e[i] = d[i]
    BY <1>e, <1>n
  <2> QED BY <2>1, Zenon
<1>6. t = [i \in 1..n + 1 |-> t[i]]
  BY <1>e, Zenon
<1>7. Placed(d, b) = SumSeq(s) /\ Placed(e, b) = SumSeq(t)
  BY DEF Placed
<1>8. Placed(<< >>, b) = 0
  <2>1. [i \in DOMAIN << >> |-> << >>[i] * Pow(b, i - 1)] = << >>
    OBVIOUS
  <2> QED BY <2>1, SumFacts DEF Placed
<1> HIDE DEF s, t, y
<1>9. t = Append(s, y)
  <2>1. Append(s, y) \in Seq(Nat) /\ Len(Append(s, y)) = n + 1
    BY <1>2, <1>3
  <2>2. Append(s, y)[n + 1] = y /\ \A i \in 1..n : Append(s, y)[i] = s[i]
    BY <1>2, <1>3
  <2>3. ASSUME NEW i \in 1..n + 1 PROVE t[i] = Append(s, y)[i]
    <3>1. i = n + 1 \/ i \in 1..n
      BY <1>n
    <3> QED BY <1>4, <1>5, <2>2, <3>1, Zenon
  <2>4. \A i \in 1..n + 1 : t[i] \in Nat
    BY <1>1, <1>3, <1>4, <1>5, <1>n
  <2>5. t \in Seq(Nat) /\ Len(t) = n + 1
    BY <1>6, <1>n, <2>4, FunIsSeq
  <2> QED BY <2>1, <2>3, <2>5, SameSeq
<1>10. SumSeq(t) = SumSeq(s) + y /\ SumSeq(s) \in Nat
  BY <1>2, <1>3, <1>9, SumFacts
<1> QED BY <1>7, <1>8, <1>10 DEF e, n, y

\* The digits of v, put together, are what n of them can say of v.
LEMMA DigitsOf ==
  ASSUME NEW b \in Nat, b > 0, NEW v \in Nat, NEW n \in Nat
  PROVE  /\ [i \in 1..n |-> Digit(v, b, i)] \in Seq(0..b - 1)
         /\ Placed([i \in 1..n |-> Digit(v, b, i)], b) = v % Pow(b, n)
<1> DEFINE D(k) == [i \in 1..k |-> Digit(v, b, i)]
<1>0. \A k \in Nat : Pow(b, k) \in Nat /\ Pow(b, k) > 0 /\ Pow(b, k + 1) = Pow(b, k) * b
  BY PowFacts
<1>1. ASSUME NEW i \in Nat, i > 0 PROVE Digit(v, b, i) \in 0..b - 1
  <2>1. PICK p \in Nat : p = Pow(b, i - 1) /\ p > 0
    BY <1>0, <1>1
  <2>2. v \div p \in Nat
    BY <2>1, DivMod
  <2>3. (v \div p) % b \in 0..b - 1
    BY <2>2, DivMod
  <2> QED BY <2>1, <2>3 DEF Digit
<1>2. ASSUME NEW k \in Nat PROVE D(k) \in Seq(0..b - 1) /\ Len(D(k)) = k
  BY <1>1
<1> DEFINE S == {k \in Nat : Placed(D(k), b) = v % Pow(b, k)}
<1>3. 0 \in S
  <2>1. D(0) = << >>
    OBVIOUS
  <2>2. Placed(<< >>, b) = 0
    <3>1. << >> \in Seq(Nat) /\ 0 \in Nat
      OBVIOUS
    <3> QED BY <3>1, PlacedAppend, Zenon
  <2>3. v % 1 = 0
    OBVIOUS
  <2> QED BY <2>1, <2>2, <2>3, PowFacts
<1>4. ASSUME NEW k \in Nat, k \in S PROVE k + 1 \in S
  <2>1. D(k) \in Seq(Nat) /\ Len(D(k)) = k /\ Digit(v, b, k + 1) \in Nat
    BY <1>1, <1>2
  <2>2. D(k + 1) = Append(D(k), Digit(v, b, k + 1))
    OBVIOUS
  <2>3. PICK x : x = Digit(v, b, k + 1)
    OBVIOUS
  <2>4. PICK d : d = D(k)
    OBVIOUS
  <2>5. Placed(Append(d, x), b) = Placed(d, b) + x * Pow(b, k)
    BY <2>1, <2>3, <2>4, PlacedAppend
  <2>6. PICK p \in Nat : p = Pow(b, k) /\ p > 0
    BY <1>0
  <2>7. x = (v \div p) % b
    BY <2>3, <2>6 DEF Digit
  <2>8. v % (p * b) = (v % p) + p * ((v \div p) % b)
    BY <2>6, DivTwice
  <2>9. Placed(d, b) = v % p
    BY <1>4, <2>4, <2>6
  <2>10. x \in Nat /\ p * x = x * p
    BY <2>1, <2>3
  <2>11. Placed(D(k + 1), b) = v % Pow(b, k + 1)
    BY <1>0, <2>2, <2>3, <2>4, <2>5, <2>6, <2>7, <2>8, <2>9, <2>10
  <2> QED BY <2>11
<1> HIDE DEF S
<1>5. n \in S
  BY <1>3, <1>4, SetInduction
<1> QED BY <1>2, <1>5 DEF S

-----------------------------------------------------------------------------
(* Words of a fixed length *)

\* A shift by m and then by n.
LEMMA PowAdd ==
  ASSUME NEW b \in Nat, b > 0, NEW m \in Nat, NEW n \in Nat
  PROVE  Pow(b, m + n) = Pow(b, m) * Pow(b, n)
<1>0. \A k \in Nat : Pow(b, k) \in Nat /\ Pow(b, k + 1) = Pow(b, k) * b
  BY PowFacts
<1> DEFINE S == {k \in Nat : Pow(b, m + k) = Pow(b, m) * Pow(b, k)}
<1>1. 0 \in S
  <2>1. Pow(b, 0) = 1
    BY PowFacts
  <2>2. Pow(b, m) \in Nat /\ m + 0 = m
    BY <1>0
  <2> QED BY <2>1, <2>2
<1>2. ASSUME NEW k \in Nat, k \in S PROVE k + 1 \in S
  <2>1. m + k \in Nat /\ m + (k + 1) = (m + k) + 1
    OBVIOUS
  <2>2. Pow(b, (m + k) + 1) = Pow(b, m + k) * b
    BY <1>0, <2>1
  <2>3. PICK p \in Nat, q \in Nat : p = Pow(b, m) /\ q = Pow(b, k)
    BY <1>0
  <2>4. (p * q) * b = p * (q * b)
    OBVIOUS
  <2> QED BY <1>0, <1>2, <2>1, <2>2, <2>3, <2>4
<1> HIDE DEF S
<1>3. n \in S
  BY <1>1, <1>2, SetInduction
<1> QED BY <1>3 DEF S

\* The words and the bytes.
LEMMA Sizes ==
  /\ B \in Nat /\ B > 1 /\ 2 * B \in Nat /\ 2 * B > 1 /\ 2 * B > 0 /\ 1 \in Byte /\ 2 \in Byte /\ Byte \subseteq Nat
  /\ Fixed32Bytes \in Nat /\ Fixed32Bytes > 0 /\ Fixed64Bytes \in Nat /\ Fixed32Bytes <= Fixed64Bytes
  /\ Width32 \in Nat /\ Width64 \in Nat /\ 2 * B <= Width32 /\ Width32 <= Width64
<1>1. /\ B \in Nat /\ B > 1 /\ 2 * B \in Nat /\ 2 * B > 1 /\ 2 * B > 0 /\ 1 \in Byte /\ 2 \in Byte /\ Byte \subseteq Nat
      /\ Fixed32Bytes \in Nat /\ Fixed32Bytes > 0 /\ Fixed64Bytes \in Nat /\ Fixed32Bytes <= Fixed64Bytes
  BY CodingAssumption DEF Byte
<1>2. PICK b \in Nat : b = 2 * B /\ b > 1 /\ b > 0
  BY <1>1
<1>3. Pow(b, 0) = 1 /\ Pow(b, 0 + 1) = Pow(b, 0) * b
  BY <1>2, PowFacts
<1>4. Pow(b, 1) = b
  BY <1>2, <1>3
<1>5. Pow(b, 1) <= Pow(b, Fixed32Bytes) /\ Pow(b, Fixed32Bytes) <= Pow(b, Fixed64Bytes)
  BY <1>1, <1>2, PowGrows
<1>6. Pow(b, Fixed32Bytes) \in Nat /\ Pow(b, Fixed64Bytes) \in Nat
  BY <1>1, <1>2, PowType
<1> QED BY <1>1, <1>2, <1>4, <1>5, <1>6 DEF Width32, Width64

\* A word cut to its width.
LEMMA ModSmall ==
  ASSUME NEW w \in Nat, NEW v \in Nat, v < w
  PROVE  v % w = v
OBVIOUS

\* EncodeFixed32 and what DecodeFixed makes of it.
LEMMA Fixed32 ==
  ASSUME NEW v \in 0..Width32 - 1
  PROVE  /\ EncodeFixed32(v) \in Seq(Byte) /\ Len(EncodeFixed32(v)) = Fixed32Bytes
         /\ DecodeFixed(EncodeFixed32(v)) = v
<1>1. v \in Nat /\ v < Width32
  BY Sizes
<1>2. /\ EncodeFixed32(v) \in Seq(Byte)
      /\ DecodeFixed(EncodeFixed32(v)) = v % Width32
  BY <1>1, Sizes, DigitsOf DEF EncodeFixed32, EncodeFixed, DecodeFixed, Width32, Byte
<1>3. Len(EncodeFixed32(v)) = Fixed32Bytes
  BY Sizes DEF EncodeFixed32, EncodeFixed
<1>4. v % Width32 = v
  BY <1>1, Sizes, ModSmall
<1> QED BY <1>2, <1>3, <1>4

\* The same with more bytes behind it, as the reader finds it.
LEMMA Fixed32Front ==
  ASSUME NEW v \in 0..Width32 - 1, NEW rest \in Seq(Byte)
  PROVE  DecodeFixed32(EncodeFixed32(v) \o rest) = v
<1>1. PICK c \in Seq(Byte) : c = EncodeFixed32(v) /\ Len(c) = Fixed32Bytes /\ DecodeFixed(c) = v
  BY Fixed32
<1>2. SubSeq(c \o rest, 1, Fixed32Bytes) = c
  BY <1>1, Sizes
<1> QED BY <1>1, <1>2 DEF DecodeFixed32

\* EncodeFixed64 and DecodeFixed64, which decodes two halves.
LEMMA Fixed64Front ==
  ASSUME NEW v \in 0..Width64 - 1, NEW rest \in Seq(Byte)
  PROVE  DecodeFixed64(EncodeFixed64(v) \o rest) = v
<1> DEFINE b == 2 * B
           f == Fixed32Bytes
           g == Fixed64Bytes
           d == g - f
           w == Pow(b, f)
           h == v \div w
           c == EncodeFixed64(v)
           lo == [i \in 1..f |-> Digit(v, b, i)]
           hi == [i \in 1..d |-> Digit(h, b, i)]
           all == c \o rest
<1>0. b \in Nat /\ b > 0 /\ f \in Nat /\ f > 0 /\ g \in Nat /\ f <= g /\ d \in Nat /\ f + d = g
  BY Sizes
<1>v. v \in Nat /\ v < Width64
  BY Sizes
<1>c. c = [i \in 1..g |-> Digit(v, b, i)]
  BY DEF EncodeFixed64, EncodeFixed
<1>B. Byte = 0..b - 1
  BY DEF Byte
<1>W. w = Width32 /\ Width64 = Pow(b, g)
  BY DEF Width32, Width64
<1>D. DecodeFixed64(all) = Placed(SubSeq(all, f + 1, g), b) * w + Placed(SubSeq(all, 1, f), b)
  BY <1>W DEF DecodeFixed64, DecodeFixed
<1> HIDE DEF b, f, g, c
<1>w. w \in Nat /\ w > 0
  BY <1>0, PowType
<1>x. v = w * h + (v % w) /\ v % w \in 0..w - 1 /\ h \in Nat
  <2> HIDE DEF w
  <2> QED BY <1>v, <1>w, DivMod
<1> HIDE DEF d, w, h
<1>1. ASSUME NEW n \in Nat, NEW u \in Nat, NEW s, s = [i \in 1..n |-> Digit(u, b, i)]
      PROVE  s \in Seq(Byte) /\ Len(s) = n /\ Placed(s, b) = u % Pow(b, n)
  <2>1. s \in Seq(0..b - 1) /\ Placed(s, b) = u % Pow(b, n)
    BY <1>0, <1>1, DigitsOf
  <2>2. Len(s) = n
    BY <1>1
  <2> QED BY <1>B, <2>1, <2>2
<1>2. lo \in Seq(Byte) /\ Len(lo) = f /\ Placed(lo, b) = v % w
  BY <1>0, <1>1, <1>v DEF w
<1>3. hi \in Seq(Byte) /\ Len(hi) = d /\ Placed(hi, b) = h % Pow(b, d)
  BY <1>0, <1>1, <1>x
<1>4. c \in Seq(Byte) /\ Len(c) = g
  BY <1>0, <1>1, <1>c, <1>v
<1>5. all \in Seq(Byte) /\ Len(all) >= g /\ \A i \in 1..g : all[i] = c[i]
  BY <1>0, <1>4
<1> HIDE DEF all, lo, hi
<1>6. SubSeq(all, 1, f) = lo
  <2> DEFINE s == SubSeq(all, 1, f)
  <2>1. s \in Seq(Byte) /\ Len(s) = f /\ \A i \in 1..f : s[i] = all[i]
    BY <1>0, <1>5
  <2> HIDE DEF s
  <2>2. ASSUME NEW i \in 1..f PROVE s[i] = lo[i]
    <3>1. i \in 1..g
      BY <1>0
    <3>2. s[i] = c[i]
      BY <1>5, <2>1, <3>1
    <3> QED BY <1>c, <3>1, <3>2, Zenon DEF lo
  <2>3. s = lo
    BY <1>2, <2>1, <2>2, SameSeq
  <2> QED BY <2>3 DEF s
<1>7. SubSeq(all, f + 1, g) = hi
  <2> DEFINE s == SubSeq(all, f + 1, g)
  <2>1. s \in Seq(Byte) /\ Len(s) = d /\ \A i \in 1..d : s[i] = all[f + i]
    <3>1. f + 1 \in Nat /\ f + 1 > 0 /\ g <= Len(all) /\ f + 1 <= g + 1 /\ g - (f + 1) + 1 = d
      BY <1>0, <1>5 DEF d
    <3>2. s \in Seq(Byte) /\ Len(s) = d /\ \A i \in 1..d : s[i] = all[(f + 1) + i - 1]
      BY <1>0, <1>5, <3>1, SubSeqIs
    <3>3. \A i \in 1..d : (f + 1) + i - 1 = f + i
      BY <1>0
    <3> HIDE DEF s
    <3> QED BY <3>2, <3>3
  <2> HIDE DEF s
  <2>2. ASSUME NEW i \in 1..d PROVE s[i] = hi[i]
    <3>1. f + i \in 1..g /\ i - 1 \in Nat /\ (f + i) - 1 = f + (i - 1)
      BY <1>0
    <3>2. s[i] = c[f + i]
      BY <1>5, <2>1, <3>1
    <3>3. c[f + i] = Digit(v, b, f + i)
      BY <1>c, <3>1, Zenon
    <3>4. PICK p \in Nat : p = Pow(b, i - 1) /\ p > 0
      <4>1. Pow(b, i - 1) \in Nat /\ Pow(b, i - 1) > 0
        BY <1>0, <3>1, PowType
      <4> QED BY <4>1, Zenon
    <3>5. Pow(b, f + (i - 1)) = w * p
      BY <1>0, <3>1, <3>4, PowAdd DEF w
    <3>6. v \div (w * p) = (v \div w) \div p
      BY <1>v, <1>w, <3>4, DivTwice
    <3>7. Digit(v, b, f + i) = Digit(h, b, i)
      BY <3>1, <3>4, <3>5, <3>6, Zenon DEF Digit, h
    <3>8. hi[i] = Digit(h, b, i)
      BY Zenon DEF hi
    <3> QED BY <3>2, <3>3, <3>7, <3>8
  <2>3. s = hi
    BY <1>3, <2>1, <2>2, SameSeq
  <2> QED BY <2>3 DEF s
<1>8. h % Pow(b, d) = h
  <2> DEFINE p == Pow(b, d)
  <2>1. p \in Nat /\ p > 0
    BY <1>0, PowType
  <2>2. Width64 = w * p
    BY <1>0, <1>W, PowAdd DEF w
  <2> HIDE DEF p
  <2>3. PICK q \in Nat, r \in Nat, n \in Nat : q = h /\ n = w /\ v = n * q + r /\ v < n * p /\ n > 0
    BY <1>v, <1>w, <1>x, <2>2
  <2>4. q < p
    <3>1. SUFFICES ASSUME q >= p PROVE FALSE
      BY <2>1
    <3>2. n * q >= n * p
      BY <2>1, <2>3, <3>1
    <3> QED BY <2>1, <2>3, <3>2
  <2>5. q % p = q
    BY <2>1, <2>4, ModSmall
  <2> QED BY <2>3, <2>5 DEF p
<1>9. DecodeFixed64(all) = h * w + (v % w)
  BY <1>2, <1>3, <1>6, <1>7, <1>8, <1>D
<1>10. h * w = w * h
  BY <1>w, <1>x
<1> QED BY <1>9, <1>10, <1>x DEF all, c

\* One number of a sum changes.
LEMMA SumChanged ==
  ASSUME NEW s \in Seq(Nat), NEW t \in Seq(Nat), Len(s) = Len(t), NEW h \in 1..Len(s),
         \A i \in 1..Len(s) : i # h => s[i] = t[i]
  PROVE  SumSeq(s) \in Nat /\ SumSeq(t) \in Nat /\ SumSeq(t) + s[h] = SumSeq(s) + t[h]
<1> DEFINE n == Len(s)
           a == SubSeq(s, 1, h - 1)
           c == SubSeq(s, h + 1, n)
<1>0. n \in Nat /\ h \in Nat /\ h > 0 /\ h <= n /\ h - 1 \in Nat /\ n - h \in Nat
  OBVIOUS
<1>1. a \in Seq(Nat) /\ Len(a) = h - 1 /\ \A i \in 1..h - 1 : a[i] = s[i]
  BY <1>0
<1>2. c \in Seq(Nat) /\ Len(c) = n - h /\ \A i \in 1..n - h : c[i] = s[h + i]
  BY <1>0
<1>s. Len(s) = n /\ Len(t) = n /\ \A i \in 1..n : i # h => s[i] = t[i]
  OBVIOUS
<1> HIDE DEF n, a, c
<1>3. ASSUME NEW r \in Seq(Nat), Len(r) = n, \A i \in 1..n : i # h => r[i] = s[i]
      PROVE  SumSeq(r) = SumSeq(a) + r[h] + SumSeq(c)
  <2> DEFINE x == r[h]
             u == Append(a, x)
             w == u \o c
  <2>0. x \in Nat
    BY <1>0, <1>3
  <2> HIDE DEF x
  <2>1. u \in Seq(Nat) /\ Len(u) = h /\ u[h] = x /\ \A i \in 1..h - 1 : u[i] = a[i]
    BY <1>0, <1>1, <2>0
  <2> HIDE DEF u
  <2>2. /\ w \in Seq(Nat) /\ Len(w) = n /\ \A i \in 1..h : w[i] = u[i]
        /\ \A i \in 1..n - h : w[h + i] = c[i]
    <3>1. Len(u) + Len(c) = n
      BY <1>0, <1>2, <2>1
    <3>2. u \in Seq(Nat) /\ c \in Seq(Nat)
      BY <1>2, <2>1
    <3>3. /\ w \in Seq(Nat) /\ Len(w) = Len(u) + Len(c)
          /\ \A i \in 1..Len(u) : w[i] = u[i]
          /\ \A i \in 1..Len(c) : w[Len(u) + i] = c[i]
      BY <3>2, ConcatIs
    <3> HIDE DEF w
    <3> QED BY <1>2, <2>1, <3>1, <3>3
  <2> HIDE DEF w
  <2>3. ASSUME NEW i \in 1..n PROVE w[i] = r[i]
    <3>1. ASSUME i \in 1..h - 1 PROVE w[i] = r[i]
      <4>1. i \in 1..h /\ i # h
        BY <1>0, <3>1
      <4> QED BY <1>1, <1>3, <2>1, <2>2, <3>1, <4>1
    <3>2. ASSUME i = h PROVE w[i] = r[i]
      <4>1. i \in 1..h
        BY <1>0, <3>2
      <4> QED BY <2>1, <2>2, <3>2, <4>1 DEF x
    <3>3. ASSUME i > h PROVE w[i] = r[i]
      <4>1. PICK j \in 1..n - h : i = h + j
        BY <1>0, <3>3
      <4>2. i # h
        BY <1>0, <3>3
      <4> QED BY <1>2, <1>3, <2>2, <4>1, <4>2
    <3> QED BY <1>0, <3>1, <3>2, <3>3
  <2>4. w = r
    BY <1>3, <2>2, <2>3, SameSeq
  <2>5. SumSeq(u \o c) = SumSeq(u) + SumSeq(c)
    BY <1>2, <2>1, SumFacts
  <2>6. SumSeq(Append(a, x)) = SumSeq(a) + x
    BY <1>1, <2>0, SumFacts
  <2> QED BY <2>4, <2>5, <2>6 DEF u, w, x
<1>4. SumSeq(s) = SumSeq(a) + s[h] + SumSeq(c)
  BY <1>3, <1>s
<1>5. SumSeq(t) = SumSeq(a) + t[h] + SumSeq(c)
  <2>1. \A i \in 1..n : i # h => t[i] = s[i]
    BY <1>s
  <2> QED BY <1>3, <1>s, <2>1
<1>6. SumSeq(a) \in Nat /\ SumSeq(c) \in Nat /\ SumSeq(s) \in Nat /\ SumSeq(t) \in Nat
  BY <1>1, <1>2, SumFacts
<1>7. s[h] \in Nat /\ t[h] \in Nat
  BY <1>0, <1>s
<1> DEFINE p == SumSeq(a)
           q == SumSeq(c)
           y == s[h]
           z == t[h]
<1>8. (p + z + q) + y = (p + y + q) + z
  <2>1. p \in Nat /\ q \in Nat /\ y \in Nat /\ z \in Nat
    BY <1>6, <1>7
  <2> HIDE DEF p, q, y, z
  <2> QED BY <2>1
<1>9. SumSeq(t) + s[h] = SumSeq(s) + t[h]
  BY <1>4, <1>5, <1>8, Zenon
<1> QED BY <1>6, <1>9

-----------------------------------------------------------------------------
(* Varints *)

\* The groups that v takes.
IsLength(v, n) == n \in Nat /\ n > 0 /\ v < Pow(B, n) /\ \A k \in 1..n - 1 : v >= Pow(B, k)

\* There is one number of them,
LEMMA LengthExists ==
  ASSUME NEW v \in Nat, NEW g \in Nat, g > 0, v < Pow(B, g)
  PROVE  \E n \in 1..g : IsLength(v, n)
<1>0. B \in Nat /\ B > 0 /\ B > 1
  BY Sizes
<1>p. \A k \in Nat : Pow(B, k) \in Nat
  BY <1>0, PowType
<1> DEFINE S == {m \in Nat : m > 0 /\ v < Pow(B, m) => \E n \in 1..m : IsLength(v, n)}
<1>1. 0 \in S
  OBVIOUS
<1>2. ASSUME NEW m \in Nat, m \in S PROVE m + 1 \in S
  <2>1. SUFFICES ASSUME v < Pow(B, m + 1) PROVE \E n \in 1..m + 1 : IsLength(v, n)
    OBVIOUS
  <2>2. CASE m > 0 /\ v < Pow(B, m)
    <3>1. PICK n \in 1..m : IsLength(v, n)
      BY <1>2, <2>2
    <3>2. n \in 1..m + 1
      OBVIOUS
    <3> QED BY <3>1, <3>2
  <2>3. CASE m = 0 \/ v >= Pow(B, m)
    <3>1. ASSUME NEW k \in 1..(m + 1) - 1 PROVE v >= Pow(B, k)
      <4>1. k \in Nat /\ k <= m /\ m # 0
        OBVIOUS
      <4>2. Pow(B, k) <= Pow(B, m)
        BY <1>0, <4>1, PowGrows
      <4>3. Pow(B, k) \in Nat /\ Pow(B, m) \in Nat
        BY <1>p, <4>1
      <4> QED BY <2>3, <4>1, <4>2, <4>3
    <3>2. m + 1 \in 1..m + 1 /\ m + 1 \in Nat /\ m + 1 > 0
      OBVIOUS
    <3> QED BY <2>1, <3>1, <3>2 DEF IsLength
  <2> QED BY <1>p, <2>2, <2>3
<1> HIDE DEF S
<1>3. g \in S
  BY <1>1, <1>2, SetInduction
<1> QED BY <1>3 DEF S

\* no other,
LEMMA LengthUnique ==
  ASSUME NEW v \in Nat, NEW m, IsLength(v, m), NEW n, IsLength(v, n)
  PROVE  m = n
<1>1. m \in Nat /\ n \in Nat /\ m > 0 /\ n > 0
  BY DEF IsLength
<1>b. B \in Nat /\ B > 0
  BY Sizes
<1>2. \A k \in Nat : Pow(B, k) \in Nat
  BY <1>b, PowType
<1>3. ~(m < n)
  <2>1. SUFFICES ASSUME m < n PROVE FALSE
    OBVIOUS
  <2>2. m \in 1..n - 1
    BY <1>1, <2>1
  <2> QED BY <1>1, <1>2, <2>2 DEF IsLength
<1>4. ~(n < m)
  <2>1. SUFFICES ASSUME n < m PROVE FALSE
    OBVIOUS
  <2>2. n \in 1..m - 1
    BY <1>1, <2>1
  <2> QED BY <1>1, <1>2, <2>2 DEF IsLength
<1> QED BY <1>1, <1>3, <1>4

\* and counting the powers that v reaches finds it.
LEMMA LengthCounted ==
  ASSUME NEW v \in Nat, NEW g \in Nat, NEW n \in 1..g, IsLength(v, n)
  PROVE  1 + Cardinality({k \in 1..g - 1 : v >= Pow(B, k)}) = n
<1>0. B \in Nat /\ B > 0 /\ B > 1
  BY Sizes
<1>p. \A k \in Nat : Pow(B, k) \in Nat
  BY <1>0, PowType
<1>1. n \in Nat /\ n > 0 /\ v < Pow(B, n) /\ \A k \in 1..n - 1 : v >= Pow(B, k)
  BY DEF IsLength
<1>2. ASSUME NEW k \in 1..g - 1 PROVE v >= Pow(B, k) <=> k \in 1..n - 1
  <2>1. CASE k < n
    BY <1>1, <2>1
  <2>2. CASE n <= k
    <3>1. Pow(B, n) <= Pow(B, k)
      BY <1>0, <1>1, <2>2, PowGrows
    <3>2. Pow(B, n) \in Nat /\ Pow(B, k) \in Nat
      BY <1>1, <1>p
    <3> QED BY <1>1, <2>2, <3>1, <3>2
  <2> QED BY <1>1, <2>1, <2>2
<1>3. {k \in 1..g - 1 : v >= Pow(B, k)} = 1..n - 1
  BY <1>1, <1>2
<1>4. Cardinality(1..n - 1) = n - 1
  BY <1>1, FS_Interval
<1>5. Cardinality({k \in 1..g - 1 : v >= Pow(B, k)}) = n - 1
  BY <1>3, <1>4, Zenon
<1> QED BY <1>1, <1>5

\* Both widths have the same code for a number that fits, of VarintLength bytes.
LEMMA Encoders ==
  ASSUME NEW v \in 0..Width64 - 1
  PROVE  \E n \in 1..Groups64 :
           /\ IsLength(v, n) /\ EncodeVarint64(v) = Varint(v, n) /\ VarintLength(v) = n
           /\ v < Width32 => n <= Groups32 /\ EncodeVarint32(v) = Varint(v, n)
<1>0. Width32 \in Nat /\ Width64 \in Nat /\ Width32 <= Width64 /\ 1 < Width32
  BY Sizes
<1>1. v \in Nat /\ v < Width64
  BY <1>0
<1>2. Groups32 \in Nat /\ Groups64 \in Nat /\ Pow(B, Groups32) >= Width32 /\ Pow(B, Groups64) >= Width64
  BY CodingAssumption, GroupsAssumption
<1>3. Pow(B, 0) = 1 /\ Pow(B, Groups32) \in Nat /\ Pow(B, Groups64) \in Nat
  <2>1. B \in Nat /\ B > 0
    BY Sizes
  <2> QED BY <1>2, <2>1, PowFacts
<1>4. Groups32 > 0 /\ Groups64 > 0
  <2>1. Groups32 # 0 /\ Groups64 # 0
    BY <1>0, <1>2, <1>3
  <2> QED BY <1>2, <2>1
<1>5. v < Pow(B, Groups64)
  BY <1>0, <1>1, <1>2, <1>3
<1>6. PICK n \in 1..Groups64 : IsLength(v, n)
  BY <1>1, <1>2, <1>4, <1>5, LengthExists
<1>7. EncodeVarint64(v) = Varint(v, n)
  <2> DEFINE P(m) == v < Pow(B, m) /\ \A k \in 1..m - 1 : v >= Pow(B, k)
             c == CHOOSE m \in 1..Groups64 : P(m)
  <2>1. P(n)
    BY <1>6 DEF IsLength
  <2>2. c \in 1..Groups64 /\ P(c)
    BY <1>6, <2>1, Zenon
  <2>3. IsLength(v, c)
    <3> HIDE DEF c
    <3>1. c \in Nat /\ c > 0
      BY <1>2, <2>2
    <3> QED BY <2>2, <3>1 DEF IsLength
  <2>4. c = n
    <3> HIDE DEF c
    <3> QED BY <1>1, <1>6, <2>3, LengthUnique
  <2> QED BY <2>4, Zenon DEF EncodeVarint64
<1>8. VarintLength(v) = n
  BY <1>1, <1>2, <1>6, LengthCounted DEF VarintLength
<1>9. ASSUME v < Width32 PROVE n <= Groups32 /\ EncodeVarint32(v) = Varint(v, n)
  <2>1. v < Pow(B, Groups32)
    BY <1>0, <1>1, <1>2, <1>3, <1>9
  <2>2. PICK m \in 1..Groups32 : IsLength(v, m)
    BY <1>1, <1>2, <1>4, <2>1, LengthExists
  <2>3. m = n
    BY <1>1, <1>6, <2>2, LengthUnique
  <2>4. 1 + Cardinality({k \in 1..Groups32 - 1 : v >= Pow(B, k)}) = n
    BY <1>1, <1>2, <2>2, <2>3, LengthCounted
  <2>5. n <= Groups32
    BY <1>2, <2>2, <2>3
  <2> QED BY <2>4, <2>5 DEF EncodeVarint32
<1> QED BY <1>6, <1>7, <1>8, <1>9

\* The bytes of a code: flagged ones, and one without the flag.
LEMMA VarintForm ==
  ASSUME NEW v \in Nat, NEW n \in Nat, n > 0, v < Pow(B, n)
  PROVE  /\ Varint(v, n) \in Seq(Byte) /\ Len(Varint(v, n)) = n
         /\ \A i \in 1..n - 1 : Varint(v, n)[i] >= B
         /\ Varint(v, n)[n] < B
         /\ \A i \in 1..n : Varint(v, n)[i] % B = Digit(v, B, i)
<1> DEFINE c == Varint(v, n)
<1>0. B \in Nat /\ B > 0 /\ Byte = 0..2 * B - 1
  BY Sizes DEF Byte
<1>d. c = [i \in 1..n |-> IF i < n THEN Digit(v, B, i) + B ELSE (v \div Pow(B, n - 1)) % (2 * B)]
  BY DEF Varint
<1>1. ASSUME NEW i \in 1..n PROVE Digit(v, B, i) \in 0..B - 1
  <2> DEFINE p == Pow(B, i - 1)
  <2>1. i - 1 \in Nat
    OBVIOUS
  <2>2. p \in Nat /\ p > 0
    BY <1>0, <2>1, PowType
  <2> HIDE DEF p
  <2>3. v \div p \in Nat
    BY <2>2, DivMod
  <2>4. (v \div p) % B \in 0..B - 1
    BY <1>0, <2>3, DivMod
  <2> QED BY <2>4 DEF Digit, p
<1> HIDE DEF c
<1>2. ASSUME NEW i \in 1..n - 1 PROVE c[i] \in Byte /\ c[i] >= B /\ c[i] % B = Digit(v, B, i)
  <2>1. i \in 1..n /\ i < n
    OBVIOUS
  <2>2. c[i] = Digit(v, B, i) + B
    BY <1>d, <2>1
  <2>3. PICK x \in 0..B - 1 : x = Digit(v, B, i)
    BY <1>1, <2>1
  <2>4. (B * 1 + x) % B = x
    BY <1>0, <2>3, DivUnique
  <2>5. B * 1 + x = x + B
    BY <1>0, <2>3
  <2>6. c[i] = x + B
    BY <2>2, <2>3
  <2>7. x + B \in Byte /\ x + B >= B
    BY <1>0, <2>3
  <2> QED BY <2>3, <2>4, <2>5, <2>6, <2>7
<1>3. c[n] \in Byte /\ c[n] < B /\ c[n] % B = Digit(v, B, n)
  <2> DEFINE p == Pow(B, n - 1)
             q == v \div p
  <2>1. n - 1 \in Nat /\ n \in 1..n
    OBVIOUS
  <2>2. p \in Nat /\ p > 0
    BY <1>0, <2>1, PowType
  <2>3. Pow(B, (n - 1) + 1) = p * B
    BY <1>0, <2>1, PowFacts
  <2>4. c[n] = q % (2 * B) /\ Digit(v, B, n) = q % B
    BY <1>d, <2>1 DEF Digit
  <2>5. (n - 1) + 1 = n
    OBVIOUS
  <2> HIDE DEF p
  <2>6. q \in Nat /\ v % p \in Nat /\ v = p * q + (v % p)
    BY <2>2, DivMod
  <2>7. v < p * B
    BY <2>3, <2>5
  <2> HIDE DEF q
  <2>8. q < B
    <3>1. SUFFICES ASSUME q >= B PROVE FALSE
      BY <1>0, <2>6
    <3>2. p * q >= p * B
      BY <1>0, <2>2, <2>6, <3>1
    <3>3. PICK x \in Nat, y \in Nat : x = p * q /\ y = p * B
      BY <1>0, <2>2, <2>6
    <3> QED BY <2>6, <2>7, <3>2, <3>3
  <2>9. q % (2 * B) = q /\ q % B = q
    <3>1. 2 * B \in Nat /\ q < 2 * B
      BY <1>0, <2>6, <2>8
    <3> QED BY <1>0, <2>6, <2>8, <3>1, ModSmall
  <2> QED BY <1>0, <2>4, <2>6, <2>8, <2>9
<1>4. \A i \in 1..n : i \in 1..n - 1 \/ i = n
  OBVIOUS
<1>5. c \in Seq(Byte) /\ Len(c) = n
  <2>1. \A i \in 1..n : c[i] \in Byte
    BY <1>2, <1>3, <1>4
  <2>2. c = [i \in 1..n |-> c[i]]
    BY <1>d
  <2> QED BY <2>1, <2>2, FunIsSeq
<1>6. \A i \in 1..n : c[i] % B = Digit(v, B, i)
  BY <1>2, <1>3, <1>4
<1> QED BY <1>2, <1>3, <1>5, <1>6 DEF c

\* GetVarint reads a code back, whatever follows it,
LEMMA GetVarintIs ==
  ASSUME NEW v \in Nat, NEW n \in Nat, n > 0, v < Pow(B, n),
         NEW groups \in Nat, n <= groups, NEW width \in Nat, v < width, NEW rest \in Seq(Byte)
  PROVE  GetVarint(Varint(v, n) \o rest, groups, width) = [ok |-> TRUE, value |-> v, rest |-> rest]
<1> DEFINE c == Varint(v, n)
           all == c \o rest
<1>c. /\ c \in Seq(Byte) /\ Len(c) = n /\ \A i \in 1..n - 1 : c[i] >= B
      /\ c[n] < B /\ \A i \in 1..n : c[i] % B = Digit(v, B, i)
  BY VarintForm
<1> HIDE DEF c
<1>1. /\ all \in Seq(Byte) /\ Len(all) = n + Len(rest) /\ Len(rest) \in Nat
      /\ \A i \in 1..n : all[i] = c[i]
      /\ \A i \in 1..Len(rest) : all[n + i] = rest[i]
  BY <1>c, ConcatIs
<1> HIDE DEF all
<1>b. B \in Nat /\ Byte \subseteq Nat
  BY Sizes
<1>t. \A i \in 1..Len(all) : all[i] \in Nat
  <2>1. all \in Seq(Nat)
    BY <1>1, <1>b, WiderSeq
  <2> QED BY <2>1
<1>2. LastByte(all, groups) = {n}
  <2>1. n \in LastByte(all, groups)
    <3>1. n \in 1..Len(all) /\ n \in 1..n
      BY <1>1
    <3>2. all[n] < B
      BY <1>1, <1>c, <3>1
    <3>3. ASSUME NEW j \in 1..n - 1 PROVE all[j] >= B
      <4>1. j \in 1..n
        OBVIOUS
      <4> QED BY <1>1, <1>c, <4>1
    <3> QED BY <3>1, <3>2, <3>3 DEF LastByte
  <2>2. ASSUME NEW i \in LastByte(all, groups) PROVE i = n
    <3>1. i \in 1..Len(all) /\ all[i] < B /\ \A j \in 1..i - 1 : all[j] >= B
      BY DEF LastByte
    <3>2. i \in Nat /\ i > 0
      BY <1>1, <3>1
    <3>3. ~(i < n)
      <4>1. SUFFICES ASSUME i < n PROVE FALSE
        OBVIOUS
      <4>2. i \in 1..n - 1 /\ i \in 1..n
        BY <3>2, <4>1
      <4>3. all[i] >= B
        BY <1>1, <1>c, <4>2
      <4> QED BY <1>b, <1>t, <3>1, <4>3
    <3>4. ~(n < i)
      <4>1. SUFFICES ASSUME n < i PROVE FALSE
        OBVIOUS
      <4>2. n \in 1..i - 1 /\ n \in 1..n /\ n \in 1..Len(all)
        BY <1>1, <3>2, <4>1
      <4>3. all[n] >= B /\ all[n] < B
        BY <1>1, <1>c, <3>1, <4>2
      <4> QED BY <1>b, <1>t, <4>2, <4>3
    <3> QED BY <3>2, <3>3, <3>4
  <2> QED BY <2>1, <2>2
<1>3. (CHOOSE i \in LastByte(all, groups) : TRUE) = n
  BY <1>2
<1>4. Shifted(all, n, width) = v
  <2>1. [i \in 1..n |-> all[i] % B] = [i \in 1..n |-> Digit(v, B, i)]
    BY <1>1, <1>c
  <2>2. Placed([i \in 1..n |-> Digit(v, B, i)], B) = v % Pow(B, n)
    BY Sizes, DigitsOf
  <2>3. Pow(B, n) \in Nat
    BY Sizes, PowType
  <2>4. v % Pow(B, n) = v /\ v % width = v
    BY <2>3, ModSmall
  <2> QED BY <2>1, <2>2, <2>4 DEF Shifted
<1>5. SubSeq(all, n + 1, Len(all)) = rest
  <2> DEFINE s == SubSeq(all, n + 1, Len(all))
  <2>1. n + 1 \in Nat /\ n + 1 > 0 /\ Len(all) \in Nat /\ n + 1 <= Len(all) + 1 /\ Len(all) - (n + 1) + 1 = Len(rest)
    BY <1>1
  <2>2. s \in Seq(Byte) /\ Len(s) = Len(rest) /\ \A i \in 1..Len(rest) : s[i] = all[(n + 1) + i - 1]
    BY <1>1, <2>1, SubSeqIs
  <2> HIDE DEF s
  <2>3. ASSUME NEW i \in 1..Len(rest) PROVE s[i] = rest[i]
    <3>1. (n + 1) + i - 1 = n + i
      OBVIOUS
    <3> QED BY <1>1, <2>2, <3>1
  <2>4. s = rest
    BY <2>2, <2>3, SameSeq
  <2> QED BY <2>4 DEF s
<1>6. LastByte(all, groups) # {}
  BY <1>2
<1> QED BY <1>3, <1>4, <1>5, <1>6, Zenon DEF GetVarint, all, c

\* and refuses one that is cut.
LEMMA GetVarintCut ==
  ASSUME NEW v \in Nat, NEW n \in Nat, n > 0, v < Pow(B, n), NEW m \in 0..n - 1, NEW groups, NEW width
  PROVE  GetVarint(SubSeq(Varint(v, n), 1, m), groups, width) = Refused
<1> DEFINE c == Varint(v, n)
           s == SubSeq(c, 1, m)
<1>1. c \in Seq(Byte) /\ Len(c) = n /\ \A i \in 1..n - 1 : c[i] >= B
  BY VarintForm
<1> HIDE DEF c
<1>2. s \in Seq(Byte) /\ Len(s) = m /\ \A i \in 1..m : s[i] = c[i]
  BY <1>1
<1> HIDE DEF s
<1>b. B \in Nat /\ Byte \subseteq Nat
  BY Sizes
<1>3. ASSUME NEW i \in LastByte(s, groups) PROVE FALSE
  <2>1. i \in 1..m /\ s[i] < B
    BY <1>2 DEF LastByte
  <2>2. i \in 1..n - 1 /\ s[i] \in Nat
    <3>1. s \in Seq(Nat)
      BY <1>2, <1>b, WiderSeq
    <3> QED BY <1>2, <2>1, <3>1
  <2>3. s[i] >= B
    BY <1>1, <1>2, <2>1, <2>2
  <2> QED BY <1>b, <2>1, <2>2, <2>3
<1>4. LastByte(s, groups) = {}
  BY <1>3
<1> QED BY <1>4 DEF GetVarint, s, c

-----------------------------------------------------------------------------
(* The codec *)

\* EncodeVarint64 and GetVarint64, for every value.
LEMMA Varint64Reads ==
  ASSUME NEW v \in 0..Width64 - 1, NEW rest \in Seq(Byte)
  PROVE  /\ GetVarint64(EncodeVarint64(v) \o rest) = [ok |-> TRUE, value |-> v, rest |-> rest]
         /\ \A n \in 0..Len(EncodeVarint64(v)) - 1 : ~GetVarint64(SubSeq(EncodeVarint64(v), 1, n)).ok
         /\ Len(EncodeVarint64(v)) = VarintLength(v)
<1>1. PICK n \in 1..Groups64 : IsLength(v, n) /\ EncodeVarint64(v) = Varint(v, n) /\ VarintLength(v) = n
  BY Encoders
<1>2. v \in Nat /\ v < Width64 /\ Width64 \in Nat /\ Groups64 \in Nat /\ n \in Nat /\ n > 0 /\ n <= Groups64
  BY Sizes, CodingAssumption
<1>3. v < Pow(B, n)
  BY <1>1 DEF IsLength
<1>4. GetVarint64(EncodeVarint64(v) \o rest) = [ok |-> TRUE, value |-> v, rest |-> rest]
  BY <1>1, <1>2, <1>3, GetVarintIs DEF GetVarint64
<1>5. Len(EncodeVarint64(v)) = n
  BY <1>1, <1>2, <1>3, VarintForm
<1>6. ASSUME NEW m \in 0..n - 1 PROVE ~GetVarint64(SubSeq(EncodeVarint64(v), 1, m)).ok
  <2>1. GetVarint64(SubSeq(EncodeVarint64(v), 1, m)) = Refused
    BY <1>1, <1>2, <1>3, GetVarintCut DEF GetVarint64
  <2> QED BY <2>1 DEF Refused
<1> QED BY <1>1, <1>4, <1>5, <1>6

\* EncodeVarint32 and GetVarint32.
LEMMA Varint32Reads ==
  ASSUME NEW v \in 0..Width32 - 1, NEW rest \in Seq(Byte)
  PROVE  /\ EncodeVarint32(v) \in Seq(Byte) /\ Len(EncodeVarint32(v)) > 0
         /\ GetVarint32(EncodeVarint32(v) \o rest) = [ok |-> TRUE, value |-> v, rest |-> rest]
         /\ \A n \in 0..Len(EncodeVarint32(v)) - 1 : GetVarint32(SubSeq(EncodeVarint32(v), 1, n)) = Refused
         /\ EncodeVarint32(v) = EncodeVarint64(v) /\ Len(EncodeVarint32(v)) = VarintLength(v)
<1>1. v \in Nat /\ v < Width32 /\ Width32 \in Nat /\ v \in 0..Width64 - 1
  BY Sizes
<1>2. PICK n \in 1..Groups64 :
        /\ IsLength(v, n) /\ EncodeVarint64(v) = Varint(v, n) /\ VarintLength(v) = n
        /\ n <= Groups32 /\ EncodeVarint32(v) = Varint(v, n)
  BY <1>1, Encoders
<1>3. n \in Nat /\ n > 0 /\ Groups32 \in Nat
  BY CodingAssumption
<1>4. v < Pow(B, n)
  BY <1>2 DEF IsLength
<1>5. GetVarint32(EncodeVarint32(v) \o rest) = [ok |-> TRUE, value |-> v, rest |-> rest]
  BY <1>1, <1>2, <1>3, <1>4, GetVarintIs DEF GetVarint32
<1>6. EncodeVarint32(v) \in Seq(Byte) /\ Len(EncodeVarint32(v)) = n
  BY <1>1, <1>2, <1>3, <1>4, VarintForm
<1>7. ASSUME NEW m \in 0..n - 1 PROVE GetVarint32(SubSeq(EncodeVarint32(v), 1, m)) = Refused
  BY <1>1, <1>2, <1>3, <1>4, GetVarintCut DEF GetVarint32
<1> QED BY <1>2, <1>3, <1>5, <1>6, <1>7

\* coding.cc: for words of any size and for every value, decoding is the inverse
\* of encoding, whatever follows, and a code that is cut is refused.
THEOREM CodecIsExact == Spec => []CodingRoundTrips
<1>1. CodingRoundTrips
  <2>m. Magic \in Seq(Byte)
    BY BytesAssumption
  <2>1. ASSUME NEW v \in 0..Width32 - 1
        PROVE  LET code == EncodeVarint32(v) IN
                 /\ GetVarint32(code \o Magic) = [ok |-> TRUE, value |-> v, rest |-> Magic]
                 /\ \A n \in 0..Len(code) - 1 : ~GetVarint32(SubSeq(code, 1, n)).ok
                 /\ code = EncodeVarint64(v) /\ Len(code) = VarintLength(v)
                 /\ DecodeFixed32(EncodeFixed32(v) \o Magic) = v
    <3>1. ~Refused.ok
      BY DEF Refused
    <3>2. /\ GetVarint32(EncodeVarint32(v) \o Magic) = [ok |-> TRUE, value |-> v, rest |-> Magic]
          /\ \A n \in 0..Len(EncodeVarint32(v)) - 1 : GetVarint32(SubSeq(EncodeVarint32(v), 1, n)) = Refused
          /\ EncodeVarint32(v) = EncodeVarint64(v) /\ Len(EncodeVarint32(v)) = VarintLength(v)
      BY <2>m, Varint32Reads
    <3>3. DecodeFixed32(EncodeFixed32(v) \o Magic) = v
      BY <2>m, Fixed32Front
    <3> QED BY <3>1, <3>2, <3>3
  <2>2. ASSUME NEW v \in 0..Width64 - 1
        PROVE  LET code == EncodeVarint64(v) IN
                 /\ GetVarint64(code \o Magic) = [ok |-> TRUE, value |-> v, rest |-> Magic]
                 /\ \A n \in 0..Len(code) - 1 : ~GetVarint64(SubSeq(code, 1, n)).ok
                 /\ Len(code) = VarintLength(v)
                 /\ DecodeFixed64(EncodeFixed64(v) \o Magic) = v
    BY <2>m, Varint64Reads, Fixed64Front
  <2> QED BY <2>1, <2>2 DEF CodingRoundTrips
<1> QED BY <1>1, PTL

\* The length prefix before the bytes.
LEMMA PrefixIs ==
  ASSUME NEW e \in Seq(Byte), Len(e) < Width32
  PROVE  /\ LengthPrefixed(e) \in Seq(Byte)
         /\ Len(LengthPrefixed(e)) = VarintLength(Len(e)) + Len(e)
         /\ VarintLength(Len(e)) \in Nat /\ VarintLength(Len(e)) > 0
<1>1. Len(e) \in 0..Width32 - 1
  BY Sizes
<1>2. << >> \in Seq(Byte)
  OBVIOUS
<1>3. /\ EncodeVarint32(Len(e)) \in Seq(Byte) /\ Len(EncodeVarint32(Len(e))) > 0
      /\ Len(EncodeVarint32(Len(e))) = VarintLength(Len(e))
  BY <1>1, <1>2, Varint32Reads
<1>4. PICK c \in Seq(Byte) : c = EncodeVarint32(Len(e)) /\ Len(c) > 0 /\ Len(c) = VarintLength(Len(e))
  BY <1>3, Zenon
<1>5. c \o e \in Seq(Byte) /\ Len(c \o e) = Len(c) + Len(e)
  BY ConcatIs
<1> QED BY <1>4, <1>5 DEF LengthPrefixed

-----------------------------------------------------------------------------
(* The length of a flattened sequence *)

\* The length of the parts before the i-th.
Off(ss, i) == SumSeq([j \in 1..i - 1 |-> Len(ss[j])])

\* It grows by one part at a time.
LEMMA OffIs ==
  ASSUME NEW E, NEW ss \in Seq(Seq(E))
  PROVE  /\ Off(ss, 1) = 0
         /\ \A i \in 1..Len(ss) + 1 : Off(ss, i) \in Nat
         /\ \A i \in 1..Len(ss) : Off(ss, i + 1) = Off(ss, i) + Len(ss[i])
<1> DEFINE L(i) == [j \in 1..i - 1 |-> Len(ss[j])]
<1>0. \A j \in 1..Len(ss) : Len(ss[j]) \in Nat
  OBVIOUS
<1>1. ASSUME NEW i \in 1..Len(ss) + 1 PROVE L(i) \in Seq(Nat) /\ Len(L(i)) = i - 1
  <2>1. i - 1 \in Nat /\ \A j \in 1..i - 1 : j \in 1..Len(ss)
    OBVIOUS
  <2>2. \A j \in 1..i - 1 : L(i)[j] = Len(ss[j])
    OBVIOUS
  <2>3. \A j \in 1..i - 1 : L(i)[j] \in Nat
    BY <1>0, <2>1, <2>2
  <2>4. L(i) = [j \in 1..i - 1 |-> L(i)[j]]
    OBVIOUS
  <2> HIDE DEF L
  <2> QED BY <2>1, <2>3, <2>4, FunIsSeq
<1>2. Off(ss, 1) = 0
  <2>1. L(1) = << >>
    OBVIOUS
  <2> QED BY <2>1, SumFacts DEF Off
<1>3. \A i \in 1..Len(ss) + 1 : Off(ss, i) \in Nat
  <2> HIDE DEF L
  <2>1. \A i \in 1..Len(ss) + 1 : Off(ss, i) = SumSeq(L(i))
    BY DEF Off, L
  <2> QED BY <1>1, <2>1, SumFacts
<1>4. ASSUME NEW i \in 1..Len(ss) PROVE Off(ss, i + 1) = Off(ss, i) + Len(ss[i])
  <2> DEFINE x == Len(ss[i])
             a == Append(L(i), x)
  <2>0. i \in Nat /\ i > 0 /\ i \in 1..Len(ss) + 1 /\ i + 1 \in 1..Len(ss) + 1
    OBVIOUS
  <2>1. L(i) \in Seq(Nat) /\ Len(L(i)) = i - 1 /\ L(i + 1) \in Seq(Nat) /\ Len(L(i + 1)) = (i + 1) - 1 /\ x \in Nat
    BY <1>0, <1>1, <2>0
  <2>2. /\ \A j \in 1..i - 1 : L(i)[j] = Len(ss[j])
        /\ \A j \in 1..(i + 1) - 1 : L(i + 1)[j] = Len(ss[j])
    OBVIOUS
  <2> HIDE DEF L, x
  <2>3. a \in Seq(Nat) /\ Len(a) = i /\ a[i] = x /\ \A j \in 1..i - 1 : a[j] = L(i)[j]
    BY <2>0, <2>1
  <2> HIDE DEF a
  <2>4. Len(L(i + 1)) = i
    BY <2>0, <2>1
  <2>5. ASSUME NEW j \in 1..i PROVE a[j] = L(i + 1)[j]
    <3>1. j \in 1..(i + 1) - 1 /\ (j \in 1..i - 1 \/ j = i)
      BY <2>0
    <3> QED BY <2>2, <2>3, <3>1 DEF x
  <2>6. a = L(i + 1)
    BY <2>1, <2>3, <2>4, <2>5, SameSeq
  <2>7. SumSeq(a) = SumSeq(L(i)) + x
    BY <2>1, SumFacts DEF a
  <2> QED BY <2>6, <2>7 DEF Off, L, x
<1> QED BY <1>2, <1>3, <1>4

\* A part in front of the others keeps its place when they change.
LEMMA OffSame ==
  ASSUME NEW ss, NEW tt, NEW i \in Nat, \A j \in 1..i - 1 : ss[j] = tt[j]
  PROVE  Off(ss, i) = Off(tt, i)
<1>1. [j \in 1..i - 1 |-> Len(ss[j])] = [j \in 1..i - 1 |-> Len(tt[j])]
  OBVIOUS
<1> QED BY <1>1, Zenon DEF Off

\* All the parts are there.
LEMMA FlattenLength ==
  ASSUME NEW E, NEW ss \in Seq(Seq(E))
  PROVE  FlattenSeq(ss) \in Seq(E) /\ Len(FlattenSeq(ss)) = Off(ss, Len(ss) + 1)
<1> DEFINE S == {n \in Nat : \A tt \in Seq(Seq(E)) :
                               Len(tt) = n => Len(FlattenSeq(tt)) = Off(tt, n + 1)}
<1>1. 0 \in S
  <2> SUFFICES ASSUME NEW tt \in Seq(Seq(E)), Len(tt) = 0 PROVE Len(FlattenSeq(tt)) = Off(tt, 0 + 1)
    OBVIOUS
  <2>1. tt = << >>
    OBVIOUS
  <2>2. FlattenSeq(tt) = << >>
    BY <2>1, FlattenEmpty
  <2>3. Off(tt, 1) = 0
    BY OffIs
  <2> QED BY <2>2, <2>3
<1>2. ASSUME NEW n \in Nat, n \in S PROVE n + 1 \in S
  <2> SUFFICES ASSUME NEW tt \in Seq(Seq(E)), Len(tt) = n + 1
               PROVE  Len(FlattenSeq(tt)) = Off(tt, (n + 1) + 1)
    OBVIOUS
  <2> DEFINE uu == SubSeq(tt, 1, n)
             x == tt[n + 1]
             f == FlattenSeq(uu)
  <2>1. uu \in Seq(Seq(E)) /\ Len(uu) = n /\ \A i \in 1..n : uu[i] = tt[i]
    OBVIOUS
  <2>2. x \in Seq(E)
    OBVIOUS
  <2>3. tt = Append(uu, x)
    OBVIOUS
  <2> HIDE DEF uu, x
  <2>4. FlattenSeq(tt) = f \o x
    BY <2>1, <2>2, <2>3, FlattenAppend
  <2>5. f \in Seq(E)
    BY <2>1, FlattenType
  <2>6. Len(f) = Off(uu, n + 1)
    BY <1>2, <2>1
  <2>7. Off(tt, n + 1) = Off(uu, n + 1)
    <3>1. n + 1 \in Nat /\ \A j \in 1..(n + 1) - 1 : tt[j] = uu[j]
      BY <2>1
    <3> QED BY <3>1, OffSame
  <2>8. n + 1 \in 1..Len(tt)
    OBVIOUS
  <2>9. Off(tt, (n + 1) + 1) = Off(tt, n + 1) + Len(x)
    BY <2>8, OffIs DEF x
  <2> HIDE DEF f
  <2>10. Len(f \o x) = Len(f) + Len(x)
    BY <2>2, <2>5, ConcatIs
  <2> QED BY <2>4, <2>6, <2>7, <2>9, <2>10
<1> HIDE DEF S
<1>3. Len(ss) \in S
  BY <1>1, <1>2, SetInduction
<1>4. FlattenSeq(ss) \in Seq(E)
  BY FlattenType
<1> QED BY <1>3, <1>4 DEF S

-----------------------------------------------------------------------------
(* The records of a batch *)

\* The length of a varint, for any number.
LEMMA VarintLengthIs ==
  ASSUME NEW v \in Nat
  PROVE  /\ VarintLength(v) \in Nat /\ VarintLength(v) > 0
         /\ v < B => VarintLength(v) = 1
<1> DEFINE S == {k \in 1..Groups64 - 1 : v >= Pow(B, k)}
<1>0. Groups64 \in Nat /\ B \in Nat /\ B > 1
  BY CodingAssumption
<1>1. IsFiniteSet(1..Groups64 - 1)
  BY <1>0, FS_Interval
<1>2. IsFiniteSet(S)
  BY <1>1, FS_Subset
<1>3. Cardinality(S) \in Nat
  <2> HIDE DEF S
  <2> QED BY <1>2, FS_CardinalityType
<1>4. ASSUME v < B PROVE S = {}
  <2> SUFFICES ASSUME NEW k \in 1..Groups64 - 1 PROVE v < Pow(B, k)
    <3>1. \A k \in 1..Groups64 - 1 : Pow(B, k) \in Nat
      BY <1>0, PowType
    <3> QED BY <3>1
  <2>1. k \in Nat /\ 1 <= k /\ 1 \in Nat
    BY <1>0
  <2>2. Pow(B, 1) <= Pow(B, k)
    BY <1>0, <2>1, PowGrows
  <2>3. Pow(B, 0) = 1 /\ Pow(B, 0 + 1) = Pow(B, 0) * B
    BY <1>0, PowFacts
  <2>4. Pow(B, 1) = B
    BY <1>0, <2>3
  <2>5. Pow(B, k) \in Nat
    BY <1>0, <2>1, PowType
  <2> QED BY <1>0, <1>4, <2>2, <2>4, <2>5
<1>5. VarintLength(v) = 1 + Cardinality(S)
  BY DEF VarintLength
<1>6. v < B => Cardinality(S) = 0
  <2> HIDE DEF S
  <2> QED BY <1>4, FS_EmptySet
<1> HIDE DEF S
<1> QED BY <1>3, <1>5, <1>6

\* A sum is not below what is added.
LEMMA SumAtLeast ==
  ASSUME NEW s \in Seq(Nat), NEW h \in 1..Len(s)
  PROVE  s[h] <= SumSeq(s)
<1> DEFINE t == [s EXCEPT ![h] = 0]
<1>1. t \in Seq(Nat) /\ Len(t) = Len(s) /\ t[h] = 0 /\ \A i \in 1..Len(s) : i # h => s[i] = t[i]
  OBVIOUS
<1> HIDE DEF t
<1>2. SumSeq(s) \in Nat /\ SumSeq(t) \in Nat /\ SumSeq(t) + s[h] = SumSeq(s) + t[h]
  BY <1>1, SumChanged
<1>3. s[h] \in Nat
  OBVIOUS
<1> QED BY <1>1, <1>2, <1>3

\* The length of a record with an entry, as dataLen counts it.
RecordSize(e) == kRecordHeaderSize + VarintLength(Len(e)) + Len(e)

EntrySizes(b) == [i \in DOMAIN b.entries |-> RecordSize(b.entries[i])]

\* The fields of a call, and the lengths that are added up.
LEMMA CallIs ==
  ASSUME NEW b \in Calls
  PROVE  /\ b.hs \in BOOLEAN /\ b.entries \in Seq(Seq(Byte))
         /\ EntrySizes(b) \in Seq(Nat) /\ Len(EntrySizes(b)) = Len(b.entries)
         /\ \A i \in 1..Len(b.entries) : EntrySizes(b)[i] = RecordSize(b.entries[i])
         /\ SumSeq(EntrySizes(b)) \in Nat
         /\ DataLen(b) = (IF b.hs THEN 1 + Len(HsBytes) ELSE 0) + SumSeq(EntrySizes(b))
<1>1. b.hs \in BOOLEAN /\ b.entries \in Seq(Seq(Byte))
  BY BytesAssumption DEF Calls
<1> DEFINE n == Len(b.entries)
<1>2. n \in Nat /\ DOMAIN b.entries = 1..n /\ \A i \in 1..n : b.entries[i] \in Seq(Byte)
  BY <1>1
<1>3. \A i \in 1..n : Len(b.entries[i]) \in Nat
  BY <1>2
<1>4. \A i \in 1..n : RecordSize(b.entries[i]) \in Nat
  <2> SUFFICES ASSUME NEW i \in 1..n PROVE RecordSize(b.entries[i]) \in Nat
    OBVIOUS
  <2>1. Len(b.entries[i]) \in Nat
    BY <1>3
  <2>2. VarintLength(Len(b.entries[i])) \in Nat
    BY <2>1, VarintLengthIs
  <2> QED BY <2>1, <2>2 DEF RecordSize, kRecordHeaderSize
<1>5. \A i \in 1..n : EntrySizes(b)[i] = RecordSize(b.entries[i])
  BY <1>2 DEF EntrySizes
<1>6. EntrySizes(b) = [i \in 1..n |-> EntrySizes(b)[i]]
  <2>1. EntrySizes(b) = [i \in 1..n |-> RecordSize(b.entries[i])]
    BY <1>2, Zenon DEF EntrySizes
  <2> QED BY <1>5, <2>1, Zenon
<1>7. \A i \in 1..n : EntrySizes(b)[i] \in Nat
  BY <1>4, <1>5
<1>8. EntrySizes(b) \in Seq(Nat) /\ Len(EntrySizes(b)) = n
  <2> HIDE DEF n
  <2> QED BY <1>2, <1>6, <1>7, FunIsSeq
<1>9. SumSeq(EntrySizes(b)) \in Nat
  BY <1>8, SumFacts
<1>10. DataLen(b) = (IF b.hs THEN 1 + Len(HsBytes) ELSE 0) + SumSeq(EntrySizes(b))
  BY Zenon DEF DataLen, EntrySizes, RecordSize, kRecordHeaderSize
<1> QED BY <1>1, <1>5, <1>8, <1>9, <1>10

\* dataLen fits into the len field, and the length of an entry into a varint.
LEMMA EntryFits ==
  ASSUME NEW b \in Calls
  PROVE  /\ DataLen(b) \in Nat /\ DataLen(b) < Width32
         /\ \A i \in 1..Len(b.entries) : Len(b.entries[i]) \in Nat /\ Len(b.entries[i]) < Width32
<1>0. /\ b.hs \in BOOLEAN /\ b.entries \in Seq(Seq(Byte)) /\ HsBytes \in Seq(Byte)
      /\ EntrySizes(b) \in Seq(Nat) /\ Len(EntrySizes(b)) = Len(b.entries)
      /\ \A i \in 1..Len(b.entries) : EntrySizes(b)[i] = RecordSize(b.entries[i])
  BY CallIs, BytesAssumption
<1>1. SumSeq(EntrySizes(b)) \in Nat
  BY CallIs
<1>2. DataLen(b) = (IF b.hs THEN 1 + Len(HsBytes) ELSE 0) + SumSeq(EntrySizes(b))
  BY CallIs
<1>3. Len(HsBytes) \in Nat
  BY <1>0
<1>4. DataLen(b) \in Nat /\ SumSeq(EntrySizes(b)) <= DataLen(b)
  BY <1>1, <1>2, <1>3
<1>5. DataLen(b) < Width32 /\ Width32 \in Nat
  BY LengthAssumption, Sizes
<1>6. ASSUME NEW i \in 1..Len(b.entries) PROVE Len(b.entries[i]) \in Nat /\ Len(b.entries[i]) < Width32
  <2>1. Len(b.entries[i]) \in Nat
    BY <1>0
  <2>2. VarintLength(Len(b.entries[i])) \in Nat
    BY <2>1, VarintLengthIs
  <2>3. EntrySizes(b)[i] <= SumSeq(EntrySizes(b))
    BY <1>0, SumAtLeast
  <2>4. EntrySizes(b)[i] = 1 + VarintLength(Len(b.entries[i])) + Len(b.entries[i])
    BY <1>0 DEF RecordSize, kRecordHeaderSize
  <2> QED BY <1>1, <1>4, <1>5, <2>1, <2>2, <2>3, <2>4
<1> QED BY <1>4, <1>5, <1>6

\* One record: its type, then the field.
LEMMA RecordIs ==
  ASSUME NEW type \in Byte, NEW e \in Seq(Byte), Len(e) < Width32
  PROVE  /\ RecordOf(type, e) \in Seq(Byte) /\ Len(RecordOf(type, e)) = RecordSize(e)
         /\ Len(RecordOf(type, e)) = 1 + Len(LengthPrefixed(e)) /\ Len(LengthPrefixed(e)) \in Nat
         /\ Len(LengthPrefixed(e)) > 0 /\ LengthPrefixed(e) \in Seq(Byte)
         /\ RecordOf(type, e)[1] = type
         /\ \A i \in 1..Len(LengthPrefixed(e)) : RecordOf(type, e)[1 + i] = LengthPrefixed(e)[i]
<1>1. /\ LengthPrefixed(e) \in Seq(Byte)
      /\ Len(LengthPrefixed(e)) = VarintLength(Len(e)) + Len(e)
      /\ VarintLength(Len(e)) \in Nat /\ VarintLength(Len(e)) > 0
  BY PrefixIs
<1>2. Len(e) \in Nat
  OBVIOUS
<1> DEFINE p == LengthPrefixed(e)
           r == <<type>> \o p
<1>3. p \in Seq(Byte) /\ Len(p) = VarintLength(Len(e)) + Len(e)
  BY <1>1
<1> HIDE DEF p
<1>4. r \in Seq(Byte) /\ Len(r) = 1 + Len(p) /\ r[1] = type /\ \A i \in 1..Len(p) : r[1 + i] = p[i]
  BY <1>3
<1>5. r = RecordOf(type, e)
  BY DEF RecordOf, p
<1> HIDE DEF r
<1>6. Len(p) \in Nat /\ Len(p) > 0
  BY <1>1, <1>2, <1>3
<1>7. Len(r) = RecordSize(e)
  BY <1>1, <1>2, <1>3, <1>4 DEF RecordSize, kRecordHeaderSize
<1> QED BY <1>3, <1>4, <1>5, <1>6, <1>7 DEF p

Hs(b) == IF b.hs THEN 1 ELSE 0

\* saveHardState and saveEntries write the records one after the other; dataLen
\* is short by the one byte in which the length of the hard state is.
LEMMA RecordsAre ==
  ASSUME NEW b \in Calls
  PROVE  /\ Records(b) \in Seq(Byte)
         /\ Len(Records(b)) = DataLen(b) + Hs(b)
<1> DEFINE es == [i \in DOMAIN b.entries |-> RecordOf(kLogEntryType, b.entries[i])]
           x == RecordOf(kHardStateType, HsBytes)
           n == Len(b.entries)
<1>0. /\ b.hs \in BOOLEAN /\ b.entries \in Seq(Seq(Byte)) /\ n \in Nat /\ DOMAIN b.entries = 1..n
      /\ \A i \in 1..n : b.entries[i] \in Seq(Byte)
  BY CallIs
<1>1. kLogEntryType \in Byte /\ kHardStateType \in Byte
  BY Sizes DEF kLogEntryType, kHardStateType
<1>2. ASSUME NEW i \in 1..n
      PROVE  /\ RecordOf(kLogEntryType, b.entries[i]) \in Seq(Byte)
             /\ Len(RecordOf(kLogEntryType, b.entries[i])) = EntrySizes(b)[i]
  <2>1. Len(b.entries[i]) < Width32
    BY EntryFits
  <2>2. EntrySizes(b)[i] = RecordSize(b.entries[i])
    BY CallIs
  <2> QED BY <1>0, <1>1, <2>1, <2>2, RecordIs
<1>3. es \in Seq(Seq(Byte)) /\ Len(es) = n /\ \A i \in 1..n : es[i] = RecordOf(kLogEntryType, b.entries[i])
  <2>1. \A i \in 1..n : es[i] = RecordOf(kLogEntryType, b.entries[i])
    BY <1>0
  <2>2. es = [i \in 1..n |-> es[i]]
    BY <1>0, Zenon
  <2> HIDE DEF es, n
  <2>3. \A i \in 1..n : es[i] \in Seq(Byte)
    BY <1>2, <2>1
  <2> QED BY <1>0, <2>1, <2>2, <2>3, FunIsSeq
<1>5. x \in Seq(Byte) /\ Len(x) = 2 + Len(HsBytes) /\ Len(HsBytes) \in Nat
  <2>1. HsBytes \in Seq(Byte) /\ Len(HsBytes) < B
    BY BytesAssumption, LengthAssumption
  <2>2. Len(HsBytes) \in Nat
    BY <2>1
  <2>3. Len(HsBytes) < Width32
    BY <2>1, <2>2, Sizes
  <2>4. x \in Seq(Byte) /\ Len(x) = RecordSize(HsBytes)
    BY <1>1, <2>1, <2>3, RecordIs
  <2>5. VarintLength(Len(HsBytes)) = 1
    BY <2>1, <2>2, VarintLengthIs
  <2> QED BY <2>2, <2>4, <2>5 DEF RecordSize, kRecordHeaderSize
<1>6. Len(FlattenSeq(es)) = SumSeq(EntrySizes(b)) /\ FlattenSeq(es) \in Seq(Byte) /\ SumSeq(EntrySizes(b)) \in Nat
  <2>1. FlattenSeq(es) \in Seq(Byte) /\ Len(FlattenSeq(es)) = Off(es, n + 1)
    <3> HIDE DEF es, n
    <3> QED BY <1>3, FlattenLength
  <2>2. (n + 1) - 1 = n
    BY <1>0
  <2>3. \A j \in 1..n : Len(es[j]) = EntrySizes(b)[j]
    BY <1>2, <1>3
  <2>4. [j \in 1..n |-> Len(es[j])] = [j \in 1..n |-> EntrySizes(b)[j]]
    <3> HIDE DEF es, n
    <3> QED BY <2>3, Zenon
  <2>5. EntrySizes(b) = [j \in 1..n |-> EntrySizes(b)[j]]
    <3>1. EntrySizes(b) \in Seq(Nat) /\ Len(EntrySizes(b)) = n
      BY CallIs
    <3> HIDE DEF n
    <3> QED BY <3>1
  <2>6. Off(es, n + 1) = SumSeq(EntrySizes(b))
    <3> HIDE DEF es, n
    <3> QED BY <2>2, <2>4, <2>5, Zenon DEF Off
  <2>7. SumSeq(EntrySizes(b)) \in Nat
    BY CallIs
  <2> QED BY <2>1, <2>6, <2>7, Zenon
<1>7. DataLen(b) = (IF b.hs THEN 1 + Len(HsBytes) ELSE 0) + SumSeq(EntrySizes(b))
  BY CallIs
<1>8. Records(b) = (IF b.hs THEN x ELSE << >>) \o FlattenSeq(es)
  BY Zenon DEF Records
<1> HIDE DEF es, x, n
<1>9. CASE b.hs
  <2>1. Hs(b) = 1 /\ Records(b) = x \o FlattenSeq(es)
    BY <1>8, <1>9 DEF Hs
  <2>2. Records(b) \in Seq(Byte) /\ Len(Records(b)) = Len(x) + Len(FlattenSeq(es))
    BY <1>5, <1>6, <2>1, ConcatIs
  <2>3. Len(Records(b)) = DataLen(b) + Hs(b)
    BY <1>5, <1>6, <1>7, <1>9, <2>1, <2>2
  <2> QED BY <2>2, <2>3
<1>10. CASE ~b.hs
  <2>1. Hs(b) = 0 /\ Records(b) = FlattenSeq(es)
    <3>1. << >> \o FlattenSeq(es) = FlattenSeq(es)
      BY <1>6
    <3> QED BY <1>8, <1>10, <3>1 DEF Hs
  <2>2. Len(Records(b)) = DataLen(b) + Hs(b)
    BY <1>6, <1>7, <1>10, <2>1
  <2> QED BY <1>6, <2>1, <2>2
<1> QED BY <1>0, <1>9, <1>10

\* What Append hands to the file: the checksum, the length and the records.
LEMMA BatchIs == ASSUME NEW b \in Calls PROVE BatchBytes(b) \in Seq(Byte)
<1> DEFINE scratch == SubSeq(Records(b), 1, DataLen(b))
<1>1. Records(b) \in Seq(Byte) /\ Len(Records(b)) = DataLen(b) + Hs(b)
  BY RecordsAre
<1>2. DataLen(b) \in Nat /\ DataLen(b) < Width32 /\ Hs(b) \in {0, 1}
  BY EntryFits DEF Hs
<1>3. DataLen(b) <= Len(Records(b))
  BY <1>1, <1>2
<1>4. scratch \in Seq(Byte)
  BY <1>1, <1>2, <1>3, FrontIs
<1> HIDE DEF scratch
<1>5. Width32 \in Nat /\ Width32 > 0 /\ Byte \subseteq Nat
  BY <1>2, Sizes
<1>6. Checksum(scratch) \in 0..Width32 - 1
  <2>1. scratch \in Seq(Nat)
    BY <1>4, <1>5, WiderSeq
  <2>2. SumSeq(scratch) \in Nat
    BY <2>1, SumFacts
  <2> QED BY <1>5, <2>2, DivMod DEF Checksum
<1>7. DataLen(b) \in 0..Width32 - 1
  BY <1>2, <1>5
<1>8. EncodeFixed32(Checksum(scratch)) \in Seq(Byte) /\ EncodeFixed32(DataLen(b)) \in Seq(Byte)
  BY <1>6, <1>7, Fixed32
<1>9. EncodeFixed32(Checksum(scratch)) \o EncodeFixed32(DataLen(b)) \in Seq(Byte)
  BY <1>8, ConcatIs
<1>10. EncodeFixed32(Checksum(scratch)) \o EncodeFixed32(DataLen(b)) \o scratch \in Seq(Byte)
  BY <1>4, <1>9, ConcatIs
<1> QED BY <1>10, Zenon DEF BatchBytes, scratch

-----------------------------------------------------------------------------
(* The size of the file *)

Writing == phase \in {"magic", "batch"}

\* The inductive invariant: inside Append the file has grown by what is written
\* of data, and filesize_ has not yet.
SizeInv ==
  /\ data \in Seq(Byte) /\ src \in Seq(Byte)
  /\ filesize \in Nat /\ size \in Nat
  /\ Writing => next \in Seq(Calls) /\ Len(next) = 1
  /\ Writing => Len(data) + Len(src) = filesize + size
  /\ phase = "idle" => filesize = Len(data)

\* Append starts with all of its data before it.
LEMMA AppendBatchKeeps == ASSUME SizeInv, NEW b \in Calls, AppendBatch(b) PROVE SizeInv'
<1>1. Magic \in Seq(Byte) /\ BatchBytes(b) \in Seq(Byte)
  BY BytesAssumption, BatchIs
<1>2. /\ src' \in Seq(Byte) /\ size' = Len(src') /\ next' = <<b>>
      /\ phase = "idle" /\ phase' \in {"magic", "batch"} /\ UNCHANGED <<data, filesize>>
  BY <1>1 DEF AppendBatch
<1>3. size' \in Nat /\ Len(data) \in Nat /\ next' \in Seq(Calls) /\ Len(next') = 1
  BY <1>2 DEF SizeInv
<1> QED BY <1>2, <1>3 DEF SizeInv, Writing

\* A short write moves bytes from src to the file.
LEMMA WriteSomeKeeps == ASSUME SizeInv, NEW done \in 1..Len(src), WriteSome(done) PROVE SizeInv'
<1>0. data \in Seq(Byte) /\ src \in Seq(Byte) /\ Len(src) \in Nat /\ Len(data) \in Nat
      /\ filesize \in Nat /\ size \in Nat /\ done \in Nat /\ done <= Len(src)
  BY DEF SizeInv
<1>1. SubSeq(src, 1, done) \in Seq(Byte) /\ Len(SubSeq(src, 1, done)) = done
  BY <1>0
<1>2. /\ SubSeq(src, done + 1, Len(src)) \in Seq(Byte)
      /\ Len(SubSeq(src, done + 1, Len(src))) = Len(src) - done
  BY <1>0
<1>3. data' \in Seq(Byte) /\ Len(data') = Len(data) + done
  BY <1>0, <1>1 DEF WriteSome
<1>4. src' \in Seq(Byte) /\ Len(src') = Len(src) - done
  BY <1>2 DEF WriteSome
<1>5. UNCHANGED <<filesize, size, next, phase>> /\ Writing
  BY DEF WriteSome, Writing
<1>6. Len(data') + Len(src') = filesize' + size'
  <2>1. Len(data) + Len(src) = filesize + size
    BY <1>5 DEF SizeInv
  <2>2. filesize' = filesize /\ size' = size
    BY <1>5
  <2>3. PICK d, r, f, z \in Nat : d = Len(data) /\ r = Len(src) /\ f = filesize /\ z = size
    BY <1>0
  <2>4. d + r = f + z => (d + done) + (r - done) = f + z
    BY <1>0
  <2> QED BY <1>3, <1>4, <2>1, <2>2, <2>3, <2>4
<1> QED BY <1>3, <1>4, <1>5, <1>6 DEF SizeInv, Writing

\* Append returns when src is empty, and adds the size of its data.
LEMMA AppendReturnsKeeps == ASSUME SizeInv, AppendReturns PROVE SizeInv'
<1>0. Writing /\ src = << >> /\ data' = data /\ filesize' = filesize + size
  BY DEF AppendReturns, Writing, Grown
<1>1. Len(src) = 0 /\ Len(data) \in Nat
  BY <1>0 DEF SizeInv
<1>2. filesize' = Len(data') /\ filesize' \in Nat
  BY <1>0, <1>1 DEF SizeInv
<1>3. CASE phase = "magic"
  <2>1. next[1] \in Calls
    BY <1>0 DEF SizeInv
  <2>2. BatchBytes(next[1]) \in Seq(Byte)
    BY <2>1, BatchIs
  <2>3. src' \in Seq(Byte) /\ size' = Len(src') /\ phase' = "batch" /\ next' = next
    BY <1>3, <2>2 DEF AppendReturns
  <2>4. size' \in Nat
    BY <2>3
  <2> QED BY <1>0, <1>1, <1>2, <2>3, <2>4 DEF SizeInv, Writing
<1>4. CASE phase # "magic"
  <2>1. phase' = "idle" /\ UNCHANGED <<src, size>>
    BY <1>4 DEF AppendReturns
  <2> QED BY <1>0, <1>2, <2>1 DEF SizeInv, Writing
<1> QED BY <1>3, <1>4

LEMMA SizeInvInductive == SizeInv /\ [Next]_vars => SizeInv'
<1> SUFFICES ASSUME SizeInv, [Next]_vars PROVE SizeInv'
  OBVIOUS
<1>1. ASSUME NEW b \in Calls, AppendBatch(b) PROVE SizeInv'
  BY <1>1, AppendBatchKeeps
<1>2. ASSUME NEW done \in 1..Len(src), WriteSome(done) PROVE SizeInv'
  BY <1>2, WriteSomeKeeps
<1>3. CASE AppendReturns
  BY <1>3, AppendReturnsKeeps
<1>4. ASSUME UNCHANGED <<data, src, filesize, size, next>>,
             phase' = phase \/ phase' \notin {"idle", "magic", "batch"}
      PROVE  SizeInv'
  BY <1>4 DEF SizeInv, Writing
<1>5. CASE Finish \/ Die \/ ReadError \/ Ended \/ UNCHANGED vars
  BY <1>4, <1>5 DEF Finish, Die, ReadError, Ended, vars, writeVars
<1>6. ASSUME NEW i \in DOMAIN data, Damage(i) PROVE SizeInv'
  <2>1. data[i] \in Byte /\ (data[i] + 1) % (2 * B) \in Byte
    BY CodingAssumption DEF SizeInv, Byte
  <2>2. data' \in Seq(Byte) /\ phase = "closed" /\ UNCHANGED <<src, filesize, size, next, phase>>
    BY <1>6, <2>1 DEF Damage, SizeInv
  <2> QED BY <2>2 DEF SizeInv, Writing
<1>7. CASE OpenSegment \/ (\E r \in 1..Len(data) : ReadSome(r))
  BY <1>4, <1>7 DEF OpenSegment, ReadSome, writeVars
<1>8. CASE ReadHeader \/ ReadBatch \/ ReadRecord
  BY <1>4, <1>8 DEF ReadHeader, ReadBatch, ReadRecord, writeVars
<1> QED BY <1>1, <1>2, <1>3, <1>5, <1>6, <1>7, <1>8 DEF Next, Writer, Reader

\* filesize_, from which LogWriter::Append computes the space left, is the size
\* of the file whenever no Append is under way, for all data and all the ways in
\* which write(2) can take it in parts.
THEOREM FileSizeExact == Spec => []SizeIsFileSize
<1>1. Init => SizeInv
  BY DEF Init, SizeInv, Writing
<1>2. SizeInv => SizeIsFileSize
  BY DEF SizeInv, SizeIsFileSize
<1> QED BY <1>1, <1>2, SizeInvInductive, PTL DEF Spec

=============================================================================
