----------------------------- MODULE FoldLemmas -----------------------------
(***************************************************************************)
(* What the folds of the models compute, for sequences of any length.      *)
(*                                                                         *)
(* Induction is stated with a set instead of a predicate, and a fold with  *)
(* a function instead of an operator: a proof about a fold of a model      *)
(* gives the function that its operator is on the values at hand.          *)
(***************************************************************************)
EXTENDS SeqFolds, WellFoundedInduction, TLAPS

\* Induction: a set with 0 and the successor of each of its members has every
\* natural number.
LEMMA SetInduction ==
  ASSUME NEW S, 0 \in S, \A n \in Nat : n \in S => n + 1 \in S
  PROVE  \A n \in Nat : n \in S
<1> DEFINE T == Nat \ S
<1>1. SUFFICES ASSUME T # {} PROVE FALSE
  OBVIOUS
<1>2. PICK x \in T : \A y \in T : ~(<<y, x>> \in OpToRel(<, Nat))
  <2>1. T \subseteq Nat
    OBVIOUS
  <2> HIDE DEF T
  <2> QED BY <1>1, <2>1, NatLessThanWellFounded, WFMin, Zenon
<1>3. \A y \in T : ~(y < x)
  BY <1>2 DEF OpToRel
<1>4. x \in Nat /\ x # 0 /\ x - 1 \in Nat /\ x - 1 < x
  OBVIOUS
<1>5. x - 1 \in S
  BY <1>3, <1>4
<1>6. (x - 1) + 1 \in S
  BY <1>4, <1>5
<1> QED BY <1>4, <1>6

\* A set of positions has a greatest element.
LEMMA GreatestExists ==
  ASSUME NEW n \in Nat, NEW s \in SUBSET (1..n), s # {}
  PROVE  \E x \in s : \A y \in s : x >= y
<1> DEFINE S == {m \in Nat : \A r \in SUBSET (1..m) : r # {} => \E x \in r : \A y \in r : x >= y}
<1>1. 0 \in S
  <2>1. 1..0 = {}
    OBVIOUS
  <2>2. SUBSET {} = {{}}
    OBVIOUS
  <2> QED BY <2>1, <2>2
<1>2. ASSUME NEW m \in Nat, m \in S PROVE m + 1 \in S
  <2> SUFFICES ASSUME NEW r \in SUBSET (1..m + 1), r # {}
               PROVE  \E x \in r : \A y \in r : x >= y
    OBVIOUS
  <2>1. CASE m + 1 \in r
    <3>1. \A y \in r : m + 1 >= y
      OBVIOUS
    <3> QED BY <2>1, <3>1
  <2>2. CASE m + 1 \notin r
    <3>1. r \in SUBSET (1..m)
      BY <2>2
    <3> QED BY <1>2, <3>1
  <2> QED BY <2>1, <2>2
<1> HIDE DEF S
<1>3. n \in S
  BY <1>1, <1>2, SetInduction
<1> QED BY <1>3 DEF S

-----------------------------------------------------------------------------
(* Folding a sequence of elements of E with a function f on values of V *)

Foldable(f, V, E, base, seq) == f \in [V \X E -> V] /\ base \in V /\ seq \in Seq(E)

\* The values on the way from base through the first n elements.
IsChain(c, f, base, seq, n) ==
  c[0] = base /\ \A k \in 1..n : c[k] = f[<<c[k - 1], seq[k]>>]

FoldBy(f, base, seq) ==
  LET c == CHOOSE c : IsChain(c, f, base, seq, Len(seq)) IN c[Len(seq)]

\* There are such values.
LEMMA ChainExists ==
  ASSUME NEW V, NEW E, NEW f, NEW base, NEW seq, Foldable(f, V, E, base, seq)
  PROVE  \E c \in [Nat -> V] : IsChain(c, f, base, seq, Len(seq))
<1>0. f \in [V \X E -> V] /\ base \in V /\ seq \in Seq(E)
  BY DEF Foldable
<1> DEFINE S == {n \in Nat : n <= Len(seq) => \E c \in [Nat -> V] : IsChain(c, f, base, seq, n)}
<1>1. 0 \in S
  <2>1. IsChain([k \in Nat |-> base], f, base, seq, 0)
    BY DEF IsChain
  <2> QED BY <1>0, <2>1
<1>2. ASSUME NEW n \in Nat, n \in S PROVE n + 1 \in S
  <2> SUFFICES ASSUME n + 1 <= Len(seq)
               PROVE  \E c \in [Nat -> V] : IsChain(c, f, base, seq, n + 1)
    OBVIOUS
  <2>1. PICK c \in [Nat -> V] : IsChain(c, f, base, seq, n)
    BY <1>0, <1>2
  <2>2. seq[n + 1] \in E /\ c[n] \in V /\ f[<<c[n], seq[n + 1]>>] \in V
    BY <1>0
  <2> DEFINE d == [c EXCEPT ![n + 1] = f[<<c[n], seq[n + 1]>>]]
  <2>3. d \in [Nat -> V] /\ d[n + 1] = f[<<c[n], seq[n + 1]>>] /\ \A k \in 0..n : d[k] = c[k]
    BY <2>2
  <2> HIDE DEF d
  <2>4. ASSUME NEW k \in 1..n + 1 PROVE d[k] = f[<<d[k - 1], seq[k]>>]
    <3>1. CASE k = n + 1
      <4>1. k - 1 = n /\ n \in 0..n
        BY <3>1
      <4>2. d[n] = c[n]
        BY <2>3, <4>1
      <4> QED BY <2>3, <3>1, <4>1, <4>2
    <3>2. CASE k \in 1..n
      <4>1. k - 1 \in 0..n /\ k \in 0..n
        BY <3>2
      <4> QED BY <2>1, <2>3, <3>2, <4>1 DEF IsChain
    <3> QED BY <3>1, <3>2
  <2>5. IsChain(d, f, base, seq, n + 1)
    BY <2>1, <2>3, <2>4 DEF IsChain
  <2> QED BY <2>3, <2>5
<1> HIDE DEF S
<1>3. Len(seq) \in S
  BY <1>0, <1>1, <1>2, SetInduction
<1> QED BY <1>0, <1>3 DEF S

\* They are the only ones.
LEMMA ChainUnique ==
  ASSUME NEW V, NEW E, NEW f, NEW base, NEW seq, Foldable(f, V, E, base, seq),
         NEW c, IsChain(c, f, base, seq, Len(seq)), NEW d, IsChain(d, f, base, seq, Len(seq))
  PROVE  c[Len(seq)] \in V /\ d[Len(seq)] = c[Len(seq)]
<1>0. f \in [V \X E -> V] /\ base \in V /\ seq \in Seq(E)
  BY DEF Foldable
<1> DEFINE S == {k \in Nat : k <= Len(seq) => c[k] \in V /\ d[k] = c[k]}
<1>1. 0 \in S
  BY <1>0 DEF IsChain
<1>2. ASSUME NEW k \in Nat, k \in S PROVE k + 1 \in S
  <2> SUFFICES ASSUME k + 1 <= Len(seq) PROVE c[k + 1] \in V /\ d[k + 1] = c[k + 1]
    OBVIOUS
  <2>1. c[k] \in V /\ d[k] = c[k] /\ seq[k + 1] \in E
    BY <1>0, <1>2
  <2>2. k + 1 \in 1..Len(seq) /\ (k + 1) - 1 = k
    BY <1>0
  <2>3. c[k + 1] = f[<<c[k], seq[k + 1]>>] /\ d[k + 1] = f[<<d[k], seq[k + 1]>>]
    BY <2>2 DEF IsChain
  <2> QED BY <1>0, <2>1, <2>3
<1> HIDE DEF S
<1>3. Len(seq) \in S
  BY <1>0, <1>1, <1>2, SetInduction
<1> QED BY <1>0, <1>3 DEF S

\* So any such values tell what the fold is.
LEMMA FoldByChain ==
  ASSUME NEW V, NEW E, NEW f, NEW base, NEW seq, Foldable(f, V, E, base, seq),
         NEW c, IsChain(c, f, base, seq, Len(seq))
  PROVE  c[Len(seq)] \in V /\ FoldBy(f, base, seq) = c[Len(seq)]
<1> DEFINE d == CHOOSE d : IsChain(d, f, base, seq, Len(seq))
<1>1. IsChain(d, f, base, seq, Len(seq))
  OBVIOUS
<1>2. FoldBy(f, base, seq) = d[Len(seq)]
  BY DEF FoldBy
<1> HIDE DEF d
<1>3. c[Len(seq)] \in V /\ d[Len(seq)] = c[Len(seq)]
  BY <1>1, ChainUnique
<1> QED BY <1>2, <1>3

\* The value of a fold has the type of its steps.
LEMMA FoldByType ==
  ASSUME NEW V, NEW E, NEW f, NEW base, NEW seq, Foldable(f, V, E, base, seq)
  PROVE  FoldBy(f, base, seq) \in V
<1>1. PICK c \in [Nat -> V] : IsChain(c, f, base, seq, Len(seq))
  BY ChainExists, Zenon
<1>2. c[Len(seq)] \in V /\ FoldBy(f, base, seq) = c[Len(seq)]
  BY <1>1, FoldByChain
<1> QED BY <1>2

\* The fold of the empty sequence.
LEMMA FoldByEmpty ==
  ASSUME NEW V, NEW E, NEW f, NEW base, NEW seq, Foldable(f, V, E, base, seq), seq = << >>
  PROVE  FoldBy(f, base, seq) = base
<1>1. Len(seq) = 0
  OBVIOUS
<1>2. PICK c \in [Nat -> V] : IsChain(c, f, base, seq, Len(seq))
  BY ChainExists, Zenon
<1>3. FoldBy(f, base, seq) = c[Len(seq)]
  BY <1>2, FoldByChain
<1> QED BY <1>1, <1>2, <1>3 DEF IsChain

\* One element.
LEMMA FoldByOne ==
  ASSUME NEW V, NEW E, NEW f, NEW base, NEW e, Foldable(f, V, E, base, <<e>>)
  PROVE  FoldBy(f, base, <<e>>) = f[<<base, e>>]
<1> DEFINE c == [k \in Nat |-> IF k = 0 THEN base ELSE f[<<base, e>>]]
<1>1. PICK s : s = <<e>>
  OBVIOUS
<1>2. Len(s) = 1 /\ s[1] = e
  BY <1>1
<1>3. c[0] = base /\ c[1] = f[<<base, e>>]
  OBVIOUS
<1> HIDE DEF c
<1>4. IsChain(c, f, base, s, Len(s))
  BY <1>2, <1>3 DEF IsChain
<1>5. Foldable(f, V, E, base, s)
  BY <1>1
<1>6. FoldBy(f, base, s) = c[Len(s)]
  BY <1>4, <1>5, FoldByChain
<1> QED BY <1>1, <1>2, <1>3, <1>6

\* One more element.
LEMMA FoldByAppend ==
  ASSUME NEW V, NEW E, NEW f, NEW base, NEW seq, Foldable(f, V, E, base, seq), NEW e \in E
  PROVE  /\ Foldable(f, V, E, base, Append(seq, e))
         /\ FoldBy(f, base, Append(seq, e)) = f[<<FoldBy(f, base, seq), e>>]
<1> DEFINE s == Append(seq, e)
<1>1. /\ s \in Seq(E) /\ Len(s) = Len(seq) + 1 /\ s[Len(seq) + 1] = e /\ Len(seq) \in Nat
      /\ \A k \in 1..Len(seq) : s[k] = seq[k]
  BY DEF Foldable
<1> HIDE DEF s
<1>2. Foldable(f, V, E, base, s)
  BY <1>1 DEF Foldable
<1>3. PICK c \in [Nat -> V] : IsChain(c, f, base, s, Len(s))
  BY <1>2, ChainExists, Zenon
<1>4. IsChain(c, f, base, seq, Len(seq))
  BY <1>1, <1>3 DEF IsChain
<1>5. FoldBy(f, base, s) = c[Len(s)]
  BY <1>2, <1>3, FoldByChain
<1>6. FoldBy(f, base, seq) = c[Len(seq)]
  BY <1>4, FoldByChain
<1>7. c[Len(s)] = f[<<c[Len(seq)], e>>]
  <2>1. Len(s) \in 1..Len(s) /\ Len(s) - 1 = Len(seq) /\ s[Len(s)] = e
    BY <1>1
  <2> QED BY <1>3, <2>1 DEF IsChain
<1>8. FoldBy(f, base, s) = f[<<FoldBy(f, base, seq), e>>]
  BY <1>5, <1>6, <1>7
<1> QED BY <1>2, <1>8 DEF s

\* A concatenation is folded part by part.
LEMMA FoldByConcat ==
  ASSUME NEW V, NEW E, NEW f, NEW base, NEW seq, Foldable(f, V, E, base, seq), NEW t \in Seq(E)
  PROVE  /\ Foldable(f, V, E, base, seq \o t)
         /\ Foldable(f, V, E, FoldBy(f, base, seq), t)
         /\ FoldBy(f, base, seq \o t) = FoldBy(f, FoldBy(f, base, seq), t)
<1> DEFINE b == FoldBy(f, base, seq)
<1> DEFINE S == {n \in Nat : \A u \in Seq(E) : Len(u) = n =>
                   FoldBy(f, base, seq \o u) = FoldBy(f, b, u)}
<1>0. f \in [V \X E -> V] /\ base \in V /\ seq \in Seq(E) /\ b \in V
  <2>1. b \in V
    BY FoldByType, Zenon
  <2> QED BY <2>1 DEF Foldable
<1>1. \A u \in Seq(E) : Foldable(f, V, E, b, u) /\ Foldable(f, V, E, base, seq \o u)
  BY <1>0 DEF Foldable
<1>b. b = FoldBy(f, base, seq)
  OBVIOUS
<1> HIDE DEF b
<1>2. 0 \in S
  <2> SUFFICES ASSUME NEW u \in Seq(E), Len(u) = 0
               PROVE  FoldBy(f, base, seq \o u) = FoldBy(f, b, u)
    OBVIOUS
  <2>1. u = << >> /\ seq \o u = seq
    BY <1>0
  <2>2. FoldBy(f, b, u) = b
    BY <1>1, <2>1, FoldByEmpty, Zenon
  <2> QED BY <1>b, <2>1, <2>2
<1>3. ASSUME NEW n \in Nat, n \in S PROVE n + 1 \in S
  <2> SUFFICES ASSUME NEW u \in Seq(E), Len(u) = n + 1
               PROVE  FoldBy(f, base, seq \o u) = FoldBy(f, b, u)
    OBVIOUS
  <2>1. PICK w \in Seq(E), e \in E : u = Append(w, e)
    <3>1. SubSeq(u, 1, n) \in Seq(E) /\ u[n + 1] \in E /\ Len(SubSeq(u, 1, n)) = n
      OBVIOUS
    <3>2. \A i \in 1..n : SubSeq(u, 1, n)[i] = u[i]
      OBVIOUS
    <3>3. u = Append(SubSeq(u, 1, n), u[n + 1])
      BY <3>1, <3>2
    <3> QED BY <3>1, <3>3
  <2>2. Len(w) = n /\ seq \o w \in Seq(E) /\ seq \o u = Append(seq \o w, e)
    BY <1>0, <2>1
  <2>3. FoldBy(f, base, seq \o w) = FoldBy(f, b, w)
    BY <1>3, <2>2
  <2>4. FoldBy(f, base, Append(seq \o w, e)) = f[<<FoldBy(f, base, seq \o w), e>>]
    BY <1>1, FoldByAppend
  <2>5. FoldBy(f, b, Append(w, e)) = f[<<FoldBy(f, b, w), e>>]
    BY <1>1, FoldByAppend
  <2> QED BY <2>1, <2>2, <2>3, <2>4, <2>5
<1> HIDE DEF S
<1>4. Len(t) \in S
  BY <1>2, <1>3, SetInduction
<1> QED BY <1>1, <1>4, <1>b DEF S

-----------------------------------------------------------------------------
(* FoldLeft *)

\* The values FoldLeft goes through.
LEMMA StepsExist ==
  ASSUME NEW V, NEW E, NEW f, NEW base, NEW seq, Foldable(f, V, E, base, seq)
  PROVE  \E g \in [0..Len(seq) -> V] : IsChain(g, f, base, seq, Len(seq))
<1>1. PICK c \in [Nat -> V] : IsChain(c, f, base, seq, Len(seq))
  BY ChainExists, Zenon
<1>2. PICK n \in Nat : n = Len(seq)
  BY DEF Foldable
<1> DEFINE g == [i \in 0..n |-> c[i]]
<1>3. g \in [0..n -> V] /\ \A i \in 0..n : g[i] = c[i]
  OBVIOUS
<1> HIDE DEF g
<1>4. IsChain(g, f, base, seq, n)
  <2>1. c[0] = base /\ \A k \in 1..n : c[k] = f[<<c[k - 1], seq[k]>>]
    BY <1>1, <1>2 DEF IsChain
  <2>2. ASSUME NEW k \in 1..n PROVE g[k] = f[<<g[k - 1], seq[k]>>]
    <3>1. k \in 0..n /\ k - 1 \in 0..n
      OBVIOUS
    <3> QED BY <1>3, <2>1, <3>1
  <2> QED BY <1>3, <2>1, <2>2 DEF IsChain
<1> QED BY <1>2, <1>3, <1>4

\* Values that go on from base step by step, as long as they are in V.
IsRun(c, V, f, base, seq) ==
  /\ c[0] = base
  /\ \A k \in 1..Len(seq) : c[k - 1] \in V => c[k] = f[<<c[k - 1], seq[k]>>]

\* They end at the fold.
LEMMA StepsAreFold ==
  ASSUME NEW V, NEW E, NEW f, NEW base, NEW seq, Foldable(f, V, E, base, seq),
         NEW c, IsRun(c, V, f, base, seq)
  PROVE  FoldBy(f, base, seq) = c[Len(seq)]
<1>0. f \in [V \X E -> V] /\ base \in V /\ seq \in Seq(E)
  BY DEF Foldable
<1> DEFINE S == {k \in Nat : k <= Len(seq) => c[k] \in V}
<1>1. 0 \in S
  BY <1>0 DEF IsRun
<1>2. ASSUME NEW k \in Nat, k \in S PROVE k + 1 \in S
  <2> SUFFICES ASSUME k + 1 <= Len(seq) PROVE c[k + 1] \in V
    OBVIOUS
  <2>1. k + 1 \in 1..Len(seq) /\ (k + 1) - 1 = k /\ seq[k + 1] \in E
    BY <1>0
  <2>2. c[k] \in V
    BY <1>0, <1>2
  <2>3. c[k + 1] = f[<<c[k], seq[k + 1]>>]
    BY <2>1, <2>2 DEF IsRun
  <2> QED BY <1>0, <2>1, <2>2, <2>3
<1> HIDE DEF S
<1>3. \A k \in Nat : k \in S
  BY <1>1, <1>2, SetInduction
<1>4. IsChain(c, f, base, seq, Len(seq))
  <2> SUFFICES ASSUME NEW k \in 1..Len(seq) PROVE c[k] = f[<<c[k - 1], seq[k]>>]
    BY DEF IsChain, IsRun
  <2>1. k - 1 \in Nat /\ k - 1 <= Len(seq)
    BY <1>0
  <2>2. c[k - 1] \in V
    BY <1>3, <2>1 DEF S
  <2> QED BY <2>2 DEF IsRun
<1> QED BY <1>4, FoldByChain

-----------------------------------------------------------------------------
(* Sums *)

Adds(w, E) == [p \in Nat \X E |-> p[1] + w[p[2]]]

\* A sum of natural numbers is a natural number.
LEMMA AddsFoldable ==
  ASSUME NEW E, NEW w \in [E -> Nat], NEW base \in Nat, NEW seq \in Seq(E)
  PROVE  Foldable(Adds(w, E), Nat, E, base, seq)
BY DEF Foldable, Adds

\* The sum from a base on is the base and the sum from zero.
LEMMA AddsShift ==
  ASSUME NEW E, NEW w \in [E -> Nat], NEW base \in Nat, NEW seq \in Seq(E)
  PROVE  /\ FoldBy(Adds(w, E), 0, seq) \in Nat
         /\ FoldBy(Adds(w, E), base, seq) = base + FoldBy(Adds(w, E), 0, seq)
<1> DEFINE f == Adds(w, E)
<1>0. Foldable(f, Nat, E, 0, seq) /\ Foldable(f, Nat, E, base, seq)
  BY AddsFoldable
<1>f. \A v \in Nat, e \in E : f[<<v, e>>] = v + w[e] /\ w[e] \in Nat
  BY DEF Adds
<1> HIDE DEF f
<1>1. PICK c \in [Nat -> Nat] : IsChain(c, f, 0, seq, Len(seq))
  BY <1>0, ChainExists, Zenon
<1> DEFINE d == [k \in Nat |-> base + c[k]]
<1>d. d \in [Nat -> Nat]
  <2>1. \A k \in Nat : c[k] \in Nat
    BY Zenon
  <2>2. \A k \in Nat : base + c[k] \in Nat
    <3>1. \A n \in Nat : base + n \in Nat
      OBVIOUS
    <3> QED BY <2>1, <3>1, Zenon
  <2> QED BY <2>2, Zenon
<1>2. d[0] = base
  BY <1>1 DEF IsChain
<1>3. ASSUME NEW k \in 1..Len(seq) PROVE d[k] = f[<<d[k - 1], seq[k]>>]
  <2>1. k \in Nat /\ k - 1 \in Nat /\ seq[k] \in E
    OBVIOUS
  <2>2. d[k] = base + c[k] /\ d[k - 1] = base + c[k - 1] /\ c[k - 1] \in Nat
    <3>1. c[k - 1] \in Nat
      BY <2>1, Zenon
    <3>2. \A n \in Nat : d[n] = base + c[n]
      BY Zenon
    <3> QED BY <2>1, <3>1, <3>2, Zenon
  <2>3. c[k] = c[k - 1] + w[seq[k]] /\ w[seq[k]] \in Nat
    BY <1>1, <1>f, <2>1, <2>2, Zenon DEF IsChain
  <2>4. PICK a \in Nat, x \in Nat : a = c[k - 1] /\ x = w[seq[k]]
    BY <2>2, <2>3, Zenon
  <2>5. d[k] = base + (a + x) /\ d[k - 1] = base + a
    BY <2>2, <2>3, <2>4, Zenon
  <2> HIDE DEF d
  <2>6. base + (a + x) = (base + a) + x /\ base + a \in Nat
    OBVIOUS
  <2> QED BY <1>f, <2>1, <2>4, <2>5, <2>6, Zenon
<1>4. Len(seq) \in Nat
  OBVIOUS
<1>5. d[Len(seq)] = base + c[Len(seq)]
  BY <1>4
<1> HIDE DEF d
<1>6. FoldBy(f, base, seq) = d[Len(seq)]
  <2>1. IsChain(d, f, base, seq, Len(seq))
    BY <1>2, <1>3, Zenon DEF IsChain
  <2>2. Foldable(f, Nat, E, base, seq)
    BY <1>0
  <2> QED BY <2>1, <2>2, FoldByChain, SMTT(30)
<1>7. FoldBy(f, 0, seq) = c[Len(seq)]
  BY <1>0, <1>1, FoldByChain
<1> QED BY <1>4, <1>5, <1>6, <1>7 DEF f

-----------------------------------------------------------------------------
(* FlattenSeq *)


Concat(E) == [p \in Seq(E) \X Seq(E) |-> p[1] \o p[2]]

\* Sequences of sequences concatenate.
LEMMA ConcatFoldable ==
  ASSUME NEW E, NEW ss \in Seq(Seq(E))
  PROVE  Foldable(Concat(E), Seq(E), Seq(E), << >>, ss)
  BY DEF Concat, Foldable

IsFlat(g, ss) == g = [i \in 0..Len(ss) |-> IF i = 0 THEN << >> ELSE g[i - 1] \o ss[i]]

\* FlattenSeq is the fold of concatenation.
LEMMA FlattenIsFold ==
  ASSUME NEW E, NEW ss \in Seq(Seq(E))
  PROVE  FlattenSeq(ss) = FoldBy(Concat(E), << >>, ss)
<1> DEFINE f == Concat(E)
           T == Seq(E)
<1>0. Foldable(f, T, T, << >>, ss)
  BY ConcatFoldable
<1>f. \A u, v \in T : f[<<u, v>>] = u \o v
  BY DEF Concat
<1>e. \A k \in 1..Len(ss) : ss[k] \in T
  OBVIOUS
<1> HIDE DEF f, T
<1>1. PICK g \in [0..Len(ss) -> T] : IsChain(g, f, << >>, ss, Len(ss))
  BY <1>0, StepsExist, Zenon
<1>2. IsFlat(g, ss)
  <2>1. ASSUME NEW i \in 0..Len(ss), i # 0 PROVE g[i] = g[i - 1] \o ss[i]
    <3>1. i \in 1..Len(ss) /\ i - 1 \in 0..Len(ss)
      BY <2>1
    <3>2. g[i] = f[<<g[i - 1], ss[i]>>]
      BY <1>1, <3>1 DEF IsChain
    <3>3. g[i - 1] \in T
      BY <3>1
    <3> QED BY <1>e, <1>f, <3>1, <3>2, <3>3
  <2> QED BY <1>1, <2>1 DEF IsFlat, IsChain
<1> DEFINE it == CHOOSE h : IsFlat(h, ss)
<1>3. IsFlat(it, ss)
  BY <1>2, Zenon
<1>4. FlattenSeq(ss) = it[Len(ss)]
  BY Zenon DEF FlattenSeq, FoldLeft, IsFlat
<1> HIDE DEF it
<1>5. IsRun(it, T, f, << >>, ss)
  <2>1. ASSUME NEW k \in 1..Len(ss), it[k - 1] \in T PROVE it[k] = f[<<it[k - 1], ss[k]>>]
    <3>1. k \in 0..Len(ss) /\ k # 0
      OBVIOUS
    <3>2. it[k] = it[k - 1] \o ss[k]
      BY <1>3, <3>1, Zenon DEF IsFlat
    <3> QED BY <1>e, <1>f, <2>1, <3>2
  <2>2. it[0] = << >>
    BY <1>3 DEF IsFlat
  <2> QED BY <2>1, <2>2 DEF IsRun
<1>6. FoldBy(f, << >>, ss) = it[Len(ss)]
  BY <1>0, <1>5, StepsAreFold
<1> QED BY <1>4, <1>6 DEF f

\* FlattenSeq yields a sequence,
LEMMA FlattenType ==
  ASSUME NEW E, NEW ss \in Seq(Seq(E))
  PROVE  FlattenSeq(ss) \in Seq(E)
  BY ConcatFoldable, FlattenIsFold, FoldByType

\* the empty one of nothing.
LEMMA FlattenEmpty == FlattenSeq(<< >>) = << >>
<1>1. PICK E : E = {}
  OBVIOUS
<1>2. << >> \in Seq(Seq(E))
  OBVIOUS
<1>3. Foldable(Concat(E), Seq(E), Seq(E), << >>, << >>)
  BY <1>2, ConcatFoldable
<1> QED BY <1>2, <1>3, FlattenIsFold, FoldByEmpty, Zenon

\* One more sequence.
LEMMA FlattenAppend ==
  ASSUME NEW E, NEW ss \in Seq(Seq(E)), NEW s \in Seq(E)
  PROVE  FlattenSeq(Append(ss, s)) = FlattenSeq(ss) \o s
<1> DEFINE f == Concat(E)
<1>1. Foldable(f, Seq(E), Seq(E), << >>, ss)
  BY ConcatFoldable
<1>2. FoldBy(f, << >>, ss) \in Seq(E)
  <2> HIDE DEF f
  <2> QED BY <1>1, FoldByType
<1>3. FoldBy(f, << >>, Append(ss, s)) = f[<<FoldBy(f, << >>, ss), s>>]
  <2> HIDE DEF f
  <2> QED BY <1>1, FoldByAppend
<1>4. f[<<FoldBy(f, << >>, ss), s>>] = FoldBy(f, << >>, ss) \o s
  BY <1>2 DEF Concat
<1>5. Append(ss, s) \in Seq(Seq(E))
  OBVIOUS
<1> QED BY <1>3, <1>4, <1>5, FlattenIsFold

=============================================================================
