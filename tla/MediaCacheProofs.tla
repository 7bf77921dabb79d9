--------------------------- MODULE MediaCacheProofs ---------------------------
(***************************************************************************)
(* Proofs about MediaCache: its inductive invariant holds for any number   *)
(* of requests, versions, edits and inodes and for every budget, and so do *)
(* the whole derivatives that are served, and the match of what is cached  *)
(* with the hash it is cached under.                                       *)
(***************************************************************************)
EXTENDS MediaCache, SequenceTheorems, NaturalsInduction, FiniteSetTheorems, TLAPS

-----------------------------------------------------------------------------
(* Sequences, and their totals. *)

\* Induction over the natural numbers, for a set of them.
LEMMA NatSetInduction ==
  ASSUME NEW S, 0 \in S, \A n \in Nat : n \in S => n + 1 \in S
  PROVE  Nat \subseteq S
<1>. DEFINE T == Nat \ S
            R == OpToRel(<, Nat)
<1>1. SUFFICES ASSUME T # {} PROVE FALSE
  OBVIOUS
<1>2. IsWellFoundedOn(R, Nat)  BY NatLessThanWellFounded
<1>3. PICK x \in T : \A y \in T : ~(<<y, x>> \in R)
  <2>. HIDE DEF R
  <2>. QED  BY <1>1, <1>2, WFMin
<1>4. x \in Nat /\ x # 0  OBVIOUS
<1>5. x - 1 \in T  BY <1>4
<1>6. <<x - 1, x>> \in R  BY <1>4 DEF OpToRel
<1>. QED  BY <1>3, <1>5, <1>6

\* The element at i is gone, those behind it move up.
LEMMA WithoutSeq ==
  ASSUME NEW S, NEW seq \in Seq(S), NEW i \in DOMAIN seq
  PROVE  /\ Without(seq, i) \in Seq(S)
         /\ Len(Without(seq, i)) = Len(seq) - 1
         /\ \A j \in 1 .. Len(seq) - 1 :
              Without(seq, i)[j] = IF j < i THEN seq[j] ELSE seq[j + 1]
<1>1. i \in 1 .. Len(seq) /\ Len(seq) \in Nat  BY LenProperties
<1>. DEFINE a == SubSeq(seq, 1, i - 1)
            b == SubSeq(seq, i + 1, Len(seq))
<1>2. a \in Seq(S) /\ Len(a) = i - 1 /\ \A j \in 1 .. i - 1 : a[j] = seq[j]
  BY <1>1, SubSeqProperties, ElementOfSeq
<1>3. b \in Seq(S) /\ Len(b) = Len(seq) - i /\ \A j \in 1 .. Len(seq) - i : b[j] = seq[i + j]
  BY <1>1, SubSeqProperties, ElementOfSeq
<1>4. /\ a \o b \in Seq(S) /\ Len(a \o b) = Len(a) + Len(b)
      /\ \A j \in 1 .. Len(a) + Len(b) : (a \o b)[j] = IF j <= Len(a) THEN a[j] ELSE b[j - Len(a)]
  BY <1>2, <1>3, ConcatProperties
<1>5. Without(seq, i) = a \o b  BY DEF Without
<1>6. ASSUME NEW j \in 1 .. Len(seq) - 1
      PROVE  (a \o b)[j] = IF j < i THEN seq[j] ELSE seq[j + 1]
  <2>1. CASE j < i
    BY <1>1, <1>2, <1>3, <1>4, <2>1
  <2>2. CASE ~(j < i)
    <3>1. j - (i - 1) \in 1 .. Len(seq) - i  BY <1>1, <2>2
    <3>2. b[j - (i - 1)] = seq[i + (j - (i - 1))]  BY <1>3, <3>1
    <3>3. i + (j - (i - 1)) = j + 1  BY <1>1
    <3>4. j \in 1 .. Len(a) + Len(b) /\ ~(j <= Len(a))  BY <1>1, <1>2, <1>3, <2>2
    <3>. QED  BY <1>2, <1>4, <2>2, <3>2, <3>3, <3>4
  <2>. QED  BY <2>1, <2>2
<1>. HIDE DEF a, b
<1>7. Len(a) + Len(b) = Len(seq) - 1  BY <1>1, <1>2, <1>3
<1>. QED  BY <1>4, <1>5, <1>6, <1>7

\* What is left are the other elements, at places that stay apart.
LEMMA WithoutElements ==
  ASSUME NEW S, NEW seq \in Seq(S), NEW i \in DOMAIN seq
  PROVE  /\ \A j \in DOMAIN Without(seq, i) :
              \E k \in DOMAIN seq : k # i /\ Without(seq, i)[j] = seq[k]
         /\ \A k \in DOMAIN seq :
              k # i => \E j \in DOMAIN Without(seq, i) : Without(seq, i)[j] = seq[k]
         /\ \A m, n \in DOMAIN Without(seq, i) :
              m # n => \E k, l \in DOMAIN seq :
                         /\ k # l /\ k # i /\ l # i
                         /\ Without(seq, i)[m] = seq[k] /\ Without(seq, i)[n] = seq[l]
<1>. DEFINE rest == Without(seq, i)
            Place(j) == IF j < i THEN j ELSE j + 1
<1>1. DOMAIN seq = 1 .. Len(seq) /\ Len(seq) \in Nat  BY LenProperties
<1>2. DOMAIN rest = 1 .. Len(seq) - 1  BY WithoutSeq, LenProperties
<1>3. ASSUME NEW j \in DOMAIN rest
      PROVE  Place(j) \in DOMAIN seq /\ Place(j) # i /\ rest[j] = seq[Place(j)]
  <2>1. rest[j] = IF j < i THEN seq[j] ELSE seq[j + 1]  BY <1>2, WithoutSeq
  <2>2. Place(j) \in DOMAIN seq /\ Place(j) # i  BY <1>1, <1>2
  <2>. QED  BY <2>1, <2>2
<1>4. ASSUME NEW k \in DOMAIN seq, k # i
      PROVE  \E j \in DOMAIN rest : Place(j) = k
  <2>1. CASE k < i
    <3>1. k \in DOMAIN rest /\ Place(k) = k  BY <1>1, <1>2, <2>1
    <3>. QED  BY <3>1
  <2>2. CASE k > i
    <3>1. k - 1 \in DOMAIN rest /\ Place(k - 1) = k  BY <1>1, <1>2, <2>2
    <3>. QED  BY <3>1
  <2>. QED  BY <1>1, <1>4, <2>1, <2>2
<1>5. \A m, n \in DOMAIN rest : m # n => Place(m) # Place(n)
  BY <1>1, <1>2
<1>. HIDE DEF rest, Place
<1>6. \A k \in DOMAIN seq : k # i => \E j \in DOMAIN rest : rest[j] = seq[k]
  BY <1>3, <1>4
<1>7. \A m, n \in DOMAIN rest :
        m # n => \E k, l \in DOMAIN seq : k # l /\ k # i /\ l # i /\ rest[m] = seq[k] /\ rest[n] = seq[l]
  BY <1>3, <1>5
<1>. QED  BY <1>3, <1>6, <1>7 DEF rest

\* The sums of the beginnings of a sequence.
IsSums(sums, seq) ==
  sums = [n \in 0 .. Len(seq) |-> IF n = 0 THEN 0 ELSE sums[n - 1] + seq[n]]

\* Each sum is the one before it and an element.
LEMMA SumsUnfold ==
  ASSUME NEW sums, NEW seq, IsSums(sums, seq), Len(seq) \in Nat
  PROVE  /\ sums[0] = 0
         /\ \A n \in Nat : n + 1 <= Len(seq) => sums[n + 1] = sums[n] + seq[n + 1]
<1>1. \A n \in 0 .. Len(seq) : sums[n] = IF n = 0 THEN 0 ELSE sums[n - 1] + seq[n]
  BY DEF IsSums
<1>2. sums[0] = 0  BY <1>1
<1>3. ASSUME NEW n \in Nat, n + 1 <= Len(seq)
      PROVE  sums[n + 1] = sums[n] + seq[n + 1]
  <2>1. n + 1 \in 0 .. Len(seq) /\ n + 1 # 0 /\ (n + 1) - 1 = n  BY <1>3
  <2>. QED  BY <1>1, <2>1
<1>. QED  BY <1>2, <1>3

\* There are such sums ...
LEMMA SumsExist ==
  ASSUME NEW seq \in Seq(Nat)
  PROVE  \E sums \in [0 .. Len(seq) -> Nat] : IsSums(sums, seq)
<1>. DEFINE Good(f, m) == f[0] = 0 /\ \A n \in 0 .. m - 1 : f[n + 1] = f[n] + seq[n + 1]
            N == {m \in Nat : m <= Len(seq) => \E f \in [0 .. m -> Nat] : Good(f, m)}
<1>0. Len(seq) \in Nat /\ \A n \in 1 .. Len(seq) : seq[n] \in Nat
  BY LenProperties, ElementOfSeq
<1>1. 0 \in N
  <2>1. [n \in 0 .. 0 |-> 0] \in [0 .. 0 -> Nat] /\ Good([n \in 0 .. 0 |-> 0], 0)  OBVIOUS
  <2>. HIDE DEF Good
  <2>. QED  BY <2>1
<1>2. ASSUME NEW m \in Nat, m \in N
      PROVE  m + 1 \in N
  <2>. SUFFICES ASSUME m + 1 <= Len(seq)
                PROVE  \E f \in [0 .. m + 1 -> Nat] : Good(f, m + 1)
    <3>. HIDE DEF Good
    <3>. QED  OBVIOUS
  <2>0. m <= Len(seq)  BY <1>0
  <2>1. PICK f \in [0 .. m -> Nat] : Good(f, m)
    <3>. HIDE DEF Good
    <3>. QED  BY <1>2, <2>0
  <2>. DEFINE g == [n \in 0 .. m + 1 |-> IF n = m + 1 THEN f[m] + seq[m + 1] ELSE f[n]]
  <2>2. f[m] \in Nat /\ seq[m + 1] \in Nat  BY <1>0
  <2>3. g \in [0 .. m + 1 -> Nat]  BY <2>2
  <2>4. g[0] = 0  BY <2>1
  <2>5. ASSUME NEW n \in 0 .. m PROVE g[n + 1] = g[n] + seq[n + 1]
    <3>1. CASE n = m  BY <3>1
    <3>2. CASE n # m
      <4>1. n \in 0 .. m - 1 /\ n + 1 \in 0 .. m /\ n + 1 # m + 1 /\ n # m + 1  BY <3>2
      <4>2. f[n + 1] = f[n] + seq[n + 1]  BY <2>1, <4>1
      <4>3. g[n + 1] = f[n + 1] /\ g[n] = f[n]  BY <4>1
      <4>. QED  BY <4>2, <4>3
    <3>. QED  BY <3>1, <3>2
  <2>6. Good(g, m + 1)
    <3>1. 0 .. (m + 1) - 1 = 0 .. m  OBVIOUS
    <3>. HIDE DEF g
    <3>. QED  BY <2>4, <2>5, <3>1
  <2>. HIDE DEF g, Good
  <2>. QED  BY <2>3, <2>6
<1>3. Nat \subseteq N
  <2>. HIDE DEF N
  <2>. QED  BY <1>1, <1>2, NatSetInduction
<1>4. PICK f \in [0 .. Len(seq) -> Nat] : Good(f, Len(seq))
  <2>1. Len(seq) \in N  BY <1>0, <1>3
  <2>. HIDE DEF Good
  <2>. QED  BY <1>0, <2>1
<1>5. ASSUME NEW n \in 0 .. Len(seq)
      PROVE  f[n] = IF n = 0 THEN 0 ELSE f[n - 1] + seq[n]
  <2>1. CASE n = 0  BY <1>4, <2>1
  <2>2. CASE n # 0
    <3>1. n - 1 \in 0 .. Len(seq) - 1 /\ (n - 1) + 1 = n  BY <1>0, <2>2
    <3>2. f[(n - 1) + 1] = f[n - 1] + seq[(n - 1) + 1]  BY <1>4, <3>1
    <3>. QED  BY <2>2, <3>1, <3>2
  <2>. QED  BY <2>1, <2>2
<1>6. f = [n \in 0 .. Len(seq) |-> IF n = 0 THEN 0 ELSE f[n - 1] + seq[n]]  BY <1>5
<1>. QED  BY <1>6 DEF IsSums

\* ... and those of two sequences agree where the beginnings do.
LEMMA SumsAgree ==
  ASSUME NEW s \in Seq(Nat), NEW t \in Seq(Nat), NEW f, NEW g, IsSums(f, s), IsSums(g, t),
         NEW m \in Nat, m <= Len(s), m <= Len(t), \A n \in 1 .. m : s[n] = t[n]
  PROVE  f[m] = g[m]
<1>. DEFINE N == {n \in Nat : n <= m => f[n] = g[n]}
<1>0. Len(s) \in Nat /\ Len(t) \in Nat  BY LenProperties
<1>1. 0 \in N  BY <1>0, SumsUnfold
<1>2. ASSUME NEW n \in Nat, n \in N
      PROVE  n + 1 \in N
  <2>. SUFFICES ASSUME n + 1 <= m PROVE f[n + 1] = g[n + 1]
    OBVIOUS
  <2>0. n + 1 <= Len(s) /\ n + 1 <= Len(t)  BY <1>0
  <2>1. f[n + 1] = f[n] + s[n + 1]  BY <1>0, <2>0, SumsUnfold
  <2>2. g[n + 1] = g[n] + t[n + 1]  BY <1>0, <2>0, SumsUnfold
  <2>3. f[n] = g[n] /\ s[n + 1] = t[n + 1]  BY <1>2
  <2>. QED  BY <2>1, <2>2, <2>3
<1>3. Nat \subseteq N
  <2>. HIDE DEF N
  <2>. QED  BY <1>1, <1>2, NatSetInduction
<1>. QED  BY <1>3

\* The total is the last of the sums.
LEMMA TotalOf ==
  ASSUME NEW seq \in Seq(Nat)
  PROVE  \E sums \in [0 .. Len(seq) -> Nat] : IsSums(sums, seq) /\ Total(seq) = sums[Len(seq)]
<1>1. PICK f \in [0 .. Len(seq) -> Nat] : IsSums(f, seq)  BY SumsExist
<1>. DEFINE g == CHOOSE sums : IsSums(sums, seq)
<1>2. IsSums(g, seq)  BY <1>1
<1>3. Total(seq) = g[Len(seq)]  BY DEF Total, IsSums
<1>4. Len(seq) \in Nat  BY LenProperties
<1>. HIDE DEF g
<1>5. g[Len(seq)] = f[Len(seq)]  BY <1>1, <1>2, <1>4, SumsAgree
<1>. QED  BY <1>1, <1>3, <1>5

\* The total of numbers is a number,
LEMMA TotalIsNat ==
  ASSUME NEW seq \in Seq(Nat)
  PROVE  Total(seq) \in Nat
BY TotalOf, LenProperties

\* nothing for the empty sequence,
LEMMA TotalEmpty == Total(<<>>) = 0
<1>1. <<>> \in Seq(Nat) /\ Len(<<>>) = 0  BY EmptySeq
<1>2. PICK f \in [0 .. 0 -> Nat] : IsSums(f, <<>>) /\ Total(<<>>) = f[0]
  BY <1>1, TotalOf
<1>. QED  BY <1>1, <1>2, SumsUnfold

\* and the element for a sequence of one.
LEMMA TotalOne ==
  ASSUME NEW x \in Nat
  PROVE  Total(<<x>>) = x
<1>1. <<x>> \in Seq(Nat) /\ Len(<<x>>) = 1 /\ <<x>>[1] = x  OBVIOUS
<1>2. PICK f \in [0 .. 1 -> Nat] : IsSums(f, <<x>>) /\ Total(<<x>>) = f[1]
  BY <1>1, TotalOf
<1>. DEFINE s == <<x>>
<1>3. IsSums(f, s) /\ Len(s) = 1 /\ s[1] = x  BY <1>1, <1>2
<1>. HIDE DEF s
<1>4. 0 \in Nat /\ 0 + 1 <= Len(s) /\ Len(s) \in Nat  BY <1>3
<1>5. f[0] = 0 /\ f[0 + 1] = f[0] + s[0 + 1]  BY <1>3, <1>4, SumsUnfold
<1>. QED  BY <1>2, <1>3, <1>5

\* The total of two sequences in a row.
LEMMA TotalConcat ==
  ASSUME NEW a \in Seq(Nat), NEW b \in Seq(Nat)
  PROVE  Total(a \o b) = Total(a) + Total(b)
<1>0. Len(a) \in Nat /\ Len(b) \in Nat  BY LenProperties
<1>1. /\ a \o b \in Seq(Nat) /\ Len(a \o b) = Len(a) + Len(b)
      /\ \A i \in 1 .. Len(a) + Len(b) : (a \o b)[i] = IF i <= Len(a) THEN a[i] ELSE b[i - Len(a)]
  BY ConcatProperties
<1>2. PICK f \in [0 .. Len(a) -> Nat] : IsSums(f, a) /\ Total(a) = f[Len(a)]  BY TotalOf
<1>3. PICK g \in [0 .. Len(b) -> Nat] : IsSums(g, b) /\ Total(b) = g[Len(b)]  BY TotalOf
<1>4. PICK h \in [0 .. Len(a \o b) -> Nat] : IsSums(h, a \o b) /\ Total(a \o b) = h[Len(a \o b)]
  BY <1>1, TotalOf
<1>5. h[Len(a)] = f[Len(a)]
  <2>1. \A n \in 1 .. Len(a) : a[n] = (a \o b)[n]  BY <1>0, <1>1
  <2>2. Len(a) <= Len(a \o b)  BY <1>0, <1>1
  <2>. DEFINE c == a \o b
              m == Len(a)
  <2>3. IsSums(f, a) /\ IsSums(h, c) /\ c \in Seq(Nat)  BY <1>1, <1>2, <1>4
  <2>4. m \in Nat /\ m <= Len(a) /\ m <= Len(c) /\ \A n \in 1 .. m : a[n] = c[n]
    BY <1>0, <2>1, <2>2
  <2>. HIDE DEF IsSums, c, m
  <2>5. \A F, G : IsSums(F, a) /\ IsSums(G, c) => F[m] = G[m]
    BY <2>3, <2>4, SumsAgree
  <2>6. f[m] = h[m]  BY <2>3, <2>5
  <2>. QED  BY <2>6 DEF m
<1>. DEFINE N == {n \in Nat : n <= Len(b) => h[Len(a) + n] = f[Len(a)] + g[n]}
<1>6. 0 \in N
  <2>1. g[0] = 0  BY <1>0, <1>3, SumsUnfold
  <2>2. Len(a) + 0 = Len(a) /\ f[Len(a)] \in Nat  BY <1>0, <1>2
  <2>. QED  BY <1>5, <2>1, <2>2
<1>7. ASSUME NEW n \in Nat, n \in N
      PROVE  n + 1 \in N
  <2>. SUFFICES ASSUME n + 1 <= Len(b)
                PROVE  h[Len(a) + (n + 1)] = f[Len(a)] + g[n + 1]
    OBVIOUS
  <2>1. g[n + 1] = g[n] + b[n + 1]  BY <1>0, <1>3, SumsUnfold
  <2>2. h[Len(a) + n + 1] = h[Len(a) + n] + (a \o b)[Len(a) + n + 1]
    <3>1. Len(a) + n \in Nat /\ (Len(a) + n) + 1 <= Len(a \o b) /\ Len(a \o b) \in Nat
      BY <1>0, <1>1
    <3>. QED  BY <1>4, <3>1, SumsUnfold
  <2>3. (a \o b)[Len(a) + n + 1] = b[n + 1]
    <3>1. Len(a) + n + 1 \in 1 .. Len(a) + Len(b) /\ ~(Len(a) + n + 1 <= Len(a))
      BY <1>0
    <3>2. Len(a) + n + 1 - Len(a) = n + 1  BY <1>0
    <3>. QED  BY <1>1, <3>1, <3>2
  <2>4. h[Len(a) + n] = f[Len(a)] + g[n]  BY <1>7
  <2>5. f[Len(a)] \in Nat /\ g[n] \in Nat
    <3>1. Len(a) \in 0 .. Len(a) /\ n \in 0 .. Len(b)  BY <1>0
    <3>. QED  BY <1>2, <1>3, <3>1
  <2>6. n + 1 \in 1 .. Len(b)  BY <1>0
  <2>7. b[n + 1] \in Nat  BY <2>6, ElementOfSeq
  <2>. QED  BY <1>0, <2>1, <2>2, <2>3, <2>4, <2>5, <2>7
<1>8. Nat \subseteq N
  <2>. HIDE DEF N
  <2>. QED  BY <1>6, <1>7, NatSetInduction
<1>9. h[Len(a) + Len(b)] = f[Len(a)] + g[Len(b)]  BY <1>0, <1>8
<1>. QED  BY <1>1, <1>2, <1>3, <1>4, <1>9

\* The greatest element of a set of numbers up to m.
LEMMA Greatest ==
  ASSUME NEW m \in Nat, NEW T \in SUBSET (0 .. m), T # {}
  PROVE  \E n \in T : \A k \in T : k <= n
<1>. DEFINE N == {d \in Nat : \A x \in T : x + d >= m => \E n \in T : \A k \in T : k <= n}
<1>1. 0 \in N
  <2>1. \A x \in T : x + 0 >= m => \A k \in T : k <= x  OBVIOUS
  <2>. QED  BY <2>1
<1>2. ASSUME NEW d \in Nat, d \in N
      PROVE  d + 1 \in N
  <2>. SUFFICES ASSUME NEW x \in T, x + (d + 1) >= m
                PROVE  \E n \in T : \A k \in T : k <= n
    OBVIOUS
  <2>1. CASE \A k \in T : k <= x  BY <2>1
  <2>2. CASE \E k \in T : ~(k <= x)
    <3>1. PICK k \in T : ~(k <= x)  BY <2>2
    <3>2. k + d >= m  BY <3>1
    <3>. QED  BY <1>2, <3>2
  <2>. QED  BY <2>1, <2>2
<1>3. Nat \subseteq N
  <2>. HIDE DEF N
  <2>. QED  BY <1>1, <1>2, NatSetInduction
<1>4. PICK x \in T : TRUE  OBVIOUS
<1>5. m \in N /\ x + m >= m  BY <1>3
<1>. QED  BY <1>5

-----------------------------------------------------------------------------
(* The memory cache. *)

\* The lengths of entries are numbers.
LEMMA LengthsSeq ==
  ASSUME world \in World, NEW es \in Seq(Entry)
  PROVE  /\ Lengths(es) \in Seq(Nat)
         /\ Len(Lengths(es)) = Len(es)
         /\ \A i \in 1 .. Len(es) : Lengths(es)[i] = Length(es[i])
<1>1. Len(es) \in Nat /\ DOMAIN es = 1 .. Len(es)  BY LenProperties
<1>2. \A i \in 1 .. Len(es) : Length(es[i]) \in Nat
  <2>1. \A i \in 1 .. Len(es) : es[i] \in Entry  BY ElementOfSeq
  <2>. QED  BY <2>1 DEF Length, Entry, World
<1>. QED  BY <1>1, <1>2 DEF Lengths

\* The lengths of two sequences of entries add up,
LEMMA LengthsConcat ==
  ASSUME world \in World, NEW a \in Seq(Entry), NEW b \in Seq(Entry)
  PROVE  Total(Lengths(a \o b)) = Total(Lengths(a)) + Total(Lengths(b))
<1>0. Len(a) \in Nat /\ Len(b) \in Nat  BY LenProperties
<1>1. /\ a \o b \in Seq(Entry) /\ Len(a \o b) = Len(a) + Len(b)
      /\ \A i \in 1 .. Len(a) + Len(b) : (a \o b)[i] = IF i <= Len(a) THEN a[i] ELSE b[i - Len(a)]
  BY ConcatProperties
<1>. DEFINE s == Lengths(a \o b)
            t == Lengths(a) \o Lengths(b)
<1>2. /\ s \in Seq(Nat) /\ Len(s) = Len(a) + Len(b)
      /\ \A i \in 1 .. Len(a) + Len(b) : s[i] = Length((a \o b)[i])
  BY <1>1, LengthsSeq
<1>3. /\ Lengths(a) \in Seq(Nat) /\ Len(Lengths(a)) = Len(a)
      /\ \A i \in 1 .. Len(a) : Lengths(a)[i] = Length(a[i])
      /\ Lengths(b) \in Seq(Nat) /\ Len(Lengths(b)) = Len(b)
      /\ \A i \in 1 .. Len(b) : Lengths(b)[i] = Length(b[i])
  BY LengthsSeq
<1>4. /\ t \in Seq(Nat) /\ Len(t) = Len(a) + Len(b)
      /\ \A i \in 1 .. Len(a) + Len(b) : t[i] = IF i <= Len(a) THEN Lengths(a)[i] ELSE Lengths(b)[i - Len(a)]
  <2>. DEFINE p == Lengths(a)
              q == Lengths(b)
  <2>1. p \in Seq(Nat) /\ q \in Seq(Nat) /\ Len(p) = Len(a) /\ Len(q) = Len(b)  BY <1>3
  <2>. HIDE DEF p, q
  <2>2. /\ p \o q \in Seq(Nat) /\ Len(p \o q) = Len(p) + Len(q)
        /\ \A i \in 1 .. Len(p) + Len(q) : (p \o q)[i] = IF i <= Len(p) THEN p[i] ELSE q[i - Len(p)]
    BY <2>1, ConcatProperties
  <2>3. p \o q = t  BY DEF p, q
  <2>. HIDE DEF t
  <2>4. /\ t \in Seq(Nat) /\ Len(t) = Len(a) + Len(b)
        /\ \A i \in 1 .. Len(a) + Len(b) : t[i] = IF i <= Len(a) THEN p[i] ELSE q[i - Len(a)]
    BY <2>1, <2>2, <2>3
  <2>. QED  BY <2>4 DEF p, q
<1>5. ASSUME NEW i \in 1 .. Len(a) + Len(b) PROVE s[i] = t[i]
  <2>1. CASE i <= Len(a)
    <3>1. i \in 1 .. Len(a)  BY <1>0, <2>1
    <3>. HIDE DEF s, t
    <3>. QED  BY <1>1, <1>2, <1>3, <1>4, <2>1, <3>1
  <2>2. CASE ~(i <= Len(a))
    <3>1. i - Len(a) \in 1 .. Len(b)  BY <1>0, <2>2
    <3>. HIDE DEF s, t
    <3>. QED  BY <1>1, <1>2, <1>3, <1>4, <2>2, <3>1
  <2>. QED  BY <2>1, <2>2
<1>6. s = t
  <2>. HIDE DEF s, t
  <2>. QED  BY <1>2, <1>4, <1>5, SeqEqual
<1>. QED  BY <1>3, <1>6, TotalConcat

\* those of a beginning and the rest,
LEMMA LengthsSplit ==
  ASSUME world \in World, NEW es \in Seq(Entry), NEW k \in 0 .. Len(es)
  PROVE  /\ SubSeq(es, 1, k) \in Seq(Entry)
         /\ SubSeq(es, k + 1, Len(es)) \in Seq(Entry)
         /\ Total(Lengths(es)) = Total(Lengths(SubSeq(es, 1, k))) + Total(Lengths(SubSeq(es, k + 1, Len(es))))
<1>0. Len(es) \in Nat /\ k \in Int /\ \A i \in 1 .. Len(es) : es[i] \in Entry
  BY LenProperties, ElementOfSeq
<1>1. SubSeq(es, 1, k) \in Seq(Entry) /\ SubSeq(es, k + 1, Len(es)) \in Seq(Entry)
  BY <1>0, SubSeqProperties
<1>2. SubSeq(es, 1, k) \o SubSeq(es, k + 1, Len(es)) = es
  <2>1. 1 \in 1 .. Len(es) + 1 /\ k \in 1 - 1 .. Len(es) /\ Len(es) \in k .. Len(es)
    BY <1>0
  <2>2. SubSeq(es, 1, k) \o SubSeq(es, k + 1, Len(es)) = SubSeq(es, 1, Len(es))
    BY <2>1, ConcatAdjacentSubSeq
  <2>. QED  BY <2>2, SubSeqFull
<1>. QED  BY <1>1, <1>2, LengthsConcat

\* those of a new entry and the entries behind it,
LEMMA LengthsFront ==
  ASSUME world \in World, NEW es \in Seq(Entry), NEW e \in Entry
  PROVE  /\ <<e>> \o es \in Seq(Entry)
         /\ Total(Lengths(<<e>> \o es)) = Length(e) + Total(Lengths(es))
<1>1. <<e>> \in Seq(Entry) /\ Len(<<e>>) = 1 /\ <<e>>[1] = e  OBVIOUS
<1>2. Lengths(<<e>>) = <<Length(e)>> /\ Length(e) \in Nat
  <2>1. Length(e) \in Nat  BY DEF Length, Entry, World
  <2>2. DOMAIN <<e>> = 1 .. 1  OBVIOUS
  <2>3. Lengths(<<e>>) = [i \in 1 .. 1 |-> Length(<<e>>[i])]  BY <2>2 DEF Lengths
  <2>4. [i \in 1 .. 1 |-> Length(<<e>>[i])] = <<Length(e)>>  BY <1>1
  <2>. QED  BY <2>1, <2>3, <2>4
<1>3. Total(Lengths(<<e>>)) = Length(e)  BY <1>2, TotalOne
<1>. QED  BY <1>1, <1>3, LengthsConcat, ConcatProperties

\* and those of an entry and the others.
LEMMA LengthsWithout ==
  ASSUME world \in World, NEW es \in Seq(Entry), NEW i \in DOMAIN es
  PROVE  /\ Without(es, i) \in Seq(Entry)
         /\ Total(Lengths(es)) = Total(Lengths(Without(es, i))) + Length(es[i])
<1>0. Len(es) \in Nat /\ i \in 1 .. Len(es) /\ es[i] \in Entry
  BY LenProperties, ElementOfSeq
<1>. DEFINE a == SubSeq(es, 1, i - 1)
            b == SubSeq(es, i, Len(es))
            c == SubSeq(es, i + 1, Len(es))
<1>1. a \in Seq(Entry) /\ b \in Seq(Entry) /\ Total(Lengths(es)) = Total(Lengths(a)) + Total(Lengths(b))
  <2>1. i - 1 \in 0 .. Len(es) /\ (i - 1) + 1 = i  BY <1>0
  <2>. QED  BY <2>1, LengthsSplit
<1>2. c \in Seq(Entry)  BY <1>0, LengthsSplit
<1>3. b = <<es[i]>> \o c
  <2>1. Len(es) \in i .. Len(es)  BY <1>0
  <2>. QED  BY <1>0, <2>1, SubSeqRecursiveFirst
<1>4. Total(Lengths(b)) = Length(es[i]) + Total(Lengths(c))
  BY <1>0, <1>2, <1>3, LengthsFront
<1>5. Without(es, i) = a \o c  BY DEF Without
<1>6. Total(Lengths(a \o c)) = Total(Lengths(a)) + Total(Lengths(c))  BY <1>1, <1>2, LengthsConcat
<1>7. Total(Lengths(a)) \in Nat /\ Total(Lengths(c)) \in Nat /\ Length(es[i]) \in Nat
  <2>1. Length(es[i]) \in Nat  BY <1>0 DEF Length, Entry, World
  <2>. QED  BY <1>1, <1>2, <2>1, LengthsSeq, TotalIsNat
<1>8. a \o c \in Seq(Entry)  BY <1>1, <1>2, ConcatProperties
<1>. HIDE DEF a, b, c
<1>. QED  BY <1>1, <1>4, <1>5, <1>6, <1>7, <1>8

\* What is kept after an eviction fits, and is what the counter says.
LEMMA EvictStep ==
  ASSUME world \in World, NEW new \in Seq(Entry), NEW sum, sum = Total(Lengths(new)), Evict(new, sum)
  PROVE  /\ \E k \in 0 .. Len(new) : memory' = SubSeq(new, 1, k)
         /\ size' = Total(Lengths(memory')) /\ size' <= MaxBytes /\ size' \in Nat
<1>. DEFINE left(n) == sum - Total(Lengths(SubSeq(new, n + 1, Len(new))))
            Good(n) == /\ n = 0 \/ left(n) <= MaxBytes
                       /\ \A m \in n + 1 .. Len(new) : left(m) > MaxBytes
            keep == CHOOSE n \in 0 .. Len(new) : Good(n)
            T == {n \in 0 .. Len(new) : n = 0 \/ left(n) <= MaxBytes}
<1>0. Len(new) \in Nat  BY LenProperties
<1>1. memory' = SubSeq(new, 1, keep) /\ size' = left(keep)  BY DEF Evict
<1>2. ASSUME NEW k \in 0 .. Len(new)
      PROVE  left(k) = Total(Lengths(SubSeq(new, 1, k))) /\ left(k) \in Nat
  <2>. DEFINE a == SubSeq(new, 1, k)
              b == SubSeq(new, k + 1, Len(new))
  <2>1. a \in Seq(Entry) /\ b \in Seq(Entry) /\ Total(Lengths(new)) = Total(Lengths(a)) + Total(Lengths(b))
    BY LengthsSplit
  <2>2. Total(Lengths(a)) \in Nat /\ Total(Lengths(b)) \in Nat
    BY <2>1, LengthsSeq, TotalIsNat
  <2>3. left(k) = sum - Total(Lengths(b))  OBVIOUS
  <2>. HIDE DEF a, b, left
  <2>4. left(k) = Total(Lengths(a))  BY <2>1, <2>2, <2>3
  <2>. QED  BY <2>2, <2>4 DEF a
<1>. HIDE DEF left
<1>3. keep \in 0 .. Len(new) /\ Good(keep)
  <2>1. 0 \in T  BY <1>0
  <2>2. PICK n \in T : \A k \in T : k <= n
    <3>1. T \in SUBSET (0 .. Len(new)) /\ T # {}  BY <2>1
    <3>. HIDE DEF T
    <3>. QED  BY <1>0, <3>1, Greatest
  <2>3. ASSUME NEW m \in n + 1 .. Len(new) PROVE left(m) > MaxBytes
    <3>1. m \in 0 .. Len(new) /\ ~(m <= n)  BY <1>0
    <3>2. ~(left(m) <= MaxBytes)  BY <2>2, <3>1
    <3>3. left(m) \in Nat  BY <1>2, <3>1
    <3>. QED  BY <3>2, <3>3, BoundsTyped
  <2>4. n \in 0 .. Len(new) /\ Good(n)  BY <2>3
  <2>. HIDE DEF Good
  <2>. QED  BY <2>4
<1>4. left(0) = 0
  <2>1. SubSeq(new, 1, 0) = <<>>  BY SubSeqEmpty
  <2>2. Lengths(<<>>) = <<>>
    <3>1. DOMAIN <<>> = {}  OBVIOUS
    <3>2. Lengths(<<>>) \in Seq(Nat) /\ Len(Lengths(<<>>)) = 0  BY LengthsSeq, EmptySeq
    <3>. QED  BY <3>2, EmptySeq
  <2>3. 0 \in 0 .. Len(new)  BY <1>0
  <2>. QED  BY <1>2, <2>1, <2>2, <2>3, TotalEmpty
<1>5. left(keep) <= MaxBytes /\ left(keep) = Total(Lengths(memory')) /\ left(keep) \in Nat
  BY <1>1, <1>2, <1>3, <1>4, BoundsTyped
<1>. HIDE DEF keep
<1>. QED  BY <1>1, <1>3, <1>5

\* No two entries have one key.
Apart(es) == \A i, j \in DOMAIN es : es[i].key = es[j].key => i = j

\* Each entry of the one is an entry of the other.
Among(es, fs) == \A i \in DOMAIN es : \E j \in DOMAIN fs : es[i] = fs[j]

\* Without one of them, entries stay apart, and its key is free,
LEMMA WithoutApart ==
  ASSUME NEW es \in Seq(Entry), Apart(es), NEW i \in DOMAIN es
  PROVE  /\ Apart(Without(es, i)) /\ Among(Without(es, i), es)
         /\ \A j \in DOMAIN Without(es, i) : Without(es, i)[j].key # es[i].key
<1>1. \A j \in DOMAIN Without(es, i) :
        \E k \in DOMAIN es : k # i /\ Without(es, i)[j] = es[k]
  BY WithoutElements
<1>2. \A m, n \in DOMAIN Without(es, i) :
        m # n => \E k, l \in DOMAIN es :
                   k # l /\ k # i /\ l # i /\ Without(es, i)[m] = es[k] /\ Without(es, i)[n] = es[l]
  BY WithoutElements
<1>. QED  BY <1>1, <1>2 DEF Apart, Among

\* which a new entry at the front may take.
LEMMA FrontApart ==
  ASSUME NEW es \in Seq(Entry), Apart(es), NEW e \in Entry, \A i \in DOMAIN es : es[i].key # e.key
  PROVE  /\ Apart(<<e>> \o es)
         /\ \A i \in DOMAIN (<<e>> \o es) :
              (<<e>> \o es)[i] = e \/ \E j \in DOMAIN es : (<<e>> \o es)[i] = es[j]
<1>. DEFINE fs == <<e>> \o es
<1>0. Len(es) \in Nat /\ DOMAIN es = 1 .. Len(es)  BY LenProperties
<1>1. <<e>> \in Seq(Entry) /\ Len(<<e>>) = 1 /\ <<e>>[1] = e  OBVIOUS
<1>2. /\ fs \in Seq(Entry) /\ Len(fs) = 1 + Len(es)
      /\ \A i \in 1 .. 1 + Len(es) : fs[i] = IF i <= 1 THEN <<e>>[i] ELSE es[i - 1]
  BY <1>1, ConcatProperties
<1>3. DOMAIN fs = 1 .. 1 + Len(es)  BY <1>2, LenProperties
<1>. HIDE DEF fs
<1>4. ASSUME NEW i \in DOMAIN fs
      PROVE  (i = 1 /\ fs[i] = e) \/ (i - 1 \in DOMAIN es /\ fs[i] = es[i - 1])
  <2>1. CASE i = 1
    <3>1. 1 \in 1 .. 1 + Len(es) /\ 1 <= 1  BY <1>0
    <3>2. fs[1] = e  BY <1>1, <1>2, <3>1
    <3>. QED  BY <2>1, <3>2
  <2>2. CASE i # 1
    <3>1. i \in 1 .. 1 + Len(es) /\ ~(i <= 1) /\ i - 1 \in DOMAIN es  BY <1>0, <1>3, <2>2
    <3>. QED  BY <1>2, <3>1
  <2>. QED  BY <2>1, <2>2
<1>5. ASSUME NEW i \in DOMAIN fs, NEW j \in DOMAIN fs, fs[i].key = fs[j].key
      PROVE  i = j
  <2>1. i \in Int /\ j \in Int  BY <1>0, <1>3
  <2>2. i - 1 \in DOMAIN es /\ j - 1 \in DOMAIN es /\ fs[i] = es[i - 1] /\ fs[j] = es[j - 1] => i - 1 = j - 1
    BY <1>5 DEF Apart
  <2>. QED  BY <1>4, <1>5, <2>1, <2>2
<1>6. \A i \in DOMAIN fs : fs[i] = e \/ \E j \in DOMAIN es : fs[i] = es[j]  BY <1>4
<1>. QED  BY <1>5, <1>6 DEF fs, Apart

\* The entries of a beginning are apart, too.
LEMMA BeginningApart ==
  ASSUME NEW es \in Seq(Entry), Apart(es), NEW k \in 0 .. Len(es)
  PROVE  Apart(SubSeq(es, 1, k)) /\ Among(SubSeq(es, 1, k), es)
<1>0. Len(es) \in Nat /\ DOMAIN es = 1 .. Len(es) /\ \A i \in 1 .. k : es[i] \in Entry
  BY LenProperties, ElementOfSeq
<1>1. /\ SubSeq(es, 1, k) \in Seq(Entry) /\ Len(SubSeq(es, 1, k)) = k
      /\ \A i \in 1 .. k : SubSeq(es, 1, k)[i] = es[1 + i - 1]
  <2>1. 1 \in Int /\ k \in Int /\ k - 1 + 1 = k /\ (~(1 <= k) => k = 0)  BY <1>0
  <2>. QED  BY <1>0, <2>1, SubSeqProperties
<1>2. DOMAIN SubSeq(es, 1, k) = 1 .. k  BY <1>1, LenProperties
<1>3. \A i \in 1 .. k : SubSeq(es, 1, k)[i] = es[i] /\ i \in DOMAIN es
  <2>1. \A i \in 1 .. k : 1 + i - 1 = i /\ i \in DOMAIN es  BY <1>0
  <2>. QED  BY <1>1, <2>1
<1>. QED  BY <1>2, <1>3 DEF Apart, Among

\* What the budget says, of the values after a step.
LEMMA BudgetAfter ==
  ASSUME world' = world, size' = Total(Lengths(memory')), size' <= MaxBytes, Apart(memory')
  PROVE  BudgetKept'
<1>1. Lengths(memory)' = Lengths(memory')  BY DEF Lengths, Length
<1>. QED  BY <1>1 DEF BudgetKept, Apart

\* A lookup moves an entry to the front, or drops one that has expired, and
\* the counter with it.
LEMMA MemoryGetStep ==
  ASSUME TypeOK, BudgetKept, NEW r \in Request, MemoryGet(r)
  PROVE  memory' \in Seq(Entry) /\ size' \in Nat /\ BudgetKept' /\ Among(memory', memory)
<1>0. /\ world \in World /\ world' = world /\ memory \in Seq(Entry) /\ size \in Nat
      /\ Apart(memory) /\ size = Total(Lengths(memory)) /\ size <= MaxBytes
  BY WorldsTyped DEF TypeOK, BudgetKept, Apart, MemoryGet
<1>1. ASSUME UNCHANGED <<memory, size>>
      PROVE  memory' \in Seq(Entry) /\ size' \in Nat /\ BudgetKept' /\ Among(memory', memory)
  BY <1>0, <1>1, BudgetAfter DEF Among
<1>2. ASSUME NEW i \in At(KeyOf(r)), memory' = <<memory[i]>> \o Without(memory, i), UNCHANGED size
      PROVE  memory' \in Seq(Entry) /\ size' \in Nat /\ BudgetKept' /\ Among(memory', memory)
  <2>1. i \in DOMAIN memory  BY DEF At
  <2>2. memory[i] \in Entry  BY <1>0, <2>1, LenProperties, ElementOfSeq
  <2>. DEFINE rest == Without(memory, i)
  <2>3. rest \in Seq(Entry) /\ Total(Lengths(memory)) = Total(Lengths(rest)) + Length(memory[i])
    BY <1>0, <2>1, LengthsWithout
  <2>4. Apart(rest) /\ Among(rest, memory) /\ \A j \in DOMAIN rest : rest[j].key # memory[i].key
    BY <1>0, <2>1, WithoutApart
  <2>. HIDE DEF rest
  <2>5. memory' \in Seq(Entry) /\ Total(Lengths(memory')) = Length(memory[i]) + Total(Lengths(rest))
    BY <1>0, <1>2, <2>2, <2>3, LengthsFront DEF rest
  <2>6. /\ Apart(memory')
        /\ \A j \in DOMAIN memory' : memory'[j] = memory[i] \/ \E k \in DOMAIN rest : memory'[j] = rest[k]
    BY <1>2, <2>2, <2>3, <2>4, FrontApart DEF rest
  <2>7. Total(Lengths(rest)) \in Nat /\ Length(memory[i]) \in Nat
    BY <1>0, <2>2, <2>3, LengthsSeq, TotalIsNat DEF Length, Entry, World
  <2>8. size' = Total(Lengths(memory'))  BY <1>0, <1>2, <2>3, <2>5, <2>7
  <2>9. Among(memory', memory)  BY <2>1, <2>4, <2>6 DEF Among
  <2>. QED  BY <1>0, <1>2, <2>5, <2>6, <2>8, <2>9, BudgetAfter
<1>3. ASSUME NEW i \in At(KeyOf(r)), memory' = Without(memory, i), size' = size - Length(memory[i])
      PROVE  memory' \in Seq(Entry) /\ size' \in Nat /\ BudgetKept' /\ Among(memory', memory)
  <2>1. i \in DOMAIN memory  BY DEF At
  <2>2. memory[i] \in Entry  BY <1>0, <2>1, LenProperties, ElementOfSeq
  <2>3. memory' \in Seq(Entry) /\ Total(Lengths(memory)) = Total(Lengths(memory')) + Length(memory[i])
    BY <1>0, <1>3, <2>1, LengthsWithout
  <2>4. Apart(memory') /\ Among(memory', memory)  BY <1>0, <1>3, <2>1, WithoutApart
  <2>5. Total(Lengths(memory')) \in Nat /\ Length(memory[i]) \in Nat
    BY <1>0, <2>2, <2>3, LengthsSeq, TotalIsNat DEF Length, Entry, World
  <2>6. size' = Total(Lengths(memory')) /\ size' <= MaxBytes /\ size' \in Nat
    BY <1>0, <1>3, <2>3, <2>5, BoundsTyped
  <2>. QED  BY <1>0, <2>3, <2>4, <2>6, BudgetAfter
<1>. QED  BY <1>1, <1>2, <1>3 DEF MemoryGet

\* What a request puts into the memory cache.
Cached(r) == [key |-> KeyOf(r), of |-> request[r].got]

\* A put keeps the counter true to the entries, within the budget and each key
\* once, whether the entry is refused, new, or replaces another one; all
\* entries were there but the new one.
LEMMA MemoryPutStep ==
  ASSUME TypeOK, BudgetKept, NEW r \in Request, MemoryPut(r), Cached(r) \in Entry
  PROVE  /\ memory' \in Seq(Entry) /\ size' \in Nat /\ BudgetKept'
         /\ \A i \in DOMAIN memory' :
              memory'[i] = Cached(r) \/ \E j \in DOMAIN memory : memory'[i] = memory[j]
<1>. DEFINE e == Cached(r)
<1>0. /\ world \in World /\ world' = world /\ memory \in Seq(Entry) /\ size \in Nat
      /\ Apart(memory) /\ size = Total(Lengths(memory)) /\ size <= MaxBytes
  BY WorldsTyped DEF TypeOK, BudgetKept, Apart, MemoryPut
<1>1. ASSUME UNCHANGED <<memory, size>>
      PROVE  /\ memory' \in Seq(Entry) /\ size' \in Nat /\ BudgetKept'
             /\ \A i \in DOMAIN memory' : \E j \in DOMAIN memory : memory'[i] = memory[j]
  BY <1>0, <1>1, BudgetAfter
<1>2. ASSUME NEW rest \in Seq(Entry), Apart(rest), Among(rest, memory), \A j \in DOMAIN rest : rest[j].key # e.key,
             NEW sum, sum = Length(e) + Total(Lengths(rest)), Evict(<<e>> \o rest, sum)
      PROVE  /\ memory' \in Seq(Entry) /\ size' \in Nat /\ BudgetKept'
             /\ \A i \in DOMAIN memory' : memory'[i] = e \/ \E j \in DOMAIN memory : memory'[i] = memory[j]
  <2>. DEFINE new == <<e>> \o rest
  <2>. HIDE DEF e
  <2>0. e \in Entry  BY DEF e
  <2>1. new \in Seq(Entry) /\ sum = Total(Lengths(new))  BY <1>0, <1>2, <2>0, LengthsFront
  <2>2. /\ Apart(new)
        /\ \A i \in DOMAIN new : new[i] = e \/ \E j \in DOMAIN rest : new[i] = rest[j]
    BY <1>2, <2>0, FrontApart
  <2>3. Evict(new, sum)  BY <1>2
  <2>. HIDE DEF new
  <2>4. PICK k \in 0 .. Len(new) : memory' = SubSeq(new, 1, k)  BY <1>0, <2>1, <2>3, EvictStep
  <2>5. size' = Total(Lengths(memory')) /\ size' <= MaxBytes /\ size' \in Nat
    BY <1>0, <2>1, <2>3, EvictStep
  <2>6. memory' \in Seq(Entry)  BY <1>0, <2>1, <2>4, LengthsSplit
  <2>7. Apart(memory') /\ Among(memory', new)  BY <2>1, <2>2, <2>4, BeginningApart
  <2>8. \A i \in DOMAIN memory' : memory'[i] = e \/ \E j \in DOMAIN memory : memory'[i] = memory[j]
    BY <1>2, <2>2, <2>7 DEF Among
  <2>. QED  BY <1>0, <2>5, <2>6, <2>7, <2>8, BudgetAfter
<1>3. ASSUME At(e.key) = {}, Evict(<<e>> \o memory, size + Length(e))
      PROVE  /\ memory' \in Seq(Entry) /\ size' \in Nat /\ BudgetKept'
             /\ \A i \in DOMAIN memory' : memory'[i] = e \/ \E j \in DOMAIN memory : memory'[i] = memory[j]
  <2>1. \A j \in DOMAIN memory : memory[j].key # e.key  BY <1>3 DEF At
  <2>2. Length(e) \in Nat  BY <1>0 DEF Length, Entry, World
  <2>3. Among(memory, memory)  BY DEF Among
  <2>4. size + Length(e) = Length(e) + Total(Lengths(memory))  BY <1>0, <2>2
  <2>. HIDE DEF e
  <2>. QED  BY <1>0, <1>2, <1>3, <2>1, <2>3, <2>4
<1>4. ASSUME NEW i \in At(e.key), Evict(<<e>> \o Without(memory, i), size - Length(memory[i]) + Length(e))
      PROVE  /\ memory' \in Seq(Entry) /\ size' \in Nat /\ BudgetKept'
             /\ \A j \in DOMAIN memory' : memory'[j] = e \/ \E k \in DOMAIN memory : memory'[j] = memory[k]
  <2>1. i \in DOMAIN memory /\ memory[i].key = e.key  BY DEF At
  <2>. DEFINE rest == Without(memory, i)
  <2>2. rest \in Seq(Entry) /\ Total(Lengths(memory)) = Total(Lengths(rest)) + Length(memory[i])
    BY <1>0, <2>1, LengthsWithout
  <2>3. Apart(rest) /\ Among(rest, memory) /\ \A j \in DOMAIN rest : rest[j].key # e.key
    BY <1>0, <2>1, WithoutApart
  <2>4. memory[i] \in Entry  BY <1>0, <2>1, LenProperties, ElementOfSeq
  <2>5. Total(Lengths(rest)) \in Nat /\ Length(memory[i]) \in Nat /\ Length(e) \in Nat
    BY <1>0, <2>2, <2>4, LengthsSeq, TotalIsNat DEF Length, Entry, World
  <2>6. size - Length(memory[i]) + Length(e) = Length(e) + Total(Lengths(rest))
    BY <1>0, <2>2, <2>5
  <2>7. Evict(<<e>> \o rest, size - Length(memory[i]) + Length(e))  BY <1>4
  <2>. HIDE DEF e, rest
  <2>. QED  BY <1>2, <2>2, <2>3, <2>6, <2>7
<1>5. UNCHANGED <<memory, size>> \/ PutMemory(e)  BY DEF MemoryPut, Cached
<1>6. CASE PutMemory(e)
  <2>. HIDE DEF e
  <2>1. \/ At(e.key) = {} /\ Evict(<<e>> \o memory, size + Length(e))
        \/ \E i \in At(e.key) : Evict(<<e>> \o Without(memory, i), size - Length(memory[i]) + Length(e))
    BY <1>6 DEF PutMemory
  <2>. QED  BY <1>3, <1>4, <2>1 DEF e
<1>. QED  BY <1>1, <1>5, <1>6

-----------------------------------------------------------------------------
(* Names by the time of their last use. *)

\* The sequence has the elements of the set, each once.
Lists(seq, names) ==
  /\ seq \in Seq(Name) /\ {seq[i] : i \in DOMAIN seq} = names
  /\ \A i, j \in DOMAIN seq : seq[i] = seq[j] => i = j

\* A name is forgotten,
LEMMA ForgetLists ==
  ASSUME NEW names, Lists(recency, names), NEW n
  PROVE  Lists(Forget(n), names \ {n})
<1>1. CASE \E i \in DOMAIN recency : recency[i] = n
  <2>. DEFINE i == CHOOSE i \in DOMAIN recency : recency[i] = n
              rest == Without(recency, i)
  <2>1. i \in DOMAIN recency /\ recency[i] = n  BY <1>1
  <2>2. Forget(n) = rest  BY <1>1 DEF Forget
  <2>. HIDE DEF i
  <2>3. recency \in Seq(Name)  BY DEF Lists
  <2>4. rest \in Seq(Name)  BY <2>1, <2>3, WithoutSeq
  <2>5. \A j \in DOMAIN rest : \E k \in DOMAIN recency : k # i /\ rest[j] = recency[k]
    BY <2>1, <2>3, WithoutElements
  <2>6. \A k \in DOMAIN recency : k # i => \E j \in DOMAIN rest : rest[j] = recency[k]
    BY <2>1, <2>3, WithoutElements
  <2>7. \A j, k \in DOMAIN rest :
          j # k => \E l, m \in DOMAIN recency : l # m /\ rest[j] = recency[l] /\ rest[k] = recency[m]
    BY <2>1, <2>3, WithoutElements
  <2>. HIDE DEF rest
  <2>8. {rest[j] : j \in DOMAIN rest} = names \ {n}
    BY <2>1, <2>5, <2>6 DEF Lists
  <2>9. \A j, k \in DOMAIN rest : rest[j] = rest[k] => j = k
    BY <2>7 DEF Lists
  <2>. QED  BY <2>2, <2>4, <2>8, <2>9 DEF Lists
<1>2. CASE ~\E i \in DOMAIN recency : recency[i] = n
  <2>1. Forget(n) = recency  BY <1>2 DEF Forget
  <2>. QED  BY <1>2, <2>1 DEF Lists
<1>. QED  BY <1>1, <1>2

\* a name comes to the front,
LEMMA TouchLists ==
  ASSUME NEW names, Lists(recency, names), NEW n \in Name, Touch(n)
  PROVE  Lists(recency', names \cup {n})
<1>. DEFINE rest == Forget(n)
            seq == <<n>> \o rest
<1>1. Lists(rest, names \ {n})  BY ForgetLists
<1>2. recency' = seq  BY DEF Touch
<1>. HIDE DEF rest
<1>3. rest \in Seq(Name) /\ Len(rest) \in Nat /\ DOMAIN rest = 1 .. Len(rest)
  BY <1>1, LenProperties DEF Lists
<1>4. <<n>> \in Seq(Name) /\ Len(<<n>>) = 1 /\ <<n>>[1] = n  OBVIOUS
<1>5. /\ seq \in Seq(Name) /\ Len(seq) = 1 + Len(rest)
      /\ \A i \in 1 .. 1 + Len(rest) : seq[i] = IF i <= 1 THEN <<n>>[i] ELSE rest[i - 1]
  BY <1>3, <1>4, ConcatProperties
<1>6. DOMAIN seq = 1 .. 1 + Len(rest)  BY <1>5, LenProperties
<1>. HIDE DEF seq
<1>7. 1 \in DOMAIN seq /\ seq[1] = n
  <2>1. 1 \in 1 .. 1 + Len(rest) /\ 1 <= 1  BY <1>3
  <2>. QED  BY <1>4, <1>5, <1>6, <2>1
<1>8. ASSUME NEW i \in DOMAIN seq, i # 1
      PROVE  i - 1 \in DOMAIN rest /\ seq[i] = rest[i - 1]
  <2>1. i \in 1 .. 1 + Len(rest) /\ ~(i <= 1) /\ i - 1 \in DOMAIN rest  BY <1>3, <1>6, <1>8
  <2>. QED  BY <1>5, <2>1
<1>9. ASSUME NEW j \in DOMAIN rest
      PROVE  j + 1 \in DOMAIN seq /\ seq[j + 1] = rest[j]
  <2>1. j + 1 \in DOMAIN seq /\ j + 1 # 1 /\ (j + 1) - 1 = j  BY <1>3, <1>6
  <2>. QED  BY <1>8, <2>1
<1>10. {seq[i] : i \in DOMAIN seq} = names \cup {n}
  <2>1. {rest[j] : j \in DOMAIN rest} = names \ {n}  BY <1>1 DEF Lists
  <2>2. \A i \in DOMAIN seq : seq[i] \in names \cup {n}  BY <1>7, <1>8, <2>1
  <2>3. \A x \in names \ {n} : \E i \in DOMAIN seq : seq[i] = x  BY <1>9, <2>1
  <2>. QED  BY <1>7, <2>2, <2>3
<1>11. ASSUME NEW i \in DOMAIN seq, NEW j \in DOMAIN seq, seq[i] = seq[j]
       PROVE  i = j
  <2>1. \A k \in DOMAIN rest : rest[k] # n  BY <1>1 DEF Lists
  <2>2. i = 1 <=> j = 1  BY <1>7, <1>8, <1>11, <2>1
  <2>3. ASSUME i # 1, j # 1 PROVE i = j
    <3>1. i - 1 = j - 1  BY <1>1, <1>8, <1>11, <2>3 DEF Lists
    <3>. QED  BY <1>6, <3>1
  <2>. QED  BY <2>2, <2>3
<1>. QED  BY <1>2, <1>5, <1>10, <1>11 DEF Lists

\* A name takes the place of another one.
LEMMA RenameLists ==
  ASSUME NEW names, NEW seq, Lists(seq, names), NEW t \in names, NEW f \in Name, f \notin names
  PROVE  Lists([i \in DOMAIN seq |-> IF seq[i] = t THEN f ELSE seq[i]], (names \ {t}) \cup {f})
<1>. DEFINE new == [i \in DOMAIN seq |-> IF seq[i] = t THEN f ELSE seq[i]]
<1>1. seq \in Seq(Name) /\ Len(seq) \in Nat /\ DOMAIN seq = 1 .. Len(seq) /\ \A i \in DOMAIN seq : seq[i] \in Name
  BY LenProperties, ElementOfSeq DEF Lists
<1>2. new \in Seq(Name) /\ DOMAIN new = DOMAIN seq  BY <1>1
<1>3. {new[i] : i \in DOMAIN new} = (names \ {t}) \cup {f}
  BY DEF Lists
<1>4. \A i, j \in DOMAIN new : new[i] = new[j] => i = j
  BY DEF Lists
<1>. QED  BY <1>2, <1>3, <1>4 DEF Lists

\* The names behind a place are dropped.
LEMMA BeginningLists ==
  ASSUME NEW names, Lists(recency, names), NEW k \in 0 .. Len(recency)
  PROVE  Lists(SubSeq(recency, 1, k), names \ {recency[i] : i \in k + 1 .. Len(recency)})
<1>0. recency \in Seq(Name) /\ Len(recency) \in Nat /\ DOMAIN recency = 1 .. Len(recency)
      /\ \A i \in 1 .. k : recency[i] \in Name
  BY LenProperties, ElementOfSeq DEF Lists
<1>. DEFINE seq == SubSeq(recency, 1, k)
            gone == {recency[i] : i \in k + 1 .. Len(recency)}
<1>1. seq \in Seq(Name) /\ Len(seq) = k /\ \A i \in 1 .. k : seq[i] = recency[1 + i - 1]
  <2>1. 1 \in Int /\ k \in Int /\ k - 1 + 1 = k /\ (~(1 <= k) => k = 0)  BY <1>0
  <2>. QED  BY <1>0, <2>1, SubSeqProperties
<1>2. DOMAIN seq = 1 .. k  BY <1>1, LenProperties
<1>3. \A i \in 1 .. k : seq[i] = recency[i] /\ i \in DOMAIN recency
  <2>1. \A i \in 1 .. k : 1 + i - 1 = i /\ i \in DOMAIN recency  BY <1>0
  <2>. QED  BY <1>1, <2>1
<1>. HIDE DEF seq
<1>4. {seq[i] : i \in DOMAIN seq} = names \ gone
  <2>1. ASSUME NEW i \in 1 .. k PROVE recency[i] \in names /\ recency[i] \notin gone
    <3>1. \A j \in k + 1 .. Len(recency) : j \in DOMAIN recency /\ i \in DOMAIN recency /\ j # i  BY <1>0
    <3>2. i \in DOMAIN recency  BY <1>0
    <3>. QED  BY <3>1, <3>2 DEF Lists
  <2>2. ASSUME NEW n \in names \ gone PROVE \E i \in 1 .. k : recency[i] = n
    <3>1. PICK i \in DOMAIN recency : recency[i] = n  BY DEF Lists
    <3>2. i \notin k + 1 .. Len(recency)  BY <3>1
    <3>3. i \in 1 .. k  BY <1>0, <3>2
    <3>. QED  BY <3>1, <3>3
  <2>. QED  BY <1>2, <1>3, <2>1, <2>2
<1>5. \A i, j \in DOMAIN seq : seq[i] = seq[j] => i = j  BY <1>2, <1>3 DEF Lists
<1>. QED  BY <1>1, <1>4, <1>5 DEF Lists, seq

-----------------------------------------------------------------------------
(* Types. *)

\* There is a version, so a request at rest is typed.
LEMMA Idles ==
  ASSUME TypeOK
  PROVE  /\ Idle \in RequestRow /\ Idle.pc = "idle" /\ Idle.answer = "none" /\ Blank \in Version
         /\ \A a \in {"none", "bytes", "part", "redirect", "failed"} :
              /\ [Idle EXCEPT !.answer = a] \in RequestRow
              /\ [Idle EXCEPT !.answer = a].pc = "idle" /\ [Idle EXCEPT !.answer = a].answer = a
<1>1. Original \in Image  BY DEF Image
<1>2. bytes[Original] \in Version  BY <1>1 DEF TypeOK
<1>3. Blank \in Version  BY <1>2 DEF Blank
<1>. QED  BY <1>1, <1>3 DEF Idle, RequestRow, Width

\* A request alone is changed.
LEMMA SetRow ==
  ASSUME NEW r \in Request, NEW new, Set(r, new), request \in [Request -> RequestRow]
  PROVE  /\ request'[r] = new
         /\ \A q \in Request : q # r => request'[q] = request[q]
         /\ new \in RequestRow => request' \in [Request -> RequestRow]
BY DEF Set

\* The rows of requests that are in a type, with what they have by then.
Fits(q) ==
  /\ q \in RequestRow
  /\ q.pc \in {"lookup", "render", "put", "write", "rename"} => q.got \in Version
  /\ q.pc = "write" => q.node \in Inode

\* All requests are in their type.
RequestsFit == request \in [Request -> RequestRow] /\ \A r \in Request : Fits(request[r])

\* The type invariant says so,
LEMMA FitsOf ==
  ASSUME TypeOK
  PROVE  RequestsFit
BY DEF TypeOK, RequestsFit, Fits, Working

\* a change of one of them to another in the type keeps it,
LEMMA SetFits ==
  ASSUME RequestsFit, NEW r \in Request, NEW new, Fits(new), Set(r, new)
  PROVE  RequestsFit'
<1>1. request' \in [Request -> RequestRow]  BY SetRow DEF RequestsFit, Fits
<1>2. \A q \in Request : request'[q] = new \/ request'[q] = request[q]
  BY SetRow DEF RequestsFit
<1>3. \A q \in Request : Fits(request'[q])  BY <1>2 DEF RequestsFit
<1>. QED  BY <1>1, <1>3 DEF RequestsFit

\* and so do an answer,
LEMMA AnswerFits ==
  ASSUME TypeOK, NEW r \in Request, NEW a \in {"none", "bytes", "part", "redirect", "failed"}, Answer(r, a)
  PROVE  RequestsFit'
<1>1. Fits([Idle EXCEPT !.answer = a])  BY Idles DEF Fits
<1>. QED  BY <1>1, FitsOf, SetFits DEF Answer

\* an error,
LEMMA FailFits ==
  ASSUME TypeOK, NEW r \in Request, Fail(r)
  PROVE  RequestsFit'
BY AnswerFits DEF Fail

\* and a miss.
LEMMA MissFits ==
  ASSUME TypeOK, NEW r \in Request, request[r].pc = "lookup", Miss(r)
  PROVE  RequestsFit'
<1>1. Fits([request[r] EXCEPT !.pc = "render"])
  BY FitsOf DEF RequestsFit, Fits, RequestRow
<1>. QED  BY <1>1, FitsOf, SetFits DEF Miss

\* The key of a request is a key, and gives names, and what it puts an entry.
LEMMA KeyTyped ==
  ASSUME TypeOK, NEW r \in Request
  PROVE  /\ KeyOf(r) \in Key
         /\ File(KeyOf(r)) \in Name /\ Tmp(KeyOf(r)) \in Name
         /\ r \in Working => Cached(r) \in Entry
<1>1. request[r] \in RequestRow  BY DEF TypeOK
<1>2. KeyOf(r) \in Key  BY <1>1 DEF KeyOf, CacheKey, Key, RequestRow
<1>. QED  BY <1>2 DEF TypeOK, Cached, Entry, File, Tmp, Name

\* The type invariant in parts, with the names of the directory each once.
SourceOK ==
  /\ world \in Worlds
  /\ bytes \in [Image -> Version]
  /\ row \in [Image -> [hash : Version, size : Nat]]
  /\ edit \in [left : SUBSET Version, count : 0 .. MaxEdits, pc : {"idle", "row"}, flagged : BOOLEAN]
  /\ rehash \in Version \cup {None}

\* The memory cache and its counter.
MemoryOK == memory \in Seq(Entry) /\ size \in Nat

\* The sweeper's notes.
SweepOK ==
  /\ sweep \in [on : BOOLEAN, todo : Seq([name : Name, length : Nat]), total : Int]
  /\ sweep.on => sweep.todo # <<>>

\* The directory.
DiskOK ==
  /\ DOMAIN name \subseteq Name /\ \A n \in DOMAIN name : name[n] \in Inode
  /\ inode \in [Inode -> [of : Version \cup {None}, whole : BOOLEAN]]
  /\ Lists(recency, DOMAIN name)

\* All of them.
Parts ==
  /\ SourceOK /\ MemoryOK /\ DiskOK /\ SweepOK
  /\ bucket \subseteq Entry
  /\ RequestsFit
  /\ asked \in 0 .. MaxAsks

\* The parts follow from the type invariant,
LEMMA PartsOf ==
  ASSUME TypeOK, NamesApart
  PROVE  Parts
BY FitsOf DEF TypeOK, NamesApart, Parts, SourceOK, MemoryOK, DiskOK, SweepOK, Lists

\* and it from them.
LEMMA TypesFrom ==
  ASSUME Parts'
  PROVE  /\ TypeOK'
         /\ \A i, j \in DOMAIN recency' : recency'[i] = recency'[j] => i = j
BY DEF TypeOK, Working, Parts, SourceOK, MemoryOK, DiskOK, SweepOK, Lists, RequestsFit, Fits

\* Edits and rehashes keep the types of the image and its row.
LEMMA SourceSteps ==
  ASSUME TypeOK, EditBytes \/ EditRow \/ RehashRead \/ RehashWrite
  PROVE  SourceOK'
<1>. USE DEF TypeOK, SourceOK
<1>1. Original \in Image  BY DEF Image
<1>2. CASE EditBytes
  <2>1. PICK v \in edit.left :
          /\ bytes' = [bytes EXCEPT ![Original] = v]
          /\ edit' = [edit EXCEPT !.pc = "row", !.count = @ + 1,
                        !.left = IF Is("revert") THEN Version \ {v} ELSE @ \ {v}]
    BY <1>2 DEF EditBytes
  <2>2. edit.count < MaxEdits /\ UNCHANGED <<row, rehash, world>>  BY <1>2 DEF EditBytes
  <2>3. edit.count + 1 \in 0 .. MaxEdits  BY <2>2, BoundsTyped
  <2>4. v \in Version  OBVIOUS
  <2>5. edit' \in [left : SUBSET Version, count : 0 .. MaxEdits, pc : {"idle", "row"}, flagged : BOOLEAN]
    BY <2>1, <2>3
  <2>6. bytes' \in [Image -> Version]  BY <2>1, <2>4
  <2>. QED  BY <2>2, <2>5, <2>6
<1>3. CASE EditRow
  <2>1. world.size[bytes[Original]] \in Nat  BY <1>1, WorldsTyped DEF World
  <2>. QED  BY <1>3, <2>1 DEF EditRow
<1>4. CASE RehashRead
  BY <1>1, <1>4 DEF RehashRead
<1>5. CASE RehashWrite
  BY <1>1, <1>5 DEF RehashWrite
<1>. QED  BY <1>2, <1>3, <1>4, <1>5

\* A request begins with what the row says: it stays in the type, the number of
\* requests within its bound,
LEMMA BeginFits ==
  ASSUME TypeOK, NEW r \in Request, NEW ask \in world.asks, openFile(r, ask)
  PROVE  RequestsFit' /\ asked' \in 0 .. MaxAsks
<1>1. ask \in Ask  BY WorldsTyped DEF TypeOK, World
<1>2. ParseParams(ask) \in Width  BY <1>1 DEF ParseParams, Ask, Width
<1>. DEFINE img == IF ask.variant = "default" /\ Compressed \in world.stored THEN Compressed ELSE Original
            new == IF ParseParams(ask) = "huge" THEN [Idle EXCEPT !.answer = "failed"]
                   ELSE [Idle EXCEPT !.pc = "wait", !.img = img, !.hash = row[img].hash,
                           !.size = row[img].size, !.width = ParseParams(ask)]
<1>3. img \in Image  BY DEF Image
<1>4. row[img].hash \in Version /\ row[img].size \in Nat  BY <1>3 DEF TypeOK
<1>5. Fits(new)
  <2>1. ParseParams(ask) = "huge" => Fits(new)  BY Idles DEF Fits
  <2>2. ParseParams(ask) # "huge" => Fits(new)
    <3>. HIDE DEF img
    <3>. QED  BY Idles, <1>2, <1>3, <1>4 DEF Fits, RequestRow, Idle
  <2>. QED  BY <2>1, <2>2
<1>6. Set(r, new)  BY DEF openFile
<1>7. asked' \in 0 .. MaxAsks  BY BoundsTyped DEF openFile, TypeOK
<1>. HIDE DEF new
<1>. QED  BY <1>5, <1>6, <1>7, FitsOf, SetFits

\* also when it reads, fails, or goes on to the original,
LEMMA FetchFits ==
  ASSUME TypeOK, NEW r \in Request, Fetch(r)
  PROVE  RequestsFit'
<1>. DEFINE q == request[r]
<1>1. q \in RequestRow /\ q.img \in Image /\ Original \in Image  BY DEF TypeOK, RequestRow, Image
<1>2. row[Original].hash \in Version /\ row[Original].size \in Nat /\ bytes[q.img] \in Version
  BY <1>1 DEF TypeOK
<1>3. q.pc = "fetch"  BY DEF Fetch
<1>4. CASE Fail(r)  BY <1>4, FailFits
<1>5. CASE Set(r, [q EXCEPT !.img = Original, !.hash = row[Original].hash,
                            !.size = row[Original].size, !.tried = TRUE])
  <2>1. Fits([q EXCEPT !.img = Original, !.hash = row[Original].hash,
                       !.size = row[Original].size, !.tried = TRUE])
    BY <1>1, <1>2, <1>3 DEF Fits, RequestRow
  <2>. QED  BY <1>5, <2>1, FitsOf, SetFits
<1>6. CASE Set(r, [q EXCEPT !.pc = "lookup", !.got = bytes[q.img]])
  <2>1. Fits([q EXCEPT !.pc = "lookup", !.got = bytes[q.img]])
    BY <1>1, <1>2 DEF Fits, RequestRow
  <2>. QED  BY <1>6, <2>1, FitsOf, SetFits
<1>. QED  BY <1>4, <1>5, <1>6 DEF Fetch

\* and when it waits, renders, or has no cache.
LEMMA PlainFits ==
  ASSUME TypeOK, NEW r \in Request, Acquire(r) \/ Cancel(r) \/ Render(r) \/ NoCache(r)
  PROVE  RequestsFit'
<1>1. CASE Acquire(r)
  <2>1. Fits([request[r] EXCEPT !.pc = "fetch"])  BY FitsOf DEF RequestsFit, Fits, RequestRow
  <2>. QED  BY <1>1, <2>1, FitsOf, SetFits DEF Acquire
<1>2. CASE Cancel(r)  BY <1>2, FailFits DEF Cancel
<1>3. CASE Render(r)
  <2>1. request[r].pc = "render" => Fits([request[r] EXCEPT !.pc = "put"])
    BY FitsOf DEF RequestsFit, Fits, RequestRow
  <2>2. Fail(r) \/ Set(r, [request[r] EXCEPT !.pc = "put"])  BY <1>3 DEF Render
  <2>3. request[r].pc = "render"  BY <1>3 DEF Render
  <2>. QED  BY <2>1, <2>2, <2>3, FailFits, FitsOf, SetFits
<1>4. CASE NoCache(r)
  BY <1>4, MissFits, AnswerFits DEF NoCache
<1>. QED  BY <1>1, <1>2, <1>3, <1>4

\* The memory cache keeps its types and its budget.
LEMMA MemoryFits ==
  ASSUME TypeOK, BudgetKept, NEW r \in Request, MemoryGet(r) \/ MemoryPut(r)
  PROVE  MemoryOK' /\ BudgetKept' /\ RequestsFit'
<1>1. CASE MemoryGet(r)
  <2>1. MemoryOK' /\ BudgetKept'  BY <1>1, MemoryGetStep DEF MemoryOK
  <2>2. request[r].pc = "lookup" /\ (Miss(r) \/ Answer(r, "bytes"))  BY <1>1 DEF MemoryGet
  <2>. QED  BY <2>1, <2>2, MissFits, AnswerFits
<1>2. CASE MemoryPut(r)
  <2>1. r \in Working  BY <1>2 DEF MemoryPut, Working
  <2>2. Cached(r) \in Entry  BY <2>1, KeyTyped
  <2>3. MemoryOK' /\ BudgetKept'  BY <1>2, <2>2, MemoryPutStep DEF MemoryOK
  <2>4. Answer(r, "bytes")  BY <1>2 DEF MemoryPut
  <2>. QED  BY <2>3, <2>4, AnswerFits
<1>. QED  BY <1>1, <1>2

\* The file of the temporary name that a request opens.
OpenedNode(r) ==
  IF Tmp(KeyOf(r)) \in DOMAIN name THEN name[Tmp(KeyOf(r))] ELSE CHOOSE i \in Inode \ InUse : TRUE

\* It is an inode, a free one where there was no such name.
LEMMA OpenedNodeIs ==
  ASSUME DiskOK, NEW r \in Request, DiskOpen(r)
  PROVE  /\ OpenedNode(r) \in Inode
         /\ Tmp(KeyOf(r)) \notin DOMAIN name => OpenedNode(r) \notin InUse
<1>1. Tmp(KeyOf(r)) \in DOMAIN name \/ Inode \ InUse # {}  BY DEF DiskOpen
<1>. QED  BY <1>1 DEF OpenedNode, DiskOK

\* What opening the temporary file does, in these terms.
LEMMA OpenStep ==
  ASSUME DiskOK, NEW r \in Request, DiskOpen(r)
  PROVE  /\ DOMAIN name' = DOMAIN name \cup {Tmp(KeyOf(r))}
         /\ name'[Tmp(KeyOf(r))] = OpenedNode(r)
         /\ \A n \in DOMAIN name : n # Tmp(KeyOf(r)) => name'[n] = name[n]
         /\ inode' = [inode EXCEPT ![OpenedNode(r)] = [of |-> request[r].got, whole |-> FALSE]]
         /\ Touch(Tmp(KeyOf(r)))
         /\ Set(r, [request[r] EXCEPT !.pc = "write", !.node = OpenedNode(r)])
         /\ request[r].pc = "put"
         /\ UNCHANGED <<source, memory, size, sweep, bucket, asked, died, world>>
BY DEF DiskOpen, OpenedNode

\* Opening keeps the types of the directory and of requests,
LEMMA OpenFits ==
  ASSUME Parts, TypeOK, NEW r \in Request, DiskOpen(r)
  PROVE  DiskOK' /\ RequestsFit'
<1>. DEFINE t == Tmp(KeyOf(r))
<1>1. OpenedNode(r) \in Inode /\ DiskOK  BY OpenedNodeIs DEF Parts
<1>2. r \in Working /\ request[r].got \in Version /\ t \in Name  BY KeyTyped, OpenStep, <1>1 DEF Working, TypeOK
<1>a. /\ DOMAIN name' = DOMAIN name \cup {t} /\ name'[t] = OpenedNode(r)
      /\ \A n \in DOMAIN name : n # t => name'[n] = name[n]
      /\ inode' = [inode EXCEPT ![OpenedNode(r)] = [of |-> request[r].got, whole |-> FALSE]]
      /\ Touch(t)
  BY <1>1, OpenStep
<1>. HIDE DEF t
<1>3. DOMAIN name' \subseteq Name /\ \A n \in DOMAIN name' : name'[n] \in Inode
  BY <1>1, <1>2, <1>a DEF DiskOK
<1>4. inode' \in [Inode -> [of : Version \cup {None}, whole : BOOLEAN]]
  BY <1>1, <1>2, <1>a DEF DiskOK
<1>5. Lists(recency', DOMAIN name')
  BY <1>1, <1>2, <1>a, TouchLists DEF DiskOK
<1>6. Fits([request[r] EXCEPT !.pc = "write", !.node = OpenedNode(r)])
  BY <1>1, <1>2, FitsOf DEF RequestsFit, Fits, RequestRow
<1>7. RequestsFit'
  BY <1>1, <1>6, OpenStep, FitsOf, SetFits
<1>. QED  BY <1>3, <1>4, <1>5, <1>7 DEF DiskOK

\* so does writing.
LEMMA WriteFits ==
  ASSUME Parts, TypeOK, NEW r \in Request, DiskWrite(r)
  PROVE  DiskOK' /\ RequestsFit'
<1>1. r \in Working /\ request[r].got \in Version /\ request[r].node \in Inode
  BY DEF DiskWrite, Working, TypeOK
<1>2. DiskOK'  BY <1>1 DEF Parts, DiskOK, DiskWrite, Lists
<1>3. Fits([request[r] EXCEPT !.pc = "rename", !.node = None])
  BY <1>1, FitsOf DEF RequestsFit, Fits, RequestRow
<1>4. RequestsFit'  BY <1>3, FitsOf, SetFits DEF DiskWrite
<1>. QED  BY <1>2, <1>4

\* A file takes its final name ...
LEMMA RenameStep ==
  ASSUME DiskOK, NEW r \in Request, DiskRename(r), Tmp(KeyOf(r)) \in DOMAIN name
  PROVE  /\ DOMAIN name' = (DOMAIN name \ {Tmp(KeyOf(r))}) \cup {File(KeyOf(r))}
         /\ name'[File(KeyOf(r))] = name[Tmp(KeyOf(r))]
         /\ \A n \in DOMAIN name' : n # File(KeyOf(r)) => n # Tmp(KeyOf(r)) /\ name'[n] = name[n]
         /\ Tmp(KeyOf(r)) # File(KeyOf(r))
BY DEF DiskRename, File, Tmp

\* ... if it has its temporary one still.
LEMMA RenameFits ==
  ASSUME Parts, TypeOK, NEW r \in Request, DiskRename(r)
  PROVE  DiskOK' /\ RequestsFit'
<1>. DEFINE t == Tmp(KeyOf(r))
            f == File(KeyOf(r))
<1>1. DiskOK /\ t \in Name /\ f \in Name  BY KeyTyped DEF Parts
<1>2. RequestsFit'  BY AnswerFits DEF DiskRename
<1>3. CASE t \in DOMAIN name
  <2>1. DOMAIN name' \subseteq Name /\ \A n \in DOMAIN name' : name'[n] \in Inode
    BY <1>1, <1>3, RenameStep DEF DiskOK
  <2>2. inode' = inode  BY DEF DiskRename
  <2>3. Lists(Forget(f), DOMAIN name \ {f})  BY <1>1, ForgetLists DEF DiskOK
  <2>4. t \in DOMAIN name \ {f} /\ f \notin DOMAIN name \ {f}  BY <1>1, <1>3, RenameStep
  <2>5. recency' = [i \in DOMAIN Forget(f) |-> IF Forget(f)[i] = t THEN f ELSE Forget(f)[i]]
    BY <1>3 DEF DiskRename
  <2>6. Lists(recency', ((DOMAIN name \ {f}) \ {t}) \cup {f})
    <3>. HIDE DEF t, f
    <3>. QED  BY <1>1, <2>3, <2>4, <2>5, RenameLists
  <2>7. DOMAIN name' = ((DOMAIN name \ {f}) \ {t}) \cup {f}  BY <1>1, <1>3, RenameStep
  <2>. QED  BY <1>1, <1>2, <2>1, <2>2, <2>6, <2>7 DEF DiskOK
<1>4. CASE t \notin DOMAIN name
  BY <1>1, <1>2, <1>4 DEF DiskRename, DiskOK, Lists
<1>. QED  BY <1>3, <1>4

\* So does a lookup on disk, which touches at most the time of a name.
LEMMA GetFits ==
  ASSUME Parts, TypeOK, NEW r \in Request, DiskGet(r)
  PROVE  DiskOK' /\ RequestsFit'
<1>. DEFINE n == File(KeyOf(r))
<1>1. DiskOK /\ n \in Name  BY KeyTyped DEF Parts
<1>2. UNCHANGED <<name, inode>> /\ request[r].pc = "lookup"  BY DEF DiskGet
<1>3. CASE Miss(r) /\ UNCHANGED recency
  BY <1>1, <1>2, <1>3, MissFits DEF DiskOK, Lists
<1>4. ASSUME n \in DOMAIN name, Touch(n), NEW a \in {"bytes", "part"}, Answer(r, a)
      PROVE  DiskOK' /\ RequestsFit'
  <2>1. Lists(recency', DOMAIN name \cup {n})
    <3>. HIDE DEF n
    <3>. QED  BY <1>1, <1>4, TouchLists DEF DiskOK
  <2>2. DOMAIN name \cup {n} = DOMAIN name'  BY <1>2, <1>4
  <2>. QED  BY <1>1, <1>2, <1>4, <2>1, <2>2, AnswerFits DEF DiskOK
<1>. QED  BY <1>3, <1>4 DEF DiskGet

\* The length of a file is a number.
LEMMA WeightIsNat ==
  ASSUME TypeOK, NEW n \in DOMAIN name
  PROVE  Weight(n) \in Nat
<1>1. inode[name[n]].of \in Version \cup {None}  BY DEF TypeOK
<1>. QED  BY <1>1, WorldsTyped DEF Weight, TypeOK, World

\* The sweeper's walk and its evictions keep the directory and its notes typed.
LEMMA SweepFits ==
  ASSUME Parts, TypeOK, SweepWalk \/ SweepEvict
  PROVE  DiskOK' /\ SweepOK'
<1>0. DiskOK /\ SweepOK  BY DEF Parts
<1>1. SweepOK' \/ sweep' # Swept
  <2>1. <<>> \in Seq([name : Name, length : Nat])  BY EmptySeq
  <2>2. Swept \in [on : BOOLEAN, todo : Seq([name : Name, length : Nat]), total : Int] /\ ~Swept.on
    BY <2>1 DEF Swept
  <2>. QED  BY <2>2 DEF SweepOK
<1>2. CASE SweepWalk
  <2>1. PICK k \in 0 .. Len(recency) :
          LET kept == SubSeq(recency, 1, k)
              all  == Total(Weights(kept))
          IN  /\ Unlink({recency[i] : i \in k + 1 .. Len(recency)})
              /\ recency' = kept
              /\ sweep' = IF all <= MaxBytes THEN Swept
                          ELSE [on |-> TRUE, total |-> all,
                                todo |-> [i \in DOMAIN kept |->
                                            [name |-> kept[i], length |-> Weight(kept[i])]]]
    BY <1>2 DEF SweepWalk
  <2>. DEFINE kept == SubSeq(recency, 1, k)
              gone == {recency[i] : i \in k + 1 .. Len(recency)}
              todo == [i \in DOMAIN kept |-> [name |-> kept[i], length |-> Weight(kept[i])]]
  <2>2. Lists(kept, DOMAIN name \ gone)  BY <1>0, BeginningLists DEF DiskOK
  <2>3. DOMAIN name' = DOMAIN name \ gone /\ \A n \in DOMAIN name' : name'[n] = name[n]
    BY <2>1 DEF Unlink
  <2>4. inode' = inode /\ recency' = kept  BY <1>2, <2>1 DEF SweepWalk
  <2>5. DiskOK'  BY <1>0, <2>2, <2>3, <2>4 DEF DiskOK
  <2>. HIDE DEF kept, gone
  <2>6. kept \in Seq(Name) /\ Len(kept) \in Nat /\ DOMAIN kept = 1 .. Len(kept)
    BY <2>2, LenProperties DEF Lists
  <2>7. \A i \in DOMAIN kept : kept[i] \in Name /\ Weight(kept[i]) \in Nat
    <3>1. \A i \in DOMAIN kept : kept[i] \in DOMAIN name  BY <2>2 DEF Lists
    <3>. QED  BY <3>1, WeightIsNat DEF TypeOK
  <2>8. Weights(kept) \in Seq(Nat)  BY <2>6, <2>7 DEF Weights
  <2>9. Total(Weights(kept)) \in Nat  BY <2>8, TotalIsNat
  <2>10. todo \in Seq([name : Name, length : Nat]) /\ DOMAIN todo = DOMAIN kept  BY <2>6, <2>7
  <2>11. ASSUME sweep' # Swept
         PROVE  todo # <<>>
    <3>1. Total(Weights(kept)) > MaxBytes  BY <2>1, <2>9, <2>11, BoundsTyped DEF kept
    <3>2. ASSUME todo = <<>> PROVE FALSE
      <4>1. DOMAIN kept = {}  BY <2>10, <3>2
      <4>2. Weights(kept) = <<>>  BY <2>8, <4>1, EmptySeq DEF Weights
      <4>. QED  BY <3>1, <4>2, TotalEmpty, BoundsTyped
    <3>. QED  BY <3>2
  <2>12. sweep' = Swept \/ sweep' = [on |-> TRUE, total |-> Total(Weights(kept)), todo |-> todo]
    BY <2>1 DEF kept
  <2>. HIDE DEF todo
  <2>13. CASE sweep' # Swept
    <3>1. sweep' = [on |-> TRUE, total |-> Total(Weights(kept)), todo |-> todo] /\ todo # <<>>
      BY <2>11, <2>12, <2>13
    <3>. QED  BY <2>5, <2>9, <2>10, <3>1 DEF SweepOK
  <2>. QED  BY <1>1, <2>5, <2>13
<1>3. CASE SweepEvict
  <2>. DEFINE e == sweep.todo[Len(sweep.todo)]
              left == IF e.name \in DOMAIN name THEN sweep.total - e.length ELSE sweep.total
  <2>1. /\ Unlink({e.name}) /\ recency' = Forget(e.name) /\ inode' = inode /\ sweep.on
        /\ sweep' = IF left > MaxBytes /\ Len(sweep.todo) > 1
                    THEN [sweep EXCEPT !.todo = SubSeq(@, 1, Len(@) - 1), !.total = left]
                    ELSE Swept
    BY <1>3 DEF SweepEvict
  <2>2. sweep.todo \in Seq([name : Name, length : Nat]) /\ sweep.todo # <<>> /\ sweep.total \in Int
    BY <1>0, <2>1 DEF SweepOK
  <2>3. Len(sweep.todo) \in Nat \ {0}  BY <2>2, EmptySeq
  <2>a. \A i \in 1 .. Len(sweep.todo) : sweep.todo[i] \in [name : Name, length : Nat]
    <3>. DEFINE Noted == [name : Name, length : Nat]
    <3>1. sweep.todo \in Seq(Noted)  BY <2>2
    <3>. HIDE DEF Noted
    <3>2. \A i \in 1 .. Len(sweep.todo) : sweep.todo[i] \in Noted  BY <3>1, ElementOfSeq
    <3>. QED  BY <3>2 DEF Noted
  <2>4. e \in [name : Name, length : Nat]
    <3>1. Len(sweep.todo) \in 1 .. Len(sweep.todo)  BY <2>3
    <3>. QED  BY <2>a, <3>1
  <2>5. left \in Int  BY <2>2, <2>4
  <2>. HIDE DEF e, left
  <2>6. DiskOK'
    <3>1. DOMAIN name' = DOMAIN name \ {e.name} /\ \A n \in DOMAIN name' : name'[n] = name[n]
      BY <2>1 DEF Unlink
    <3>2. Lists(recency', DOMAIN name')  BY <1>0, <2>1, <3>1, ForgetLists DEF DiskOK
    <3>. QED  BY <1>0, <2>1, <3>1, <3>2 DEF DiskOK
  <2>7. CASE sweep' # Swept
    <3>. DEFINE rest == SubSeq(sweep.todo, 1, Len(sweep.todo) - 1)
    <3>1. sweep' = [sweep EXCEPT !.todo = rest, !.total = left] /\ Len(sweep.todo) > 1
      BY <2>1, <2>7
    <3>2. rest \in Seq([name : Name, length : Nat]) /\ Len(rest) = Len(sweep.todo) - 1
      <4>1. \A i \in 1 .. Len(sweep.todo) - 1 : sweep.todo[i] \in [name : Name, length : Nat]
        BY <2>3, <2>a
      <4>2. 1 \in Int /\ Len(sweep.todo) - 1 \in Int /\ 1 <= Len(sweep.todo) - 1
            /\ Len(sweep.todo) - 1 - 1 + 1 = Len(sweep.todo) - 1
        BY <2>3, <3>1
      <4>. QED  BY <4>1, <4>2, SubSeqProperties
    <3>3. rest # <<>>
      <4>1. Len(rest) > 0  BY <2>3, <3>1, <3>2
      <4>2. Len(<<>>) = 0  OBVIOUS
      <4>. HIDE DEF rest
      <4>. QED  BY <4>1, <4>2
    <3>. HIDE DEF rest
    <3>4. SweepOK'  BY <1>0, <2>5, <3>1, <3>2, <3>3 DEF SweepOK
    <3>. QED  BY <2>6, <3>4
  <2>. QED  BY <1>1, <2>6, <2>7
<1>. QED  BY <1>2, <1>3

\* The bucket holds entries.
LEMMA BucketFits ==
  ASSUME TypeOK, NEW r \in Request, BucketGet(r) \/ BucketPut(r)
  PROVE  bucket' \subseteq Entry /\ RequestsFit'
<1>1. CASE BucketGet(r)
  <2>1. request[r].pc = "lookup" /\ (Miss(r) \/ Answer(r, "redirect")) /\ bucket' = bucket
    BY <1>1 DEF BucketGet
  <2>. QED  BY <2>1, MissFits, AnswerFits DEF TypeOK
<1>2. CASE BucketPut(r)
  <2>1. r \in Working  BY <1>2 DEF BucketPut, Working
  <2>2. Cached(r) \in Entry  BY <2>1, KeyTyped
  <2>3. bucket' \subseteq bucket \cup {Cached(r)} /\ Answer(r, "redirect")  BY <1>2 DEF BucketPut, Cached
  <2>. QED  BY <2>2, <2>3, AnswerFits DEF TypeOK
<1>. QED  BY <1>1, <1>2

\* A restart leaves an empty memory cache, and requests at rest.
LEMMA DieFits ==
  ASSUME TypeOK, NEW r \in Request, Die(r)
  PROVE  RequestsFit' /\ MemoryOK' /\ BudgetKept' /\ SweepOK'
<1>1. RequestsFit'  BY Idles DEF Die, RequestsFit, Fits
<1>2. <<>> \in Seq(Entry) /\ <<>> \in Seq([name : Name, length : Nat])  BY EmptySeq
<1>3. MemoryOK'  BY <1>2 DEF Die, MemoryOK
<1>4. SweepOK'  BY <1>2 DEF Die, SweepOK, Swept
<1>5. Total(Lengths(<<>>)) = 0
  <2>1. Lengths(<<>>) \in Seq(Nat) /\ Len(Lengths(<<>>)) = 0
    BY <1>2, LengthsSeq, EmptySeq, WorldsTyped DEF TypeOK
  <2>2. Lengths(<<>>) = <<>>  BY <2>1, EmptySeq
  <2>. QED  BY <2>2, TotalEmpty
<1>6. BudgetKept'
  <2>1. memory' = <<>> /\ size' = 0 /\ world' = world  BY DEF Die
  <2>2. Apart(memory')  BY <2>1 DEF Apart
  <2>. QED  BY <1>5, <2>1, <2>2, BudgetAfter, BoundsTyped
<1>. QED  BY <1>1, <1>3, <1>4, <1>6

\* What leaves the memory cache alone leaves its budget alone.
LEMMA BudgetSame ==
  ASSUME BudgetKept, UNCHANGED <<memory, size, world>>
  PROVE  BudgetKept'
BY DEF BudgetKept, Lengths, Length

\* The types, and the budget, are kept by every step.
LEMMA TypeStep ==
  ASSUME TypeOK, BudgetKept, NamesApart, [Next]_vars
  PROVE  Parts' /\ BudgetKept'
<1>0. Parts  BY PartsOf
<1>1. ASSUME UNCHANGED <<source, world>> PROVE SourceOK'
  BY <1>0, <1>1 DEF Parts, SourceOK, source
<1>2. ASSUME UNCHANGED <<memory, size, world>> PROVE MemoryOK' /\ BudgetKept'
  BY <1>0, <1>2, BudgetSame DEF Parts, MemoryOK
<1>3. ASSUME UNCHANGED <<name, inode, recency>> PROVE DiskOK'
  BY <1>0, <1>3 DEF Parts, DiskOK, Lists
<1>4. ASSUME UNCHANGED sweep PROVE SweepOK'
  BY <1>0, <1>4 DEF Parts, SweepOK
<1>5. ASSUME UNCHANGED request PROVE RequestsFit'
  BY <1>0, <1>5 DEF Parts, RequestsFit
<1>6. ASSUME UNCHANGED <<bucket, asked>> PROVE bucket' \subseteq Entry /\ asked' \in 0 .. MaxAsks
  BY <1>0, <1>6 DEF Parts
<1>7. CASE EditBytes \/ EditRow \/ RehashRead \/ RehashWrite
  <2>1. UNCHANGED <<memory, size, disk, bucket, request, asked, world>>
    BY <1>7 DEF EditBytes, EditRow, RehashRead, RehashWrite
  <2>. QED  BY <1>2, <1>3, <1>4, <1>5, <1>6, <1>7, <2>1, SourceSteps DEF Parts, disk
<1>8. ASSUME NEW r \in Request, NEW ask \in world.asks, openFile(r, ask)
      PROVE  Parts' /\ BudgetKept'
  <2>1. UNCHANGED <<source, memory, size, disk, bucket, world>>  BY <1>8 DEF openFile
  <2>2. RequestsFit' /\ asked' \in 0 .. MaxAsks  BY <1>8, BeginFits
  <2>. QED  BY <1>0, <1>1, <1>2, <1>3, <1>4, <2>1, <2>2 DEF Parts, disk
<1>9. ASSUME NEW r \in Request, Acquire(r) \/ Cancel(r) \/ Render(r) \/ NoCache(r) \/ Fetch(r)
      PROVE  Parts' /\ BudgetKept'
  <2>1. UNCHANGED <<source, memory, size, disk, bucket, asked, world>>
    BY <1>9 DEF Acquire, Cancel, Render, NoCache, Fetch
  <2>2. RequestsFit'  BY <1>9, PlainFits, FetchFits
  <2>. QED  BY <1>1, <1>2, <1>3, <1>4, <1>6, <2>1, <2>2 DEF Parts, disk
<1>10. ASSUME NEW r \in Request, MemoryGet(r) \/ MemoryPut(r)
       PROVE  Parts' /\ BudgetKept'
  <2>1. UNCHANGED <<source, disk, bucket, asked, world>>  BY <1>10 DEF MemoryGet, MemoryPut
  <2>2. MemoryOK' /\ BudgetKept' /\ RequestsFit'  BY <1>10, MemoryFits
  <2>. QED  BY <1>1, <1>3, <1>4, <1>6, <2>1, <2>2 DEF Parts, disk
<1>11. ASSUME NEW r \in Request, DiskGet(r) \/ DiskOpen(r) \/ DiskWrite(r) \/ DiskRename(r)
       PROVE  Parts' /\ BudgetKept'
  <2>1. UNCHANGED <<source, memory, size, sweep, bucket, asked, world>>
    BY <1>11 DEF DiskGet, DiskOpen, DiskWrite, DiskRename
  <2>2. DiskOK' /\ RequestsFit'  BY <1>0, <1>11, GetFits, OpenFits, WriteFits, RenameFits
  <2>. QED  BY <1>1, <1>2, <1>4, <1>6, <2>1, <2>2 DEF Parts
<1>12. ASSUME NEW r \in Request, BucketGet(r) \/ BucketPut(r)
       PROVE  Parts' /\ BudgetKept'
  <2>1. UNCHANGED <<source, memory, size, disk, asked, world>>  BY <1>12 DEF BucketGet, BucketPut
  <2>2. bucket' \subseteq Entry /\ RequestsFit'  BY <1>12, BucketFits
  <2>. QED  BY <1>0, <1>1, <1>2, <1>3, <1>4, <2>1, <2>2 DEF Parts, disk
<1>13. ASSUME NEW r \in Request, Die(r)
       PROVE  Parts' /\ BudgetKept'
  <2>1. UNCHANGED <<source, name, inode, recency, bucket, asked, world>>  BY <1>13 DEF Die
  <2>. QED  BY <1>1, <1>3, <1>6, <1>13, <2>1, DieFits DEF Parts
<1>14. CASE SweepWalk \/ SweepEvict
  <2>1. UNCHANGED <<source, memory, size, bucket, request, asked, world>>
    BY <1>14 DEF SweepWalk, SweepEvict
  <2>. QED  BY <1>0, <1>1, <1>2, <1>5, <1>6, <1>14, <2>1, SweepFits DEF Parts
<1>15. CASE UNCHANGED vars
  <2>1. UNCHANGED <<source, memory, size, disk, bucket, request, asked, world>>  BY <1>15 DEF vars
  <2>. QED  BY <1>1, <1>2, <1>3, <1>4, <1>5, <1>6, <2>1 DEF Parts, disk
<1>16. world.clients \subseteq Request  BY WorldsTyped DEF TypeOK, World
<1>. QED  BY <1>7, <1>8, <1>9, <1>10, <1>11, <1>12, <1>13, <1>14, <1>15, <1>16 DEF Next, Work

-----------------------------------------------------------------------------
(* Places in the semaphore. *)

\* The world is chosen once.
LEMMA WorldSame ==
  ASSUME [Next]_vars
  PROVE  world' = world
BY DEF Next, vars, EditBytes, EditRow, RehashRead, RehashWrite, openFile, Acquire, Cancel,
   Work, Fetch, Render, NoCache, MemoryGet, MemoryPut, DiskGet, DiskOpen, DiskWrite, DiskRename, BucketGet,
   BucketPut, Die, SweepWalk, SweepEvict

\* A request takes a place only where one is free, and no other step takes one.
LEMMA BoundedStep ==
  ASSUME TypeOK, Bounded, [Next]_vars
  PROVE  Bounded'
<1>0. world.clients \subseteq Request /\ world.limit \in 1 .. 3 /\ request \in [Request -> RequestRow]
      /\ world' = world
  BY WorldsTyped, WorldSame DEF TypeOK, World
<1>1. ASSUME Rendering' \subseteq Rendering
      PROVE  Bounded'
  <2>1. IsFiniteSet(Rendering')  BY <1>1, FS_Subset DEF Bounded
  <2>2. Cardinality(Rendering') <= Cardinality(Rendering)  BY <1>1, FS_Subset DEF Bounded
  <2>3. Cardinality(Rendering') \in Nat /\ Cardinality(Rendering) \in Nat
    BY <2>1, FS_CardinalityType DEF Bounded
  <2>. QED  BY <1>0, <2>1, <2>2, <2>3 DEF Bounded
<1>2. ASSUME NEW r \in Request, NEW new, Set(r, new), new.pc \in {"idle", "wait"} \/ r \in Rendering
      PROVE  Rendering' \subseteq Rendering
  BY <1>0, <1>2, SetRow DEF Rendering
<1>3. ASSUME NEW r \in Request, NEW a, Answer(r, a)
      PROVE  Rendering' \subseteq Rendering
  <2>1. [Idle EXCEPT !.answer = a].pc = "idle"  BY DEF Idle
  <2>. QED  BY <1>2, <1>3, <2>1 DEF Answer
<1>4. ASSUME NEW r \in Request, Acquire(r)
      PROVE  Bounded'
  <2>1. /\ request[r].pc = "wait" /\ Set(r, [request[r] EXCEPT !.pc = "fetch"])
        /\ world.limit > 1 => Cardinality(Rendering) < world.limit
    BY <1>4 DEF Acquire
  <2>2. Rendering' = Rendering \cup {r} /\ r \notin Rendering
    <3>1. request'[r].pc = "fetch"  BY <1>0, <2>1, SetRow DEF RequestRow
    <3>. QED  BY <1>0, <2>1, <3>1, SetRow DEF Rendering
  <2>3. IsFiniteSet(Rendering') /\ Cardinality(Rendering') = Cardinality(Rendering) + 1
    BY <2>2, FS_AddElement DEF Bounded
  <2>4. Cardinality(Rendering) \in Nat  BY FS_CardinalityType DEF Bounded
  <2>. QED  BY <1>0, <2>1, <2>3, <2>4 DEF Bounded
<1>5. ASSUME NEW r \in Request, NEW ask \in world.asks, openFile(r, ask)
      PROVE  Rendering' \subseteq Rendering
  <2>. DEFINE new == IF ParseParams(ask) = "huge" THEN [Idle EXCEPT !.answer = "failed"]
                     ELSE [Idle EXCEPT !.pc = "wait",
                             !.img = IF ask.variant = "default" /\ Compressed \in world.stored
                                     THEN Compressed ELSE Original,
                             !.hash = row[IF ask.variant = "default" /\ Compressed \in world.stored
                                          THEN Compressed ELSE Original].hash,
                             !.size = row[IF ask.variant = "default" /\ Compressed \in world.stored
                                          THEN Compressed ELSE Original].size,
                             !.width = ParseParams(ask)]
  <2>1. Set(r, new)  BY <1>5 DEF openFile
  <2>2. new.pc \in {"idle", "wait"}  BY DEF Idle
  <2>. HIDE DEF new
  <2>. QED  BY <1>2, <2>1, <2>2
<1>6. ASSUME NEW r \in Request, Cancel(r) PROVE Rendering' \subseteq Rendering
  BY <1>3, <1>6 DEF Cancel, Fail
<1>7. ASSUME NEW r \in Request, Work(r)
      PROVE  Rendering' \subseteq Rendering
  <2>1. r \in Rendering
    BY <1>7 DEF Work, Fetch, Render, NoCache, MemoryGet, MemoryPut, DiskGet, DiskOpen, DiskWrite, DiskRename,
       BucketGet, BucketPut, Rendering
  <2>2. \E new : Set(r, new)
    BY <1>7 DEF Work, Fetch, Render, NoCache, MemoryGet, MemoryPut, DiskGet, DiskOpen, DiskWrite, DiskRename,
       BucketGet, BucketPut, Miss, Answer, Fail
  <2>. QED  BY <1>2, <2>1, <2>2
<1>8. ASSUME NEW r \in Request, Die(r) PROVE Rendering' \subseteq Rendering
  BY <1>8 DEF Die, Rendering, Idle
<1>9. ASSUME UNCHANGED request PROVE Rendering' \subseteq Rendering
  BY <1>9 DEF Rendering
<1>10. ASSUME EditBytes \/ EditRow \/ RehashRead \/ RehashWrite \/ SweepWalk \/ SweepEvict \/ UNCHANGED vars
       PROVE  UNCHANGED request
  BY <1>10 DEF EditBytes, EditRow, RehashRead, RehashWrite, SweepWalk, SweepEvict, vars
<1>. QED  BY <1>0, <1>1, <1>4, <1>5, <1>6, <1>7, <1>8, <1>9, <1>10 DEF Next

-----------------------------------------------------------------------------
(* What a step does to a request. *)

\* Where a request goes from where, once it has read.
Advances == {<<"lookup", "render">>, <<"render", "put">>, <<"put", "write">>, <<"write", "rename">>}

\* What of a request becomes what: it is answered, begins with the hash of
\* the row, goes on, perhaps to the original, reads, or works with what it read.
Becomes(q, a, b) ==
  \/ b = a
  \/ /\ b.pc = "idle"
     /\ b.answer = "part" => /\ File(KeyOf(q)) \in DOMAIN name
                             /\ ~inode[name[File(KeyOf(q))]].whole
  \/ /\ a.pc = "idle" /\ b.pc = "wait" /\ b.answer # "part"
     /\ b.hash = row[b.img].hash
  \/ /\ a.pc \in {"wait", "fetch"} /\ b.pc = "fetch" /\ b.answer = a.answer
     /\ CacheKey(b) = CacheKey(a) \/ b.hash = row[b.img].hash
  \/ /\ a.pc = "fetch" /\ b.pc = "lookup" /\ b.answer = a.answer
     /\ CacheKey(b) = CacheKey(a) /\ b.got = bytes[b.img]
  \/ /\ <<a.pc, b.pc>> \in Advances /\ b.answer = a.answer
     /\ CacheKey(b) = CacheKey(a) /\ b.got = a.got

\* A step does so to request q.
Moves(q) == Becomes(q, request[q], request'[q])

\* A request changes alone.
LEMMA SetMoves ==
  ASSUME TypeOK, NEW r \in Request, NEW new, Set(r, new), Becomes(r, request[r], new)
  PROVE  \A q \in Request : Moves(q)
<1>1. request'[r] = new /\ \A q \in Request : q # r => request'[q] = request[q]
  BY SetRow DEF TypeOK
<1>. QED  BY <1>1 DEF Moves, Becomes

\* An answer is such a change,
LEMMA AnswerMoves ==
  ASSUME TypeOK, NEW r \in Request, NEW a \in {"none", "bytes", "redirect", "failed"}, Answer(r, a)
  PROVE  \A q \in Request : Moves(q)
<1>1. Becomes(r, request[r], [Idle EXCEPT !.answer = a])  BY Idles DEF Becomes
<1>. QED  BY <1>1, SetMoves DEF Answer

\* Most of it goes from one place to the next.
LEMMA AdvanceMoves ==
  ASSUME TypeOK, NEW r \in Request, NEW pc, <<request[r].pc, pc>> \in Advances,
         Set(r, [request[r] EXCEPT !.pc = pc])
  PROVE  \A q \in Request : Moves(q)
<1>1. request[r] \in RequestRow  BY DEF TypeOK
<1>2. Becomes(r, request[r], [request[r] EXCEPT !.pc = pc])
  BY <1>1 DEF Becomes, RequestRow, CacheKey
<1>. QED  BY <1>2, SetMoves

\* opening and writing a file,
LEMMA NodeMoves ==
  ASSUME TypeOK, NEW r \in Request, NEW pc, NEW node, <<request[r].pc, pc>> \in Advances,
         Set(r, [request[r] EXCEPT !.pc = pc, !.node = node])
  PROVE  \A q \in Request : Moves(q)
<1>1. request[r] \in RequestRow  BY DEF TypeOK
<1>2. Becomes(r, request[r], [request[r] EXCEPT !.pc = pc, !.node = node])
  BY <1>1 DEF Becomes, RequestRow, CacheKey
<1>. QED  BY <1>2, SetMoves

\* a miss,
LEMMA MissMoves ==
  ASSUME TypeOK, NEW r \in Request, request[r].pc = "lookup", Miss(r)
  PROVE  \A q \in Request : Moves(q)
BY AdvanceMoves DEF Miss, Advances

\* the beginning of a request,
LEMMA BeginMoves ==
  ASSUME TypeOK, NEW r \in Request, NEW ask \in world.asks, openFile(r, ask)
  PROVE  /\ \A q \in Request : Moves(q)
         /\ request[r].pc = "idle"
<1>. DEFINE img == IF ask.variant = "default" /\ Compressed \in world.stored THEN Compressed ELSE Original
            one == [Idle EXCEPT !.answer = "failed"]
            two == [Idle EXCEPT !.pc = "wait", !.img = img, !.hash = row[img].hash,
                           !.size = row[img].size, !.width = ParseParams(ask)]
<1>1. request[r].pc = "idle"  BY DEF openFile
<1>2. Becomes(r, request[r], one)  BY Idles DEF Becomes
<1>3. Becomes(r, request[r], two)
  <2>1. two.pc = "wait" /\ two.answer = "none" /\ two.img = img /\ two.hash = row[img].hash
    <3>. HIDE DEF img
    <3>. QED  BY DEF Idle
  <2>. HIDE DEF two, img
  <2>. QED  BY <1>1, <2>1 DEF Becomes
<1>4. Set(r, one) \/ Set(r, two)  BY DEF openFile
<1>. HIDE DEF one, two
<1>5. \A q \in Request : Moves(q)  BY <1>2, <1>3, <1>4, SetMoves
<1>. QED  BY <1>1, <1>5

\* the read of the source, or the original in its place,
LEMMA FetchMoves ==
  ASSUME TypeOK, NEW r \in Request, Fetch(r)
  PROVE  \A q \in Request : Moves(q)
<1>. DEFINE a == request[r]
            one == [a EXCEPT !.img = Original, !.hash = row[Original].hash,
                             !.size = row[Original].size, !.tried = TRUE]
            two == [a EXCEPT !.pc = "lookup", !.got = bytes[a.img]]
<1>1. a \in RequestRow /\ a.pc = "fetch"  BY DEF TypeOK, Fetch
<1>2. Becomes(r, a, one)  BY <1>1 DEF Becomes, RequestRow
<1>3. Becomes(r, a, two)  BY <1>1 DEF Becomes, RequestRow, CacheKey
<1>4. Fail(r) \/ Set(r, one) \/ Set(r, two)  BY DEF Fetch
<1>. HIDE DEF one, two
<1>. QED  BY <1>2, <1>3, <1>4, SetMoves, AnswerMoves DEF Fail

\* the place in the semaphore,
LEMMA AcquireMoves ==
  ASSUME TypeOK, NEW r \in Request, Acquire(r)
  PROVE  \A q \in Request : Moves(q)
<1>1. request[r] \in RequestRow /\ request[r].pc = "wait" /\ Set(r, [request[r] EXCEPT !.pc = "fetch"])
  BY DEF TypeOK, Acquire
<1>2. Becomes(r, request[r], [request[r] EXCEPT !.pc = "fetch"])
  BY <1>1 DEF Becomes, RequestRow, CacheKey
<1>. QED  BY <1>1, <1>2, SetMoves

\* a lookup on disk, the only one that may serve a part,
LEMMA DiskGetMoves ==
  ASSUME TypeOK, NEW r \in Request, DiskGet(r)
  PROVE  \A q \in Request : Moves(q)
<1>. DEFINE n == File(KeyOf(r))
<1>1. request[r].pc = "lookup"  BY DEF DiskGet
<1>2. CASE Miss(r)  BY <1>1, <1>2, MissMoves
<1>3. CASE n \in DOMAIN name /\ Answer(r, IF inode[name[n]].whole THEN "bytes" ELSE "part")
  <2>1. CASE inode[name[n]].whole
    BY <1>3, <2>1, AnswerMoves
  <2>2. CASE ~inode[name[n]].whole
    <3>1. Becomes(r, request[r], [Idle EXCEPT !.answer = "part"])
      BY <1>3, <2>2, Idles DEF Becomes
    <3>2. Set(r, [Idle EXCEPT !.answer = "part"])  BY <1>3, <2>2 DEF Answer
    <3>. QED  BY <3>1, <3>2, SetMoves
  <2>. QED  BY <2>1, <2>2
<1>. QED  BY <1>2, <1>3 DEF DiskGet

\* hence all of its work,
LEMMA WorkMoves ==
  ASSUME TypeOK, NEW r \in Request, Work(r) \/ Cancel(r)
  PROVE  \A q \in Request : Moves(q)
<1>1. CASE Cancel(r)  BY <1>1, AnswerMoves DEF Cancel, Fail
<1>2. CASE Fetch(r)  BY <1>2, FetchMoves
<1>3. CASE Render(r)
  BY <1>3, AnswerMoves, AdvanceMoves DEF Render, Fail, Advances
<1>4. CASE NoCache(r)  BY <1>4, MissMoves, AnswerMoves DEF NoCache
<1>5. CASE MemoryGet(r)
  <2>1. request[r].pc = "lookup" /\ (Miss(r) \/ Answer(r, "bytes"))  BY <1>5 DEF MemoryGet
  <2>. QED  BY <2>1, MissMoves, AnswerMoves
<1>6. CASE MemoryPut(r)  BY <1>6, AnswerMoves DEF MemoryPut
<1>7. CASE DiskGet(r)  BY <1>7, DiskGetMoves
<1>8. CASE DiskOpen(r)
  <2>1. PICK node : Set(r, [request[r] EXCEPT !.pc = "write", !.node = node])
    BY <1>8 DEF DiskOpen
  <2>2. <<request[r].pc, "write">> \in Advances  BY <1>8 DEF DiskOpen, Advances
  <2>. QED  BY <2>1, <2>2, NodeMoves
<1>9. CASE DiskWrite(r)
  <2>1. Set(r, [request[r] EXCEPT !.pc = "rename", !.node = None])  BY <1>9 DEF DiskWrite
  <2>2. <<request[r].pc, "rename">> \in Advances  BY <1>9 DEF DiskWrite, Advances
  <2>. QED  BY <2>1, <2>2, NodeMoves
<1>10. CASE DiskRename(r)  BY <1>10, AnswerMoves DEF DiskRename
<1>11. CASE BucketGet(r)
  <2>1. request[r].pc = "lookup" /\ (Miss(r) \/ Answer(r, "redirect"))  BY <1>11 DEF BucketGet
  <2>. QED  BY <2>1, MissMoves, AnswerMoves
<1>12. CASE BucketPut(r)  BY <1>12, AnswerMoves DEF BucketPut
<1>. QED  BY <1>1, <1>2, <1>3, <1>4, <1>5, <1>6, <1>7, <1>8, <1>9, <1>10, <1>11, <1>12 DEF Work

\* a restart, and what leaves requests alone:
LEMMA OtherMoves ==
  ASSUME TypeOK, UNCHANGED request \/ \E r \in Request : Die(r)
  PROVE  \A q \in Request : Moves(q)
<1>1. CASE UNCHANGED request  BY <1>1 DEF Moves, Becomes
<1>2. CASE \E r \in Request : Die(r)
  <2>1. \A q \in Request : request'[q] = Idle  BY <1>2 DEF Die
  <2>. QED  BY <2>1, Idles DEF Moves, Becomes
<1>. QED  BY <1>1, <1>2

\* every step does to every request what Becomes allows.
LEMMA AllMove ==
  ASSUME TypeOK, [Next]_vars
  PROVE  \A q \in Request : Moves(q)
<1>1. world.clients \subseteq Request  BY WorldsTyped DEF TypeOK, World
<1>2. ASSUME EditBytes \/ EditRow \/ RehashRead \/ RehashWrite \/ SweepWalk \/ SweepEvict \/ UNCHANGED vars
      PROVE  UNCHANGED request
  BY <1>2 DEF EditBytes, EditRow, RehashRead, RehashWrite, SweepWalk, SweepEvict, vars
<1>. QED  BY <1>1, <1>2, BeginMoves, AcquireMoves, WorkMoves, OtherMoves DEF Next

\* Nobody comes to write or to rename.
Calm == \A q \in Request : request'[q].pc \in {"write", "rename"} => request'[q] = request[q]

\* A request that goes elsewhere does not,
LEMMA SetCalm ==
  ASSUME TypeOK, NEW r \in Request, NEW new, Set(r, new), new.pc \notin {"write", "rename"}
  PROVE  Calm
BY SetRow DEF TypeOK, Calm

\* nor does one that is answered,
LEMMA AnswerCalm ==
  ASSUME TypeOK, NEW r \in Request, NEW a, Answer(r, a)
  PROVE  Calm
<1>1. [Idle EXCEPT !.answer = a].pc = "idle"  BY DEF Idle
<1>. QED  BY <1>1, SetCalm DEF Answer

\* or that goes on to another place,
LEMMA ToCalm ==
  ASSUME TypeOK, NEW r \in Request, NEW pc \in {"fetch", "render", "put"}, Set(r, [request[r] EXCEPT !.pc = pc])
  PROVE  Calm
<1>1. request[r] \in RequestRow  BY DEF TypeOK
<1>2. [request[r] EXCEPT !.pc = pc].pc = pc  BY <1>1 DEF RequestRow
<1>. QED  BY <1>2, SetCalm

\* so only opening and writing a file are not calm.
LEMMA WorkCalm ==
  ASSUME TypeOK, NEW r \in Request,
         \/ Acquire(r) \/ Cancel(r) \/ Fetch(r) \/ Render(r) \/ NoCache(r)
         \/ MemoryGet(r) \/ MemoryPut(r) \/ DiskGet(r) \/ DiskRename(r) \/ BucketGet(r) \/ BucketPut(r)
  PROVE  Calm
<1>. USE DEF Miss, Fail
<1>1. CASE Acquire(r)  BY <1>1, ToCalm DEF Acquire
<1>2. CASE Cancel(r)  BY <1>2, AnswerCalm DEF Cancel
<1>3. CASE Fetch(r)
  <2>. DEFINE a == request[r]
              one == [a EXCEPT !.img = Original, !.hash = row[Original].hash,
                               !.size = row[Original].size, !.tried = TRUE]
              two == [a EXCEPT !.pc = "lookup", !.got = bytes[a.img]]
  <2>1. a \in RequestRow /\ a.pc = "fetch"  BY <1>3 DEF TypeOK, Fetch
  <2>2. one.pc = "fetch" /\ two.pc = "lookup"  BY <2>1 DEF RequestRow
  <2>3. Answer(r, "failed") \/ Set(r, one) \/ Set(r, two)  BY <1>3 DEF Fetch
  <2>. HIDE DEF one, two
  <2>. QED  BY <2>2, <2>3, SetCalm, AnswerCalm
<1>4. CASE Render(r)  BY <1>4, ToCalm, AnswerCalm DEF Render
<1>5. CASE NoCache(r)  BY <1>5, ToCalm, AnswerCalm DEF NoCache
<1>6. CASE MemoryGet(r)
  <2>1. Miss(r) \/ Answer(r, "bytes")  BY <1>6 DEF MemoryGet
  <2>. QED  BY <2>1, ToCalm, AnswerCalm
<1>7. CASE MemoryPut(r)  BY <1>7, AnswerCalm DEF MemoryPut
<1>8. CASE DiskGet(r)
  <2>1. Miss(r) \/ \E a : Answer(r, a)  BY <1>8 DEF DiskGet
  <2>. QED  BY <2>1, ToCalm, AnswerCalm
<1>9. CASE DiskRename(r)  BY <1>9, AnswerCalm DEF DiskRename
<1>10. CASE BucketGet(r)
  <2>1. Miss(r) \/ Answer(r, "redirect")  BY <1>10 DEF BucketGet
  <2>. QED  BY <2>1, ToCalm, AnswerCalm
<1>11. CASE BucketPut(r)  BY <1>11, AnswerCalm DEF BucketPut
<1>. QED  BY <1>1, <1>2, <1>3, <1>4, <1>5, <1>6, <1>7, <1>8, <1>9, <1>10, <1>11

\* A new request waits first.
LEMMA BeginCalm ==
  ASSUME TypeOK, NEW r \in Request, NEW ask \in world.asks, openFile(r, ask)
  PROVE  Calm
<1>1. \A q \in Request : Becomes(q, request[q], request'[q]) /\ (q # r => request'[q] = request[q])
  BY BeginMoves, SetRow DEF Moves, openFile, TypeOK
<1>2. request[r].pc = "idle"  BY BeginMoves
<1>. QED  BY <1>1, <1>2 DEF Becomes, Calm, Advances

\* Names may go; what they name stays as it is.
Shrinks ==
  /\ DOMAIN name' \subseteq DOMAIN name /\ \A n \in DOMAIN name' : name'[n] = name[n]
  /\ inode' = inode

\* A file is renamed.
Renames(r) == DiskRename(r) /\ Tmp(KeyOf(r)) \in DOMAIN name

\* Opening, writing and renaming aside, names at most go, calmly.
LEMMA DiskCases ==
  ASSUME TypeOK, [Next]_vars
  PROVE  \/ Shrinks /\ Calm
         \/ \E r \in Request : DiskOpen(r) \/ DiskWrite(r) \/ Renames(r)
<1>1. world.clients \subseteq Request  BY WorldsTyped DEF TypeOK, World
<1>2. ASSUME UNCHANGED disk PROVE Shrinks
  BY <1>2 DEF disk, Shrinks
<1>3. ASSUME UNCHANGED request PROVE Calm
  BY <1>3 DEF Calm
<1>4. CASE EditBytes \/ EditRow \/ RehashRead \/ RehashWrite \/ UNCHANGED vars
  BY <1>2, <1>3, <1>4 DEF EditBytes, EditRow, RehashRead, RehashWrite, vars
<1>5. ASSUME NEW r \in Request, NEW ask \in world.asks, openFile(r, ask)
      PROVE  Shrinks /\ Calm
  BY <1>2, <1>5, BeginCalm DEF openFile
<1>6. ASSUME NEW r \in Request, \/ Acquire(r) \/ Cancel(r) \/ Fetch(r) \/ Render(r) \/ NoCache(r) \/ MemoryGet(r)
                                \/ MemoryPut(r) \/ BucketGet(r) \/ BucketPut(r)
      PROVE  Shrinks /\ Calm
  <2>1. UNCHANGED disk
    BY <1>6 DEF Acquire, Cancel, Fetch, Render, NoCache, MemoryGet, MemoryPut, BucketGet, BucketPut
  <2>. QED  BY <1>2, <1>6, <2>1, WorkCalm
<1>7. ASSUME NEW r \in Request, DiskGet(r) \/ DiskRename(r), ~Renames(r)
      PROVE  Shrinks /\ Calm
  <2>1. UNCHANGED <<name, inode>>  BY <1>7 DEF DiskGet, DiskRename, Renames
  <2>. QED  BY <1>7, <2>1, WorkCalm DEF Shrinks
<1>8. ASSUME NEW r \in Request, Die(r)
      PROVE  Shrinks /\ Calm
  <2>1. \A q \in Request : request'[q] = Idle  BY <1>8 DEF Die
  <2>. QED  BY <1>8, <2>1, Idles DEF Die, Shrinks, Calm
<1>9. CASE SweepWalk \/ SweepEvict
  <2>1. \E gone : Unlink(gone)  BY <1>9 DEF SweepWalk, SweepEvict
  <2>2. UNCHANGED <<inode, request>>  BY <1>9 DEF SweepWalk, SweepEvict
  <2>. QED  BY <1>3, <2>1, <2>2 DEF Unlink, Shrinks
<1>. QED  BY <1>1, <1>4, <1>5, <1>6, <1>7, <1>8, <1>9 DEF Next, Work

-----------------------------------------------------------------------------
(* The directory. *)

\* The file that is opened has no other name.
LEMMA OpenedApart ==
  ASSUME DiskOK, NamesApart, NEW r \in Request, DiskOpen(r)
  PROVE  \A n \in DOMAIN name : n # Tmp(KeyOf(r)) => name[n] # OpenedNode(r)
<1>1. CASE Tmp(KeyOf(r)) \in DOMAIN name
  BY <1>1 DEF NamesApart, OpenedNode
<1>2. CASE Tmp(KeyOf(r)) \notin DOMAIN name
  <2>1. OpenedNode(r) \notin InUse  BY <1>2, OpenedNodeIs
  <2>. QED  BY <2>1 DEF InUse
<1>. QED  BY <1>1, <1>2

\* No two names have one file, and a file that is being written has no name
\* but those of its key.
LEMMA NamesStep ==
  ASSUME TypeOK, NamesApart, [Next]_vars, Parts'
  PROVE  NamesApart'
<1>0. DiskOK /\ request \in [Request -> RequestRow]  BY PartsOf DEF Parts, TypeOK
<1>. DEFINE Separate == \A m, n \in DOMAIN name' : name'[m] = name'[n] => m = n
            Held == \A q \in Request, n \in DOMAIN name' :
                       request'[q].pc = "write" /\ name'[n] = request'[q].node
                         => n[2] = CacheKey(request'[q])
<1>1. CASE Shrinks /\ Calm
  <2>1. Separate  BY <1>1 DEF Shrinks, NamesApart
  <2>2. Held  BY <1>1 DEF Shrinks, Calm, NamesApart, KeyOf
  <2>. QED  BY <2>1, <2>2, TypesFrom DEF NamesApart, KeyOf
<1>2. ASSUME NEW r \in Request, DiskOpen(r)
      PROVE  Separate /\ Held
  <2>. DEFINE t == Tmp(KeyOf(r))
              node == OpenedNode(r)
  <2>1. /\ DOMAIN name' = DOMAIN name \cup {t} /\ name'[t] = node
        /\ \A n \in DOMAIN name : n # t => name'[n] = name[n]
        /\ Set(r, [request[r] EXCEPT !.pc = "write", !.node = node])
    BY <1>0, <1>2, OpenStep
  <2>2. \A n \in DOMAIN name : n # t => name[n] # node  BY <1>0, <1>2, OpenedApart
  <2>3. \A q \in Request : q # r => request'[q] = request[q]  BY <1>0, <2>1, SetRow
  <2>4. request'[r].node = node /\ CacheKey(request'[r]) = KeyOf(r)
    <3>1. request'[r] = [request[r] EXCEPT !.pc = "write", !.node = node]  BY <1>0, <2>1, SetRow
    <3>2. request[r] \in RequestRow  BY <1>0
    <3>. HIDE DEF node
    <3>. QED  BY <3>1, <3>2 DEF RequestRow, CacheKey, KeyOf
  <2>5. t[2] = KeyOf(r)  BY DEF Tmp
  <2>6. \A q \in Request : request[q].pc = "write" /\ node = request[q].node => KeyOf(q) = KeyOf(r)
    <3>1. CASE t \in DOMAIN name
      BY <2>5, <3>1 DEF NamesApart, OpenedNode
    <3>2. CASE t \notin DOMAIN name
      <4>1. node \notin InUse  BY <1>0, <1>2, <3>2, OpenedNodeIs
      <4>. QED  BY <4>1 DEF InUse
    <3>. QED  BY <3>1, <3>2
  <2>. HIDE DEF t, node
  <2>7. Separate  BY <2>1, <2>2 DEF NamesApart
  <2>8. ASSUME NEW q \in Request, NEW n \in DOMAIN name', request'[q].pc = "write", name'[n] = request'[q].node
        PROVE  n[2] = CacheKey(request'[q])
    <3>1. CASE q = r
      <4>1. n = t  BY <2>1, <2>2, <2>4, <2>8, <3>1
      <4>. QED  BY <2>4, <2>5, <3>1, <4>1
    <3>2. CASE q # r
      <4>1. request'[q] = request[q]  BY <2>3, <3>2
      <4>2. CASE n = t  BY <2>1, <2>5, <2>6, <2>8, <4>1, <4>2 DEF KeyOf
      <4>3. CASE n # t
        <5>1. n \in DOMAIN name /\ name[n] = request[q].node  BY <2>1, <2>8, <4>1, <4>3
        <5>. QED  BY <2>8, <4>1, <5>1 DEF NamesApart, KeyOf
      <4>. QED  BY <4>2, <4>3
    <3>. QED  BY <3>1, <3>2
  <2>. QED  BY <2>7, <2>8
<1>3. ASSUME NEW r \in Request, DiskWrite(r)
      PROVE  Separate /\ Held
  <2>1. name' = name /\ Set(r, [request[r] EXCEPT !.pc = "rename", !.node = None])
    BY <1>3 DEF DiskWrite
  <2>2. \A q \in Request : q # r => request'[q] = request[q]  BY <1>0, <2>1, SetRow
  <2>3. request'[r].pc = "rename"
    <3>1. request'[r] = [request[r] EXCEPT !.pc = "rename", !.node = None]  BY <1>0, <2>1, SetRow
    <3>. QED  BY <1>0, <3>1 DEF RequestRow
  <2>. QED  BY <2>1, <2>2, <2>3 DEF NamesApart, KeyOf
<1>4. ASSUME NEW r \in Request, Renames(r)
      PROVE  Separate /\ Held
  <2>. DEFINE t == Tmp(KeyOf(r))
              f == File(KeyOf(r))
  <2>1. /\ DOMAIN name' = (DOMAIN name \ {t}) \cup {f} /\ name'[f] = name[t] /\ t \in DOMAIN name
        /\ \A n \in DOMAIN name' : n # f => n # t /\ name'[n] = name[n]
    BY <1>0, <1>4, RenameStep DEF Renames
  <2>2. f[2] = t[2]  BY DEF File, Tmp
  <2>3. Calm  BY <1>4, WorkCalm DEF Renames
  <2>. HIDE DEF t, f
  <2>4. \A n \in DOMAIN name' :
          \E m \in DOMAIN name : name'[n] = name[m] /\ n[2] = m[2] /\ m = IF n = f THEN t ELSE n
    BY <2>1, <2>2
  <2>5. Separate
    <3>. SUFFICES ASSUME NEW m \in DOMAIN name', NEW n \in DOMAIN name', name'[m] = name'[n]
                  PROVE  m = n
      OBVIOUS
    <3>1. (m = f => name[t] = name'[m]) /\ (n = f => name[t] = name'[n])  BY <2>1
    <3>2. (m # f => m \in DOMAIN name /\ m # t /\ name[m] = name'[m])
          /\ (n # f => n \in DOMAIN name /\ n # t /\ name[n] = name'[n])
      BY <2>1
    <3>. QED  BY <2>1, <3>1, <3>2 DEF NamesApart
  <2>6. Held  BY <2>3, <2>4 DEF Calm, NamesApart, KeyOf
  <2>. QED  BY <2>5, <2>6
<1>5. ASSUME Separate, Held PROVE NamesApart'
  BY <1>5, TypesFrom DEF NamesApart, KeyOf
<1>. QED  BY <1>1, <1>2, <1>3, <1>4, <1>5, DiskCases

\* Where no two requests write one derivative at once, what has its final name
\* is whole, so no part is served.
LEMMA WholeStep ==
  ASSUME TypeOK, NamesApart, WholeWhenNamed, NoPartServed, [Next]_vars
  PROVE  WholeWhenNamed' /\ NoPartServed'
<1>0. DiskOK /\ request \in [Request -> RequestRow] /\ world' = world
  BY PartsOf, WorldSame DEF Parts, TypeOK
<1>1. SUFFICES ASSUME ~Is("twice")
               PROVE  WholeWhenNamed' /\ NoPartServed'
  BY <1>0 DEF WholeWhenNamed, NoPartServed, Is
<1>. DEFINE Busy(a) == a.pc \in {"write", "rename"}
            Single == \A q, r \in Request :
              Busy(request'[q]) /\ Busy(request'[r]) /\ CacheKey(request'[q]) = CacheKey(request'[r])
                => q = r
            Whole == \A n \in DOMAIN name' : n[1] = "file" => inode'[name'[n]].whole
            Written == \A q \in Request :
              Tmp(CacheKey(request'[q])) \in DOMAIN name' =>
                /\ request'[q].pc = "write" => name'[Tmp(CacheKey(request'[q]))] = request'[q].node
                /\ request'[q].pc = "rename" => inode'[name'[Tmp(CacheKey(request'[q]))]].whole
<1>2. \A q \in Request : Becomes(q, request[q], request'[q])  BY AllMove DEF Moves
<1>3. \A q, r \in Request : Busy(request[q]) /\ Busy(request[r]) /\ KeyOf(q) = KeyOf(r) => q = r
  <2>1. \A r \in Request : Busy(request[r]) => Writing(KeyOf(r)) = {r}
    BY <1>1 DEF WholeWhenNamed
  <2>. QED  BY <2>1 DEF Writing
<1>4. \A n \in DOMAIN name : n[1] = "file" => inode[name[n]].whole
  BY <1>1 DEF WholeWhenNamed
<1>5. \A r \in Request :
        Tmp(KeyOf(r)) \in DOMAIN name =>
          /\ request[r].pc = "write" => name[Tmp(KeyOf(r))] = request[r].node
          /\ request[r].pc = "rename" => inode[name[Tmp(KeyOf(r))]].whole
  BY <1>1 DEF WholeWhenNamed
<1>6. \A k, l : Tmp(k) = Tmp(l) => k = l  BY DEF Tmp
<1>7. Single /\ Whole /\ Written
  <2>1. CASE Shrinks /\ Calm
    <3>1. Single
      <4>1. SUFFICES ASSUME NEW q \in Request, NEW r \in Request, Busy(request'[q]), Busy(request'[r]),
                            CacheKey(request'[q]) = CacheKey(request'[r])
                     PROVE  q = r
        OBVIOUS
      <4>2. request'[q] = request[q] /\ request'[r] = request[r]  BY <2>1, <4>1 DEF Calm
      <4>. QED  BY <1>3, <4>1, <4>2 DEF KeyOf
    <3>. QED  BY <1>4, <1>5, <2>1, <3>1 DEF Shrinks, Calm, KeyOf
  <2>3. ASSUME NEW r \in Request, DiskOpen(r)
        PROVE  Single /\ Whole /\ Written
    <3>. DEFINE t == Tmp(KeyOf(r))
                node == OpenedNode(r)
                new == [request[r] EXCEPT !.pc = "write", !.node = node]
    <3>1. /\ DOMAIN name' = DOMAIN name \cup {t} /\ name'[t] = node
          /\ \A n \in DOMAIN name : n # t => name'[n] = name[n]
          /\ inode' = [inode EXCEPT ![node] = [of |-> request[r].got, whole |-> FALSE]]
          /\ Set(r, new) /\ request[r].pc = "put"
      BY <1>0, <2>3, OpenStep
    <3>2. \A n \in DOMAIN name : n # t => name[n] # node  BY <1>0, <2>3, OpenedApart
    <3>3. t[1] = "tmp"  BY DEF Tmp
    <3>4. request'[r] = new /\ \A q \in Request : q # r => request'[q] = request[q]
      BY <1>0, <3>1, SetRow
    <3>5. new.pc = "write" /\ new.node = node /\ CacheKey(new) = KeyOf(r)
      <4>1. request[r] \in RequestRow  BY <1>0
      <4>. HIDE DEF node
      <4>. QED  BY <4>1 DEF RequestRow, CacheKey, KeyOf
    <3>8. \A q \in Request : q # r /\ Busy(request[q]) => KeyOf(q) # KeyOf(r)
      BY <1>1, <2>3 DEF DiskOpen, Writing
    <3>9. \A q \in Request : q # r /\ Busy(request[q]) => Tmp(KeyOf(q)) # t  BY <1>6, <3>8
    <3>10. Tmp(CacheKey(new)) = t  BY <3>5
    <3>. HIDE DEF t, node, new
    <3>6. \A n \in DOMAIN name : n # t =>
            /\ name'[n] = name[n] /\ inode'[name'[n]] = inode[name[n]]
      BY <1>0, <3>1, <3>2 DEF DiskOK
    <3>7. Whole  BY <1>4, <3>1, <3>3, <3>6
    <3>11. Single
      <4>1. SUFFICES ASSUME NEW p \in Request, NEW q \in Request, Busy(request'[p]), Busy(request'[q]),
                            CacheKey(request'[p]) = CacheKey(request'[q])
                     PROVE  p = q
        OBVIOUS
      <4>2. CASE p = r
        <5>1. CASE q # r
          <6>1. request'[q] = request[q] /\ Busy(request[q])  BY <3>4, <4>1, <5>1
          <6>. QED  BY <3>4, <3>5, <3>8, <4>1, <4>2, <5>1, <6>1 DEF KeyOf
        <5>. QED  BY <4>2, <5>1
      <4>3. CASE p # r /\ q = r
        <5>1. request'[p] = request[p] /\ Busy(request[p])  BY <3>4, <4>1, <4>3
        <5>. QED  BY <3>4, <3>5, <3>8, <4>1, <4>3, <5>1 DEF KeyOf
      <4>4. CASE p # r /\ q # r
        <5>1. request'[p] = request[p] /\ request'[q] = request[q]  BY <3>4, <4>4
        <5>. QED  BY <1>3, <4>1, <5>1 DEF KeyOf
      <4>. QED  BY <4>2, <4>3, <4>4
    <3>12. ASSUME NEW q \in Request, Tmp(CacheKey(request'[q])) \in DOMAIN name', Busy(request'[q])
           PROVE  /\ request'[q].pc = "write" => name'[Tmp(CacheKey(request'[q]))] = request'[q].node
                  /\ request'[q].pc = "rename" => inode'[name'[Tmp(CacheKey(request'[q]))]].whole
      <4>1. CASE q = r  BY <3>1, <3>4, <3>5, <3>10, <4>1
      <4>2. CASE q # r
        <5>1. request'[q] = request[q] /\ Tmp(KeyOf(q)) # t /\ Tmp(KeyOf(q)) \in DOMAIN name
          BY <3>1, <3>4, <3>9, <3>12, <4>2 DEF KeyOf
        <5>. QED  BY <1>5, <3>6, <5>1 DEF KeyOf
      <4>. QED  BY <4>1, <4>2
    <3>. QED  BY <3>7, <3>11, <3>12
  <2>4. ASSUME NEW r \in Request, DiskWrite(r)
        PROVE  Single /\ Whole /\ Written
    <3>. DEFINE new == [request[r] EXCEPT !.pc = "rename", !.node = None]
    <3>1. /\ name' = name /\ Set(r, new) /\ request[r].pc = "write"
          /\ inode' = [inode EXCEPT ![request[r].node] = [of |-> request[r].got, whole |-> TRUE]]
      BY <2>4 DEF DiskWrite
    <3>2. request'[r] = new /\ \A q \in Request : q # r => request'[q] = request[q]
      BY <1>0, <3>1, SetRow
    <3>3. new.pc = "rename" /\ CacheKey(new) = KeyOf(r)
      <4>1. request[r] \in RequestRow  BY <1>0
      <4>. QED  BY <4>1 DEF RequestRow, CacheKey, KeyOf
    <3>. HIDE DEF new
    <3>4. \A n \in DOMAIN name : inode[name[n]].whole => inode'[name'[n]].whole
      BY <1>0, <3>1 DEF DiskOK
    <3>5. Whole  BY <1>4, <3>1, <3>4
    <3>6. Tmp(KeyOf(r)) \in DOMAIN name => inode'[name'[Tmp(KeyOf(r))]].whole
      BY <1>0, <1>5, <3>1 DEF DiskOK
    <3>7. Single
      <4>1. SUFFICES ASSUME NEW p \in Request, NEW q \in Request, Busy(request'[p]), Busy(request'[q]),
                            CacheKey(request'[p]) = CacheKey(request'[q])
                     PROVE  p = q
        OBVIOUS
      <4>2. \A z \in Request : CacheKey(request'[z]) = CacheKey(request[z])
        BY <3>2, <3>3 DEF KeyOf
      <4>3. \A z \in Request : Busy(request'[z]) => Busy(request[z])
        BY <3>1, <3>2
      <4>. QED  BY <1>3, <4>1, <4>2, <4>3 DEF KeyOf
    <3>8. Written
      <4>1. ASSUME NEW q \in Request, q # r, Tmp(CacheKey(request'[q])) \in DOMAIN name'
            PROVE  /\ request'[q].pc = "write" => name'[Tmp(CacheKey(request'[q]))] = request'[q].node
                   /\ request'[q].pc = "rename" => inode'[name'[Tmp(CacheKey(request'[q]))]].whole
        BY <1>5, <3>1, <3>2, <3>4, <4>1 DEF KeyOf
      <4>. QED  BY <3>1, <3>2, <3>3, <3>6, <4>1
    <3>. QED  BY <3>5, <3>7, <3>8
  <2>5. ASSUME NEW r \in Request, Renames(r)
        PROVE  Single /\ Whole /\ Written
    <3>. DEFINE t == Tmp(KeyOf(r))
                f == File(KeyOf(r))
    <3>1. /\ DOMAIN name' = (DOMAIN name \ {t}) \cup {f} /\ name'[f] = name[t] /\ t \in DOMAIN name
          /\ \A n \in DOMAIN name' : n # f => n # t /\ name'[n] = name[n]
      BY <1>0, <2>5, RenameStep DEF Renames
    <3>2. request[r].pc = "rename" /\ inode' = inode
      BY <2>5 DEF Renames, DiskRename
    <3>3. Calm  BY <2>5, WorkCalm DEF Renames
    <3>4. inode[name[t]].whole  BY <1>5, <3>1, <3>2
    <3>5. \A k : Tmp(k) # f  BY DEF Tmp, File
    <3>. HIDE DEF t, f
    <3>6. Whole  BY <1>4, <3>1, <3>2, <3>4
    <3>7. Single
      <4>1. SUFFICES ASSUME NEW q \in Request, NEW p \in Request, Busy(request'[q]), Busy(request'[p]),
                            CacheKey(request'[q]) = CacheKey(request'[p])
                     PROVE  q = p
        OBVIOUS
      <4>2. request'[q] = request[q] /\ request'[p] = request[p]  BY <3>3, <4>1 DEF Calm
      <4>. QED  BY <1>3, <4>1, <4>2 DEF KeyOf
    <3>8. ASSUME NEW q \in Request, Tmp(CacheKey(request'[q])) \in DOMAIN name', Busy(request'[q])
          PROVE  /\ request'[q].pc = "write" => name'[Tmp(CacheKey(request'[q]))] = request'[q].node
                 /\ request'[q].pc = "rename" => inode'[name'[Tmp(CacheKey(request'[q]))]].whole
      <4>1. request'[q] = request[q]  BY <3>3, <3>8 DEF Calm
      <4>2. /\ Tmp(KeyOf(q)) \in DOMAIN name /\ name'[Tmp(KeyOf(q))] = name[Tmp(KeyOf(q))]
        BY <3>1, <3>5, <3>8, <4>1 DEF KeyOf
      <4>. QED  BY <1>5, <3>2, <4>1, <4>2 DEF KeyOf
    <3>. QED  BY <3>6, <3>7, <3>8
  <2>. HIDE DEF Single, Whole, Written
  <2>. QED  BY <2>1, <2>3, <2>4, <2>5, DiskCases
<1>8. NoPartServed'
  <2>1. \A q \in Request : request'[q].answer = "part" => request[q].answer = "part"
    <3>1. \A q \in Request : File(KeyOf(q)) \in DOMAIN name => inode[name[File(KeyOf(q))]].whole
      BY <1>4 DEF File
    <3>. QED  BY <1>2, <3>1 DEF Becomes
  <2>. QED  BY <1>1, <2>1 DEF NoPartServed
<1>9. \A r \in Request : Busy(request'[r]) => Writing(KeyOf(r))' = {r}
  BY <1>7 DEF Writing, KeyOf
<1>. QED  BY <1>7, <1>8, <1>9 DEF WholeWhenNamed, KeyOf

-----------------------------------------------------------------------------
(* What is cached, and under which hash. *)

\* The keys in the caches, each with what is cached under it.
Stored ==
  {memory[i] : i \in DOMAIN memory} \cup bucket
    \cup {[key |-> n[2], of |-> inode[name[n]].of] : n \in DOMAIN name}

\* What a name of the directory has after a step, it had before, maybe under
\* the temporary name of the same key, or a request at work wrote it.
LEMMA NamedStep ==
  ASSUME TypeOK, NamesApart, [Next]_vars, NEW n \in DOMAIN name'
  PROVE  \/ \E m \in DOMAIN name : m[2] = n[2] /\ inode[name[m]].of = inode'[name'[n]].of
         \/ \E r \in Working : n[2] = KeyOf(r) /\ inode'[name'[n]].of = request[r].got
<1>0. DiskOK  BY PartsOf DEF Parts
<1>1. CASE Shrinks
  BY <1>1 DEF Shrinks
<1>2. ASSUME NEW r \in Request, DiskOpen(r)
      PROVE  \/ \E m \in DOMAIN name : m[2] = n[2] /\ inode[name[m]].of = inode'[name'[n]].of
             \/ n[2] = KeyOf(r) /\ inode'[name'[n]].of = request[r].got /\ r \in Working
  <2>. DEFINE t == Tmp(KeyOf(r))
              node == OpenedNode(r)
  <2>1. /\ DOMAIN name' = DOMAIN name \cup {t} /\ name'[t] = node
        /\ \A m \in DOMAIN name : m # t => name'[m] = name[m]
        /\ inode' = [inode EXCEPT ![node] = [of |-> request[r].got, whole |-> FALSE]]
        /\ request[r].pc = "put"
    BY <1>0, <1>2, OpenStep
  <2>2. node \in Inode  BY <1>0, <1>2, OpenedNodeIs
  <2>3. \A m \in DOMAIN name : m # t => name[m] # node  BY <1>0, <1>2, OpenedApart
  <2>4. t[2] = KeyOf(r) /\ r \in Working  BY <2>1 DEF Tmp, Working
  <2>. HIDE DEF t, node
  <2>5. CASE n = t
    <3>1. inode'[node].of = request[r].got  BY <1>0, <2>1, <2>2 DEF DiskOK
    <3>. QED  BY <2>1, <2>4, <2>5, <3>1
  <2>6. CASE n # t
    <3>1. n \in DOMAIN name /\ name'[n] = name[n] /\ name[n] # node  BY <2>1, <2>3, <2>6
    <3>2. inode'[name[n]] = inode[name[n]]  BY <1>0, <2>1, <3>1 DEF DiskOK
    <3>. QED  BY <3>1, <3>2
  <2>. QED  BY <2>5, <2>6
<1>3. ASSUME NEW r \in Request, DiskWrite(r)
      PROVE  \/ \E m \in DOMAIN name : m[2] = n[2] /\ inode[name[m]].of = inode'[name'[n]].of
             \/ n[2] = KeyOf(r) /\ inode'[name'[n]].of = request[r].got /\ r \in Working
  <2>. DEFINE node == request[r].node
  <2>1. /\ name' = name /\ request[r].pc = "write"
        /\ inode' = [inode EXCEPT ![node] = [of |-> request[r].got, whole |-> TRUE]]
    BY <1>3 DEF DiskWrite
  <2>2. name[n] \in Inode /\ inode \in [Inode -> [of : Version \cup {None}, whole : BOOLEAN]]
    BY <1>0, <2>1 DEF DiskOK
  <2>3. name[n] = node => n[2] = KeyOf(r)  BY <2>1 DEF NamesApart
  <2>4. r \in Working  BY <2>1 DEF Working
  <2>. HIDE DEF node
  <2>. QED  BY <2>1, <2>2, <2>3, <2>4
<1>4. ASSUME NEW r \in Request, Renames(r)
      PROVE  \E m \in DOMAIN name : m[2] = n[2] /\ inode[name[m]].of = inode'[name'[n]].of
  <2>. DEFINE t == Tmp(KeyOf(r))
              f == File(KeyOf(r))
  <2>1. /\ DOMAIN name' = (DOMAIN name \ {t}) \cup {f} /\ name'[f] = name[t] /\ t \in DOMAIN name
        /\ \A m \in DOMAIN name' : m # f => m # t /\ name'[m] = name[m]
    BY <1>0, <1>4, RenameStep DEF Renames
  <2>2. f[2] = t[2]  BY DEF File, Tmp
  <2>3. inode' = inode  BY <1>4 DEF Renames, DiskRename
  <2>. HIDE DEF t, f
  <2>. QED  BY <2>1, <2>2, <2>3
<1>. QED  BY <1>1, <1>2, <1>3, <1>4, DiskCases

\* What the memory cache has after a step, it had before, or a request at
\* work put it there.
LEMMA RememberedStep ==
  ASSUME TypeOK, BudgetKept, [Next]_vars, NEW i \in DOMAIN memory'
  PROVE  (\E j \in DOMAIN memory : memory'[i] = memory[j]) \/ \E r \in Working : memory'[i] = Cached(r)
<1>1. world.clients \subseteq Request  BY WorldsTyped DEF TypeOK, World
<1>2. CASE memory' = memory
  BY <1>2
<1>3. ASSUME NEW r \in Request, MemoryGet(r)
      PROVE  \E j \in DOMAIN memory : memory'[i] = memory[j]
  BY <1>3, MemoryGetStep DEF Among
<1>4. ASSUME NEW r \in Request, MemoryPut(r)
      PROVE  (\E j \in DOMAIN memory : memory'[i] = memory[j]) \/ (r \in Working /\ memory'[i] = Cached(r))
  <2>1. r \in Working  BY <1>4 DEF MemoryPut, Working
  <2>. QED  BY <1>4, <2>1, KeyTyped, MemoryPutStep
<1>5. ASSUME NEW r \in Request, Die(r)
      PROVE  FALSE
  BY <1>5 DEF Die
<1>6. ASSUME \/ EditBytes \/ EditRow \/ RehashRead \/ RehashWrite \/ SweepWalk \/ SweepEvict \/ UNCHANGED vars
             \/ \E r \in Request : \/ \E ask \in world.asks : openFile(r, ask)
                                   \/ Acquire(r) \/ Cancel(r) \/ Fetch(r) \/ Render(r) \/ NoCache(r)
                                   \/ DiskGet(r) \/ DiskOpen(r) \/ DiskWrite(r) \/ DiskRename(r)
                                   \/ BucketGet(r) \/ BucketPut(r)
      PROVE  memory' = memory
  BY <1>6 DEF EditBytes, EditRow, RehashRead, RehashWrite, SweepWalk, SweepEvict, vars, openFile, Acquire, Cancel,
     Fetch, Render, NoCache, DiskGet, DiskOpen, DiskWrite, DiskRename, BucketGet, BucketPut
<1>. QED  BY <1>1, <1>2, <1>3, <1>4, <1>5, <1>6 DEF Next, Work

\* And so it is of the bucket.
LEMMA BucketStep ==
  ASSUME TypeOK, [Next]_vars, NEW e \in bucket'
  PROVE  e \in bucket \/ \E r \in Working : e = Cached(r)
<1>1. world.clients \subseteq Request  BY WorldsTyped DEF TypeOK, World
<1>2. ASSUME NEW r \in Request, BucketPut(r)
      PROVE  e \in bucket \/ (r \in Working /\ e = Cached(r))
  BY <1>2 DEF BucketPut, Working, Cached
<1>3. ASSUME \/ EditBytes \/ EditRow \/ RehashRead \/ RehashWrite \/ SweepWalk \/ SweepEvict \/ UNCHANGED vars
             \/ \E r \in Request : \/ \E ask \in world.asks : openFile(r, ask)
                                   \/ Acquire(r) \/ Cancel(r) \/ Fetch(r) \/ Render(r) \/ NoCache(r)
                                   \/ MemoryGet(r) \/ MemoryPut(r) \/ Die(r)
                                   \/ DiskGet(r) \/ DiskOpen(r) \/ DiskWrite(r) \/ DiskRename(r) \/ BucketGet(r)
      PROVE  bucket' = bucket
  BY <1>3 DEF EditBytes, EditRow, RehashRead, RehashWrite, SweepWalk, SweepEvict, vars, openFile, Acquire, Cancel,
     Fetch, Render, NoCache, MemoryGet, MemoryPut, Die, DiskGet, DiskOpen, DiskWrite, DiskRename, BucketGet
<1>. QED  BY <1>1, <1>2, <1>3 DEF Next, Work

\* What is cached after a step was cached before, or is what a request at
\* work has read, under its key.
LEMMA StoredStep ==
  ASSUME TypeOK, BudgetKept, NamesApart, [Next]_vars, NEW e \in Stored'
  PROVE  e \in Stored \/ \E r \in Working : e = Cached(r)
<1>1. ASSUME NEW i \in DOMAIN memory', e = memory'[i]
      PROVE  e \in Stored \/ \E r \in Working : e = Cached(r)
  BY <1>1, RememberedStep DEF Stored
<1>2. ASSUME e \in bucket'
      PROVE  e \in Stored \/ \E r \in Working : e = Cached(r)
  BY <1>2, BucketStep DEF Stored
<1>3. ASSUME NEW n \in DOMAIN name', e = [key |-> n[2], of |-> inode'[name'[n]].of]
      PROVE  e \in Stored \/ \E r \in Working : e = Cached(r)
  <2>1. CASE \E m \in DOMAIN name : m[2] = n[2] /\ inode[name[m]].of = inode'[name'[n]].of
    BY <1>3, <2>1 DEF Stored
  <2>2. CASE \E r \in Working : n[2] = KeyOf(r) /\ inode'[name'[n]].of = request[r].got
    BY <1>3, <2>2 DEF Cached
  <2>. QED  BY <2>1, <2>2, NamedStep
<1>. QED  BY <1>1, <1>2, <1>3 DEF Stored

\* An edit aside, the bytes stay; the hash of the row stays or is the one of
\* the bytes that a rehash read, and a rehash reads the bytes as they are.
LEMMA SourceCases ==
  ASSUME TypeOK, [Next]_vars
  PROVE  \/ EditBytes
         \/ /\ bytes' = bytes /\ edit'.left = edit.left
            /\ \/ row'[Original].hash = row[Original].hash
               \/ rehash # None /\ row'[Original].hash = rehash
            /\ rehash' = rehash \/ rehash' = None \/ rehash' = bytes[Original]
<1>. DEFINE Rest == /\ bytes' = bytes /\ edit'.left = edit.left
                    /\ \/ row'[Original].hash = row[Original].hash
                       \/ rehash # None /\ row'[Original].hash = rehash
                    /\ rehash' = rehash \/ rehash' = None \/ rehash' = bytes[Original]
<1>1. Original \in Image /\ row[Original] \in [hash : Version, size : Nat]  BY DEF TypeOK, Image
<1>2. /\ row \in [Image -> [hash : Version, size : Nat]]
      /\ edit \in [left : SUBSET Version, count : 0 .. MaxEdits, pc : {"idle", "row"}, flagged : BOOLEAN]
  BY DEF TypeOK
<1>3. CASE EditRow  BY <1>1, <1>2, <1>3 DEF EditRow
<1>4. CASE RehashRead  BY <1>4 DEF RehashRead
<1>5. CASE RehashWrite  BY <1>1, <1>2, <1>5 DEF RehashWrite
<1>6. ASSUME UNCHANGED source PROVE Rest  BY <1>6 DEF source
<1>7. ASSUME \/ SweepWalk \/ SweepEvict \/ UNCHANGED vars
             \/ \E r \in world.clients : \/ \E ask \in world.asks : openFile(r, ask)
                                         \/ Acquire(r) \/ Cancel(r) \/ Work(r) \/ Die(r)
      PROVE  UNCHANGED source
  BY <1>7 DEF SweepWalk, SweepEvict, vars, openFile, Acquire, Cancel, Work, Fetch, Render, NoCache, MemoryGet,
     MemoryPut, Die, DiskGet, DiskOpen, DiskWrite, DiskRename, BucketGet, BucketPut
<1>. QED  BY <1>3, <1>4, <1>5, <1>6, <1>7 DEF Next

\* The keys of what is cached are used, and those of requests.
LEMMA KeysAre ==
  /\ \A e \in Stored : e.key \in KeysUsed
  /\ \A r \in Request : request[r].pc # "idle" => KeyOf(r) \in KeysUsed
<1>1. ASSUME NEW e \in Stored PROVE e.key \in KeysUsed
  <2>1. CASE \E i \in DOMAIN memory : e = memory[i]  BY <2>1 DEF KeysUsed
  <2>2. CASE e \in bucket  BY <2>2 DEF KeysUsed
  <2>3. CASE \E n \in DOMAIN name : e = [key |-> n[2], of |-> inode[name[n]].of]
    <3>1. \E n \in DOMAIN name : e.key = n[2]  BY <2>3
    <3>. QED  BY <3>1 DEF KeysUsed
  <2>. QED  BY <2>1, <2>2, <2>3 DEF Stored
<1>2. ASSUME NEW r \in Request, request[r].pc # "idle" PROVE KeyOf(r) \in KeysUsed
  BY <1>2 DEF KeysUsed
<1>. QED  BY <1>1, <1>2

\* A key that is used after a step was used before, or has the hash of the
\* row.
LEMMA KeysStep ==
  ASSUME TypeOK, BudgetKept, NamesApart, [Next]_vars, NEW k \in KeysUsed'
  PROVE  k \in KeysUsed \/ k[2] = row[k[1]].hash
<1>1. \A r \in Request : request[r].pc # "idle" => KeyOf(r) \in KeysUsed  BY KeysAre
<1>2. ASSUME NEW e \in Stored', k = e.key
      PROVE  k \in KeysUsed
  <2>1. CASE e \in Stored  BY <1>2, <2>1, KeysAre
  <2>2. CASE \E r \in Working : e = Cached(r)
    BY <1>1, <1>2, <2>2 DEF Cached, Working
  <2>. QED  BY <2>1, <2>2, StoredStep
<1>3. ASSUME NEW q \in Request, request'[q].pc # "idle", k = CacheKey(request'[q])
      PROVE  k \in KeysUsed \/ k[2] = row[k[1]].hash
  <2>1. Becomes(q, request[q], request'[q])  BY AllMove DEF Moves
  <2>2. \/ request[q].pc # "idle" /\ CacheKey(request'[q]) = CacheKey(request[q])
        \/ request'[q].hash = row[request'[q].img].hash
    BY <1>3, <2>1 DEF Becomes, Advances
  <2>. QED  BY <1>1, <1>3, <2>2 DEF KeyOf, CacheKey
<1>4. \/ \E e \in Stored' : k = e.key
      \/ \E q \in Request : request'[q].pc # "idle" /\ k = CacheKey(request'[q])
  <2>1. CASE k \in {memory'[i].key : i \in DOMAIN memory'}  BY <2>1 DEF Stored
  <2>2. CASE k \in {e.key : e \in bucket'}  BY <2>2 DEF Stored
  <2>3. CASE k \in {n[2] : n \in DOMAIN name'}
    <3>1. PICK n \in DOMAIN name' : k = n[2]  BY <2>3
    <3>2. [key |-> n[2], of |-> inode'[name'[n]].of] \in Stored'  BY DEF Stored
    <3>. QED  BY <3>1, <3>2
  <2>4. CASE k \in {CacheKey(request'[q]) : q \in {r \in Request : request'[r].pc # "idle"}}
    BY <2>4
  <2>. QED  BY <2>1, <2>2, <2>3, <2>4 DEF KeysUsed, KeyOf
<1>. QED  BY <1>2, <1>3, <1>4

\* What is still to be written has no hash anywhere: an edit takes what it
\* writes out of that, and a rehash finds the hash of what has been written.
LEMMA PastStep ==
  ASSUME TypeOK, BudgetKept, NamesApart, HashesPast, [Next]_vars
  PROVE  HashesPast'
<1>0. world' = world  BY WorldSame
<1>1. SUFFICES ASSUME ~Is("revert") PROVE HashesPast'
  BY <1>0 DEF HashesPast, Is
<1>2. /\ bytes[Original] \notin edit.left /\ row[Original].hash \notin edit.left
      /\ rehash # None => rehash \notin edit.left
      /\ \A k \in KeysUsed : k[1] = Original => k[2] \notin edit.left
  BY <1>1 DEF HashesPast
<1>3. \A k \in KeysUsed' : k[1] = Original => k[2] \notin edit.left
  BY <1>2, KeysStep
<1>4. CASE EditBytes
  <2>1. PICK v \in edit.left :
          /\ bytes' = [bytes EXCEPT ![Original] = v]
          /\ edit' = [edit EXCEPT !.pc = "row", !.count = @ + 1, !.left = @ \ {v}]
    BY <1>1, <1>4 DEF EditBytes
  <2>2. UNCHANGED <<row, rehash>>  BY <1>4 DEF EditBytes
  <2>3. bytes'[Original] = v /\ edit'.left = edit.left \ {v}  BY <2>1 DEF TypeOK, Image
  <2>. QED  BY <1>2, <1>3, <2>2, <2>3 DEF HashesPast
<1>5. CASE /\ bytes' = bytes /\ edit'.left = edit.left
           /\ \/ row'[Original].hash = row[Original].hash
              \/ rehash # None /\ row'[Original].hash = rehash
           /\ rehash' = rehash \/ rehash' = None \/ rehash' = bytes[Original]
  BY <1>2, <1>3, <1>5 DEF HashesPast
<1>. QED  BY <1>4, <1>5, SourceCases

\* What is cached, and what requests have read, under a key with the hash of
\* the bytes as they are stays to be of these bytes.
LEMMA MatchStep ==
  ASSUME TypeOK, BudgetKept, NamesApart, HashesPast, DerivativesMatch, ReadsMatch, [Next]_vars
  PROVE  DerivativesMatch' /\ ReadsMatch'
<1>0. world' = world  BY WorldSame
<1>1. SUFFICES ASSUME ~Is("revert") PROVE DerivativesMatch' /\ ReadsMatch'
  BY <1>0 DEF DerivativesMatch, ReadsMatch, Is
<1>2. \A e \in Stored : OfNow(e.key) => e.of = bytes[Original]
  BY <1>1 DEF DerivativesMatch, Stored
<1>3. \A r \in Working : OfNow(KeyOf(r)) => request[r].got = bytes[Original]
  BY <1>1 DEF ReadsMatch
<1>. DEFINE Now(k) == k[1] = Original /\ k[2] = bytes'[Original]
<1>4. ASSUME \A e \in Stored' : Now(e.key) => e.of = bytes'[Original]
      PROVE  DerivativesMatch'
  <2>1. \A i \in DOMAIN memory' : Now(memory'[i].key) => memory'[i].of = bytes'[Original]
    BY <1>4 DEF Stored
  <2>2. \A e \in bucket' : Now(e.key) => e.of = bytes'[Original]  BY <1>4 DEF Stored
  <2>3. ASSUME NEW n \in DOMAIN name', Now(n[2]) PROVE inode'[name'[n]].of = bytes'[Original]
    <3>1. [key |-> n[2], of |-> inode'[name'[n]].of] \in Stored'  BY DEF Stored
    <3>. QED  BY <1>4, <2>3, <3>1
  <2>. QED  BY <2>1, <2>2, <2>3 DEF DerivativesMatch, OfNow
<1>5. ASSUME \A q \in Request :
               /\ request'[q].pc \in {"lookup", "render", "put", "write", "rename"}
               /\ Now(CacheKey(request'[q]))
               => request'[q].got = bytes'[Original]
      PROVE  ReadsMatch'
  BY <1>5 DEF ReadsMatch, Working, OfNow, KeyOf
<1>6. CASE EditBytes
  <2>1. PICK v \in edit.left : bytes' = [bytes EXCEPT ![Original] = v]  BY <1>6 DEF EditBytes
  <2>2. bytes'[Original] \in edit.left  BY <2>1 DEF TypeOK, Image
  <2>3. UNCHANGED <<memory, disk, bucket, request>>  BY <1>6 DEF EditBytes
  <2>4. \A k \in KeysUsed : ~Now(k)  BY <1>1, <2>2 DEF HashesPast
  <2>5. Stored' = Stored  BY <2>3 DEF Stored, disk
  <2>6. \A e \in Stored' : ~Now(e.key)  BY <2>4, <2>5, KeysAre
  <2>7. \A q \in Request : request'[q].pc # "idle" => ~Now(CacheKey(request'[q]))
    BY <2>3, <2>4, KeysAre DEF KeyOf
  <2>. QED  BY <1>4, <1>5, <2>6, <2>7
<1>7. CASE bytes' = bytes
  <2>1. \A e \in Stored' : Now(e.key) => e.of = bytes'[Original]
    <3>. SUFFICES ASSUME NEW e \in Stored', OfNow(e.key) PROVE e.of = bytes[Original]
      BY <1>7 DEF OfNow
    <3>1. CASE e \in Stored  BY <1>2, <3>1
    <3>2. CASE \E r \in Working : e = Cached(r)  BY <1>3, <3>2 DEF Cached
    <3>. QED  BY <3>1, <3>2, StoredStep
  <2>2. ASSUME NEW q \in Request, request'[q].pc \in {"lookup", "render", "put", "write", "rename"},
               Now(CacheKey(request'[q]))
        PROVE  request'[q].got = bytes'[Original]
    <3>1. Becomes(q, request[q], request'[q])  BY AllMove DEF Moves
    <3>2. \/ /\ request[q].pc \in {"lookup", "render", "put", "write", "rename"}
             /\ CacheKey(request'[q]) = CacheKey(request[q]) /\ request'[q].got = request[q].got
          \/ request'[q].got = bytes[request'[q].img]
      BY <2>2, <3>1 DEF Becomes, Advances
    <3>3. CASE request'[q].got = bytes[request'[q].img]
      BY <1>7, <2>2, <3>3 DEF CacheKey
    <3>4. CASE /\ request[q].pc \in {"lookup", "render", "put", "write", "rename"}
               /\ CacheKey(request'[q]) = CacheKey(request[q]) /\ request'[q].got = request[q].got
      BY <1>3, <1>7, <2>2, <3>4 DEF Working, OfNow, KeyOf
    <3>. QED  BY <3>2, <3>3, <3>4
  <2>. QED  BY <1>4, <1>5, <2>1, <2>2
<1>. QED  BY <1>6, <1>7, SourceCases

-----------------------------------------------------------------------------
(* The inductive invariant. *)

\* Before the first request nothing is cached, nothing is being written, and
\* the versions still to come are others than the one that is there.
LEMMA InitIInv ==
  ASSUME Init
  PROVE  IInv
<1>1. world \in Worlds  BY DEF Init
<1>2. world \in World  BY <1>1, WorldsTyped
<1>3. PICK v \in Version :
        /\ bytes = [i \in Image |-> v]
        /\ row = [i \in Image |-> [hash |-> v, size |-> world.size[v]]]
        /\ edit = [left |-> IF Is("edits") THEN Version \ {v} ELSE {}, count |-> 0, pc |-> "idle",
                   flagged |-> FALSE]
  BY DEF Init
<1>4. /\ rehash = None /\ memory = <<>> /\ size = 0 /\ name = [n \in {} |-> None]
      /\ inode = [n \in Inode |-> [of |-> None, whole |-> TRUE]]
      /\ recency = <<>> /\ sweep = Swept /\ bucket = {}
      /\ request = [r \in Request |-> Idle] /\ asked = 0
  BY DEF Init
<1>5. Idle \in RequestRow /\ Idle.pc = "idle" /\ Idle.answer = "none"
  <2>1. Blank \in Version  BY <1>3 DEF Blank
  <2>. QED  BY <2>1 DEF Idle, RequestRow, Image, Width
<1>6. TypeOK
  <2>1. world.size[v] \in Nat  BY <1>2 DEF World
  <2>2. row \in [Image -> [hash : Version, size : Nat]] /\ bytes \in [Image -> Version]
    BY <1>3, <2>1
  <2>3. edit \in [left : SUBSET Version, count : 0 .. MaxEdits, pc : {"idle", "row"}, flagged : BOOLEAN]
    BY <1>3, BoundsTyped
  <2>4. DOMAIN name = {}  BY <1>4
  <2>5. memory \in Seq(Entry) /\ recency \in Seq(Name) /\ DOMAIN recency = {}
    BY <1>4, EmptySeq
  <2>6. sweep \in [on : BOOLEAN, todo : Seq([name : Name, length : Nat]), total : Int] /\ ~sweep.on
    BY <1>4, EmptySeq DEF Swept
  <2>7. request \in [Request -> RequestRow] /\ \A r \in Request : request[r].pc = "idle"
    BY <1>4, <1>5
  <2>8. asked \in 0 .. MaxAsks  BY <1>4, BoundsTyped
  <2>. QED  BY <1>1, <1>4, <2>2, <2>3, <2>4, <2>5, <2>6, <2>7, <2>8 DEF TypeOK, Working
<1>7. BudgetKept
  <2>1. Lengths(memory) = <<>>  BY <1>4 DEF Lengths
  <2>. QED  BY <1>4, <2>1, TotalEmpty, BoundsTyped DEF BudgetKept
<1>8. \A r \in Request : request[r].pc = "idle" /\ request[r].answer = "none"  BY <1>4, <1>5
<1>9. Bounded
  <2>1. Rendering = {}  BY <1>8 DEF Rendering
  <2>2. world.limit \in Nat  BY <1>2 DEF World
  <2>. QED  BY <2>1, <2>2, FS_EmptySet DEF Bounded
<1>10. DOMAIN name = {} /\ DOMAIN memory = {} /\ DOMAIN recency = {} /\ bucket = {}  BY <1>4
<1>11. NamesApart /\ WholeWhenNamed /\ NoPartServed
  BY <1>8, <1>10 DEF NamesApart, WholeWhenNamed, NoPartServed
<1>12. KeysUsed = {}  BY <1>8, <1>10 DEF KeysUsed
<1>13. HashesPast
  <2>1. bytes[Original] = v /\ row[Original].hash = v  BY <1>3 DEF Image
  <2>2. v \notin edit.left  BY <1>3
  <2>. QED  BY <1>4, <1>12, <2>1, <2>2 DEF HashesPast
<1>14. DerivativesMatch /\ ReadsMatch
  BY <1>8, <1>10 DEF DerivativesMatch, ReadsMatch, Working
<1>. QED  BY <1>6, <1>7, <1>9, <1>11, <1>13, <1>14 DEF IInv

\* The invariant holds throughout: types, the budget of the memory cache, the
\* places in the semaphore, the names of the directory, and what is cached
\* under which hash, in every world and for any number of requests.
THEOREM Invariance == Spec => []IInv
<1>1. Init => IInv  BY InitIInv
<1>2. IInv /\ [Next]_vars => IInv'
  <2>. SUFFICES ASSUME IInv, [Next]_vars PROVE IInv'
    OBVIOUS
  <2>1. Parts' /\ BudgetKept'  BY TypeStep DEF IInv
  <2>2. TypeOK'  BY <2>1, TypesFrom
  <2>3. Bounded' /\ NamesApart'  BY <2>1, BoundedStep, NamesStep DEF IInv
  <2>4. WholeWhenNamed' /\ NoPartServed'  BY WholeStep DEF IInv
  <2>5. HashesPast' /\ DerivativesMatch' /\ ReadsMatch'  BY PastStep, MatchStep DEF IInv
  <2>. QED  BY <2>1, <2>2, <2>3, <2>4, <2>5 DEF IInv
<1>. QED  BY <1>1, <1>2, PTL DEF Spec

\* Nobody is served a part of a derivative, while another request writes it
\* or after a crash in the write, however many requests run and whatever the
\* sweep removes, as long as no two write one derivative at once
\* (media/cache.go:155).
THEOREM PartsUnserved == Spec => []NoPartServed
<1>1. IInv => NoPartServed  BY DEF IInv
<1>. QED  BY <1>1, Invariance, PTL

\* Whatever is cached under a key with the hash of the bytes as they are is a
\* derivative of them, although a request takes the hash before it reads the
\* bytes, and edits and rehashes come in between, as long as the image is not
\* edited back to what it was (media/render.go's cache key).
THEOREM CachedIsCurrent == Spec => []DerivativesMatch
<1>1. IInv => DerivativesMatch  BY DEF IInv
<1>. QED  BY <1>1, Invariance, PTL
===============================================================================
