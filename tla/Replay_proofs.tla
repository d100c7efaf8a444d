----------------------------- MODULE Replay_proofs -----------------------------
(***************************************************************************)
(* What TLAPS proves of a replay, for any items, any horizon, any clock    *)
(* and any bound on the backlog and the budget: the three passes of the    *)
(* code leave the positions that the plan position by position names, the  *)
(* newest of them, and one turn for each chat.                             *)
(***************************************************************************)
EXTENDS Replay, SequenceTheorems, FiniteSetTheorems, WellFoundedInduction, TLAPS

-------------------------------------------------------------------------------
(***************************************************************************)
(* Sets of numbers                                                         *)
(***************************************************************************)

\* Induction over the numbers up to n: a set that has 0 and, with a number below
\* n, the next one, has them all.
LEMMA UpTo ==
    ASSUME NEW n \in Nat, NEW G, 0 \in G, \A k \in 0..(n - 1) : k \in G => k + 1 \in G
    PROVE  0..n \subseteq G
  <1> DEFINE T == (0..n) \ G
  <1> SUFFICES ASSUME T # {} PROVE FALSE
    OBVIOUS
  <1> HIDE DEF T
  <1>0. T \subseteq Nat
    BY DEF T
  <1>1. PICK k \in T : \A j \in T : <<j, k>> \notin OpToRel(<, Nat)
    BY <1>0, NatLessThanWellFounded, WFMin
  <1>2. \A j \in T : ~(j < k)
    BY <1>0, <1>1 DEF OpToRel
  <1>3. k \in 1..n /\ k \notin G
    BY DEF T
  <1>4. k - 1 \in T
    BY <1>3 DEF T
  <1> QED BY <1>2, <1>3, <1>4

\* A set of numbers up to n that is not empty has a greatest one.
LEMMA Greatest ==
    ASSUME NEW n \in Nat, NEW T \in SUBSET (1..n), T # {}
    PROVE  \E m \in T : \A j \in T : j <= m
  <1> DEFINE D == {n - j : j \in T}
  <1>1. D \subseteq Nat
    OBVIOUS
  <1>6. PICK t \in T : TRUE
    OBVIOUS
  <1>7. n - t \in D
    OBVIOUS
  <1> HIDE DEF D
  <1>2. PICK k \in D : \A d \in D : <<d, k>> \notin OpToRel(<, Nat)
    BY <1>1, <1>7, NatLessThanWellFounded, WFMin
  <1>3. \A d \in D : ~(d < k)
    BY <1>1, <1>2 DEF OpToRel
  <1>4. PICK m \in T : k = n - m
    BY DEF D
  <1>5. ASSUME NEW j \in T PROVE j <= m
    <2>1. n - j \in D
      BY DEF D
    <2>2. ~(n - j < n - m)
      BY <1>3, <1>4, <2>1
    <2> QED BY <2>2
  <1> QED BY <1>5

\* What the numbering g gives the places from a to b.
Image(g, a, b) == {g[i] : i \in a..b}

\* The places from a to b are b - a + 1, and so are their images under a
\* numbering without repetition.
LEMMA CardinalityOfImage ==
    ASSUME NEW n \in Nat, NEW g, \A i, j \in 1..n : g[i] = g[j] => i = j,
           NEW a \in 1..n + 1, NEW b \in 0..n, a <= b + 1
    PROVE  Cardinality(Image(g, a, b)) = b - a + 1
  <1> DEFINE f == [i \in a..b |-> g[i]]
             T == {g[i] : i \in a..b}
  <1>1. IsFiniteSet(a..b) /\ Cardinality(a..b) = b - a + 1
    <2>1. a \in Int /\ b \in Int
      OBVIOUS
    <2>2. IsFiniteSet(a..b) /\ Cardinality(a..b) = IF a > b THEN 0 ELSE b - a + 1
      BY <2>1, FS_Interval
    <2>3. a > b => b - a + 1 = 0
      OBVIOUS
    <2> QED BY <2>2, <2>3
  <1>2. ExistsBijection(a..b, T)
    <2>1. f \in [a..b -> T] /\ \A t \in T : \E i \in a..b : f[i] = t
      OBVIOUS
    <2>2. \A i, j \in a..b : f[i] = f[j] => i = j
      OBVIOUS
    <2> HIDE DEF f, T
    <2> QED BY <2>1, <2>2 DEF ExistsBijection, Bijection, Injection, Surjection, IsInjective
  <1> HIDE DEF f, T
  <1>3. IsFiniteSet(T) /\ Cardinality(T) = Cardinality(a..b)
    BY <1>1, <1>2, FS_Bijection
  <1> QED BY <1>1, <1>3 DEF T, Image

-------------------------------------------------------------------------------
(***************************************************************************)
(* The positions behind a sequence of items                                *)
(***************************************************************************)

\* g numbers the positions P of the backlog b in their order, and the items of s
\* are those at these positions.
Picks(g, s, b, P) ==
    /\ g \in [1..Len(s) -> P]
    /\ \A i, j \in 1..Len(s) : i < j => g[i] < g[j]
    /\ \A k \in P : \E i \in 1..Len(s) : g[i] = k
    /\ \A i \in 1..Len(s) : s[i] = b[g[i]]

\* The fresh positions of a backlog.
FreshAt(b, time) == {k \in DOMAIN b : Fresh(b[k], Horizon, time)}

\* The fresh ones are collected position by position.
LEMMA FreshOnesDef ==
    ASSUME NEW b, NEW time, Len(b) \in Nat
    PROVE  \E f : /\ f = [m \in 0..Len(b) |->
                            IF m = 0 THEN <<>>
                            ELSE IF Fresh(b[m], Horizon, time)
                                 THEN Append(f[m - 1], b[m]) ELSE f[m - 1]]
                  /\ FreshOnes(b, Horizon, time) = f[Len(b)]
  <1> DEFINE n == Len(b)
             Step(s, k) == IF Fresh(b[k], Horizon, time) THEN Append(s, b[k]) ELSE s
             F(f, m) == [k \in 0..m |->
                           IF k = 0 THEN <<>>
                           ELSE IF Fresh(b[k], Horizon, time)
                                THEN Append(f[k - 1], b[k]) ELSE f[k - 1]]
             G == {m \in 0..n : \E f : f = F(f, m)}
  <1>1. 0 \in G
    <2> DEFINE h == [k \in 0..0 |-> <<>>]
    <2>1. \A k \in 0..0 : h[k] = IF k = 0 THEN <<>> ELSE Step(h[k - 1], k)
      OBVIOUS
    <2>2. h = [k \in 0..0 |-> h[k]]
      OBVIOUS
    <2> HIDE DEF h
    <2>3. h = F(h, 0)
      BY <2>1, <2>2
    <2> QED BY <2>3
  <1>2. ASSUME NEW m \in 0..(n - 1), m \in G PROVE m + 1 \in G
    <2>1. PICK g : g = F(g, m)
      BY <1>2
    <2> DEFINE h == [k \in 0..(m + 1) |-> IF k = m + 1 THEN Step(g[m], m + 1) ELSE g[k]]
    <2>2. ASSUME NEW k \in 0..(m + 1)
          PROVE  h[k] = IF k = 0 THEN <<>> ELSE Step(h[k - 1], k)
      <3>1. CASE k = m + 1
        <4>1. h[k - 1] = g[m] /\ k # 0
          BY <3>1
        <4> QED BY <3>1, <4>1
      <3>2. CASE k \in 0..m
        <4>1. h[k] = g[k] /\ (k # 0 => h[k - 1] = g[k - 1])
          BY <3>2
        <4>2. g[k] = IF k = 0 THEN <<>> ELSE Step(g[k - 1], k)
          BY <2>1, <3>2
        <4> QED BY <4>1, <4>2
      <3> QED BY <3>1, <3>2
    <2>3. h = F(h, m + 1)
      <3>1. h = [k \in 0..(m + 1) |-> h[k]]
        OBVIOUS
      <3> HIDE DEF h
      <3> QED BY <2>2, <3>1
    <2> HIDE DEF h
    <2>4. \E f : f = F(f, m + 1)
      BY <2>3
    <2> QED BY <2>4
  <1>3. n \in G
    <2> HIDE DEF G
    <2>1. 0..n \subseteq G
      BY <1>1, <1>2, UpTo
    <2> QED BY <2>1
  <1>4. PICK f : f = F(f, n)
    BY <1>3
  <1>5. (CHOOSE g : g = F(g, n)) = F((CHOOSE g : g = F(g, n)), n)
    BY <1>4
  <1>6. FreshOnes(b, Horizon, time) = (CHOOSE g : g = F(g, n))[n]
    BY DEF FreshOnes
  <1> QED BY <1>5, <1>6

\* The fresh ones are the items at the fresh positions, in their order.
LEMMA FreshOnesPicks ==
    ASSUME NEW S, NEW b \in Seq(S), NEW time
    PROVE  /\ FreshOnes(b, Horizon, time) \in Seq(S)
           /\ \E g : Picks(g, FreshOnes(b, Horizon, time), b, FreshAt(b, time))
  <1> DEFINE n == Len(b)
  <1>0. n \in Nat /\ DOMAIN b = 1..n /\ \A k \in 1..n : b[k] \in S
    OBVIOUS
  <1> HIDE DEF n
  <1>1. PICK f : /\ f = [m \in 0..n |->
                            IF m = 0 THEN <<>>
                            ELSE IF Fresh(b[m], Horizon, time)
                                 THEN Append(f[m - 1], b[m]) ELSE f[m - 1]]
                 /\ FreshOnes(b, Horizon, time) = f[n]
    BY <1>0, FreshOnesDef DEF n
  <1>7. /\ f[0] = <<>>
        /\ \A m \in 1..n : f[m] = IF Fresh(b[m], Horizon, time)
                                THEN Append(f[m - 1], b[m]) ELSE f[m - 1]
    <2> DEFINE Step(m) == IF Fresh(b[m], Horizon, time)
                          THEN Append(f[m - 1], b[m]) ELSE f[m - 1]
    <2>1. f = [m \in 0..n |-> IF m = 0 THEN <<>> ELSE Step(m)]
      BY <1>1
    <2> HIDE DEF Step
    <2>2. f[0] = <<>> /\ \A m \in 1..n : f[m] = Step(m)
      BY <1>0, <2>1
    <2> QED BY <2>2 DEF Step
  <1> DEFINE at(k) == {i \in 1..k : Fresh(b[i], Horizon, time)}
             G == {k \in 0..n : f[k] \in Seq(S) /\ \E g : Picks(g, f[k], b, at(k))}
  <1>2. 0 \in G
    <2> DEFINE g == [i \in 1..0 |-> 0]
    <2>1. f[0] = <<>> /\ at(0) = {} /\ 0 \in 0..n
      BY <1>0, <1>7
    <2>2. g \in [1..0 -> {}]
      OBVIOUS
    <2>3. <<>> \in Seq(S) /\ Len(<<>>) = 0
      OBVIOUS
    <2> HIDE DEF g, at
    <2>4. Picks(g, <<>>, b, {})
      BY <2>2, <2>3 DEF Picks
    <2>5. \E x : Picks(x, f[0], b, at(0))
      BY <2>1, <2>4
    <2> QED BY <2>1, <2>3, <2>5
  <1>3. ASSUME NEW k \in 0..(n - 1), k \in G PROVE k + 1 \in G
    <2> DEFINE s == f[k]
               v == f[k + 1]
               x == b[k + 1]
    <2>1. s \in Seq(S) /\ \E g : Picks(g, s, b, at(k))
      BY <1>3
    <2>2. k + 1 \in 0..n /\ k + 1 \in 1..n /\ k \in 0..n /\ x \in S
      BY <1>0
    <2>3. v = IF Fresh(x, Horizon, time) THEN Append(s, x) ELSE s
      <3>1. k + 1 - 1 = k
        BY <1>0
      <3>2. f[k + 1] = IF Fresh(b[k + 1], Horizon, time)
                       THEN Append(f[k + 1 - 1], b[k + 1]) ELSE f[k + 1 - 1]
        BY <1>7, <2>2
      <3> QED BY <3>1, <3>2
    <2>4. PICK g : Picks(g, s, b, at(k))
      BY <2>1
    <2>5. CASE Fresh(x, Horizon, time)
      <3>1. at(k + 1) = at(k) \union {k + 1}
        BY <1>0, <2>5
      <3>2. \A i \in at(k) : i \in Nat /\ i < k + 1
        BY <1>0
      <3> DEFINE m == Len(s)
      <3>3. /\ v = Append(s, x) /\ v \in Seq(S) /\ m \in Nat /\ Len(v) = m + 1
            /\ v[m + 1] = x /\ \A i \in 1..m : v[i] = s[i]
        BY <2>1, <2>2, <2>3, <2>5
      <3>4. /\ g \in [1..m -> at(k)]
            /\ \A i, j \in 1..m : i < j => g[i] < g[j]
            /\ \A p \in at(k) : \E i \in 1..m : g[i] = p
            /\ \A i \in 1..m : s[i] = b[g[i]]
        BY <2>4 DEF Picks
      <3> DEFINE h == [i \in 1..(m + 1) |-> IF i = m + 1 THEN k + 1 ELSE g[i]]
      <3> HIDE DEF m, at, s, v
      <3>5. h[m + 1] = k + 1 /\ \A i \in 1..m : h[i] = g[i]
        BY <3>3
      <3>6. h \in [1..(m + 1) -> at(k + 1)]
        BY <3>1, <3>3, <3>4
      <3> HIDE DEF h, x
      <3>7. ASSUME NEW i \in 1..(m + 1), NEW j \in 1..(m + 1), i < j PROVE h[i] < h[j]
        <4>1. i \in 1..m
          BY <3>3, <3>7
        <4>2. CASE j = m + 1
          BY <3>2, <3>4, <3>5, <4>1, <4>2
        <4>3. CASE j \in 1..m
          BY <3>4, <3>5, <3>7, <4>1, <4>3
        <4> QED BY <3>3, <4>2, <4>3
      <3>8. ASSUME NEW p \in at(k + 1) PROVE \E i \in 1..(m + 1) : h[i] = p
        <4>1. CASE p = k + 1
          BY <3>3, <3>5, <4>1
        <4>2. CASE p \in at(k)
          <5>1. PICK i \in 1..m : g[i] = p
            BY <3>4, <4>2
          <5>2. i \in 1..(m + 1)
            BY <3>3
          <5> QED BY <3>5, <5>1, <5>2
        <4> QED BY <3>1, <4>1, <4>2
      <3>9. ASSUME NEW i \in 1..(m + 1) PROVE v[i] = b[h[i]]
        <4>1. CASE i = m + 1
          BY <3>3, <3>5, <4>1 DEF x
        <4>2. CASE i \in 1..m
          BY <3>3, <3>4, <3>5, <4>2
        <4> QED BY <3>3, <4>1, <4>2
      <3>10. Picks(h, v, b, at(k + 1))
        BY <3>3, <3>6, <3>7, <3>8, <3>9 DEF Picks
      <3>11. v \in Seq(S) /\ \E y : Picks(y, v, b, at(k + 1))
        BY <3>3, <3>10
      <3> QED BY <2>2, <3>11 DEF v
    <2>6. CASE ~Fresh(x, Horizon, time)
      <3>1. at(k + 1) = at(k)
        BY <1>0, <2>6
      <3>2. v = s
        BY <2>3, <2>6
      <3> HIDE DEF at, s, v
      <3>3. v \in Seq(S) /\ \E y : Picks(y, v, b, at(k + 1))
        BY <2>1, <3>1, <3>2
      <3> QED BY <2>2, <3>3 DEF v
    <2> QED BY <2>5, <2>6
  <1>4. n \in G
    <2> HIDE DEF G
    <2>1. 0..n \subseteq G
      BY <1>0, <1>2, <1>3, UpTo
    <2> QED BY <1>0, <2>1
  <1>5. at(n) = FreshAt(b, time)
    BY <1>0 DEF FreshAt
  <1> HIDE DEF at
  <1>6. f[n] \in Seq(S) /\ \E g : Picks(g, f[n], b, at(n))
    BY <1>4
  <1> QED BY <1>1, <1>5, <1>6

\* The positions of P before k, and those after it.
Before(P, k) == {j \in P : j < k}
After(P, k) == {j \in P : j > k}

\* A numbering without repetition counts what it numbers: so many positions in
\* all, i - 1 before the i-th, and the rest after it.
LEMMA PicksCount ==
    ASSUME NEW S, NEW s \in Seq(S), NEW g, NEW b, NEW P \in SUBSET Nat, Picks(g, s, b, P)
    PROVE  /\ Cardinality(P) = Len(s)
           /\ \A i \in 1..Len(s) : /\ Cardinality(Before(P, g[i])) = i - 1
                                   /\ Cardinality(After(P, g[i])) = Len(s) - i
  <1> DEFINE n == Len(s)
  <1>1. n \in Nat
    OBVIOUS
  <1>2. /\ g \in [1..n -> P]
        /\ \A i, j \in 1..n : i < j => g[i] < g[j]
        /\ \A k \in P : \E i \in 1..n : g[i] = k
    BY DEF Picks
  <1> HIDE DEF n
  <1>6. \A i \in 1..n : g[i] \in Nat
    BY <1>2
  <1>3. \A i, j \in 1..n : g[i] = g[j] => i = j
    <2> SUFFICES ASSUME NEW i \in 1..n, NEW j \in 1..n, g[i] = g[j], i # j PROVE FALSE
      OBVIOUS
    <2>1. i < j \/ j < i
      OBVIOUS
    <2> QED BY <1>2, <1>6, <2>1
  <1>7. \A x \in 1..(n + 1), y \in 0..n :
            x <= y + 1 => Cardinality(Image(g, x, y)) = y - x + 1
    <2> SUFFICES ASSUME NEW x \in 1..(n + 1), NEW y \in 0..n, x <= y + 1
                 PROVE  Cardinality(Image(g, x, y)) = y - x + 1
      OBVIOUS
    <2> QED BY <1>1, <1>3, CardinalityOfImage
  <1>4. Cardinality(P) = n
    <2>1. P = Image(g, 1, n)
      BY <1>2 DEF Image
    <2>2. Cardinality(Image(g, 1, n)) = n - 1 + 1
      <3>1. 1 \in 1..n + 1 /\ n \in 0..n /\ 1 <= n + 1
        BY <1>1
      <3> QED BY <1>7, <3>1
    <2> QED BY <1>1, <2>1, <2>2
  <1>5. ASSUME NEW i \in 1..n
        PROVE  /\ Cardinality(Before(P, g[i])) = i - 1
               /\ Cardinality(After(P, g[i])) = n - i
    <2>1. \A j \in 1..n : (g[j] < g[i] <=> j < i) /\ (g[j] > g[i] <=> j > i)
      <3> SUFFICES ASSUME NEW j \in 1..n
                   PROVE  (g[j] < g[i] <=> j < i) /\ (g[j] > g[i] <=> j > i)
        OBVIOUS
      <3>1. i < j \/ j < i \/ i = j
        OBVIOUS
      <3> QED BY <1>2, <1>6, <3>1
    <2>2. Before(P, g[i]) = Image(g, 1, i - 1)
      <3>1. ASSUME NEW k \in P, k < g[i] PROVE \E j \in 1..(i - 1) : k = g[j]
        <4>1. PICK j \in 1..n : g[j] = k
          BY <1>2
        <4>2. j \in 1..(i - 1)
          BY <1>1, <2>1, <3>1, <4>1
        <4> QED BY <4>1, <4>2
      <3>2. ASSUME NEW j \in 1..(i - 1) PROVE g[j] \in P /\ g[j] < g[i]
        BY <1>1, <1>2, <2>1
      <3> QED BY <3>1, <3>2 DEF Image, Before
    <2>3. After(P, g[i]) = Image(g, i + 1, n)
      <3>1. ASSUME NEW k \in P, k > g[i] PROVE \E j \in (i + 1)..n : k = g[j]
        <4>1. PICK j \in 1..n : g[j] = k
          BY <1>2
        <4>2. j \in (i + 1)..n
          BY <1>1, <2>1, <3>1, <4>1
        <4> QED BY <4>1, <4>2
      <3>2. ASSUME NEW j \in (i + 1)..n PROVE g[j] \in P /\ g[j] > g[i]
        BY <1>1, <1>2, <2>1
      <3> QED BY <3>1, <3>2 DEF Image, After
    <2>4. Cardinality(Image(g, 1, i - 1)) = (i - 1) - 1 + 1
      <3>1. 1 \in 1..n + 1 /\ i - 1 \in 0..n /\ 1 <= (i - 1) + 1
        BY <1>1
      <3> QED BY <1>7, <3>1
    <2>5. Cardinality(Image(g, i + 1, n)) = n - (i + 1) + 1
      <3>1. i + 1 \in 1..n + 1 /\ n \in 0..n /\ i + 1 <= n + 1
        BY <1>1
      <3> QED BY <1>7, <3>1
    <2>6. (i - 1) - 1 + 1 = i - 1 /\ n - (i + 1) + 1 = n - i
      BY <1>1
    <2> QED BY <2>2, <2>3, <2>4, <2>5, <2>6
  <1> QED BY <1>4, <1>5 DEF n

\* What the drain leaves are the items at the positions that have fewer than
\* `left' others after them: all when they fit, and always the last one.
LEMMA DrainPicks ==
    ASSUME NEW S, NEW s \in Seq(S), NEW g, NEW b, NEW P \in SUBSET Nat, Picks(g, s, b, P),
           NEW left \in Nat
    PROVE  /\ Drain(s, left) \in Seq(S)
           /\ Len(Drain(s, left)) <= left
           /\ Len(Drain(s, left)) < left => Len(Drain(s, left)) = Cardinality(P)
           /\ \E h : /\ Picks(h, Drain(s, left), b,
                              {k \in P : Cardinality(After(P, k)) < left})
                     /\ Len(Drain(s, left)) > 0 =>
                            \A k \in P : k <= h[Len(Drain(s, left))]
  <1> DEFINE n == Len(s)
             cut == IF n > left THEN n - left ELSE 0
             v == Drain(s, left)
             Q == {k \in P : Cardinality(After(P, k)) < left}
             h == [i \in 1..(n - cut) |-> g[cut + i]]
  <1>1. n \in Nat /\ \A i \in 1..n : s[i] \in S
    OBVIOUS
  <1>2. /\ g \in [1..n -> P]
        /\ \A i, j \in 1..n : i < j => g[i] < g[j]
        /\ \A k \in P : \E i \in 1..n : g[i] = k
        /\ \A i \in 1..n : s[i] = b[g[i]]
    BY DEF Picks
  <1>3. Cardinality(P) = n /\ \A i \in 1..n : Cardinality(After(P, g[i])) = n - i
    <2> HIDE DEF h, cut, v, Q
    <2> QED BY PicksCount
  <1>4. v = SubSeq(s, cut + 1, n)
    BY DEF Drain
  <1>5. cut \in 0..n /\ n - cut <= left /\ (n - cut < left => cut = 0)
    BY <1>1
  <1>6. \A i \in 1..n : n - i < left <=> i > cut
    BY <1>1
  <1> HIDE DEF n, cut, v
  <1>7. /\ v \in Seq(S) /\ Len(v) = n - cut
        /\ \A i \in 1..(n - cut) : v[i] = s[cut + i]
    <2>1. \A i \in (cut + 1)..n : s[i] \in S
      BY <1>1, <1>5
    <2>2. /\ v \in Seq(S)
          /\ Len(v) = IF cut + 1 <= n THEN n - (cut + 1) + 1 ELSE 0
          /\ \A i \in 1..(n - (cut + 1) + 1) : v[i] = s[(cut + 1) + i - 1]
      <3>1. cut + 1 \in 1..(n + 1) /\ n \in 0..n /\ n = Len(s)
        BY <1>1, <1>5 DEF n
      <3> QED BY <1>1, <1>4, <2>1, <3>1, SubSeqProperties
    <2>3. \A i \in 1..(n - cut) : i \in 1..(n - (cut + 1) + 1) /\ (cut + 1) + i - 1 = cut + i
      BY <1>1, <1>5
    <2>4. (IF cut + 1 <= n THEN n - (cut + 1) + 1 ELSE 0) = n - cut
      BY <1>1, <1>5
    <2> QED BY <2>2, <2>3, <2>4
  <1>8. \A i \in 1..(n - cut) : cut + i \in 1..n /\ h[i] = g[cut + i]
    BY <1>1, <1>5
  <1>9. \A k \in P : \A i \in 1..n : g[i] = k => (k \in Q <=> i > cut)
    BY <1>3, <1>6
  <1> HIDE DEF Q
  <1>10. h \in [1..(n - cut) -> Q]
    <2>1. ASSUME NEW i \in 1..(n - cut) PROVE g[cut + i] \in Q
      <3>1. cut + i \in 1..n /\ cut + i > cut
        BY <1>1, <1>5, <1>8
      <3>2. g[cut + i] \in P
        BY <1>2, <3>1
      <3> QED BY <1>9, <3>1, <3>2
    <2> QED BY <2>1
  <1> HIDE DEF h
  <1>11. ASSUME NEW i \in 1..(n - cut), NEW j \in 1..(n - cut), i < j PROVE h[i] < h[j]
    <2>1. cut + i < cut + j
      BY <1>1, <1>5, <1>11
    <2> QED BY <1>2, <1>8, <2>1
  <1>12. ASSUME NEW k \in Q PROVE \E i \in 1..(n - cut) : h[i] = k
    <2>1. k \in P
      BY DEF Q
    <2>2. PICK i \in 1..n : g[i] = k
      BY <1>2, <2>1
    <2>3. i - cut \in 1..(n - cut) /\ cut + (i - cut) = i
      BY <1>1, <1>5, <1>9, <2>1, <2>2
    <2> QED BY <1>8, <2>2, <2>3
  <1>13. \A i \in 1..(n - cut) : v[i] = b[h[i]]
    BY <1>2, <1>7, <1>8
  <1>14. Picks(h, v, b, Q)
    BY <1>7, <1>10, <1>11, <1>12, <1>13 DEF Picks
  <1>15. ASSUME Len(v) > 0, NEW k \in P PROVE k <= h[Len(v)]
    <2>1. n - cut \in 1..(n - cut) /\ cut + (n - cut) = n
      BY <1>1, <1>5, <1>7, <1>15
    <2>2. h[Len(v)] = g[n] /\ n \in 1..n
      BY <1>7, <1>8, <2>1
    <2>3. PICK i \in 1..n : g[i] = k
      BY <1>2
    <2>4. i < n \/ i = n
      BY <1>1
    <2>5. g[i] \in Nat /\ g[n] \in Nat /\ (i < n => g[i] < g[n])
      BY <1>2, <2>2
    <2> QED BY <2>2, <2>3, <2>4, <2>5
  <1>16. \E x : Picks(x, v, b, Q) /\ (Len(v) > 0 => \A k \in P : k <= x[Len(v)])
    BY <1>14, <1>15
  <1>17. Len(v) <= left /\ (Len(v) < left => Len(v) = Cardinality(P))
    BY <1>1, <1>3, <1>5, <1>7
  <1> QED BY <1>7, <1>16, <1>17 DEF v, Q

-------------------------------------------------------------------------------
(***************************************************************************)
(* The plan                                                                *)
(***************************************************************************)

\* The plan flags the items of s.
Flagged(s) == [n \in 1..Len(s) |->
                 Replayed(s[n], HasMeta(s[n]) /\ n \notin Newest(s))]

\* s is what the filter and the drain leave of b: the items at the positions of the
\* plan, which h numbers; they are within the budget, and the last fresh item is
\* the last of them.
Leaves(s, h, b, left, time) ==
    /\ s \in Seq(Items)
    /\ Len(s) <= left
    /\ Len(s) < left => Len(s) = Cardinality(FreshAt(b, time))
    /\ Picks(h, s, b, PlanPositions(b, left, Horizon, time))
    /\ Len(s) > 0 => \A k \in FreshAt(b, time) : k <= h[Len(s)]

\* The three passes of the code: filter, drain, flag.
LEMMA PlanFlags ==
    ASSUME NEW b \in Seq(Items), NEW left \in Nat, NEW time
    PROVE  \E s, h : /\ Leaves(s, h, b, left, time)
                     /\ PlanReplay(b, left, Horizon, time) = Flagged(s)
  <1> DEFINE fresh == FreshOnes(b, Horizon, time)
             P == FreshAt(b, time)
             s == Drain(fresh, left)
  <1>1. fresh \in Seq(Items) /\ \E g : Picks(g, fresh, b, P)
    BY FreshOnesPicks
  <1>2. PICK g : Picks(g, fresh, b, P)
    BY <1>1
  <1>3. P \in SUBSET Nat
    BY DEF FreshAt
  <1>4. PlanPositions(b, left, Horizon, time) = {k \in P : Cardinality(After(P, k)) < left}
    <2>1. \A k \in P : After(P, k) = {j \in DOMAIN b : j > k /\ Fresh(b[j], Horizon, time)}
      BY DEF After, FreshAt
    <2>2. PlanPositions(b, left, Horizon, time)
            = {k \in P : Cardinality({j \in DOMAIN b : j > k /\ Fresh(b[j], Horizon, time)}) < left}
      BY DEF PlanPositions, FreshAt
    <2> HIDE DEF P
    <2> QED BY <2>1, <2>2
  <1> HIDE DEF fresh, P, s
  <1>5. /\ s \in Seq(Items)
        /\ Len(s) <= left
        /\ Len(s) < left => Len(s) = Cardinality(P)
        /\ \E h : /\ Picks(h, s, b, {k \in P : Cardinality(After(P, k)) < left})
                  /\ Len(s) > 0 => \A k \in P : k <= h[Len(s)]
    BY <1>1, <1>2, <1>3, DrainPicks DEF s
  <1>6. PICK h : Leaves(s, h, b, left, time)
    BY <1>4, <1>5 DEF Leaves, P
  <1>7. PlanReplay(b, left, Horizon, time) = Flagged(s)
    <2>1. DOMAIN s = 1..Len(s) /\ Len(s) \in Nat
      BY <1>5
    <2>2. CASE left = 0
      <3>1. Len(s) = 0
        BY <1>5, <2>1, <2>2
      <3>2. PlanReplay(b, left, Horizon, time) = <<>>
        BY <2>2 DEF PlanReplay
      <3>3. Flagged(s) = <<>>
        BY <3>1 DEF Flagged
      <3> QED BY <3>2, <3>3
    <2>3. CASE left # 0
      BY <2>1, <2>3 DEF PlanReplay, Flagged, s, fresh
    <2> QED BY <2>2, <2>3
  <1> QED BY <1>6, <1>7

\* The plan as PlanMatchesPositions states it.
ByPosition(b, left, time) ==
    LET kept == PlanPositions(b, left, Horizon, time)
    IN [n \in 1..Cardinality(kept) |->
          LET k == CHOOSE p \in kept : Cardinality({q \in kept : q < p}) = n - 1
          IN Replayed(b[k], Superseded(b, kept, k))]

\* The n-th item of the plan is at the position of the plan that n - 1 others
\* come before, and its flag is what the plan by position says.
LEMMA PlanByPosition ==
    ASSUME NEW b \in Seq(Items), NEW left \in Nat, NEW time
    PROVE  PlanReplay(b, left, Horizon, time) = ByPosition(b, left, time)
  <1> DEFINE kept == PlanPositions(b, left, Horizon, time)
             nth(n) == CHOOSE p \in kept : Cardinality({q \in kept : q < p}) = n - 1
  <1>1. PICK s, h : /\ Leaves(s, h, b, left, time)
                    /\ PlanReplay(b, left, Horizon, time) = Flagged(s)
    BY PlanFlags
  <1>2. s \in Seq(Items) /\ Picks(h, s, b, kept)
    BY <1>1 DEF Leaves
  <1>3. kept \in SUBSET Nat
    BY DEF PlanPositions
  <1> HIDE DEF kept
  <1> DEFINE m == Len(s)
  <1>4. /\ m \in Nat /\ h \in [1..m -> kept]
        /\ \A i, j \in 1..m : i < j => h[i] < h[j]
        /\ \A k \in kept : \E i \in 1..m : h[i] = k
        /\ \A i \in 1..m : s[i] = b[h[i]]
    BY <1>2 DEF Picks
  <1>5. Cardinality(kept) = m /\ \A i \in 1..m : Cardinality(Before(kept, h[i])) = i - 1
    <2> HIDE DEF m
    <2> QED BY <1>2, <1>3, PicksCount DEF m
  <1>6. DOMAIN s = 1..m
    BY <1>2
  <1> HIDE DEF m
  <1>7. ASSUME NEW n \in 1..m PROVE nth(n) = h[n]
    <2>1. h[n] \in kept /\ Cardinality(Before(kept, h[n])) = n - 1
      BY <1>4, <1>5
    <2>2. ASSUME NEW p \in kept, Cardinality(Before(kept, p)) = n - 1 PROVE p = h[n]
      <3>1. PICK i \in 1..m : h[i] = p
        BY <1>4
      <3>2. i - 1 = n - 1
        BY <1>5, <2>2, <3>1
      <3> QED BY <1>4, <3>1, <3>2
    <2>3. nth(n) = CHOOSE p \in kept : Cardinality(Before(kept, p)) = n - 1
      BY DEF Before
    <2> QED BY <2>1, <2>2, <2>3
  <1> HIDE DEF nth
  <1>8. ASSUME NEW n \in 1..m
        PROVE  (HasMeta(s[n]) /\ n \notin Newest(s)) <=> Superseded(b, kept, h[n])
    <2>1. n \notin Newest(s) <=> \E j \in 1..m : /\ j > n /\ HasMeta(s[j])
                                                 /\ s[j].chat = s[n].chat
      BY <1>6 DEF Newest
    <2>2. (\E j \in 1..m : j > n /\ HasMeta(s[j]) /\ s[j].chat = s[n].chat)
            <=> (\E k \in kept : k > h[n] /\ HasMeta(b[k]) /\ b[k].chat = b[h[n]].chat)
      <3>1. \A j \in 1..m : j > n <=> h[j] > h[n]
        <4> SUFFICES ASSUME NEW j \in 1..m PROVE j > n <=> h[j] > h[n]
          OBVIOUS
        <4>1. h[j] \in Nat /\ h[n] \in Nat
          BY <1>3, <1>4
        <4>2. j < n \/ j = n \/ j > n
          OBVIOUS
        <4> QED BY <1>4, <4>1, <4>2
      <3>2. s[n] = b[h[n]] /\ \A j \in 1..m : h[j] \in kept /\ s[j] = b[h[j]]
        BY <1>4
      <3>3. ASSUME NEW j \in 1..m, j > n, HasMeta(s[j]), s[j].chat = s[n].chat
            PROVE  \E k \in kept : k > h[n] /\ HasMeta(b[k]) /\ b[k].chat = b[h[n]].chat
        <4>1. h[j] > h[n] /\ HasMeta(b[h[j]]) /\ b[h[j]].chat = b[h[n]].chat
          BY <3>1, <3>2, <3>3
        <4> QED BY <3>2, <4>1
      <3>4. ASSUME NEW k \in kept, k > h[n], HasMeta(b[k]), b[k].chat = b[h[n]].chat
            PROVE  \E j \in 1..m : j > n /\ HasMeta(s[j]) /\ s[j].chat = s[n].chat
        <4>1. PICK j \in 1..m : h[j] = k
          BY <1>4
        <4>2. j > n /\ HasMeta(s[j]) /\ s[j].chat = s[n].chat
          BY <3>1, <3>2, <3>4, <4>1
        <4> QED BY <4>2
      <3> QED BY <3>3, <3>4
    <2> QED BY <1>4, <2>1, <2>2 DEF Superseded
  <1>9. \A n \in 1..m : Replayed(s[n], HasMeta(s[n]) /\ n \notin Newest(s))
                          = Replayed(b[nth(n)], Superseded(b, kept, nth(n)))
    <2> SUFFICES ASSUME NEW n \in 1..m
                 PROVE  Replayed(s[n], HasMeta(s[n]) /\ n \notin Newest(s))
                          = Replayed(b[nth(n)], Superseded(b, kept, nth(n)))
      OBVIOUS
    <2>1. (HasMeta(s[n]) /\ n \notin Newest(s)) = Superseded(b, kept, h[n])
      BY <1>8 DEF Superseded
    <2>2. s[n] = b[h[n]] /\ nth(n) = h[n]
      BY <1>4, <1>7
    <2> QED BY <2>1, <2>2
  <1>10. Flagged(s) = [n \in 1..m |-> Replayed(b[nth(n)], Superseded(b, kept, nth(n)))]
    BY <1>9 DEF Flagged, m
  <1>11. Flagged(s) = ByPosition(b, left, time)
    BY <1>5, <1>10 DEF nth, kept, ByPosition
  <1> QED BY <1>1, <1>11

-------------------------------------------------------------------------------
(***************************************************************************)
(* The theorems                                                            *)
(***************************************************************************)

\* One replay: the plan is computed once, from a backlog, a budget and a clock that
\* stay.
ReplayInv ==
    /\ backlog \in Seq(Items)
    /\ budget \in Nat
    /\ plan = <<>> \/ plan = PlanReplay(backlog, budget, Horizon, now)

LEMMA Typing == Spec => []ReplayInv
  <1>1. Init => ReplayInv
    <2> SUFFICES ASSUME Init PROVE ReplayInv
      OBVIOUS
    <2>1. backlog \in Seq(Items)
      BY ReplayAssumption DEF Init, SeqOf
    <2>2. budget \in Nat
      BY ReplayAssumption DEF Init
    <2> QED BY <2>1, <2>2 DEF Init, ReplayInv
  <1>2. ReplayInv /\ [PlanOnce]_vars => ReplayInv'
    BY DEF ReplayInv, PlanOnce, vars
  <1> QED BY <1>1, <1>2, PTL DEF Spec

\* Each item of a flagged plan is an item of the sequence, and it is superseded
\* exactly when it is a message and a later message of its chat follows.
LEMMA FlagOf ==
    ASSUME NEW s \in Seq(Items)
    PROVE  /\ DOMAIN Flagged(s) = 1..Len(s) /\ Len(s) \in Nat
           /\ \A n \in 1..Len(s) :
                 /\ Flagged(s)[n].item = s[n]
                 /\ Flagged(s)[n].superseded <=>
                        /\ HasMeta(s[n])
                        /\ \E j \in 1..Len(s) : j > n /\ HasMeta(s[j]) /\ s[j].chat = s[n].chat
  <1> DEFINE m == Len(s)
             flag(n) == HasMeta(s[n]) /\ n \notin Newest(s)
  <1>1. m \in Nat /\ DOMAIN s = 1..m
    OBVIOUS
  <1>2. \A n \in 1..m : flag(n) <=>
            HasMeta(s[n]) /\ \E j \in 1..m : j > n /\ HasMeta(s[j]) /\ s[j].chat = s[n].chat
    BY <1>1 DEF Newest
  <1>3. Flagged(s) = [n \in 1..m |-> Replayed(s[n], flag(n))]
    BY DEF Flagged
  <1> HIDE DEF m, flag
  <1>4. \A n \in 1..m : Flagged(s)[n].item = s[n] /\ Flagged(s)[n].superseded = flag(n)
    BY <1>3 DEF Replayed
  <1> QED BY <1>1, <1>2, <1>3, <1>4 DEF m

\* In a flagged plan the messages of a chat have one turn, that of the last.
LEMMA FlaggedTurns ==
    ASSUME NEW s \in Seq(Items), plan = Flagged(s)
    PROVE  OneTurnPerChat
  <1> DEFINE m == Len(s)
  <1>1. /\ DOMAIN plan = 1..m /\ m \in Nat
        /\ \A n \in 1..m :
              /\ plan[n].item = s[n]
              /\ plan[n].superseded <=>
                     HasMeta(s[n]) /\ \E j \in 1..m : j > n /\ HasMeta(s[j]) /\ s[j].chat = s[n].chat
    BY FlagOf
  <1> HIDE DEF m
  <1> SUFFICES ASSUME NEW k \in DOMAIN plan, HasMeta(plan[k].item)
               PROVE  LET same == {j \in DOMAIN plan : /\ HasMeta(plan[j].item)
                                                       /\ plan[j].item.chat = plan[k].item.chat}
                      IN {j \in same : ~plan[j].superseded}
                            = {CHOOSE t \in same : \A j \in same : j <= t}
    BY DEF OneTurnPerChat
  <1> DEFINE same == {j \in DOMAIN plan : /\ HasMeta(plan[j].item)
                                          /\ plan[j].item.chat = plan[k].item.chat}
  <1>2. same = {j \in 1..m : HasMeta(s[j]) /\ s[j].chat = s[k].chat} /\ k \in same
    BY <1>1
  <1>3. \A j \in same : plan[j].superseded <=> \E i \in same : i > j
    BY <1>1, <1>2
  <1>4. same \in SUBSET (1..m)
    BY <1>2
  <1> HIDE DEF same
  <1>5. PICK t \in same : \A j \in same : j <= t
    BY <1>1, <1>2, <1>4, Greatest
  <1>6. \A u \in same : (\A j \in same : j <= u) => u = t
    BY <1>4, <1>5
  <1>7. (CHOOSE u \in same : \A j \in same : j <= u) = t
    BY <1>5, <1>6
  <1>8. \A j \in same : ~plan[j].superseded <=> j = t
    BY <1>3, <1>4, <1>5
  <1> QED BY <1>5, <1>7, <1>8 DEF same

\* Every plan is the plan by position: replayed in backlog order, each item with
\* its superseded flag.
THEOREM PlanIsByPosition == Spec => PlanMatchesPositions
  <1> DEFINE Same == LET kept == PlanPositions(backlog, budget, Horizon, now)
                     IN plan' = [n \in 1..Cardinality(kept) |->
                                   LET k == CHOOSE p \in kept :
                                              Cardinality({q \in kept : q < p}) = n - 1
                                   IN Replayed(backlog[k], Superseded(backlog, kept, k))]
  <1>1. ReplayInv /\ [PlanOnce]_vars => [Same]_vars
    <2> SUFFICES ASSUME ReplayInv, PlanOnce PROVE Same
      BY DEF vars
    <2>1. plan' = PlanReplay(backlog, budget, Horizon, now)
      BY DEF PlanOnce
    <2>2. plan' = ByPosition(backlog, budget, now)
      <3> HIDE DEF Same
      <3> QED BY <2>1, PlanByPosition DEF ReplayInv
    <2> QED BY <2>2 DEF ByPosition
  <1> QED BY <1>1, Typing, PTL DEF Spec, PlanMatchesPositions

\* A reconnect costs one turn per chat, that of its last replayed message.
THEOREM ReplayTurns == Spec => []OneTurnPerChat
  <1>1. ReplayInv => OneTurnPerChat
    <2> SUFFICES ASSUME ReplayInv PROVE OneTurnPerChat
      OBVIOUS
    <2>1. CASE plan = <<>>
      BY <2>1 DEF OneTurnPerChat
    <2>2. CASE plan = PlanReplay(backlog, budget, Horizon, now)
      <3>1. PICK s, h : Leaves(s, h, backlog, budget, now) /\ plan = Flagged(s)
        BY <2>2, PlanFlags DEF ReplayInv
      <3> QED BY <3>1, FlaggedTurns DEF Leaves
    <2> QED BY <2>1, <2>2 DEF ReplayInv
  <1> QED BY <1>1, Typing, PTL

\* Stale messages never cost a live one its place, and the newest fresh item is
\* always replayed, unless nothing is.
THEOREM ReplayBudget == Spec => []BudgetGoesToTheNewest
  <1>1. ReplayInv => BudgetGoesToTheNewest
    <2> SUFFICES ASSUME ReplayInv, plan # <<>> PROVE BudgetGoesToTheNewest
      BY DEF BudgetGoesToTheNewest
    <2> DEFINE fresh == {k \in DOMAIN backlog : Fresh(backlog[k], Horizon, now)}
    <2>1. PICK s, h : Leaves(s, h, backlog, budget, now) /\ plan = Flagged(s)
      BY PlanFlags DEF ReplayInv
    <2>2. s \in Seq(Items) /\ fresh = FreshAt(backlog, now)
      BY <2>1 DEF Leaves, FreshAt
    <2>3. /\ DOMAIN plan = 1..Len(s) /\ Len(s) \in Nat
          /\ \A n \in 1..Len(s) : plan[n].item = s[n] /\ (plan[n].superseded => HasMeta(s[n]))
      BY <2>1, <2>2, FlagOf
    <2>4. Len(plan) = Len(s) /\ Len(s) > 0
      <3>1. plan = [n \in 1..Len(s) |-> plan[n]]
        BY <2>1, <2>3 DEF Flagged
      <3>2. Len(plan) = Len(s)
        BY <2>3, <3>1
      <3>3. Len(s) = 0 => plan = <<>>
        BY <2>3, <3>1
      <3> QED BY <2>3, <3>2, <3>3
    <2>5. /\ h[Len(s)] \in fresh /\ s[Len(s)] = backlog[h[Len(s)]]
          /\ \A j \in fresh : j <= h[Len(s)]
      <3>1. h[Len(s)] \in PlanPositions(backlog, budget, Horizon, now)
        BY <2>1, <2>3, <2>4 DEF Leaves, Picks
      <3>2. h[Len(s)] \in fresh
        BY <3>1 DEF PlanPositions
      <3> QED BY <2>1, <2>2, <2>3, <2>4, <3>2 DEF Leaves, Picks
    <2>6. Last(plan).item = s[Len(s)]
      BY <2>3, <2>4 DEF Last
    <2>7. Len(plan) < budget => Len(plan) = Cardinality(fresh)
      BY <2>1, <2>2, <2>4 DEF Leaves
    <2>8. \A k \in DOMAIN plan : plan[k].superseded => HasMeta(plan[k].item)
      BY <2>3
    <2> HIDE DEF fresh
    <2>9. \E k \in fresh : (\A j \in fresh : j <= k) /\ Last(plan).item = backlog[k]
      BY <2>5, <2>6
    <2> QED BY <2>7, <2>8, <2>9 DEF BudgetGoesToTheNewest, fresh
  <1> QED BY <1>1, Typing, PTL
===============================================================================
