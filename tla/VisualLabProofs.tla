---------------------------- MODULE VisualLabProofs ----------------------------
(***************************************************************************)
(* Proofs about VisualLab.  The first part is about data: induction over   *)
(* Nat and the existence of recursive functions, from which follows what   *)
(* FlattenSeq and StartOf compute for lanes of any number and length.      *)
(* With it the state is described by a lane and a position in it (Place);  *)
(* the invariants, the two action properties and the refinement of the     *)
(* walk are about that description.                                        *)
(***************************************************************************)
EXTENDS VisualLab, SequenceTheorems, FiniteSetTheorems, WellFoundedInduction, TLAPS

\* The pairs of natural numbers whose first is less than the second.
Below == {ss \in Nat \X Nat : ss[1] < ss[2]}

\* The order on the natural numbers, as the library's theorem about least elements takes it.
LEMMA NatOrder == IsWellFoundedOn(Below, Nat)
  BY NatLessThanWellFounded DEF OpToRel, Below

\* Induction: a set with 0 in it, and with each number its successor, holds all.
LEMMA InductionOnSet ==
    ASSUME NEW S, 0 \in S, \A n \in S : n \in Nat => n + 1 \in S
    PROVE  Nat \subseteq S
<1> DEFINE T == Nat \ S
<1> SUFFICES ASSUME T # {} PROVE FALSE
  OBVIOUS
<1>1. PICK x \in T : \A y \in T : << y, x >> \notin Below
  <2>1. T \subseteq Nat
    OBVIOUS
  <2> HIDE DEF T
  <2>. QED BY <2>1, NatOrder, WFMin
<1>2. x \in Nat /\ x # 0
  OBVIOUS
<1>3. x - 1 \in Nat /\ << x - 1, x >> \in Below
  BY <1>2 DEF Below
<1>. QED
  BY <1>1, <1>2, <1>3

\* A first value, and the functions that lead from each to the next.
Steps(V, a, step) == a \in V /\ step \in [Nat -> [V -> V]]

Iterates(f, V, a, step) ==
    f \in [Nat -> V] /\ f[0] = a /\ \A n \in Nat : f[n + 1] = step[n][f[n]]

\* A value for 0 and a function for each step determine a function on Nat.
LEMMA Recursion ==
    ASSUME NEW V, NEW a, NEW step, Steps(V, a, step)
    PROVE  \E f : Iterates(f, V, a, step)
<1>0. a \in V /\ step \in [Nat -> [V -> V]]
  BY DEF Steps
<1> DEFINE Is(g, n) == /\ g \in [0..n -> V] /\ g[0] = a
                       /\ \A k \in 0..n - 1 : g[k + 1] = step[k][g[k]]
           S == {n \in Nat : \E g \in [0..n -> V] : Is(g, n)}
           G(n) == CHOOSE g \in [0..n -> V] : Is(g, n)
<1>1. Nat \subseteq S
  <2>1. 0 \in S
    <3>1. Is([k \in 0..0 |-> a], 0)
      BY <1>0
    <3>. QED BY <3>1
  <2>2. ASSUME NEW n \in Nat, n \in S PROVE n + 1 \in S
    <3>1. PICK g \in [0..n -> V] : Is(g, n)
      BY <2>2
    <3> DEFINE h == [k \in 0..n + 1 |-> IF k = n + 1 THEN step[n][g[n]] ELSE g[k]]
    <3>2. h \in [0..n + 1 -> V]
      BY <1>0, <3>1
    <3>3. Is(h, n + 1)
      BY <3>1, <3>2
    <3> HIDE DEF h, Is
    <3>. QED
      BY <3>2, <3>3
  <2> HIDE DEF S
  <2>. QED
    BY <2>1, <2>2, InductionOnSet
<1>2. \A n \in Nat : G(n) \in [0..n -> V] /\ Is(G(n), n)
  BY <1>1
<1> HIDE DEF G
<1>3. \A n \in Nat : G(n + 1)[n] = G(n)[n]
  <2> SUFFICES ASSUME NEW n \in Nat PROVE G(n + 1)[n] = G(n)[n]
    OBVIOUS
  <2> DEFINE A == {k \in Nat : k <= n => G(n + 1)[k] = G(n)[k]}
  <2>0. Is(G(n), n) /\ Is(G(n + 1), n + 1)
    BY <1>2
  <2>1. 0 \in A
    BY <2>0
  <2>2. ASSUME NEW k \in Nat, k \in A PROVE k + 1 \in A
    <3>1. CASE k + 1 <= n
      BY <2>0, <2>2, <3>1
    <3>2. CASE ~(k + 1 <= n)
      BY <3>2
    <3>. QED
      BY <3>1, <3>2
  <2>3. Nat \subseteq A
    <3> HIDE DEF A
    <3>. QED BY <2>1, <2>2, InductionOnSet
  <2>. QED
    BY <2>3
<1> DEFINE f == [n \in Nat |-> G(n)[n]]
<1>4. f \in [Nat -> V] /\ f[0] = a
  BY <1>2
<1>5. ASSUME NEW n \in Nat PROVE f[n + 1] = step[n][f[n]]
  <2>1. Is(G(n + 1), n + 1)
    BY <1>2
  <2>2. G(n + 1)[n + 1] = step[n][G(n + 1)[n]]
    BY <2>1
  <2>. QED
    BY <2>2, <1>3
<1>. QED
  BY <1>4, <1>5 DEF Iterates

-----------------------------------------------------------------------------
\* The lanes of a scenario: N of them, with the lengths len.
Lens(s, N, len) ==
    /\ N \in Nat \ {0} /\ len \in [1..N -> Nat \ {0}]
    /\ \A l \in 1..N : Len(s.lanes[l].steps) = len[l]

\* The sum of the lengths of the lanes before l
LEMMA Starts ==
    ASSUME NEW s, NEW N, NEW len, Lens(s, N, len)
    PROVE  \E F \in [Nat -> Nat] :
              /\ F[0] = 0
              /\ \A l \in 1..N : F[l] = F[l - 1] + len[l]
              /\ \A l \in 1..N + 1 : StartOf(s, l) = F[l - 1]
<1>0. N \in Nat \ {0} /\ len \in [1..N -> Nat \ {0}]
      /\ \A l \in 1..N : Len(s.lanes[l].steps) = len[l]
  BY DEF Lens
<1> DEFINE step == [n \in Nat |-> [v \in Nat |->
                       IF n + 1 \in 1..N THEN v + len[n + 1] ELSE v]]
<1>1. Steps(Nat, 0, step)
  BY <1>0 DEF Steps
<1>2. PICK F : Iterates(F, Nat, 0, step)
  <2> HIDE DEF step
  <2>. QED BY <1>1, Recursion
<1>t. F \in [Nat -> Nat] /\ F[0] = 0
  BY <1>2 DEF Iterates
<1>3. ASSUME NEW l \in 1..N PROVE F[l] = F[l - 1] + len[l]
  <2>1. l - 1 \in Nat /\ (l - 1) + 1 = l
    BY <1>0
  <2>2. F[(l - 1) + 1] = step[l - 1][F[l - 1]]
    BY <1>2, <2>1 DEF Iterates
  <2>3. step[l - 1][F[l - 1]] = F[l - 1] + len[(l - 1) + 1]
    BY <1>t, <2>1
  <2> HIDE DEF step
  <2>. QED
    BY <2>1, <2>2, <2>3
<1>4. ASSUME NEW l \in 1..N + 1 PROVE StartOf(s, l) = F[l - 1]
  <2> DEFINE Rule(g) == g = [k \in 1..l |-> IF k = 1 THEN 0
                                            ELSE g[k - 1] + Len(s.lanes[k - 1].steps)]
             G == [k \in 1..l |-> F[k - 1]]
             g == CHOOSE x : Rule(x)
  <2>1. Rule(G)
    <3>1. ASSUME NEW k \in 1..l, k # 1 PROVE G[k] = G[k - 1] + Len(s.lanes[k - 1].steps)
      <4>1. k - 1 \in 1..N /\ k - 1 \in 1..l
        BY <3>1, <1>0
      <4>. QED
        BY <3>1, <4>1, <1>3, <1>0
    <3>2. l \in Nat /\ l >= 1 /\ G[1] = 0
      BY <1>t, <1>0
    <3>. QED
      BY <3>1, <3>2
  <2>2. Rule(g)
    <3> HIDE DEF Rule, G
    <3>. QED BY <2>1
  <2> HIDE DEF g
  <2>3. \A k \in 1..l : g[k] = IF k = 1 THEN 0 ELSE g[k - 1] + Len(s.lanes[k - 1].steps)
    BY <2>2
  <2>4. g[1] = 0 /\ \A k \in 1..l : k > 1 => g[k] = g[k - 1] + len[k - 1]
    <3>1. ASSUME NEW k \in 1..l, k > 1 PROVE g[k] = g[k - 1] + len[k - 1]
      <4>1. k - 1 \in 1..N /\ k # 1
        BY <1>0, <3>1
      <4>. QED
        BY <1>0, <2>3, <4>1
    <3>. QED
      BY <1>0, <2>3, <3>1
  <2> DEFINE A == {n \in Nat : n + 1 <= l => g[n + 1] = F[n]}
  <2>5. 0 \in A
    BY <1>t, <2>4
  <2>6. ASSUME NEW n \in Nat, n \in A PROVE n + 1 \in A
    <3>1. CASE (n + 1) + 1 <= l
      <4>1. (n + 1) + 1 \in 1..l /\ n + 1 \in 1..N /\ ((n + 1) + 1) - 1 = n + 1
            /\ (n + 1) + 1 > 1 /\ (n + 1) - 1 = n
        BY <1>0, <3>1
      <4>2. g[(n + 1) + 1] = g[n + 1] + len[n + 1]
        BY <2>4, <4>1
      <4>3. F[n + 1] = F[n] + len[n + 1]
        BY <1>3, <4>1
      <4>4. g[n + 1] = F[n]
        BY <2>6, <4>1
      <4>. QED
        BY <4>2, <4>3, <4>4
    <3>2. CASE ~((n + 1) + 1 <= l)
      BY <3>2
    <3>. QED
      BY <3>1, <3>2
  <2>7. Nat \subseteq A
    <3> HIDE DEF A
    <3>. QED BY <2>5, <2>6, InductionOnSet
  <2>8. l - 1 \in Nat /\ (l - 1) + 1 = l /\ l <= l
    BY <1>0
  <2>9. g[l] = F[l - 1]
    <3>1. l - 1 \in A
      BY <2>7, <2>8
    <3>. QED
      BY <2>8, <3>1
  <2>10. StartOf(s, l) = g[l]
    BY Zenon DEF StartOf, g
  <2>. QED
    BY <2>9, <2>10
<1>. QED
  BY <1>t, <1>3, <1>4

\* Each lane begins where the one before it ends.
LEMMA StartStep ==
    ASSUME NEW s, NEW N, NEW len, Lens(s, N, len)
    PROVE  /\ StartOf(s, 1) = 0
           /\ \A l \in 1..N + 1 : StartOf(s, l) \in Nat
           /\ \A l \in 1..N : StartOf(s, l + 1) = StartOf(s, l) + len[l]
<1>1. PICK F \in [Nat -> Nat] :
              /\ F[0] = 0
              /\ \A l \in 1..N : F[l] = F[l - 1] + len[l]
              /\ \A l \in 1..N + 1 : StartOf(s, l) = F[l - 1]
  BY Starts
<1>2. N \in Nat \ {0} /\ len \in [1..N -> Nat \ {0}]
  BY DEF Lens
<1>3. ASSUME NEW l \in 1..N
      PROVE  StartOf(s, l + 1) = StartOf(s, l) + len[l]
  <2>1. l + 1 \in 1..N + 1 /\ l \in 1..N + 1 /\ (l + 1) - 1 = l
    BY <1>2
  <2>. QED
    BY <1>1, <2>1
<1>4. ASSUME NEW l \in 1..N + 1 PROVE StartOf(s, l) \in Nat
  <2>1. l - 1 \in Nat
    BY <1>2
  <2>. QED
    BY <1>1, <2>1
<1>. QED
  BY <1>1, <1>2, <1>3, <1>4

-----------------------------------------------------------------------------
\* What FlattenSeq does: the parts one after the other.
LEMMA Flattened ==
    ASSUME NEW T, NEW N \in Nat \ {0}, NEW ss \in [1..N -> Seq(T)]
    PROVE  \E g : /\ FlattenSeq(ss) = g[N]
                  /\ g[1] = ss[1]
                  /\ \A k \in 1..N : k > 1 => g[k] = g[k - 1] \o ss[k]
<1> DEFINE step == [n \in Nat |-> [v \in Seq(T) |->
                       IF n + 2 \in 1..N THEN v \o ss[n + 2] ELSE v]]
<1>1. Steps(Seq(T), ss[1], step)
  BY DEF Steps
<1>2. PICK F : Iterates(F, Seq(T), ss[1], step)
  <2> HIDE DEF step
  <2>. QED BY <1>1, Recursion
<1>3. ASSUME NEW k \in 1..N, k # 1 PROVE F[k - 1] = F[(k - 1) - 1] \o ss[k]
  <2>1. k - 2 \in Nat /\ (k - 2) + 1 = k - 1 /\ (k - 1) - 1 = k - 2 /\ (k - 2) + 2 = k
    BY <1>3
  <2>2. F[(k - 2) + 1] = step[k - 2][F[k - 2]] /\ F[k - 2] \in Seq(T)
    BY <1>2, <2>1 DEF Iterates
  <2>3. step[k - 2][F[k - 2]] = F[k - 2] \o ss[(k - 2) + 2]
    BY <2>1, <2>2
  <2> HIDE DEF step
  <2>. QED
    BY <2>1, <2>2, <2>3
<1> DEFINE Rule(g) == g = [i \in 1..Len(ss) |-> IF i = 1 THEN ss[i] ELSE g[i - 1] \o ss[i]]
           G == [i \in 1..N |-> F[i - 1]]
           g == CHOOSE x : Rule(x)
<1>4. Len(ss) = N
  OBVIOUS
<1>5. Rule(G)
  <2>1. ASSUME NEW i \in 1..N, i # 1 PROVE G[i] = G[i - 1] \o ss[i]
    <3>1. i - 1 \in 1..N
      BY <2>1
    <3>. QED
      BY <1>3, <2>1, <3>1
  <2>2. G[1] = ss[1]
    BY <1>2 DEF Iterates
  <2>. QED
    BY <1>4, <2>1, <2>2
<1>6. Rule(g)
  <2> HIDE DEF Rule, G
  <2>. QED BY <1>5
<1>7. FlattenSeq(ss) = g[Len(ss)]
  <2>1. Len(ss) # 0
    BY <1>4
  <2>. QED
    BY <2>1, Zenon DEF FlattenSeq
<1> HIDE DEF g
<1>8. g[1] = ss[1] /\ \A k \in 1..N : k > 1 => g[k] = g[k - 1] \o ss[k]
  <2>1. g = [i \in 1..N |-> IF i = 1 THEN ss[i] ELSE g[i - 1] \o ss[i]]
    BY <1>4, <1>6, Zenon
  <2>2. \A k \in 1..N : g[k] = IF k = 1 THEN ss[k] ELSE g[k - 1] \o ss[k]
    BY <2>1, Zenon
  <2>3. 1 \in 1..N /\ \A k \in 1..N : k > 1 => k # 1
    OBVIOUS
  <2>. QED
    BY <2>2, <2>3, Zenon
<1>. QED
  BY <1>4, <1>7, <1>8

\* Where the steps of N lanes lie in st, the first n of them laid end to end.
Piece(ss, s, len, st, n) ==
    /\ \A l \in 1..n : StartOf(s, l) + len[l] <= Len(st)
    /\ \A l \in 1..n : \A i \in 1..len[l] : st[StartOf(s, l) + i] = ss[l][i]
    /\ \A j \in 1..Len(st) : \E l \in 1..n : \E i \in 1..len[l] : j = StartOf(s, l) + i

\* The lanes laid end to end: no step is lost, none is there twice.
LEMMA Pieces ==
    ASSUME NEW s, NEW N, NEW len, Lens(s, N, len), NEW T, NEW ss \in [1..N -> Seq(T)],
           \A l \in 1..N : Len(ss[l]) = len[l]
    PROVE  /\ FlattenSeq(ss) \in Seq(T)
           /\ Len(FlattenSeq(ss)) = StartOf(s, N + 1)
           /\ Piece(ss, s, len, FlattenSeq(ss), N)
<1>0. N \in Nat \ {0} /\ len \in [1..N -> Nat \ {0}]
  BY DEF Lens
<1>1. PICK g : /\ FlattenSeq(ss) = g[N]
               /\ g[1] = ss[1]
               /\ \A k \in 1..N : k > 1 => g[k] = g[k - 1] \o ss[k]
  BY <1>0, Flattened
<1> DEFINE Good(n) == /\ g[n] \in Seq(T)
                      /\ Len(g[n]) = StartOf(s, n + 1)
                      /\ Piece(ss, s, len, g[n], n)
           A == {n \in Nat : n + 1 <= N => Good(n + 1)}
<1>2. Good(1)
  <2>1. StartOf(s, 1) = 0 /\ StartOf(s, 1 + 1) = 0 + len[1] /\ 1 \in 1..N
    BY <1>0, StartStep
  <2>2. g[1] = ss[1] /\ ss[1] \in Seq(T) /\ Len(ss[1]) = len[1] /\ len[1] \in Nat
    BY <1>0, <1>1, <2>1
  <2>3. ASSUME NEW j \in 1..Len(g[1])
        PROVE  \E l \in 1..1 : \E i \in 1..len[l] : j = StartOf(s, l) + i
    <3>1. j \in 1..len[1] /\ j = StartOf(s, 1) + j /\ 1 \in 1..1
      BY <2>1, <2>2
    <3>. QED
      BY <3>1
  <2>4. Piece(ss, s, len, g[1], 1)
    BY <2>1, <2>2, <2>3 DEF Piece
  <2>. QED
    BY <2>1, <2>2, <2>4
<1>3. ASSUME NEW n \in Nat \ {0}, n + 1 <= N, Good(n) PROVE Good(n + 1)
  <2>1. n + 1 \in 1..N /\ n + 1 > 1 /\ (n + 1) - 1 = n /\ n \in 1..N
    BY <1>0, <1>3
  <2>2. /\ g[n + 1] = g[n] \o ss[n + 1]
        /\ ss[n + 1] \in Seq(T) /\ Len(ss[n + 1]) = len[n + 1] /\ len[n + 1] \in Nat
    BY <1>0, <1>1, <2>1
  <2>3. StartOf(s, (n + 1) + 1) = StartOf(s, n + 1) + len[n + 1]
        /\ StartOf(s, n + 1) \in Nat /\ \A l \in 1..N : StartOf(s, l) \in Nat
    <3>1. /\ \A l \in 1..N + 1 : StartOf(s, l) \in Nat
          /\ \A l \in 1..N : StartOf(s, l + 1) = StartOf(s, l) + len[l]
      BY StartStep
    <3>2. \A l \in 1..N : l \in 1..N + 1
      BY <1>0
    <3>. QED
      BY <2>1, <3>1, <3>2
  <2> DEFINE m == Len(g[n])
             h == g[n] \o ss[n + 1]
  <2>4. /\ g[n] \in Seq(T) /\ m = StartOf(s, n + 1)
        /\ \A l \in 1..n : StartOf(s, l) + len[l] <= m
        /\ \A l \in 1..n : \A i \in 1..len[l] : g[n][StartOf(s, l) + i] = ss[l][i]
        /\ \A j \in 1..m : \E l \in 1..n : \E i \in 1..len[l] : j = StartOf(s, l) + i
    BY <1>3 DEF Piece
  <2>5. /\ h \in Seq(T) /\ Len(h) = m + len[n + 1]
        /\ \A j \in 1..Len(h) : h[j] = IF j <= m THEN g[n][j] ELSE ss[n + 1][j - m]
    <3>1. g[n] \in Seq(T) /\ ss[n + 1] \in Seq(T) /\ Len(ss[n + 1]) = len[n + 1]
      BY <2>2, <2>4
    <3>2. /\ h \in Seq(T) /\ Len(h) = m + Len(ss[n + 1])
          /\ \A j \in 1..m + Len(ss[n + 1]) :
                h[j] = IF j <= m THEN g[n][j] ELSE ss[n + 1][j - m]
      BY <3>1, ConcatProperties
    <3>. QED
      BY <3>1, <3>2
  <2>m. m \in Nat
    BY <2>4
  <2> HIDE DEF h, m
  <2>6. ASSUME NEW l \in 1..n + 1 PROVE StartOf(s, l) + len[l] <= Len(h)
    <3>1. CASE l \in 1..n
      <4>1. l \in 1..N
        BY <1>0, <2>1, <3>1
      <4>2. StartOf(s, l) \in Nat /\ len[l] \in Nat
        BY <1>0, <2>3, <4>1
      <4>3. StartOf(s, l) + len[l] <= m
        BY <2>4, <3>1
      <4>. QED
        BY <2>2, <2>5, <2>m, <4>2, <4>3
    <3>2. CASE l = n + 1
      BY <2>2, <2>3, <2>4, <2>5, <3>2
    <3>. QED
      BY <3>1, <3>2
  <2>7. ASSUME NEW l \in 1..n + 1, NEW i \in 1..len[l] PROVE h[StartOf(s, l) + i] = ss[l][i]
    <3>1. CASE l \in 1..n
      <4>1. StartOf(s, l) \in Nat /\ len[l] \in Nat /\ StartOf(s, l) + len[l] <= m
        <5>1. l \in 1..N
          BY <1>0, <2>1, <3>1
        <5>. QED
          BY <1>0, <2>3, <2>4, <3>1, <5>1
      <4>2. StartOf(s, l) + i \in 1..Len(h) /\ StartOf(s, l) + i <= m
        <5>1. i \in Nat /\ i >= 1 /\ i <= len[l]
          BY <4>1
        <5>2. Len(h) \in Nat /\ m <= Len(h)
          BY <2>2, <2>5, <2>m
        <5>. QED
          BY <4>1, <5>1, <5>2, <2>m
      <4>. QED
        BY <2>4, <2>5, <3>1, <4>2
    <3>2. CASE l = n + 1
      <4>1. m + i \in 1..Len(h) /\ ~(m + i <= m) /\ (m + i) - m = i
        BY <2>2, <2>5, <2>m, <3>2
      <4>. QED
        BY <2>4, <2>5, <3>2, <4>1
    <3>. QED
      BY <3>1, <3>2
  <2>8. ASSUME NEW j \in 1..Len(h)
        PROVE  \E l \in 1..n + 1 : \E i \in 1..len[l] : j = StartOf(s, l) + i
    <3>1. CASE j <= m
      <4>1. j \in 1..m
        BY <2>5, <2>m, <2>2, <3>1
      <4>2. PICK l \in 1..n : \E i \in 1..len[l] : j = StartOf(s, l) + i
        BY <2>4, <4>1
      <4>3. l \in 1..n + 1
        OBVIOUS
      <4>. QED
        BY <4>2, <4>3
    <3>2. CASE ~(j <= m)
      <4>1. j - m \in 1..len[n + 1] /\ j = m + (j - m) /\ n + 1 \in 1..n + 1
        BY <2>2, <2>5, <2>m, <3>2
      <4>. QED
        BY <2>4, <4>1
    <3>. QED
      BY <3>1, <3>2
  <2>9. g[n + 1] = h
    BY <2>2 DEF h
  <2>10. Piece(ss, s, len, h, n + 1)
    BY <2>6, <2>7, <2>8 DEF Piece
  <2>. QED
    BY <2>2, <2>3, <2>4, <2>5, <2>9, <2>10
<1>4. Nat \subseteq A
  <2>1. 0 \in A
    BY <1>2
  <2>2. ASSUME NEW n \in Nat, n \in A PROVE n + 1 \in A
    <3>1. (n + 1) + 1 <= N => Good((n + 1) + 1)
      <4> HIDE DEF Good
      <4>. QED BY <1>0, <1>3, <2>2
    <3>. QED
      BY <3>1
  <2> HIDE DEF A
  <2>. QED
    BY <2>1, <2>2, InductionOnSet
<1>5. Good(N)
  <2>1. N - 1 \in Nat /\ (N - 1) + 1 = N /\ N <= N
    BY <1>0
  <2>2. N - 1 \in A
    BY <1>4, <2>1
  <2> HIDE DEF Good
  <2>. QED
    BY <2>1, <2>2
<1>. QED
  BY <1>1, <1>5

-----------------------------------------------------------------------------
\* The least element is the minimum.
LEMMA MinOf ==
    ASSUME NEW S \in SUBSET Int, NEW a \in S, \A x \in S : a <= x
    PROVE  Min(S) = a
<1>1. (CHOOSE x \in S : \A y \in S : x <= y) = a
  <2>1. \A x \in S : (\A y \in S : x <= y) => x = a
    OBVIOUS
  <2>2. \E x \in S : \A y \in S : x <= y
    OBVIOUS
  <2>. QED
    BY <2>1, <2>2
<1>. QED
  BY <1>1, Zenon DEF Min

\* The greatest element is the maximum.
LEMMA MaxOf ==
    ASSUME NEW S \in SUBSET Int, NEW a \in S, \A x \in S : x <= a
    PROVE  Max(S) = a
<1>1. (CHOOSE x \in S : \A y \in S : x >= y) = a
  <2>1. \A x \in S : (\A y \in S : x >= y) => x = a
    OBVIOUS
  <2>2. \E x \in S : \A y \in S : x >= y
    OBVIOUS
  <2>. QED
    BY <2>1, <2>2
<1>. QED
  BY <1>1, Zenon DEF Max

\* A function on 1..n is a sequence.
LEMMA SeqFrom ==
    ASSUME NEW T, NEW n \in Nat, NEW f \in [1..n -> T]
    PROVE  f \in Seq(T) /\ Len(f) = n
  OBVIOUS

\* The lanes of a scenario, their lengths, and where each begins in the page.
LanesOf(s) == IF HasDiagram(s) THEN DOMAIN s.lanes ELSE {1}

LenOf(s, l) == IF HasDiagram(s) THEN Len(s.lanes[l].steps) ELSE s.flow

BeginOf(s, l) == IF HasDiagram(s) THEN StartOf(s, l) ELSE 0

LaidOut(s, st) ==
    /\ st \in Seq([lane : LanesOf(s), index : Nat])
    /\ 1 \in LanesOf(s) /\ BeginOf(s, 1) = 0
    /\ \A l \in LanesOf(s) : LenOf(s, l) \in Nat \ {0} /\ BeginOf(s, l) \in Nat
    /\ \A l \in LanesOf(s) : \A i \in 0..LenOf(s, l) - 1 :
          BeginOf(s, l) + i < Len(st) /\ st[BeginOf(s, l) + i + 1] = [lane |-> l, index |-> i]
    /\ \A j \in 0..Len(st) - 1 :
          /\ st[j + 1].lane \in LanesOf(s)
          /\ st[j + 1].index \in 0..LenOf(s, st[j + 1].lane) - 1
          /\ j = BeginOf(s, st[j + 1].lane) + st[j + 1].index

\* Without a diagram the steps of the flow are the only lane.
LEMMA PlainLaidOut ==
    ASSUME NEW s, ScenarioData(s), ~HasDiagram(s)
    PROVE  LaidOut(s, CurrentSteps(s))
<1>1. s.flow \in Nat \ {0}
  BY DEF ScenarioData
<1> DEFINE st == [i \in 1..s.flow |-> [lane |-> 1, index |-> i - 1]]
<1>2. CurrentSteps(s) = st
  BY DEF CurrentSteps
<1>3. st \in Seq([lane : {1}, index : Nat]) /\ Len(st) = s.flow
  <2>1. st \in [1..s.flow -> [lane : {1}, index : Nat]]
    BY <1>1
  <2> HIDE DEF st
  <2>. QED
    BY <1>1, <2>1, SeqFrom
<1>4. \A i \in 0..s.flow - 1 : st[i + 1] = [lane |-> 1, index |-> i]
  BY <1>1
<1> HIDE DEF st
<1>5. \A j \in 0..Len(st) - 1 : st[j + 1].lane = 1 /\ st[j + 1].index = j
  <2> SUFFICES ASSUME NEW j \in 0..Len(st) - 1
               PROVE  st[j + 1].lane = 1 /\ st[j + 1].index = j
    OBVIOUS
  <2>1. st[j + 1] = [lane |-> 1, index |-> j]
    BY <1>3, <1>4
  <2>. QED
    BY <2>1
<1>. QED
  BY <1>1, <1>2, <1>3, <1>4, <1>5 DEF LaidOut, LanesOf, LenOf, BeginOf

\* With a diagram the lanes follow each other as StartOf says.
LEMMA DiagramLaidOut ==
    ASSUME NEW s, ScenarioData(s), HasDiagram(s)
    PROVE  LaidOut(s, CurrentSteps(s))
<1> DEFINE N == Len(s.lanes)
           len == [l \in 1..N |-> Len(s.lanes[l].steps)]
           T == [lane : 1..N, index : Nat]
           ss == [l \in DOMAIN s.lanes |->
                     [i \in DOMAIN s.lanes[l].steps |-> [lane |-> l, index |-> i - 1]]]
           st == FlattenSeq(ss)
<1>1. DOMAIN s.lanes = 1..N /\ N \in Nat \ {0}
  BY DEF ScenarioData, HasDiagram, IsSeq
<1>2. \A l \in 1..N : /\ DOMAIN s.lanes[l].steps = 1..Len(s.lanes[l].steps)
                      /\ Len(s.lanes[l].steps) \in Nat \ {0}
  <2> SUFFICES ASSUME NEW l \in 1..N
               PROVE  /\ DOMAIN s.lanes[l].steps = 1..Len(s.lanes[l].steps)
                      /\ Len(s.lanes[l].steps) \in Nat \ {0}
    OBVIOUS
  <2>1. LaneData(s.lanes[l])
    BY <1>1 DEF ScenarioData
  <2>. QED
    BY <2>1 DEF LaneData, IsSeq
<1>3. Lens(s, N, len)
  BY <1>1, <1>2 DEF Lens
<1>4. ss \in [1..N -> Seq(T)] /\ \A l \in 1..N : Len(ss[l]) = len[l]
  <2> SUFFICES ASSUME NEW l \in 1..N
               PROVE  ss[l] \in Seq(T) /\ Len(ss[l]) = len[l]
    BY <1>1
  <2>1. ss[l] = [i \in 1..len[l] |-> [lane |-> l, index |-> i - 1]] /\ len[l] \in Nat
    BY <1>1, <1>2
  <2>2. ss[l] \in [1..len[l] -> T]
    BY <2>1
  <2> HIDE DEF ss, len, T
  <2>. QED
    BY <2>1, <2>2, SeqFrom
<1>5. \A l \in 1..N : \A i \in 1..len[l] : ss[l][i] = [lane |-> l, index |-> i - 1]
  BY <1>1, <1>2
<1>6. CurrentSteps(s) = st
  BY DEF CurrentSteps, SemanticSteps
<1>7. /\ LanesOf(s) = 1..N
      /\ \A l \in 1..N : LenOf(s, l) = len[l] /\ BeginOf(s, l) = StartOf(s, l)
  BY <1>1 DEF LanesOf, LenOf, BeginOf
<1>8. len \in [1..N -> Nat \ {0}]
  BY <1>2
<1> HIDE DEF N, len, ss, T
<1>9. st \in Seq(T) /\ Piece(ss, s, len, st, N)
  BY <1>1, <1>3, <1>4, Pieces
<1>10. \A l \in 1..N : StartOf(s, l) \in Nat
  <2>1. \A l \in 1..N + 1 : StartOf(s, l) \in Nat
    BY <1>3, StartStep
  <2>. QED
    BY <2>1, <1>1
<1> HIDE DEF st
<1>11. ASSUME NEW l \in 1..N, NEW i \in 0..len[l] - 1
       PROVE  StartOf(s, l) + i < Len(st) /\ st[StartOf(s, l) + i + 1] = [lane |-> l, index |-> i]
  <2>1. i + 1 \in 1..len[l] /\ (i + 1) - 1 = i /\ StartOf(s, l) \in Nat /\ len[l] \in Nat
        /\ Len(st) \in Nat
    BY <1>8, <1>9, <1>10
  <2>2. StartOf(s, l) + len[l] <= Len(st) /\ st[StartOf(s, l) + (i + 1)] = ss[l][i + 1]
    BY <1>9, <2>1 DEF Piece
  <2>3. ss[l][i + 1] = [lane |-> l, index |-> i]
    BY <1>5, <2>1
  <2>4. StartOf(s, l) + (i + 1) = StartOf(s, l) + i + 1 /\ StartOf(s, l) + i < Len(st)
    BY <2>1, <2>2
  <2>. QED
    BY <2>2, <2>3, <2>4
<1>12. ASSUME NEW j \in 0..Len(st) - 1
       PROVE  /\ st[j + 1].lane \in 1..N
              /\ st[j + 1].index \in 0..len[st[j + 1].lane] - 1
              /\ j = StartOf(s, st[j + 1].lane) + st[j + 1].index
  <2>1. j + 1 \in 1..Len(st)
    BY <1>9
  <2>2. PICK l \in 1..N : \E i \in 1..len[l] : j + 1 = StartOf(s, l) + i
    BY <1>9, <2>1 DEF Piece
  <2>3. PICK i \in 1..len[l] : j + 1 = StartOf(s, l) + i
    BY <2>2
  <2>4. st[j + 1] = [lane |-> l, index |-> i - 1]
    BY <1>5, <1>9, <2>3 DEF Piece
  <2>5. StartOf(s, l) \in Nat /\ len[l] \in Nat
    BY <1>8, <1>10
  <2>6. i \in Nat /\ 1 <= i /\ i <= len[l] /\ j \in Int
    BY <1>9, <2>3, <2>5
  <2>7. j = StartOf(s, l) + (i - 1) /\ i - 1 \in 0..len[l] - 1
    BY <2>3, <2>5, <2>6
  <2>. QED
    BY <2>4, <2>7
<1>13. /\ \A l \in 1..N : LenOf(s, l) \in Nat \ {0} /\ BeginOf(s, l) \in Nat
       /\ st \in Seq([lane : LanesOf(s), index : Nat])
       /\ 1 \in LanesOf(s) /\ BeginOf(s, 1) = 0
  <2>1. StartOf(s, 1) = 0 /\ 1 \in 1..N
    BY <1>1, <1>3, StartStep
  <2>. QED
    BY <1>7, <1>8, <1>9, <1>10, <2>1 DEF T
<1>14. ASSUME NEW l \in LanesOf(s), NEW i \in 0..LenOf(s, l) - 1
       PROVE  /\ BeginOf(s, l) + i < Len(st)
              /\ st[BeginOf(s, l) + i + 1] = [lane |-> l, index |-> i]
  BY <1>7, <1>11
<1>15. ASSUME NEW j \in 0..Len(st) - 1
       PROVE  /\ st[j + 1].lane \in LanesOf(s)
              /\ st[j + 1].index \in 0..LenOf(s, st[j + 1].lane) - 1
              /\ j = BeginOf(s, st[j + 1].lane) + st[j + 1].index
  BY <1>7, <1>12
<1>. QED
  BY <1>6, <1>7, <1>13, <1>14, <1>15 DEF LaidOut

-----------------------------------------------------------------------------
\* What holds of every scenario of every page.
LEMMA PageData ==
    ASSUME NEW p \in Page
    PROVE  /\ Len(ScenariosOf(p)) \in Nat \ {0}
           /\ DOMAIN ScenariosOf(p) = 1..Len(ScenariosOf(p))
           /\ \A k \in DOMAIN ScenariosOf(p) :
                 /\ ScenarioData(ScenariosOf(p)[k])
                 /\ LaidOut(ScenariosOf(p)[k], StepsOf[p][k])
                 /\ Len(StepsOf[p][k]) \in Nat \ {0}
<1>1. IsSeq(ScenariosOf(p)) /\ ScenariosOf(p) # <<>>
  BY PagesAssumption DEF ScenariosOf
<1>2. /\ Len(ScenariosOf(p)) \in Nat \ {0}
      /\ DOMAIN ScenariosOf(p) = 1..Len(ScenariosOf(p))
  BY <1>1 DEF IsSeq
<1>3. ASSUME NEW k \in DOMAIN ScenariosOf(p) PROVE ScenarioData(ScenariosOf(p)[k])
  BY PagesAssumption DEF ScenariosOf
<1>4. ASSUME NEW k \in DOMAIN ScenariosOf(p)
      PROVE  LaidOut(ScenariosOf(p)[k], StepsOf[p][k])
  <2>1. StepsOf[p][k] = CurrentSteps(ScenariosOf(p)[k])
    BY DEF StepsOf
  <2>. QED
    BY <1>3, <2>1, PlainLaidOut, DiagramLaidOut
<1>5. ASSUME NEW k \in DOMAIN ScenariosOf(p)
      PROVE  Len(StepsOf[p][k]) \in Nat \ {0}
  <2> DEFINE s == ScenariosOf(p)[k]
             st == StepsOf[p][k]
  <2>1. ScenarioData(s) /\ LaidOut(s, st)
    BY <1>3, <1>4
  <2> HIDE DEF s, st
  <2>2. PICK l \in LanesOf(s) : TRUE
    BY <2>1 DEF ScenarioData, LanesOf, HasDiagram, IsSeq
  <2>3. LenOf(s, l) \in Nat \ {0} /\ BeginOf(s, l) \in Nat /\ Len(st) \in Nat
    BY <2>1, <2>2 DEF LaidOut
  <2>4. 0 \in 0..LenOf(s, l) - 1
    BY <2>3
  <2>5. BeginOf(s, l) + 0 < Len(st)
    BY <2>1, <2>2, <2>4 DEF LaidOut
  <2>. QED
    BY <2>3, <2>5 DEF st
<1>. QED
  BY <1>2, <1>3, <1>4, <1>5

\* The indices of a lane are an interval, from its start to its end.
LEMMA LaneInterval ==
    ASSUME NEW p \in Page, NEW k \in DOMAIN ScenariosOf(p), NEW s, s = ScenariosOf(p)[k],
           HasDiagram(s), NEW l \in DOMAIN s.lanes
    PROVE  /\ LaneStepsOf[p][k][l] = BeginOf(s, l)..BeginOf(s, l) + LenOf(s, l) - 1
           /\ Min(LaneStepsOf[p][k][l]) = BeginOf(s, l)
           /\ Max(LaneStepsOf[p][k][l]) = BeginOf(s, l) + LenOf(s, l) - 1
           /\ Cardinality(LaneStepsOf[p][k][l]) = LenOf(s, l)
<1> DEFINE S == LaneStepsOf[p][k][l]
           st == StepsOf[p][k]
           b  == BeginOf(s, l)
           n  == LenOf(s, l)
<1>1. LaidOut(s, st)
  BY PageData
<1>2. S = {i \in 0..Len(st) - 1 : st[i + 1].lane = l}
  BY DEF LaneStepsOf
<1>3. b \in Nat /\ n \in Nat \ {0} /\ Len(st) \in Nat /\ l \in LanesOf(s)
  BY <1>1 DEF LaidOut, LanesOf
<1>4. ASSUME NEW i \in S PROVE i \in b..b + n - 1
  <2>1. i \in 0..Len(st) - 1 /\ st[i + 1].lane = l
    BY <1>2
  <2>2. st[i + 1].index \in 0..n - 1 /\ i = b + st[i + 1].index
    BY <1>1, <2>1 DEF LaidOut
  <2>. QED
    BY <1>3, <2>2
<1>5. ASSUME NEW i \in b..b + n - 1 PROVE i \in S
  <2>1. i - b \in 0..n - 1 /\ b + (i - b) = i
    BY <1>3
  <2>2. b + (i - b) < Len(st) /\ st[b + (i - b) + 1] = [lane |-> l, index |-> i - b]
    BY <1>1, <1>3, <2>1 DEF LaidOut
  <2>3. i \in 0..Len(st) - 1 /\ st[i + 1].lane = l
    BY <1>3, <2>1, <2>2
  <2>. QED
    BY <1>2, <2>3
<1> HIDE DEF S, st, b, n
<1>6. S = b..b + n - 1
  BY <1>4, <1>5
<1>7. Cardinality(S) = n
  BY <1>3, <1>6, FS_Interval
<1>8. /\ S \in SUBSET Int /\ b \in S /\ b + n - 1 \in S
      /\ \A x \in S : b <= x /\ x <= b + n - 1
  BY <1>3, <1>6
<1>9. Min(S) = b /\ Max(S) = b + n - 1
  BY <1>8, MinOf, MaxOf
<1>. QED
  BY <1>6, <1>7, <1>9 DEF S, b, n

-----------------------------------------------------------------------------
\* Where the learner stands, in lanes and positions.
Place ==
    /\ page \in Page /\ scenarioIndex \in Nat
    /\ scenarioIndex + 1 \in DOMAIN ScenariosOf(page)
    /\ ScenarioData(scenario) /\ LaidOut(scenario, steps)
    /\ Len(steps) \in Nat \ {0} /\ stepIndex \in 0..Len(steps) - 1
    /\ activeStep.lane \in LanesOf(scenario)
    /\ activeStep.index \in 0..LenOf(scenario, activeStep.lane) - 1
    /\ stepIndex = BeginOf(scenario, activeStep.lane) + activeStep.index
    /\ BeginOf(scenario, activeStep.lane) \in Nat
    /\ LenOf(scenario, activeStep.lane) \in Nat \ {0}
    /\ diagram =>
          /\ laneStart = BeginOf(scenario, activeStep.lane)
          /\ laneLength = LenOf(scenario, activeStep.lane)
          /\ laneEnd = laneStart + laneLength - 1
          /\ laneSteps = laneStart..laneEnd

\* A page whose state has its type shows a step of one of its lanes.
LEMMA Placed == TypeOK /\ OnSequence => Place
<1> SUFFICES ASSUME TypeOK, OnSequence PROVE Place
  OBVIOUS
<1>1. page \in Page /\ scenarioIndex \in 0..Len(ScenariosOf(page)) - 1
  BY DEF TypeOK, OnSequence, Indices
<1>2. scenarioIndex \in Nat /\ scenarioIndex + 1 \in DOMAIN ScenariosOf(page)
  BY <1>1, PageData
<1>3. ScenarioData(scenario) /\ LaidOut(scenario, steps)
  BY <1>1, <1>2, PageData DEF scenario, ScenarioAt, steps
<1>4. stepIndex \in 0..Len(steps) - 1 /\ Len(steps) \in Nat \ {0}
  BY <1>3 DEF TypeOK, OnSequence, LaidOut
<1>5. /\ activeStep.lane \in LanesOf(scenario)
      /\ activeStep.index \in 0..LenOf(scenario, activeStep.lane) - 1
      /\ stepIndex = BeginOf(scenario, activeStep.lane) + activeStep.index
      /\ BeginOf(scenario, activeStep.lane) \in Nat
      /\ LenOf(scenario, activeStep.lane) \in Nat \ {0}
  BY <1>3, <1>4 DEF LaidOut, activeStep
<1>6. ASSUME diagram
      PROVE  /\ laneStart = BeginOf(scenario, activeStep.lane)
             /\ laneLength = LenOf(scenario, activeStep.lane)
             /\ laneEnd = laneStart + laneLength - 1
             /\ laneSteps = laneStart..laneEnd
  <2>1. activeStep.lane \in DOMAIN scenario.lanes /\ HasDiagram(scenario)
    BY <1>5, <1>6 DEF LanesOf, diagram
  <2>2. scenario = ScenariosOf(page)[scenarioIndex + 1]
    BY DEF scenario, ScenarioAt
  <2>. QED
    BY <1>1, <1>2, <2>1, <2>2, LaneInterval DEF laneStart, laneEnd, laneLength, laneSteps
<1>. QED
  BY <1>1, <1>2, <1>3, <1>4, <1>5, <1>6 DEF Place

\* The same of the state after a step.
LEMMA PlacedNext == ASSUME TypeOK', OnSequence' PROVE Place'
<1>1. (TypeOK /\ OnSequence => Place)'
  BY Placed, PTL
<1>. QED
  BY <1>1

\* Math.min and Math.max of two numbers.
LEMMA Pair ==
    ASSUME NEW a \in Int, NEW b \in Int
    PROVE  /\ Min({a, b}) = IF a <= b THEN a ELSE b
           /\ Max({a, b}) = IF a <= b THEN b ELSE a
<1>1. CASE a <= b
  BY <1>1, MinOf, MaxOf
<1>2. CASE ~(a <= b)
  BY <1>2, MinOf, MaxOf
<1>. QED
  BY <1>1, <1>2

\* The window of seven steps contains the active one, at both ends of a lane too.
LEMMA Windowed == Place /\ diagram => stepIndex \in Shown
<1> SUFFICES ASSUME Place, diagram PROVE stepIndex \in Shown
  OBVIOUS
<1> DEFINE x == activeStep.index
           n == laneLength
<1>1. /\ x \in 0..n - 1 /\ n \in Nat \ {0} /\ laneStart \in Nat /\ stepIndex = laneStart + x
      /\ laneSteps = laneStart..laneEnd /\ laneEnd = laneStart + n - 1
  BY DEF Place
<1>2. LaneWindowStart = laneStart + Min({Max({x - 3, 0}), Max({n - Window, 0})})
  BY DEF LaneWindowStart
<1> HIDE DEF x, n
<1>3. Max({x - 3, 0}) = (IF x - 3 <= 0 THEN 0 ELSE x - 3)
  <2>1. x - 3 \in Int /\ 0 \in Int
    BY <1>1
  <2>. QED
    BY <2>1, Pair
<1>4. Max({n - Window, 0}) = (IF n - Window <= 0 THEN 0 ELSE n - Window)
  <2>1. n - Window \in Int /\ 0 \in Int
    BY <1>1 DEF Window
  <2>. QED
    BY <2>1, Pair
<1> DEFINE a == Max({x - 3, 0})
           b == Max({n - Window, 0})
<1>5. a \in Int /\ b \in Int
  BY <1>1, <1>3, <1>4 DEF Window
<1> HIDE DEF a, b
<1>6. Min({a, b}) = IF a <= b THEN a ELSE b
  BY <1>5, Pair
<1>7. stepIndex \in LaneWindowStart..LaneWindowStart + Window - 1
  BY <1>1, <1>2, <1>3, <1>4, <1>5, <1>6 DEF a, b, Window
<1>8. stepIndex \in laneSteps
  BY <1>1
<1>. QED
  BY <1>7, <1>8 DEF Shown

\* The window begins at some index.
LEMMA WindowType == ASSUME Place, diagram PROVE LaneWindowStart \in Int
<1> DEFINE x == activeStep.index
           n == laneLength
<1>1. x \in Nat /\ n \in Nat /\ laneStart \in Nat
  BY DEF Place
<1> HIDE DEF x, n
<1>2. x - 3 \in Int /\ n - Window \in Int /\ 0 \in Int
  BY <1>1 DEF Window
<1>3. Max({x - 3, 0}) \in Int /\ Max({n - Window, 0}) \in Int
  BY <1>2, Pair
<1>4. Min({Max({x - 3, 0}), Max({n - Window, 0})}) \in Int
  BY <1>3, Pair
<1>. QED
  BY <1>1, <1>4 DEF LaneWindowStart, x, n

\* Where a click leads that is given an index.
LEMMA Rendered ==
    ASSUME TypeOK, OnSequence, NEW k \in Indices, NEW i \in Nat, Render(k, i)
    PROVE  /\ page' = page /\ page \in Page /\ narrow' = narrow /\ OnSequence'
           /\ Indices' = Indices /\ scenarioIndex' = k
           /\ scenario' = ScenariosOf(page)[k + 1]
           /\ steps' = StepsOf[page][k + 1] /\ Len(steps') \in Nat \ {0}
           /\ stepIndex' \in 0..Len(steps') - 1
           /\ i < Len(steps') => stepIndex' = i
<1>1. page' = page /\ page \in Page /\ narrow' = narrow /\ OnSequence' /\ Indices' = Indices
  BY DEF Render, TypeOK, OnSequence, Indices
<1>2. k \in 0..Len(ScenariosOf(page)) - 1 /\ Len(ScenariosOf(page)) \in Nat
      /\ k + 1 \in DOMAIN ScenariosOf(page)
  BY <1>1, PageData DEF Indices
<1>3. scenarioIndex' = k
  <2>1. scenarioIndex' = Min({k, Len(ScenariosOf(page)) - 1})
    BY DEF Render
  <2>. QED
    BY <1>2, <2>1, Pair
<1>4. scenario' = ScenariosOf(page)[k + 1] /\ steps' = StepsOf[page][k + 1]
  BY <1>1, <1>3 DEF scenario, ScenarioAt, steps
<1>5. Len(steps') \in Nat \ {0}
  BY <1>1, <1>2, <1>4, PageData
<1>6. stepIndex' = IF i <= Len(steps') - 1 THEN i ELSE Len(steps') - 1
  <2>1. stepIndex' = Min({i, Len(steps') - 1})
    BY DEF Render
  <2>2. Len(steps') - 1 \in Int /\ i \in Int
    BY <1>5
  <2>. QED
    BY <2>1, <2>2, Pair
<1>. QED
  BY <1>1, <1>3, <1>4, <1>5, <1>6

-----------------------------------------------------------------------------
\* The lanes around the active one, and where the buttons lead.
LEMMA LanesAround ==
    ASSUME Place, diagram
    PROVE  /\ DOMAIN lanes = LanesOf(scenario) /\ DOMAIN lanes \in SUBSET Nat
           /\ \A l \in DOMAIN lanes :
                 /\ LaneData(lanes[l])
                 /\ \A m \in DOMAIN lanes : lanes[l].id = lanes[m].id => l = m
           /\ activeStep.lane \in DOMAIN lanes /\ activeLane = lanes[activeStep.lane]
           /\ NextLanes # {} => \E m \in DOMAIN lanes : NextLanes = {m} /\ Min(NextLanes) = m
           /\ OnlyPreviousLane # {} =>
                 \E m \in DOMAIN lanes : /\ PreviousLanes = {m}
                                         /\ Min(OnlyPreviousLane) = m
<1>1. ScenarioData(scenario) /\ HasDiagram(scenario) /\ activeStep.lane \in LanesOf(scenario)
  BY DEF Place, diagram
<1>2. DOMAIN lanes = LanesOf(scenario) /\ DOMAIN lanes = 1..Len(lanes) /\ Len(lanes) \in Nat
  BY <1>1 DEF lanes, LanesOf, ScenarioData, IsSeq
<1>3. \A l \in DOMAIN lanes :
          /\ LaneData(lanes[l])
          /\ \A m \in DOMAIN lanes : lanes[l].id = lanes[m].id => l = m
  <2>1. \A l \in DOMAIN lanes : LaneData(lanes[l])
    BY <1>1 DEF ScenarioData, lanes
  <2>2. IsInjective([l \in DOMAIN lanes |-> lanes[l].id])
    BY <1>1 DEF ScenarioData, lanes
  <2>. QED
    BY <2>1, <2>2 DEF IsInjective
<1>4. activeStep.lane \in DOMAIN lanes /\ activeLane = lanes[activeStep.lane]
  BY <1>1, <1>2 DEF activeLane
<1>5. ASSUME NextLanes # {}
      PROVE  \E m \in DOMAIN lanes : NextLanes = {m} /\ Min(NextLanes) = m
  <2>1. PICK m \in NextLanes : TRUE
    BY <1>5
  <2>2. m \in DOMAIN lanes /\ activeLane.nextLaneIds = << lanes[m].id >>
    BY <2>1 DEF NextLanes
  <2>3. ASSUME NEW l \in NextLanes PROVE l = m
    <3>1. l \in DOMAIN lanes /\ activeLane.nextLaneIds = << lanes[l].id >>
      BY <2>3 DEF NextLanes
    <3>2. lanes[l].id = lanes[m].id
      BY <2>2, <3>1
    <3>. QED
      BY <1>3, <2>2, <3>1, <3>2
  <2>4. NextLanes = {m} /\ m \in Int
    BY <1>2, <2>1, <2>2, <2>3
  <2>5. Min({m}) = m
    BY <2>4, MinOf
  <2>. QED
    BY <2>2, <2>4, <2>5
<1>6. ASSUME OnlyPreviousLane # {}
      PROVE  \E m \in DOMAIN lanes : PreviousLanes = {m} /\ Min(OnlyPreviousLane) = m
  <2>1. Cardinality(PreviousLanes) = 1 /\ OnlyPreviousLane = PreviousLanes
    BY <1>6 DEF OnlyPreviousLane
  <2>2. PreviousLanes \subseteq DOMAIN lanes /\ IsFiniteSet(PreviousLanes)
    <3>1. IsFiniteSet(1..Len(lanes))
      BY <1>2, FS_Interval
    <3>2. PreviousLanes \subseteq DOMAIN lanes
      BY DEF PreviousLanes
    <3>. QED
      BY <1>2, <3>1, <3>2, FS_Subset
  <2>3. PICK m : PreviousLanes = {m}
    BY <2>1, <2>2, FS_Singleton
  <2>4. m \in DOMAIN lanes /\ m \in Int
    BY <1>2, <2>2, <2>3
  <2>5. Min({m}) = m
    BY <2>4, MinOf
  <2>. QED
    BY <2>1, <2>3, <2>4, <2>5
<1>. QED
  BY <1>2, <1>3, <1>4, <1>5, <1>6

\* A lane lies in the steps where laneStartIndex says.
LEMMA LaneStart ==
    ASSUME Place, diagram, NEW l \in DOMAIN lanes
    PROVE  /\ LaneStartIndex(l) = BeginOf(scenario, l)
           /\ BeginOf(scenario, l) \in Nat /\ LenOf(scenario, l) \in Nat \ {0}
           /\ Len(lanes[l].steps) = LenOf(scenario, l)
           /\ BeginOf(scenario, l) + LenOf(scenario, l) <= Len(steps)
<1> DEFINE s == scenario
           st == steps
           b == BeginOf(s, l)
           n == LenOf(s, l)
<1>1. l \in LanesOf(s) /\ LaidOut(s, st)
  BY LanesAround DEF Place
<1>2. LaneStartIndex(l) = b /\ Len(lanes[l].steps) = n
  BY DEF LaneStartIndex, BeginOf, LenOf, lanes, diagram
<1> HIDE DEF s, st
<1>3. b \in Nat /\ n \in Nat \ {0} /\ Len(st) \in Nat
  BY <1>1 DEF LaidOut
<1>4. n - 1 \in 0..n - 1
  BY <1>3
<1>5. b + (n - 1) < Len(st)
  BY <1>1, <1>4 DEF LaidOut
<1> HIDE DEF b, n
<1>6. b + n <= Len(st)
  BY <1>3, <1>5
<1>. QED
  BY <1>2, <1>3, <1>6 DEF s, st, b, n

NextLeadsTo ==
    \/ /\ activeStep.index + 1 < laneLength
       /\ NextTarget = stepIndex + 1 /\ stepIndex + 1 < Len(steps)
    \/ /\ activeStep.index + 1 = laneLength
       /\ \E m \in DOMAIN lanes : NextLanes = {m} /\ NextTarget = BeginOf(scenario, m)

\* Where the enabled button "next" leads.
LEMMA NextLeads == Place /\ diagram /\ ~NextDisabled => NextLeadsTo
<1> SUFFICES ASSUME Place, diagram, ~NextDisabled PROVE NextLeadsTo
  OBVIOUS
<1> DEFINE x == activeStep.index
           n == laneLength
<1>1. /\ x \in 0..n - 1 /\ n \in Nat \ {0} /\ laneStart \in Nat /\ stepIndex = laneStart + x
      /\ laneEnd = laneStart + n - 1 /\ laneStart = BeginOf(scenario, activeStep.lane)
      /\ n = LenOf(scenario, activeStep.lane) /\ Len(steps) \in Nat
  BY DEF Place
<1>2. NextDisabled <=> x >= n - 1 /\ ~CanMoveToNextLane
  BY DEF NextDisabled
<1>3. CanMoveToNextLane <=> x >= n - 1 /\ NextLanes # {}
  BY DEF CanMoveToNextLane
<1>4. NextTarget = IF CanMoveToNextLane THEN LaneStartIndex(Min(NextLanes))
                                         ELSE Min({laneEnd, stepIndex + 1})
  BY DEF NextTarget
<1>5. laneStart + n <= Len(steps)
  BY <1>1, LanesAround, LaneStart
<1> HIDE DEF x, n
<1>6. CASE x + 1 < n
  <2>1. /\ laneEnd \in Int /\ stepIndex + 1 \in Int /\ stepIndex + 1 <= laneEnd
        /\ stepIndex + 1 < Len(steps)
    <3>1. laneStart \in Nat /\ x \in Nat /\ n \in Nat /\ x + 1 < n
          /\ Len(steps) \in Nat /\ laneStart + n <= Len(steps)
      BY <1>1, <1>5, <1>6
    <3>2. stepIndex = laneStart + x /\ laneEnd = laneStart + n - 1
      BY <1>1
    <3>. QED
      BY <3>1, <3>2
  <2>2. Min({laneEnd, stepIndex + 1}) = stepIndex + 1
    BY <2>1, Pair
  <2>. QED
    <3>1. ~CanMoveToNextLane
      BY <1>1, <1>3, <1>6
    <3>. QED
      BY <1>4, <1>6, <2>1, <2>2, <3>1 DEF x, n, NextLeadsTo
<1>7. CASE ~(x + 1 < n)
  <2>1. CanMoveToNextLane /\ NextLanes # {} /\ x + 1 = n
    BY <1>1, <1>2, <1>3, <1>7
  <2>2. PICK m \in DOMAIN lanes : NextLanes = {m} /\ Min(NextLanes) = m
    BY <2>1, LanesAround
  <2>3. NextTarget = BeginOf(scenario, m)
    BY <1>4, <2>1, <2>2, LaneStart
  <2>. QED
    BY <2>1, <2>2, <2>3 DEF x, n, NextLeadsTo
<1>. QED
  BY <1>6, <1>7

PreviousLeadsTo ==
    \/ /\ activeStep.index > 0
       /\ PreviousTarget = stepIndex - 1 /\ stepIndex - 1 \in Nat
    \/ /\ activeStep.index = 0
       /\ \E m \in DOMAIN lanes :
             /\ PreviousLanes = {m}
             /\ PreviousTarget = BeginOf(scenario, m) + LenOf(scenario, m) - 1

\* Where the enabled button "previous" leads.
LEMMA PreviousLeads == Place /\ diagram /\ ~PreviousDisabled => PreviousLeadsTo
<1> SUFFICES ASSUME Place, diagram, ~PreviousDisabled PROVE PreviousLeadsTo
  OBVIOUS
<1> DEFINE x == activeStep.index
<1>1. /\ x \in Nat /\ laneStart \in Nat /\ stepIndex = laneStart + x
  BY DEF Place
<1>2. PreviousDisabled <=> x = 0 /\ ~CanMoveToPreviousLane
  BY DEF PreviousDisabled
<1>3. CanMoveToPreviousLane <=> x = 0 /\ OnlyPreviousLane # {}
  BY DEF CanMoveToPreviousLane
<1> HIDE DEF x
<1>4. CASE x > 0
  <2>1. PreviousTarget = Max({laneStart, stepIndex - 1})
    BY <1>1, <1>3, <1>4 DEF PreviousTarget
  <2>2. /\ stepIndex - 1 \in Nat /\ laneStart <= stepIndex - 1
        /\ laneStart \in Int /\ stepIndex - 1 \in Int
    BY <1>1, <1>4
  <2>3. Max({laneStart, stepIndex - 1}) =
            IF laneStart <= stepIndex - 1 THEN stepIndex - 1 ELSE laneStart
    BY <2>2, Pair
  <2>. QED
    BY <1>4, <2>1, <2>2, <2>3 DEF x, PreviousLeadsTo
<1>5. CASE x = 0
  <2>1. CanMoveToPreviousLane /\ OnlyPreviousLane # {}
    BY <1>2, <1>3, <1>5
  <2>2. PICK m \in DOMAIN lanes : PreviousLanes = {m} /\ Min(OnlyPreviousLane) = m
    BY <2>1, LanesAround
  <2>3. PreviousTarget = LaneStartIndex(m) + Len(lanes[m].steps) - 1
    BY <2>1, <2>2 DEF PreviousTarget
  <2>4. PreviousTarget = BeginOf(scenario, m) + LenOf(scenario, m) - 1
    BY <2>3, LaneStart
  <2>. QED
    BY <1>5, <2>2, <2>4 DEF x, PreviousLeadsTo
<1>. QED
  BY <1>1, <1>4, <1>5

-----------------------------------------------------------------------------
\* A nonempty set of indices has a greatest one.
LEMMA LastOf ==
    ASSUME NEW n \in Nat, NEW S \in SUBSET (1..n), S # {}
    PROVE  Max(S) \in S
<1> DEFINE A == {m \in Nat : m <= n /\ n - m \in S}
<1>1. PICK x \in S : TRUE
  OBVIOUS
<1>2. n - x \in A
  BY <1>1
<1>3. PICK m \in A : \A k \in A : << k, m >> \notin Below
  <2>1. A \subseteq Nat /\ A # {}
    BY <1>2
  <2> HIDE DEF A
  <2>. QED
    BY <2>1, NatOrder, WFMin
<1>4. n - m \in S /\ m \in Nat
  OBVIOUS
<1>5. ASSUME NEW y \in S PROVE y <= n - m
  <2>1. n - y \in A /\ y \in Nat
    OBVIOUS
  <2>2. ~(n - y < m)
    BY <1>3, <1>4, <2>1 DEF Below
  <2>. QED
    BY <1>4, <2>1, <2>2
<1>6. Max(S) = n - m
  <2>1. S \in SUBSET Int
    OBVIOUS
  <2>. QED
    BY <1>4, <1>5, <2>1, MaxOf
<1>. QED
  BY <1>4, <1>6

\* The focus that the last call of render() asks for is on its way, or there.
FocusKept ==
    expected # Nowhere =>
        /\ frames = <<>> => focus = expected
        /\ frames # <<>> => frames[Len(frames)] = expected /\ Focusable(expected)

Inv == TypeOK /\ LockedAtStart /\ FocusKept

\* The keys that are used are keys.
LEMMA KeyType ==
    /\ Nowhere \in Keys
    /\ \A i \in Int : /\ Key("scenario", i) \in Keys /\ Key("lane", i) \in Keys
                      /\ Key("step", i) \in Keys /\ Key("route", i) \in Keys
                      /\ Key("option", i) \in Keys
  BY DEF Nowhere, Key, Keys

\* A click on a control of the page, whatever it is.
LEMMA Clicked ==
    ASSUME TypeOK, OnSequence, NEW k \in Indices, NEW i \in Nat, NEW key \in Keys,
           Click(k, i, key), predictions' = predictions, revealed' \subseteq DOMAIN predictions
    PROVE  TypeOK' /\ frames' # <<>> /\ frames'[Len(frames')] = key /\ expected' = key
<1>1. Render(k, i) /\ frames' = Append(frames, key) /\ expected' = key
      /\ Len(frames) < MaxPending
  BY DEF Click
<1>2. /\ page' = page /\ narrow' = narrow /\ OnSequence' /\ Indices' = Indices
      /\ scenarioIndex' = k /\ stepIndex' \in 0..Len(steps') - 1
  BY <1>1, Rendered
<1>3. frames' \in Seq(Keys) /\ Len(frames') = Len(frames) + 1 /\ frames' # <<>>
      /\ frames'[Len(frames')] = key /\ Len(frames) \in Nat
  BY <1>1 DEF TypeOK
<1>4. focus' \in Keys
  BY <1>1, KeyType DEF Render
<1>5. Len(frames') <= MaxPending
  BY <1>1, <1>3, PagesAssumption
<1>6. DOMAIN predictions' \subseteq Indices' /\ Range(predictions') \subseteq BOOLEAN
      /\ revealed' \subseteq DOMAIN predictions'
  BY <1>2 DEF TypeOK
<1>7. page' \in Page \cup {Hub} /\ narrow' \in BOOLEAN
  BY <1>2 DEF TypeOK
<1>8. stepIndex' \in IF OnSequence' THEN 0..Len(steps') - 1 ELSE {0}
  BY <1>2
<1>. QED
  BY <1>1, <1>2, <1>3, <1>4, <1>5, <1>6, <1>7, <1>8 DEF TypeOK

\* A click on a control of the path.
LEMMA Went ==
    ASSUME TypeOK, OnSequence, NEW i \in Nat, NEW key \in Keys, GoTo(i, key)
    PROVE  /\ TypeOK' /\ OnSequence' /\ IsRevealed'
           /\ page' = page /\ narrow' = narrow /\ scenarioIndex' = scenarioIndex
           /\ scenario' = scenario /\ steps' = steps /\ (diagram <=> diagram')
           /\ i < Len(steps) => stepIndex' = i
           /\ frames' # <<>> /\ frames'[Len(frames')] = key /\ expected' = key
<1>1. /\ IsRevealed /\ Click(scenarioIndex, i, key)
      /\ predictions' = predictions /\ revealed' = revealed
  BY DEF GoTo, learner
<1>2. scenarioIndex \in Indices /\ revealed' \subseteq DOMAIN predictions
  BY <1>1 DEF TypeOK
<1>3. TypeOK' /\ frames' # <<>> /\ frames'[Len(frames')] = key /\ expected' = key
  BY <1>1, <1>2, Clicked
<1>4. Render(scenarioIndex, i)
  BY <1>1 DEF Click
<1>5. /\ page' = page /\ narrow' = narrow /\ OnSequence' /\ scenarioIndex' = scenarioIndex
      /\ scenario' = ScenariosOf(page)[scenarioIndex + 1]
      /\ steps' = StepsOf[page][scenarioIndex + 1]
      /\ i < Len(steps') => stepIndex' = i
  BY <1>2, <1>4, Rendered
<1>6. scenario' = scenario /\ steps' = steps
  BY <1>5 DEF scenario, ScenarioAt, steps
<1>. QED
  BY <1>1, <1>3, <1>5, <1>6 DEF IsRevealed, diagram

\* After a step is selected by its index the focus can go to it.
LEMMA MovedTo ==
    ASSUME TypeOK, OnSequence, diagram, NEW i \in 0..Len(steps) - 1, MoveTo(i)
    PROVE  /\ TypeOK' /\ OnSequence' /\ IsRevealed' /\ page' = page
           /\ scenarioIndex' = scenarioIndex /\ scenario' = scenario /\ steps' = steps
           /\ stepIndex' = i /\ FocusKept'
<1>1. i \in Nat /\ i < Len(steps) /\ i \in Int
  BY Placed DEF Place
<1>2. GoTo(i, Key("step", i)) /\ Key("step", i) \in Keys
  BY <1>1, KeyType DEF MoveTo, KeyOfStep
<1>3. /\ TypeOK' /\ OnSequence' /\ IsRevealed' /\ page' = page /\ diagram'
      /\ scenarioIndex' = scenarioIndex /\ scenario' = scenario /\ steps' = steps
      /\ stepIndex' = i /\ frames' # <<>> /\ frames'[Len(frames')] = Key("step", i)
      /\ expected' = Key("step", i)
  BY <1>1, <1>2, Went
<1>4. (Place /\ diagram => stepIndex \in Shown)'
  BY Windowed, PTL
<1>5. stepIndex' \in Shown'
  BY <1>3, <1>4, PlacedNext
<1>6. Focusable(expected)'
  BY <1>3, <1>5 DEF Focusable, Key
<1>. QED
  BY <1>3, <1>6 DEF FocusKept

-----------------------------------------------------------------------------
\* Links lead to pages that exist.
LEMMA LinksLead == TypeOK => Links \cup {page} \subseteq Page \cup {Hub}
  BY PagesAssumption DEF TypeOK, Links, OnSequence, LocalNext

\* A page that is loaded, at first or later.
LEMMA Loaded == Init => Inv
<1> SUFFICES ASSUME Init PROVE Inv
  OBVIOUS
<1>0. /\ page \in Page \cup {Hub} /\ narrow \in BOOLEAN /\ scenarioIndex = 0 /\ stepIndex = 0
      /\ predictions = <<>> /\ revealed = {} /\ focus = Nowhere /\ frames = <<>>
      /\ expected = Nowhere
  BY DEF Init
<1>1. DOMAIN predictions = {} /\ Range(predictions) = {}
  BY <1>0 DEF Range
<1>2. scenarioIndex \in Indices
        /\ stepIndex \in IF OnSequence THEN 0..Len(steps) - 1 ELSE {0}
  <2>1. CASE page \in Page
    <3>1. Len(ScenariosOf(page)) \in Nat \ {0}
      BY <2>1, PageData
    <3>2. 1 \in DOMAIN ScenariosOf(page) /\ 0 + 1 = 1
      BY <2>1, <3>1, PageData
    <3>3. Len(steps) \in Nat \ {0}
      BY <1>0, <2>1, <3>2, PageData DEF steps
    <3>. QED
      BY <1>0, <3>1, <3>3, <2>1, PagesAssumption DEF Indices, OnSequence
  <2>2. CASE page = Hub
    BY <1>0, <2>2 DEF Indices, OnSequence
  <2>. QED
    BY <1>0, <2>1, <2>2
<1>3. frames \in Seq(Keys) /\ Len(frames) = 0
  BY <1>0
<1>4. TypeOK
  BY <1>0, <1>1, <1>2, <1>3, KeyType, PagesAssumption DEF TypeOK
<1>. QED
  BY <1>0, <1>4 DEF Inv, LockedAtStart, FocusKept

\* A page that is opened by a link, or again.
LEMMA OpenStep ==
    ASSUME Inv, NEW p \in Links \cup {page}, Open(p)
    PROVE  Inv'
<1>1. p \in Page \cup {Hub} /\ narrow \in BOOLEAN
  BY LinksLead DEF Inv, TypeOK
<1>2. (Init => Inv)'
  BY Loaded, PTL
<1>3. Init'
  BY <1>1 DEF Open, Fresh, Init
<1>. QED
  BY <1>2, <1>3

\* The next frame puts the focus where the last click asked for it.
LEMMA FrameStep ==
    ASSUME Inv, Frame
    PROVE  Inv'
<1> DEFINE found == {i \in DOMAIN frames : Focusable(frames[i])}
<1>1. /\ frames # <<>> /\ frames' = <<>> /\ UNCHANGED << page, narrow, indices, learner, expected >>
      /\ focus' = IF found = {} THEN focus ELSE frames[Max(found)]
  BY DEF Frame
<1>2. frames \in Seq(Keys) /\ Len(frames) \in Nat \ {0} /\ DOMAIN frames = 1..Len(frames)
  BY <1>1 DEF Inv, TypeOK
<1>3. Focusable(frames[Len(frames)]) => found # {} /\ Max(found) = Len(frames)
  <2> SUFFICES ASSUME Focusable(frames[Len(frames)])
               PROVE  found # {} /\ Max(found) = Len(frames)
    OBVIOUS
  <2>1. Len(frames) \in found /\ found \in SUBSET Int /\ \A x \in found : x <= Len(frames)
    BY <1>2
  <2> HIDE DEF found
  <2>. QED
    BY <2>1, MaxOf
<1>4. focus' \in Keys
  <2>1. CASE found = {}
    BY <1>1, <2>1 DEF Inv, TypeOK
  <2>2. CASE found # {}
    <3>1. Max(found) \in found
      <4>1. found \in SUBSET (1..Len(frames))
        BY <1>2
      <4> HIDE DEF found
      <4>. QED
        BY <1>2, <2>2, <4>1, LastOf
    <3>. QED
      BY <1>1, <1>2, <2>2, <3>1
  <2>. QED
    BY <2>1, <2>2
<1>5. expected # Nowhere => focus' = expected
  BY <1>1, <1>3 DEF Inv, FocusKept
<1>6. frames' \in Seq(Keys) /\ Len(frames') = 0
  BY <1>1
<1>7. TypeOK'
  <2>1. OnSequence' = OnSequence /\ Indices' = Indices /\ steps' = steps
    BY <1>1 DEF OnSequence, Indices, steps, indices
  <2>. QED
    BY <1>1, <1>4, <1>6, <2>1, PagesAssumption DEF Inv, TypeOK, indices, learner
<1>8. LockedAtStart'
  BY <1>1 DEF Inv, LockedAtStart, IsRevealed, OnSequence, indices, learner
<1>. QED
  BY <1>1, <1>5, <1>7, <1>8 DEF Inv, FocusKept

\* A scenario without a diagram has one lane, and a route with at least one node.
LEMMA PlainRoute ==
    ASSUME Place, ~diagram
    PROVE  /\ Len(steps) = scenario.flow /\ scenario.flow \in Nat \ {0}
           /\ scenario.route \in Nat \ {0} /\ scenario.stopAfter \in 0..scenario.route - 1
           /\ \A i \in 0..Len(steps) - 1 : steps[i + 1].lane = 1 /\ steps[i + 1].index = i
           /\ LanesOf(scenario) = {1} /\ LenOf(scenario, 1) = scenario.flow
           /\ BeginOf(scenario, 1) = 0
<1>1. ~HasDiagram(scenario) /\ ScenarioData(scenario) /\ LaidOut(scenario, steps)
  BY DEF Place, diagram
<1>2. /\ scenario.flow \in Nat \ {0} /\ scenario.route \in Nat \ {0}
      /\ scenario.stopAfter \in 0..scenario.route - 1
  BY <1>1 DEF ScenarioData
<1>3. LanesOf(scenario) = {1} /\ LenOf(scenario, 1) = scenario.flow /\ BeginOf(scenario, 1) = 0
  BY <1>1 DEF LanesOf, LenOf, BeginOf
<1>4. Len(steps) \in Nat \ {0}
  BY DEF Place
<1>5. \A j \in 0..Len(steps) - 1 :
         steps[j + 1].lane = 1 /\ steps[j + 1].index = j /\ j \in 0..scenario.flow - 1
  <2> SUFFICES ASSUME NEW j \in 0..Len(steps) - 1
               PROVE  /\ steps[j + 1].lane = 1 /\ steps[j + 1].index = j
                      /\ j \in 0..scenario.flow - 1
    OBVIOUS
  <2>1. /\ steps[j + 1].lane \in LanesOf(scenario)
        /\ steps[j + 1].index \in 0..LenOf(scenario, steps[j + 1].lane) - 1
        /\ j = BeginOf(scenario, steps[j + 1].lane) + steps[j + 1].index
    BY <1>1 DEF LaidOut
  <2>. QED
    BY <1>2, <1>3, <2>1
<1>6. scenario.flow - 1 < Len(steps)
  <2>1. 1 \in LanesOf(scenario) /\ scenario.flow - 1 \in 0..LenOf(scenario, 1) - 1
    BY <1>2, <1>3
  <2>2. BeginOf(scenario, 1) + (scenario.flow - 1) < Len(steps)
    BY <1>1, <2>1 DEF LaidOut
  <2>. QED
    BY <1>2, <1>3, <2>2
<1>7. Len(steps) = scenario.flow
  <2>1. Len(steps) - 1 \in 0..Len(steps) - 1
    BY <1>4
  <2>2. Len(steps) - 1 \in 0..scenario.flow - 1
    BY <1>5, <2>1
  <2>. QED
    BY <1>2, <1>4, <1>6, <2>2
<1>. QED
  BY <1>2, <1>3, <1>5, <1>7

\* The quotient of integers.
LEMMA Divided ==
    ASSUME NEW x \in Nat, NEW y \in Nat \ {0}
    PROVE  x \div y \in Nat /\ y * (x \div y) <= x /\ x < y * (x \div y) + y
<1>1. x \div y \in Nat
  OBVIOUS
<1>2. y * (x \div y) <= x
  OBVIOUS
<1>3. x < y * (x \div y) + y
  OBVIOUS
<1>. QED
  BY <1>1, <1>2, <1>3

\* Math.round is off by half of the divisor at most.
LEMMA Rounded ==
    ASSUME NEW a \in Nat, NEW b \in Nat \ {0}
    PROVE  /\ Round(a, b) \in Nat
           /\ (2 * b) * Round(a, b) <= 2 * a + b
           /\ 2 * a + b < (2 * b) * Round(a, b) + 2 * b
<1>1. 2 * a + b \in Nat /\ 2 * b \in Nat \ {0}
  OBVIOUS
<1>2. Round(a, b) = (2 * a + b) \div (2 * b)
  BY DEF Round
<1>. QED
  BY <1>1, <1>2, Divided

\* A node stands for a step.
LEMMA NodeStep ==
    ASSUME Place, ~diagram, NEW n \in OpenNodes
    PROVE  n \in Nat /\ n \in Int /\ StepOfNode(n) \in Nat
<1>1. Len(steps) \in Nat \ {0} /\ scenario.route \in Nat \ {0} /\ n \in Nat
  BY PlainRoute DEF OpenNodes
<1>2. CASE scenario.route <= 1
  BY <1>1, <1>2 DEF StepOfNode
<1>3. CASE ~(scenario.route <= 1)
  <2> DEFINE a == n * (Len(steps) - 1)
             b == scenario.route - 1
  <2>1. a \in Nat /\ b \in Nat \ {0}
    BY <1>1, <1>3
  <2>2. StepOfNode(n) = Round(a, b)
    BY <1>3 DEF StepOfNode
  <2> HIDE DEF a, b
  <2>. QED
    BY <1>1, <2>1, <2>2, Rounded
<1>. QED
  BY <1>2, <1>3

\* Another scenario begins at its first step, whatever was selected before.
LEMMA ScenarioStep ==
    ASSUME Inv, OnSequence, NEW k \in Indices, SelectScenario(k)
    PROVE  Inv'
<1>1. Click(k, 0, Key("scenario", k)) /\ UNCHANGED << predictions, revealed >>
  BY DEF SelectScenario, StepOfNewScenario, learner
<1>2. k \in Int /\ TypeOK /\ revealed \subseteq DOMAIN predictions
  BY PageData DEF Inv, TypeOK, OnSequence, Indices
<1>3. /\ TypeOK' /\ frames' # <<>> /\ frames'[Len(frames')] = Key("scenario", k)
      /\ expected' = Key("scenario", k)
  BY <1>1, <1>2, KeyType, Clicked
<1>4. OnSequence' /\ scenarioIndex' = k /\ stepIndex' = 0 /\ Indices' = Indices
  BY <1>1, <1>2, Rendered DEF Click
<1>5. Focusable(expected)'
  BY <1>3, <1>4 DEF Focusable, Key
<1>. QED
  BY <1>3, <1>4, <1>5 DEF Inv, LockedAtStart, FocusKept

\* A prediction opens nothing.
LEMMA PredictStep ==
    ASSUME Inv, OnSequence, NEW o, Predict(o)
    PROVE  Inv'
<1>1. /\ predictions' = [k \in DOMAIN predictions \cup {scenarioIndex} |->
            IF k = scenarioIndex THEN o = scenario.answer ELSE predictions[k]]
      /\ focus' = Key("option", 0) /\ expected' = Nowhere
      /\ UNCHANGED << page, narrow, indices, revealed, frames >>
  BY DEF Predict
<1>2. /\ DOMAIN predictions \subseteq Indices /\ Range(predictions) \subseteq BOOLEAN
      /\ revealed \subseteq DOMAIN predictions /\ scenarioIndex \in Indices
  BY DEF Inv, TypeOK
<1>3. DOMAIN predictions' = DOMAIN predictions \cup {scenarioIndex}
  BY <1>1
<1>4. Range(predictions') \subseteq BOOLEAN
  <2> SUFFICES ASSUME NEW k \in DOMAIN predictions' PROVE predictions'[k] \in BOOLEAN
    BY DEF Range
  <2>1. CASE k = scenarioIndex
    BY <1>1, <1>3, <2>1
  <2>2. CASE k # scenarioIndex
    BY <1>1, <1>2, <1>3, <2>2 DEF Range
  <2>. QED
    BY <2>1, <2>2
<1>5. OnSequence' = OnSequence /\ Indices' = Indices /\ steps' = steps
  BY <1>1 DEF OnSequence, Indices, steps, indices
<1>6. TypeOK'
  <2>1. /\ page' = page /\ narrow' = narrow /\ scenarioIndex' = scenarioIndex
        /\ stepIndex' = stepIndex /\ revealed' = revealed /\ frames' = frames
    BY <1>1 DEF indices
  <2>2. DOMAIN predictions' \subseteq Indices' /\ revealed' \subseteq DOMAIN predictions'
    BY <1>2, <1>3, <1>5, <2>1
  <2>3. focus' \in Keys /\ expected' \in Keys
    BY <1>1, KeyType
  <2>. QED
    BY <1>4, <1>5, <2>1, <2>2, <2>3 DEF Inv, TypeOK
<1>7. LockedAtStart'
  <2>1. scenarioIndex' = scenarioIndex /\ stepIndex' = stepIndex /\ revealed' = revealed
    BY <1>1 DEF indices
  <2>. QED
    BY <1>5, <2>1 DEF Inv, LockedAtStart, IsRevealed
<1>. QED
  BY <1>1, <1>6, <1>7 DEF Inv, FocusKept

\* A scenario is opened at its first step, where the focus goes.
LEMMA RevealStep ==
    ASSUME Inv, OnSequence, Reveal
    PROVE  Inv'
<1> DEFINE key == Key(IF diagram THEN "step" ELSE "route", stepIndex)
<1>1. /\ scenarioIndex \in DOMAIN predictions
      /\ revealed' = revealed \cup {scenarioIndex} /\ predictions' = predictions
      /\ Click(scenarioIndex, stepIndex, key) /\ ~IsRevealed
  BY DEF Reveal, PredictionMade
<1>2. /\ TypeOK /\ Place /\ stepIndex = 0 /\ scenarioIndex \in Indices
      /\ revealed' \subseteq DOMAIN predictions
  BY <1>1, Placed DEF Inv, LockedAtStart, TypeOK
<1>3. key \in Keys /\ stepIndex \in Nat
  BY <1>2, KeyType
<1>4. TypeOK' /\ frames' # <<>> /\ frames'[Len(frames')] = key /\ expected' = key
  <2> HIDE DEF key
  <2>. QED
    BY <1>1, <1>2, <1>3, Clicked
<1>5. /\ page' = page /\ OnSequence' /\ scenarioIndex' = scenarioIndex
      /\ scenario' = ScenariosOf(page)[scenarioIndex + 1]
      /\ 0 < Len(steps') => stepIndex' = 0
      /\ Len(steps') \in Nat \ {0}
  <2>1. Render(scenarioIndex, stepIndex) /\ 0 \in Nat
    BY <1>1 DEF Click
  <2>. QED
    BY <1>2, <2>1, Rendered
<1>6. scenario' = scenario /\ (diagram <=> diagram') /\ IsRevealed' /\ stepIndex' = 0
  BY <1>1, <1>5 DEF scenario, ScenarioAt, diagram, IsRevealed
<1>7. Focusable(expected)'
  <2>1. CASE diagram
    <3>1. (Place /\ diagram => stepIndex \in Shown)'
      BY Windowed, PTL
    <3>2. stepIndex' \in Shown'
      BY <1>4, <1>5, <1>6, <2>1, <3>1, PlacedNext
    <3>. QED
      BY <1>2, <1>4, <1>6, <2>1, <3>2 DEF Focusable, Key
  <2>2. CASE ~diagram
    <3>1. scenario.route \in Nat \ {0} /\ scenario.stopAfter \in 0..scenario.route - 1
      BY <1>2, <2>2, PlainRoute
    <3>2. 0 \in OpenNodes'
      BY <1>6, <3>1 DEF OpenNodes
    <3>. QED
      BY <1>2, <1>4, <1>6, <2>2, <3>2 DEF Focusable, Key
  <2>. QED
    BY <2>1, <2>2
<1>. QED
  BY <1>4, <1>6, <1>7 DEF Inv, LockedAtStart, FocusKept

\* The page that is drawn again without a click stands where it stood.
LEMMA MotionStep ==
    ASSUME Inv, MotionChanged
    PROVE  Inv'
<1>1. /\ OnSequence /\ Render(scenarioIndex, stepIndex) /\ expected' = Nowhere
      /\ predictions' = predictions /\ revealed' = revealed /\ frames' = frames
  BY DEF MotionChanged, learner
<1>2. /\ TypeOK /\ Place /\ scenarioIndex \in Indices /\ stepIndex \in Nat
      /\ stepIndex < Len(steps)
  <2>1. TypeOK /\ scenarioIndex \in Indices
    BY DEF Inv, TypeOK
  <2>2. Place
    BY <1>1, <2>1, Placed
  <2>. QED
    BY <2>1, <2>2 DEF Place
<1>3. /\ page' = page /\ narrow' = narrow /\ OnSequence' /\ Indices' = Indices
      /\ scenarioIndex' = scenarioIndex /\ steps' = StepsOf[page][scenarioIndex + 1]
      /\ stepIndex' \in 0..Len(steps') - 1
      /\ stepIndex < Len(steps') => stepIndex' = stepIndex
  BY <1>1, <1>2, Rendered
<1>4. stepIndex' = stepIndex
  BY <1>2, <1>3 DEF steps
<1>5. focus' \in Keys
  BY <1>1, KeyType DEF Render
<1>6. TypeOK'
  BY <1>1, <1>3, <1>5, KeyType DEF Inv, TypeOK
<1>7. LockedAtStart'
  BY <1>1, <1>3, <1>4 DEF Inv, LockedAtStart, IsRevealed
<1>. QED
  BY <1>1, <1>6, <1>7 DEF Inv, FocusKept

\* A click on a lane leads to its first step.
LEMMA LaneChanged ==
    ASSUME TypeOK, OnSequence, NEW l \in DOMAIN lanes, SelectLane(l)
    PROVE  /\ TypeOK' /\ OnSequence' /\ IsRevealed' /\ page' = page
           /\ scenarioIndex' = scenarioIndex /\ scenario' = scenario /\ steps' = steps
           /\ stepIndex' = BeginOf(scenario, l) /\ diagram /\ FocusKept'
<1>1. diagram /\ Len(lanes) > 1 /\ GoTo(LaneStartIndex(l), Key("lane", l))
  BY DEF SelectLane
<1>2. Place
  BY Placed
<1>3. /\ LaneStartIndex(l) = BeginOf(scenario, l) /\ LaneStartIndex(l) \in Nat
      /\ LaneStartIndex(l) < Len(steps)
  <2>1. /\ LaneStartIndex(l) = BeginOf(scenario, l)
        /\ BeginOf(scenario, l) \in Nat /\ LenOf(scenario, l) \in Nat \ {0}
        /\ BeginOf(scenario, l) + LenOf(scenario, l) <= Len(steps)
    BY <1>1, <1>2, LaneStart
  <2>2. Len(steps) \in Nat
    BY <1>2 DEF Place
  <2>. QED
    BY <2>1, <2>2
<1>4. l \in Int
  BY <1>1, <1>2, LanesAround
<1>5. Key("lane", l) \in Keys
  BY <1>4, KeyType
<1>6. PICK i \in Nat : i = LaneStartIndex(l)
  BY <1>3
<1>7. /\ TypeOK' /\ OnSequence' /\ IsRevealed' /\ page' = page /\ diagram'
      /\ scenarioIndex' = scenarioIndex /\ scenario' = scenario /\ steps' = steps
      /\ stepIndex' = i /\ frames' # <<>> /\ frames'[Len(frames')] = Key("lane", l)
      /\ expected' = Key("lane", l)
  BY <1>1, <1>3, <1>5, <1>6, Went
<1>8. lanes' = lanes
  BY <1>7 DEF lanes
<1>9. Focusable(expected)'
  BY <1>1, <1>7, <1>8 DEF Focusable, Key
<1>. QED
  BY <1>1, <1>3, <1>6, <1>7, <1>9 DEF FocusKept

\* A click on a step leads to it.
LEMMA StepChosen ==
    ASSUME TypeOK, OnSequence, NEW i, SelectStep(i)
    PROVE  /\ TypeOK' /\ OnSequence' /\ IsRevealed' /\ page' = page
           /\ scenarioIndex' = scenarioIndex /\ scenario' = scenario /\ steps' = steps
           /\ stepIndex' = i /\ i \in Shown /\ diagram /\ FocusKept'
<1>1. diagram /\ i \in Shown /\ MoveTo(i)
  BY DEF SelectStep
<1>2. i \in 0..Len(steps) - 1
  <2>1. Place
    BY Placed
  <2>2. activeStep.lane \in DOMAIN lanes
    BY <1>1, <2>1, LanesAround
  <2>3. BeginOf(scenario, activeStep.lane) + LenOf(scenario, activeStep.lane) <= Len(steps)
    BY <1>1, <2>1, <2>2, LaneStart
  <2>4. /\ laneSteps = laneStart..laneEnd /\ laneStart \in Nat /\ Len(steps) \in Nat
        /\ laneEnd \in Int /\ laneEnd < Len(steps)
    BY <1>1, <2>1, <2>3 DEF Place
  <2>5. i \in laneStart..laneEnd
    BY <1>1, <2>4 DEF Shown
  <2>. QED
    BY <2>4, <2>5
<1>. QED
  BY <1>1, <1>2, MovedTo

\* The button "next" leads to NextTarget, which exists.
LEMMA WentOn ==
    ASSUME TypeOK, OnSequence, Following
    PROVE  /\ TypeOK' /\ OnSequence' /\ IsRevealed' /\ page' = page
           /\ scenarioIndex' = scenarioIndex /\ scenario' = scenario /\ steps' = steps
           /\ stepIndex' = NextTarget /\ diagram /\ FocusKept'
<1>1. diagram /\ ~NextDisabled /\ MoveTo(NextTarget) /\ Place
  BY Placed DEF Following
<1>2. NextTarget \in 0..Len(steps) - 1
  <2>1. Len(steps) \in Nat /\ stepIndex \in Nat
    BY <1>1 DEF Place
  <2>2. CASE NextTarget = stepIndex + 1 /\ stepIndex + 1 < Len(steps)
    BY <2>1, <2>2
  <2>3. ASSUME NEW m \in DOMAIN lanes, NextTarget = BeginOf(scenario, m)
        PROVE  NextTarget \in 0..Len(steps) - 1
    <3>1. /\ BeginOf(scenario, m) \in Nat /\ LenOf(scenario, m) \in Nat \ {0}
          /\ BeginOf(scenario, m) + LenOf(scenario, m) <= Len(steps)
      BY <1>1, LaneStart
    <3>. QED
      BY <2>1, <2>3, <3>1
  <2>. QED
    BY <1>1, <2>2, <2>3, NextLeads DEF NextLeadsTo
<1>3. PICK i \in 0..Len(steps) - 1 : i = NextTarget
  BY <1>2
<1>. QED
  BY <1>1, <1>3, MovedTo

\* The button "previous" leads to PreviousTarget, which exists.
LEMMA WentBack ==
    ASSUME TypeOK, OnSequence, Previous
    PROVE  /\ TypeOK' /\ OnSequence' /\ IsRevealed' /\ page' = page
           /\ scenarioIndex' = scenarioIndex /\ scenario' = scenario /\ steps' = steps
           /\ stepIndex' = PreviousTarget /\ diagram /\ FocusKept'
<1>1. diagram /\ ~PreviousDisabled /\ MoveTo(PreviousTarget) /\ Place
  BY Placed DEF Previous
<1>2. PreviousTarget \in 0..Len(steps) - 1
  <2>1. Len(steps) \in Nat /\ stepIndex \in 0..Len(steps) - 1
    BY <1>1 DEF Place
  <2>2. CASE PreviousTarget = stepIndex - 1 /\ stepIndex - 1 \in Nat
    BY <2>1, <2>2
  <2>3. ASSUME NEW m \in DOMAIN lanes,
               PreviousTarget = BeginOf(scenario, m) + LenOf(scenario, m) - 1
        PROVE  PreviousTarget \in 0..Len(steps) - 1
    <3>1. /\ BeginOf(scenario, m) \in Nat /\ LenOf(scenario, m) \in Nat \ {0}
          /\ BeginOf(scenario, m) + LenOf(scenario, m) <= Len(steps)
      BY <1>1, LaneStart
    <3>. QED
      BY <2>1, <2>3, <3>1
  <2>. QED
    BY <1>1, <2>2, <2>3, PreviousLeads DEF PreviousLeadsTo
<1>3. PICK i \in 0..Len(steps) - 1 : i = PreviousTarget
  BY <1>2
<1>. QED
  BY <1>1, <1>3, MovedTo

\* A click on a node leads to the step it stands for, if that exists.
LEMMA NodeChosen ==
    ASSUME TypeOK, OnSequence, ~diagram, NEW n \in OpenNodes, SelectNode(n)
    PROVE  /\ TypeOK' /\ OnSequence' /\ IsRevealed' /\ page' = page
           /\ scenarioIndex' = scenarioIndex /\ scenario' = scenario /\ steps' = steps
           /\ StepOfNode(n) < Len(steps) => stepIndex' = StepOfNode(n)
           /\ FocusKept'
<1>1. GoTo(StepOfNode(n), Key("route", n)) /\ Place
  BY Placed DEF SelectNode
<1>2. StepOfNode(n) \in Nat /\ Key("route", n) \in Keys
  BY <1>1, NodeStep, KeyType
<1>3. PICK i \in Nat : i = StepOfNode(n)
  BY <1>2
<1>4. /\ TypeOK' /\ OnSequence' /\ IsRevealed' /\ page' = page /\ ~diagram'
      /\ scenarioIndex' = scenarioIndex /\ scenario' = scenario /\ steps' = steps
      /\ i < Len(steps) => stepIndex' = i
      /\ frames' # <<>> /\ frames'[Len(frames')] = Key("route", n)
      /\ expected' = Key("route", n)
  BY <1>1, <1>2, <1>3, Went
<1>5. OpenNodes' = OpenNodes
  BY <1>4 DEF OpenNodes
<1>6. Focusable(expected)'
  BY <1>4, <1>5 DEF Focusable, Key
<1>. QED
  BY <1>3, <1>4, <1>6 DEF FocusKept

\* What is kept as long as the scenario is open.
LEMMA Opened == TypeOK' /\ IsRevealed' /\ FocusKept' => Inv'
  BY DEF Inv, LockedAtStart

\* Inv is inductive.
LEMMA InvStep == Inv /\ [Next]_vars => Inv'
<1> SUFFICES ASSUME Inv, [Next]_vars PROVE Inv'
  OBVIOUS
<1>0. TypeOK
  BY DEF Inv
<1>1. ASSUME NEW p \in Links \cup {page}, Open(p) PROVE Inv'
  BY <1>1, OpenStep
<1>2. CASE Frame
  BY <1>2, FrameStep
<1>3. CASE MotionChanged
  BY <1>3, MotionStep
<1>4. ASSUME OnSequence, NEW k \in Indices, SelectScenario(k) PROVE Inv'
  BY <1>4, ScenarioStep
<1>5. ASSUME OnSequence, NEW o \in scenario.options, Predict(o) PROVE Inv'
  BY <1>5, PredictStep
<1>6. ASSUME OnSequence, Reveal PROVE Inv'
  BY <1>6, RevealStep
<1>7. ASSUME OnSequence, NEW l \in DOMAIN lanes, SelectLane(l) PROVE Inv'
  BY <1>0, <1>7, LaneChanged, Opened
<1>8. ASSUME OnSequence, NEW i \in 0..Len(steps) - 1, SelectStep(i) PROVE Inv'
  BY <1>0, <1>8, StepChosen, Opened
<1>9. ASSUME OnSequence, Previous PROVE Inv'
  BY <1>0, <1>9, WentBack, Opened
<1>10. ASSUME OnSequence, Following PROVE Inv'
  BY <1>0, <1>10, WentOn, Opened
<1>11. ASSUME OnSequence, ~diagram, NEW n \in OpenNodes, SelectNode(n) PROVE Inv'
  BY <1>0, <1>11, NodeChosen, Opened
<1>12. CASE UNCHANGED vars
  <2>1. /\ OnSequence' = OnSequence /\ Indices' = Indices /\ steps' = steps
        /\ IsRevealed' = IsRevealed /\ Focusable(expected)' = Focusable(expected)
    BY <1>12 DEF vars, indices, learner, keyboard, OnSequence, Indices, ScenariosOf, steps,
                 IsRevealed, Focusable, diagram, scenario, ScenarioAt, lanes, Shown, laneSteps,
                 activeStep, laneStart, laneLength, LaneWindowStart, OpenNodes
  <2>. QED
    BY <1>12, <2>1 DEF vars, indices, learner, keyboard, Inv, TypeOK, LockedAtStart, FocusKept
<1>. QED
  BY <1>1, <1>2, <1>3, <1>4, <1>5, <1>6, <1>7, <1>8, <1>9, <1>10, <1>11, <1>12 DEF Next

-----------------------------------------------------------------------------
(* The strengthening holds always: the type, the lock on the path of a     *)
(* scenario that is not opened, and the focus that is on its way.          *)
THEOREM InvHolds == Spec => []Inv
  BY Loaded, InvStep, PTL DEF Spec

(* The indices that setState and render() keep stay in range, for every    *)
(* set of pages: scenarioIndex names a scenario of the page, stepIndex a   *)
(* step of that scenario.                                                  *)
THEOREM TypeCorrect == Spec => []TypeOK
<1>1. Inv => TypeOK
  BY DEF Inv
<1>. QED
  BY <1>1, InvHolds, PTL

(* A scenario that is not opened stands at its first step (bindEvents,     *)
(* selectScenario resets the step).                                        *)
THEOREM Locked == Spec => []LockedAtStart
<1>1. Inv => LockedAtStart
  BY DEF Inv
<1>. QED
  BY <1>1, InvHolds, PTL

(* The active step is in the window of the time line (laneWindowStart),    *)
(* however long the lane and wherever it begins.                           *)
THEOREM StepDrawn == Spec => []ActiveStepShown
<1>1. Inv => ActiveStepShown
  BY Placed, Windowed DEF Inv, ActiveStepShown
<1>. QED
  BY <1>1, InvHolds, PTL

(* After the frame the focus is where the last click sends it, although    *)
(* each render() replaced the page: the control exists in what is drawn    *)
(* then.  Needs the active step in the window, and the lock.               *)
THEOREM FocusThere == Spec => []FocusFollows
<1>1. Inv => FocusFollows
  BY DEF Inv, FocusKept, FocusFollows
<1>. QED
  BY <1>1, InvHolds, PTL

\* The code shown for a step that is checked in the code is what one of the three
\* lists names, the first that names any.
LEMMA CodeOfStep ==
    ASSUME page \in Page, EvidenceData(page, Edge), Edge.scope = "code"
    PROVE  \E ids \in Named(page, Edge) : ids # <<>> /\ LinkedCodePoints(Edge) = ToSet(ids)
<1> DEFINE ids == LinkedCodePointIds(Edge)
<1>1. ids \in Named(page, Edge) /\ ids # <<>>
  BY DEF LinkedCodePointIds, Named, EvidenceData
<1>2. ToSet(ids) \subseteq ToSet(Content[page].codePoints)
  BY <1>1 DEF EvidenceData
<1>3. LinkedCodePoints(Edge) = ToSet(ids) \cap ToSet(Content[page].codePoints)
  BY <1>1 DEF LinkedCodePoints
<1>. QED
  BY <1>1, <1>2, <1>3

(* The page never says of a step that it can be checked in the code and    *)
(* then shows other code (linkedCodePoints): the active step is one of the *)
(* data, and what the step and its ends name is taken in turn.             *)
THEOREM CodeShown == Spec => []CodeIsOfStep
<1>1. Inv => CodeIsOfStep
  <2> SUFFICES ASSUME Inv, IsRevealed, diagram, Edge.scope = "code"
               PROVE  \E ids \in Named(page, Edge) :
                          ids # <<>> /\ LinkedCodePoints(Edge) = ToSet(ids)
    BY DEF CodeIsOfStep
  <2>1. Place
    BY Placed DEF Inv, IsRevealed
  <2>2. /\ page \in Page /\ scenarioIndex + 1 \in DOMAIN ScenariosOf(page)
        /\ activeStep.lane \in DOMAIN lanes
        /\ activeStep.index \in 0..Len(lanes[activeStep.lane].steps) - 1
    BY <2>1 DEF Place, LanesOf, LenOf, diagram, lanes
  <2>3. activeStep.index + 1 \in DOMAIN activeLane.steps
    <3>1. IsSeq(activeLane.steps)
      BY <2>1, <2>2 DEF Place, ScenarioData, LaneData, diagram, lanes, activeLane
    <3>. QED
      BY <2>2, <3>1 DEF IsSeq, activeLane
  <2>4. StepsData(page, scenario)
    BY <2>2, EvidenceAssumption DEF scenario, ScenarioAt, ScenariosOf
  <2>5. EvidenceData(page, Edge)
    BY <2>2, <2>3, <2>4 DEF StepsData, Edge, activeLane, lanes
  <2>. QED
    BY <2>2, <2>5, CodeOfStep
<1>. QED
  BY <1>1, InvHolds, PTL

-----------------------------------------------------------------------------
\* An index into the steps stands for one place.
Stands ==
    \A l \in LanesOf(scenario) : \A i \in 0..LenOf(scenario, l) - 1 :
        stepIndex = BeginOf(scenario, l) + i =>
            activeStep.lane = l /\ activeStep.index = i

LEMMA Arrived == Place => Stands
<1> SUFFICES ASSUME Place, NEW l \in LanesOf(scenario), NEW i \in 0..LenOf(scenario, l) - 1,
                    stepIndex = BeginOf(scenario, l) + i
             PROVE  activeStep.lane = l /\ activeStep.index = i
  BY DEF Stands
<1>1. steps[BeginOf(scenario, l) + i + 1] = [lane |-> l, index |-> i]
  BY DEF Place, LaidOut
<1>2. activeStep = [lane |-> l, index |-> i]
  BY <1>1 DEF activeStep
<1>. QED
  BY <1>2

\* The button "next" takes one step in the lane, or enters the only next lane.
LEMMA ForwardPlace ==
    ASSUME TypeOK, OnSequence, Following
    PROVE  \/ /\ activeStep.index + 1 < laneLength
              /\ activeStep'.lane = activeStep.lane
              /\ activeStep'.index = activeStep.index + 1
              /\ stepIndex' = stepIndex + 1
           \/ /\ activeStep.index + 1 = laneLength
              /\ \E m \in DOMAIN lanes : /\ NextLanes = {m} /\ activeStep'.lane = m
                                         /\ activeStep'.index = 0
<1> DEFINE s == scenario
           a == activeStep.lane
           x == activeStep.index
<1>1. /\ diagram /\ ~NextDisabled /\ Place /\ s' = s /\ stepIndex' = NextTarget /\ Place'
  BY Placed, WentOn, PlacedNext DEF Following
<1>2. (Place => Stands)'
  BY Arrived, PTL
<1>3. \A l \in LanesOf(s) : \A i \in 0..LenOf(s, l) - 1 :
          stepIndex' = BeginOf(s, l) + i => activeStep'.lane = l /\ activeStep'.index = i
  BY <1>1, <1>2 DEF Stands
<1>4. CASE /\ x + 1 < laneLength
           /\ NextTarget = stepIndex + 1 /\ stepIndex + 1 < Len(steps)
  <2>1. /\ a \in LanesOf(s) /\ x \in 0..LenOf(s, a) - 1 /\ stepIndex = BeginOf(s, a) + x
        /\ laneLength = LenOf(s, a) /\ BeginOf(s, a) \in Nat /\ LenOf(s, a) \in Nat
    BY <1>1 DEF Place
  <2>2. x + 1 \in 0..LenOf(s, a) - 1 /\ stepIndex + 1 = BeginOf(s, a) + (x + 1)
    BY <1>4, <2>1
  <2>. QED
    BY <1>1, <1>3, <1>4, <2>1, <2>2
<1>5. CASE /\ x + 1 = laneLength
           /\ \E m \in DOMAIN lanes : NextLanes = {m} /\ NextTarget = BeginOf(s, m)
  <2>1. PICK m \in DOMAIN lanes : NextLanes = {m} /\ NextTarget = BeginOf(s, m)
    BY <1>5
  <2>2. m \in LanesOf(s) /\ BeginOf(s, m) \in Nat /\ LenOf(s, m) \in Nat \ {0}
    BY <1>1, LanesAround, LaneStart
  <2>3. 0 \in 0..LenOf(s, m) - 1 /\ NextTarget = BeginOf(s, m) + 0
    BY <2>1, <2>2
  <2>4. activeStep'.lane = m /\ activeStep'.index = 0
    BY <1>1, <1>3, <2>2, <2>3
  <2>. QED
    BY <1>5, <2>1, <2>4
<1>. QED
  BY <1>1, <1>4, <1>5, NextLeads DEF NextLeadsTo

LEMMA BackPlace ==
    ASSUME TypeOK, OnSequence, Previous
    PROVE  \/ /\ activeStep.index > 0
              /\ activeStep'.lane = activeStep.lane
              /\ activeStep'.index = activeStep.index - 1
              /\ stepIndex' = stepIndex - 1
           \/ /\ activeStep.index = 0
              /\ \E m \in DOMAIN lanes : /\ PreviousLanes = {m} /\ activeStep'.lane = m
                                         /\ activeStep'.index = LenOf(scenario, m) - 1
<1> DEFINE s == scenario
           a == activeStep.lane
           x == activeStep.index
<1>1. /\ diagram /\ ~PreviousDisabled /\ Place /\ s' = s /\ stepIndex' = PreviousTarget
      /\ Place'
  BY Placed, WentBack, PlacedNext DEF Previous
<1>2. (Place => Stands)'
  BY Arrived, PTL
<1>3. \A l \in LanesOf(s) : \A i \in 0..LenOf(s, l) - 1 :
          stepIndex' = BeginOf(s, l) + i => activeStep'.lane = l /\ activeStep'.index = i
  BY <1>1, <1>2 DEF Stands
<1>4. CASE x > 0 /\ PreviousTarget = stepIndex - 1 /\ stepIndex - 1 \in Nat
  <2>1. /\ a \in LanesOf(s) /\ x \in 0..LenOf(s, a) - 1 /\ stepIndex = BeginOf(s, a) + x
        /\ BeginOf(s, a) \in Nat /\ LenOf(s, a) \in Nat
    BY <1>1 DEF Place
  <2>2. x - 1 \in 0..LenOf(s, a) - 1 /\ stepIndex - 1 = BeginOf(s, a) + (x - 1)
    BY <1>4, <2>1
  <2>. QED
    BY <1>1, <1>3, <1>4, <2>1, <2>2
<1>5. CASE /\ x = 0
           /\ \E m \in DOMAIN lanes :
                 PreviousLanes = {m} /\ PreviousTarget = BeginOf(s, m) + LenOf(s, m) - 1
  <2>1. PICK m \in DOMAIN lanes :
                 PreviousLanes = {m} /\ PreviousTarget = BeginOf(s, m) + LenOf(s, m) - 1
    BY <1>5
  <2>2. m \in LanesOf(s) /\ BeginOf(s, m) \in Nat /\ LenOf(s, m) \in Nat \ {0}
    BY <1>1, LanesAround, LaneStart
  <2>3. /\ LenOf(s, m) - 1 \in 0..LenOf(s, m) - 1
        /\ PreviousTarget = BeginOf(s, m) + (LenOf(s, m) - 1)
    BY <2>1, <2>2
  <2>4. activeStep'.lane = m /\ activeStep'.index = LenOf(s, m) - 1
    BY <1>1, <1>3, <2>2, <2>3
  <2>. QED
    BY <1>5, <2>1, <2>4
<1>. QED
  BY <1>1, <1>4, <1>5, PreviousLeads DEF PreviousLeadsTo

IdsAround ==
    /\ PreviousLanes = {l \in DOMAIN lanes :
                          lanes[activeStep.lane].id \in ToSet(lanes[l].nextLaneIds)}
    /\ NextLanes = {l \in DOMAIN lanes :
                      lanes[activeStep.lane].nextLaneIds = << lanes[l].id >>}
    /\ laneLength = LenOf(scenario, activeStep.lane)

\* The neighbours of the active lane, by the identifiers.
LEMMA LaneIds == Place /\ diagram => IdsAround
  BY LanesAround DEF Place, PreviousLanes, NextLanes, IdsAround

\* The elements of a sequence of one.
LEMMA OneId == ASSUME NEW x PROVE ToSet(<< x >>) = {x}
  BY DEF ToSet

\* After "next", "previous" leads back.
LEMMA BackAgain ==
    ASSUME TypeOK, OnSequence, Following
    PROVE  PreviousDisabled' \/ PreviousTarget' = stepIndex
<1> SUFFICES ASSUME ~PreviousDisabled' PROVE PreviousTarget' = stepIndex
  OBVIOUS
<1> DEFINE a == activeStep.lane
<1>1. /\ Place /\ diagram /\ Place' /\ diagram' /\ scenario' = scenario /\ lanes' = lanes
  BY Placed, WentOn, PlacedNext DEF diagram, lanes
<1>2. PreviousLeadsTo'
  <2>1. (Place /\ diagram /\ ~PreviousDisabled => PreviousLeadsTo)'
    BY PreviousLeads, PTL
  <2>. QED
    BY <1>1, <2>1
<1>3. /\ a \in DOMAIN lanes /\ activeStep.index \in Nat /\ stepIndex \in Nat
      /\ stepIndex = BeginOf(scenario, a) + activeStep.index
      /\ laneLength = LenOf(scenario, a)
  BY <1>1, LanesAround DEF Place
<1>4. CASE /\ activeStep'.lane = a /\ activeStep'.index = activeStep.index + 1
           /\ stepIndex' = stepIndex + 1
  <2>1. activeStep'.index # 0
    BY <1>3, <1>4
  <2>2. PreviousTarget' = stepIndex' - 1
    BY <1>2, <2>1 DEF PreviousLeadsTo
  <2>. QED
    BY <1>3, <1>4, <2>2
<1>5. CASE /\ activeStep.index + 1 = laneLength
           /\ \E m \in DOMAIN lanes : /\ NextLanes = {m} /\ activeStep'.lane = m
                                      /\ activeStep'.index = 0
  <2>1. PICK m \in DOMAIN lanes : /\ NextLanes = {m} /\ activeStep'.lane = m
                                  /\ activeStep'.index = 0
    BY <1>5
  <2>2. lanes[a].nextLaneIds = << lanes[m].id >>
    BY <1>1, <2>1, LaneIds DEF IdsAround
  <2>3. lanes[m].id \in ToSet(lanes[a].nextLaneIds)
    BY <2>2, OneId
  <2>4. PreviousLanes' = {l \in DOMAIN lanes : lanes[m].id \in ToSet(lanes[l].nextLaneIds)}
    <3>1. (Place /\ diagram => IdsAround)'
      BY LaneIds, PTL
    <3>. QED
      BY <1>1, <2>1, <3>1 DEF IdsAround
  <2>5. a \in PreviousLanes'
    BY <1>3, <2>3, <2>4
  <2>6. PreviousTarget' = BeginOf(scenario, a) + LenOf(scenario, a) - 1
    BY <1>1, <1>2, <2>1, <2>5 DEF PreviousLeadsTo
  <2>7. BeginOf(scenario, a) \in Nat
    BY <1>1 DEF Place
  <2>. QED
    BY <1>3, <1>5, <2>6, <2>7
<1>. QED
  BY <1>4, <1>5, ForwardPlace

\* After "previous", "next" leads back.
LEMMA ForwardAgain ==
    ASSUME TypeOK, OnSequence, Previous
    PROVE  NextDisabled' \/ NextTarget' = stepIndex
<1> SUFFICES ASSUME ~NextDisabled' PROVE NextTarget' = stepIndex
  OBVIOUS
<1> DEFINE a == activeStep.lane
<1>1. /\ Place /\ diagram /\ Place' /\ diagram' /\ scenario' = scenario /\ lanes' = lanes
  BY Placed, WentBack, PlacedNext DEF diagram, lanes
<1>2. NextLeadsTo'
  <2>1. (Place /\ diagram /\ ~NextDisabled => NextLeadsTo)'
    BY NextLeads, PTL
  <2>. QED
    BY <1>1, <2>1
<1>3. /\ a \in DOMAIN lanes /\ activeStep.index \in 0..LenOf(scenario, a) - 1
      /\ LenOf(scenario, a) \in Nat /\ BeginOf(scenario, a) \in Nat
      /\ stepIndex = BeginOf(scenario, a) + activeStep.index
  BY <1>1, LanesAround DEF Place
<1>4. /\ NextLanes' = {l \in DOMAIN lanes :
                         lanes[activeStep'.lane].nextLaneIds = << lanes[l].id >>}
      /\ laneLength' = LenOf(scenario, activeStep'.lane)
  <2>1. (Place /\ diagram => IdsAround)'
    BY LaneIds, PTL
  <2>. QED
    BY <1>1, <2>1 DEF IdsAround
<1>5. CASE /\ activeStep'.lane = a /\ activeStep'.index = activeStep.index - 1
           /\ stepIndex' = stepIndex - 1
  <2>1. activeStep'.index + 1 # laneLength'
    BY <1>3, <1>4, <1>5
  <2>2. NextTarget' = stepIndex' + 1
    BY <1>2, <2>1 DEF NextLeadsTo
  <2>. QED
    BY <1>3, <1>5, <2>2
<1>6. CASE /\ activeStep.index = 0
           /\ \E m \in DOMAIN lanes : /\ PreviousLanes = {m} /\ activeStep'.lane = m
                                      /\ activeStep'.index = LenOf(scenario, m) - 1
  <2>1. PICK m \in DOMAIN lanes : /\ PreviousLanes = {m} /\ activeStep'.lane = m
                                  /\ activeStep'.index = LenOf(scenario, m) - 1
    BY <1>6
  <2>2. LenOf(scenario, m) \in Nat
    BY <1>1, <2>1, LaneStart
  <2>3. activeStep'.index + 1 = laneLength' /\ ~(activeStep'.index + 1 < laneLength')
    BY <1>4, <2>1, <2>2
  <2>4. PICK k \in DOMAIN lanes : NextLanes' = {k} /\ NextTarget' = BeginOf(scenario, k)
    BY <1>1, <1>2, <2>3 DEF NextLeadsTo
  <2>5. lanes[m].nextLaneIds = << lanes[k].id >>
    BY <1>4, <2>1, <2>4
  <2>6. lanes[a].id \in ToSet(lanes[m].nextLaneIds)
    BY <1>1, <2>1, LaneIds DEF IdsAround
  <2>7. lanes[a].id = lanes[k].id
    BY <2>5, <2>6, OneId
  <2>8. a = k
    BY <1>1, <1>3, <2>4, <2>7, LanesAround
  <2>. QED
    BY <1>3, <1>6, <2>4, <2>8
<1>. QED
  BY <1>5, <1>6, BackPlace

(* The buttons of the path are inverse for every graph of lanes: forks,    *)
(* joins and cycles, lanes of any length.                                  *)
THEOREM InverseButtons == Spec => ButtonsAreInverse
<1>1. Inv /\ [Next]_vars =>
        [OnSequence =>
            /\ Following => PreviousDisabled' \/ PreviousTarget' = stepIndex
            /\ Previous => NextDisabled' \/ NextTarget' = stepIndex]_vars
  BY BackAgain, ForwardAgain DEF Inv
<1>. QED
  BY <1>1, InvHolds, PTL DEF Spec, ButtonsAreInverse

-----------------------------------------------------------------------------
\* A product grows with its factor.
LEMMA Products ==
    ASSUME NEW a \in Int, NEW b \in Int, NEW c \in Nat, a <= b
    PROVE  a * c <= b * c /\ a * c \in Int /\ b * c \in Int
<1>1. b - a \in Nat
  OBVIOUS
<1>2. (b - a) * c >= 0
  BY <1>1
<1>3. (b - a) * c = b * c - a * c
  OBVIOUS
<1>4. a * c \in Int /\ b * c \in Int
  OBVIOUS
<1>. QED
  BY <1>2, <1>3, <1>4

\* To the step of a node and back, R + 1 nodes and F + 1 steps.
LEMMA NodeAndBack ==
    ASSUME NEW R \in Nat \ {0}, NEW F \in Nat \ {0}, R <= F, NEW n \in 0..R
    PROVE  /\ Round(n * F, R) \in 0..F
           /\ Round(Round(n * F, R) * R, F) = n
<1> DEFINE i == Round(n * F, R)
           j == Round(i * R, F)
<1>1. n * F \in Nat
  OBVIOUS
<1>2. i \in Nat /\ (2 * R) * i <= 2 * (n * F) + R /\ 2 * (n * F) + R < (2 * R) * i + 2 * R
  BY <1>1, Rounded
<1> HIDE DEF i
<1>3. i * R \in Nat
  BY <1>2
<1>4. j \in Nat /\ (2 * F) * j <= 2 * (i * R) + F /\ 2 * (i * R) + F < (2 * F) * j + 2 * F
  BY <1>3, Rounded
<1> HIDE DEF j
<1>5. (2 * R) * i = 2 * (i * R) /\ (2 * F) * j = 2 * (j * F)
  BY <1>2, <1>4
<1>6. n * F <= R * F
  BY Products
<1>7. i <= F
  <2> SUFFICES ASSUME F + 1 <= i PROVE FALSE
    BY <1>2
  <2>1. (F + 1) * R <= i * R
    BY <1>2, Products
  <2>2. (F + 1) * R = R * F + R /\ R * F \in Nat
    OBVIOUS
  <2>. QED
    BY <1>1, <1>2, <1>3, <1>5, <1>6, <2>1, <2>2
<1>8. ~(n + 1 <= j)
  <2> SUFFICES ASSUME n + 1 <= j PROVE FALSE
    OBVIOUS
  <2>1. (n + 1) * F <= j * F /\ (n + 1) * F = n * F + F /\ j * F \in Nat
    BY <1>4, Products
  <2>2. 2 * (n * F) + 2 * F <= 2 * (i * R) + F /\ 2 * (i * R) <= 2 * (n * F) + R
    BY <1>1, <1>2, <1>3, <1>4, <1>5, <2>1
  <2>3. F = R
    BY <1>1, <1>3, <2>2
  <2>4. n + 1 <= i
    <3>1. CASE i <= n
      <4>1. i * R <= n * R /\ n * R = n * F
        BY <1>2, <2>3, <3>1, Products
      <4>. QED
        BY <1>1, <1>3, <2>2, <4>1
    <3>. QED
      BY <1>2, <3>1
  <2>5. (n + 1) * R <= i * R /\ (n + 1) * R = n * F + F
    BY <1>2, <2>1, <2>3, <2>4, Products
  <2>. QED
    BY <1>1, <1>3, <2>2, <2>3, <2>5
<1>9. ~(j + 1 <= n)
  <2> SUFFICES ASSUME j + 1 <= n PROVE FALSE
    OBVIOUS
  <2>1. (j + 1) * F <= n * F /\ (j + 1) * F = j * F + F /\ j * F \in Nat
    BY <1>4, Products
  <2>. QED
    BY <1>1, <1>2, <1>3, <1>4, <1>5, <2>1
<1>10. j = n
  BY <1>4, <1>8, <1>9
<1>. QED
  BY <1>2, <1>7, <1>10 DEF i, j

\* The node that is clicked becomes the active one.
LEMMA NodeActive ==
    ASSUME TypeOK, OnSequence, ~diagram, NEW n \in OpenNodes, SelectNode(n),
           scenario.route <= scenario.flow
    PROVE  ActiveNode' = n
<1> DEFINE R == scenario.route - 1
           F == scenario.flow - 1
<1>1. /\ Place /\ Len(steps) = scenario.flow /\ scenario.flow \in Nat \ {0}
      /\ scenario.route \in Nat \ {0} /\ scenario.stopAfter \in 0..scenario.route - 1
  BY Placed, PlainRoute
<1>2. /\ R \in Nat /\ F \in Nat /\ R <= F /\ n \in 0..R /\ n <= scenario.stopAfter
      /\ scenario.stopAfter \in Int
  BY <1>1 DEF OpenNodes
<1>3. /\ scenario' = scenario /\ steps' = steps
      /\ StepOfNode(n) < Len(steps) => stepIndex' = StepOfNode(n)
  BY NodeChosen
<1>4. Min({n, scenario.stopAfter}) = n
  BY <1>2, Pair
<1>5. ActiveNode' = Min({IF Len(steps) <= 1 THEN R ELSE Round(stepIndex' * R, Len(steps) - 1),
                         scenario.stopAfter})
  BY <1>3 DEF ActiveNode
<1>6. /\ Len(steps) <= 1 <=> F = 0
      /\ Len(steps) - 1 = F /\ 0 < Len(steps)
      /\ \A i \in 0..F : i < Len(steps)
      /\ StepOfNode(n) = IF R <= 0 THEN 0 ELSE Round(n * F, R)
  <2>1. (scenario.route <= 1) <=> (R <= 0)
    BY <1>1
  <2>. QED
    BY <1>1, <2>1 DEF StepOfNode
<1> HIDE DEF R, F
<1>7. CASE R = 0
  <2>1. n = 0 /\ stepIndex' = 0
    BY <1>2, <1>3, <1>6, <1>7
  <2>2. CASE F = 0
    BY <1>4, <1>5, <1>6, <1>7, <2>1, <2>2
  <2>3. CASE F # 0
    <3>1. 0 * R = 0 /\ 0 \in Nat /\ F \in Nat \ {0}
      BY <1>2, <2>3
    <3>2. Round(0, F) \in Nat /\ (2 * F) * Round(0, F) <= 2 * 0 + F
      BY <3>1, Rounded
    <3>3. ASSUME 1 <= Round(0, F) PROVE FALSE
      <4>1. 1 * (2 * F) <= Round(0, F) * (2 * F)
        BY <3>1, <3>2, <3>3, Products
      <4>2. Round(0, F) * (2 * F) = (2 * F) * Round(0, F)
        BY <3>1, <3>2
      <4>. QED
        BY <3>1, <3>2, <4>1, <4>2
    <3>4. Round(0, F) = 0
      BY <3>2, <3>3
    <3>. QED
      BY <1>4, <1>5, <1>6, <2>1, <2>3, <3>1, <3>4
  <2>. QED
    BY <2>2, <2>3
<1>8. CASE R # 0
  <2>1. R \in Nat \ {0} /\ F \in Nat \ {0} /\ ~(R <= 0)
    BY <1>2, <1>8
  <2>2. Round(n * F, R) \in 0..F /\ Round(Round(n * F, R) * R, F) = n
    BY <1>2, <2>1, NodeAndBack
  <2>3. stepIndex' = Round(n * F, R)
    BY <1>3, <1>6, <2>1, <2>2
  <2>. QED
    BY <1>4, <1>5, <1>6, <2>1, <2>2, <2>3
<1>. QED
  BY <1>7, <1>8

(* The conversions between nodes and steps agree for every flow that is at *)
(* least as long as its route: rounding to the step and back returns n.    *)
THEOREM NodeShown == Spec => ClickedNodeActive
<1>1. Inv /\ [Next]_vars =>
        [OnSequence /\ ~diagram => \A n \in OpenNodes :
            SelectNode(n) /\ scenario.route <= scenario.flow => ActiveNode' = n]_vars
  BY NodeActive DEF Inv
<1>. QED
  BY <1>1, InvHolds, PTL DEF Spec, ClickedNodeActive

-----------------------------------------------------------------------------
\* The scenario on the page, as the walk knows it.
WalkedData ==
    LET s == << page, scenarioIndex >> IN
    /\ s \in AllScenarios /\ s[1] = page
    /\ LaneSet[s] = LanesOf(scenario) /\ LaneOne[s] = 1
    /\ \A l \in LanesOf(scenario) : Lengths[s][l] = LenOf(scenario, l)
    /\ diagram => Arrows[s] = {e \in (DOMAIN lanes) \X (DOMAIN lanes) :
                                 lanes[e[2]].id \in ToSet(lanes[e[1]].nextLaneIds)}
    /\ Reaches[s] = IF diagram THEN Window - 1 ELSE LenOf(scenario, 1)

\* The constants of the walk are those of the scenario on the page.
LEMMA Walked == Place => WalkedData
<1> SUFFICES ASSUME Place PROVE WalkedData
  OBVIOUS
<1> DEFINE s == << page, scenarioIndex >>
<1>1. /\ page \in Page /\ page # Hub /\ scenarioIndex \in Nat
      /\ scenarioIndex + 1 \in DOMAIN ScenariosOf(page)
      /\ scenario = ScenariosOf(page)[scenarioIndex + 1]
      /\ (scenarioIndex + 1) - 1 = scenarioIndex
  BY PagesAssumption DEF Place, scenario, ScenarioAt
<1>2. s[1] = page /\ s[2] = scenarioIndex
  OBVIOUS
<1> HIDE DEF s
<1>3. s \in {<< page, k - 1 >> : k \in DOMAIN ScenariosOf(page)}
  BY <1>1 DEF s
<1>4. s \in AllScenarios
  BY <1>1, <1>3 DEF AllScenarios
<1>5. LengthsOf(s) = IF diagram THEN [l \in DOMAIN lanes |-> Len(lanes[l].steps)]
                                ELSE << scenario.flow >>
  BY <1>1, <1>2 DEF LengthsOf, diagram, lanes
<1>6. DOMAIN LengthsOf(s) = LanesOf(scenario)
  <2>1. DOMAIN << scenario.flow >> = {1}
    OBVIOUS
  <2>. QED
    BY <1>5, <2>1 DEF LanesOf, diagram, lanes
<1>7. \A l \in LanesOf(scenario) : LengthsOf(s)[l] = LenOf(scenario, l)
  <2>1. << scenario.flow >>[1] = scenario.flow
    OBVIOUS
  <2>. QED
    BY <1>5, <2>1 DEF LanesOf, LenOf, diagram, lanes
<1>8. ArrowsOf(s) = {e \in (DOMAIN lanes) \X (DOMAIN lanes) :
                       lanes[e[2]].id \in ToSet(lanes[e[1]].nextLaneIds)}
  BY <1>1, <1>2 DEF ArrowsOf, lanes
<1>9. Reaches[s] = IF diagram THEN Window - 1 ELSE LenOf(scenario, 1)
  <2>1. Reaches[s] = IF ~diagram THEN LengthsOf(s)[1] ELSE Window - 1
    BY <1>1, <1>2, <1>4 DEF Reaches, diagram
  <2>2. ~diagram => 1 \in LanesOf(scenario)
    BY DEF LanesOf, diagram
  <2>. QED
    BY <1>7, <2>1, <2>2
<1>10. LaneSet[s] = DOMAIN LengthsOf(s) /\ LaneOne[s] = 1 /\ Lengths[s] = LengthsOf(s)
       /\ Arrows[s] = ArrowsOf(s)
  BY <1>4 DEF LaneSet, LaneOne, Lengths, Arrows
<1>. QED
  BY <1>2, <1>4, <1>6, <1>7, <1>8, <1>9, <1>10 DEF WalkedData, s

\* The first step of the first lane has the index 0.
LEMMA AtStart == Place /\ stepIndex = 0 => activeStep.lane = 1 /\ activeStep.index = 0
<1> SUFFICES ASSUME Place, stepIndex = 0 PROVE activeStep.lane = 1 /\ activeStep.index = 0
  OBVIOUS
<1>1. /\ 1 \in LanesOf(scenario) /\ BeginOf(scenario, 1) = 0
      /\ LenOf(scenario, 1) \in Nat \ {0}
  BY DEF Place, LaidOut
<1>2. 0 \in 0..LenOf(scenario, 1) - 1 /\ stepIndex = BeginOf(scenario, 1) + 0
  BY <1>1
<1>. QED
  BY <1>1, <1>2, Arrived DEF Stands

\* The hub is a scenario with a single step.
LEMMA HubWalked == << Hub, 0 >> \in AllScenarios /\ LaneOne[<< Hub, 0 >>] = 1
  BY DEF AllScenarios, LaneOne

\* A page or a scenario that is opened at its first step.
Starting ==
    /\ << page, scenarioIndex >> \in AllScenarios
    /\ LaneOne[<< page, scenarioIndex >>] = 1
    /\ (IF OnSequence THEN activeStep.lane ELSE 1) = 1
    /\ (IF OnSequence THEN activeStep.index + 1 ELSE 1) = 1

LEMMA Started == TypeOK /\ stepIndex = 0 => Starting
<1> SUFFICES ASSUME TypeOK, stepIndex = 0 PROVE Starting
  OBVIOUS
<1>1. CASE OnSequence
  <2>1. activeStep.lane = 1 /\ activeStep.index = 0
    BY <1>1, Placed, AtStart
  <2>. QED
    BY <1>1, <2>1, Placed, Walked DEF Starting, WalkedData
<1>2. CASE ~OnSequence
  <2>1. page = Hub /\ scenarioIndex = 0
    BY <1>2 DEF OnSequence, TypeOK, Indices
  <2>. QED
    BY <1>2, <2>1, HubWalked DEF Starting
<1>. QED
  BY <1>1, <1>2

\* What begins at the first step is a departure from the scenario before.
LEMMA LeaveStep ==
    ASSUME TypeOK', stepIndex' = 0
    PROVE  Walk!Leave
<1>1. (TypeOK /\ stepIndex = 0 => Starting)'
  BY Started, PTL
<1>2. Starting'
  BY <1>1
<1>. QED
  BY <1>2 DEF Starting, Walk!Leave, Walk!At

\* What is drawn again as it was.
LEMMA SamePlace ==
    ASSUME TypeOK, OnSequence, Render(scenarioIndex, stepIndex)
    PROVE  UNCHANGED << page, scenarioIndex, stepIndex >>
<1>1. Place /\ scenarioIndex \in Indices
  BY Placed DEF TypeOK
<1>2. stepIndex \in Nat /\ stepIndex < Len(steps)
  BY <1>1 DEF Place
<1>3. /\ page' = page /\ scenarioIndex' = scenarioIndex
      /\ steps' = StepsOf[page][scenarioIndex + 1]
      /\ stepIndex < Len(steps') => stepIndex' = stepIndex
  BY <1>1, <1>2, Rendered
<1>. QED
  BY <1>2, <1>3 DEF steps

\* While the indices stay the walk stays.
LEMMA WalkStays ==
    ASSUME UNCHANGED << page, scenarioIndex, stepIndex >>
    PROVE  UNCHANGED Walk!place
<1>1. OnSequence' = OnSequence /\ activeStep' = activeStep
  BY DEF OnSequence, activeStep, steps
<1>. QED
  BY <1>1 DEF Walk!place

\* A click that leaves the scenario as it is.
LEMMA WalkForward ==
    ASSUME TypeOK, OnSequence, Following
    PROVE  Walk!Forward
<1> DEFINE s == << page, scenarioIndex >>
           a == activeStep.lane
           x == activeStep.index
<1>1. Place /\ diagram /\ WalkedData /\ OnSequence' /\ << page', scenarioIndex' >> = s
  BY Placed, Walked, WentOn
<1>2. a \in LanesOf(scenario) /\ x \in 0..LenOf(scenario, a) - 1 /\ LenOf(scenario, a) \in Nat
      /\ laneLength = LenOf(scenario, a) /\ Lengths[s][a] = LenOf(scenario, a)
      /\ DOMAIN lanes = LanesOf(scenario) /\ LaneSet[s] = DOMAIN lanes
  BY <1>1, LanesAround DEF Place, WalkedData
<1>3. CASE /\ x + 1 < laneLength /\ activeStep'.lane = a /\ activeStep'.index = x + 1
  <2>1. x + 1 < Lengths[s][a] /\ activeStep'.index + 1 = (x + 1) + 1
    BY <1>2, <1>3
  <2>. QED
    BY <1>1, <1>3, <2>1 DEF Walk!Forward, Walk!At
<1>4. ASSUME x + 1 = laneLength, NEW m \in DOMAIN lanes, NextLanes = {m},
             activeStep'.lane = m, activeStep'.index = 0
      PROVE  Walk!Forward
  <2>1. NextLanes = {l \in DOMAIN lanes : lanes[a].nextLaneIds = << lanes[l].id >>}
    BY <1>1, LaneIds DEF IdsAround
  <2>2. lanes[a].nextLaneIds = << lanes[m].id >>
    BY <1>4, <2>1
  <2>3. ToSet(lanes[a].nextLaneIds) = {lanes[m].id}
    BY <2>2, OneId
  <2>4. Arrows[s] = {e \in (DOMAIN lanes) \X (DOMAIN lanes) :
                       lanes[e[2]].id \in ToSet(lanes[e[1]].nextLaneIds)}
    BY <1>1 DEF WalkedData
  <2>5. \A l \in DOMAIN lanes : << a, l >> \in Arrows[s] <=> lanes[l].id = lanes[m].id
    BY <1>2, <2>3, <2>4
  <2>6. {l \in LaneSet[s] : << a, l >> \in Arrows[s]} = {m}
    <3>1. \A l \in DOMAIN lanes : lanes[l].id = lanes[m].id => l = m
      BY <1>1, LanesAround
    <3>. QED
      BY <1>2, <2>5, <3>1
  <2>7. x + 1 = Lengths[s][a] /\ activeStep'.index + 1 = 1
    BY <1>2, <1>4
  <2>. QED
    BY <1>1, <1>4, <2>6, <2>7 DEF Walk!Forward, Walk!After, Walk!At
<1>. QED
  BY <1>3, <1>4, ForwardPlace

\* "previous" goes back.
LEMMA WalkBack ==
    ASSUME TypeOK, OnSequence, Previous
    PROVE  Walk!Back
<1> DEFINE s == << page, scenarioIndex >>
           a == activeStep.lane
           x == activeStep.index
<1>1. Place /\ diagram /\ WalkedData /\ OnSequence' /\ << page', scenarioIndex' >> = s
  BY Placed, Walked, WentBack
<1>x. x \in Nat
  BY <1>1 DEF Place
<1>2. /\ a \in LanesOf(scenario)
      /\ DOMAIN lanes = LanesOf(scenario) /\ LaneSet[s] = DOMAIN lanes
      /\ \A l \in DOMAIN lanes : Lengths[s][l] = LenOf(scenario, l)
  BY <1>1, LanesAround DEF Place, WalkedData
<1>3. CASE x > 0 /\ activeStep'.lane = a /\ activeStep'.index = x - 1
  <2>1. x + 1 > 1 /\ activeStep'.index + 1 = (x + 1) - 1
    BY <1>x, <1>3
  <2>. QED
    BY <1>1, <1>3, <2>1 DEF Walk!Back, Walk!At
<1>4. ASSUME x = 0, NEW m \in DOMAIN lanes, PreviousLanes = {m}, activeStep'.lane = m,
             activeStep'.index = LenOf(scenario, m) - 1
      PROVE  Walk!Back
  <2>1. PreviousLanes = {l \in DOMAIN lanes : lanes[a].id \in ToSet(lanes[l].nextLaneIds)}
    BY <1>1, LaneIds DEF IdsAround
  <2>2. Arrows[s] = {e \in (DOMAIN lanes) \X (DOMAIN lanes) :
                       lanes[e[2]].id \in ToSet(lanes[e[1]].nextLaneIds)}
    BY <1>1 DEF WalkedData
  <2>3. {l \in LaneSet[s] : << l, a >> \in Arrows[s]} = {m}
    BY <1>2, <1>4, <2>1, <2>2
  <2>4. LenOf(scenario, m) \in Nat
    BY <1>1, <1>4, LaneStart
  <2>5. x + 1 = 1 /\ activeStep'.index + 1 = Lengths[s][m]
    BY <1>2, <1>4, <2>4
  <2>. QED
    BY <1>1, <1>4, <2>3, <2>5 DEF Walk!Back, Walk!Before, Walk!At
<1>. QED
  BY <1>3, <1>4, BackPlace

\* A click on a step of the window skips fewer steps than the window has.
LEMMA WalkSkip ==
    ASSUME TypeOK, OnSequence, NEW i \in Nat, SelectStep(i)
    PROVE  Walk!Skip
<1> DEFINE s == << page, scenarioIndex >>
           a == activeStep.lane
           x == activeStep.index
           b == BeginOf(scenario, a)
           n == LenOf(scenario, a)
<1>1. /\ Place /\ Place' /\ diagram /\ WalkedData /\ OnSequence'
      /\ << page', scenarioIndex' >> = s /\ stepIndex' = i /\ scenario' = scenario
      /\ i \in Shown
  BY Placed, Walked, StepChosen, PlacedNext
<1>2. /\ a \in LanesOf(scenario) /\ x \in 0..n - 1 /\ n \in Nat \ {0} /\ b \in Nat
      /\ stepIndex = b + x /\ laneSteps = b..b + n - 1 /\ laneStart = b
      /\ Lengths[s][a] = n /\ Reaches[s] = Window - 1
  BY <1>1 DEF Place, WalkedData
<1>3. stepIndex \in Shown
  BY <1>1, Windowed
<1>4. PICK w : w = LaneWindowStart
  OBVIOUS
<1>5. /\ i \in b..b + n - 1 /\ i \in w..w + Window - 1 /\ stepIndex \in w..w + Window - 1
  BY <1>1, <1>2, <1>3, <1>4 DEF Shown
<1>6. w \in Int
  BY <1>1, <1>4, WindowType
<1> DEFINE j == i - b
<1>7. j \in 0..n - 1 /\ i = b + j
  BY <1>2, <1>5
<1>8. activeStep'.lane = a /\ activeStep'.index = j
  <2>1. (Place => Stands)'
    BY Arrived, PTL
  <2>2. Stands'
    BY <1>1, <2>1
  <2> HIDE DEF j
  <2>. QED
    BY <1>1, <1>2, <1>7, <2>2 DEF Stands
<1>9. (j + 1) - (x + 1) \in -(Window - 1)..Window - 1
  <2>1. /\ j \in Nat /\ x \in Nat /\ b \in Nat /\ i = b + j /\ stepIndex = b + x
    BY <1>2, <1>7
  <2> HIDE DEF j, x, b
  <2>2. /\ w <= b + j /\ b + j <= w + 6 /\ w <= b + x /\ b + x <= w + 6
    BY <1>5, <1>6, <2>1 DEF Window
  <2>. QED
    BY <1>6, <2>1, <2>2 DEF Window
<1>10. j + 1 \in 1..Lengths[s][a]
  BY <1>2, <1>7
<1> HIDE DEF j
<1>. QED
  BY <1>1, <1>2, <1>8, <1>9, <1>10 DEF Walk!Skip, Walk!At

\* Two steps of a flow are less than the flow apart.
LEMMA Apart ==
    ASSUME NEW f \in Nat, NEW i \in 0..f - 1, NEW j \in 0..f - 1
    PROVE  j + 1 \in 1..f /\ (j + 1) - (i + 1) \in -f..f
OBVIOUS

\* A click on a node skips fewer steps than the flow has.
LEMMA WalkRoute ==
    ASSUME TypeOK, OnSequence, ~diagram, NEW n \in OpenNodes, SelectNode(n)
    PROVE  Walk!Skip
<1> DEFINE s == << page, scenarioIndex >>
           f == LenOf(scenario, 1)
<1>1. /\ Place /\ Place' /\ WalkedData /\ OnSequence' /\ << page', scenarioIndex' >> = s
      /\ steps' = steps
  BY Placed, Walked, NodeChosen, PlacedNext
<1>2. /\ Len(steps) = f /\ f \in Nat \ {0} /\ LanesOf(scenario) = {1}
      /\ \A i \in 0..Len(steps) - 1 : steps[i + 1].lane = 1 /\ steps[i + 1].index = i
  BY <1>1, PlainRoute
<1>3. /\ stepIndex \in 0..f - 1 /\ stepIndex' \in 0..f - 1
      /\ Lengths[s][1] = f /\ Reaches[s] = f
  BY <1>1, <1>2 DEF Place, WalkedData
<1>4. activeStep.lane = 1 /\ activeStep.index = stepIndex
  BY <1>2, <1>3 DEF activeStep
<1>5. activeStep'.lane = 1 /\ activeStep'.index = stepIndex'
  BY <1>1, <1>2, <1>3 DEF activeStep
<1> HIDE DEF f
<1>6. stepIndex' + 1 \in 1..f /\ (stepIndex' + 1) - (stepIndex + 1) \in -f..f
  <2>1. f \in Nat
    BY <1>2
  <2>. QED
    BY <1>3, <2>1, Apart
<1>. QED
  BY <1>1, <1>3, <1>4, <1>5, <1>6 DEF Walk!Skip, Walk!At

\* A click on a lane changes the lane.
LEMMA WalkLane ==
    ASSUME TypeOK, OnSequence, NEW l \in DOMAIN lanes, SelectLane(l)
    PROVE  Walk!ChangeLane
<1>1. /\ Place /\ Place' /\ diagram /\ WalkedData /\ OnSequence' /\ scenario' = scenario
      /\ page' = page /\ scenarioIndex' = scenarioIndex
      /\ stepIndex' = BeginOf(scenario, l)
  BY Placed, Walked, LaneChanged, PlacedNext
<1>2. l \in LanesOf(scenario) /\ LenOf(scenario, l) \in Nat \ {0} /\ BeginOf(scenario, l) \in Nat
  BY <1>1, LanesAround, LaneStart
<1>3. activeStep'.lane = l /\ activeStep'.index = 0
  <2>1. (Place => Stands)'
    BY Arrived, PTL
  <2>2. 0 \in 0..LenOf(scenario, l) - 1 /\ stepIndex' = BeginOf(scenario, l) + 0
    BY <1>1, <1>2
  <2>. QED
    BY <1>1, <1>2, <2>1, <2>2 DEF Stands
<1>4. l \in LaneSet[<< page, scenarioIndex >>]
  BY <1>1, <1>2 DEF WalkedData
<1>. QED
  BY <1>1, <1>3, <1>4 DEF Walk!ChangeLane, Walk!At

\* Every step of the page is a step of the walk, or none.
LEMMA WalkStep ==
    ASSUME Inv, [Next]_vars
    PROVE  [Walk!Next]_Walk!place
<1>0. TypeOK /\ Inv' /\ TypeOK'
  BY InvStep DEF Inv
<1>1. ASSUME NEW p \in Links \cup {page}, Open(p) PROVE Walk!Next
  <2>1. stepIndex' = 0
    BY <1>1 DEF Open, Fresh
  <2>. QED
    BY <1>0, <2>1, LeaveStep DEF Walk!Next
<1>2. CASE Frame
  BY <1>2, WalkStays DEF Frame, indices
<1>3. CASE MotionChanged
  <2>1. OnSequence /\ Render(scenarioIndex, stepIndex) /\ scenarioIndex \in Indices
    BY <1>0, <1>3 DEF MotionChanged, TypeOK
  <2>. QED
    BY <1>0, <2>1, SamePlace, WalkStays
<1>4. ASSUME OnSequence, NEW k \in Indices, SelectScenario(k) PROVE Walk!Next
  <2>1. Render(k, 0) /\ 0 \in Nat
    BY <1>4 DEF SelectScenario, Click, StepOfNewScenario
  <2>2. stepIndex' = 0
    BY <1>0, <1>4, <2>1, Rendered
  <2>. QED
    BY <1>0, <2>2, LeaveStep DEF Walk!Next
<1>5. ASSUME OnSequence, NEW o \in scenario.options, Predict(o) PROVE UNCHANGED Walk!place
  BY <1>5, WalkStays DEF Predict, indices
<1>6. ASSUME OnSequence, Reveal PROVE UNCHANGED Walk!place
  <2>1. Render(scenarioIndex, stepIndex) /\ scenarioIndex \in Indices
    BY <1>0, <1>6 DEF Reveal, Click, TypeOK
  <2>. QED
    BY <1>0, <1>6, <2>1, SamePlace, WalkStays
<1>7. ASSUME OnSequence, NEW l \in DOMAIN lanes, SelectLane(l) PROVE Walk!Next
  BY <1>0, <1>7, WalkLane DEF Walk!Next
<1>8. ASSUME OnSequence, NEW i \in 0..Len(steps) - 1, SelectStep(i) PROVE Walk!Next
  <2>1. i \in Nat
    BY <1>0, <1>8, Placed DEF Place
  <2>. QED
    BY <1>0, <1>8, <2>1, WalkSkip DEF Walk!Next
<1>9. ASSUME OnSequence, Previous PROVE Walk!Next
  BY <1>0, <1>9, WalkBack DEF Walk!Next
<1>10. ASSUME OnSequence, Following PROVE Walk!Next
  BY <1>0, <1>10, WalkForward DEF Walk!Next
<1>11. ASSUME OnSequence, ~diagram, NEW n \in OpenNodes, SelectNode(n) PROVE Walk!Next
  BY <1>0, <1>11, WalkRoute DEF Walk!Next
<1>12. CASE UNCHANGED vars
  BY <1>12, WalkStays DEF vars, indices
<1>. QED
  BY <1>1, <1>2, <1>3, <1>4, <1>5, <1>6, <1>7, <1>8, <1>9, <1>10, <1>11, <1>12 DEF Next

\* A walk begins at a first step.
LEMMA WalkInit == Init => Walk!Init
<1> SUFFICES ASSUME Init PROVE Walk!Init
  OBVIOUS
<1>1. Starting
  BY Loaded, Started DEF Init, Inv
<1>2. << page, scenarioIndex >> \in Firsts
  BY <1>1 DEF Init, Starting, Firsts
<1>. QED
  BY <1>1, <1>2 DEF Starting, Walk!Init

(* The index arithmetic of visual-lab.js implements the walk over lanes    *)
(* and positions, for every set of pages.                                  *)
THEOREM WalkImplemented == Spec => WalkSpec
<1>1. Inv /\ [Next]_vars => [Walk!Next]_Walk!place
  BY WalkStep
<1>. QED
  BY <1>1, WalkInit, InvHolds, PTL DEF Spec, WalkSpec, Walk!Spec
=============================================================================
