-------------------------- MODULE PageOrderProofs ---------------------------
(***************************************************************************)
(* That the settings window lists what the island shows, and that whatever *)
(* is done to the rows loses and repeats no page, for any built-in pages,  *)
(* pages of plugins, edits and turns.                                      *)
(***************************************************************************)
EXTENDS PageOrder, TLAPS, FiniteSetTheorems, FunctionTheorems, SequenceTheorems,
        WellFoundedInduction

-----------------------------------------------------------------------------
(* Places that are counted from the lowest.                                *)

(* What holds at first and stays with every number holds up to the last.   *)
LEMMA Counting ==
  ASSUME NEW n \in Nat, NEW T, 0 \in T, \A m \in 0..(n - 1) : m \in T => m + 1 \in T
  PROVE  \A m \in 0..n : m \in T
<1> DEFINE R == OpToRel(<, Nat)
           Bad == {m \in 0..n : m \notin T}
<1>1. IsWellFoundedOn(R, Nat)
  BY NatLessThanWellFounded
<1>2. \A x, y \in Nat : x < y => <<x, y>> \in R
  BY DEF OpToRel
<1> HIDE DEF R
<1>3. SUFFICES ASSUME Bad # {} PROVE FALSE
  OBVIOUS
<1>4. Bad \subseteq Nat
  OBVIOUS
<1>5. PICK a \in Bad : \A b \in Bad : <<b, a>> \notin R
  BY <1>1, <1>3, <1>4, WFMin
<1>6. a # 0 /\ a \in 0..n /\ a \notin T
  OBVIOUS
<1>7. a - 1 \in 0..(n - 1) /\ a - 1 \in 0..n /\ a - 1 < a /\ (a - 1) + 1 = a
  BY <1>6
<1>8. a - 1 \notin Bad
  <2>1. a \in Nat /\ a - 1 \in Nat
    BY <1>6, <1>7
  <2>2. <<a - 1, a>> \in R
    BY <1>2, <1>7, <2>1
  <2> HIDE DEF Bad
  <2> QED BY <1>5, <2>2
<1> QED BY <1>6, <1>7, <1>8

(* Places of a list are as many as there are numbers that count them up.   *)
LEMMA AsMany ==
  ASSUME NEW m \in Nat, NEW I, NEW g \in [1..m -> I],
         \A k, l \in 1..m : g[k] = g[l] => k = l, \A i \in I : \E k \in 1..m : g[k] = i
  PROVE  IsFiniteSet(I) /\ Cardinality(I) = m
<1>1. g \in Bijection(1..m, I)
  BY Fun_IsBij
<1>2. ExistsBijection(1..m, I)
  BY <1>1 DEF ExistsBijection
<1> QED BY <1>2, FS_NatBijection, FS_CountingElements

LEMMA InInterval ==
  ASSUME NEW n \in Nat, NEW I \in SUBSET (1..n)
  PROVE  IsFiniteSet(I) /\ Cardinality(I) \in 0..n
<1>1. IsFiniteSet(1..n) /\ Cardinality(1..n) = n
  BY FS_Interval
<1>2. IsFiniteSet(I) /\ Cardinality(I) <= n
  BY <1>1, FS_Subset
<1> QED BY <1>2, FS_CardinalityType

(* g gives the m places of I in their order: it counts as Rank does.       *)
Lists(g, m, I) ==
  /\ g \in [1..m -> I]
  /\ \A k, l \in 1..m : k < l => g[k] < g[l]
  /\ \A i \in I : \E k \in 1..m : g[k] = i

LEMMA CountedBy ==
  ASSUME NEW n \in Nat, NEW I \in SUBSET (1..n), NEW m \in Nat, NEW g, Lists(g, m, I)
  PROVE  /\ Cardinality(I) = m
         /\ \A k \in 1..m : Rank(I, g[k]) = k /\ Nth(I, k) = g[k]
<1> USE DEF Lists
<1>1. \A k, l \in 1..m : /\ g[k] = g[l] => k = l
                         /\ g[k] <= g[l] => k <= l
                         /\ k <= l => g[k] <= g[l]
  <2> SUFFICES ASSUME NEW k \in 1..m, NEW l \in 1..m
               PROVE  /\ g[k] = g[l] => k = l
                      /\ g[k] <= g[l] => k <= l
                      /\ k <= l => g[k] <= g[l]
    OBVIOUS
  <2>1. g[k] \in 1..n /\ g[l] \in 1..n
    OBVIOUS
  <2>2. k < l \/ k = l \/ l < k
    OBVIOUS
  <2> QED BY <2>1, <2>2
<1>2. Cardinality(I) = m
  BY <1>1, AsMany
<1>3. ASSUME NEW k \in 1..m PROVE Rank(I, g[k]) = k
  <2> DEFINE below == {j \in I : j <= g[k]}
             h == [l \in 1..k |-> g[l]]
  <2>1. \A l \in 1..k : l \in 1..m /\ g[l] \in below /\ h[l] = g[l]
    BY <1>1
  <2>2. h \in [1..k -> below]
    BY <2>1
  <2>3. \A l, j \in 1..k : h[l] = h[j] => l = j
    BY <1>1, <2>1
  <2>4. \A j \in below : \E l \in 1..k : h[l] = j
    <3> SUFFICES ASSUME NEW j \in below PROVE \E l \in 1..k : h[l] = j
      OBVIOUS
    <3>1. PICK l \in 1..m : g[l] = j
      OBVIOUS
    <3>2. l \in 1..k
      BY <1>1, <3>1
    <3> QED BY <2>1, <3>1, <3>2
  <2> HIDE DEF below, h
  <2>5. k \in Nat
    OBVIOUS
  <2>6. Cardinality(below) = k
    BY <2>2, <2>3, <2>4, <2>5, AsMany
  <2> QED BY <2>6 DEF below, Rank
<1>4. ASSUME NEW k \in 1..m PROVE Nth(I, k) = g[k]
  <2>1. g[k] \in I /\ Rank(I, g[k]) = k
    BY <1>3
  <2>2. \A i \in I : Rank(I, i) = k => i = g[k]
    <3> SUFFICES ASSUME NEW i \in I, Rank(I, i) = k PROVE i = g[k]
      OBVIOUS
    <3>1. PICK l \in 1..m : g[l] = i
      OBVIOUS
    <3>2. l = k
      BY <1>3, <3>1
    <3> QED BY <3>1, <3>2
  <2> QED BY <2>1, <2>2 DEF Nth
<1> QED BY <1>2, <1>3, <1>4

(* Of two places the greater has the greater rank.                         *)
LEMMA RanksGrow ==
  ASSUME NEW n \in Nat, NEW I \in SUBSET (1..n), NEW a \in I, NEW b \in I, a < b
  PROVE  Rank(I, a) \in Nat /\ Rank(I, b) \in Nat /\ Rank(I, a) < Rank(I, b)
<1> DEFINE Below(k) == {j \in I : j <= k}
<1>1. Below(a) \in SUBSET Below(b)
  <2>1. \A j \in I : j <= a => j <= b
    OBVIOUS
  <2> QED BY <2>1
<1>2. b \in Below(b) /\ b \notin Below(a) /\ Below(b) \in SUBSET (1..n)
  <2>1. a \in Nat /\ b \in Nat /\ ~(b <= a) /\ b <= b
    OBVIOUS
  <2>2. Below(b) \subseteq I
    OBVIOUS
  <2>3. Below(b) \in SUBSET (1..n)
    BY <2>2
  <2>4. b \in Below(b) /\ b \notin Below(a)
    BY <2>1
  <2> HIDE DEF Below
  <2> QED BY <2>3, <2>4
<1> HIDE DEF Below
<1>3. IsFiniteSet(Below(b)) /\ Cardinality(Below(b)) \in 0..n
  BY <1>2, InInterval
<1>4. /\ IsFiniteSet(Below(a))
      /\ Cardinality(Below(a)) <= Cardinality(Below(b))
      /\ Cardinality(Below(a)) # Cardinality(Below(b))
  BY <1>1, <1>2, <1>3, FS_Subset
<1>5. Cardinality(Below(a)) \in Nat
  BY <1>4, FS_CardinalityType
<1>6. Cardinality(Below(a)) < Cardinality(Below(b))
  BY <1>3, <1>4, <1>5
<1> QED BY <1>3, <1>5, <1>6 DEF Below, Rank

(* Ranks number the places from 1, and Nth goes back.                      *)
LEMMA Ranks ==
  ASSUME NEW n \in Nat, NEW I \in SUBSET (1..n)
  PROVE  /\ IsFiniteSet(I) /\ Cardinality(I) \in 0..n
         /\ \A i \in I : Rank(I, i) \in 1..Cardinality(I) /\ Nth(I, Rank(I, i)) = i
         /\ \A k \in 1..Cardinality(I) : Nth(I, k) \in I /\ Rank(I, Nth(I, k)) = k
         /\ \A k, l \in 1..Cardinality(I) : k < l => Nth(I, k) < Nth(I, l)
<1> DEFINE C == Cardinality(I)
           rank == [i \in I |-> Rank(I, i)]
<1>1. IsFiniteSet(I) /\ C \in 0..n
  BY InInterval
<1>2. \A i \in I : Rank(I, i) \in 1..C
  <2> SUFFICES ASSUME NEW i \in I PROVE Rank(I, i) \in 1..C
    OBVIOUS
  <2> DEFINE below == {j \in I : j <= i}
  <2>1. below \in SUBSET I /\ i \in below
    OBVIOUS
  <2> HIDE DEF below
  <2>2. IsFiniteSet(below) /\ Cardinality(below) <= C
    BY <1>1, <2>1, FS_Subset
  <2>3. Cardinality(below) # 0 /\ Cardinality(below) \in Nat
    BY <2>1, <2>2, FS_EmptySet, FS_CardinalityType
  <2>4. Cardinality(below) \in 1..C
    BY <1>1, <2>2, <2>3
  <2> QED BY <2>4 DEF below, Rank
<1>3. \A a, b \in I : (a < b => Rank(I, a) < Rank(I, b)) /\ (Rank(I, a) = Rank(I, b) => a = b)
  <2> SUFFICES ASSUME NEW a \in I, NEW b \in I
               PROVE  (a < b => Rank(I, a) < Rank(I, b)) /\ (Rank(I, a) = Rank(I, b) => a = b)
    OBVIOUS
  <2>1. a < b \/ a = b \/ b < a
    OBVIOUS
  <2>2. CASE a < b
    <3>1. Rank(I, a) \in Nat /\ Rank(I, b) \in Nat /\ Rank(I, a) < Rank(I, b)
      BY <2>2, RanksGrow
    <3> QED BY <2>2, <3>1
  <2>3. CASE b < a
    <3>1. Rank(I, a) \in Nat /\ Rank(I, b) \in Nat /\ Rank(I, b) < Rank(I, a)
      BY <2>3, RanksGrow
    <3> QED BY <2>3, <3>1
  <2> QED BY <2>1, <2>2, <2>3
<1>4. rank \in Surjection(I, 1..C)
  <2>1. rank \in [I -> 1..C] /\ \A a, b \in I : rank[a] = rank[b] => a = b
    BY <1>2, <1>3
  <2> HIDE DEF rank
  <2>2. rank \in Injection(I, 1..C)
    BY <2>1, Fun_IsInj
  <2>3. IsFiniteSet(1..C) /\ Cardinality(1..C) = C
    BY <1>1, FS_Interval
  <2> QED BY <2>2, <2>3, FS_Injection
<1>5. \A k \in 1..C : \E i \in I : Rank(I, i) = k
  <2>1. \A k \in 1..C : \E i \in I : rank[i] = k
    <3> HIDE DEF rank
    <3> QED BY <1>4 DEF Surjection
  <2> QED BY <2>1
<1>6. \A k \in 1..C : Nth(I, k) \in I /\ Rank(I, Nth(I, k)) = k
  BY <1>5 DEF Nth
<1>7. \A i \in I : Nth(I, Rank(I, i)) = i
  BY <1>2, <1>3, <1>6
<1>8. \A k, l \in 1..C : k < l => Nth(I, k) < Nth(I, l)
  <2> SUFFICES ASSUME NEW k \in 1..C, NEW l \in 1..C, k < l PROVE Nth(I, k) < Nth(I, l)
    OBVIOUS
  <2>1. Nth(I, k) \in I /\ Nth(I, l) \in I /\ Rank(I, Nth(I, k)) = k /\ Rank(I, Nth(I, l)) = l
    BY <1>6
  <2>2. Nth(I, l) < Nth(I, k) => l < k
    BY <1>3, <2>1
  <2>3. k # l /\ ~(l < k)
    BY <1>1
  <2>4. Nth(I, k) # Nth(I, l)
    BY <2>1, <2>3
  <2>5. Nth(I, k) \in 1..n /\ Nth(I, l) \in 1..n
    BY <2>1
  <2> QED BY <2>2, <2>3, <2>4, <2>5
<1> QED BY <1>1, <1>2, <1>6, <1>7, <1>8

LEMMA RankAtFirst ==
  ASSUME NEW n \in Nat, NEW I \in SUBSET (1..n), NEW k \in Nat, 1..k \subseteq I
  PROVE  Rank(I, k) = k
<1>1. {j \in I : j <= k} = 1..k
  <2>1. \A j \in I : j <= k => j \in 1..k
    OBVIOUS
  <2>2. \A j \in 1..k : j \in I /\ j <= k
    OBVIOUS
  <2> QED BY <2>1, <2>2
<1>2. Cardinality(1..k) = k
  BY FS_Interval
<1> QED BY <1>1, <1>2 DEF Rank

-----------------------------------------------------------------------------
(* The elements of a list at some of its places.                           *)

LEMMA Places ==
  ASSUME NEW S, NEW s \in Seq(S), NEW I \in SUBSET (DOMAIN s)
  PROVE  /\ IsFiniteSet(I) /\ Cardinality(I) \in 0..Len(s)
         /\ \A i \in I : Rank(I, i) \in 1..Cardinality(I) /\ Nth(I, Rank(I, i)) = i
         /\ \A k \in 1..Cardinality(I) : Nth(I, k) \in I /\ Rank(I, Nth(I, k)) = k
         /\ \A k, l \in 1..Cardinality(I) : k < l => Nth(I, k) < Nth(I, l)
<1> DEFINE n == Len(s)
<1>1. n \in Nat /\ I \in SUBSET (1..n)
  BY LenProperties
<1> HIDE DEF n
<1>2. /\ IsFiniteSet(I) /\ Cardinality(I) \in 0..n
      /\ \A i \in I : Rank(I, i) \in 1..Cardinality(I) /\ Nth(I, Rank(I, i)) = i
      /\ \A k \in 1..Cardinality(I) : Nth(I, k) \in I /\ Rank(I, Nth(I, k)) = k
      /\ \A k, l \in 1..Cardinality(I) : k < l => Nth(I, k) < Nth(I, l)
  BY <1>1, Ranks
<1> QED BY <1>2 DEF n

LEMMA AmongIs ==
  ASSUME NEW S, NEW s \in Seq(S), NEW I \in SUBSET (DOMAIN s)
  PROVE  /\ Among(s, I) \in Seq(S)
         /\ Len(Among(s, I)) = Cardinality(I) /\ Cardinality(I) \in 0..Len(s)
         /\ DOMAIN Among(s, I) = 1..Cardinality(I)
         /\ \A k \in 1..Cardinality(I) : Nth(I, k) \in I /\ Among(s, I)[k] = s[Nth(I, k)]
         /\ \A i \in I : Rank(I, i) \in 1..Cardinality(I) /\ Among(s, I)[Rank(I, i)] = s[i]
         /\ Range(Among(s, I)) = {s[i] : i \in I}
<1> DEFINE C == Cardinality(I)
           t == Among(s, I)
<1>1. Len(s) \in Nat /\ DOMAIN s = 1..Len(s) /\ \A i \in DOMAIN s : s[i] \in S
  BY LenProperties, ElementOfSeq
<1>2. I \in SUBSET (1..Len(s))
  BY <1>1
<1>3. /\ C \in 0..Len(s)
      /\ \A i \in I : Rank(I, i) \in 1..C /\ Nth(I, Rank(I, i)) = i
      /\ \A k \in 1..C : Nth(I, k) \in I
  BY <1>1, <1>2, Ranks
<1>4. t = [k \in 1..C |-> s[Nth(I, k)]]
  BY DEF Among
<1> HIDE DEF C, t
<1>5. t \in [1..C -> S]
  BY <1>1, <1>3, <1>4
<1>6. t \in Seq(S) /\ Len(t) = C /\ DOMAIN t = 1..C
  BY <1>3, <1>5
<1>7. \A k \in 1..C : t[k] = s[Nth(I, k)]
  BY <1>4
<1>8. \A i \in I : Rank(I, i) \in 1..C /\ t[Rank(I, i)] = s[i]
  BY <1>3, <1>7
<1>9. Range(t) = {s[i] : i \in I}
  <2>1. \A k \in DOMAIN t : t[k] \in {s[i] : i \in I}
    BY <1>3, <1>6, <1>7
  <2>2. \A i \in I : s[i] \in Range(t)
    BY <1>6, <1>8 DEF Range
  <2> QED BY <2>1, <2>2 DEF Range
<1> QED BY <1>3, <1>6, <1>7, <1>8, <1>9 DEF C, t

(* The list that g makes of the places is the list of the places.          *)
LEMMA AmongBy ==
  ASSUME NEW S, NEW s \in Seq(S), NEW I \in SUBSET (DOMAIN s), NEW t \in Seq(S),
         NEW g, Lists(g, Len(t), I), \A k \in 1..Len(t) : t[k] = s[g[k]]
  PROVE  Among(s, I) = t
<1> DEFINE n == Len(s)
           m == Len(t)
<1>1. n \in Nat /\ I \in SUBSET (1..n)
  BY LenProperties
<1>2. m \in Nat
  BY LenProperties
<1>3. Lists(g, m, I)
  OBVIOUS
<1>4. /\ Among(s, I) \in Seq(S) /\ Len(Among(s, I)) = Cardinality(I)
      /\ \A k \in 1..Cardinality(I) : Among(s, I)[k] = s[Nth(I, k)]
  BY AmongIs
<1> HIDE DEF n, m
<1>5. Cardinality(I) = m /\ \A k \in 1..m : Rank(I, g[k]) = k /\ Nth(I, k) = g[k]
  BY ONLY <1>1, <1>2, <1>3, CountedBy
<1>6. Len(Among(s, I)) = Len(t) /\ \A k \in 1..Len(t) : Among(s, I)[k] = t[k]
  BY <1>4, <1>5 DEF m
<1> QED BY <1>4, <1>6, SeqEqual

LEMMA AmongAll ==
  ASSUME NEW S, NEW s \in Seq(S) PROVE Among(s, DOMAIN s) = s
<1> DEFINE g == [k \in 1..Len(s) |-> k]
<1>1. Len(s) \in Nat /\ DOMAIN s = 1..Len(s)
  BY LenProperties
<1>2. Lists(g, Len(s), DOMAIN s) /\ \A k \in 1..Len(s) : s[k] = s[g[k]]
  BY <1>1 DEF Lists
<1> HIDE DEF g
<1> QED BY <1>2, AmongBy

LEMMA AmongNone ==
  ASSUME NEW S, NEW s \in Seq(S) PROVE Among(s, {}) = << >>
<1>1. Among(s, {}) \in Seq(S) /\ Len(Among(s, {})) = 0
  BY AmongIs, FS_EmptySet
<1> QED BY <1>1, EmptySeq

LEMMA AmongAmong ==
  ASSUME NEW S, NEW s \in Seq(S), NEW I \in SUBSET (DOMAIN s),
         NEW J \in SUBSET (1..Cardinality(I))
  PROVE  Among(Among(s, I), J) = Among(s, {i \in I : Rank(I, i) \in J})
<1> DEFINE K == {i \in I : Rank(I, i) \in J}
           a == Among(s, I)
           t == Among(a, J)
           g == [k \in 1..Cardinality(J) |-> Nth(I, Nth(J, k))]
<1>1. Len(s) \in Nat /\ DOMAIN s = 1..Len(s) /\ I \in SUBSET (1..Len(s))
  BY LenProperties
<1>2. /\ Cardinality(I) \in Nat
      /\ \A i \in I : Rank(I, i) \in 1..Cardinality(I) /\ Nth(I, Rank(I, i)) = i
      /\ \A k \in 1..Cardinality(I) : Nth(I, k) \in I /\ Rank(I, Nth(I, k)) = k
      /\ \A k, l \in 1..Cardinality(I) : k < l => Nth(I, k) < Nth(I, l)
  BY <1>1, Ranks
<1>3. /\ Cardinality(J) \in Nat
      /\ \A i \in J : Rank(J, i) \in 1..Cardinality(J) /\ Nth(J, Rank(J, i)) = i
      /\ \A k \in 1..Cardinality(J) : Nth(J, k) \in J
      /\ \A k, l \in 1..Cardinality(J) : k < l => Nth(J, k) < Nth(J, l)
  BY <1>2, Ranks
<1>4. /\ a \in Seq(S) /\ DOMAIN a = 1..Cardinality(I)
      /\ \A k \in 1..Cardinality(I) : a[k] = s[Nth(I, k)]
  BY AmongIs
<1> HIDE DEF a
<1>5. t \in Seq(S) /\ Len(t) = Cardinality(J)
      /\ \A k \in 1..Cardinality(J) : t[k] = a[Nth(J, k)]
  <2>1. J \in SUBSET (DOMAIN a)
    BY <1>4
  <2> QED BY <1>4, <2>1, AmongIs
<1>6. \A k \in 1..Len(t) : Nth(J, k) \in J /\ Nth(J, k) \in 1..Cardinality(I)
  BY <1>3, <1>5
<1> HIDE DEF t
<1>7. g \in [1..Len(t) -> K]
  BY <1>2, <1>5, <1>6
<1>8. \A k, l \in 1..Len(t) : k < l => g[k] < g[l]
  BY <1>2, <1>3, <1>5, <1>6
<1>9. \A i \in K : \E k \in 1..Len(t) : g[k] = i
  <2> SUFFICES ASSUME NEW i \in K PROVE \E k \in 1..Len(t) : g[k] = i
    OBVIOUS
  <2>1. Rank(I, i) \in J /\ Nth(I, Rank(I, i)) = i
    BY <1>2
  <2>2. Rank(J, Rank(I, i)) \in 1..Len(t) /\ Nth(J, Rank(J, Rank(I, i))) = Rank(I, i)
    BY <1>3, <1>5, <2>1
  <2> QED BY <1>5, <2>1, <2>2
<1>10. \A k \in 1..Len(t) : t[k] = s[g[k]]
  BY <1>4, <1>5, <1>6
<1>11. K \in SUBSET (DOMAIN s) /\ Lists(g, Len(t), K)
  BY <1>7, <1>8, <1>9 DEF Lists
<1> HIDE DEF g, K
<1>12. Among(s, K) = t
  BY <1>5, <1>10, <1>11, AmongBy
<1> QED BY <1>12 DEF a, t, K

(* t is s with x at place p.                                               *)
IsPut(t, s, p, x) ==
  /\ Len(t) = Len(s) + 1
  /\ \A k \in 1..(Len(s) + 1) : /\ k < p => t[k] = s[k]
                                /\ k = p => t[k] = x
                                /\ k > p => t[k] = s[k - 1]

LEMMA PutAtIs ==
  ASSUME NEW S, NEW s \in Seq(S), NEW p \in 1..(Len(s) + 1), NEW x \in S
  PROVE  PutAt(s, p, x) \in Seq(S) /\ IsPut(PutAt(s, p, x), s, p, x)
<1> DEFINE a == SubSeq(s, 1, p - 1)
           b == SubSeq(s, p, Len(s))
           c == <<x>>
           d == a \o c
<1>1. Len(s) \in Nat /\ \A i \in 1..Len(s) : s[i] \in S
  BY LenProperties, ElementOfSeq
<1>2. /\ a \in Seq(S) /\ Len(a) = p - 1
      /\ \A i \in 1..(p - 1) : a[i] = s[i]
  <2>1. \A i \in 1..(p - 1) : s[i] \in S
    BY <1>1
  <2>2. /\ a \in Seq(S) /\ Len(a) = IF 1 <= p - 1 THEN p - 1 - 1 + 1 ELSE 0
        /\ \A i \in 1..(p - 1 - 1 + 1) : a[i] = s[1 + i - 1]
    BY <1>1, <2>1, SubSeqProperties
  <2> HIDE DEF a
  <2> QED BY <1>1, <2>2
<1>3. /\ b \in Seq(S) /\ Len(b) = Len(s) - p + 1
      /\ \A i \in 1..(Len(s) - p + 1) : b[i] = s[p + i - 1]
  <2>1. \A i \in p..Len(s) : s[i] \in S
    BY <1>1
  <2>2. /\ b \in Seq(S) /\ Len(b) = IF p <= Len(s) THEN Len(s) - p + 1 ELSE 0
        /\ \A i \in 1..(Len(s) - p + 1) : b[i] = s[p + i - 1]
    BY <1>1, <2>1, SubSeqProperties
  <2> HIDE DEF b
  <2> QED BY <1>1, <2>2
<1>4. c \in Seq(S) /\ Len(c) = 1 /\ c[1] = x
  OBVIOUS
<1> HIDE DEF a, b, c
<1>5. /\ d \in Seq(S) /\ Len(d) = p
      /\ \A i \in 1..p : d[i] = IF i <= p - 1 THEN a[i] ELSE c[i - (p - 1)]
  <2>1. /\ d \in Seq(S) /\ Len(d) = Len(a) + Len(c)
        /\ \A i \in 1..(Len(a) + Len(c)) :
             d[i] = IF i <= Len(a) THEN a[i] ELSE c[i - Len(a)]
    BY <1>2, <1>4, ConcatProperties
  <2>2. Len(a) + Len(c) = p
    BY <1>1, <1>2, <1>4
  <2> QED BY <1>2, <2>1, <2>2
<1> HIDE DEF d
<1>6. /\ d \o b \in Seq(S) /\ Len(d \o b) = Len(s) + 1
      /\ \A i \in 1..(Len(s) + 1) :
           (d \o b)[i] = IF i <= p THEN d[i] ELSE b[i - p]
  <2>1. /\ d \o b \in Seq(S) /\ Len(d \o b) = Len(d) + Len(b)
        /\ \A i \in 1..(Len(d) + Len(b)) :
             (d \o b)[i] = IF i <= Len(d) THEN d[i] ELSE b[i - Len(d)]
    BY <1>3, <1>5, ConcatProperties
  <2>2. Len(d) + Len(b) = Len(s) + 1
    BY <1>1, <1>3, <1>5
  <2> QED BY <1>5, <2>1, <2>2
<1>7. PutAt(s, p, x) = d \o b
  BY DEF PutAt, a, b, c, d
<1>8. ASSUME NEW k \in 1..(Len(s) + 1)
      PROVE  /\ k < p => PutAt(s, p, x)[k] = s[k]
             /\ k = p => PutAt(s, p, x)[k] = x
             /\ k > p => PutAt(s, p, x)[k] = s[k - 1]
  <2>1. CASE k < p
    <3>1. k \in 1..p /\ k \in 1..(p - 1)
      BY <1>1, <2>1
    <3> QED BY <1>1, <1>2, <1>5, <1>6, <1>7, <2>1, <3>1
  <2>2. CASE k = p
    <3>1. k \in 1..p /\ ~(k <= p - 1) /\ k - (p - 1) = 1
      BY <1>1, <2>2
    <3>2. d[k] = c[1]
      BY <1>5, <3>1
    <3>3. (d \o b)[k] = d[k]
      BY <1>1, <1>6, <2>2, <3>1
    <3> QED BY <1>4, <1>7, <2>2, <3>2, <3>3
  <2>3. CASE k > p
    <3>1. k - p \in 1..(Len(s) - p + 1) /\ p + (k - p) - 1 = k - 1 /\ ~(k <= p)
      BY <1>1, <2>3
    <3>2. b[k - p] = s[k - 1]
      BY <1>3, <3>1
    <3>3. (d \o b)[k] = b[k - p]
      BY <1>6, <3>1
    <3>4. ~(k < p) /\ k # p
      BY <1>1, <2>3
    <3> QED BY <1>7, <3>2, <3>3, <3>4
  <2> QED BY <2>1, <2>2, <2>3
<1> QED BY <1>6, <1>7, <1>8 DEF IsPut

LEMMA WithoutIs ==
  ASSUME NEW S, NEW s \in Seq(S), NEW p \in 1..Len(s)
  PROVE  /\ Without(s, p) \in Seq(S) /\ Len(Without(s, p)) = Len(s) - 1
         /\ \A k \in 1..(Len(s) - 1) :
              /\ k < p => Without(s, p)[k] = s[k]
              /\ k >= p => Without(s, p)[k] = s[k + 1]
<1> DEFINE a == SubSeq(s, 1, p - 1)
           b == SubSeq(s, p + 1, Len(s))
<1>1. Len(s) \in Nat /\ \A i \in 1..Len(s) : s[i] \in S
  BY LenProperties, ElementOfSeq
<1>2. /\ a \in Seq(S) /\ Len(a) = p - 1
      /\ \A i \in 1..(p - 1) : a[i] = s[i]
  <2>1. \A i \in 1..(p - 1) : s[i] \in S
    BY <1>1
  <2>2. /\ a \in Seq(S) /\ Len(a) = IF 1 <= p - 1 THEN p - 1 - 1 + 1 ELSE 0
        /\ \A i \in 1..(p - 1 - 1 + 1) : a[i] = s[1 + i - 1]
    BY <1>1, <2>1, SubSeqProperties
  <2> HIDE DEF a
  <2> QED BY <1>1, <2>2
<1>3. /\ b \in Seq(S) /\ Len(b) = Len(s) - p
      /\ \A i \in 1..(Len(s) - p) : b[i] = s[p + i]
  <2>1. \A i \in (p + 1)..Len(s) : s[i] \in S
    BY <1>1
  <2>2. /\ b \in Seq(S) /\ Len(b) = IF p + 1 <= Len(s) THEN Len(s) - (p + 1) + 1 ELSE 0
        /\ \A i \in 1..(Len(s) - (p + 1) + 1) : b[i] = s[p + 1 + i - 1]
    BY <1>1, <2>1, SubSeqProperties
  <2> HIDE DEF b
  <2> QED BY <1>1, <2>2
<1> HIDE DEF a, b
<1>4. /\ a \o b \in Seq(S) /\ Len(a \o b) = Len(s) - 1
      /\ \A i \in 1..(Len(s) - 1) : (a \o b)[i] = IF i <= p - 1 THEN a[i] ELSE b[i - (p - 1)]
  <2>1. /\ a \o b \in Seq(S) /\ Len(a \o b) = Len(a) + Len(b)
        /\ \A i \in 1..(Len(a) + Len(b)) :
             (a \o b)[i] = IF i <= Len(a) THEN a[i] ELSE b[i - Len(a)]
    BY <1>2, <1>3, ConcatProperties
  <2>2. Len(a) + Len(b) = Len(s) - 1
    BY <1>1, <1>2, <1>3
  <2> QED BY <1>2, <2>1, <2>2
<1>5. Without(s, p) = a \o b
  BY DEF Without, a, b
<1>6. ASSUME NEW k \in 1..(Len(s) - 1)
      PROVE  (k < p => Without(s, p)[k] = s[k]) /\ (k >= p => Without(s, p)[k] = s[k + 1])
  <2>1. CASE k < p
    BY <1>1, <1>2, <1>4, <1>5, <2>1
  <2>2. CASE k >= p
    <3>1. k - (p - 1) \in 1..(Len(s) - p) /\ p + (k - (p - 1)) = k + 1 /\ ~(k <= p - 1)
      BY <1>1, <2>2
    <3>2. b[k - (p - 1)] = s[p + (k - (p - 1))]
      BY <1>3, <3>1
    <3> QED BY <1>4, <1>5, <2>2, <3>1, <3>2
  <2> QED BY <2>1, <2>2
<1> QED BY <1>4, <1>5, <1>6

(* In K are the places of I in s and those of J in t, where t follows s.   *)
Joins(u, K, s, I, t, J) ==
  /\ u = s \o t /\ K \in SUBSET (DOMAIN u)
  /\ \A i \in DOMAIN s : i \in K <=> i \in I
  /\ \A j \in DOMAIN t : Len(s) + j \in K <=> j \in J

LEMMA AmongConcat ==
  ASSUME NEW S, NEW s \in Seq(S), NEW t \in Seq(S),
         NEW I \in SUBSET (DOMAIN s), NEW J \in SUBSET (DOMAIN t),
         NEW u, NEW K, Joins(u, K, s, I, t, J)
  PROVE  Among(u, K) = Among(s, I) \o Among(t, J)
<1> DEFINE C == Cardinality(I)
           D == Cardinality(J)
           n == Len(s)
           a == Among(s, I)
           b == Among(t, J)
           g == [k \in 1..(C + D) |-> IF k <= C THEN Nth(I, k) ELSE n + Nth(J, k - C)]
<1>1. n \in Nat /\ DOMAIN s = 1..n /\ Len(t) \in Nat /\ DOMAIN t = 1..Len(t)
  BY LenProperties
<1> USE DEF Joins
<1>2. /\ u \in Seq(S) /\ DOMAIN u = 1..(n + Len(t))
      /\ \A i \in 1..(n + Len(t)) : u[i] = IF i <= n THEN s[i] ELSE t[i - n]
  BY ConcatProperties, LenProperties
<1>3. /\ a \in Seq(S) /\ Len(a) = C /\ C \in Nat
      /\ \A k \in 1..C : Nth(I, k) \in I /\ a[k] = s[Nth(I, k)]
      /\ \A i \in I : Rank(I, i) \in 1..C
  BY <1>1, AmongIs
<1>4. /\ b \in Seq(S) /\ Len(b) = D /\ D \in Nat
      /\ \A k \in 1..D : Nth(J, k) \in J /\ b[k] = t[Nth(J, k)]
      /\ \A i \in J : Rank(J, i) \in 1..D
  BY <1>1, AmongIs
<1>5. /\ \A i \in I : Nth(I, Rank(I, i)) = i
      /\ \A k, l \in 1..C : k < l => Nth(I, k) < Nth(I, l)
  <2>1. I \in SUBSET (1..n)
    BY <1>1
  <2> QED BY <1>1, <2>1, Ranks
<1>6. /\ \A i \in J : Nth(J, Rank(J, i)) = i
      /\ \A k, l \in 1..D : k < l => Nth(J, k) < Nth(J, l)
  <2>1. J \in SUBSET (1..Len(t))
    BY <1>1
  <2> QED BY <1>1, <2>1, Ranks
<1> HIDE DEF C, D, n, a, b
<1>sizes. C \in Nat /\ D \in Nat
  BY <1>3, <1>4
<1>7. /\ a \o b \in Seq(S) /\ Len(a \o b) = C + D
      /\ \A k \in 1..(C + D) : (a \o b)[k] = IF k <= C THEN a[k] ELSE b[k - C]
  <2>1. /\ a \o b \in Seq(S) /\ Len(a \o b) = Len(a) + Len(b)
        /\ \A k \in 1..(Len(a) + Len(b)) :
             (a \o b)[k] = IF k <= Len(a) THEN a[k] ELSE b[k - Len(a)]
    BY <1>3, <1>4, ConcatProperties
  <2> QED BY <1>3, <1>4, <2>1
<1>8. ASSUME NEW k \in 1..(C + D)
      PROVE  /\ k <= C => k \in 1..C /\ g[k] = Nth(I, k) /\ g[k] \in 1..n /\ g[k] \in K
                          /\ u[g[k]] = a[k]
             /\ k > C => k - C \in 1..D /\ g[k] = n + Nth(J, k - C) /\ g[k] > n
                         /\ g[k] \in 1..(n + Len(t)) /\ g[k] \in K /\ u[g[k]] = b[k - C]
  <2>1. CASE k <= C
    <3>1. k \in 1..C /\ g[k] = Nth(I, k)
      BY <1>3, <2>1
    <3>2. g[k] \in I /\ g[k] \in 1..n /\ a[k] = s[g[k]]
      BY <1>1, <1>3, <3>1
    <3>3. g[k] \in K /\ u[g[k]] = s[g[k]]
      BY <1>1, <1>2, <3>2
    <3> QED BY <1>3, <2>1, <3>1, <3>2, <3>3
  <2>2. CASE k > C
    <3>1. k - C \in 1..D /\ ~(k <= C)
      BY <1>sizes, <2>2
    <3>2. g[k] = n + Nth(J, k - C)
      BY <3>1
    <3>3. Nth(J, k - C) \in J /\ Nth(J, k - C) \in 1..Len(t) /\ b[k - C] = t[Nth(J, k - C)]
      BY <1>1, <1>4, <3>1
    <3>4. /\ g[k] > n /\ g[k] \in 1..(n + Len(t)) /\ ~(g[k] <= n)
          /\ g[k] - n = Nth(J, k - C)
      BY <1>1, <3>2, <3>3
    <3>5. g[k] \in K
      BY <1>1, <3>2, <3>3 DEF n
    <3>6. u[g[k]] = t[Nth(J, k - C)]
      BY <1>2, <3>4
    <3> QED BY <3>1, <3>2, <3>3, <3>4, <3>5, <3>6
  <2> QED BY <1>3, <2>1, <2>2
<1>9. g \in [1..(C + D) -> K] /\ \A k \in 1..(C + D) : (a \o b)[k] = u[g[k]]
  <2>1. \A k \in 1..(C + D) : k <= C \/ k > C
    BY <1>3, <1>4
  <2>2. \A k \in 1..(C + D) : g[k] \in K
    BY <1>8, <2>1
  <2>3. \A k \in 1..(C + D) : (a \o b)[k] = u[g[k]]
    <3> SUFFICES ASSUME NEW k \in 1..(C + D) PROVE (a \o b)[k] = u[g[k]]
      OBVIOUS
    <3>1. CASE k <= C
      BY <1>7, <1>8, <3>1
    <3>2. CASE k > C
      <4>1. ~(k <= C)
        BY <1>3, <3>2
      <4> QED BY <1>7, <1>8, <3>2, <4>1
    <3> QED BY <2>1, <3>1, <3>2
  <2> QED BY <2>2, <2>3
<1> HIDE DEF g
<1>10. \A k, l \in 1..(C + D) : k < l => g[k] < g[l]
  <2> SUFFICES ASSUME NEW k \in 1..(C + D), NEW l \in 1..(C + D), k < l PROVE g[k] < g[l]
    OBVIOUS
  <2>1. CASE l <= C
    <3>1. k <= C
      BY <1>sizes, <2>1
    <3> QED BY <1>5, <1>8, <2>1, <3>1
  <2>2. CASE k <= C /\ l > C
    BY <1>1, <1>8, <2>2
  <2>3. CASE k > C
    <3>1. l > C /\ k - C < l - C
      BY <1>sizes, <2>3
    <3>2. Nth(J, k - C) < Nth(J, l - C)
      BY <1>6, <1>8, <2>3, <3>1
    <3>3. k - C \in 1..D /\ l - C \in 1..D
      BY <1>sizes, <2>3, <3>1
    <3>4. Nth(J, k - C) \in 1..Len(t) /\ Nth(J, l - C) \in 1..Len(t)
      BY <1>1, <1>4, <3>3
    <3>5. g[k] = n + Nth(J, k - C) /\ g[l] = n + Nth(J, l - C)
      BY <1>8, <2>3, <3>1
    <3> QED BY <1>1, <3>2, <3>4, <3>5
  <2> QED BY <1>3, <1>4, <2>1, <2>2, <2>3
<1>11. \A i \in K : \E k \in 1..(C + D) : g[k] = i
  <2> SUFFICES ASSUME NEW i \in K PROVE \E k \in 1..(C + D) : g[k] = i
    OBVIOUS
  <2>1. i \in 1..(n + Len(t))
    BY <1>2
  <2>2. CASE i <= n
    <3>1. i \in I
      BY <1>1, <2>1, <2>2
    <3>2. Rank(I, i) \in 1..C /\ Nth(I, Rank(I, i)) = i
      BY <1>3, <1>5, <3>1
    <3>3. Rank(I, i) \in 1..(C + D) /\ Rank(I, i) <= C
      BY <1>3, <1>4, <3>2
    <3> QED BY <1>8, <3>2, <3>3
  <2>3. CASE i > n
    <3>1. i - n \in 1..Len(t) /\ n + (i - n) = i
      BY <1>1, <2>1, <2>3
    <3>2. i - n \in J
      BY <1>1, <3>1 DEF n
    <3>3. Rank(J, i - n) \in 1..D /\ Nth(J, Rank(J, i - n)) = i - n
      BY <1>4, <1>6, <3>2
    <3> DEFINE r == Rank(J, i - n)
    <3>4. r \in 1..D /\ Nth(J, r) = i - n
      BY <3>3
    <3> HIDE DEF r
    <3>5. C + r \in 1..(C + D) /\ C + r > C /\ (C + r) - C = r
      BY <1>3, <1>4, <3>4
    <3>6. g[C + r] = n + (i - n)
      BY <1>8, <3>4, <3>5
    <3> QED BY <3>1, <3>5, <3>6
  <2> QED BY <1>1, <2>1, <2>2, <2>3
<1>12. Among(u, K) = a \o b
  <2> DEFINE ab == a \o b
  <2> DEFINE m == Len(ab)
  <2>1. ab \in Seq(S) /\ m = C + D
    BY <1>7
  <2>2. \A k \in 1..m : ab[k] = u[g[k]]
    BY <1>9, <2>1
  <2>3. Lists(g, m, K)
    BY <1>9, <1>10, <1>11, <2>1 DEF Lists
  <2> HIDE DEF ab
  <2>4. Among(u, K) = ab
    BY <1>2, <2>1, <2>2, <2>3, AmongBy
  <2> QED BY <2>4 DEF ab
<1> QED BY <1>12 DEF a, b

(* A further place is put where it is, if all before it are there.         *)
LEMMA AmongInsert ==
  ASSUME NEW S, NEW s \in Seq(S), NEW I \in SUBSET (DOMAIN s), NEW p \in DOMAIN s,
         p \notin I, 1..(p - 1) \subseteq I
  PROVE  /\ p \in 1..(Cardinality(I) + 1)
         /\ Among(s, I \cup {p}) = PutAt(Among(s, I), p, s[p])
<1> DEFINE C == Cardinality(I)
           a == Among(s, I)
           x == s[p]
           t == PutAt(a, p, x)
           K == I \cup {p}
           g == [k \in 1..(C + 1) |-> IF k < p THEN k ELSE IF k = p THEN p ELSE Nth(I, k - 1)]
<1>1. Len(s) \in Nat /\ DOMAIN s = 1..Len(s) /\ I \in SUBSET (1..Len(s)) /\ p \in 1..Len(s)
      /\ s[p] \in S
  BY LenProperties, ElementOfSeq
<1>2. /\ C \in Nat
      /\ \A i \in I : Rank(I, i) \in 1..C /\ Nth(I, Rank(I, i)) = i
      /\ \A k \in 1..C : Nth(I, k) \in I /\ Rank(I, Nth(I, k)) = k
      /\ \A k, l \in 1..C : k < l => Nth(I, k) < Nth(I, l)
  BY <1>1, Places
<1>3. a \in Seq(S) /\ Len(a) = C /\ \A k \in 1..C : a[k] = s[Nth(I, k)]
  BY AmongIs
<1> HIDE DEF C, a, t, x
<1>4. ASSUME NEW k \in 1..(p - 1)
      PROVE  k \in I /\ k \in 1..C /\ Nth(I, k) = k /\ Rank(I, k) = k
  <2>1. k \in I /\ k \in Nat /\ 1..k \subseteq I
    BY <1>1
  <2>2. Rank(I, k) = k
    BY <1>1, <2>1, RankAtFirst
  <2> QED BY <1>2, <2>1, <2>2
<1>5. p \in 1..(C + 1)
  <2>1. CASE p = 1
    BY <1>2, <2>1
  <2>2. CASE p # 1
    <3>1. p - 1 \in 1..(p - 1)
      BY <1>1, <2>2
    <3> QED BY <1>1, <1>2, <1>4, <3>1
  <2> QED BY <2>1, <2>2
<1>6. /\ t \in Seq(S) /\ Len(t) = C + 1
      /\ \A k \in 1..(C + 1) :
           /\ k < p => t[k] = a[k]
           /\ k = p => t[k] = s[p]
           /\ k > p => t[k] = a[k - 1]
  <2>1. p \in 1..(Len(a) + 1) /\ x \in S /\ a \in Seq(S)
    BY <1>1, <1>3, <1>5 DEF x
  <2>2. t \in Seq(S) /\ IsPut(t, a, p, x)
    BY ONLY <2>1, PutAtIs DEF t
  <2> QED BY <1>3, <2>2 DEF x, IsPut
<1>7. ASSUME NEW k \in 1..(C + 1), k > p
      PROVE  k - 1 \in 1..C /\ Nth(I, k - 1) \in I /\ Nth(I, k - 1) > p
  <2>1. k - 1 \in 1..C /\ k - 1 >= p
    BY <1>1, <1>2, <1>7
  <2>2. Nth(I, k - 1) \in I /\ Rank(I, Nth(I, k - 1)) = k - 1 /\ Nth(I, k - 1) \in 1..Len(s)
    BY <1>1, <1>2, <2>1
  <2>3. ~(Nth(I, k - 1) \in 1..(p - 1))
    BY <1>1, <1>4, <2>1, <2>2
  <2>4. Nth(I, k - 1) # p
    BY <2>2
  <2> QED BY <1>1, <2>1, <2>2, <2>3, <2>4
<1>8. ASSUME NEW k \in 1..(C + 1)
      PROVE  /\ k < p => g[k] = k /\ k \in I /\ t[k] = s[g[k]]
             /\ k = p => g[k] = p /\ t[k] = s[g[k]]
             /\ k > p => g[k] = Nth(I, k - 1) /\ g[k] \in I /\ g[k] > p /\ t[k] = s[g[k]]
             /\ k < p \/ k = p \/ k > p
  <2>1. CASE k < p
    <3>1. k \in 1..(p - 1) /\ ~(k > p) /\ k # p
      BY <1>1, <2>1
    <3> QED BY <1>3, <1>4, <1>6, <2>1, <3>1
  <2>2. CASE k = p
    <3>1. ~(k < p) /\ ~(k > p)
      BY <1>1, <2>2
    <3> QED BY <1>6, <2>2, <3>1
  <2>3. CASE k > p
    <3>1. ~(k < p) /\ k # p
      BY <1>1, <2>3
    <3> QED BY <1>3, <1>6, <1>7, <2>3, <3>1
  <2> QED BY <1>1, <1>2, <2>1, <2>2, <2>3
<1> HIDE DEF g
<1>9. Lists(g, C + 1, K)
  <2>1. DOMAIN g = 1..(C + 1) /\ g = [k \in 1..(C + 1) |-> g[k]]
    BY DEF g
  <2>2. \A k \in 1..(C + 1) : g[k] \in K
    BY <1>8
  <2>3. \A k, l \in 1..(C + 1) : k < l => g[k] < g[l]
    <3> SUFFICES ASSUME NEW k \in 1..(C + 1), NEW l \in 1..(C + 1), k < l PROVE g[k] < g[l]
      OBVIOUS
    <3>1. CASE k > p
      <4>1. l > p /\ k - 1 \in 1..C /\ l - 1 \in 1..C /\ k - 1 < l - 1
        BY <1>1, <1>2, <3>1
      <4> QED BY <1>2, <1>8, <3>1, <4>1
    <3>2. CASE k <= p /\ l <= p
      <4>1. g[k] = k /\ g[l] = l
        BY <1>1, <1>8, <3>2
      <4> QED BY <4>1
    <3>3. CASE k <= p /\ l > p
      <4>1. g[l] > p /\ g[l] \in I
        BY <1>8, <3>3
      <4>2. g[k] = k
        BY <1>1, <1>8, <3>3
      <4> QED BY <1>1, <3>3, <4>1, <4>2
    <3> QED BY <1>1, <1>2, <3>1, <3>2, <3>3
  <2>4. \A i \in K : \E k \in 1..(C + 1) : g[k] = i
    <3> SUFFICES ASSUME NEW i \in K PROVE \E k \in 1..(C + 1) : g[k] = i
      OBVIOUS
    <3>1. CASE i < p
      <4>1. i \in 1..(C + 1)
        BY <1>1, <1>2, <1>5, <3>1
      <4> QED BY <1>8, <3>1, <4>1
    <3>2. CASE i = p
      BY <1>5, <1>8, <3>2
    <3>3. CASE i > p
      <4> DEFINE r == Rank(I, i)
      <4>1. i \in I
        BY <1>1, <3>3
      <4>2. r \in 1..C /\ Nth(I, r) = i
        BY <1>2, <4>1
      <4> HIDE DEF r
      <4>3. ~(r < p)
        <5>1. ASSUME r < p PROVE FALSE
          <6>1. r \in 1..(p - 1)
            BY <1>1, <4>2, <5>1
          <6>2. i = r
            BY <1>4, <4>2, <6>1
          <6> QED BY <1>1, <3>3, <4>2, <5>1, <6>2
        <5> QED BY <5>1
      <4>4. r + 1 \in 1..(C + 1) /\ r + 1 > p /\ (r + 1) - 1 = r
        BY <1>1, <1>2, <4>2, <4>3
      <4>5. g[r + 1] = Nth(I, (r + 1) - 1)
        BY <1>8, <4>4
      <4> QED BY <4>2, <4>4, <4>5
    <3> QED BY <1>1, <3>1, <3>2, <3>3
  <2> QED BY <2>1, <2>2, <2>3, <2>4 DEF Lists
<1>10. K \in SUBSET (DOMAIN s)
  OBVIOUS
<1>11. \A k \in 1..(C + 1) : t[k] = s[g[k]]
  BY <1>8
<1> HIDE DEF K
<1>12. Lists(g, Len(t), K) /\ \A k \in 1..Len(t) : t[k] = s[g[k]]
  BY <1>6, <1>9, <1>11
<1>13. Among(s, K) = t
  BY <1>6, <1>10, <1>12, AmongBy
<1> QED BY <1>5, <1>13 DEF K, t, a, x, C

-----------------------------------------------------------------------------
(* Lists of one length.                                                    *)

(* A list without repetition has as many elements as places.               *)
LEMMA Elements ==
  ASSUME NEW S, NEW s \in Seq(S)
  PROVE  /\ IsFiniteSet(Range(s)) /\ Cardinality(Range(s)) \in Nat
         /\ Cardinality(Range(s)) <= Len(s)
         /\ IsInjective(s) <=> Cardinality(Range(s)) = Len(s)
<1> DEFINE n == Len(s)
           T == Range(s)
<1>1. n \in Nat /\ DOMAIN s = 1..n /\ s \in [1..n -> S]
  BY LenProperties
<1>2. T = {s[i] : i \in 1..n}
  BY <1>1 DEF Range
<1> HIDE DEF n, T
<1>3. s \in [1..n -> T] /\ \A x \in T : \E i \in 1..n : s[i] = x
  BY <1>1, <1>2
<1>4. s \in Surjection(1..n, T)
  BY <1>3 DEF Surjection
<1>5. IsFiniteSet(1..n) /\ Cardinality(1..n) = n
  BY <1>1, FS_Interval
<1>6. /\ IsFiniteSet(T) /\ Cardinality(T) <= n
      /\ Cardinality(T) = n <=> s \in Injection(1..n, T)
  BY <1>4, <1>5, FS_Surjection
<1>7. IsInjective(s) <=> s \in Injection(1..n, T)
  BY <1>1, <1>3 DEF Injection, IsInjective
<1> QED BY <1>6, <1>7, FS_CardinalityType DEF n, T

(* A list without repetition whose elements another list of its length has *)
(* leaves that one no room for others, nor for repetition.                 *)
LEMMA Pigeonhole ==
  ASSUME NEW S, NEW s \in Seq(S), NEW T, NEW t \in Seq(T), Len(s) = Len(t),
         Range(s) \subseteq Range(t), IsInjective(s)
  PROVE  Range(s) = Range(t) /\ IsInjective(t)
<1>1. Cardinality(Range(s)) = Len(t)
  BY Elements
<1>2. /\ IsFiniteSet(Range(t)) /\ Cardinality(Range(t)) \in Nat
      /\ Cardinality(Range(t)) <= Len(t)
  BY Elements
<1>3. Cardinality(Range(s)) <= Cardinality(Range(t))
  BY <1>2, FS_Subset
<1>4. Cardinality(Range(t)) = Len(t)
  BY <1>1, <1>2, <1>3, LenProperties
<1>5. IsInjective(t)
  BY <1>4, Elements
<1>6. Range(s) = Range(t)
  BY <1>1, <1>2, <1>4, FS_Subset
<1> QED BY <1>5, <1>6

(* To move an element keeps the others.                                    *)
LEMMA MovedIs ==
  ASSUME NEW S, NEW rows \in Seq(S), NEW from \in DOMAIN rows, NEW to \in DOMAIN rows
  PROVE  /\ Moved(rows, from, to) \in Seq(S) /\ Len(Moved(rows, from, to)) = Len(rows)
         /\ Range(Moved(rows, from, to)) = Range(rows)
<1> DEFINE n == Len(rows)
           w == Without(rows, from)
           x == rows[from]
           m == PutAt(w, to, x)
<1>1. n \in Nat /\ DOMAIN rows = 1..n /\ from \in 1..n /\ to \in 1..n /\ x \in S
  BY LenProperties, ElementOfSeq
<1>2. /\ w \in Seq(S) /\ Len(w) = n - 1
      /\ \A k \in 1..(n - 1) : /\ k < from => w[k] = rows[k]
                               /\ k >= from => w[k] = rows[k + 1]
  BY <1>1, WithoutIs
<1> HIDE DEF n, w, x
<1>3. to \in 1..(Len(w) + 1)
  BY <1>1, <1>2
<1>4. m \in Seq(S) /\ IsPut(m, w, to, x)
  BY ONLY <1>1, <1>2, <1>3, PutAtIs
<1> HIDE DEF m
<1>5. /\ Len(m) = n
      /\ \A k \in 1..n : /\ k < to => m[k] = w[k]
                         /\ k = to => m[k] = x
                         /\ k > to => m[k] = w[k - 1]
  BY <1>1, <1>2, <1>4 DEF IsPut
<1>6. DOMAIN m = 1..n
  BY <1>4, <1>5, LenProperties
<1>7. ASSUME NEW k \in 1..n PROVE \E i \in 1..n : m[k] = rows[i]
  <2>1. CASE k < to
    <3>1. k \in 1..(n - 1) /\ (k < from \/ k >= from) /\ k + 1 \in 1..n
      BY <1>1, <2>1
    <3> QED BY <1>2, <1>5, <2>1, <3>1
  <2>2. CASE k = to
    BY <1>1, <1>5, <2>2 DEF x
  <2>3. CASE k > to
    <3>1. k - 1 \in 1..(n - 1) /\ (k - 1 < from \/ k - 1 >= from) /\ (k - 1) + 1 = k
          /\ k - 1 \in 1..n
      BY <1>1, <2>3
    <3> QED BY <1>2, <1>5, <2>3, <3>1
  <2> QED BY <1>1, <2>1, <2>2, <2>3
<1>8. ASSUME NEW j \in 1..(n - 1) PROVE \E k \in 1..n : m[k] = w[j]
  <2>1. CASE j < to
    <3>1. j \in 1..n
      BY <1>1
    <3> QED BY <1>5, <2>1, <3>1
  <2>2. CASE j >= to
    <3>1. j + 1 \in 1..n /\ j + 1 > to /\ (j + 1) - 1 = j
      BY <1>1, <2>2
    <3> QED BY <1>5, <3>1
  <2> QED BY <1>1, <2>1, <2>2
<1>9. ASSUME NEW i \in 1..n PROVE \E k \in 1..n : m[k] = rows[i]
  <2>1. CASE i < from
    <3>1. i \in 1..(n - 1) /\ w[i] = rows[i]
      BY <1>1, <1>2, <2>1
    <3> QED BY <1>8, <3>1
  <2>2. CASE i = from
    BY <1>1, <1>5, <2>2 DEF x
  <2>3. CASE i > from
    <3>1. i - 1 \in 1..(n - 1) /\ i - 1 >= from /\ (i - 1) + 1 = i
      BY <1>1, <2>3
    <3>2. w[i - 1] = rows[i]
      BY <1>2, <3>1
    <3> QED BY <1>8, <3>1, <3>2
  <2> QED BY <1>1, <2>1, <2>2, <2>3
<1>10. Range(m) = Range(rows)
  <2>1. \A k \in DOMAIN m : m[k] \in Range(rows)
    BY <1>1, <1>6, <1>7 DEF Range
  <2>2. \A i \in DOMAIN rows : rows[i] \in Range(m)
    BY <1>1, <1>6, <1>9 DEF Range
  <2> QED BY <2>1, <2>2 DEF Range
<1>11. Moved(rows, from, to) = m
  BY DEF Moved, m, w, x
<1> QED BY <1>4, <1>5, <1>10, <1>11 DEF n

-----------------------------------------------------------------------------
(* Entries and their names.                                                *)

Pages == Builtin \cup PluginPage
Entries == Pages \X BOOLEAN

LEMMA NamesAre ==
  ASSUME NEW e \in Seq(Entries)
  PROVE  /\ Names(e) \in Seq(Pages) /\ Len(Names(e)) = Len(e) /\ DOMAIN Names(e) = DOMAIN e
         /\ DOMAIN e = 1..Len(e) /\ Len(e) \in Nat
         /\ \A i \in DOMAIN e : e[i] \in Entries /\ e[i][1] \in Pages /\ e[i][2] \in BOOLEAN
                                /\ e[i] = <<e[i][1], e[i][2]>> /\ Names(e)[i] = e[i][1]
         /\ Range(Names(e)) = {e[i][1] : i \in DOMAIN e}
<1> DEFINE n == Len(e)
<1>1. n \in Nat /\ DOMAIN e = 1..n /\ \A i \in DOMAIN e : e[i] \in Entries
  BY LenProperties, ElementOfSeq
<1>2. \A i \in DOMAIN e : e[i][1] \in Pages /\ e[i][2] \in BOOLEAN /\ e[i] = <<e[i][1], e[i][2]>>
  BY <1>1 DEF Entries
<1>3. Names(e) = [i \in 1..n |-> e[i][1]]
  BY <1>1 DEF Names
<1> HIDE DEF n
<1>4. Names(e) \in Seq(Pages) /\ Len(Names(e)) = n /\ DOMAIN Names(e) = 1..n
  BY <1>1, <1>2, <1>3
<1>5. \A i \in DOMAIN e : Names(e)[i] = e[i][1]
  BY <1>1, <1>3
<1>6. Range(Names(e)) = {e[i][1] : i \in DOMAIN e}
  BY <1>1, <1>4, <1>5 DEF Range
<1> QED BY <1>1, <1>2, <1>4, <1>5, <1>6 DEF n

LEMMA NameOf ==
  ASSUME NEW e \in Seq(Entries) PROVE Range(Names(e)) = {x[1] : x \in Range(e)}
<1>1. Range(Names(e)) = {e[i][1] : i \in DOMAIN e}
  BY NamesAre
<1>2. \A i \in DOMAIN e : e[i] \in Range(e)
  BY DEF Range
<1>3. \A x \in Range(e) : \E i \in DOMAIN e : x = e[i]
  BY DEF Range
<1> QED BY <1>1, <1>2, <1>3

(* Lists of one length with the same elements have names without           *)
(* repetition, both or neither.                                            *)
LEMMA SameElements ==
  ASSUME NEW e \in Seq(Entries), NEW f \in Seq(Entries), Len(e) = Len(f), Range(e) = Range(f)
  PROVE  /\ Range(Names(e)) = Range(Names(f))
         /\ IsInjective(Names(e)) <=> IsInjective(Names(f))
<1>1. Range(Names(e)) = Range(Names(f))
  BY NameOf
<1>2. /\ Names(e) \in Seq(Pages) /\ Names(f) \in Seq(Pages)
      /\ Len(Names(e)) = Len(Names(f))
  BY NamesAre
<1> QED BY <1>1, <1>2, Pigeonhole

-----------------------------------------------------------------------------
(* The order that three lists make.                                        *)

Ascending(slots) ==
  \A j, k \in DOMAIN slots : j < k => slots[j].position < slots[k].position
Tidy(c) == c \in Configs /\ Ascending(c.slots)

SlotEntry(slot) == Entry(slot.page, slot.hidden)
Placed(before, slot) == PutAt(before, Least(slot.position, Len(before)) + 1, SlotEntry(slot))

(* Placing is the function that its definition describes: there is one.    *)
LEMMA PlacingIs ==
  ASSUME NEW entries, NEW slots, Len(slots) \in Nat
  PROVE  /\ Placing(entries, slots)[0] = entries
         /\ \A n \in 1..Len(slots) :
              Placing(entries, slots)[n] = Placed(Placing(entries, slots)[n - 1], slots[n])
<1> DEFINE L == Len(slots)
           Put(before, n) == Placed(before, slots[n])
           To(g, m) == /\ g = [k \in 0..m |-> g[k]] /\ g[0] = entries
                       /\ \A n \in 1..m : g[n] = Put(g[n - 1], n)
           T == {m \in 0..L : \E g : To(g, m)}
<1> HIDE DEF Put
<1>1. L \in Nat
  OBVIOUS
<1>2. 0 \in T
  <2> DEFINE g == [k \in 0..0 |-> entries]
  <2>1. To(g, 0)
    OBVIOUS
  <2> HIDE DEF g, To
  <2> QED BY <1>1, <2>1
<1>3. ASSUME NEW m \in 0..(L - 1), m \in T PROVE m + 1 \in T
  <2>1. PICK g : To(g, m)
    BY <1>3
  <2> DEFINE h == [k \in 0..(m + 1) |-> IF k <= m THEN g[k] ELSE Put(g[m], m + 1)]
  <2>2. h[0] = entries /\ h[m + 1] = Put(h[m], m + 1)
    BY <1>1, <2>1
  <2>3. \A n \in 1..m : h[n] = Put(h[n - 1], n)
    <3> SUFFICES ASSUME NEW n \in 1..m PROVE h[n] = Put(h[n - 1], n)
      OBVIOUS
    <3>1. h[n] = g[n] /\ h[n - 1] = g[n - 1]
      BY <1>1
    <3>2. g[n] = Put(g[n - 1], n)
      BY <2>1
    <3> HIDE DEF h
    <3> QED BY <3>1, <3>2
  <2>4. h = [k \in 0..(m + 1) |-> h[k]]
    OBVIOUS
  <2> HIDE DEF h
  <2>5. \A n \in 1..(m + 1) : h[n] = Put(h[n - 1], n)
    <3> SUFFICES ASSUME NEW n \in 1..(m + 1) PROVE h[n] = Put(h[n - 1], n)
      OBVIOUS
    <3>1. n \in 1..m \/ (n = m + 1 /\ n - 1 = m)
      BY <1>1
    <3> QED BY <2>2, <2>3, <3>1
  <2>6. To(h, m + 1) /\ m + 1 \in 0..L
    BY <1>1, <2>2, <2>4, <2>5
  <2> HIDE DEF To
  <2> QED BY <2>6
<1>4. PICK g : To(g, L)
  <2> HIDE DEF L, T
  <2>1. \A m \in 0..L : m \in T
    BY <1>1, <1>2, <1>3, Counting
  <2>2. L \in T
    BY <1>1, <2>1
  <2> QED BY <2>2 DEF T
<1> DEFINE Is(f) == f = [n \in 0..L |-> IF n = 0 THEN entries ELSE Put(f[n - 1], n)]
<1>5. Is(g)
  <2>1. \A n \in 0..L : g[n] = IF n = 0 THEN entries ELSE Put(g[n - 1], n)
    BY <1>1, <1>4
  <2> QED BY <1>4, <2>1
<1>6. Placing(entries, slots) = CHOOSE f : Is(f)
  BY DEF Placing, Put, Placed, SlotEntry
<1> HIDE DEF Is
<1>7. Is(Placing(entries, slots))
  BY <1>5, <1>6
<1> DEFINE f == Placing(entries, slots)
<1> HIDE DEF f
<1>8. f = [n \in 0..L |-> IF n = 0 THEN entries ELSE Put(f[n - 1], n)]
  BY <1>7 DEF Is, f
<1>9. f[0] = entries /\ \A n \in 1..L : f[n] = Put(f[n - 1], n)
  BY <1>1, <1>8
<1> QED BY <1>9 DEF f, Put

LEMMA PutRange ==
  ASSUME NEW S, NEW s \in Seq(S), NEW t \in Seq(S), NEW p \in 1..(Len(s) + 1), NEW x,
         IsPut(t, s, p, x)
  PROVE  Range(t) = Range(s) \cup {x}
<1> DEFINE n == Len(s)
<1>1. n \in Nat /\ DOMAIN s = 1..n /\ DOMAIN t = 1..(n + 1)
  BY LenProperties DEF IsPut
<1>2. /\ p \in 1..(n + 1)
      /\ \A k \in 1..(n + 1) : /\ k < p => t[k] = s[k]
                               /\ k = p => t[k] = x
                               /\ k > p => t[k] = s[k - 1]
  BY DEF IsPut
<1> HIDE DEF n
<1>3. ASSUME NEW k \in DOMAIN t PROVE t[k] \in Range(s) \cup {x}
  <2>1. k < p => k \in DOMAIN s
    BY <1>1, <1>2
  <2>2. k > p => k - 1 \in DOMAIN s
    BY <1>1, <1>2
  <2>3. k < p \/ k = p \/ k > p
    BY <1>1, <1>2
  <2> QED BY <1>1, <1>2, <2>1, <2>2, <2>3 DEF Range
<1>4. ASSUME NEW i \in DOMAIN s PROVE s[i] \in Range(t)
  <2>1. CASE i < p
    BY <1>1, <1>2, <2>1 DEF Range
  <2>2. CASE i >= p
    <3>1. i + 1 \in DOMAIN t /\ i + 1 > p /\ (i + 1) - 1 = i
      BY <1>1, <1>2, <2>2
    <3>2. t[i + 1] = s[i]
      BY <1>1, <1>2, <3>1
    <3> QED BY <3>1, <3>2 DEF Range
  <2> QED BY <1>1, <1>2, <2>1, <2>2
<1>5. x \in Range(t)
  BY <1>1, <1>2 DEF Range
<1> QED BY <1>3, <1>4, <1>5 DEF Range

LEMMA PlacingHas ==
  ASSUME NEW entries \in Seq(Entries), NEW slots \in Seq(Slots)
  PROVE  \A n \in 0..Len(slots) :
           /\ Placing(entries, slots)[n] \in Seq(Entries)
           /\ Len(Placing(entries, slots)[n]) = Len(entries) + n
           /\ Range(Placing(entries, slots)[n])
                = Range(entries) \cup {SlotEntry(slots[k]) : k \in 1..n}
<1> DEFINE L == Len(slots)
           P == Placing(entries, slots)
           Has(k) == {SlotEntry(slots[i]) : i \in 1..k}
           T == {n \in 0..L : /\ P[n] \in Seq(Entries) /\ Len(P[n]) = Len(entries) + n
                              /\ Range(P[n]) = Range(entries) \cup Has(n)}
<1>1. L \in Nat /\ Len(entries) \in Nat /\ \A k \in 1..L : slots[k] \in Slots
  BY LenProperties, ElementOfSeq
<1>2. P[0] = entries /\ \A n \in 1..L : P[n] = Placed(P[n - 1], slots[n])
  BY <1>1, PlacingIs
<1> HIDE DEF P, L
<1>3. 0 \in T
  BY <1>1, <1>2
<1>4. ASSUME NEW n \in 0..(L - 1), n \in T PROVE n + 1 \in T
  <2> DEFINE b == P[n]
             a == P[n + 1]
             slot == slots[n + 1]
             p == Least(slot.position, Len(b)) + 1
             x == SlotEntry(slot)
  <2>1. n + 1 \in 1..L /\ (n + 1) - 1 = n /\ n + 1 \in 0..L
    BY <1>1
  <2>2. a = PutAt(b, p, x)
    BY <1>2, <2>1 DEF Placed
  <2>3. slot \in Slots
    BY <1>1, <2>1
  <2>4. b \in Seq(Entries)
    BY <1>4
  <2>5. Len(b) = Len(entries) + n /\ Range(b) = Range(entries) \cup Has(n)
    BY <1>4
  <2> HIDE DEF a, b, slot
  <2>6. x \in Entries /\ p \in 1..(Len(b) + 1)
    <3>1. slot.page \in Pages /\ slot.hidden \in BOOLEAN /\ slot.position \in Nat
      BY <2>3 DEF Slots, Pages
    <3>2. x \in Entries
      BY <3>1 DEF SlotEntry, Entry, Entries
    <3>3. Len(b) \in Nat
      BY <2>4, LenProperties
    <3> QED BY <3>1, <3>2, <3>3 DEF Least
  <2> HIDE DEF p, x
  <2>7. a \in Seq(Entries) /\ IsPut(a, b, p, x)
    BY ONLY <2>2, <2>4, <2>6, PutAtIs
  <2>8. Range(a) = Range(b) \cup {x}
    BY ONLY <2>4, <2>6, <2>7, PutRange
  <2>9. Len(a) = Len(entries) + (n + 1)
    BY <1>1, <2>7, <2>5 DEF IsPut
  <2>10. Has(n + 1) = Has(n) \cup {x}
    <3>1. \A k \in 1..(n + 1) : k \in 1..n \/ k = n + 1
      BY <1>1
    <3>2. n + 1 \in 1..(n + 1) /\ \A k \in 1..n : k \in 1..(n + 1)
      BY <1>1
    <3>3. x = SlotEntry(slots[n + 1])
      BY DEF x, slot
    <3> QED BY <3>1, <3>2, <3>3
  <2> HIDE DEF Has
  <2> QED BY <2>1, <2>7, <2>8, <2>9, <2>10, <2>5 DEF a
<1> HIDE DEF T
<1>5. \A n \in 0..L : n \in T
  BY <1>1, <1>3, <1>4, Counting
<1> QED BY <1>5 DEF T, P, L

(* Slots in the order of their positions are left so.                      *)
LEMMA AscendingStays ==
  ASSUME NEW slots \in Seq(Slots), Ascending(slots) PROVE ByPosition(slots) = slots
<1> DEFINE L == Len(slots)
           Earlier(i) == {j \in DOMAIN slots : Before(slots, j, i)}
<1>1. /\ L \in Nat /\ DOMAIN slots = 1..L /\ slots = [k \in 1..L |-> slots[k]]
      /\ \A k \in 1..L : slots[k] \in Slots
  BY LenProperties, ElementOfSeq
<1>2. ASSUME NEW i \in 1..L PROVE Cardinality(Earlier(i)) = i - 1
  <2>1. \A j \in 1..L : slots[j].position \in Nat
    BY <1>1 DEF Slots
  <2>2. \A j \in 1..L : Before(slots, j, i) <=> j < i
    <3> SUFFICES ASSUME NEW j \in 1..L PROVE Before(slots, j, i) <=> j < i
      OBVIOUS
    <3>1. /\ j < i => slots[j].position < slots[i].position
          /\ i < j => slots[i].position < slots[j].position
      BY <1>1 DEF Ascending
    <3>2. j < i \/ j = i \/ i < j
      BY <1>1
    <3>3. slots[j].position \in Nat /\ slots[i].position \in Nat
      BY <2>1
    <3> QED BY <1>1, <3>1, <3>2, <3>3 DEF Before
  <2>3. Earlier(i) = 1..(i - 1)
    <3>1. \A j \in 1..L : j < i <=> j \in 1..(i - 1)
      BY <1>1
    <3>2. \A j \in 1..(i - 1) : j \in 1..L
      BY <1>1
    <3> QED BY <1>1, <2>2, <3>1, <3>2
  <2> HIDE DEF Earlier
  <2> DEFINE m == i - 1
  <2>4. m \in Nat
    BY <1>1
  <2> HIDE DEF m
  <2>5. Cardinality(1..m) = m
    BY <2>4, FS_Interval
  <2> QED BY <2>3, <2>5 DEF m
<1> HIDE DEF Earlier, L
<1>3. ASSUME NEW k \in 1..L
      PROVE  (CHOOSE i \in 1..L : Cardinality(Earlier(i)) = k - 1) = k
  <2>1. \A i \in 1..L : Cardinality(Earlier(i)) = k - 1 <=> i = k
    BY <1>1, <1>2
  <2> QED BY <2>1
<1> DEFINE At(k) == CHOOSE i \in 1..L : Cardinality(Earlier(i)) = k - 1
<1>4. ByPosition(slots) = [k \in 1..L |-> slots[At(k)]]
  BY <1>1 DEF ByPosition, Earlier
<1>5. \A k \in 1..L : At(k) = k
  BY <1>3
<1> HIDE DEF At
<1> QED BY <1>1, <1>4, <1>5

(* What is in the order, and how much.                                     *)
LEMMA OrderHas ==
  ASSUME NEW c, Tidy(c)
  PROVE  /\ OrderOf(c) \in Seq(Entries)
         /\ Len(OrderOf(c)) = Len(c.order) + Len(c.slots)
         /\ Len(c.order) \in Nat /\ Len(c.slots) \in Nat
         /\ DOMAIN c.order = 1..Len(c.order) /\ DOMAIN c.slots = 1..Len(c.slots)
         /\ \A i \in DOMAIN c.order :
              /\ c.order[i] \in Builtin
              /\ Entry(c.order[i], c.order[i] \in c.hidden) \in Range(OrderOf(c))
         /\ \A k \in DOMAIN c.slots :
              c.slots[k] \in Slots /\ SlotEntry(c.slots[k]) \in Range(OrderOf(c))
         /\ \A x \in Range(OrderOf(c)) :
              \/ \E i \in DOMAIN c.order : x = Entry(c.order[i], c.order[i] \in c.hidden)
              \/ \E k \in DOMAIN c.slots : x = SlotEntry(c.slots[k])
<1> DEFINE n == Len(c.order)
           L == Len(c.slots)
           b == [i \in DOMAIN c.order |-> Entry(c.order[i], c.order[i] \in c.hidden)]
           slots == c.slots
<1>1. /\ c.order \in Seq(Builtin) /\ c.hidden \in SUBSET Builtin
      /\ slots \in Seq(Slots) /\ Ascending(slots)
  BY DEF Tidy, Configs
<1>2. n \in Nat /\ DOMAIN c.order = 1..n /\ \A i \in 1..n : c.order[i] \in Builtin
  BY <1>1, LenProperties, ElementOfSeq
<1>3. L \in Nat /\ L = Len(slots) /\ DOMAIN slots = 1..L /\ \A k \in 1..L : slots[k] \in Slots
  BY <1>1, LenProperties, ElementOfSeq
<1>4. OrderOf(c) = Placing(b, slots)[L]
  BY <1>1, AscendingStays DEF OrderOf
<1>5. b \in Seq(Entries) /\ Len(b) = n /\ DOMAIN b = 1..n
  <2>1. \A i \in 1..n : Entry(c.order[i], c.order[i] \in c.hidden) \in Entries
    <3> SUFFICES ASSUME NEW i \in 1..n
                 PROVE  Entry(c.order[i], c.order[i] \in c.hidden) \in Entries
      OBVIOUS
    <3> DEFINE h == c.order[i] \in c.hidden
    <3>1. h \in BOOLEAN
      OBVIOUS
    <3>2. c.order[i] \in Pages
      BY <1>2 DEF Pages
    <3> HIDE DEF h
    <3>3. Entry(c.order[i], h) \in Entries
      BY <3>1, <3>2 DEF Entry, Entries
    <3> QED BY <3>3 DEF h
  <2> HIDE DEF n
  <2>2. b \in [1..n -> Entries]
    BY <1>2, <2>1
  <2> HIDE DEF b
  <2> QED BY <1>2, <2>2
<1>6. /\ \A x \in Range(b) : \E i \in 1..n : x = Entry(c.order[i], c.order[i] \in c.hidden)
      /\ \A i \in 1..n : Entry(c.order[i], c.order[i] \in c.hidden) \in Range(b)
  BY <1>2, <1>5 DEF Range
<1> HIDE DEF b, slots, L, n
<1>7. \A k \in 0..Len(slots) :
           /\ Placing(b, slots)[k] \in Seq(Entries)
           /\ Len(Placing(b, slots)[k]) = Len(b) + k
           /\ Range(Placing(b, slots)[k]) = Range(b) \cup {SlotEntry(slots[l]) : l \in 1..k}
  BY <1>1, <1>5, PlacingHas
<1>8. /\ OrderOf(c) \in Seq(Entries) /\ Len(OrderOf(c)) = n + L
      /\ Range(OrderOf(c)) = Range(b) \cup {SlotEntry(slots[k]) : k \in 1..L}
  <2> DEFINE P == Placing(b, slots)
  <2>1. L \in 0..Len(slots)
    BY <1>3
  <2>2. /\ P[L] \in Seq(Entries) /\ Len(P[L]) = Len(b) + L
        /\ Range(P[L]) = Range(b) \cup {SlotEntry(slots[l]) : l \in 1..L}
    BY <1>7, <2>1
  <2>3. OrderOf(c) = P[L]
    BY <1>4
  <2> HIDE DEF P
  <2> QED BY <1>5, <2>2, <2>3
<1> QED BY <1>2, <1>3, <1>6, <1>8 DEF slots, L, n

-----------------------------------------------------------------------------
(* The three lists of an order make that order again.                      *)

(* Entries of one built-in page are hidden together.                       *)
Hidden(e) == {e[i][1] : i \in {j \in DOMAIN e : e[j][1] \in Builtin /\ e[j][2]}}
Kept(e) == [i \in DOMAIN e |-> IF e[i][1] \in Builtin
                               THEN Entry(e[i][1], e[i][1] \in Hidden(e)) ELSE e[i]]

LEMMA EntryIs ==
  ASSUME NEW p, NEW P PROVE Entry(p, p \in P)[1] = p /\ Entry(p, p \in P)[2] = (p \in P)
                            /\ (p \in Pages => Entry(p, p \in P) \in Entries)
<1> DEFINE h == p \in P
<1>1. h \in BOOLEAN
  OBVIOUS
<1> HIDE DEF h
<1>2. Entry(p, h)[1] = p /\ Entry(p, h)[2] = h /\ (p \in Pages => Entry(p, h) \in Entries)
  BY <1>1 DEF Entry, Entries
<1> QED BY <1>2 DEF h

LEMMA KeptIs ==
  ASSUME NEW e \in Seq(Entries)
  PROVE  /\ Kept(e) \in Seq(Entries) /\ Len(Kept(e)) = Len(e) /\ DOMAIN Kept(e) = DOMAIN e
         /\ Names(Kept(e)) = Names(e)
         /\ \A i \in DOMAIN e : /\ e[i][1] \notin Builtin => Kept(e)[i] = e[i]
                                /\ Kept(e)[i][1] = e[i][1]
<1> DEFINE n == Len(e)
           f == Kept(e)
<1>1. /\ n \in Nat /\ DOMAIN e = 1..n
      /\ \A i \in 1..n : e[i] \in Entries /\ e[i][1] \in Pages
  BY NamesAre
<1>2. f = [i \in 1..n |-> IF e[i][1] \in Builtin
                          THEN Entry(e[i][1], e[i][1] \in Hidden(e)) ELSE e[i]]
  BY <1>1 DEF Kept
<1> HIDE DEF f, n
<1>3. ASSUME NEW i \in 1..n
      PROVE f[i] \in Entries /\ f[i][1] = e[i][1] /\ (e[i][1] \notin Builtin => f[i] = e[i])
  <2>1. CASE e[i][1] \in Builtin
    <3> DEFINE p == e[i][1]
               P == Hidden(e)
               x == Entry(p, p \in P)
    <3>1. f[i] = x
      BY <1>2, <2>1
    <3>2. p \in Pages /\ p \in Builtin
      BY <1>1, <2>1
    <3> HIDE DEF p, P
    <3>3. x[1] = p /\ x \in Entries
      BY <3>2, EntryIs
    <3> HIDE DEF x
    <3> QED BY <3>1, <3>2, <3>3 DEF p
  <2>2. CASE e[i][1] \notin Builtin
    <3>1. f[i] = e[i]
      BY <1>2, <2>2
    <3> QED BY <1>1, <2>2, <3>1
  <2> QED BY <2>1, <2>2
<1>4. f \in [1..n -> Entries]
  BY <1>2, <1>3
<1>5. f \in Seq(Entries) /\ Len(f) = n /\ DOMAIN f = 1..n
  BY <1>1, <1>4
<1>6. Names(f) = Names(e)
  BY <1>1, <1>3, <1>5 DEF Names
<1> QED BY <1>1, <1>3, <1>5, <1>6 DEF f, n

(* Nothing is hidden together where no page is repeated.                   *)
LEMMA KeptSame ==
  ASSUME NEW e \in Seq(Entries), IsInjective(Names(e)) PROVE Kept(e) = e
<1> DEFINE n == Len(e)
<1>1. /\ n \in Nat /\ DOMAIN e = 1..n
      /\ \A i \in 1..n : e[i] = <<e[i][1], e[i][2]>> /\ e[i][2] \in BOOLEAN
      /\ \A i, j \in 1..n : e[i][1] = e[j][1] => i = j
  BY NamesAre DEF IsInjective
<1>2. Kept(e) = [i \in 1..n |-> IF e[i][1] \in Builtin
                                THEN Entry(e[i][1], e[i][1] \in Hidden(e)) ELSE e[i]]
  BY <1>1 DEF Kept
<1>3. e = [i \in 1..n |-> e[i]]
  BY LenProperties
<1> HIDE DEF n
<1>4. ASSUME NEW i \in 1..n, e[i][1] \in Builtin
      PROVE  Entry(e[i][1], e[i][1] \in Hidden(e)) = e[i]
  <2> DEFINE h == e[i][1] \in Hidden(e)
  <2>1. h <=> e[i][2]
    <3>1. ASSUME e[i][2] PROVE h
      BY <1>1, <1>4, <3>1 DEF Hidden
    <3>2. ASSUME h PROVE e[i][2]
      <4>1. PICK j \in 1..n : e[j][2] /\ e[j][1] = e[i][1]
        BY <1>1, <3>2 DEF Hidden
      <4>2. j = i
        BY <1>1, <4>1
      <4> QED BY <4>1, <4>2
    <3> QED BY <3>1, <3>2
  <2>2. h \in BOOLEAN
    OBVIOUS
  <2> HIDE DEF h
  <2>3. h = e[i][2]
    BY <1>1, <2>1, <2>2
  <2>4. Entry(e[i][1], h) = e[i]
    BY <1>1, <2>3 DEF Entry
  <2> QED BY <2>4 DEF h
<1>5. \A i \in 1..n : (IF e[i][1] \in Builtin
                       THEN Entry(e[i][1], e[i][1] \in Hidden(e)) ELSE e[i]) = e[i]
  BY <1>4
<1> HIDE DEF Hidden
<1> QED BY <1>2, <1>3, <1>5

(* What SetPageOrder makes of the places of built-in pages and of plugins. *)
OfBuiltin(e) == {i \in DOMAIN e : e[i][1] \in Builtin}
OfPlugins(e) == DOMAIN e \ OfBuiltin(e)
SlotAt(e, i) == [page |-> e[i][1], position |-> i - 1, hidden |-> e[i][2]]

LEMMA ListsOf ==
  ASSUME NEW e \in Seq(Entries)
  PROVE  /\ Tidy(SetPageOrder(e))
         /\ SetPageOrder(e).order = Names(Among(e, OfBuiltin(e)))
         /\ SetPageOrder(e).hidden = Hidden(e)
         /\ SetPageOrder(e).slots
              = [k \in 1..Cardinality(OfPlugins(e)) |-> SlotAt(e, Nth(OfPlugins(e), k))]
<1> DEFINE c == SetPageOrder(e)
           I == OfBuiltin(e)
           J == OfPlugins(e)
           n == Len(e)
           C == Cardinality(I)
           D == Cardinality(J)
           a == Among(e, I)
           slots == [k \in 1..D |-> SlotAt(e, Nth(J, k))]
<1>1. c = [order |-> Names(a), hidden |-> Hidden(e), slots |-> slots]
  BY DEF SetPageOrder, OfBuiltin, OfPlugins, SlotAt, Hidden
<1>2. /\ n \in Nat /\ DOMAIN e = 1..n
      /\ \A i \in DOMAIN e : e[i] \in Entries /\ e[i][1] \in Pages /\ e[i][2] \in BOOLEAN
  BY NamesAre
<1>3. /\ I \in SUBSET (DOMAIN e) /\ J \in SUBSET (DOMAIN e)
      /\ \A i \in I : e[i][1] \in Builtin
      /\ \A i \in J : e[i][1] \in PluginPage
  BY <1>2 DEF OfBuiltin, OfPlugins, Pages
<1>4. /\ a \in Seq(Entries) /\ C \in Nat /\ Len(a) = C
      /\ \A k \in 1..C : Nth(I, k) \in I /\ a[k] = e[Nth(I, k)]
  BY <1>2, <1>3, AmongIs
<1>5. /\ D \in Nat
      /\ \A k \in 1..D : Nth(J, k) \in J
      /\ \A k, l \in 1..D : k < l => Nth(J, k) < Nth(J, l)
  BY <1>2, <1>3, Places
<1> HIDE DEF I, J, a, C, D, n
<1>6. Names(a) \in Seq(Builtin)
  <2>1. DOMAIN Names(a) = 1..C /\ \A k \in 1..C : Names(a)[k] = a[k][1]
    BY <1>4, NamesAre
  <2>2. \A k \in 1..C : Names(a)[k] \in Builtin
    BY <1>3, <1>4, <2>1
  <2>3. Names(a) \in [1..C -> Builtin]
    <3>1. Names(a) = [k \in 1..C |-> Names(a)[k]]
      BY <2>1 DEF Names
    <3> QED BY <2>2, <3>1
  <2> QED BY <1>4, <2>3
<1>7. Hidden(e) \in SUBSET Builtin
  BY DEF Hidden
<1>8. \A k \in 1..D : SlotAt(e, Nth(J, k)) \in Slots
  <2> SUFFICES ASSUME NEW k \in 1..D PROVE SlotAt(e, Nth(J, k)) \in Slots
    OBVIOUS
  <2> DEFINE i == Nth(J, k)
  <2>1. i \in J /\ i \in 1..n /\ i - 1 \in Nat
    BY <1>2, <1>3, <1>5
  <2>2. e[i][1] \in PluginPage /\ e[i][2] \in BOOLEAN
    BY <1>2, <1>3, <2>1
  <2> HIDE DEF i
  <2>3. SlotAt(e, i) \in Slots
    BY <2>1, <2>2 DEF SlotAt, Slots
  <2> QED BY <2>3 DEF i
<1>9. \A k \in 1..D : slots[k] = SlotAt(e, Nth(J, k)) /\ slots[k].position = Nth(J, k) - 1
  BY DEF SlotAt
<1>10. slots \in Seq(Slots) /\ DOMAIN slots = 1..D
  <2>1. slots \in [1..D -> Slots]
    BY <1>8
  <2> HIDE DEF slots
  <2> QED BY <1>5, <2>1
<1> HIDE DEF slots
<1>11. Ascending(slots)
  <2> SUFFICES ASSUME NEW j \in 1..D, NEW k \in 1..D, j < k
               PROVE  slots[j].position < slots[k].position
    BY <1>10 DEF Ascending
  <2>1. Nth(J, j) < Nth(J, k) /\ Nth(J, j) \in 1..n /\ Nth(J, k) \in 1..n
    BY <1>2, <1>3, <1>5
  <2> QED BY <1>9, <2>1
<1>12. c \in Configs /\ c.slots = slots /\ c.order = Names(a) /\ c.hidden = Hidden(e)
  BY <1>1, <1>6, <1>7, <1>10 DEF Configs
<1> QED BY <1>11, <1>12 DEF Tidy, slots, a, I, J, D

(* The first slots go where they were among the built-in pages.            *)
LEMMA OrderOfLists ==
  ASSUME NEW e \in Seq(Entries) PROVE OrderOf(SetPageOrder(e)) = Kept(e)
<1> DEFINE c == SetPageOrder(e)
           f == Kept(e)
           I == OfBuiltin(e)
           J == OfPlugins(e)
           n == Len(e)
           C == Cardinality(I)
           D == Cardinality(J)
           a == Among(e, I)
           b == [i \in DOMAIN c.order |-> Entry(c.order[i], c.order[i] \in c.hidden)]
           slots == c.slots
           P == Placing(b, slots)
           K(k) == I \cup {j \in J : Rank(J, j) <= k}
           T == {k \in 0..D : P[k] = Among(f, K(k))}
<1>1. /\ Tidy(c) /\ c.order = Names(a) /\ c.hidden = Hidden(e)
      /\ slots = [k \in 1..D |-> SlotAt(e, Nth(J, k))]
  BY ListsOf
<1>2. /\ n \in Nat /\ DOMAIN e = 1..n /\ DOMAIN f = 1..n /\ f \in Seq(Entries)
      /\ \A i \in 1..n : e[i] = <<e[i][1], e[i][2]>> /\ e[i][1] \in Pages
      /\ \A i \in 1..n : e[i][1] \notin Builtin => f[i] = e[i]
      /\ \A i \in 1..n : e[i][1] \in Builtin => f[i] = Entry(e[i][1], e[i][1] \in Hidden(e))
  <2>1. /\ n \in Nat /\ DOMAIN e = 1..n
        /\ \A i \in 1..n : e[i] = <<e[i][1], e[i][2]>> /\ e[i][1] \in Pages
    BY NamesAre
  <2>2. /\ DOMAIN f = 1..n /\ f \in Seq(Entries)
        /\ \A i \in 1..n : e[i][1] \notin Builtin => f[i] = e[i]
    BY <2>1, KeptIs
  <2>3. \A i \in 1..n : e[i][1] \in Builtin => f[i] = Entry(e[i][1], e[i][1] \in Hidden(e))
    BY <2>1 DEF Kept
  <2> HIDE DEF f, n
  <2> QED BY <2>1, <2>2, <2>3
<1>3. /\ I \in SUBSET (1..n) /\ J \in SUBSET (1..n) /\ I \cup J = 1..n /\ I \cap J = {}
      /\ \A i \in I : e[i][1] \in Builtin
      /\ \A j \in J : e[j][1] \notin Builtin
  BY <1>2 DEF OfBuiltin, OfPlugins
<1>4. /\ a \in Seq(Entries) /\ C \in Nat /\ Len(a) = C /\ DOMAIN a = 1..C
      /\ \A k \in 1..C : Nth(I, k) \in I /\ a[k] = e[Nth(I, k)]
  BY <1>2, <1>3, AmongIs
<1>5. /\ D \in Nat
      /\ \A j \in J : Rank(J, j) \in 1..D /\ Nth(J, Rank(J, j)) = j
      /\ \A k \in 1..D : Nth(J, k) \in J /\ Rank(J, Nth(J, k)) = k
      /\ \A k, l \in 1..D : k < l => Nth(J, k) < Nth(J, l)
  BY <1>2, <1>3, Places
<1>6. DOMAIN c.order = 1..C /\ \A k \in 1..C : c.order[k] = e[Nth(I, k)][1]
  <2>1. DOMAIN Names(a) = 1..C /\ \A k \in 1..C : Names(a)[k] = a[k][1]
    BY <1>4, NamesAre
  <2> QED BY <1>1, <1>4, <2>1
<1>7. Len(slots) = D /\ DOMAIN slots = 1..D
      /\ \A k \in 1..D : slots[k] = SlotAt(e, Nth(J, k))
  <2> HIDE DEF slots, D
  <2> QED BY <1>1, <1>5
<1> HIDE DEF c, f, I, J, n, C, D, a, slots, P
<1>8. b = Among(f, I)
  <2>1. \A k \in 1..C : Entry(c.order[k], c.order[k] \in c.hidden) = f[Nth(I, k)]
    <3> SUFFICES ASSUME NEW k \in 1..C
                 PROVE  Entry(c.order[k], c.order[k] \in c.hidden) = f[Nth(I, k)]
      OBVIOUS
    <3>1. Nth(I, k) \in I /\ Nth(I, k) \in 1..n
      BY <1>3, <1>4
    <3>2. c.order[k] = e[Nth(I, k)][1] /\ c.hidden = Hidden(e)
      BY <1>1, <1>6
    <3> QED BY <1>2, <1>3, <3>1, <3>2
  <2>2. b = [k \in 1..C |-> f[Nth(I, k)]]
    BY <1>6, <2>1
  <2> QED BY <2>2 DEF Among, C
<1> HIDE DEF b
<1>9. P[0] = b /\ \A k \in 1..D : P[k] = Placed(P[k - 1], slots[k])
  <2>1. Len(slots) \in Nat
    BY <1>5, <1>7
  <2> QED BY <1>7, <2>1, PlacingIs DEF P
<1>10. 0 \in T
  <2>1. K(0) = I
    <3>1. \A j \in J : ~(Rank(J, j) <= 0)
      BY <1>5
    <3> QED BY <3>1
  <2> HIDE DEF K
  <2> QED BY <1>5, <1>8, <1>9, <2>1
<1>11. ASSUME NEW k \in 0..(D - 1), k \in T PROVE k + 1 \in T
  <2> DEFINE p == Nth(J, k + 1)
             A == Among(f, K(k))
  <2>1. k + 1 \in 1..D /\ (k + 1) - 1 = k /\ k + 1 \in 0..D
    BY <1>5
  <2>2. p \in J /\ Rank(J, p) = k + 1 /\ p \in 1..n
    BY <1>3, <1>5, <2>1
  <2>3. K(k) \in SUBSET (DOMAIN f) /\ p \in DOMAIN f /\ p \notin K(k)
    BY <1>2, <1>3, <2>1, <2>2
  <2>4. 1..(p - 1) \subseteq K(k)
    <3> SUFFICES ASSUME NEW i \in 1..(p - 1), i \in J PROVE Rank(J, i) <= k
      BY <1>2, <1>3, <2>2
    <3>1. Rank(J, i) \in 1..D /\ Nth(J, Rank(J, i)) = i
      BY <1>5
    <3>2. i < p
      BY <2>2
    <3>3. ~(k + 1 < Rank(J, i)) /\ Rank(J, i) # k + 1
      <4>1. ASSUME k + 1 < Rank(J, i) PROVE FALSE
        <5>1. p < i
          BY <1>5, <2>1, <3>1, <4>1
        <5> QED BY <2>2, <3>2, <5>1
      <4>2. Rank(J, i) # k + 1
        <5>1. i \in Nat /\ p \in Nat
          BY <2>2
        <5> QED BY <3>1, <3>2, <5>1
      <4> QED BY <4>1, <4>2
    <3> QED BY <2>1, <3>1, <3>3
  <2>5. K(k + 1) = K(k) \cup {p}
    <3>1. \A j \in J : Rank(J, j) <= k + 1 <=> Rank(J, j) <= k \/ j = p
      <4> SUFFICES ASSUME NEW j \in J
                   PROVE  Rank(J, j) <= k + 1 <=> Rank(J, j) <= k \/ j = p
        OBVIOUS
      <4>1. Rank(J, j) \in 1..D /\ Nth(J, Rank(J, j)) = j
        BY <1>5
      <4>2. Rank(J, j) = k + 1 <=> j = p
        BY <2>2, <4>1
      <4> QED BY <2>1, <4>1, <4>2
    <3> HIDE DEF p
    <3> QED BY <2>2, <3>1
  <2> HIDE DEF K, p
  <2>6. p \in 1..(Cardinality(K(k)) + 1) /\ Among(f, K(k) \cup {p}) = PutAt(A, p, f[p])
    BY <1>2, <2>3, <2>4, AmongInsert
  <2>7. Len(A) = Cardinality(K(k)) /\ Cardinality(K(k)) \in Nat
    BY <1>2, <2>3, AmongIs
  <2>8. slots[k + 1].position = p - 1 /\ SlotEntry(slots[k + 1]) = f[p]
    <3>1. slots[k + 1] = SlotAt(e, p)
      BY <1>7, <2>1 DEF p
    <3>2. f[p] = e[p] /\ e[p] = <<e[p][1], e[p][2]>>
      BY <1>2, <1>3, <2>2
    <3> QED BY <3>1, <3>2 DEF SlotAt, SlotEntry, Entry
  <2>9. Least(p - 1, Len(A)) + 1 = p
    BY <2>6, <2>7 DEF Least
  <2>10. P[k + 1] = Placed(A, slots[k + 1])
    BY <1>9, <1>11, <2>1
  <2>11. P[k + 1] = PutAt(A, p, f[p])
    BY <2>8, <2>9, <2>10 DEF Placed
  <2> QED BY <2>1, <2>5, <2>6, <2>11
<1> HIDE DEF T
<1>12. \A k \in 0..D : k \in T
  BY <1>5, <1>10, <1>11, Counting
<1>13. P[D] = Among(f, K(D))
  BY <1>5, <1>12 DEF T
<1>14. K(D) = DOMAIN f
  <2>1. \A j \in J : Rank(J, j) <= D
    BY <1>5
  <2>2. K(D) = I \cup J
    BY <2>1
  <2> HIDE DEF K
  <2> QED BY <1>2, <1>3, <2>2
<1> HIDE DEF K
<1>15. P[D] = f
  BY <1>2, <1>13, <1>14, AmongAll
<1>16. OrderOf(c) = P[D]
  <2>1. ByPosition(slots) = slots
    BY <1>1, AscendingStays DEF Tidy, Configs, slots
  <2> QED BY <1>7, <2>1 DEF OrderOf, P, b, slots
<1> QED BY <1>15, <1>16 DEF c, f

-----------------------------------------------------------------------------
(* All the entries, and the rows among them.                               *)

LEMMA NewIs ==
  ASSUME registered \in Seq(PluginPage), IsInjective(registered), NEW e \in Seq(Entries)
  PROVE  /\ New(e) \in Seq(Entries)
         /\ \A x \in Range(New(e)) : /\ x[1] \in PluginPage /\ x[2] = FALSE
                                     /\ x[1] \in Range(registered) \ Range(Names(e))
         /\ \A p \in Range(registered) :
              p \in Range(Names(e)) \/ p \in Range(Names(New(e)))
         /\ IsInjective(Names(New(e)))
         /\ Range(registered) \subseteq Range(Names(e)) => New(e) = << >>
<1> DEFINE K == {k \in DOMAIN registered : registered[k] \notin Range(Names(e))}
           m == Among(registered, K)
           C == Cardinality(K)
           N == New(e)
<1>1. /\ m \in Seq(PluginPage) /\ Len(m) = C /\ C \in Nat /\ DOMAIN m = 1..C
      /\ \A k \in 1..C : Nth(K, k) \in K /\ m[k] = registered[Nth(K, k)]
      /\ \A i \in K : Rank(K, i) \in 1..C /\ m[Rank(K, i)] = registered[i]
  <2>1. K \in SUBSET (DOMAIN registered)
    OBVIOUS
  <2> HIDE DEF K
  <2> QED BY <2>1, AmongIs, LenProperties
<1>2. \A k \in 1..C : Rank(K, Nth(K, k)) = k
  <2>1. K \in SUBSET (DOMAIN registered)
    OBVIOUS
  <2> HIDE DEF K
  <2> QED BY <2>1, Places
<1>3. N = [k \in 1..C |-> Entry(m[k], FALSE)]
  BY <1>1 DEF New
<1>4. \A k \in 1..C : m[k] \in PluginPage /\ m[k] \in Range(registered) \ Range(Names(e))
  <2> SUFFICES ASSUME NEW k \in 1..C
               PROVE  m[k] \in PluginPage /\ m[k] \in Range(registered) \ Range(Names(e))
    OBVIOUS
  <2> DEFINE i == Nth(K, k)
  <2>1. i \in K /\ m[k] = registered[i]
    BY <1>1
  <2>2. i \in DOMAIN registered /\ registered[i] \notin Range(Names(e))
    BY <2>1
  <2> HIDE DEF i, K, m, C
  <2>3. registered[i] \in PluginPage /\ registered[i] \in Range(registered)
    BY <2>2, ElementOfSeq, LenProperties DEF Range
  <2> QED BY <2>1, <2>2, <2>3
<1>5. K = {} => N = << >>
  <2>1. K = {} => C = 0
    BY FS_EmptySet
  <2> HIDE DEF C, K, m
  <2>2. C = 0 => N = << >>
    BY <1>3
  <2> QED BY <2>1, <2>2
<1> HIDE DEF C, m, N
<1>6. \A k \in 1..C : N[k] = <<m[k], FALSE>> /\ N[k][1] = m[k] /\ N[k][2] = FALSE
                      /\ N[k] \in Entries
  BY <1>3, <1>4 DEF Entry, Entries, Pages
<1>7. N \in Seq(Entries) /\ DOMAIN N = 1..C
  <2>1. N \in [1..C -> Entries]
    BY <1>3, <1>6
  <2> QED BY <1>1, <2>1
<1>8. DOMAIN Names(N) = 1..C /\ \A k \in 1..C : Names(N)[k] = m[k]
  BY <1>6, <1>7, NamesAre
<1>9. \A x \in Range(N) : /\ x[1] \in PluginPage /\ x[2] = FALSE
                          /\ x[1] \in Range(registered) \ Range(Names(e))
  <2> SUFFICES ASSUME NEW x \in Range(N)
               PROVE  /\ x[1] \in PluginPage /\ x[2] = FALSE
                      /\ x[1] \in Range(registered) \ Range(Names(e))
    OBVIOUS
  <2>1. PICK k \in 1..C : x = N[k]
    BY <1>7 DEF Range
  <2> QED BY <1>4, <1>6, <2>1
<1>10. \A p \in Range(registered) : p \in Range(Names(e)) \/ p \in Range(Names(N))
  <2> SUFFICES ASSUME NEW i \in DOMAIN registered, registered[i] \notin Range(Names(e))
               PROVE  registered[i] \in Range(Names(N))
    BY DEF Range
  <2>1. i \in K
    OBVIOUS
  <2>2. Rank(K, i) \in 1..C /\ m[Rank(K, i)] = registered[i]
    BY <1>1, <2>1
  <2> QED BY <1>8, <2>2 DEF Range
<1>11. IsInjective(Names(N))
  <2> SUFFICES ASSUME NEW k \in 1..C, NEW l \in 1..C, m[k] = m[l] PROVE k = l
    BY <1>8 DEF IsInjective
  <2>1. /\ Nth(K, k) \in DOMAIN registered /\ Nth(K, l) \in DOMAIN registered
        /\ registered[Nth(K, k)] = registered[Nth(K, l)]
    BY <1>1
  <2> HIDE DEF K
  <2>2. Nth(K, k) = Nth(K, l)
    BY <2>1 DEF IsInjective
  <2> QED BY <1>2, <2>2
<1>12. Range(registered) \subseteq Range(Names(e)) => K = {}
  BY DEF Range
<1> QED BY <1>5, <1>7, <1>9, <1>10, <1>11, <1>12 DEF N

LEMMA FullIs ==
  ASSUME registered \in Seq(PluginPage), IsInjective(registered), NEW c,
         NEW e \in Seq(Entries), e = OrderOf(c)
  PROVE  /\ FullPageOrder(c) \in Seq(Entries)
         /\ Range(FullPageOrder(c)) = Range(e) \cup Range(New(e))
         /\ Range(Names(FullPageOrder(c))) = Range(Names(e)) \cup Range(registered)
         /\ IsInjective(Names(FullPageOrder(c))) => IsInjective(Names(e))
         /\ Range(registered) \subseteq Range(Names(e)) => FullPageOrder(c) = e
<1> DEFINE f == FullPageOrder(c)
           N == New(e)
           n == Len(e)
           m == Len(N)
<1>1. f = e \o N
  BY DEF FullPageOrder
<1>2. /\ N \in Seq(Entries)
      /\ \A x \in Range(N) : x[1] \in Range(registered)
      /\ \A p \in Range(registered) : p \in Range(Names(e)) \/ p \in Range(Names(N))
      /\ Range(registered) \subseteq Range(Names(e)) => N = << >>
  BY NewIs
<1>3. n \in Nat /\ m \in Nat /\ DOMAIN e = 1..n /\ DOMAIN N = 1..m
  BY <1>2, LenProperties
<1> HIDE DEF f, N
<1>4. /\ f \in Seq(Entries) /\ Len(f) = n + m
      /\ \A i \in 1..(n + m) : f[i] = IF i <= n THEN e[i] ELSE N[i - n]
  BY <1>1, <1>2, ConcatProperties
<1> HIDE DEF n, m
<1>5. DOMAIN f = 1..(n + m)
  BY <1>4, LenProperties
<1>6. \A i \in 1..n : i \in DOMAIN f /\ f[i] = e[i]
  BY <1>3, <1>4, <1>5
<1>7. \A j \in 1..m : n + j \in DOMAIN f /\ f[n + j] = N[j]
  BY <1>3, <1>4, <1>5
<1>8. Range(f) = Range(e) \cup Range(N)
  <2>1. ASSUME NEW i \in DOMAIN f PROVE f[i] \in Range(e) \cup Range(N)
    <3>1. i \in 1..n \/ (~(i <= n) /\ i - n \in 1..m)
      BY <1>3, <1>5
    <3>2. i \in 1..n => f[i] \in Range(e)
      BY <1>3, <1>6 DEF Range
    <3>3. ~(i <= n) /\ i - n \in 1..m => f[i] \in Range(N)
      BY <1>3, <1>4, <1>5 DEF Range
    <3> QED BY <3>1, <3>2, <3>3
  <2>2. \A i \in DOMAIN e : e[i] \in Range(f)
    BY <1>3, <1>6 DEF Range
  <2>3. \A j \in DOMAIN N : N[j] \in Range(f)
    BY <1>3, <1>7 DEF Range
  <2> QED BY <2>1, <2>2, <2>3 DEF Range
<1>9. Range(Names(f)) = Range(Names(e)) \cup Range(Names(N))
  <2>1. /\ Range(Names(f)) = {x[1] : x \in Range(f)}
        /\ Range(Names(e)) = {x[1] : x \in Range(e)}
        /\ Range(Names(N)) = {x[1] : x \in Range(N)}
    BY <1>2, <1>4, NameOf
  <2> QED BY <1>8, <2>1
<1>10. Range(Names(N)) \subseteq Range(registered)
  BY <1>2, NameOf
<1>11. IsInjective(Names(f)) => IsInjective(Names(e))
  <2> SUFFICES ASSUME IsInjective(Names(f)), NEW i \in 1..n, NEW j \in 1..n, e[i][1] = e[j][1]
               PROVE  i = j
    BY <1>3, NamesAre DEF IsInjective
  <2>1. i \in DOMAIN f /\ j \in DOMAIN f /\ f[i][1] = f[j][1]
    BY <1>6
  <2>2. /\ DOMAIN Names(f) = DOMAIN f
        /\ Names(f)[i] = f[i][1] /\ Names(f)[j] = f[j][1]
    BY <1>4, <2>1, NamesAre
  <2> QED BY <2>1, <2>2 DEF IsInjective
<1>12. Range(registered) \subseteq Range(Names(e)) => f = e
  BY <1>1, <1>2
<1> QED BY <1>2, <1>4, <1>8, <1>9, <1>10, <1>11, <1>12 DEF f, N

(* Rows are put where rows were, and nothing else is touched.              *)
LEMMA RewrittenIs ==
  ASSUME NEW full \in Seq(Entries), NEW rows \in Seq(Entries)
  PROVE  /\ Rewritten(full, rows) \in Seq(Entries)
         /\ Len(Rewritten(full, rows)) = Len(full) /\ DOMAIN Rewritten(full, rows) = DOMAIN full
         /\ \A i \in DOMAIN full :
              /\ i \notin Rows(full) => Rewritten(full, rows)[i] = full[i]
              /\ Rewritten(full, rows)[i] = full[i] \/ Rewritten(full, rows)[i] \in Range(rows)
<1> DEFINE e == Rewritten(full, rows)
           R == Rows(full)
           n == Len(full)
           m == Len(rows)
<1>1. /\ n \in Nat /\ DOMAIN full = 1..n /\ m \in Nat /\ DOMAIN rows = 1..m
      /\ \A i \in 1..n : full[i] \in Entries
      /\ \A k \in 1..m : rows[k] \in Entries
  BY LenProperties, ElementOfSeq
<1>2. R \in SUBSET (DOMAIN full) /\ \A i \in R : Rank(R, i) \in Nat \ {0}
  <2>1. R \in SUBSET (DOMAIN full)
    BY DEF Rows
  <2> HIDE DEF R
  <2>2. \A i \in R : Rank(R, i) \in 1..Cardinality(R)
    BY <2>1, Places
  <2> QED BY <2>1, <2>2
<1>3. e = [i \in 1..n |-> IF i \in R /\ Rank(R, i) <= m THEN rows[Rank(R, i)] ELSE full[i]]
  BY <1>1 DEF Rewritten
<1> HIDE DEF e, R, n, m
<1>4. ASSUME NEW i \in 1..n
      PROVE  /\ e[i] \in Entries
             /\ i \notin R => e[i] = full[i]
             /\ e[i] = full[i] \/ e[i] \in Range(rows)
  <2>1. CASE i \in R /\ Rank(R, i) <= m
    <3>1. Rank(R, i) \in 1..m
      BY <1>1, <1>2, <2>1
    <3>2. e[i] = rows[Rank(R, i)]
      BY <1>3, <2>1
    <3> QED BY <1>1, <2>1, <3>1, <3>2 DEF Range
  <2>2. CASE ~(i \in R /\ Rank(R, i) <= m)
    <3>1. e[i] = full[i]
      BY <1>3, <2>2
    <3> QED BY <1>1, <3>1
  <2> QED BY <2>1, <2>2
<1>5. e \in [1..n -> Entries]
  BY <1>3, <1>4
<1>6. e \in Seq(Entries) /\ Len(e) = n /\ DOMAIN e = 1..n
  BY <1>1, <1>5
<1> QED BY <1>1, <1>4, <1>6 DEF e, R, n

(* So many rows, and the same ones, lose and repeat nothing.               *)
LEMMA RewrittenKeeps ==
  ASSUME NEW full \in Seq(Entries), NEW rows \in Seq(Entries),
         Len(rows) = Cardinality(Rows(full)), Range(rows) = Range(Among(full, Rows(full)))
  PROVE  /\ Range(Rewritten(full, rows)) = Range(full)
         /\ Rows(Rewritten(full, rows)) = Rows(full)
         /\ Among(Rewritten(full, rows), Rows(full)) = rows
<1> DEFINE e == Rewritten(full, rows)
           R == Rows(full)
           C == Cardinality(R)
           n == Len(full)
<1>1. /\ n \in Nat /\ DOMAIN full = 1..n
      /\ e \in Seq(Entries) /\ DOMAIN e = 1..n
      /\ \A i \in 1..n : i \notin R => e[i] = full[i]
  BY RewrittenIs, LenProperties
<1>2. /\ R \in SUBSET (1..n) /\ C \in Nat
      /\ \A i \in R : Rank(R, i) \in 1..C /\ Nth(R, Rank(R, i)) = i
      /\ \A k \in 1..C : Nth(R, k) \in R /\ Rank(R, Nth(R, k)) = k
  <2>1. R \in SUBSET (DOMAIN full)
    BY DEF Rows
  <2> HIDE DEF R
  <2> QED BY <1>1, <2>1, Places
<1>3. DOMAIN rows = 1..C
  BY LenProperties
<1>4. Range(rows) = {full[i] : i \in R}
  <2> HIDE DEF R
  <2> QED BY <1>1, <1>2, AmongIs DEF R
<1>5. \A i \in R : e[i] = rows[Rank(R, i)]
  <2>1. \A i \in R : Rank(R, i) <= Len(rows)
    BY <1>2
  <2> QED BY <1>1, <1>2, <2>1 DEF Rewritten
<1>6. \A i \in R : Listed(full[i][1])
  BY DEF Rows
<1>7. \A i \in 1..n : i \notin R => ~Listed(full[i][1])
  BY <1>1 DEF Rows
<1> HIDE DEF e, R, C, n
<1>8. \A i \in R : e[i] \in Range(rows) /\ \E j \in R : e[i] = full[j]
  <2>1. \A i \in R : e[i] \in Range(rows)
    BY <1>2, <1>3, <1>5 DEF Range
  <2> QED BY <1>4, <2>1
<1>9. \A i \in R : \E j \in R : full[i] = e[j]
  <2> SUFFICES ASSUME NEW i \in R PROVE \E j \in R : full[i] = e[j]
    OBVIOUS
  <2>1. PICK k \in 1..C : full[i] = rows[k]
    BY <1>3, <1>4 DEF Range
  <2>2. Nth(R, k) \in R /\ e[Nth(R, k)] = rows[k]
    BY <1>2, <1>5
  <2> QED BY <2>1, <2>2
<1>10. Range(e) = Range(full)
  <2>1. \A i \in DOMAIN e : e[i] \in Range(full)
    BY <1>1, <1>2, <1>8 DEF Range
  <2>2. \A i \in DOMAIN full : full[i] \in Range(e)
    BY <1>1, <1>2, <1>9 DEF Range
  <2> QED BY <2>1, <2>2 DEF Range
<1>11. Rows(e) = R
  <2>1. \A i \in 1..n : Listed(e[i][1]) <=> i \in R
    BY <1>1, <1>6, <1>7, <1>8
  <2> QED BY <1>1, <1>2, <2>1 DEF Rows
<1>12. Among(e, R) = rows
  <2>1. \A k \in 1..C : e[Nth(R, k)] = rows[k]
    BY <1>2, <1>5
  <2>2. rows = [k \in 1..C |-> rows[k]]
    BY <1>3, LenProperties
  <2> QED BY <2>1, <2>2 DEF Among, C
<1> QED BY <1>10, <1>11, <1>12 DEF e, R

-----------------------------------------------------------------------------
(* What is loaded.                                                         *)

LEMMA AllKinds == ALL \in Seq(Builtin) /\ Range(ALL) = Builtin
<1> DEFINE K == {i \in DOMAIN Kinds : Kinds[i] \in Builtin}
           S == {"music", "widgets", "calendar", "timer"}
<1>1. /\ Kinds \in Seq(S) /\ DOMAIN Kinds = 1..4
      /\ Kinds[1] = "music" /\ Kinds[2] = "widgets"
      /\ Kinds[3] = "calendar" /\ Kinds[4] = "timer"
  BY DEF Kinds
<1>2. Builtin \subseteq S
  BY PagesAssumption
<1>3. K \in SUBSET (DOMAIN Kinds)
  OBVIOUS
<1>4. {Kinds[i] : i \in K} = Builtin
  <2>1. \A p \in S : \E i \in 1..4 : Kinds[i] = p
    <3>1. 1 \in 1..4 /\ 2 \in 1..4 /\ 3 \in 1..4 /\ 4 \in 1..4
      OBVIOUS
    <3> QED BY <1>1, <3>1
  <2>2. \A p \in Builtin : \E i \in K : Kinds[i] = p
    BY <1>1, <1>2, <2>1
  <2> QED BY <2>2
<1> HIDE DEF K, S
<1>5. ALL \in Seq(S) /\ Range(ALL) = Builtin
  <2>1. ALL = Among(Kinds, K)
    BY DEF ALL, K
  <2>2. Kinds \in Seq(S)
    BY <1>1
  <2>3. ALL \in Seq(S) /\ Range(ALL) = {Kinds[i] : i \in K}
    BY ONLY <1>3, <2>1, <2>2, AmongIs
  <2> QED BY <1>4, <2>3
<1>6. \A i \in DOMAIN ALL : ALL[i] \in Builtin
  BY <1>5 DEF Range
<1>7. ALL \in Seq(Builtin)
  <2>1. ALL \in [1..Len(ALL) -> Builtin] /\ Len(ALL) \in Nat
    BY <1>5, <1>6, LenProperties
  <2> QED BY <2>1
<1> QED BY <1>5, <1>7

LEMMA ConcatRange ==
  ASSUME NEW S, NEW s \in Seq(S), NEW t \in Seq(S)
  PROVE  s \o t \in Seq(S) /\ Range(s \o t) = Range(s) \cup Range(t)
<1> DEFINE n == Len(s)
           m == Len(t)
           u == s \o t
<1>1. n \in Nat /\ m \in Nat /\ DOMAIN s = 1..n /\ DOMAIN t = 1..m
  BY LenProperties
<1>2. /\ u \in Seq(S) /\ Len(u) = n + m
      /\ \A i \in 1..(n + m) : u[i] = IF i <= n THEN s[i] ELSE t[i - n]
  BY ConcatProperties
<1> HIDE DEF n, m, u
<1>3. DOMAIN u = 1..(n + m)
  BY <1>2, LenProperties
<1>4. ASSUME NEW i \in DOMAIN u PROVE u[i] \in Range(s) \cup Range(t)
  <2>1. i \in 1..n \/ (~(i <= n) /\ i - n \in 1..m)
    BY <1>1, <1>3
  <2>2. i \in 1..n => u[i] \in Range(s)
    BY <1>1, <1>2, <1>3 DEF Range
  <2>3. ~(i <= n) /\ i - n \in 1..m => u[i] \in Range(t)
    BY <1>1, <1>2, <1>3 DEF Range
  <2> QED BY <2>1, <2>2, <2>3
<1>5. \A i \in DOMAIN s : s[i] \in Range(u)
  <2>1. \A i \in 1..n : i \in 1..(n + m) /\ u[i] = s[i]
    BY <1>1, <1>2
  <2> QED BY <1>1, <1>3, <2>1 DEF Range
<1>6. \A j \in DOMAIN t : t[j] \in Range(u)
  <2>1. \A j \in 1..m : n + j \in 1..(n + m) /\ u[n + j] = t[j]
    BY <1>1, <1>2
  <2> QED BY <1>1, <1>3, <2>1 DEF Range
<1>7. Range(u) = Range(s) \cup Range(t)
  BY <1>4, <1>5, <1>6 DEF Range
<1> QED BY <1>2, <1>7 DEF u

(* A loaded configuration has an order, all of whose pages are not hidden. *)
LEMMA NormalizedIs ==
  ASSUME NEW c, Tidy(c)
  PROVE  /\ Tidy(NormalizeExpandedPages(c))
         /\ \E x \in Range(OrderOf(NormalizeExpandedPages(c))) : x[2] = FALSE
<1> DEFINE N == NormalizeExpandedPages(c)
           order == Among(c.order, Firsts(c.order))
           missing == Among(ALL, {i \in DOMAIN ALL : ALL[i] \notin Range(order)})
           hidden == c.hidden \cup (Range(missing) \ {"widgets"})
           F == Firsts([k \in DOMAIN c.slots |-> c.slots[k].page])
           slots == Among(c.slots, F)
           all == order \o missing
           nothing == Range(all) \subseteq hidden /\ \A k \in DOMAIN slots : slots[k].hidden
<1>1. /\ c.order \in Seq(Builtin) /\ c.hidden \in SUBSET Builtin
      /\ c.slots \in Seq(Slots) /\ Ascending(c.slots)
  BY DEF Tidy, Configs
<1>2. N = [order |-> all, slots |-> slots,
           hidden |-> IF nothing THEN hidden \ {"widgets"} ELSE hidden]
  BY DEF NormalizeExpandedPages
<1>3. order \in Seq(Builtin)
  <2>1. Firsts(c.order) \in SUBSET (DOMAIN c.order)
    BY DEF Firsts
  <2> QED BY <1>1, <2>1, AmongIs
<1>4. /\ missing \in Seq(Builtin)
      /\ Range(missing) = Builtin \ Range(order)
  <2> HIDE DEF order
  <2> DEFINE K == {i \in DOMAIN ALL : ALL[i] \notin Range(order)}
  <2>1. K \in SUBSET (DOMAIN ALL)
    OBVIOUS
  <2>2. {ALL[i] : i \in K} = Builtin \ Range(order)
    <3>1. \A i \in K : ALL[i] \in Builtin \ Range(order)
      BY AllKinds DEF Range
    <3>2. \A p \in Builtin \ Range(order) : \E i \in K : ALL[i] = p
      <4>1. \A p \in Builtin : \E i \in DOMAIN ALL : ALL[i] = p
        BY AllKinds DEF Range
      <4> QED BY <4>1
    <3> QED BY <3>1, <3>2
  <2> HIDE DEF K
  <2>3. missing = Among(ALL, K)
    BY DEF K
  <2>4. ALL \in Seq(Builtin)
    BY AllKinds
  <2>5. Among(ALL, K) \in Seq(Builtin) /\ Range(Among(ALL, K)) = {ALL[i] : i \in K}
    BY ONLY <2>1, <2>4, AmongIs
  <2> HIDE DEF missing
  <2> QED BY <2>2, <2>3, <2>5
<1> HIDE DEF order, missing
<1>5. all \in Seq(Builtin) /\ Builtin = Range(all)
  <2>1. all \in Seq(Builtin) /\ Range(all) = Range(order) \cup Range(missing)
    BY <1>3, <1>4, ConcatRange
  <2>2. Range(order) \subseteq Builtin
    BY <1>3, LenProperties, ElementOfSeq DEF Range
  <2> QED BY <1>4, <2>1, <2>2
<1>6. hidden \in SUBSET Builtin
  BY <1>1, <1>4
<1>7. /\ F \in SUBSET (DOMAIN c.slots)
      /\ slots \in Seq(Slots) /\ DOMAIN slots = 1..Cardinality(F)
      /\ \A k \in 1..Cardinality(F) : Nth(F, k) \in F /\ slots[k] = c.slots[Nth(F, k)]
      /\ \A k, l \in 1..Cardinality(F) : k < l => Nth(F, k) < Nth(F, l)
  <2>1. F \in SUBSET (DOMAIN c.slots)
    BY DEF Firsts
  <2> HIDE DEF F
  <2>2. /\ slots \in Seq(Slots) /\ DOMAIN slots = 1..Cardinality(F)
        /\ \A k \in 1..Cardinality(F) : Nth(F, k) \in F /\ slots[k] = c.slots[Nth(F, k)]
    BY <1>1, <2>1, AmongIs
  <2>3. \A k, l \in 1..Cardinality(F) : k < l => Nth(F, k) < Nth(F, l)
    BY <1>1, <2>1, Places
  <2> QED BY <2>1, <2>2, <2>3
<1> HIDE DEF F, slots, all, hidden
<1>8. Ascending(slots)
  BY <1>1, <1>7 DEF Ascending
<1>9. Tidy(N)
  <2>1. N \in Configs /\ N.slots = slots
    BY <1>2, <1>5, <1>6, <1>7 DEF Configs
  <2> QED BY <1>8, <2>1 DEF Tidy
<1>10. \E x \in Range(OrderOf(N)) : x[2] = FALSE
  <2>1. /\ \A i \in DOMAIN N.order :
             Entry(N.order[i], N.order[i] \in N.hidden) \in Range(OrderOf(N))
        /\ \A k \in DOMAIN N.slots :
             N.slots[k] \in Slots /\ SlotEntry(N.slots[k]) \in Range(OrderOf(N))
    BY <1>9, OrderHas
  <2>2. N.order = all /\ N.slots = slots
    BY <1>2
  <2> HIDE DEF N
  <2>3. CASE \E p \in Builtin : p \notin N.hidden
    <3>1. PICK i \in DOMAIN all : all[i] \notin N.hidden
      BY <1>5, <2>3 DEF Range
    <3>2. Entry(all[i], FALSE) \in Range(OrderOf(N))
      <4>1. (all[i] \in N.hidden) = FALSE
        BY <3>1
      <4> QED BY <2>1, <2>2, <4>1
    <3>3. Entry(all[i], FALSE)[2] = FALSE
      BY DEF Entry
    <3> QED BY <3>2, <3>3
  <2>4. CASE \E k \in DOMAIN slots : ~slots[k].hidden
    <3>1. PICK k \in DOMAIN slots : ~slots[k].hidden
      BY <2>4
    <3>2. slots[k] \in Slots /\ SlotEntry(slots[k]) \in Range(OrderOf(N))
      BY <2>1, <2>2
    <3>3. slots[k].hidden \in BOOLEAN
      BY <3>2 DEF Slots
    <3>4. SlotEntry(slots[k])[2] = FALSE
      BY <3>1, <3>3 DEF SlotEntry, Entry
    <3> QED BY <3>2, <3>4
  <2>5. CASE nothing
    <3>1. N.hidden = hidden \ {"widgets"}
      BY <1>2, <2>5 DEF N
    <3>2. "widgets" \in Builtin
      BY PagesAssumption
    <3> QED BY <2>3, <3>1, <3>2
  <2>6. CASE ~nothing
    <3>1. N.hidden = hidden
      BY <1>2, <2>6 DEF N
    <3>2. (\E p \in Builtin : p \notin hidden) \/ (\E k \in DOMAIN slots : ~slots[k].hidden)
      BY <1>5, <2>6
    <3> QED BY <2>3, <2>4, <3>1, <3>2
  <2> QED BY <2>5, <2>6
<1> QED BY <1>9, <1>10

(* A configuration that has every page once, and shows one, is loaded as   *)
(* it is.                                                                  *)
LEMMA NormalizedSame ==
  ASSUME NEW c, Tidy(c), Whole(OrderOf(c)), \E x \in Range(OrderOf(c)) : x[2] = FALSE
  PROVE  NormalizeExpandedPages(c) = c
<1> DEFINE order == Among(c.order, Firsts(c.order))
           missing == Among(ALL, {i \in DOMAIN ALL : ALL[i] \notin Range(order)})
           hidden == c.hidden \cup (Range(missing) \ {"widgets"})
           pages == [k \in DOMAIN c.slots |-> c.slots[k].page]
           F == Firsts(pages)
           slots == Among(c.slots, F)
           all == order \o missing
           nothing == Range(all) \subseteq hidden /\ \A k \in DOMAIN slots : slots[k].hidden
           e == OrderOf(c)
           n == Len(c.order)
           m == Len(c.slots)
<1>1. /\ c.order \in Seq(Builtin) /\ c.hidden \in SUBSET Builtin /\ c.slots \in Seq(Slots)
      /\ c = [order |-> c.order, hidden |-> c.hidden, slots |-> c.slots]
  BY DEF Tidy, Configs
<1>2. /\ e \in Seq(Entries) /\ Len(e) = n + m /\ n \in Nat /\ m \in Nat
      /\ DOMAIN c.order = 1..n /\ DOMAIN c.slots = 1..m
      /\ \A i \in 1..n :
           c.order[i] \in Builtin /\ Entry(c.order[i], c.order[i] \in c.hidden) \in Range(e)
      /\ \A k \in 1..m : c.slots[k] \in Slots /\ SlotEntry(c.slots[k]) \in Range(e)
      /\ \A x \in Range(e) :
           \/ \E i \in 1..n : x = Entry(c.order[i], c.order[i] \in c.hidden)
           \/ \E k \in 1..m : x = SlotEntry(c.slots[k])
  BY OrderHas
<1>3. IsInjective(Names(e)) /\ Builtin \subseteq Range(Names(e))
  BY DEF Whole
<1>4. \A i \in 1..n : c.order[i] \in Range(Names(e))
  <2> SUFFICES ASSUME NEW i \in 1..n PROVE c.order[i] \in Range(Names(e))
    OBVIOUS
  <2> DEFINE x == Entry(c.order[i], c.order[i] \in c.hidden)
  <2>1. x \in Range(e) /\ x[1] = c.order[i]
    BY <1>2 DEF Entry
  <2> HIDE DEF x, e
  <2> QED BY <1>2, <2>1, NameOf
<1>5. \A k \in 1..m : c.slots[k].page \in Range(Names(e)) /\ c.slots[k].page \in PluginPage
  <2> SUFFICES ASSUME NEW k \in 1..m
               PROVE  c.slots[k].page \in Range(Names(e)) /\ c.slots[k].page \in PluginPage
    OBVIOUS
  <2> DEFINE x == SlotEntry(c.slots[k])
  <2>1. x \in Range(e) /\ x[1] = c.slots[k].page
    BY <1>2 DEF Entry, SlotEntry
  <2>2. c.slots[k].page \in PluginPage
    BY <1>2 DEF Slots
  <2> HIDE DEF x, e
  <2> QED BY <1>2, <2>1, <2>2, NameOf
<1>6. \A p \in Range(Names(e)) :
        (\E i \in 1..n : p = c.order[i]) \/ (\E k \in 1..m : p = c.slots[k].page)
  <2> SUFFICES ASSUME NEW p \in Range(Names(e))
               PROVE  (\E i \in 1..n : p = c.order[i]) \/ (\E k \in 1..m : p = c.slots[k].page)
    OBVIOUS
  <2>1. PICK x \in Range(e) : p = x[1]
    BY <1>2, NameOf
  <2>2. CASE \E i \in 1..n : x = Entry(c.order[i], c.order[i] \in c.hidden)
    BY <2>1, <2>2 DEF Entry
  <2>3. CASE \E k \in 1..m : x = SlotEntry(c.slots[k])
    BY <2>1, <2>3 DEF Entry, SlotEntry
  <2> QED BY <1>2, <2>2, <2>3
<1> HIDE DEF e, n, m
<1>7. pages \in Seq(Pages) /\ c.order \in Seq(Pages) /\ Len(pages) = m /\ DOMAIN pages = 1..m
  <2>1. pages \in [1..m -> Pages]
    BY <1>2, <1>5 DEF Pages
  <2>2. c.order \in [1..n -> Pages]
    BY <1>1, <1>2, LenProperties DEF Pages, n
  <2> HIDE DEF pages
  <2> QED BY <1>2, <2>1, <2>2
<1>8. \A k \in 1..m : pages[k] = c.slots[k].page
  BY <1>2
<1> HIDE DEF pages
<1> DEFINE u == c.order \o pages
<1>9. /\ u \in Seq(Pages) /\ Len(u) = n + m
      /\ \A i \in 1..(n + m) : u[i] = IF i <= n THEN c.order[i] ELSE pages[i - n]
      /\ Range(u) = Range(c.order) \cup Range(pages)
  <2>1. Len(c.order) = n
    BY DEF n
  <2>2. u \in Seq(Pages) /\ Range(u) = Range(c.order) \cup Range(pages)
    BY <1>7, ConcatRange
  <2>3. /\ Len(u) = Len(c.order) + Len(pages)
        /\ \A i \in 1..(Len(c.order) + Len(pages)) :
             u[i] = IF i <= Len(c.order) THEN c.order[i] ELSE pages[i - Len(c.order)]
    BY <1>7, ConcatProperties
  <2> HIDE DEF u
  <2> QED BY <1>7, <2>1, <2>2, <2>3
<1> HIDE DEF u
<1>10. Range(Names(e)) = Range(u)
  <2>1. Range(c.order) \subseteq Range(Names(e))
    BY <1>2, <1>4 DEF Range
  <2>2. Range(pages) \subseteq Range(Names(e))
    BY <1>5, <1>7, <1>8 DEF Range
  <2>3. Range(Names(e)) \subseteq Range(c.order) \cup Range(pages)
    <3>1. \A i \in 1..n : c.order[i] \in Range(c.order)
      BY <1>2 DEF Range
    <3>2. \A k \in 1..m : c.slots[k].page \in Range(pages)
      BY <1>7, <1>8 DEF Range
    <3> QED BY <1>6, <3>1, <3>2
  <2> QED BY <1>9, <2>1, <2>2, <2>3
<1>11. IsInjective(u)
  <2>1. Names(e) \in Seq(Pages) /\ Len(Names(e)) = n + m
    BY <1>2, NamesAre
  <2> QED BY <1>3, <1>9, <1>10, <2>1, Pigeonhole
<1>12. \A i, j \in 1..n : c.order[i] = c.order[j] => i = j
  <2> SUFFICES ASSUME NEW i \in 1..n, NEW j \in 1..n, c.order[i] = c.order[j] PROVE i = j
    OBVIOUS
  <2>1. i \in 1..(n + m) /\ j \in 1..(n + m) /\ i <= n /\ j <= n
    BY <1>2
  <2>2. DOMAIN u = 1..(n + m) /\ u[i] = u[j]
    BY <1>9, <2>1, LenProperties
  <2> QED BY <1>11, <2>1, <2>2 DEF IsInjective
<1>13. \A i, j \in 1..m : pages[i] = pages[j] => i = j
  <2> SUFFICES ASSUME NEW i \in 1..m, NEW j \in 1..m, pages[i] = pages[j] PROVE i = j
    OBVIOUS
  <2>1. /\ n + i \in 1..(n + m) /\ n + j \in 1..(n + m) /\ ~(n + i <= n) /\ ~(n + j <= n)
        /\ (n + i) - n = i /\ (n + j) - n = j
    BY <1>2
  <2>2. u[n + i] = pages[i] /\ u[n + j] = pages[j]
    BY <1>9, <2>1
  <2>3. DOMAIN u = 1..(n + m) /\ u[n + i] = u[n + j]
    BY <1>9, <2>2, LenProperties
  <2>4. n + i = n + j
    BY <1>11, <2>1, <2>3 DEF IsInjective
  <2> QED BY <1>2, <2>4
<1>14. Firsts(c.order) = DOMAIN c.order
  <2>1. \A i \in 1..n : \A j \in 1..(i - 1) : j \in 1..n /\ j # i
    BY <1>2
  <2> QED BY <1>2, <1>12, <2>1 DEF Firsts
<1>15. F = DOMAIN c.slots
  <2>1. \A i \in 1..m : \A j \in 1..(i - 1) : j \in 1..m /\ j # i
    BY <1>2
  <2> QED BY <1>2, <1>7, <1>13, <2>1 DEF Firsts
<1>16. order = c.order
  BY <1>1, <1>14, AmongAll
<1>17. slots = c.slots
  BY <1>1, <1>15, AmongAll
<1>18. Builtin \subseteq Range(c.order)
  <2> SUFFICES ASSUME NEW p \in Builtin PROVE p \in Range(c.order)
    OBVIOUS
  <2>1. \A k \in 1..m : p # c.slots[k].page
    BY <1>5, PagesAssumption
  <2> QED BY <1>2, <1>3, <1>6, <2>1 DEF Range
<1>19. missing = << >>
  <2>1. {i \in DOMAIN ALL : ALL[i] \notin Range(order)} = {}
    BY <1>16, <1>18, AllKinds DEF Range
  <2> QED BY <2>1, AllKinds, AmongNone
<1> HIDE DEF order, slots, missing, F
<1>20. all = c.order
  BY <1>1, <1>16, <1>19
<1>21. hidden = c.hidden
  <2>1. Range(missing) = {}
    BY <1>19 DEF Range
  <2> QED BY <2>1
<1> HIDE DEF all, hidden
<1>22. ~nothing
  <2>1. PICK x \in Range(e) : x[2] = FALSE
    BY DEF e
  <2>2. ASSUME NEW i \in 1..n, x = Entry(c.order[i], c.order[i] \in c.hidden) PROVE ~nothing
    <3>1. (c.order[i] \in c.hidden) = FALSE
      <4> DEFINE h == c.order[i] \in c.hidden
      <4>1. Entry(c.order[i], h)[2] = h
        BY DEF Entry
      <4> HIDE DEF h
      <4>2. h = FALSE
        BY <2>1, <2>2, <4>1 DEF h
      <4> QED BY <4>2 DEF h
    <3>2. c.order[i] \in Range(c.order)
      BY <1>2 DEF Range
    <3> QED BY <1>20, <1>21, <3>1, <3>2
  <2>3. ASSUME NEW k \in 1..m, x = SlotEntry(c.slots[k]) PROVE ~nothing
    <3>1. c.slots[k].hidden = FALSE
      BY <2>1, <2>3 DEF SlotEntry, Entry
    <3> QED BY <1>2, <1>17, <3>1
  <2> QED BY <1>2, <2>2, <2>3
<1>23. NormalizeExpandedPages(c)
         = [order |-> all, slots |-> slots,
            hidden |-> IF nothing THEN hidden \ {"widgets"} ELSE hidden]
  BY DEF NormalizeExpandedPages, all, slots, hidden, order, missing, F, pages
<1> QED BY <1>1, <1>17, <1>20, <1>21, <1>22, <1>23

-----------------------------------------------------------------------------
(* What the settings window does to the rows.                              *)

Registered == registered \in Seq(PluginPage) /\ IsInjective(registered)

LEMMA RowsAre ==
  ASSUME Registered, NEW c, Tidy(c)
  PROVE  /\ OrderOf(c) \in Seq(Entries) /\ FullPageOrder(c) \in Seq(Entries)
         /\ PageRows(c) = Among(FullPageOrder(c), Rows(FullPageOrder(c)))
         /\ PageRows(c) \in Seq(Entries)
         /\ Rows(FullPageOrder(c)) \in SUBSET (DOMAIN FullPageOrder(c))
         /\ Len(PageRows(c)) = Cardinality(Rows(FullPageOrder(c)))
         /\ Range(PageRows(c)) = {FullPageOrder(c)[i] : i \in Rows(FullPageOrder(c))}
         /\ Range(PageRows(c)) \subseteq Range(FullPageOrder(c))
<1> DEFINE f == FullPageOrder(c)
           I == Rows(f)
<1>1. OrderOf(c) \in Seq(Entries)
  BY OrderHas
<1>2. f \in Seq(Entries)
  <2> DEFINE e == OrderOf(c)
  <2>1. e \in Seq(Entries) /\ e = OrderOf(c)
    BY <1>1
  <2> HIDE DEF e
  <2> QED BY <2>1, FullIs DEF Registered
<1>3. PageRows(c) = Among(f, I)
  BY DEF PageRows
<1>4. I \in SUBSET (DOMAIN f)
  BY DEF Rows
<1> HIDE DEF f, I
<1>5. Among(f, I) \in Seq(Entries) /\ Len(Among(f, I)) = Cardinality(I)
      /\ Range(Among(f, I)) = {f[i] : i \in I}
  BY <1>2, <1>4, AmongIs
<1>6. {f[i] : i \in I} \subseteq Range(f)
  BY <1>4 DEF Range
<1> QED BY <1>1, <1>2, <1>3, <1>4, <1>5, <1>6 DEF f, I

(* The same rows in another order.                                         *)
LEMMA RowsMoved ==
  ASSUME Registered, NEW c, Tidy(c), NEW rows \in Seq(Entries),
         Len(rows) = Len(PageRows(c)), Range(rows) = Range(PageRows(c)),
         NEW full, full = FullPageOrder(c), NEW e, e = Rewritten(full, rows),
         NEW d, d = SetPageOrder(e)
  PROVE  /\ Tidy(d) /\ e \in Seq(Entries) /\ Len(e) = Len(full) /\ Range(e) = Range(full)
         /\ Range(Names(e)) = Range(Names(full))
         /\ IsInjective(Names(e)) <=> IsInjective(Names(full))
         /\ OrderOf(d) = Kept(e) /\ FullPageOrder(d) = Kept(e)
         /\ \A i \in DOMAIN full : i \notin Rows(full) => e[i] = full[i]
         /\ IsInjective(Names(full)) => FullPageOrder(d) = e /\ PageRows(d) = rows
<1>1. /\ full \in Seq(Entries) /\ OrderOf(c) \in Seq(Entries)
      /\ PageRows(c) = Among(full, Rows(full))
      /\ Len(PageRows(c)) = Cardinality(Rows(full))
  BY RowsAre
<1>2. /\ e \in Seq(Entries) /\ Len(e) = Len(full)
      /\ \A i \in DOMAIN full : i \notin Rows(full) => e[i] = full[i]
  BY <1>1, RewrittenIs
<1>3. Range(e) = Range(full) /\ Rows(e) = Rows(full) /\ Among(e, Rows(full)) = rows
  BY <1>1, RewrittenKeeps
<1>4. /\ Range(Names(e)) = Range(Names(full))
      /\ IsInjective(Names(e)) <=> IsInjective(Names(full))
  BY <1>1, <1>2, <1>3, SameElements
<1>5. Tidy(d) /\ OrderOf(d) = Kept(e)
  BY <1>2, ListsOf, OrderOfLists
<1>6. Range(registered) \subseteq Range(Names(full))
  BY <1>1, FullIs DEF Registered
<1>7. FullPageOrder(d) = Kept(e)
  <2> DEFINE k == Kept(e)
  <2>1. k \in Seq(Entries) /\ Names(k) = Names(e) /\ k = OrderOf(d)
    BY <1>2, <1>5, KeptIs
  <2> HIDE DEF k
  <2>2. Range(registered) \subseteq Range(Names(k))
    BY <1>4, <1>6, <2>1
  <2>3. FullPageOrder(d) = k
    BY <2>1, <2>2, FullIs DEF Registered
  <2> QED BY <2>3 DEF k
<1>8. IsInjective(Names(full)) => FullPageOrder(d) = e
  BY <1>2, <1>4, <1>7, KeptSame
<1>9. IsInjective(Names(full)) => PageRows(d) = rows
  BY <1>3, <1>8 DEF PageRows
<1> QED BY <1>2, <1>3, <1>4, <1>5, <1>7, <1>8, <1>9

(* One row is hidden or shown.                                             *)
Toggled(rows, r) == [rows EXCEPT ![r][2] = ~@]

LEMMA RowToggled ==
  ASSUME Registered, NEW c, Tidy(c), NEW r \in DOMAIN PageRows(c), NEW rows,
         rows = Toggled(PageRows(c), r),
         NEW full, full = FullPageOrder(c), NEW e, e = Rewritten(full, rows),
         NEW d, d = SetPageOrder(e)
  PROVE  /\ Tidy(d) /\ e \in Seq(Entries) /\ Len(e) = Len(full) /\ Names(e) = Names(full)
         /\ OrderOf(d) = Kept(e) /\ FullPageOrder(d) = Kept(e)
         /\ Nth(Rows(full), r) \in Rows(full)
         /\ full[Nth(Rows(full), r)] = PageRows(c)[r]
         /\ e[Nth(Rows(full), r)][2] = ~PageRows(c)[r][2]
         /\ \A i \in DOMAIN full : i # Nth(Rows(full), r) => e[i] = full[i]
<1> DEFINE R == Rows(full)
           C == Cardinality(R)
           p == PageRows(c)
           q == Nth(R, r)
<1>1. /\ full \in Seq(Entries) /\ OrderOf(c) \in Seq(Entries) /\ p = Among(full, R)
      /\ p \in Seq(Entries) /\ Len(p) = C /\ R \in SUBSET (DOMAIN full)
  BY RowsAre
<1> HIDE DEF R, p, C
<1>2. /\ DOMAIN p = 1..C /\ C \in Nat
      /\ \A k \in 1..C : p[k] \in Entries /\ p[k][1] \in Pages /\ p[k][2] \in BOOLEAN
                         /\ p[k] = <<p[k][1], p[k][2]>>
  BY <1>1, NamesAre, LenProperties
<1>3. /\ \A k \in 1..C : Nth(R, k) \in R /\ p[k] = full[Nth(R, k)]
      /\ \A i \in R : Rank(R, i) \in 1..C /\ p[Rank(R, i)] = full[i]
  BY <1>1, AmongIs DEF C
<1>4. \A i \in R : Nth(R, Rank(R, i)) = i
  BY <1>1, Places
<1>5. \A k \in 1..C : Rank(R, Nth(R, k)) = k
  BY <1>1, Places DEF C
<1>6. rows = [p EXCEPT ![r] = [p[r] EXCEPT ![2] = ~p[r][2]]]
  BY DEF p, Toggled
<1>7. /\ [p[r] EXCEPT ![2] = ~p[r][2]] = <<p[r][1], ~p[r][2]>>
      /\ <<p[r][1], ~p[r][2]>> \in Entries
  <2> DEFINE a == p[r][1]
             b == p[r][2]
  <2>1. p[r] = <<a, b>> /\ a \in Pages /\ b \in BOOLEAN
    BY <1>2 DEF p
  <2> HIDE DEF a, b
  <2>2. [<<a, b>> EXCEPT ![2] = ~b] = <<a, ~b>>
    OBVIOUS
  <2>3. <<a, ~b>> \in Entries
    BY <2>1 DEF Entries
  <2> QED BY <2>1, <2>2, <2>3 DEF a, b
<1> DEFINE y == <<p[r][1], ~p[r][2]>>
<1>8. y[1] = p[r][1] /\ y[2] = ~p[r][2]
  OBVIOUS
<1>9. r \in 1..C
  BY <1>2 DEF p
<1>10. rows = [p EXCEPT ![r] = y] /\ y \in Entries
  BY <1>6, <1>7
<1> HIDE DEF y
<1>11. rows \in Seq(Entries) /\ Len(rows) = C
       /\ rows[r] = y /\ \A k \in 1..C : k # r => rows[k] = p[k]
  <2>1. p \in [1..C -> Entries]
    BY <1>1, <1>2, LenProperties
  <2>2. /\ rows \in [1..C -> Entries] /\ rows[r] = y
        /\ \A k \in 1..C : k # r => rows[k] = p[k]
    BY ONLY <1>9, <1>10, <2>1
  <2> QED BY ONLY <1>2, <2>2
<1>12. /\ e \in Seq(Entries) /\ Len(e) = Len(full) /\ DOMAIN e = DOMAIN full
       /\ \A i \in DOMAIN full : i \notin R => e[i] = full[i]
  <2>1. e = Rewritten(full, rows)
    OBVIOUS
  <2> QED BY ONLY <1>1, <1>11, <2>1, RewrittenIs DEF R
<1>13. \A i \in R : e[i] = rows[Rank(R, i)]
  <2>1. \A i \in R : Rank(R, i) <= Len(rows)
    BY <1>2, <1>3, <1>11
  <2> QED BY <1>1, <2>1 DEF Rewritten, R
<1>14. q \in R /\ full[q] = p[r] /\ e[q] = y
  BY <1>3, <1>5, <1>9, <1>11, <1>13
<1>15. \A i \in DOMAIN full : i # q => e[i] = full[i]
  <2> SUFFICES ASSUME NEW i \in DOMAIN full, i # q, i \in R PROVE e[i] = full[i]
    BY <1>12
  <2>1. Rank(R, i) \in 1..C /\ p[Rank(R, i)] = full[i] /\ Rank(R, i) # r
    BY <1>3, <1>4
  <2> QED BY <1>11, <1>13, <2>1
<1>16. Names(e) = Names(full)
  <2>1. \A i \in DOMAIN full : e[i][1] = full[i][1]
    BY <1>8, <1>14, <1>15
  <2> QED BY <1>12, <2>1 DEF Names
<1>17. Tidy(d) /\ OrderOf(d) = Kept(e)
  BY <1>12, ListsOf, OrderOfLists
<1>18. FullPageOrder(d) = Kept(e)
  <2> DEFINE k == Kept(e)
  <2>1. k \in Seq(Entries) /\ Names(k) = Names(e) /\ k = OrderOf(d)
    BY <1>12, <1>17, KeptIs
  <2> HIDE DEF k
  <2>2. Range(registered) \subseteq Range(Names(full))
    BY <1>1, FullIs DEF Registered
  <2>3. FullPageOrder(d) = k
    BY <1>16, <2>1, <2>2, FullIs DEF Registered
  <2> QED BY <2>3 DEF k
<1> QED BY <1>8, <1>12, <1>14, <1>15, <1>16, <1>17, <1>18 DEF p, R

-----------------------------------------------------------------------------
(* What shows, and what a drag remembers of the rows.                      *)

Shows(e) == Whole(e) => \E x \in Range(e) : x[2] = FALSE
Fresh(x) == x[1] \in PluginPage /\ x[2] = FALSE
Known(x, e) ==
  Fresh(x) \/ (x[1] \in Range(Names(e)) /\ (IsInjective(Names(e)) => x \in Range(e)))

LEMMA WholeFull ==
  ASSUME Registered, NEW c, Tidy(c), NEW full, full = FullPageOrder(c), Whole(full)
  PROVE  Whole(OrderOf(c))
<1> DEFINE e == OrderOf(c)
<1>1. e \in Seq(Entries) /\ e = OrderOf(c)
  BY RowsAre
<1> HIDE DEF e
<1>2. /\ Range(Names(full)) = Range(Names(e)) \cup Range(registered)
      /\ IsInjective(Names(full)) => IsInjective(Names(e))
  BY <1>1, FullIs DEF Registered
<1>3. Range(registered) \cap Builtin = {}
  <2>1. Range(registered) \subseteq PluginPage
    BY LenProperties, ElementOfSeq DEF Registered, Range
  <2> QED BY <2>1, PagesAssumption
<1>4. Whole(e)
  BY <1>2, <1>3 DEF Whole
<1> QED BY <1>1, <1>4

LEMMA RowsMovedShow ==
  ASSUME Registered, NEW c, Tidy(c), NEW rows \in Seq(Entries),
         Len(rows) = Len(PageRows(c)), Range(rows) = Range(PageRows(c)),
         NEW d, d = SetPageOrder(Rewritten(FullPageOrder(c), rows))
  PROVE  /\ Shows(OrderOf(c)) => Shows(OrderOf(d))
         /\ \A x : Known(x, OrderOf(c)) => Known(x, OrderOf(d))
<1> DEFINE full == FullPageOrder(c)
           e == Rewritten(full, rows)
           b == OrderOf(c)
<1>1. full = FullPageOrder(c) /\ e = Rewritten(full, rows) /\ d = SetPageOrder(e) /\ b = OrderOf(c)
  OBVIOUS
<1> HIDE DEF full, e, b
<1>2. /\ e \in Seq(Entries) /\ Range(e) = Range(full)
      /\ Range(Names(e)) = Range(Names(full))
      /\ IsInjective(Names(e)) <=> IsInjective(Names(full))
      /\ OrderOf(d) = Kept(e)
  BY <1>1, RowsMoved
<1>3. Names(Kept(e)) = Names(e) /\ (IsInjective(Names(e)) => Kept(e) = e)
  BY <1>2, KeptIs, KeptSame
<1>4. b \in Seq(Entries)
  BY <1>1, RowsAre
<1>5. /\ Range(full) = Range(b) \cup Range(New(b))
      /\ Range(Names(full)) = Range(Names(b)) \cup Range(registered)
      /\ IsInjective(Names(full)) => IsInjective(Names(b))
  BY <1>1, <1>4, FullIs DEF Registered
<1>6. ASSUME Shows(b), Whole(Kept(e)) PROVE \E x \in Range(Kept(e)) : x[2] = FALSE
  <2>1. IsInjective(Names(e)) /\ Builtin \subseteq Range(Names(e))
    BY <1>3, <1>6 DEF Whole
  <2>2. Whole(full)
    BY <1>2, <2>1 DEF Whole
  <2>3. Whole(b)
    BY <1>1, <2>2, WholeFull
  <2>4. \E x \in Range(b) : x[2] = FALSE
    BY <1>6, <2>3 DEF Shows
  <2> QED BY <1>2, <1>3, <1>5, <2>1, <2>4
<1>7. ASSUME NEW x, Known(x, b) PROVE Known(x, Kept(e))
  BY <1>2, <1>3, <1>5, <1>7 DEF Known
<1> QED BY <1>1, <1>2, <1>6, <1>7 DEF Shows

LEMMA RowToggledShows ==
  ASSUME Registered, NEW c, Tidy(c), NEW r \in DOMAIN PageRows(c), NEW rows,
         ~ToggleLocked(PageRows(c), PageRows(c)[r][1]),
         rows = Toggled(PageRows(c), r),
         NEW d, d = SetPageOrder(Rewritten(FullPageOrder(c), rows))
  PROVE  Shows(OrderOf(d))
<1> DEFINE full == FullPageOrder(c)
           e == Rewritten(full, rows)
           p == PageRows(c)
           q == Nth(Rows(full), r)
<1>1. full = FullPageOrder(c) /\ e = Rewritten(full, rows) /\ d = SetPageOrder(e)
  OBVIOUS
<1>2. /\ full \in Seq(Entries) /\ p \in Seq(Entries) /\ Rows(full) \in SUBSET (DOMAIN full)
      /\ Range(p) = {full[i] : i \in Rows(full)}
  BY RowsAre
<1> HIDE DEF full, e
<1>3. /\ e \in Seq(Entries) /\ Len(e) = Len(full) /\ OrderOf(d) = Kept(e)
      /\ q \in Rows(full) /\ full[q] = p[r] /\ e[q][2] = ~p[r][2]
      /\ \A i \in DOMAIN full : i # q => e[i] = full[i]
  BY <1>1, RowToggled
<1>4. Names(Kept(e)) = Names(e) /\ (IsInjective(Names(e)) => Kept(e) = e)
  BY <1>3, KeptIs, KeptSame
<1> HIDE DEF p, q
<1>5. DOMAIN e = DOMAIN full /\ q \in DOMAIN full
  BY <1>2, <1>3, LenProperties
<1>6. r \in DOMAIN p /\ p[r][2] \in BOOLEAN /\ ~ToggleLocked(p, p[r][1])
  <2>1. r \in DOMAIN p /\ ~ToggleLocked(p, p[r][1])
    BY DEF p
  <2> QED BY <1>2, <2>1, NamesAre
<1>7. \E x \in Range(e) : x[2] = FALSE
  <2>1. CASE p[r][2] = TRUE
    <3>1. e[q][2] = FALSE
      BY <1>3, <2>1
    <3> QED BY <1>5, <3>1 DEF Range
  <2>2. CASE p[r][2] = FALSE
    <3>1. PICK j \in DOMAIN p : ~(p[j][2] \/ p[j][1] = p[r][1])
      BY <1>6, <2>2 DEF ToggleLocked
    <3>2. p[j][2] \in BOOLEAN
      BY <1>2, NamesAre
    <3>3. p[j][2] = FALSE /\ p[j][1] # p[r][1]
      BY <3>1, <3>2
    <3>4. p[j] \in Range(p)
      BY DEF Range
    <3>5. PICK i \in Rows(full) : full[i] = p[j]
      BY <1>2, <3>4
    <3>6. i # q /\ i \in DOMAIN full
      BY <1>2, <1>3, <3>3, <3>5
    <3>7. e[i] = p[j]
      BY <1>3, <3>5, <3>6
    <3>8. e[i] \in Range(e)
      BY <1>5, <3>6 DEF Range
    <3> QED BY <3>3, <3>7, <3>8
  <2> QED BY <1>6, <2>1, <2>2
<1>8. Whole(Kept(e)) => Kept(e) = e
  BY <1>4 DEF Whole
<1> QED BY <1>3, <1>7, <1>8 DEF Shows

(* The remembered rows may come back to other places than theirs, and find *)
(* others gone. Where they leave a whole order, either a page comes back   *)
(* whose place was lost, which is not hidden, or the order was whole.      *)
LEMMA RowsBackShow ==
  ASSUME Registered, NEW c, Tidy(c), NEW rows \in Seq(Entries), Shows(OrderOf(c)),
         \A x \in Range(rows) : Known(x, OrderOf(c)),
         NEW d, d = SetPageOrder(Rewritten(FullPageOrder(c), rows))
  PROVE  Tidy(d) /\ Shows(OrderOf(d))
<1> DEFINE full == FullPageOrder(c)
           e == Rewritten(full, rows)
           b == OrderOf(c)
<1>1. full = FullPageOrder(c) /\ e = Rewritten(full, rows) /\ d = SetPageOrder(e) /\ b = OrderOf(c)
  OBVIOUS
<1>2. full \in Seq(Entries) /\ b \in Seq(Entries)
  BY RowsAre
<1> HIDE DEF full, e, b
<1>3. /\ e \in Seq(Entries) /\ Len(e) = Len(full) /\ DOMAIN e = DOMAIN full
      /\ \A i \in DOMAIN full : e[i] = full[i] \/ e[i] \in Range(rows)
  BY <1>1, <1>2, RewrittenIs
<1>4. Tidy(d) /\ OrderOf(d) = Kept(e)
  BY <1>1, <1>3, ListsOf, OrderOfLists
<1>5. Names(Kept(e)) = Names(e) /\ (IsInjective(Names(e)) => Kept(e) = e)
  BY <1>3, KeptIs, KeptSame
<1>6. /\ Range(full) = Range(b) \cup Range(New(b))
      /\ Range(Names(full)) = Range(Names(b)) \cup Range(registered)
      /\ IsInjective(Names(full)) => IsInjective(Names(b))
  BY <1>1, <1>2, FullIs DEF Registered
<1>7. ASSUME Whole(Kept(e)) PROVE \E x \in Range(e) : x[2] = FALSE
  <2>1. IsInjective(Names(e)) /\ Builtin \subseteq Range(Names(e))
    BY <1>5, <1>7 DEF Whole
  <2>2. CASE \E i \in DOMAIN e : e[i][1] \notin Range(Names(full))
    <3>1. PICK i \in DOMAIN e : e[i][1] \notin Range(Names(full))
      BY <2>2
    <3>2. e[i] # full[i]
      <4>1. i \in DOMAIN full /\ Range(Names(full)) = {full[j][1] : j \in DOMAIN full}
        BY <1>2, <1>3, NamesAre
      <4>2. full[i][1] \in Range(Names(full))
        BY <4>1
      <4> QED BY <3>1, <4>2
    <3>3. Known(e[i], b)
      BY <1>1, <1>3, <3>2
    <3>4. e[i][2] = FALSE
      BY <1>6, <3>1, <3>3 DEF Known, Fresh
    <3> QED BY <3>4 DEF Range
  <2>3. CASE \A i \in DOMAIN e : e[i][1] \in Range(Names(full))
    <3>1. Range(Names(e)) \subseteq Range(Names(full))
      BY <1>3, <2>3, NamesAre
    <3>2. /\ Names(e) \in Seq(Pages) /\ Names(full) \in Seq(Pages)
          /\ Len(Names(e)) = Len(Names(full))
      BY <1>2, <1>3, NamesAre
    <3>3. Range(Names(e)) = Range(Names(full)) /\ IsInjective(Names(full))
      BY <2>1, <3>1, <3>2, Pigeonhole
    <3>4. Whole(full) /\ IsInjective(Names(b))
      BY <1>6, <2>1, <3>3 DEF Whole
    <3>5. Whole(b)
      BY <1>1, <3>4, WholeFull
    <3>6. PICK x \in Range(b) : x[2] = FALSE
      BY <1>1, <3>5 DEF Shows
    <3>7. x[1] \in Range(Names(e))
      BY <1>2, <1>6, <3>3, NameOf
    <3>8. PICK i \in DOMAIN e : e[i][1] = x[1]
      BY <1>3, <3>7, NamesAre
    <3>9. \A y \in Range(full) : y[1] = x[1] => y = x
      <4> SUFFICES ASSUME NEW j \in DOMAIN full, NEW k \in DOMAIN full, full[k] = x,
                          full[j][1] = x[1]
                   PROVE  full[j] = x
        BY <1>6 DEF Range
      <4>1. Names(full)[j] = Names(full)[k] /\ DOMAIN Names(full) = DOMAIN full
        BY <1>2, NamesAre
      <4> QED BY <3>3, <4>1 DEF IsInjective
    <3>10. e[i][2] = FALSE
      <4>1. CASE e[i] = full[i]
        <5>1. full[i] \in Range(full)
          BY <1>3 DEF Range
        <5>2. full[i] = x
          BY <3>8, <3>9, <4>1, <5>1
        <5> QED BY <3>6, <4>1, <5>2
      <4>2. CASE e[i] \in Range(rows)
        <5>1. Known(e[i], b)
          BY <1>1, <4>2
        <5>2. Fresh(e[i]) \/ e[i] \in Range(b)
          BY <3>4, <5>1 DEF Known
        <5>3. e[i] \in Range(b) => e[i] = x
          BY <1>6, <3>8, <3>9
        <5> QED BY <3>6, <5>2, <5>3 DEF Fresh
      <4> QED BY <1>3, <4>1, <4>2
    <3> QED BY <3>10 DEF Range
  <2> QED BY <2>2, <2>3
<1>8. Whole(Kept(e)) => Kept(e) = e
  BY <1>5 DEF Whole
<1> QED BY <1>4, <1>7, <1>8 DEF Shows

LEMMA RowsAreKnown ==
  ASSUME Registered, NEW c, Tidy(c) PROVE \A x \in Range(PageRows(c)) : Known(x, OrderOf(c))
<1> DEFINE b == OrderOf(c)
<1>1. b = OrderOf(c) /\ b \in Seq(Entries) /\ Range(PageRows(c)) \subseteq Range(FullPageOrder(c))
  BY RowsAre
<1> HIDE DEF b
<1>2. Range(FullPageOrder(c)) = Range(b) \cup Range(New(b))
  BY <1>1, FullIs DEF Registered
<1>3. \A x \in Range(New(b)) : Fresh(x)
  BY <1>1, NewIs DEF Registered, Fresh
<1>4. \A x \in Range(b) : x[1] \in Range(Names(b))
  BY <1>1, NameOf
<1> QED BY <1>1, <1>2, <1>3, <1>4 DEF Known

-----------------------------------------------------------------------------
(* The inductive invariant.                                                *)

Typed ==
  /\ Tidy(edited) /\ Tidy(stored) /\ Registered
  /\ drag \in Builtin \cup PluginPage \cup {NoPage}
  /\ original \in Seq(Entries)

(* A whole order shows something, whatever came and went.                  *)
SomethingShows == Shows(OrderOf(edited))

(* A drag remembers rows whose pages have a place, or had none when it     *)
(* began.                                                                  *)
OriginalsAreKnown ==
  drag # NoPage => \A x \in Range(original) : Known(x, OrderOf(edited))

(* While no plugin page comes or goes, they are the rows in another order. *)
OriginalsAreRows ==
  drag # NoPage /\ steady /\ IsInjective(Names(FullPageOrder(edited))) =>
    Len(original) = Len(PageRows(edited)) /\ Range(original) = Range(PageRows(edited))

PagesInv == Typed /\ SomethingShows /\ OriginalsAreKnown /\ OriginalsAreRows

LEMMA AfterIs ==
  ASSUME registered' = registered
  PROVE  PageRows(edited)' = PageRows(edited') /\ FullPageOrder(edited)' = FullPageOrder(edited')
  BY DEF PageRows, FullPageOrder, New, Rows, Listed

LEMMA InitInv == ASSUME PagesInit PROVE PagesInv
<1> DEFINE c == [order |-> ALL, hidden |-> {}, slots |-> << >>]
<1>1. Tidy(c)
  <2>1. << >> \in Seq(Slots) /\ Ascending(<< >>)
    BY DEF Ascending
  <2> QED BY <2>1, AllKinds DEF Tidy, Configs
<1>2. edited = NormalizeExpandedPages(c)
  BY DEF PagesInit
<1> HIDE DEF c
<1>3. Tidy(edited) /\ SomethingShows
  BY <1>1, <1>2, NormalizedIs DEF SomethingShows, Shows
<1>4. Registered
  BY DEF PagesInit, Registered, IsInjective
<1>5. stored = edited /\ drag = NoPage /\ original \in Seq(Entries)
  BY DEF PagesInit
<1> QED BY <1>3, <1>4, <1>5 DEF PagesInv, Typed, OriginalsAreKnown, OriginalsAreRows

Rearranges ==
  \E rows \in Seq(Entries) :
    /\ Len(rows) = Len(PageRows(edited)) /\ Range(rows) = Range(PageRows(edited))
    /\ edited' = SetPageRows(rows)
Toggles ==
  \E r \in DOMAIN PageRows(edited) :
    /\ ~ToggleLocked(PageRows(edited), PageRows(edited)[r][1])
    /\ edited' = SetPageRows(Toggled(PageRows(edited), r))

LEMMA MovesRearrange ==
  ASSUME Typed, NEW from \in DOMAIN PageRows(edited), NEW to \in DOMAIN PageRows(edited),
         MovePage(from, to)
  PROVE  Rearranges
<1> DEFINE rows == Moved(PageRows(edited), from, to)
<1>1. PageRows(edited) \in Seq(Entries)
  BY RowsAre DEF Typed
<1>2. /\ rows \in Seq(Entries) /\ Len(rows) = Len(PageRows(edited))
      /\ Range(rows) = Range(PageRows(edited))
  BY <1>1, MovedIs
<1>3. edited' = SetPageRows(rows)
  BY DEF MovePage
<1> HIDE DEF rows
<1> QED BY <1>2, <1>3 DEF Rearranges

LEMMA DraggedIs == ASSUME Typed, Dragged PROVE edited' = edited \/ Rearranges
  BY MovesRearrange DEF Dragged

LEMMA PressIs == ASSUME Typed, PressArrow PROVE Rearranges
  BY MovesRearrange DEF PressArrow

LEMMA ToggleIs == ASSUME ToggleVisibility PROVE Toggles
  BY DEF ToggleVisibility, Toggles, Toggled

LEMMA Rearranged ==
  ASSUME Typed, Rearranges
  PROVE  /\ Tidy(edited')
         /\ Shows(OrderOf(edited)) => Shows(OrderOf(edited'))
         /\ \A x : Known(x, OrderOf(edited)) => Known(x, OrderOf(edited'))
         /\ IsInjective(Names(FullPageOrder(edited'))) =>
              /\ IsInjective(Names(FullPageOrder(edited)))
              /\ Len(PageRows(edited')) = Len(PageRows(edited))
              /\ Range(PageRows(edited')) = Range(PageRows(edited))
<1>1. PICK rows \in Seq(Entries) :
        /\ Len(rows) = Len(PageRows(edited)) /\ Range(rows) = Range(PageRows(edited))
        /\ edited' = SetPageRows(rows)
  BY DEF Rearranges
<1> DEFINE full == FullPageOrder(edited)
           e == Rewritten(full, rows)
<1>2. /\ full = FullPageOrder(edited) /\ e = Rewritten(full, rows)
      /\ edited' = SetPageOrder(e) /\ edited' = SetPageOrder(Rewritten(FullPageOrder(edited), rows))
  BY <1>1 DEF SetPageRows
<1> HIDE DEF full, e
<1>3. Registered /\ Tidy(edited)
  BY DEF Typed
<1>4. /\ Tidy(edited') /\ e \in Seq(Entries)
      /\ IsInjective(Names(e)) <=> IsInjective(Names(full))
      /\ FullPageOrder(edited') = Kept(e)
      /\ IsInjective(Names(full)) => PageRows(edited') = rows
  BY <1>1, <1>2, <1>3, RowsMoved
<1>5. Names(Kept(e)) = Names(e)
  BY <1>4, KeptIs
<1>6. /\ Shows(OrderOf(edited)) => Shows(OrderOf(edited'))
      /\ \A x : Known(x, OrderOf(edited)) => Known(x, OrderOf(edited'))
  BY <1>1, <1>2, <1>3, RowsMovedShow
<1> QED BY <1>1, <1>2, <1>4, <1>5, <1>6

LEMMA ToggledIs ==
  ASSUME Typed, Toggles PROVE Tidy(edited') /\ Shows(OrderOf(edited'))
<1>1. PICK r \in DOMAIN PageRows(edited) :
        /\ ~ToggleLocked(PageRows(edited), PageRows(edited)[r][1])
        /\ edited' = SetPageRows(Toggled(PageRows(edited), r))
  BY DEF Toggles
<1> DEFINE rows == Toggled(PageRows(edited), r)
           full == FullPageOrder(edited)
           e == Rewritten(full, rows)
<1>2. /\ rows = Toggled(PageRows(edited), r)
      /\ full = FullPageOrder(edited) /\ e = Rewritten(full, rows)
      /\ edited' = SetPageOrder(e) /\ edited' = SetPageOrder(Rewritten(FullPageOrder(edited), rows))
  BY <1>1 DEF SetPageRows
<1> HIDE DEF rows, full, e
<1>3. Registered /\ Tidy(edited)
  BY DEF Typed
<1>4. Tidy(edited')
  BY <1>1, <1>2, <1>3, RowToggled
<1>5. Shows(OrderOf(edited'))
  BY <1>1, <1>2, <1>3, RowToggledShows
<1> QED BY <1>4, <1>5

(* Pages that plugins enable and disable are each there once.              *)
LEMMA EnabledIs ==
  ASSUME Registered, EnablePage PROVE Registered'
<1> DEFINE r == registered
           s == registered'
<1>1. r \in Seq(PluginPage) /\ IsInjective(r) /\ Len(r) \in Nat /\ DOMAIN r = 1..Len(r)
  BY LenProperties DEF Registered
<1>2. ASSUME NEW p \in PluginPage \ Range(r), NEW i \in 1..(Len(r) + 1), s = PutAt(r, i, p)
      PROVE  s \in Seq(PluginPage) /\ IsInjective(s)
  <2>1. s \in Seq(PluginPage) /\ IsPut(s, r, i, p)
    BY <1>1, <1>2, PutAtIs
  <2>2. Range(s) = Range(r) \cup {p}
    BY <1>1, <2>1, PutRange
  <2>3. IsFiniteSet(Range(r)) /\ Cardinality(Range(r)) = Len(r)
    BY <1>1, Elements
  <2>4. Cardinality(Range(s)) = Len(r) + 1
    BY <2>2, <2>3, FS_AddElement
  <2>5. Len(s) = Len(r) + 1
    BY <2>1 DEF IsPut
  <2> QED BY <2>1, <2>4, <2>5, Elements
<1>3. ASSUME NEW i \in DOMAIN r, s = Without(r, i)
      PROVE  s \in Seq(PluginPage) /\ IsInjective(s)
  <2>1. /\ s \in Seq(PluginPage) /\ Len(s) = Len(r) - 1
        /\ \A k \in 1..(Len(r) - 1) : /\ k < i => s[k] = r[k]
                                      /\ k >= i => s[k] = r[k + 1]
    BY <1>1, <1>3, WithoutIs
  <2>2. DOMAIN s = 1..(Len(r) - 1)
    BY <2>1, LenProperties
  <2>3. \A k \in 1..(Len(r) - 1) :
          \E l \in 1..Len(r) : s[k] = r[l] /\ ((k < i /\ l = k) \/ (k >= i /\ l = k + 1))
    <3> SUFFICES ASSUME NEW k \in 1..(Len(r) - 1)
                 PROVE  \E l \in 1..Len(r) :
                          s[k] = r[l] /\ ((k < i /\ l = k) \/ (k >= i /\ l = k + 1))
      OBVIOUS
    <3>1. k \in 1..Len(r) /\ k + 1 \in 1..Len(r) /\ (k < i \/ k >= i)
      BY <1>1
    <3> QED BY <2>1, <3>1
  <2>4. \A k, l \in 1..Len(r) : r[k] = r[l] => k = l
    BY <1>1 DEF IsInjective
  <2> HIDE DEF s, r
  <2>5. ASSUME NEW k \in 1..(Len(r) - 1), NEW l \in 1..(Len(r) - 1), s[k] = s[l] PROVE k = l
    <3>1. PICK a \in 1..Len(r) : s[k] = r[a] /\ ((k < i /\ a = k) \/ (k >= i /\ a = k + 1))
      BY <2>3
    <3>2. PICK b \in 1..Len(r) : s[l] = r[b] /\ ((l < i /\ b = l) \/ (l >= i /\ b = l + 1))
      BY <2>3
    <3>3. a = b
      BY <2>4, <2>5, <3>1, <3>2
    <3> QED BY <1>1, <3>1, <3>2, <3>3
  <2>6. IsInjective(s)
    BY <2>2, <2>5 DEF IsInjective
  <2> QED BY <2>1, <2>6
<1>4. s \in Seq(PluginPage) /\ IsInjective(s)
  BY <1>2, <1>3 DEF EnablePage
<1> QED BY <1>4 DEF Registered

LEMMA PagesStep ==
  ASSUME PagesInv, [PagesNext]_pageVars PROVE PagesInv'
<1> USE DEF PagesInv
<1>1. Typed /\ Registered /\ Tidy(edited) /\ Tidy(stored)
  BY DEF Typed
<1>2. CASE UNCHANGED pageVars
  <2>1. /\ edited' = edited /\ stored' = stored /\ registered' = registered
        /\ drag' = drag /\ original' = original /\ steady' = steady
    BY <1>2 DEF pageVars, configs, dragVars, turning
  <2>2. Typed' /\ SomethingShows' /\ OriginalsAreKnown'
    BY <2>1 DEF Typed, Registered, SomethingShows, OriginalsAreKnown
  <2>3. OriginalsAreRows'
    BY <2>1, AfterIs DEF OriginalsAreRows
  <2> QED BY <2>2, <2>3
<1>3. CASE EnablePage
  <2>1. /\ edited' = edited /\ stored' = stored /\ drag' = drag /\ original' = original
        /\ steady' = (drag = NoPage)
    BY <1>3 DEF EnablePage, configs
  <2>2. Registered'
    BY <1>1, <1>3, EnabledIs
  <2>3. Typed' /\ SomethingShows' /\ OriginalsAreKnown'
    BY <2>1, <2>2 DEF Typed, SomethingShows, OriginalsAreKnown
  <2>4. OriginalsAreRows'
    BY <2>1 DEF OriginalsAreRows
  <2> QED BY <2>3, <2>4
<1>4. ASSUME Editing PROVE registered' = registered /\ Registered'
  <2>1. registered' = registered
    BY <1>4 DEF Editing, PressArrow, ToggleVisibility, BeginDrag, UpdateDrag, ReleaseDrag,
                CancelDrag, ReopenSettings, UserEdit, turning
  <2> QED BY <1>1, <2>1 DEF Registered
<1>5. << >> \in Seq(Entries)
  OBVIOUS
<1>6. CASE PressArrow
  <2>1. /\ drag' = NoPage /\ original' = original /\ stored' = edited'
    BY <1>6 DEF PressArrow, Persist, dragVars
  <2>2. Rearranges
    BY <1>1, <1>6, PressIs
  <2>3. Tidy(edited') /\ SomethingShows'
    BY <1>1, <2>2, Rearranged DEF SomethingShows
  <2>4. Typed'
    BY <1>4, <1>6, <2>1, <2>3 DEF Typed, Editing
  <2> QED BY <2>1, <2>3, <2>4 DEF OriginalsAreKnown, OriginalsAreRows
<1>7. CASE ToggleVisibility
  <2>1. /\ drag' = NoPage /\ original' = original /\ stored' = edited'
    BY <1>7 DEF ToggleVisibility, Persist, dragVars
  <2>2. Tidy(edited') /\ SomethingShows'
    BY <1>1, <1>7, ToggleIs, ToggledIs DEF SomethingShows
  <2>3. Typed'
    BY <1>4, <1>7, <2>1, <2>2 DEF Typed, Editing
  <2> QED BY <2>1, <2>2, <2>3 DEF OriginalsAreKnown, OriginalsAreRows
<1>8. CASE BeginDrag
  <2>1. /\ edited' = edited /\ stored' = stored /\ original' = PageRows(edited)
        /\ \E i \in DOMAIN PageRows(edited) : drag' = PageRows(edited)[i][1]
    BY <1>8 DEF BeginDrag
  <2>2. PageRows(edited) \in Seq(Entries)
    BY <1>1, RowsAre
  <2>3. drag' \in Pages
    BY <2>1, <2>2, NamesAre
  <2>4. Typed'
    BY <1>1, <1>4, <1>8, <2>1, <2>2, <2>3 DEF Typed, Editing, Pages
  <2>5. SomethingShows'
    BY <2>1 DEF SomethingShows
  <2>6. OriginalsAreKnown'
    BY <1>1, <2>1, RowsAreKnown DEF OriginalsAreKnown
  <2>7. OriginalsAreRows'
    <3>1. PageRows(edited)' = PageRows(edited)
      BY <1>4, <1>8, <2>1, AfterIs DEF Editing
    <3> QED BY <2>1, <3>1 DEF OriginalsAreRows
  <2> QED BY <2>4, <2>5, <2>6, <2>7
<1>9. CASE UpdateDrag
  <2>1. /\ drag # NoPage /\ stored' = stored /\ drag' = drag /\ original' = original
        /\ steady' = steady
    BY <1>9 DEF UpdateDrag, dragVars
  <2>2. edited' = edited \/ Rearranges
    BY <1>1, <1>9, DraggedIs DEF UpdateDrag
  <2>3. registered' = registered /\ Registered'
    BY <1>4, <1>9 DEF Editing
  <2>4. CASE edited' = edited
    <3>1. Typed' /\ SomethingShows' /\ OriginalsAreKnown'
      BY <2>1, <2>3, <2>4 DEF Typed, SomethingShows, OriginalsAreKnown
    <3>2. OriginalsAreRows'
      BY <2>1, <2>3, <2>4, AfterIs DEF OriginalsAreRows
    <3> QED BY <3>1, <3>2
  <2>5. CASE Rearranges
    <3>1. Tidy(edited') /\ SomethingShows'
      BY <1>1, <2>5, Rearranged DEF SomethingShows
    <3>2. Typed'
      BY <2>1, <2>3, <3>1 DEF Typed
    <3>3. OriginalsAreKnown'
      BY <1>1, <2>1, <2>5, Rearranged DEF OriginalsAreKnown
    <3>4. OriginalsAreRows'
      <4>1. /\ PageRows(edited)' = PageRows(edited')
            /\ FullPageOrder(edited)' = FullPageOrder(edited')
        BY <2>3, AfterIs
      <4>2. IsInjective(Names(FullPageOrder(edited'))) =>
              /\ IsInjective(Names(FullPageOrder(edited)))
              /\ Len(PageRows(edited')) = Len(PageRows(edited))
              /\ Range(PageRows(edited')) = Range(PageRows(edited))
        BY <1>1, <2>5, Rearranged
      <4> QED BY <2>1, <4>1, <4>2 DEF OriginalsAreRows
    <3> QED BY <3>1, <3>2, <3>3, <3>4
  <2> QED BY <2>2, <2>4, <2>5
<1>10. CASE ReleaseDrag
  <2>1. /\ drag' = NoPage /\ original' = << >> /\ (stored' = edited' \/ stored' = stored)
    BY <1>10 DEF ReleaseDrag, EndDrag, Persist
  <2>2. edited' = edited \/ Rearranges
    BY <1>1, <1>10, DraggedIs DEF ReleaseDrag
  <2>3. Tidy(edited') /\ SomethingShows'
    BY <1>1, <2>2, Rearranged DEF SomethingShows
  <2>4. Typed'
    BY <1>1, <1>4, <1>5, <1>10, <2>1, <2>3 DEF Typed, Editing
  <2> QED BY <2>1, <2>3, <2>4 DEF OriginalsAreKnown, OriginalsAreRows
<1>11. CASE CancelDrag
  <2>1. /\ drag # NoPage /\ drag' = NoPage /\ original' = << >> /\ stored' = stored
        /\ edited' = SetPageOrder(Rewritten(FullPageOrder(edited), original))
    BY <1>11 DEF CancelDrag, EndDrag, SetPageRows
  <2>2. original \in Seq(Entries) /\ \A x \in Range(original) : Known(x, OrderOf(edited))
    BY <2>1 DEF Typed, OriginalsAreKnown
  <2>3. Tidy(edited') /\ SomethingShows'
    BY <1>1, <2>1, <2>2, RowsBackShow DEF SomethingShows
  <2>4. Typed'
    BY <1>1, <1>4, <1>5, <1>11, <2>1, <2>3 DEF Typed, Editing
  <2> QED BY <2>1, <2>3, <2>4 DEF OriginalsAreKnown, OriginalsAreRows
<1>12. CASE ReopenSettings
  <2>1. /\ drag' = NoPage /\ original' = << >> /\ stored' = stored
        /\ edited' = NormalizeExpandedPages(stored)
    BY <1>12 DEF ReopenSettings, EndDrag
  <2>2. Tidy(edited') /\ SomethingShows'
    BY <1>1, <2>1, NormalizedIs DEF SomethingShows, Shows
  <2>3. Typed'
    BY <1>1, <1>4, <1>5, <1>12, <2>1, <2>2 DEF Typed, Editing
  <2> QED BY <2>1, <2>2, <2>3 DEF OriginalsAreKnown, OriginalsAreRows
<1> QED BY <1>2, <1>3, <1>6, <1>7, <1>8, <1>9, <1>10, <1>11, <1>12 DEF PagesNext, Editing

THEOREM PagesHold == PagesSpec => []PagesInv
<1>1. PagesInit => PagesInv
  BY InitInv
<1>2. PagesInv /\ [PagesNext]_pageVars => PagesInv'
  BY PagesStep
<1> QED BY <1>1, <1>2, PTL DEF PagesSpec

(* The lists, the plugins' pages and the drag keep their types, and no     *)
(* page is registered twice.                                               *)
THEOREM PagesTyped == PagesSpec => []PagesTypeOK
<1>1. PagesInv => PagesTypeOK
  BY DEF PagesInv, Typed, PagesTypeOK, Tidy, Registered
<1> QED BY <1>1, PagesHold, PTL

-----------------------------------------------------------------------------
(* What is listed is what is shown.                                        *)

LEMMA ListedShown == ASSUME PagesInv PROVE ListedIsShown
<1> SUFFICES ASSUME NEW Available \in {Builtin, Builtin \ {"music"}}, Whole(OrderOf(edited))
             PROVE  LET Visible(entry) == ~entry[2] /\ (\/ entry[1] \in PluginPage
                                                       \/ entry[1] \in Available)
                        rows    == PageRows(edited)
                        visible == Names(Among(rows, {k \in DOMAIN rows : Visible(rows[k])}))
                    IN ExpandedPages(NormalizeExpandedPages(edited), Available)
                         = IF visible = << >> THEN <<"widgets">> ELSE visible
  BY DEF ListedIsShown
<1> DEFINE Visible(entry) == ~entry[2] /\ (entry[1] \in PluginPage \/ entry[1] \in Available)
           Shown(entry) == ~entry[2] /\ (entry[1] \in Available \/ entry[1] \in Range(registered))
           e == OrderOf(edited)
           N == New(e)
           full == FullPageOrder(edited)
           R == Rows(full)
           rows == PageRows(edited)
           J == {k \in DOMAIN rows : Visible(rows[k])}
           K == {i \in R : Visible(full[i])}
           I == {i \in DOMAIN e : Shown(e[i])}
<1>1. Registered /\ Tidy(edited) /\ e = OrderOf(edited) /\ e \in Seq(Entries)
  BY RowsAre DEF PagesInv, Typed
<1>2. NormalizeExpandedPages(edited) = edited
  BY <1>1, NormalizedSame DEF PagesInv, SomethingShows, Shows
<1>3. /\ full \in Seq(Entries) /\ rows = Among(full, R) /\ R \in SUBSET (DOMAIN full)
      /\ rows \in Seq(Entries) /\ Len(rows) = Cardinality(R)
  BY <1>1, RowsAre
<1>4. full = e \o N
  BY DEF FullPageOrder
<1>5. /\ N \in Seq(Entries)
      /\ \A x \in Range(N) : x[1] \in PluginPage /\ x[2] = FALSE /\ x[1] \in Range(registered)
  <2> HIDE DEF e
  <2> QED BY <1>1, NewIs DEF Registered
<1>6. \A i \in R : Listed(full[i][1])
  BY DEF Rows
<1>7. \A i \in DOMAIN full : Listed(full[i][1]) => i \in R
  BY DEF Rows
<1>8. Range(registered) \subseteq PluginPage
  BY <1>1, LenProperties, ElementOfSeq DEF Registered, Range
<1>9. ASSUME NEW x \in Entries PROVE Listed(x[1]) /\ Visible(x) <=> Shown(x)
  <2>1. Available \subseteq Builtin /\ Builtin \cap PluginPage = {}
    BY PagesAssumption
  <2> QED BY <1>8, <2>1 DEF Listed
<1> HIDE DEF Visible, Shown, e, N, full, R, rows
<1>10. Among(rows, J) = Among(full, K)
  <2>1. DOMAIN rows = 1..Cardinality(R)
    BY <1>3, LenProperties
  <2>2. J \in SUBSET (1..Cardinality(R))
    BY <2>1
  <2>3. /\ \A k \in 1..Cardinality(R) : rows[k] = full[Nth(R, k)]
        /\ \A i \in R : Rank(R, i) \in 1..Cardinality(R) /\ rows[Rank(R, i)] = full[i]
    BY <1>3, AmongIs
  <2>4. {i \in R : Rank(R, i) \in J} = K
    BY <2>1, <2>3
  <2> HIDE DEF J, K
  <2> QED BY <1>3, <2>2, <2>4, AmongAmong
<1>11. Among(full, K) = Among(e, I) \o Among(N, DOMAIN N)
  <2>1. /\ Len(e) \in Nat /\ DOMAIN e = 1..Len(e) /\ Len(N) \in Nat /\ DOMAIN N = 1..Len(N)
        /\ DOMAIN full = 1..(Len(e) + Len(N))
        /\ \A i \in 1..(Len(e) + Len(N)) : full[i] = IF i <= Len(e) THEN e[i] ELSE N[i - Len(e)]
    BY <1>1, <1>4, <1>5, ConcatProperties, LenProperties
  <2>2. \A i \in DOMAIN e : i \in K <=> i \in I
    <3> SUFFICES ASSUME NEW i \in DOMAIN e PROVE i \in K <=> i \in I
      OBVIOUS
    <3>1. i \in DOMAIN full /\ full[i] = e[i]
      BY <2>1
    <3>2. e[i] \in Entries
      BY <1>1, NamesAre
    <3> QED BY <1>6, <1>7, <1>9, <3>1, <3>2
  <2>3. \A j \in DOMAIN N : Len(e) + j \in K
    <3> SUFFICES ASSUME NEW j \in DOMAIN N PROVE Len(e) + j \in K
      OBVIOUS
    <3>1. Len(e) + j \in DOMAIN full /\ full[Len(e) + j] = N[j]
      BY <2>1
    <3>2. N[j] \in Entries /\ N[j] \in Range(N)
      BY <1>5, NamesAre DEF Range
    <3>3. Shown(N[j])
      BY <1>5, <3>2 DEF Shown
    <3> QED BY <1>7, <1>9, <3>1, <3>2, <3>3
  <2> DEFINE D == DOMAIN N
  <2>4. K \in SUBSET (DOMAIN full) /\ I \in SUBSET (DOMAIN e) /\ D \in SUBSET (DOMAIN N)
    BY <1>3
  <2>5. \A j \in DOMAIN N : Len(e) + j \in K <=> j \in D
    BY <2>3
  <2>6. N \in Seq(Entries)
    BY <1>5
  <2> HIDE DEF K, I, D
  <2>7. Joins(full, K, e, I, N, D)
    BY <1>4, <2>2, <2>4, <2>5 DEF Joins
  <2>8. e \in Seq(Entries) /\ I \in SUBSET (DOMAIN e) /\ D \in SUBSET (DOMAIN N)
    BY <1>1, <2>4
  <2>9. Among(full, K) = Among(e, I) \o Among(N, D)
    BY ONLY <2>6, <2>7, <2>8, AmongConcat
  <2> QED BY <2>9 DEF D
<1>12. Among(N, DOMAIN N) = N
  BY <1>5, AmongAll
<1>13. Among(rows, J) = Among(e, I) \o N
  BY <1>10, <1>11, <1>12
<1>14. ExpandedPages(edited, Available)
         = IF Names(Among(e, I) \o N) = << >> THEN <<"widgets">> ELSE Names(Among(e, I) \o N)
  BY DEF ExpandedPages, e, I, N, Shown
<1>15. ExpandedPages(NormalizeExpandedPages(edited), Available)
         = IF Names(Among(rows, J)) = << >> THEN <<"widgets">> ELSE Names(Among(rows, J))
  BY <1>2, <1>13, <1>14
<1> QED BY <1>15 DEF J, rows, Visible

(* Where no page has lost its place and none is repeated, the settings     *)
(* window lists what the island shows of the same configuration, in the    *)
(* same order, at every moment of its edits and of the plugins' turns.     *)
THEOREM ListIsWhatIsShown == PagesSpec => []ListedIsShown
<1>1. PagesInv => ListedIsShown
  BY ListedShown
<1> QED BY <1>1, PagesHold, PTL

-----------------------------------------------------------------------------
(* What is done to the rows.                                               *)

LEMMA KeptByRows ==
  ASSUME Typed, NEW rows \in Seq(Entries),
         Len(rows) = Len(PageRows(edited)), Range(rows) = Range(PageRows(edited)),
         edited' = SetPageRows(rows), IsInjective(Names(FullPageOrder(edited)))
  PROVE  /\ Len(FullPageOrder(edited')) = Len(FullPageOrder(edited))
         /\ Range(Names(FullPageOrder(edited'))) = Range(Names(FullPageOrder(edited)))
         /\ \A i \in DOMAIN FullPageOrder(edited) :
              i \notin Rows(FullPageOrder(edited)) =>
                FullPageOrder(edited')[i] = FullPageOrder(edited)[i]
         /\ IsShown(FullPageOrder(edited)) => IsShown(FullPageOrder(edited'))
         /\ PageRows(edited') = rows
<1> DEFINE full == FullPageOrder(edited)
           e == Rewritten(full, rows)
<1>1. full = FullPageOrder(edited) /\ e = Rewritten(full, rows) /\ edited' = SetPageOrder(e)
  BY DEF SetPageRows
<1> HIDE DEF full, e
<1>2. Registered /\ Tidy(edited)
  BY DEF Typed
<1>3. /\ e \in Seq(Entries) /\ Len(e) = Len(full) /\ Range(e) = Range(full)
      /\ Range(Names(e)) = Range(Names(full))
      /\ \A i \in DOMAIN full : i \notin Rows(full) => e[i] = full[i]
      /\ FullPageOrder(edited') = e /\ PageRows(edited') = rows
  BY <1>1, <1>2, RowsMoved
<1>4. ASSUME IsShown(full) PROVE IsShown(e)
  <2>1. PICK i \in DOMAIN full : Listed(full[i][1]) /\ ~full[i][2]
    BY <1>4 DEF IsShown
  <2>2. full[i] \in Range(e)
    BY <1>3 DEF Range
  <2>3. PICK j \in DOMAIN e : e[j] = full[i]
    BY <2>2 DEF Range
  <2> QED BY <2>1, <2>3 DEF IsShown
<1> QED BY <1>1, <1>3, <1>4

LEMMA KeptByToggle ==
  ASSUME Typed, Toggles, IsInjective(Names(FullPageOrder(edited)))
  PROVE  /\ Len(FullPageOrder(edited')) = Len(FullPageOrder(edited))
         /\ Range(Names(FullPageOrder(edited'))) = Range(Names(FullPageOrder(edited)))
         /\ \A i \in DOMAIN FullPageOrder(edited) :
              i \notin Rows(FullPageOrder(edited)) =>
                FullPageOrder(edited')[i] = FullPageOrder(edited)[i]
         /\ IsShown(FullPageOrder(edited'))
<1>1. PICK r \in DOMAIN PageRows(edited) :
        /\ ~ToggleLocked(PageRows(edited), PageRows(edited)[r][1])
        /\ edited' = SetPageRows(Toggled(PageRows(edited), r))
  BY DEF Toggles
<1> DEFINE p == PageRows(edited)
           full == FullPageOrder(edited)
           rows == Toggled(p, r)
           e == Rewritten(full, rows)
           q == Nth(Rows(full), r)
<1>2. full = FullPageOrder(edited) /\ e = Rewritten(full, rows) /\ edited' = SetPageOrder(e)
      /\ rows = Toggled(p, r) /\ p = PageRows(edited) /\ r \in DOMAIN p
      /\ ~ToggleLocked(p, p[r][1])
  BY <1>1 DEF SetPageRows
<1>3. Registered /\ Tidy(edited)
  BY DEF Typed
<1>4. /\ full \in Seq(Entries) /\ p \in Seq(Entries) /\ Rows(full) \in SUBSET (DOMAIN full)
      /\ Range(p) = {full[i] : i \in Rows(full)}
  BY <1>3, RowsAre
<1> HIDE DEF full, e, rows
<1>5. /\ e \in Seq(Entries) /\ Len(e) = Len(full) /\ Names(e) = Names(full)
      /\ FullPageOrder(edited') = Kept(e)
      /\ q \in Rows(full) /\ full[q] = p[r] /\ e[q][2] = ~p[r][2]
      /\ \A i \in DOMAIN full : i # q => e[i] = full[i]
  BY <1>2, <1>3, RowToggled
<1>6. FullPageOrder(edited') = e
  BY <1>2, <1>5, KeptSame
<1> HIDE DEF p, q
<1>7. /\ DOMAIN e = DOMAIN full /\ q \in DOMAIN full
      /\ \A i \in DOMAIN full : e[i][1] = full[i][1]
  <2>1. DOMAIN e = DOMAIN full /\ q \in DOMAIN full
    BY <1>4, <1>5, LenProperties
  <2>2. \A i \in DOMAIN full : e[i][1] = Names(e)[i] /\ full[i][1] = Names(full)[i]
    BY <1>4, <1>5, <2>1, NamesAre
  <2> QED BY <1>5, <2>1, <2>2
<1>8. \A i \in Rows(full) : Listed(full[i][1])
  BY DEF Rows
<1>9. IsShown(e)
  <2>1. p[r][2] \in BOOLEAN
    BY <1>2, <1>4, NamesAre
  <2>2. CASE p[r][2] = TRUE
    <3>1. e[q][2] = FALSE /\ Listed(e[q][1])
      BY <1>5, <1>7, <1>8, <2>2
    <3> QED BY <1>7, <3>1 DEF IsShown
  <2>3. CASE p[r][2] = FALSE
    <3>1. PICK j \in DOMAIN p : ~(p[j][2] \/ p[j][1] = p[r][1])
      BY <1>2, <2>3 DEF ToggleLocked
    <3>2. p[j] \in Range(p)
      BY DEF Range
    <3>3. PICK i \in Rows(full) : full[i] = p[j]
      BY <1>4, <3>2
    <3>4. i # q /\ i \in DOMAIN full
      BY <1>4, <1>5, <3>1, <3>3
    <3>5. e[i] = p[j] /\ Listed(e[i][1]) /\ ~e[i][2]
      BY <1>5, <1>7, <1>8, <3>1, <3>3, <3>4
    <3> QED BY <1>7, <3>4, <3>5 DEF IsShown
  <2> QED BY <2>1, <2>2, <2>3
<1>10. \A i \in DOMAIN full : i \notin Rows(full) => e[i] = full[i]
  BY <1>5
<1> QED BY <1>2, <1>5, <1>6, <1>9, <1>10

KeepsRows ==
  edits' # edits /\ (drag = NoPage \/ steady) /\ ~ReopenSettings =>
    \A full \in {FullPageOrder(edited)}, full2 \in {FullPageOrder(edited')} :
      IsInjective(Names(full)) =>
        /\ Len(full2) = Len(full) /\ Range(Names(full2)) = Range(Names(full))
        /\ \A i \in DOMAIN full : i \notin Rows(full) => full2[i] = full[i]
        /\ IsShown(full) => IsShown(full2)
        /\ CancelDrag => PageRows(edited') = original

LEMMA RowsStep ==
  ASSUME PagesInv, [PagesNext]_pageVars PROVE KeepsRows
<1> DEFINE full == FullPageOrder(edited)
           full2 == FullPageOrder(edited')
<1> SUFFICES ASSUME edits' # edits, drag = NoPage \/ steady, ~ReopenSettings,
                    IsInjective(Names(full))
             PROVE  /\ Len(full2) = Len(full) /\ Range(Names(full2)) = Range(Names(full))
                    /\ \A i \in DOMAIN full : i \notin Rows(full) => full2[i] = full[i]
                    /\ IsShown(full) => IsShown(full2)
                    /\ CancelDrag => PageRows(edited') = original
  BY DEF KeepsRows
<1>1. Typed
  BY DEF PagesInv
<1>2. Editing
  BY DEF PagesNext, EnablePage, pageVars
<1>3. CASE CancelDrag
  <2>1. drag # NoPage /\ edited' = SetPageRows(original)
    BY <1>3 DEF CancelDrag
  <2>2. /\ original \in Seq(Entries) /\ Len(original) = Len(PageRows(edited))
        /\ Range(original) = Range(PageRows(edited))
    BY <2>1 DEF PagesInv, Typed, OriginalsAreRows
  <2> QED BY <1>1, <2>1, <2>2, KeptByRows
<1>4. CASE ~CancelDrag /\ Rearranges
  <2>1. PICK rows \in Seq(Entries) :
          /\ Len(rows) = Len(PageRows(edited)) /\ Range(rows) = Range(PageRows(edited))
          /\ edited' = SetPageRows(rows)
    BY <1>4 DEF Rearranges
  <2> QED BY <1>1, <1>4, <2>1, KeptByRows
<1>5. CASE ~CancelDrag /\ Toggles
  BY <1>1, <1>5, KeptByToggle
<1>6. CASE ~CancelDrag /\ edited' = edited
  BY <1>6
<1>7. CASE ~CancelDrag /\ ~Rearranges /\ ~Toggles
  <2>1. BeginDrag \/ UpdateDrag \/ ReleaseDrag
    BY <1>1, <1>2, <1>7, PressIs, ToggleIs DEF Editing
  <2>2. edited' = edited
    BY <1>1, <1>7, <2>1, DraggedIs DEF BeginDrag, UpdateDrag, ReleaseDrag
  <2> QED BY <1>6, <1>7, <2>2
<1> QED BY <1>3, <1>4, <1>5, <1>6, <1>7

(* While no plugin page comes or goes, no arrow, check box or drag loses   *)
(* or repeats a page, hides the last one or moves a page that is not       *)
(* listed, and a drag that is cancelled leaves the rows as they were.      *)
THEOREM RowsStay == PagesSpec => RowsAreKept
<1>1. PagesInv /\ [PagesNext]_pageVars => KeepsRows
  BY RowsStep
<1> QED BY <1>1, PagesHold, PTL DEF PagesSpec, RowsAreKept, KeepsRows
=============================================================================
